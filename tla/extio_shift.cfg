SPECIFICATION Spec
CONSTANTS
    Width = 2
    InBytes = 3
INVARIANTS InputsInPlace
PROPERTIES RelaysNeverMixed
