-------------------------- MODULE ExtioShiftProofs --------------------------
(***************************************************************************)
(* Proofs about ExtioShift, for chips and chains of every length: a pass   *)
(* latches the relays as requested and reads every input into its bit.     *)
(***************************************************************************)
EXTENDS ExtioShift, TLAPS

LEMMA WidthFacts == Width \in Nat /\ Width >= 1 /\ InBytes \in Nat /\ InBytes >= 1
    BY WidthAssumption

-----------------------------------------------------------------------------
(* The relays.  After c pulses the first c stages hold the c highest bits  *)
(* of the request and the work byte the others, moved up.                  *)

SendInv ==
    /\ clocks \in 0..Width
    /\ pc = "write" =>
        /\ \A b \in clocks..Width - 1 : work[b] = output[b - clocks]
        /\ \A s \in 1..clocks : outReg[s] = output[Width - clocks + s - 1]
    /\ outReg \in [1..Width -> Bit]
    /\ output \in Byte /\ work \in Byte /\ alarmPin \in Bit

LEMMA ShiftType ==
    ASSUME NEW byte \in Byte, NEW pin \in Bit
    PROVE  ShiftIn(byte, pin) \in Byte
<1>1. ASSUME NEW b \in 0..Width - 1
      PROVE  (IF b = 0 THEN pin ELSE byte[b - 1]) \in Bit
    BY WidthFacts DEF Byte
<1> QED
    BY <1>1 DEF ShiftIn, Byte

LEMMA ZeroType == Zero \in Byte /\ 0 \in Bit
    BY DEF Zero, Byte, Bit

\* What a pulse does to the output register.
LEMMA ClockOut ==
    ASSUME outReg \in [1..Width -> Bit], NEW pin \in Bit,
           outReg' = [s \in 1..Width |-> IF s = 1 THEN pin ELSE outReg[s - 1]]
    PROVE  /\ outReg' \in [1..Width -> Bit]
           /\ outReg'[1] = pin
           /\ \A s \in 2..Width : outReg'[s] = outReg[s - 1]
<1>1. ASSUME NEW s \in 1..Width
      PROVE  (IF s = 1 THEN pin ELSE outReg[s - 1]) \in Bit
    BY WidthFacts
<1>2. outReg' \in [1..Width -> Bit]
    BY <1>1
<1>3. 1 \in 1..Width /\ \A s \in 2..Width : s \in 1..Width /\ s # 1
    BY WidthFacts
<1> QED
    BY <1>2, <1>3

LEMMA SendStep == SendInv /\ [Next]_vars => SendInv'
<1> SUFFICES ASSUME SendInv, [Next]_vars PROVE SendInv'
    OBVIOUS
<1> USE DEF program
<1>t. /\ clocks \in 0..Width /\ outReg \in [1..Width -> Bit]
      /\ output \in Byte /\ work \in Byte /\ alarmPin \in Bit
    BY DEF SendInv
<1>1. CASE BeginOutput
  <2>1. /\ work' = output /\ output' = output /\ clocks' = 0
        /\ UNCHANGED <<outReg, alarmPin>>
    BY <1>1 DEF BeginOutput
  <2>2. \A b \in 0..Width - 1 : work'[b] = output'[b - 0]
    BY <2>1
  <2>3. \A s \in 1..0 : outReg'[s] = output'[Width - 0 + s - 1]
    OBVIOUS
  <2>4. 0 \in 0..Width
    BY WidthFacts
  <2> QED
    BY <1>t, <2>1, <2>2, <2>3, <2>4 DEF SendInv
<1>2. CASE extio_write
  <2>1. /\ pc = "write" /\ clocks < Width /\ clocks' = clocks + 1 /\ output' = output
        /\ work' = ShiftIn(work, 0) /\ alarmPin' = work[Width - 1]
        /\ outReg' = [s \in 1..Width |-> IF s = 1 THEN work[Width - 1] ELSE outReg[s - 1]]
    BY <1>2 DEF extio_write, Clock, ShiftLeft, SentBit
  <2>2. work[Width - 1] \in Bit /\ Width - 1 \in clocks..Width - 1
    BY <1>t, <2>1, WidthFacts DEF Byte
  <2>3. /\ \A b \in clocks..Width - 1 : work[b] = output[b - clocks]
        /\ \A s \in 1..clocks : outReg[s] = output[Width - clocks + s - 1]
    BY <2>1 DEF SendInv
  <2>4. /\ outReg' \in [1..Width -> Bit] /\ outReg'[1] = work[Width - 1]
        /\ \A s \in 2..Width : outReg'[s] = outReg[s - 1]
    BY <1>t, <2>1, <2>2, ClockOut
  <2>5. ASSUME NEW b \in clocks + 1..Width - 1 PROVE work'[b] = output'[b - (clocks + 1)]
    <3>1. b \in 0..Width - 1 /\ b # 0 /\ b - 1 \in clocks..Width - 1
          /\ (b - 1) - clocks = b - (clocks + 1)
      BY <1>t, <2>1, WidthFacts
    <3>2. work'[b] = work[b - 1]
      BY <2>1, <3>1 DEF ShiftIn
    <3> QED
      BY <2>1, <2>3, <3>1, <3>2
  <2>6. ASSUME NEW s \in 1..clocks + 1
        PROVE  outReg'[s] = output'[Width - (clocks + 1) + s - 1]
    <3>1. CASE s = 1
      <4>1. (Width - 1) - clocks = Width - (clocks + 1) + s - 1
        BY <1>t, <3>1, WidthFacts
      <4> QED
        BY <2>1, <2>2, <2>3, <2>4, <3>1, <4>1
    <3>2. CASE s # 1
      <4>1. s \in 2..Width /\ s - 1 \in 1..clocks
            /\ Width - clocks + (s - 1) - 1 = Width - (clocks + 1) + s - 1
        BY <1>t, <2>1, <3>2, WidthFacts
      <4> QED
        BY <2>1, <2>3, <2>4, <4>1
    <3> QED
      BY <3>1, <3>2
  <2>7. clocks + 1 \in 0..Width
    BY <1>t, <2>1, WidthFacts
  <2>8. work' \in Byte
    BY <1>t, <2>1, ShiftType, ZeroType
  <2> QED
    BY <1>t, <2>1, <2>2, <2>4, <2>5, <2>6, <2>7, <2>8 DEF SendInv
<1>3. CASE extio_read
  <2>1. /\ pc' = "read" /\ clocks < Width /\ clocks' = clocks + 1
        /\ UNCHANGED <<work, output, alarmPin>>
        /\ outReg' = [s \in 1..Width |-> IF s = 1 THEN alarmPin ELSE outReg[s - 1]]
    BY <1>3 DEF extio_read, Clock
  <2>2. outReg' \in [1..Width -> Bit]
    BY <1>t, <2>1, ClockOut
  <2>3. clocks + 1 \in 0..Width
    BY <1>t, <2>1, WidthFacts
  <2> QED
    BY <1>t, <2>1, <2>2, <2>3 DEF SendInv
<1>4. CASE Request
    BY <1>t, <1>4 DEF Request, SendInv
<1>5. CASE Latch \/ Load
    BY <1>t, <1>5, WidthFacts DEF Latch, Load, SendInv
<1>6. CASE ReadUnclocked
    BY <1>t, <1>6, WidthFacts DEF ReadUnclocked, SendInv
<1>7. CASE NextByte
    BY <1>t, <1>7, WidthFacts DEF NextByte, SendInv
<1>8. CASE EndPass \/ UNCHANGED vars
    BY <1>8 DEF EndPass, vars, SendInv
<1> QED
    BY <1>1, <1>2, <1>3, <1>4, <1>5, <1>6, <1>7, <1>8 DEF Next, extio_output, extio_input

LEMMA SendInit == Init => SendInv
<1> SUFFICES ASSUME Init PROVE SendInv
    OBVIOUS
<1>1. pc = "output" /\ clocks = 0 /\ work = Zero /\ output = Zero /\ alarmPin = 0
      /\ outReg \in [1..Width -> Bit]
    BY DEF Init
<1>2. 0 \in 0..Width
    BY WidthFacts
<1> QED
    BY <1>1, <1>2, ZeroType DEF SendInv

\* The latch takes over a whole request.
LEMMA LatchStep == SendInv /\ [Next]_vars => (relay' # relay => relay' = Requested)
<1> SUFFICES ASSUME SendInv, [Next]_vars, relay' # relay PROVE relay' = Requested
    OBVIOUS
<1> USE DEF program
<1>1. Latch
    BY DEF Next, Request, extio_output, extio_input, BeginOutput, extio_write, Load,
           ReadUnclocked, extio_read, NextByte, EndPass, vars
<1>2. /\ relay' = outReg /\ outReg \in [1..Width -> Bit]
      /\ clocks = Width /\ \A s \in 1..clocks : outReg[s] = output[Width - clocks + s - 1]
    BY <1>1 DEF Latch, SendInv
<1>3. ASSUME NEW s \in 1..Width PROVE outReg[s] = output[s - 1]
  <2>1. Width - clocks + s - 1 = s - 1
    BY <1>2, WidthFacts
  <2> QED
    BY <1>2, <2>1
<1> QED
    BY <1>2, <1>3 DEF Requested

\* Whatever passes through the output register, extio_output latches one
\* request of set_alarm and clr_alarm as a whole, for every number of relays.
THEOREM RelaysWhole == Spec => RelaysNeverMixed
    BY SendInit, SendStep, LatchStep, PTL DEF Spec, RelaysNeverMixed

-----------------------------------------------------------------------------
(* The inputs.  Bytes are read from the last to the first; Base(n) bits    *)
(* come before those of byte n.                                            *)

Base(n) == (InBytes - 1 - n) * Width

LEMMA Times ==
    ASSUME NEW k \in Nat, NEW m \in Nat, NEW w \in Nat
    PROVE  /\ k * w \in Nat /\ w * k = k * w
           /\ (k + 1) * w = k * w + w
           /\ k <= m => k * w <= m * w
<1>1. k * w \in Nat /\ w * k = k * w /\ (k + 1) * w = k * w + w
    OBVIOUS
<1>2. ASSUME k <= m PROVE k * w <= m * w
  <2>1. m - k \in Nat /\ m = (m - k) + k
    BY <1>2
  <2>2. (m - k) * w \in Nat
    BY <2>1
  <2>3. m * w = (m - k) * w + k * w
    BY <2>1
  <2> QED
    BY <1>1, <2>2, <2>3
<1> QED
    BY <1>1, <1>2

LEMMA BaseFacts ==
    /\ Lines \in Nat /\ Lines >= 1 /\ Base(InBytes - 1) = 0
    /\ \A n \in 0..InBytes - 1 : /\ Base(n) \in Nat /\ Base(n) + Width <= Lines
                                 /\ n # InBytes - 1 => Base(n) >= 1
                                 /\ n > 0 => Base(n - 1) = Base(n) + Width
                                 /\ Base(n) + Width = Lines - n * Width
<1>1. Lines \in Nat /\ Lines >= 1
    BY WidthFacts DEF Lines
<1>2. Base(InBytes - 1) = 0
  <2>1. InBytes - 1 - (InBytes - 1) = 0 /\ 0 * Width = 0
    BY WidthFacts
  <2> QED
    BY <2>1 DEF Base
<1>3. ASSUME NEW n \in 0..InBytes - 1
      PROVE  /\ Base(n) \in Nat /\ Base(n) + Width <= Lines
             /\ n # InBytes - 1 => Base(n) >= 1
             /\ n > 0 => Base(n - 1) = Base(n) + Width
             /\ Base(n) + Width = Lines - n * Width
  <2> DEFINE k == InBytes - 1 - n
  <2>1. k \in Nat /\ n \in Nat /\ InBytes = (k + 1) + n /\ k + 1 \in Nat
    BY WidthFacts
  <2>2. Base(n) = k * Width /\ Base(n) \in Nat /\ (k + 1) * Width = k * Width + Width
    BY <2>1, WidthFacts, Times DEF Base
  <2>3. Lines = (k + 1) * Width + n * Width /\ n * Width \in Nat
    BY <2>1, WidthFacts DEF Lines
  <2>4. n # InBytes - 1 => Base(n) >= 1
    <3>1. n # InBytes - 1 => 1 <= k
      BY <2>1
    <3>2. 1 <= k => 1 * Width <= k * Width
      BY <2>1, WidthFacts, Times
    <3> QED
      BY <2>2, <3>1, <3>2, WidthFacts
  <2>5. n > 0 => Base(n - 1) = Base(n) + Width
    <3>1. InBytes - 1 - (n - 1) = k + 1
      BY <2>1
    <3> QED
      BY <2>2, <3>1 DEF Base
  <2>6. Base(n) + Width = Lines - n * Width /\ Base(n) + Width <= Lines
    BY <2>2, <2>3, WidthFacts
  <2> QED
    BY <2>2, <2>4, <2>5, <2>6
<1> QED
    BY <1>1, <1>2, <1>3

\* The byte and the bit of an input.
LEMMA DivFacts ==
    ASSUME NEW x \in Nat, x < Lines
    PROVE  /\ x \div Width \in 0..InBytes - 1 /\ x % Width \in 0..Width - 1
           /\ x = (x \div Width) * Width + (x % Width)
<1>1. x \div Width \in Int /\ x % Width \in 0..Width - 1
    BY WidthFacts
<1>2. x = Width * (x \div Width) + (x % Width)
    BY WidthFacts
<1> QED
    BY <1>1, <1>2, WidthFacts DEF Lines

\* The bits read since the levels were loaded; the first took no pulse.
BitsRead == Base(num) + clocks
Pulses == IF BitsRead = 0 THEN 0 ELSE BitsRead - 1

Whole(n) == \A b \in 0..Width - 1 : buf[n][b] = levels[Base(n) + Width - b]
Begun == \A b \in 0..clocks - 1 : buf[num][b] = levels[Base(num) + clocks - b]
Moved(p) == \A s \in 1..Lines : s + p <= Lines => inReg[s] = levels[s + p]

\* The register holds the levels moved up by the pulses, each byte read its
\* part of them, and the byte being read what came so far.
ReadInv ==
    /\ num \in 0..InBytes - 1
    /\ buf \in [0..InBytes - 1 -> Byte]
    /\ inReg \in [1..Lines -> Bit] /\ levels \in [1..Lines -> Bit]
    /\ pc \in {"read", "check"} =>
        PE /\ Begun /\ Moved(Pulses) /\ \A n \in num + 1..InBytes - 1 : Whole(n)
    /\ pc = "check" => num = 0 /\ clocks = Width

\* A pulse moves the register on.
LEMMA ClockIn ==
    ASSUME inReg \in [1..Lines -> Bit], levels' = levels, NEW p \in Nat, Moved(p),
           NEW far \in Bit,
           inReg' = [s \in 1..Lines |-> IF s = Lines THEN far ELSE inReg[s + 1]]
    PROVE  inReg' \in [1..Lines -> Bit] /\ Moved(p + 1)'
<1>1. ASSUME NEW s \in 1..Lines
      PROVE  (IF s = Lines THEN far ELSE inReg[s + 1]) \in Bit
  <2>1. s # Lines => s + 1 \in 1..Lines
    BY BaseFacts
  <2> QED
    BY <2>1
<1>2. ASSUME NEW s \in 1..Lines, s + (p + 1) <= Lines PROVE inReg'[s] = levels'[s + (p + 1)]
  <2>1. s # Lines /\ s + 1 \in 1..Lines /\ (s + 1) + p <= Lines /\ (s + 1) + p = s + (p + 1)
    BY <1>2, BaseFacts
  <2>2. inReg[s + 1] = levels[(s + 1) + p]
    BY <2>1 DEF Moved
  <2> QED
    BY <2>1, <2>2
<1> QED
    BY <1>1, <1>2 DEF Moved

LEMMA ReadStep == SendInv /\ ReadInv /\ [Next]_vars => ReadInv'
<1> SUFFICES ASSUME SendInv, ReadInv, [Next]_vars PROVE ReadInv'
    OBVIOUS
<1> USE DEF program
<1>t. /\ num \in 0..InBytes - 1 /\ clocks \in 0..Width /\ buf \in [0..InBytes - 1 -> Byte]
      /\ inReg \in [1..Lines -> Bit] /\ levels \in [1..Lines -> Bit]
    BY DEF SendInv, ReadInv
<1>b. Base(num) \in Nat /\ Base(num) + Width <= Lines
    BY <1>t, BaseFacts
<1>1. CASE Load
  <2>1. /\ pc' = "read" /\ PE' = TRUE /\ levels' \in [1..Lines -> Bit] /\ inReg' = levels'
        /\ num' = InBytes - 1 /\ clocks' = 0 /\ buf' = buf
    BY <1>1 DEF Load
  <2>2. num' \in 0..InBytes - 1
    BY <2>1, WidthFacts
  <2>3. Pulses' = 0
    <3>1. Base(num') + clocks' = 0
      BY <2>1, BaseFacts
    <3> QED
      BY <3>1 DEF Pulses, BitsRead, Base
  <2>4. Moved(Pulses)'
    <3>1. \A s \in 1..Lines : s + 0 = s
      BY BaseFacts
    <3> QED
      BY <2>1, <2>3, <3>1 DEF Moved
  <2>5. Begun' /\ \A n \in num' + 1..InBytes - 1 : Whole(n)'
    BY <2>1, WidthFacts DEF Begun
  <2> QED
    BY <1>t, <2>1, <2>2, <2>4, <2>5 DEF ReadInv
\* A round of extio_read: pin is the next bit, byte what stood below it.
<1>r. ASSUME NEW byte \in Byte, NEW pin \in Bit,
             pc = "read", UNCHANGED <<pc, num, levels, PE>>, clocks < Width,
             clocks' = clocks + 1, pin = levels[Base(num) + clocks + 1],
             \A b \in 0..clocks - 1 : byte[b] = levels[Base(num) + clocks - b],
             buf' = [buf EXCEPT ![num] = ShiftIn(byte, pin)],
             inReg' \in [1..Lines -> Bit],
             NEW p \in Nat, p = Base(num) + clocks, Moved(p)'
      PROVE  ReadInv'
  <2>1. ShiftIn(byte, pin) \in Byte
    BY <1>r, ShiftType
  <2>2. /\ buf' \in [0..InBytes - 1 -> Byte] /\ buf'[num] = ShiftIn(byte, pin)
        /\ \A n \in num + 1..InBytes - 1 : buf'[n] = buf[n]
    BY <1>r, <1>t, <2>1, WidthFacts
  <2>3. clocks \in 0..Width - 1
    BY <1>r, <1>t, WidthFacts
  <2>4. ASSUME NEW b \in 0..(clocks + 1) - 1
        PROVE  ShiftIn(byte, pin)[b] = levels[Base(num) + (clocks + 1) - b]
    <3>1. b \in 0..Width - 1
      BY <2>3, WidthFacts
    <3>2. CASE b = 0
      <4>1. Base(num) + (clocks + 1) - b = Base(num) + clocks + 1
        BY <1>b, <2>3, <3>2, WidthFacts
      <4> QED
        BY <1>r, <3>1, <3>2, <4>1 DEF ShiftIn
    <3>3. CASE b # 0
      <4>1. b - 1 \in 0..clocks - 1
            /\ Base(num) + clocks - (b - 1) = Base(num) + (clocks + 1) - b
        BY <1>b, <2>3, <3>3, WidthFacts
      <4>2. ShiftIn(byte, pin)[b] = byte[b - 1]
        BY <3>1, <3>3 DEF ShiftIn
      <4> QED
        BY <1>r, <4>1, <4>2
    <3> QED
      BY <3>2, <3>3
  <2>5. Begun'
    BY <1>r, <2>2, <2>4 DEF Begun, Base
  <2>6. \A n \in num' + 1..InBytes - 1 : Whole(n)'
    BY <1>r, <2>2 DEF ReadInv, Whole, Base
  <2>7. Pulses' = p
    <3>1. Base(num') + clocks' = Base(num) + clocks + 1
      BY <1>r, <1>t, <1>b, WidthFacts
    <3>2. Base(num) + clocks + 1 # 0 /\ (Base(num) + clocks + 1) - 1 = Base(num) + clocks
      BY <1>b, <2>3, WidthFacts
    <3> QED
      BY <1>r, <3>1, <3>2 DEF Pulses, BitsRead, Base
  <2>8. Moved(Pulses)'
    BY <1>r, <2>7 DEF Moved
  <2> QED
    BY <1>r, <1>t, <2>2, <2>5, <2>6, <2>8 DEF ReadInv
<1>2. CASE ReadUnclocked
  <2>1. /\ pc = "read" /\ clocks = 0 /\ num = InBytes - 1 /\ clocks' = 1
        /\ buf' = [buf EXCEPT ![num] = ShiftIn(Zero, inReg[1])]
        /\ UNCHANGED <<pc, num, levels, PE, inReg>>
    BY <1>2 DEF ReadUnclocked
  <2>2. BitsRead = 0 /\ Base(num) = 0 /\ Base(num) + clocks = 0
    BY <2>1, BaseFacts DEF BitsRead
  <2>3. Moved(0)
    BY <2>1, <2>2 DEF ReadInv, Pulses
  <2>4. 1 \in 1..Lines /\ 1 + 0 <= Lines /\ 1 + 0 = 1
    BY BaseFacts
  <2>5. inReg[1] = levels[1] /\ inReg[1] \in Bit
    BY <1>t, <2>3, <2>4 DEF Moved
  <2>6. Moved(0)'
    BY <2>1, <2>3 DEF Moved
  <2>7. clocks < Width /\ clocks' = clocks + 1 /\ Base(num) + clocks + 1 = 1
    BY <2>1, <2>2, WidthFacts
  <2>8. \A b \in 0..clocks - 1 : Zero[b] = levels[Base(num) + clocks - b]
    BY <2>1
  <2>9. inReg' \in [1..Lines -> Bit]
    BY <1>t, <2>1
  <2> QED
    BY <1>r, <2>1, <2>2, <2>5, <2>6, <2>7, <2>8, <2>9, ZeroType
<1>3. CASE extio_read
  <2>1. /\ pc = "read" /\ clocks >= FirstClock /\ clocks < Width /\ clocks' = clocks + 1
        /\ UNCHANGED <<pc, num, levels, PE>>
        /\ buf' = [buf EXCEPT ![num] =
                     ShiftIn(IF clocks = 0 THEN Zero ELSE buf[num], inReg'[1])]
        /\ Clock(alarmPin)
    BY <1>3 DEF extio_read
  <2>2. PE /\ Begun /\ Moved(Pulses)
    BY <2>1 DEF ReadInv
  <2>3. PICK far \in Bit :
           inReg' = [s \in 1..Lines |-> IF s = Lines THEN far ELSE inReg[s + 1]]
    BY <2>1, <2>2 DEF Clock
  <2>4. PICK p \in Nat : p = Base(num) + clocks
    BY <1>b, <1>t, WidthFacts
  <2>5. p >= 1 /\ p - 1 \in Nat /\ (p - 1) + 1 = p /\ p + 1 <= Lines
    <3>0. clocks \in Nat /\ p \in Nat /\ Width \in Nat /\ Lines \in Nat
      BY <1>t, WidthFacts, BaseFacts
    <3>1. clocks >= 1 \/ Base(num) >= 1
      <4>1. CASE num = InBytes - 1
        <5>1. FirstClock = 1
          BY <4>1 DEF FirstClock
        <5> QED
          BY <2>1, <5>1
      <4>2. CASE num # InBytes - 1
        BY <1>t, <4>2, BaseFacts
      <4> QED
        BY <4>1, <4>2
    <3>2. \A x, c, w, l \in Nat : /\ c >= 1 \/ x >= 1 => x + c >= 1
                                  /\ c < w /\ x + w <= l => (x + c) + 1 <= l
      OBVIOUS
    <3>3. p >= 1
      BY <1>b, <2>4, <3>0, <3>1, <3>2
    <3>4. p + 1 <= Lines
      BY <1>b, <2>1, <2>4, <3>0, <3>2
    <3> QED
      BY <3>0, <3>3, <3>4
  <2>6. Pulses = p - 1
    BY <2>4, <2>5 DEF Pulses, BitsRead
  <2>7. Moved(p - 1)
    BY <2>2, <2>6 DEF Moved
  <2>8. inReg' \in [1..Lines -> Bit] /\ Moved((p - 1) + 1)'
    <3>1. PICK q \in Nat : q = p - 1
      BY <2>5
    <3>2. Moved(q)
      BY <2>7, <3>1
    <3>3. inReg' \in [1..Lines -> Bit] /\ Moved(q + 1)'
      BY <1>t, <2>1, <2>3, <3>2, ClockIn
    <3> QED
      BY <3>1, <3>3
  <2>9. Moved(p)'
    BY <2>5, <2>8
  <2>10. inReg'[1] = levels[p + 1] /\ inReg'[1] \in Bit
    <3>1. 1 \in 1..Lines /\ 1 + p <= Lines /\ 1 + p = p + 1
      BY <2>5, BaseFacts
    <3> QED
      BY <2>1, <2>8, <2>9, <3>1 DEF Moved
  <2> DEFINE byte == IF clocks = 0 THEN Zero ELSE buf[num]
  <2>11. byte \in Byte
    BY <1>t, ZeroType
  <2>12. \A b \in 0..clocks - 1 : byte[b] = levels[Base(num) + clocks - b]
    <3>1. CASE clocks = 0
      BY <3>1
    <3>2. CASE clocks # 0
      BY <2>2, <3>2 DEF Begun
    <3> QED
      BY <3>1, <3>2
  <2>13. buf' = [buf EXCEPT ![num] = ShiftIn(byte, inReg'[1])]
    BY <2>1
  <2>14. inReg'[1] = levels[Base(num) + clocks + 1]
    BY <2>4, <2>10
  <2> HIDE DEF byte
  <2>15. PICK by \in Byte, pin \in Bit : by = byte /\ pin = inReg'[1]
    BY <2>10, <2>11
  <2>16. /\ pin = levels[Base(num) + clocks + 1]
         /\ \A b \in 0..clocks - 1 : by[b] = levels[Base(num) + clocks - b]
         /\ buf' = [buf EXCEPT ![num] = ShiftIn(by, pin)]
    BY <2>12, <2>13, <2>14, <2>15
  <2> QED
    BY <1>r, <2>1, <2>4, <2>8, <2>9, <2>16
<1>4. CASE NextByte
  <2>1. pc = "read" /\ clocks = Width /\ UNCHANGED <<buf, inReg, levels, PE>>
    BY <1>4 DEF NextByte
  <2>2. PE /\ Begun /\ Moved(Pulses) /\ \A n \in num + 1..InBytes - 1 : Whole(n)
    BY <2>1 DEF ReadInv
  <2>3. CASE num > 0
    <3>1. num' = num - 1 /\ clocks' = 0 /\ pc' = "read" /\ num' \in 0..InBytes - 1
      BY <1>t, <1>4, <2>1, <2>3, WidthFacts DEF NextByte
    <3>2. Base(num') = Base(num) + Width
      BY <1>t, <2>3, <3>1, BaseFacts
    <3>3. BitsRead' = BitsRead
      <4>1. Base(num') + clocks' = Base(num) + clocks
        BY <1>b, <2>1, <3>1, <3>2, WidthFacts
      <4> QED
        BY <4>1 DEF BitsRead, Base
    <3>4. Moved(Pulses)'
      BY <2>1, <2>2, <3>3 DEF Moved, Pulses
    <3>5. Begun'
      BY <3>1 DEF Begun
    <3>6. Whole(num)
      BY <2>1, <2>2 DEF Begun, Whole
    <3>7. ASSUME NEW n \in num' + 1..InBytes - 1 PROVE Whole(n)'
      <4>1. n = num \/ n \in num + 1..InBytes - 1
        BY <1>t, <3>1, WidthFacts
      <4>2. Whole(n)
        BY <2>2, <3>6, <4>1
      <4> QED
        BY <2>1, <4>2 DEF Whole, Base
    <3> QED
      BY <1>t, <2>1, <2>2, <3>1, <3>4, <3>5, <3>7 DEF ReadInv
  <2>4. CASE ~(num > 0)
    <3>1. num = 0 /\ UNCHANGED <<num, clocks>> /\ pc' = "check"
      BY <1>t, <1>4, <2>4, WidthFacts DEF NextByte
    <3>2. /\ Begun' /\ Moved(Pulses)'
          /\ \A n \in num' + 1..InBytes - 1 : Whole(n)'
      BY <2>1, <2>2, <3>1 DEF Begun, Moved, Pulses, BitsRead, Whole, Base
    <3> QED
      BY <1>t, <2>1, <2>2, <3>1, <3>2 DEF ReadInv
  <2> QED
    BY <2>3, <2>4
\* The others are outside extio_read and leave the bytes and the levels alone.
<1>5. CASE extio_write
  <2>1. pc' = "write" /\ UNCHANGED <<num, buf, levels>> /\ Clock(alarmPin')
    BY <1>5 DEF extio_write
  <2>2. inReg' \in [1..Lines -> Bit]
    <3>1. CASE UNCHANGED inReg
      BY <1>t, <3>1
    <3>2. ASSUME NEW far \in Bit,
                 inReg' = [s \in 1..Lines |-> IF s = Lines THEN far ELSE inReg[s + 1]]
          PROVE  inReg' \in [1..Lines -> Bit]
      BY <1>t, <3>2, BaseFacts
    <3> QED
      BY <2>1, <3>1, <3>2 DEF Clock
  <2> QED
    BY <1>t, <2>1, <2>2 DEF ReadInv
<1>6. CASE Request \/ BeginOutput \/ Latch \/ EndPass
  <2>1. pc' \notin {"read", "check"} /\ UNCHANGED <<num, buf, inReg, levels>>
    BY <1>6 DEF Request, BeginOutput, Latch, EndPass
  <2> QED
    BY <1>t, <2>1 DEF ReadInv
<1>7. CASE UNCHANGED vars
    BY <1>7 DEF vars, ReadInv, Begun, Moved, Pulses, BitsRead, Whole, Base
<1> QED
    BY <1>1, <1>2, <1>3, <1>4, <1>5, <1>6, <1>7 DEF Next, extio_output, extio_input

\* In every state in which extio_input_check looks at them, the bytes hold
\* the levels of one moment, each input in the bit that is_smoke reads for it,
\* for every number and length of the chips.
THEOREM InputsRead == Spec => []InputsInPlace
<1>1. Init => ReadInv
  <2>1. [b \in 0..Width - 1 |-> 1] \in Byte /\ [s \in 1..Lines |-> 1] \in [1..Lines -> Bit]
    BY DEF Byte, Bit
  <2>2. InBytes - 1 \in 0..InBytes - 1
    BY WidthFacts
  <2> QED
    BY <2>1, <2>2 DEF Init, ReadInv
<1>2. ReadInv /\ SendInv => InputsInPlace
  <2> SUFFICES ASSUME ReadInv, pc = "check", clocks \in 0..Width, NEW i \in 1..Lines
               PROVE  InputBit(i) = levels[Lines + 1 - i]
    BY DEF InputsInPlace, SendInv
  <2> DEFINE n == (i - 1) \div Width
             b == (i - 1) % Width
  <2>1. n \in 0..InBytes - 1 /\ b \in 0..Width - 1 /\ i - 1 = n * Width + b
    <3>1. i - 1 \in Nat /\ i - 1 < Lines
      BY BaseFacts
    <3> QED
      BY <3>1, DivFacts
  <2> HIDE DEF n, b
  <2>2. Whole(n)
    <3>1. num = 0 /\ clocks = Width /\ Begun /\ \A m \in num + 1..InBytes - 1 : Whole(m)
      BY DEF ReadInv
    <3>2. n = num \/ n \in num + 1..InBytes - 1
      BY <2>1, <3>1, WidthFacts
    <3>3. n = num => Whole(n)
      BY <3>1 DEF Begun, Whole
    <3> QED
      BY <3>1, <3>2, <3>3
  <2>3. Base(n) + Width - b = Lines + 1 - i
    <3>1. Base(n) + Width = Lines - n * Width /\ n * Width \in Nat /\ Base(n) \in Nat
      BY <2>1, BaseFacts, WidthFacts
    <3> QED
      BY <2>1, <3>1, BaseFacts, WidthFacts
  <2>4. buf[n][b] = levels[Base(n) + Width - b]
    BY <2>1, <2>2 DEF Whole
  <2> QED
    BY <2>3, <2>4 DEF InputBit, n, b
<1> QED
    BY <1>1, <1>2, SendInit, SendStep, ReadStep, PTL DEF Spec
=============================================================================
