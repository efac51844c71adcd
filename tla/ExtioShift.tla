----------------------------- MODULE ExtioShift -----------------------------
(***************************************************************************)
(* The serial chain of extio.c, clock pulse by clock pulse: extio_output   *)
(* shifts the relay byte into the output register and latches it,          *)
(* extio_input loads the levels of all inputs into the input register and  *)
(* shifts them out.  The two registers share one clock pin, so that each   *)
(* operation also moves the other register.                                *)
(* Module Extio takes a whole pass as one step with the levels of the      *)
(* inputs as its parameter and `relay' = output' as its effect; the        *)
(* properties below are what justifies that.                               *)
(***************************************************************************)
EXTENDS Integers

CONSTANTS
    Width,     \* 8: bits in a byte, stages in one register chip
    InBytes    \* 3: EXTIO_IN_MAX/8, input chips in the chain

ASSUME WidthAssumption == Width \in Nat \ {0} /\ InBytes \in Nat \ {0}

\* A byte as its bits, 0 the lowest: the code only shifts and masks them.
Bit == 0..1
Byte == [0..Width - 1 -> Bit]
Lines == Width * InBytes

VARIABLES
    pc,         \* the statement the thread is at
    clocks,     \* clock pulses given in the current byte
    num,        \* index of the input byte being read
    work,       \* `byte' of extio_write; extio_read works in buf directly
    output,     \* extio.output.byte[0]
    buf,        \* extio.input.buf
    alarmPin,   \* EXTIO_ALARM_PIN
    PE,         \* EXTIO_PE_PIN: low loads the input register
    outReg,     \* stages of the output register, the first next to the pin
    inReg,      \* stages of the input register, the first drives SMOKE_PIN
    relay,      \* the latched outputs
    levels      \* the inputs when PE last went high, first stage first

program == <<pc, clocks, num, work>>
vars == <<program, output, buf, alarmPin, PE, outReg, inReg, relay, levels>>

-----------------------------------------------------------------------------
(* The hardware: a shift register with a latch and one with a parallel     *)
(* load.  A rising clock edge moves both; what enters the far end of the   *)
(* input register is not specified.                                        *)

Clock(pin) ==
    /\ outReg' = [s \in 1..Width |-> IF s = 1 THEN pin ELSE outReg[s - 1]]
    /\ IF PE
         THEN \E far \in Bit :
                inReg' = [s \in 1..Lines |-> IF s = Lines THEN far ELSE inReg[s + 1]]
         ELSE UNCHANGED inReg

ShiftIn(byte, pin) == [b \in 0..Width - 1 |-> IF b = 0 THEN pin ELSE byte[b - 1]]
ShiftLeft(byte) == ShiftIn(byte, 0)
Zero == [b \in 0..Width - 1 |-> 0]

\* The registers come up with any content.
Init ==
    /\ pc = "output" /\ clocks = 0 /\ num = InBytes - 1 /\ work = Zero
    /\ output = Zero
    /\ buf = [n \in 0..InBytes - 1 |-> [b \in 0..Width - 1 |-> 1]]
    /\ alarmPin = 0 /\ PE = FALSE
    /\ outReg \in [1..Width -> Bit]
    /\ relay \in [1..Width -> Bit]
    /\ inReg = [s \in 1..Lines |-> 1]
    /\ levels = inReg

-----------------------------------------------------------------------------
\* Between two passes the clients of extio request relays (set_alarm, ...).
Request ==
    /\ pc = "output"
    /\ output' \in Byte
    /\ UNCHANGED <<program, buf, alarmPin, PE, outReg, inReg, relay, levels>>

BeginOutput ==
    /\ pc = "output" /\ pc' = "write"
    /\ work' = output /\ clocks' = 0
    /\ UNCHANGED <<num, output, buf, alarmPin, PE, outReg, inReg, relay, levels>>

SentBitLow(byte) == byte[0]              \* mutant: the lowest bit first
SentBit(byte) == byte[Width - 1]

\* One round of the loop of extio_write.
extio_write ==
    /\ pc = "write" /\ clocks < Width
    /\ alarmPin' = SentBit(work)
    /\ Clock(alarmPin')
    /\ work' = ShiftLeft(work)
    /\ clocks' = clocks + 1
    /\ UNCHANGED <<pc, num, output, buf, PE, relay, levels>>

\* The pulse on LE.
Latch ==
    /\ pc = "write" /\ clocks = Width
    /\ relay' = outReg
    /\ pc' = "input" /\ clocks' = 0
    /\ UNCHANGED <<num, work, output, buf, alarmPin, PE, outReg, inReg, levels>>

\* The pulse on PE: the levels may be anything, and from here on they may
\* change without being noticed.
Load ==
    /\ pc = "input" /\ pc' = "read"
    /\ PE' = TRUE
    /\ levels' \in [1..Lines -> Bit]
    /\ inReg' = levels'
    /\ num' = InBytes - 1 /\ clocks' = 0
    /\ UNCHANGED <<work, output, buf, alarmPin, outReg, relay>>

\* The first chip shows its last stage before any clock pulse.
ReadUnclocked ==
    /\ pc = "read" /\ clocks = 0 /\ num = InBytes - 1
    /\ buf' = [buf EXCEPT ![num] = ShiftIn(Zero, inReg[1])]
    /\ clocks' = 1
    /\ UNCHANGED <<pc, num, work, output, alarmPin, PE, outReg, inReg, relay, levels>>

FirstClockAll == 0   \* mutant: eight pulses for the first chip too
FirstClock == IF num = InBytes - 1 THEN 1 ELSE 0   \* bits read without a pulse

\* One round of a loop of extio_read: the pin is read after the rising edge.
extio_read ==
    /\ pc = "read" /\ clocks >= FirstClock /\ clocks < Width
    /\ Clock(alarmPin)
    /\ buf' = [buf EXCEPT ![num] =
                 ShiftIn(IF clocks = 0 THEN Zero ELSE buf[num], inReg'[1])]
    /\ clocks' = clocks + 1
    /\ UNCHANGED <<pc, num, work, output, alarmPin, PE, relay, levels>>

\* in_ptr--, and the end of extio_input: extio_input_check uses buf now.
NextByte ==
    /\ pc = "read" /\ clocks = Width
    /\ IF num > 0
         THEN num' = num - 1 /\ clocks' = 0 /\ UNCHANGED pc
         ELSE pc' = "check" /\ UNCHANGED <<num, clocks>>
    /\ UNCHANGED <<work, output, buf, alarmPin, PE, outReg, inReg, relay, levels>>

\* The bit that is_smoke(i) looks at, in the byte it is copied from.
InputBit(i) == buf[(i - 1) \div Width][(i - 1) % Width]

EndPass ==
    /\ pc = "check" /\ pc' = "output"
    /\ UNCHANGED <<clocks, num, work, output, buf, alarmPin, PE, outReg, inReg, relay, levels>>

extio_output == BeginOutput \/ extio_write \/ Latch
extio_input == Load \/ ReadUnclocked \/ extio_read \/ NextByte

Next == Request \/ extio_output \/ extio_input \/ EndPass

Spec == Init /\ [][Next]_vars

-----------------------------------------------------------------------------
(* Properties.                                                             *)

\* When extio_input_check looks at the bytes, each input is in the bit that
\* is_smoke reads for it, and all of them are of the same moment: the pulses
\* given for the relays and the missing pulse of the first chip shift nothing
\* out of place.  Input 1 is the last stage of the chain.
InputsInPlace ==
    pc = "check" =>
        \A i \in 1..Lines : InputBit(i) = levels[Lines + 1 - i]

Requested == [r \in 1..Width |-> output[r - 1]]

\* The relays only ever go from one request to another, although the output
\* register holds a mixture while it is written and whatever stands at the pin
\* while the inputs are read.
RelaysNeverMixed == [][relay' # relay => relay' = Requested]_vars
=============================================================================
