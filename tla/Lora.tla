-------------------------------- MODULE Lora --------------------------------
(***************************************************************************)
(* The receiver of the wireless detectors (lora.c):                        *)
(*   - the UART interrupt of the serial driver puts a byte into a ring     *)
(*     buffer and calls uart_input, which posts rx_sem;                    *)
(*   - serial_thread_entry sets up the radio, then reads, parses frames,   *)
(*     registers the detectors and answers their reports;                  *)
(*   - the shell command lora_set_band puts the radio into its set-up mode *)
(*     for a while.                                                        *)
(* The thread handles a byte not when it has read it but when the buffer   *)
(* has turned out empty, and the byte is then the last one read.           *)
(* A frame is H1 H2 dev building cmd len data checksum: floor and room are *)
(* one byte, 0 for both zero, and the fields nothing depends on are left   *)
(* out.  (In this version nothing calls lora_init: README.)                *)
(***************************************************************************)
EXTENDS Integers, SequencesExt

CONSTANTS
    H1, H2,             \* HEADER1, HEADER2
    Devices,            \* the detectors, as bytes
    Building, Foreign,  \* this building's id and another's
    CMD_REPORT, CMD_SET, Other,   \* commands
    MaxLen,             \* 30: a frame has less data
    Crc(_),             \* crc8_cal (external)
    SMOKE_NUM,          \* 20: room in the registry
    RecvBuf,            \* 50: size of recv_buf
    SetupRead,          \* 11: bytes read of the answer to a set-up
    Bufsz,              \* 128: size of the ring buffer
    Frames,             \* the frames on the air in this instance
    Garbage,            \* what the uninitialised `ch' may hold
    Replies,            \* bytes the radio answers a set-up with
    MaxBehind,          \* bound on the counts of rx_sem the thread has not taken
    MaxFrames, MaxBands, MaxLost   \* bounds on the environment

ASSUME BytesAssumption ==
    /\ {H1, H2, Building, Foreign, CMD_REPORT, CMD_SET, Other} \subseteq Nat
    /\ Devices \subseteq Nat \ {0} /\ Garbage \subseteq Nat
    /\ Frames \subseteq [dev : Nat, building : Nat, cmd : Nat, len : 0..MaxLen]
\* The radio does not answer with more than serial_thread_entry asks for.
ASSUME BoundsAssumption ==
    /\ {SMOKE_NUM, MaxLen} \subseteq Nat \ {0} /\ Bufsz \in Nat \ {0, 1}
    /\ {MaxBehind, MaxFrames, MaxBands, MaxLost, Replies, SetupRead} \subseteq Nat
    /\ Replies < Bufsz /\ Replies <= SetupRead

\* The bytes of a frame f = [dev, building, cmd, len]; the data are not looked at.
Body(f) == <<H1, H2, f.dev, f.building, f.cmd, f.len>> \o [i \in 1..f.len |-> 0]
Bytes(f) == Append(Body(f), Crc(Body(f)))
LenOffset == 5          \* offsetof(protocol_t,len)

ASSUME RecvBufAssumption == RecvBuf \in Nat /\ RecvBuf >= LenOffset + 2
ASSUME CrcAssumption == \A f \in Frames : Crc(Body(f)) \in Nat

VARIABLES
    pc,                 \* where serial_thread_entry is
    fifo,               \* the driver's ring buffer
    rx_sem,
    ch, recv_step, recv_buf, data_cnt,
    smoke_dev,          \* lora_sta.smoke_dev, as far as it is used
    answered,           \* detectors lora_send has answered
    setup,              \* the radio is in its set-up mode (MODE3)
    replies,            \* set-up replies the radio still has to send
    air,                \* bytes of the frame on the air still to come
    sender,             \* that frame
    last,               \* history: what became of the byte in ch
    skewed,             \* history: a byte was dropped, skipped or parsed twice
    overrun,            \* history: a byte came before the last one was handled
    clean,              \* history: the thread has kept up with this frame
    heard,              \* history: frames it has kept up with to the end
    sent,               \* history: frames transmitted
    collided,           \* history: the parser took for a frame what was not sent as
                        \* one, because the checksum matches
    frames, bands, losses

parser == <<ch, recv_step, recv_buf, data_cnt>>
radio == <<setup, replies, air, sender>>
history == <<last, skewed, overrun, clean, heard, sent, collided>>
bounds == <<frames, bands, losses>>
vars == <<pc, fifo, rx_sem, parser, smoke_dev, answered, radio, history, bounds>>

NoFrame == [dev |-> 0, building |-> Foreign, cmd |-> Other, len |-> 0]
Blocked == pc = "take" /\ rx_sem = 0

-----------------------------------------------------------------------------
Init ==
    /\ pc = "setup"
    /\ fifo = <<>> /\ rx_sem = 0
    /\ ch \in Garbage /\ recv_step = 0 /\ recv_buf = <<>> /\ data_cnt = 0
    /\ smoke_dev = <<>> /\ answered = {}
    /\ setup = TRUE /\ replies = Replies /\ air = <<>> /\ sender = NoFrame
    /\ last = "none" /\ skewed = FALSE /\ overrun = FALSE /\ clean = FALSE /\ heard = {}
    /\ sent = {} /\ collided = FALSE
    /\ frames = 0 /\ bands = 0 /\ losses = 0

-----------------------------------------------------------------------------
(* serial_thread_entry.                                                    *)

\* The set-up at the start, once config.lora_freq is known: the reply, up to
\* SetupRead bytes of it, is read without taking rx_sem.
SetUp ==
    /\ pc = "setup" /\ pc' = "read"
    /\ fifo' = SubSeq(fifo, SetupRead + 1, Len(fifo))
    /\ setup' = FALSE
    /\ UNCHANGED <<rx_sem, parser, smoke_dev, answered, replies, air, sender, history, bounds>>

\* rt_device_read: another byte is there, or not.
Read ==
    /\ pc = "read"
    /\ IF fifo = <<>>
         THEN pc' = "parse" /\ UNCHANGED <<fifo, ch, last, skewed>>
         ELSE /\ ch' = Head(fifo) /\ fifo' = Tail(fifo)
              /\ last' = "read" /\ skewed' = (skewed \/ last = "read")
              /\ UNCHANGED pc
    /\ UNCHANGED <<rx_sem, recv_step, recv_buf, data_cnt, smoke_dev, answered, radio,
                   overrun, clean, heard, sent, collided, bounds>>

TakeKeeps ==       \* mutant: the count of the semaphore stays
    /\ pc = "take" /\ rx_sem > 0 /\ pc' = "read"
    /\ UNCHANGED <<rx_sem, fifo, parser, smoke_dev, answered, radio, history, bounds>>
Take ==
    /\ pc = "take" /\ rx_sem > 0
    /\ pc' = "read" /\ rx_sem' = rx_sem - 1
    /\ UNCHANGED <<fifo, parser, smoke_dev, answered, radio, history, bounds>>

\* lora_search_smoke: the registry with the detector in it, or as it was when
\* the address is void or there is no room.
Registered(d) == d \in Range(smoke_dev)
Full == Len(smoke_dev) = SMOKE_NUM
lora_search_smoke(d) ==
    IF d = 0 \/ Registered(d) \/ Full THEN smoke_dev ELSE Append(smoke_dev, d)
FoundBefore(d) == Registered(d)   \* mutant: a new detector counts as not found
Found(d) == d # 0 /\ (Registered(d) \/ ~Full)

CrcIgnored(buf) == TRUE       \* mutant: the checksum not compared
CrcMatches(buf) == ch = Crc(buf)

\* A whole frame: checksum, building and address, then the command.  The checksum
\* byte has been stored behind the rest (Stores) and is left out of the sum.
Execute(buf) ==
    LET d == buf[3]
    IN  IF CrcMatches(buf) /\ buf[4] = Building
          THEN /\ smoke_dev' = lora_search_smoke(d)
               /\ answered' = IF Found(d) /\ buf[5] = CMD_REPORT
                                THEN answered \cup {d} ELSE answered
          ELSE UNCHANGED <<smoke_dev, answered>>

Accept(step) == recv_step' = step /\ recv_buf' = Append(recv_buf, ch)
Restart == recv_step' = 0 /\ recv_buf' = <<>>
Keep == UNCHANGED <<smoke_dev, answered>>

\* case 3: the length byte.
LengthStep == IF ch = 0 THEN 5 ELSE 4
CountKept == data_cnt          \* mutant: data_cnt not reset
CountFrom == IF ch = 0 THEN data_cnt ELSE 0

\* The switch on recv_step.
ParseByte ==
    \/ recv_step = 0 /\ ch = H1 /\ Accept(1) /\ Keep /\ UNCHANGED data_cnt
    \/ recv_step = 0 /\ ch # H1 /\ Keep /\ UNCHANGED <<recv_step, recv_buf, data_cnt>>
    \/ recv_step = 1 /\ ch = H2 /\ Accept(2) /\ Keep /\ UNCHANGED data_cnt
    \/ recv_step = 1 /\ ch # H2 /\ Restart /\ Keep /\ UNCHANGED data_cnt
    \/ /\ recv_step = 2
       /\ Accept(IF Len(recv_buf) + 1 = LenOffset THEN 3 ELSE 2)
       /\ Keep /\ UNCHANGED data_cnt
    \/ /\ recv_step = 3 /\ ch < MaxLen
       /\ Accept(LengthStep)
       /\ data_cnt' = CountFrom
       /\ Keep
    \/ recv_step = 3 /\ ch >= MaxLen /\ Restart /\ Keep /\ UNCHANGED data_cnt
    \/ /\ recv_step = 4
       /\ data_cnt' = data_cnt + 1
       /\ Accept(IF data_cnt' = recv_buf[LenOffset + 1] THEN 5 ELSE 4)
       /\ Keep
    \/ recv_step = 5 /\ Execute(recv_buf) /\ Restart /\ UNCHANGED data_cnt

\* The parser stores ch, the length byte of a frame it refuses and the checksum
\* too, unless it still looks for the headers; and there is no room left for it.
Stores == (recv_step = 0 => ch = H1) /\ (recv_step = 1 => ch = H2)
Overruns == pc = "parse" /\ Stores /\ Len(recv_buf) >= RecvBuf

\* The byte lands on the thread's stack.  Either nothing in use is hit, and Parse
\* goes on as if there were room; or the thread's own variables are, and nothing
\* is known of what it does then: the model follows it no further.
Spill ==
    /\ Overruns /\ pc' = "spilt"
    /\ UNCHANGED <<fifo, rx_sem, parser, smoke_dev, answered, radio, history, bounds>>

\* The checksum is right and still no such frame was sent.
Collides == recv_step = 5 /\ ch = Crc(recv_buf) /\ recv_buf \notin {Body(f) : f \in sent}

Parse ==
    /\ pc = "parse" /\ pc' = "take"
    /\ ParseByte
    /\ last' = (IF last = "none" THEN last ELSE "parsed")
    /\ skewed' = (skewed \/ last = "parsed")
    /\ heard' = IF clean /\ air = <<>> /\ fifo = <<>> THEN heard \cup {sender} ELSE heard
    /\ collided' = (collided \/ Collides)
    /\ UNCHANGED <<fifo, rx_sem, ch, radio, overrun, clean, sent, bounds>>

serial_thread_entry == SetUp \/ Read \/ Take \/ Parse \/ Spill

-----------------------------------------------------------------------------
(* The interrupt, the radio and the shell.                                 *)

Put(b) == IF Len(fifo) = Bufsz - 1 THEN Append(Tail(fifo), b) ELSE Append(fifo, b)

PostIfWaiting == IF pc = "take" THEN rx_sem + 1 ELSE rx_sem   \* mutant: a wake-up, not a count
Post == rx_sem + 1

\* The thread has handled all that came before: it sleeps, or is about to.
KeptUp == pc \in {"parse", "take"} /\ fifo = <<>> /\ rx_sem = 0

\* A byte arrives: the driver drops the oldest one when there is no room, and
\* uart_input posts the semaphore.
uart_input(b) ==
    /\ rx_sem < MaxBehind
    /\ fifo' = Put(b)
    /\ rx_sem' = Post
    /\ skewed' = (skewed \/ Len(fifo') = Len(fifo))
    /\ overrun' = (overrun \/ (pc # "setup" /\ ~KeptUp))

\* A frame begins, when the radio receives.
Transmit(f) ==
    /\ ~setup /\ air = <<>> /\ frames < MaxFrames
    /\ frames' = frames + 1 /\ sent' = sent \cup {f}
    /\ sender' = f /\ air' = Bytes(f)
    /\ clean' = (recv_step = 0 /\ Blocked)
    /\ UNCHANGED <<pc, fifo, rx_sem, parser, smoke_dev, answered, setup, replies, last,
                   skewed, overrun, heard, collided, bands, losses>>

Receive ==
    /\ air # <<>> /\ ~setup
    /\ uart_input(Head(air))
    /\ air' = Tail(air)
    /\ clean' = (clean /\ KeptUp)
    /\ UNCHANGED <<pc, parser, smoke_dev, answered, setup, replies, sender, last, heard,
                   sent, collided, bounds>>

\* A byte is lost on the air, or because the radio is being set up.
Lose ==
    /\ air # <<>> /\ losses < MaxLost
    /\ losses' = losses + 1
    /\ air' = Tail(air) /\ clean' = FALSE
    /\ UNCHANGED <<pc, fifo, rx_sem, parser, smoke_dev, answered, setup, replies, sender,
                   last, skewed, overrun, heard, sent, collided, frames, bands>>

\* The radio answers a set-up, with whatever its parameters are.
Reply ==
    /\ setup /\ replies > 0
    /\ replies' = replies - 1
    /\ \E b \in Garbage : uart_input(b)
    /\ clean' = FALSE
    /\ UNCHANGED <<pc, parser, smoke_dev, answered, setup, air, sender, last, heard, sent,
                   collided, bounds>>

\* lora_set_band: the shell, which runs only while the thread sleeps, so the
\* reply it reads back has gone through the parser already.
BandStart ==
    /\ Blocked /\ ~setup /\ bands < MaxBands
    /\ bands' = bands + 1
    /\ setup' = TRUE /\ replies' = Replies
    /\ UNCHANGED <<pc, fifo, rx_sem, parser, smoke_dev, answered, air, sender, history, frames,
                   losses>>

BandEnd ==
    /\ Blocked /\ setup
    /\ setup' = FALSE /\ replies' = 0
    /\ UNCHANGED <<pc, fifo, rx_sem, parser, smoke_dev, answered, air, sender, history, bounds>>

lora_set_band == BandStart \/ BandEnd

Next ==
    \/ serial_thread_entry
    \/ \E f \in Frames : Transmit(f)
    \/ Receive \/ Lose \/ Reply
    \/ lora_set_band

Spec == Init /\ [][Next]_vars

-----------------------------------------------------------------------------
(* Properties.  Once a byte stored past recv_buf has spoilt the thread's    *)
(* variables ("spilt") none of them says anything of the thread any more.   *)

\* The ring buffer and the registry keep to their sizes; recv_buf does not, as
\* OverrunOnlyIfLong tells.
TypeOK ==
    /\ pc \in {"setup", "read", "parse", "spilt", "take"}
    /\ Len(fifo) <= Bufsz - 1 /\ rx_sem \in Nat
    /\ recv_step \in 0..5 /\ data_cnt \in 0..MaxLen - 1
    /\ Len(recv_buf) <= LenOffset + MaxLen
    /\ Len(smoke_dev) <= SMOKE_NUM
    /\ setup \in BOOLEAN /\ replies \in 0..Replies

\* Header, length, data and checksum fit into recv_buf.
Fits(len) == LenOffset + 1 + len + 1 <= RecvBuf

\* serial_thread_entry accepts a length recv_buf has no room for (27 to 29 in the
\* code) and then stores past its end.  Nothing else makes it do so, whatever bytes
\* of cut, lost and mixed frames it takes for one frame: it is then at the data or
\* the checksum of a frame whose own length byte is that large, and never gets
\* further than that length byte takes it (3 bytes past the end in the code).
OverrunOnlyIfLong ==
    Overruns => /\ recv_step \in {4, 5}
                /\ ~Fits(recv_buf[LenOffset + 1])
                /\ Len(recv_buf) <= LenOffset + 1 + recv_buf[LenOffset + 1]

\* The thread never sleeps on rx_sem while a byte waits in the buffer, whatever
\* the interrupt does between its reads and the parser, and although the set-up
\* reads without taking the semaphore.
NoLostWakeup == Blocked => fifo = <<>>

\* "Read one byte; if there is none, wait for the semaphore": every byte
\* received is parsed once, in order, as long as none arrives before the one
\* before it has been handled; the bytes of the set-up, whose semaphore counts
\* stay behind, are no exception.
EachByteOnce == skewed => overrun

\* A frame that fits into recv_buf, found the parser idle and the thread keeping
\* up with it is understood whole: its detector is registered, unless there is no
\* room, and a report is answered.  Frames that do not fit are promised nothing,
\* nor is any frame once one of those has spoilt the thread (it is not Blocked then).
CleanFrameHeard ==
    Blocked => \A f \in heard :
        f.building = Building /\ f.dev # 0 /\ f.len < MaxLen /\ Fits(f.len) =>
            \/ Full /\ ~Registered(f.dev)
            \/ Registered(f.dev) /\ (f.cmd = CMD_REPORT => f.dev \in answered)

\* Bytes lost on the air, lost in the buffer or parsed twice never add up to a
\* detector that has not sent a frame for this building, as long as no mixture of
\* bytes has the checksum it claims: crc8_cal has 8 bits, so about one mixture in
\* 256 does, and then a detector that never sent may be registered.
OnlySenders ==
    ~collided /\ pc # "spilt" =>
        Range(smoke_dev) \subseteq {f.dev : f \in {g \in sent : g.building = Building}}
=============================================================================
