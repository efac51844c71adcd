----------------------------- MODULE LoraProofs -----------------------------
(***************************************************************************)
(* Proofs about Lora: for any frames, any size of the ring buffer and of   *)
(* the registry, and any order of the interrupt and the thread.            *)
(***************************************************************************)
EXTENDS Lora, SequenceTheorems, TLAPS

-----------------------------------------------------------------------------
(* Bytes.                                                                  *)

LEMMA ConstFacts ==
    /\ Bufsz \in Nat /\ Bufsz >= 2
    /\ Replies \in Nat /\ Replies < Bufsz
    /\ SetupRead \in Nat /\ Replies <= SetupRead
    /\ SMOKE_NUM \in Nat /\ SMOKE_NUM >= 1
    /\ MaxLen \in Nat /\ MaxLen >= 1
    /\ H1 \in Nat /\ H2 \in Nat /\ Building \in Nat
    /\ Garbage \subseteq Nat
<1> QED
    BY BytesAssumption, BoundsAssumption

\* A frame is a sequence of bytes: its header fields, its data, its checksum.
LEMMA BytesType ==
    ASSUME NEW f \in Frames
    PROVE  /\ Body(f) \in Seq(Nat) /\ Len(Body(f)) = 6 + f.len
           /\ Bytes(f) \in Seq(Nat) /\ Len(Bytes(f)) = 7 + f.len
           /\ f.len \in 0..MaxLen
<1>1. f \in [dev : Nat, building : Nat, cmd : Nat, len : 0..MaxLen] /\ MaxLen \in Nat
    BY BytesAssumption, ConstFacts
<1>2. f.dev \in Nat /\ f.building \in Nat /\ f.cmd \in Nat /\ f.len \in 0..MaxLen /\ f.len \in Nat
    BY <1>1
<1> DEFINE A == <<H1, H2, f.dev, f.building, f.cmd, f.len>>
           D == [i \in 1..f.len |-> 0]
<1>3. A \in Seq(Nat) /\ Len(A) = 6
    BY <1>2, ConstFacts
<1>4. D \in Seq(Nat) /\ Len(D) = f.len
    BY <1>2
<1> HIDE DEF A, D
<1>5. Body(f) = A \o D
    BY DEF Body, A, D
<1>6. Body(f) \in Seq(Nat) /\ Len(Body(f)) = 6 + f.len
  <2>1. A \o D \in Seq(Nat) /\ Len(A \o D) = Len(A) + Len(D)
    BY <1>3, <1>4, ConcatProperties
  <2> QED
    BY <2>1, <1>3, <1>4, <1>5
<1>7. Crc(Body(f)) \in Nat
    BY CrcAssumption
<1>8. Bytes(f) \in Seq(Nat) /\ Len(Bytes(f)) = 7 + f.len
    BY <1>2, <1>6, <1>7, AppendProperties DEF Bytes
<1> QED
    BY <1>2, <1>6, <1>8

-----------------------------------------------------------------------------
(* Type correctness.  How far recv_buf is filled needs what each step of   *)
(* the switch in serial_thread_entry knows about the bytes before it.      *)

BufferOK ==
    /\ fifo \in Seq(Nat) /\ Len(fifo) <= Bufsz - 1
    /\ rx_sem \in Nat /\ air \in Seq(Nat)

ControlOK ==
    /\ pc \in {"setup", "read", "parse", "spilt", "take"}
    /\ setup \in BOOLEAN /\ replies \in 0..Replies

RegistryOK == smoke_dev \in Seq(Nat) /\ Len(smoke_dev) <= SMOKE_NUM

ParserOK ==
    /\ ch \in Nat /\ recv_buf \in Seq(Nat)
    /\ recv_step \in 0..5 /\ data_cnt \in 0..MaxLen - 1
    /\ recv_step = 0 => recv_buf = <<>>
    /\ recv_step = 1 => Len(recv_buf) = 1
    /\ recv_step = 2 => Len(recv_buf) \in 2..4
    /\ recv_step = 3 => Len(recv_buf) = 5
    /\ recv_step = 4 => /\ Len(recv_buf) = 6 + data_cnt
                        /\ data_cnt < recv_buf[6] /\ recv_buf[6] < MaxLen
    /\ recv_step = 5 => /\ Len(recv_buf) \in 6..LenOffset + MaxLen
                        /\ Len(recv_buf) = 6 + recv_buf[6]

TypeInv == BufferOK /\ ControlOK /\ RegistryOK /\ ParserOK

LEMMA TypeInit == Init => TypeInv
<1> SUFFICES ASSUME Init PROVE TypeInv
    OBVIOUS
<1>1. <<>> \in Seq(Nat) /\ Len(<<>>) = 0
    OBVIOUS
<1>2. BufferOK
    BY <1>1, ConstFacts DEF Init, BufferOK
<1>3. ControlOK
    BY ConstFacts DEF Init, ControlOK
<1>4. RegistryOK
    BY <1>1, ConstFacts DEF Init, RegistryOK
<1>5. ParserOK
    BY <1>1, ConstFacts DEF Init, ParserOK
<1> QED
    BY <1>2, <1>3, <1>4, <1>5 DEF TypeInv

\* A byte put into the ring buffer: it is the newest, and the oldest is dropped
\* only when the buffer is full.
LEMMA UartFacts ==
    ASSUME BufferOK, NEW b \in Nat, uart_input(b)
    PROVE  /\ fifo' \in Seq(Nat) /\ Len(fifo') <= Bufsz - 1 /\ fifo' # <<>>
           /\ rx_sem' \in Nat /\ rx_sem' = rx_sem + 1
           /\ fifo = <<>> => fifo' = <<b>>
           /\ Len(fifo) < Bufsz - 1 => Len(fifo') = Len(fifo) + 1
<1> USE DEF BufferOK
<1>1. Bufsz \in Nat /\ Bufsz >= 2 /\ Len(fifo) \in Nat
    BY ConstFacts
<1>2. CASE Len(fifo) = Bufsz - 1
  <2>1. fifo # <<>> /\ Tail(fifo) \in Seq(Nat) /\ Len(Tail(fifo)) = Len(fifo) - 1
    BY <1>1, <1>2
  <2>2. fifo' = Append(Tail(fifo), b)
    BY <1>2 DEF uart_input, Put
  <2>3. fifo' \in Seq(Nat) /\ Len(fifo') = Len(fifo) /\ fifo' # <<>>
    BY <1>1, <2>1, <2>2
  <2> QED
    BY <1>1, <1>2, <2>1, <2>3 DEF uart_input, Post
<1>3. CASE Len(fifo) # Bufsz - 1
  <2>1. fifo' = Append(fifo, b)
    BY <1>3 DEF uart_input, Put
  <2>2. fifo' \in Seq(Nat) /\ Len(fifo') = Len(fifo) + 1 /\ fifo' # <<>>
    BY <1>1, <2>1
  <2>3. fifo = <<>> => fifo' = <<b>>
    BY <2>1
  <2> QED
    BY <1>1, <1>3, <2>2, <2>3 DEF uart_input, Post
<1> QED
    BY <1>2, <1>3

\* lora_search_smoke keeps to the room there is.
LEMMA SearchFacts ==
    ASSUME RegistryOK, NEW d \in Nat
    PROVE  lora_search_smoke(d) \in Seq(Nat) /\ Len(lora_search_smoke(d)) <= SMOKE_NUM
<1>1. Len(smoke_dev) \in Nat /\ SMOKE_NUM \in Nat
    BY ConstFacts DEF RegistryOK
<1>2. CASE lora_search_smoke(d) = smoke_dev
    BY <1>2 DEF RegistryOK
<1>3. CASE lora_search_smoke(d) = Append(smoke_dev, d) /\ ~Full
    BY <1>1, <1>3 DEF RegistryOK, Full
<1> QED
    BY <1>2, <1>3 DEF lora_search_smoke

\* Accepting a byte.
LEMMA AcceptFacts ==
    ASSUME ParserOK, NEW step, Accept(step)
    PROVE  /\ recv_step' = step
           /\ recv_buf' \in Seq(Nat) /\ Len(recv_buf') = Len(recv_buf) + 1
           /\ recv_buf'[Len(recv_buf) + 1] = ch
           /\ \A i \in 1..Len(recv_buf) : recv_buf'[i] = recv_buf[i]
<1>1. recv_buf \in Seq(Nat) /\ ch \in Nat
    BY DEF ParserOK
<1>2. recv_step' = step /\ recv_buf' = Append(recv_buf, ch)
    BY DEF Accept
<1> QED
    BY <1>1, <1>2, AppendProperties

\* The switch keeps its buffer within bounds, and the registry too.
LEMMA ParseTypes ==
    ASSUME ParserOK, RegistryOK, ParseByte, UNCHANGED ch
    PROVE  ParserOK' /\ RegistryOK'
<1> USE DEF LenOffset
<1>0. MaxLen \in Nat /\ MaxLen >= 1 /\ ch \in Nat /\ Len(recv_buf) \in Nat
      /\ data_cnt \in 0..MaxLen - 1 /\ recv_buf \in Seq(Nat)
    BY ConstFacts DEF ParserOK
<1>k. ASSUME Keep PROVE RegistryOK'
    BY <1>k DEF Keep, RegistryOK
<1>r. ASSUME Restart, UNCHANGED data_cnt PROVE ParserOK'
    BY <1>0, <1>r DEF Restart, ParserOK
<1>1. CASE recv_step = 0 /\ ch = H1 /\ Accept(1) /\ Keep /\ UNCHANGED data_cnt
  <2>1. Len(recv_buf) = 0
    BY <1>1 DEF ParserOK
  <2>2. recv_step' = 1 /\ recv_buf' \in Seq(Nat) /\ Len(recv_buf') = 1
    BY <1>1, <2>1, AcceptFacts
  <2>3. ParserOK'
    BY <1>0, <1>1, <2>2 DEF ParserOK
  <2> QED
    BY <1>1, <1>k, <2>3
<1>2. CASE recv_step = 0 /\ ch # H1 /\ Keep /\ UNCHANGED <<recv_step, recv_buf, data_cnt>>
  <2>1. ParserOK'
    BY <1>2 DEF ParserOK
  <2> QED
    BY <1>2, <1>k, <2>1
<1>3. CASE recv_step = 1 /\ ch = H2 /\ Accept(2) /\ Keep /\ UNCHANGED data_cnt
  <2>1. Len(recv_buf) = 1
    BY <1>3 DEF ParserOK
  <2>2. recv_step' = 2 /\ recv_buf' \in Seq(Nat) /\ Len(recv_buf') = 2
    BY <1>3, <2>1, AcceptFacts
  <2>3. ParserOK'
    BY <1>0, <1>3, <2>2 DEF ParserOK
  <2> QED
    BY <1>3, <1>k, <2>3
<1>4. CASE recv_step = 1 /\ ch # H2 /\ Restart /\ Keep /\ UNCHANGED data_cnt
    BY <1>4, <1>k, <1>r
<1>5. CASE /\ recv_step = 2
           /\ Accept(IF Len(recv_buf) + 1 = LenOffset THEN 3 ELSE 2)
           /\ Keep /\ UNCHANGED data_cnt
  <2>1. Len(recv_buf) \in 2..4
    BY <1>5 DEF ParserOK
  <2>2. /\ recv_step' = (IF Len(recv_buf) + 1 = 5 THEN 3 ELSE 2)
        /\ recv_buf' \in Seq(Nat) /\ Len(recv_buf') = Len(recv_buf) + 1
    BY <1>5, AcceptFacts
  <2>3. ParserOK'
    <3>1. CASE Len(recv_buf) = 4
      <4>1. recv_step' = 3 /\ Len(recv_buf') = 5
        BY <2>2, <3>1
      <4> QED
        BY <1>0, <1>5, <2>2, <4>1 DEF ParserOK
    <3>2. CASE Len(recv_buf) \in 2..3
      <4>1. recv_step' = 2 /\ Len(recv_buf') \in 2..4
        <5>1. CASE Len(recv_buf) = 2
          BY <2>2, <5>1
        <5>2. CASE Len(recv_buf) = 3
          BY <2>2, <5>2
        <5> QED
          BY <3>2, <5>1, <5>2
      <4> QED
        BY <1>0, <1>5, <2>2, <4>1 DEF ParserOK
    <3> QED
      BY <2>1, <3>1, <3>2
  <2> QED
    BY <1>5, <1>k, <2>3
<1>6. CASE /\ recv_step = 3 /\ ch < MaxLen
           /\ Accept(LengthStep)
           /\ data_cnt' = CountFrom
           /\ Keep
  <2>1. Len(recv_buf) = 5
    BY <1>6 DEF ParserOK
  <2>2. /\ recv_step' = (IF ch = 0 THEN 5 ELSE 4)
        /\ recv_buf' \in Seq(Nat) /\ Len(recv_buf') = 6 /\ recv_buf'[6] = ch
    BY <1>6, <2>1, AcceptFacts DEF LengthStep
  <2>3. ParserOK'
    BY <1>0, <1>6, <2>2 DEF ParserOK, CountFrom
  <2> QED
    BY <1>6, <1>k, <2>3
<1>7. CASE recv_step = 3 /\ ch >= MaxLen /\ Restart /\ Keep /\ UNCHANGED data_cnt
    BY <1>7, <1>k, <1>r
<1>8. CASE /\ recv_step = 4
           /\ data_cnt' = data_cnt + 1
           /\ Accept(IF data_cnt' = recv_buf[LenOffset + 1] THEN 5 ELSE 4)
           /\ Keep
  <2>1. Len(recv_buf) = 6 + data_cnt /\ data_cnt < recv_buf[6] /\ recv_buf[6] < MaxLen
    BY <1>8 DEF ParserOK
  <2>2. recv_buf[6] \in Nat
    BY <1>0, <2>1, ElementOfSeq
  <2>3. /\ recv_step' = (IF data_cnt + 1 = recv_buf[6] THEN 5 ELSE 4)
        /\ recv_buf' \in Seq(Nat) /\ Len(recv_buf') = Len(recv_buf) + 1
        /\ \A i \in 1..Len(recv_buf) : recv_buf'[i] = recv_buf[i]
    BY <1>8, AcceptFacts
  <2>4. recv_buf'[6] = recv_buf[6]
    BY <1>0, <2>1, <2>3
  <2>5. data_cnt' = data_cnt + 1 /\ data_cnt' \in 0..MaxLen - 1
    BY <1>0, <1>8, <2>1, <2>2
  <2>6. ParserOK'
    BY <1>0, <2>1, <2>2, <2>3, <2>4, <2>5 DEF ParserOK
  <2> QED
    BY <1>8, <1>k, <2>6
<1>9. CASE recv_step = 5 /\ Execute(recv_buf) /\ Restart /\ UNCHANGED data_cnt
  <2>1. recv_buf[3] \in Nat
    BY <1>0, <1>9, ElementOfSeq DEF ParserOK
  <2>2. smoke_dev' \in {smoke_dev, lora_search_smoke(recv_buf[3])}
    BY <1>9 DEF Execute
  <2>3. RegistryOK'
    BY <2>1, <2>2, SearchFacts DEF RegistryOK
  <2> QED
    BY <1>9, <1>r, <2>3
<1> QED
    BY <1>1, <1>2, <1>3, <1>4, <1>5, <1>6, <1>7, <1>8, <1>9 DEF ParseByte

\* What the set-up leaves in the ring buffer.
LEMMA SetUpFacts ==
    ASSUME BufferOK, SetUp
    PROVE  /\ fifo' \in Seq(Nat) /\ Len(fifo') <= Bufsz - 1
           /\ Len(fifo) <= SetupRead => fifo' = <<>>
<1>1. /\ fifo \in Seq(Nat) /\ Len(fifo) \in Nat /\ Len(fifo) <= Bufsz - 1
      /\ fifo' = SubSeq(fifo, SetupRead + 1, Len(fifo))
      /\ SetupRead \in Nat /\ Bufsz \in Nat
    BY ConstFacts DEF BufferOK, SetUp
<1>2. CASE Len(fifo) <= SetupRead
  <2>1. SetupRead + 1 > Len(fifo)
    BY <1>1, <1>2
  <2>2. fifo' = <<>>
    BY <1>1, <2>1, SubSeqProperties
  <2>3. Len(fifo') = 0
    BY <2>2
  <2> QED
    BY <1>1, <2>2, <2>3, ConstFacts
<1>3. CASE SetupRead < Len(fifo)
  <2>1. /\ SetupRead + 1 \in 1..Len(fifo) /\ Len(fifo) \in 0..Len(fifo)
        /\ SetupRead + 1 <= Len(fifo) + 1
    BY <1>1, <1>3
  <2>2. /\ fifo' \in Seq(Nat)
        /\ Len(fifo') = Len(fifo) - SetupRead
    <3>1. Len(fifo) - (SetupRead + 1) + 1 = Len(fifo) - SetupRead
      BY <1>1
    <3> QED
      BY <1>1, <1>3, <2>1, <3>1, SubSeqProperties
  <2> QED
    BY <1>1, <1>3, <2>2
<1> QED
    BY <1>1, <1>2, <1>3

LEMMA TypeStep == TypeInv /\ [Next]_vars => TypeInv'
<1> SUFFICES ASSUME TypeInv, [Next]_vars PROVE TypeInv'
    OBVIOUS
<1>0. BufferOK /\ ControlOK /\ RegistryOK /\ ParserOK
    BY DEF TypeInv
<1> USE DEF parser, radio, history, bounds
<1>b. ASSUME UNCHANGED <<fifo, rx_sem, air>> PROVE BufferOK'
    BY <1>0, <1>b DEF BufferOK
<1>c. ASSUME UNCHANGED <<pc, setup, replies>> PROVE ControlOK'
    BY <1>0, <1>c DEF ControlOK
<1>g. ASSUME UNCHANGED smoke_dev PROVE RegistryOK'
    BY <1>0, <1>g DEF RegistryOK
<1>p. ASSUME UNCHANGED parser PROVE ParserOK'
    BY <1>0, <1>p DEF ParserOK
<1>1. CASE SetUp
  <2>1. BufferOK'
    BY <1>0, <1>1, SetUpFacts DEF SetUp, BufferOK
  <2>2. ControlOK'
    BY <1>0, <1>1 DEF SetUp, ControlOK
  <2> QED
    BY <1>1, <1>g, <1>p, <2>1, <2>2 DEF SetUp, TypeInv
<1>2. CASE Read
  <2>1. ControlOK'
    BY <1>0, <1>2 DEF Read, ControlOK
  <2>2. CASE fifo = <<>>
    BY <1>2, <2>1, <2>2, <1>b, <1>g, <1>p DEF Read, TypeInv
  <2>3. CASE fifo # <<>>
    <3>1. ch' = Head(fifo) /\ fifo' = Tail(fifo)
      BY <1>2, <2>3 DEF Read
    <3>2. fifo \in Seq(Nat) /\ Len(fifo) <= Bufsz - 1 /\ Bufsz \in Nat
      BY <1>0, ConstFacts DEF BufferOK
    <3>3. ch' \in Nat /\ fifo' \in Seq(Nat) /\ Len(fifo') = Len(fifo) - 1 /\ Len(fifo) \in Nat
      BY <2>3, <3>1, <3>2
    <3>4. BufferOK'
      BY <1>0, <1>2, <3>2, <3>3 DEF Read, BufferOK
    <3>5. ParserOK'
      BY <1>0, <1>2, <3>3 DEF Read, ParserOK
    <3> QED
      BY <1>2, <2>1, <1>g, <3>4, <3>5 DEF Read, TypeInv
  <2> QED
    BY <2>2, <2>3
<1>3. CASE Take
  <2>1. BufferOK'
    BY <1>0, <1>3 DEF Take, BufferOK
  <2>2. ControlOK'
    BY <1>0, <1>3 DEF Take, ControlOK
  <2> QED
    BY <1>3, <1>g, <1>p, <2>1, <2>2 DEF Take, TypeInv
<1>4. CASE Parse
  <2>1. ParserOK' /\ RegistryOK'
    BY <1>0, <1>4, ParseTypes DEF Parse
  <2>2. ControlOK'
    BY <1>0, <1>4 DEF Parse, ControlOK
  <2> QED
    BY <1>4, <1>b, <2>1, <2>2 DEF Parse, TypeInv
<1>5. ASSUME NEW f \in Frames, Transmit(f) PROVE TypeInv'
  <2>1. BufferOK'
    BY <1>0, <1>5, BytesType DEF Transmit, BufferOK
  <2> QED
    BY <1>5, <1>c, <1>g, <1>p, <2>1 DEF Transmit, TypeInv
<1>6. CASE Receive
  <2>1. air \in Seq(Nat) /\ air # <<>> /\ uart_input(Head(air)) /\ air' = Tail(air)
    BY <1>0, <1>6 DEF Receive, BufferOK
  <2>2. Head(air) \in Nat /\ air' \in Seq(Nat)
    BY <2>1
  <2>3. BufferOK'
    BY <1>0, <2>1, <2>2, UartFacts DEF BufferOK
  <2> QED
    BY <1>6, <1>c, <1>g, <1>p, <2>3 DEF Receive, TypeInv
<1>7. CASE Lose
  <2>1. air' \in Seq(Nat)
    BY <1>0, <1>7 DEF Lose, BufferOK
  <2>2. BufferOK'
    BY <1>0, <1>7, <2>1 DEF Lose, BufferOK
  <2> QED
    BY <1>7, <1>c, <1>g, <1>p, <2>2 DEF Lose, TypeInv
<1>8. CASE Reply
  <2>1. PICK b \in Garbage : uart_input(b)
    BY <1>8 DEF Reply
  <2>2. b \in Nat
    BY ConstFacts
  <2>3. BufferOK'
    BY <1>0, <1>8, <2>1, <2>2, UartFacts DEF Reply, BufferOK
  <2>4. ControlOK'
    BY <1>0, <1>8, ConstFacts DEF Reply, ControlOK
  <2> QED
    BY <1>8, <1>g, <1>p, <2>3, <2>4 DEF Reply, TypeInv
<1>9. CASE lora_set_band
  <2>1. ControlOK'
    <3>1. 0 \in 0..Replies /\ Replies \in 0..Replies
      BY ConstFacts
    <3>2. replies' \in {0, Replies} /\ setup' \in BOOLEAN /\ pc' = pc
      BY <1>9 DEF lora_set_band, BandStart, BandEnd
    <3> QED
      BY <1>0, <3>1, <3>2 DEF ControlOK
  <2> QED
    BY <1>9, <1>b, <1>g, <1>p, <2>1 DEF lora_set_band, BandStart, BandEnd, TypeInv
<1>10. CASE UNCHANGED vars
    BY <1>10, <1>b, <1>c, <1>g, <1>p DEF vars, TypeInv
<1>11. CASE Spill
  <2>1. ControlOK'
    BY <1>0, <1>11 DEF Spill, ControlOK
  <2> QED
    BY <1>11, <1>b, <1>g, <1>p, <2>1 DEF Spill, TypeInv
<1> QED
    BY <1>1, <1>2, <1>3, <1>4, <1>5, <1>6, <1>7, <1>8, <1>9, <1>10, <1>11
    DEF Next, serial_thread_entry

\* The ring buffer and the registry keep to their sizes for any bytes on the air,
\* and the parser to its steps and counts.  (For recv_buf this is the room the
\* parser uses, not the room there is: OverrunIsBounded.)
THEOREM TypeCorrect == Spec => []TypeOK
<1>1. TypeInv => TypeOK
  <2> SUFFICES ASSUME TypeInv PROVE TypeOK
    OBVIOUS
  <2>1. Len(recv_buf) <= LenOffset + MaxLen
    <3>1. Len(recv_buf) \in Nat /\ MaxLen \in Nat /\ MaxLen >= 1 /\ recv_step \in 0..5
      BY ConstFacts DEF TypeInv, ParserOK
    <3>2. recv_step = 4 => data_cnt \in 0..MaxLen - 1 /\ Len(recv_buf) = 6 + data_cnt
      BY DEF TypeInv, ParserOK
    <3> DEFINE n == Len(recv_buf)
    <3>3. recv_step = 0 => n = 0
      BY DEF TypeInv, ParserOK
    <3>4. /\ recv_step = 1 => n = 1
          /\ recv_step = 2 => n \in 2..4
          /\ recv_step = 3 => n = 5
      BY DEF TypeInv, ParserOK
    <3>5. recv_step = 4 => n <= 5 + MaxLen
      BY <3>1, <3>2
    <3>6. recv_step = 5 => n <= 5 + MaxLen
      BY <3>1 DEF TypeInv, ParserOK, LenOffset
    <3>7. recv_step \in 0..3 => n <= 5
      <4> HIDE DEF n
      <4> QED
        BY <3>3, <3>4
    <3>8. n <= 5 => n <= 5 + MaxLen
      BY <3>1
    <3>9. recv_step \in 0..3 \/ recv_step = 4 \/ recv_step = 5
      BY <3>1
    <3> QED
      BY <3>5, <3>6, <3>7, <3>8, <3>9 DEF LenOffset
  <2> QED
    BY <2>1 DEF TypeInv, BufferOK, ControlOK, RegistryOK, ParserOK, TypeOK
<1> QED
    BY <1>1, TypeInit, TypeStep, PTL DEF Spec

\* Only a frame whose own length byte is too large for recv_buf makes
\* serial_thread_entry store past its end, and no further than that length byte
\* says, for any bytes on the air, any sizes and any limit on the length.
THEOREM OverrunIsBounded == Spec => []OverrunOnlyIfLong
<1>1. TypeInv => OverrunOnlyIfLong
  <2> SUFFICES ASSUME TypeInv, Overruns PROVE
                 /\ recv_step \in {4, 5}
                 /\ ~Fits(recv_buf[LenOffset + 1])
                 /\ Len(recv_buf) <= LenOffset + 1 + recv_buf[LenOffset + 1]
    BY DEF OverrunOnlyIfLong
  <2>0. LenOffset = 5 /\ RecvBuf \in Nat /\ RecvBuf >= 7 /\ MaxLen \in Nat
    BY RecvBufAssumption, ConstFacts DEF LenOffset
  <2>1. recv_step \in 0..5 /\ Len(recv_buf) \in Nat /\ Len(recv_buf) >= RecvBuf
        /\ recv_buf \in Seq(Nat)
    BY DEF TypeInv, ParserOK, Overruns
  <2>2. recv_buf[6] \in Nat
    BY <2>0, <2>1, ElementOfSeq
  <2> DEFINE n == Len(recv_buf)
             k == recv_buf[6]
  <2>3. /\ recv_step = 0 => n = 0
        /\ recv_step = 1 => n = 1
        /\ recv_step = 2 => n \in 2..4
        /\ recv_step = 3 => n = 5
    BY DEF TypeInv, ParserOK
  <2>4. recv_step = 4 => n = 6 + data_cnt /\ data_cnt < k /\ data_cnt \in Nat
    BY <2>0 DEF TypeInv, ParserOK
  <2>5. recv_step = 5 => n = 6 + k
    BY DEF TypeInv, ParserOK
  <2>6. n \in Nat /\ n >= RecvBuf /\ k \in Nat
    BY <2>1, <2>2
  <2> HIDE DEF n, k
  <2>7. recv_step \in {4, 5}
    BY <2>0, <2>1, <2>3, <2>6
  <2>8. n <= 6 + k
    BY <2>4, <2>5, <2>6, <2>7
  <2>9. ~(6 + k + 1 <= RecvBuf)
    BY <2>0, <2>6, <2>8
  <2>10. LenOffset + 1 = 6
    BY <2>0
  <2> QED
    BY <2>7, <2>8, <2>9, <2>10 DEF n, k, Fits
<1> QED
    BY <1>1, TypeInit, TypeStep, PTL DEF Spec

-----------------------------------------------------------------------------
(* The wake-up.  Between the read that found the ring buffer empty and the *)
(* wait, every byte that came has left a count of rx_sem behind.           *)

WakeInv == pc \in {"parse", "take"} => fifo = <<>> \/ rx_sem > 0

LEMMA WakeStep == TypeInv /\ WakeInv /\ [Next]_vars => WakeInv'
<1> SUFFICES ASSUME TypeInv, WakeInv, [Next]_vars PROVE WakeInv'
    OBVIOUS
<1> USE DEF WakeInv
<1>0. BufferOK
    BY DEF TypeInv
<1>1. CASE SetUp \/ Read \/ Take \/ Spill
    BY <1>1 DEF SetUp, Read, Take, Spill
<1>2. CASE Parse
    BY <1>2 DEF Parse
<1>u. ASSUME NEW b \in Nat, uart_input(b) PROVE WakeInv'
  <2>1. rx_sem \in Nat /\ rx_sem' = rx_sem + 1
    BY <1>0, <1>u, UartFacts DEF BufferOK
  <2> QED
    BY <2>1
<1>3. CASE Receive
  <2>1. Head(air) \in Nat /\ uart_input(Head(air))
    BY <1>0, <1>3 DEF Receive, BufferOK
  <2> QED
    BY <2>1, <1>u
<1>4. CASE Reply
    BY <1>4, <1>u, ConstFacts DEF Reply
<1>5. CASE UNCHANGED <<pc, fifo, rx_sem>>
    BY <1>5
<1> QED
    BY <1>1, <1>2, <1>3, <1>4, <1>5
    DEF Next, serial_thread_entry, Transmit, Lose, lora_set_band, BandStart, BandEnd, vars

\* serial_thread_entry never sleeps on rx_sem with a byte in the ring buffer:
\* uart_input counts, and the buffer is found empty before every wait.
THEOREM WakeupNotLost == Spec => []NoLostWakeup
<1>1. Init => WakeInv
    BY DEF Init, WakeInv
<1>2. TypeInv /\ WakeInv => NoLostWakeup
    BY DEF WakeInv, NoLostWakeup, Blocked
<1> QED
    BY <1>1, <1>2, TypeInit, TypeStep, WakeStep, PTL DEF Spec

-----------------------------------------------------------------------------
(* Each byte once.  As long as no byte overruns the one before it there is *)
(* at most one in the buffer, with its count of rx_sem; counts beyond that *)
(* are of the set-up and find no byte read yet.                            *)

Quiet == fifo = <<>> /\ (rx_sem = 0 \/ last = "none")
Pending(n) == Len(fifo) = 1 /\ rx_sem = n

Paced ==
    /\ pc = "setup" => last = "none" /\ setup /\ Len(fifo) <= Replies - replies
    /\ pc = "take" => last \in {"none", "parsed"} /\ (Quiet \/ Pending(1))
    /\ pc = "read" => \/ last \in {"none", "parsed"} /\ Pending(0)
                      \/ last = "read" /\ fifo = <<>> /\ rx_sem = 0
                      \/ last = "none" /\ fifo = <<>>
    /\ pc = "parse" => last \in {"none", "read"} /\ (Quiet \/ Pending(1))

PaceInv ==
    /\ skewed \in BOOLEAN /\ overrun \in BOOLEAN
    /\ overrun \/ (~skewed /\ Paced)

LEMMA PaceInit == Init => PaceInv
<1> SUFFICES ASSUME Init PROVE PaceInv
    OBVIOUS
<1>1. Len(<<>>) <= Replies - Replies
    BY ConstFacts
<1> QED
    BY <1>1 DEF Init, PaceInv, Paced

\* A byte comes while the thread has kept up, or during the first set-up; any
\* other is an overrun.
LEMMA PaceUart ==
    ASSUME TypeInv, PaceInv, NEW b \in Nat, uart_input(b), UNCHANGED <<pc, last, setup>>,
           pc = "setup" => replies > 0 /\ replies' = replies - 1
    PROVE  PaceInv'
<1>0. BufferOK /\ ControlOK
    BY DEF TypeInv
<1>1. skewed' \in BOOLEAN /\ overrun' \in BOOLEAN
    BY DEF uart_input
<1>2. CASE overrun'
    BY <1>1, <1>2 DEF PaceInv
<1>3. CASE ~overrun'
  <2>1. ~overrun /\ (pc = "setup" \/ KeptUp)
    BY <1>3 DEF uart_input
  <2>2. ~skewed /\ Paced
    BY <2>1 DEF PaceInv
  <2>3. CASE pc = "setup"
    <3>1. /\ Len(fifo) \in Nat /\ replies \in 0..Replies /\ replies > 0
          /\ Len(fifo) <= Replies - replies
      BY <1>0, <2>2, <2>3 DEF BufferOK, ControlOK, Paced
    <3>2. Len(fifo) < Bufsz - 1 /\ Len(fifo) + 1 <= Replies - (replies - 1)
      BY <3>1, ConstFacts
    <3>3. Len(fifo') = Len(fifo) + 1
      BY <1>0, <3>2, UartFacts
    <3>4. Len(fifo') # Len(fifo)
      BY <3>1, <3>3
    <3>5. ~skewed'
      BY <2>2, <3>4, Zenon DEF uart_input
    <3>6. Paced'
      BY <2>2, <2>3, <3>2, <3>3 DEF Paced
    <3> QED
      BY <1>1, <3>5, <3>6 DEF PaceInv
  <2>4. CASE pc # "setup" /\ KeptUp
    <3>1. fifo = <<>> /\ rx_sem = 0 /\ pc \in {"parse", "take"} /\ Len(fifo) = 0
      BY <2>4 DEF KeptUp
    <3>2. fifo' = <<b>> /\ rx_sem' = 1
      BY <1>0, <3>1, UartFacts
    <3>3. Len(fifo') = 1
      BY <3>2
    <3>4. ~skewed'
      <4>1. Len(fifo') # Len(fifo)
        BY <3>1, <3>3
      <4> QED
        BY <2>2, <4>1, Zenon DEF uart_input
    <3>5. Paced'
      BY <2>2, <3>1, <3>2, <3>3 DEF Paced, Pending
    <3> QED
      BY <1>1, <3>4, <3>5 DEF PaceInv
  <2> QED
    BY <2>1, <2>3, <2>4
<1> QED
    BY <1>2, <1>3

LEMMA PaceStep == TypeInv /\ PaceInv /\ [Next]_vars => PaceInv'
<1> SUFFICES ASSUME TypeInv, PaceInv, [Next]_vars PROVE PaceInv'
    OBVIOUS
<1>0. BufferOK /\ ControlOK
    BY DEF TypeInv
<1> USE DEF parser, radio, history, bounds
<1>1. CASE SetUp
  <2>1. UNCHANGED <<rx_sem, skewed, overrun, last>> /\ pc = "setup" /\ pc' = "read"
    BY <1>1 DEF SetUp
  <2>2. CASE overrun
    BY <2>1, <2>2 DEF PaceInv
  <2>3. CASE ~overrun
    <3>1. Len(fifo) <= Replies - replies /\ Len(fifo) \in Nat /\ replies \in 0..Replies
      BY <1>0, <2>1, <2>3 DEF PaceInv, Paced, BufferOK, ControlOK
    <3>2. Len(fifo) <= SetupRead
      BY <3>1, ConstFacts
    <3>3. fifo' = <<>>
      BY <1>0, <1>1, <3>2, SetUpFacts
    <3> QED
      BY <2>1, <2>3, <3>3 DEF PaceInv, Paced
  <2> QED
    BY <2>2, <2>3
<1>2. CASE Read
  <2>1. UNCHANGED <<rx_sem, overrun>> /\ pc = "read" /\ skewed' \in BOOLEAN
    BY <1>2 DEF Read, PaceInv
  <2>2. CASE overrun
    BY <2>1, <2>2 DEF PaceInv
  <2>3. CASE ~overrun /\ fifo = <<>>
    <3>1. pc' = "parse" /\ UNCHANGED <<fifo, last, skewed>>
      BY <1>2, <2>3 DEF Read
    <3>2. Len(fifo) = 0
      BY <2>3
    <3>3. last \in {"none", "read"} /\ (rx_sem = 0 \/ last = "none")
      BY <2>1, <2>3, <3>2 DEF PaceInv, Paced, Pending
    <3> QED
      BY <2>1, <2>3, <3>1, <3>3 DEF PaceInv, Paced, Quiet
  <2>4. CASE ~overrun /\ fifo # <<>>
    <3>1. /\ pc' = "read" /\ fifo' = Tail(fifo) /\ last' = "read"
          /\ skewed' = (skewed \/ last = "read")
      BY <1>2, <2>4 DEF Read
    <3>2. last \in {"none", "parsed"} /\ Len(fifo) = 1 /\ rx_sem = 0
      BY <2>1, <2>4 DEF PaceInv, Paced, Pending
    <3>3. fifo' = <<>>
      BY <1>0, <3>1, <3>2 DEF BufferOK
    <3>4. ~skewed'
      BY <2>4, <3>1, <3>2 DEF PaceInv
    <3> QED
      BY <2>1, <3>1, <3>2, <3>3, <3>4 DEF PaceInv, Paced
  <2> QED
    BY <2>2, <2>3, <2>4
<1>3. CASE Take
  <2>1. /\ UNCHANGED <<fifo, last, skewed, overrun>> /\ pc = "take" /\ pc' = "read"
        /\ rx_sem > 0 /\ rx_sem' = rx_sem - 1
    BY <1>3 DEF Take
  <2>2. CASE overrun
    BY <2>1, <2>2 DEF PaceInv
  <2>3. CASE ~overrun
    <3>1. last \in {"none", "parsed"} /\ (Quiet \/ Pending(1)) /\ ~skewed
      BY <2>1, <2>3 DEF PaceInv, Paced
    <3>2. CASE Quiet
      <4>1. last = "none" /\ fifo = <<>>
        BY <2>1, <3>2 DEF Quiet
      <4> QED
        BY <2>1, <3>1, <4>1 DEF PaceInv, Paced
    <3>3. CASE Pending(1)
      <4>1. Len(fifo) = 1 /\ rx_sem' = 0
        BY <2>1, <3>3 DEF Pending
      <4> QED
        BY <2>1, <3>1, <4>1 DEF PaceInv, Paced, Pending
    <3> QED
      BY <3>1, <3>2, <3>3
  <2> QED
    BY <2>2, <2>3
<1>4. CASE Parse
  <2>1. /\ UNCHANGED <<fifo, rx_sem, overrun>> /\ pc = "parse" /\ pc' = "take"
        /\ last' = (IF last = "none" THEN last ELSE "parsed")
        /\ skewed' = (skewed \/ last = "parsed")
    BY <1>4 DEF Parse
  <2>2. CASE overrun
    BY <2>1, <2>2 DEF PaceInv
  <2>3. CASE ~overrun
    <3>1. last \in {"none", "read"} /\ (Quiet \/ Pending(1)) /\ ~skewed
      BY <2>1, <2>3 DEF PaceInv, Paced
    <3>2. ~skewed' /\ skewed' \in BOOLEAN /\ last' \in {"none", "parsed"}
          /\ (last = "none" => last' = "none")
      BY <2>1, <3>1
    <3>3. Quiet' \/ Pending(1)'
      BY <2>1, <3>1, <3>2 DEF Quiet, Pending
    <3> QED
      BY <2>1, <3>2, <3>3 DEF PaceInv, Paced
  <2> QED
    BY <2>2, <2>3
<1>5. CASE Receive
  <2>1. Head(air) \in Nat /\ uart_input(Head(air))
    BY <1>0, <1>5 DEF Receive, BufferOK
  <2>2. UNCHANGED <<pc, last, setup>> /\ ~setup
    BY <1>5 DEF Receive
  <2>3. CASE pc = "setup"
    <3>1. overrun /\ overrun'
      BY <2>1, <2>2, <2>3 DEF PaceInv, Paced, uart_input
    <3> QED
      BY <2>1, <3>1 DEF PaceInv, uart_input
  <2>4. CASE pc # "setup"
    BY <2>1, <2>2, <2>4, PaceUart
  <2> QED
    BY <2>3, <2>4
<1>6. CASE Reply
  <2>1. PICK b \in Garbage : uart_input(b)
    BY <1>6 DEF Reply
  <2> QED
    BY <1>6, <2>1, ConstFacts, PaceUart DEF Reply
<1>7. CASE lora_set_band
  <2>1. UNCHANGED <<pc, fifo, rx_sem, skewed, overrun, last>> /\ pc = "take"
    BY <1>7 DEF lora_set_band, BandStart, BandEnd, Blocked
  <2> QED
    BY <2>1 DEF PaceInv, Paced, Quiet, Pending
<1>8. CASE UNCHANGED <<pc, fifo, rx_sem, skewed, overrun, last, setup, replies>>
    BY <1>8 DEF PaceInv, Paced, Quiet, Pending
<1>9. CASE Spill
    BY <1>9 DEF Spill, PaceInv, Paced
<1> QED
    BY <1>1, <1>2, <1>3, <1>4, <1>5, <1>6, <1>7, <1>8, <1>9
    DEF Next, serial_thread_entry, Transmit, Lose, vars

\* Every byte is parsed exactly once and in order as long as none arrives
\* before the one before it was handled, although serial_thread_entry handles
\* a byte only after the next read and the set-up leaves counts of rx_sem.
THEOREM ByteParsedOnce == Spec => []EachByteOnce
<1>1. PaceInv => EachByteOnce
    BY DEF PaceInv, EachByteOnce
<1> QED
    BY <1>1, TypeInit, TypeStep, PaceInit, PaceStep, PTL DEF Spec

-----------------------------------------------------------------------------
(* A frame the thread keeps up with.  While it does, what is on the air is *)
(* the rest of the frame, what the parser holds is its beginning, and at   *)
(* most two bytes are on their way between the two.                        *)

Understood(f) ==
    f.building = Building /\ f.dev # 0 /\ f.len < MaxLen =>
        \/ Full /\ ~Registered(f.dev)
        \/ Registered(f.dev) /\ (f.cmd = CMD_REPORT => f.dev \in answered)

\* The bytes of a frame, by position.
LEMMA BytesAt ==
    ASSUME NEW f \in Frames
    PROVE  /\ Bytes(f)[1] = H1 /\ Bytes(f)[2] = H2 /\ Bytes(f)[3] = f.dev
           /\ Bytes(f)[4] = f.building /\ Bytes(f)[5] = f.cmd /\ Bytes(f)[6] = f.len
           /\ \A i \in 1..6 + f.len : Bytes(f)[i] = Body(f)[i]
           /\ Bytes(f)[7 + f.len] = Crc(Body(f))
<1>1. f \in [dev : Nat, building : Nat, cmd : Nat, len : 0..MaxLen] /\ MaxLen \in Nat
    BY BytesAssumption, ConstFacts
<1>2. f.dev \in Nat /\ f.building \in Nat /\ f.cmd \in Nat /\ f.len \in Nat
    BY <1>1
<1> DEFINE A == <<H1, H2, f.dev, f.building, f.cmd, f.len>>
           D == [i \in 1..f.len |-> 0]
<1>3. A \in Seq(Nat) /\ Len(A) = 6
    BY <1>2, ConstFacts
<1>4. D \in Seq(Nat) /\ Len(D) = f.len
    BY <1>2
<1>5. /\ A[1] = H1 /\ A[2] = H2 /\ A[3] = f.dev
      /\ A[4] = f.building /\ A[5] = f.cmd /\ A[6] = f.len
    OBVIOUS
<1> HIDE DEF A, D
<1>6. Body(f) = A \o D
    BY DEF Body, A, D
<1>7. \A i \in 1..Len(A) + Len(D) : (A \o D)[i] = IF i <= Len(A) THEN A[i] ELSE D[i - Len(A)]
    BY <1>3, <1>4, ConcatProperties
<1>8. \A i \in 1..6 : i \in 1..Len(A) + Len(D) /\ i <= Len(A)
    BY <1>2, <1>3, <1>4
<1>9. \A i \in 1..6 : Body(f)[i] = A[i]
    BY <1>6, <1>7, <1>8
<1>10. Body(f) \in Seq(Nat) /\ Len(Body(f)) = 6 + f.len /\ Crc(Body(f)) \in Nat
    BY BytesType, CrcAssumption
<1>11. /\ \A i \in 1..Len(Body(f)) : Bytes(f)[i] = Body(f)[i]
       /\ Bytes(f)[Len(Body(f)) + 1] = Crc(Body(f))
    BY <1>10, AppendProperties DEF Bytes
<1>12. \A i \in 1..6 + f.len : Bytes(f)[i] = Body(f)[i]
    BY <1>10, <1>11
<1>13. Bytes(f)[7 + f.len] = Crc(Body(f))
  <2>1. 7 + f.len = (6 + f.len) + 1
    BY <1>2
  <2> QED
    BY <1>10, <1>11, <2>1
<1>14. \A i \in 1..6 : i \in 1..6 + f.len
    BY <1>2
<1>15. \A i \in 1..6 : Bytes(f)[i] = A[i]
    BY <1>9, <1>12, <1>14
<1>16. 1 \in 1..6 /\ 2 \in 1..6 /\ 3 \in 1..6 /\ 4 \in 1..6 /\ 5 \in 1..6 /\ 6 \in 1..6
    OBVIOUS
<1> QED
    BY <1>5, <1>12, <1>13, <1>15, <1>16

\* The step of the parser after p bytes of a frame of n.
StepOf(p, n) == IF p = n - 1 THEN 5
                ELSE IF p <= 1 THEN p
                ELSE IF p <= 4 THEN 2
                ELSE IF p = 5 THEN 3 ELSE 4

Size == Len(Bytes(sender))
Follows(p) ==
    sender.len < MaxLen /\ p < Size =>
        /\ Len(recv_buf) = p /\ recv_step = StepOf(p, Size)
        /\ \A i \in 1..p : recv_buf[i] = Bytes(sender)[i]

\* A detector added to the registry stays, and so do the others.
LEMMA RangeAppend ==
    ASSUME NEW s \in Seq(Nat), NEW d \in Nat
    PROVE  Range(Append(s, d)) = Range(s) \cup {d}
<1>1. /\ DOMAIN s = 1..Len(s) /\ DOMAIN Append(s, d) = 1..Len(s) + 1 /\ Len(s) \in Nat
      /\ \A i \in 1..Len(s) : Append(s, d)[i] = s[i]
      /\ Append(s, d)[Len(s) + 1] = d
    OBVIOUS
<1>2. \A i \in 1..Len(s) + 1 : i \in 1..Len(s) \/ i = Len(s) + 1
    BY <1>1
<1>3. Len(s) + 1 \in 1..Len(s) + 1 /\ \A i \in 1..Len(s) : i \in 1..Len(s) + 1
    BY <1>1
<1> QED
    BY <1>1, <1>2, <1>3 DEF Range

\* What lora_search_smoke and the answer have done is never undone.
LEMMA UnderstoodStable ==
    ASSUME RegistryOK, NEW f, Understood(f), answered \subseteq answered',
           \/ smoke_dev' = smoke_dev
           \/ ~Full /\ \E d \in Nat : smoke_dev' = Append(smoke_dev, d)
    PROVE  Understood(f)'
<1>1. CASE smoke_dev' = smoke_dev
    BY <1>1 DEF Understood, Full, Registered
<1>2. ASSUME ~Full, NEW d \in Nat, smoke_dev' = Append(smoke_dev, d) PROVE Understood(f)'
  <2>1. Range(smoke_dev') = Range(smoke_dev) \cup {d}
    BY <1>2, RangeAppend DEF RegistryOK
  <2> QED
    BY <1>2, <2>1 DEF Understood, Registered
<1> QED
    BY <1>1, <1>2

\* What a parsed byte may do to the registry.
LEMMA ParseRegistry ==
    ASSUME ParserOK, RegistryOK, ParseByte
    PROVE  /\ answered \subseteq answered'
           /\ \/ smoke_dev' = smoke_dev
              \/ ~Full /\ \E d \in Nat : smoke_dev' = Append(smoke_dev, d)
<1>1. CASE Keep
    BY <1>1 DEF Keep
<1>2. CASE recv_step = 5 /\ Execute(recv_buf)
  <2>1. recv_buf[3] \in Nat
    BY <1>2, ConstFacts, ElementOfSeq DEF ParserOK, LenOffset
  <2> QED
    BY <1>2, <2>1 DEF Execute, lora_search_smoke
<1> QED
    BY <1>1, <1>2 DEF ParseByte

\* The last byte of a frame, with the frame before it in recv_buf.
LEMMA WholeFrame ==
    ASSUME ParserOK, RegistryOK, NEW f \in Frames, recv_buf = Body(f), ch = Crc(Body(f)),
           Execute(recv_buf)
    PROVE  Understood(f)'
<1>1. f.dev \in Nat /\ f.len \in Nat
    BY BytesAssumption
<1>2. recv_buf[3] = f.dev /\ recv_buf[4] = f.building /\ recv_buf[5] = f.cmd
  <2>1. 3 \in 1..6 + f.len /\ 4 \in 1..6 + f.len /\ 5 \in 1..6 + f.len
    BY <1>1
  <2> QED
    BY <2>1, BytesAt
<1> SUFFICES ASSUME f.building = Building, f.dev # 0
             PROVE  \/ Full' /\ ~Registered(f.dev)'
                    \/ Registered(f.dev)' /\ (f.cmd = CMD_REPORT => f.dev \in answered')
    BY DEF Understood
<1>3. /\ smoke_dev' = lora_search_smoke(f.dev)
      /\ answered' = IF Found(f.dev) /\ f.cmd = CMD_REPORT
                       THEN answered \cup {f.dev} ELSE answered
    BY <1>2 DEF Execute, CrcMatches
<1>4. CASE Registered(f.dev)
    BY <1>3, <1>4 DEF lora_search_smoke, Found, Registered
<1>5. CASE ~Registered(f.dev) /\ Full
    BY <1>3, <1>5 DEF lora_search_smoke, Registered, Full
<1>6. CASE ~Registered(f.dev) /\ ~Full
  <2>1. smoke_dev' = Append(smoke_dev, f.dev)
    BY <1>3, <1>6 DEF lora_search_smoke
  <2>2. f.dev \in Range(smoke_dev')
    BY <1>1, <2>1, RangeAppend DEF RegistryOK
  <2> QED
    BY <1>3, <1>6, <2>2 DEF Found, Registered
<1> QED
    BY <1>4, <1>5, <1>6

\* The parser takes up the next byte of the frame it follows; the last one
\* makes it act on the whole frame.
LEMMA FollowStep ==
    ASSUME ParserOK, RegistryOK, sender \in Frames, sender.len < MaxLen,
           ParseByte, UNCHANGED sender,
           NEW p \in Nat, p < Size, ch = Bytes(sender)[p + 1], Follows(p)
    PROVE  Follows(p + 1)' /\ (p + 1 = Size => Understood(sender)')
<1> DEFINE n == Size
           len == sender.len
           b == Bytes(sender)
<1>1. /\ n = 7 + len /\ len \in Nat /\ len < MaxLen /\ MaxLen \in Nat
      /\ b \in Seq(Nat) /\ Size' = n /\ b' = b
    BY BytesType, ConstFacts DEF Size
<1>2. /\ b[1] = H1 /\ b[2] = H2 /\ b[6] = len
      /\ \A i \in 1..6 + len : b[i] = Body(sender)[i]
      /\ b[7 + len] = Crc(Body(sender))
    BY BytesAt
<1>3. /\ recv_buf \in Seq(Nat) /\ Len(recv_buf) = p /\ recv_step = StepOf(p, n)
      /\ \A i \in 1..p : recv_buf[i] = b[i]
    BY DEF Follows, ParserOK
<1>c. ch = b[p + 1]
    OBVIOUS
<1> HIDE DEF n, b, len
\* A byte accepted is the next of the frame.
<1>a. ASSUME NEW step, Accept(step), p + 1 < n => step = StepOf(p + 1, n), p + 1 # n
      PROVE  Follows(p + 1)' /\ (p + 1 = Size => Understood(sender)')
  <2>1. /\ recv_step' = step /\ Len(recv_buf') = p + 1 /\ recv_buf'[p + 1] = ch
        /\ \A i \in 1..p : recv_buf'[i] = recv_buf[i]
    BY <1>3, <1>a, AcceptFacts
  <2>2. \A i \in 1..p + 1 : i \in 1..p \/ i = p + 1
    OBVIOUS
  <2>3. \A i \in 1..p + 1 : recv_buf'[i] = b[i]
    BY <1>c, <1>3, <2>1, <2>2
  <2> QED
    BY <1>1, <1>a, <2>1, <2>3 DEF Follows, n, b
<1>4. CASE p = 0
  <2>1. recv_step = 0 /\ ch = H1 /\ p + 1 # n /\ StepOf(p + 1, n) = 1
    BY <1>1, <1>2, <1>3, <1>c, <1>4 DEF StepOf
  <2>2. Accept(1)
    BY <2>1 DEF ParseByte
  <2> QED
    BY <1>a, <2>1, <2>2
<1>5. CASE p = 1
  <2>1. recv_step = 1 /\ ch = H2 /\ p + 1 # n /\ StepOf(p + 1, n) = 2
    BY <1>1, <1>2, <1>3, <1>c, <1>5 DEF StepOf
  <2>2. Accept(2)
    BY <2>1 DEF ParseByte
  <2> QED
    BY <1>a, <2>1, <2>2
<1>6. CASE p \in 2..4
  <2>1. recv_step = 2 /\ p + 1 # n
        /\ StepOf(p + 1, n) = (IF Len(recv_buf) + 1 = LenOffset THEN 3 ELSE 2)
    BY <1>1, <1>3, <1>6 DEF StepOf, LenOffset
  <2>2. Accept(IF Len(recv_buf) + 1 = LenOffset THEN 3 ELSE 2)
    BY <2>1 DEF ParseByte
  <2> QED
    BY <1>a, <2>1, <2>2
<1>7. CASE p = 5
  <2>1. recv_step = 3 /\ ch = len /\ ch < MaxLen /\ p + 1 # n
        /\ StepOf(p + 1, n) = (IF ch = 0 THEN 5 ELSE 4)
    BY <1>1, <1>2, <1>3, <1>c, <1>7 DEF StepOf
  <2>2. Accept(LengthStep)
    BY <1>1, <2>1, ConstFacts DEF ParseByte, ParserOK
  <2> QED
    BY <1>a, <2>1, <2>2 DEF LengthStep
<1>8. CASE p >= 6 /\ p < n - 1
  <2>1. recv_step = 4 /\ p + 1 # n
    BY <1>1, <1>3, <1>8 DEF StepOf
  <2>2. recv_buf[6] = len
    BY <1>2, <1>3, <1>8
  <2>3. data_cnt \in Nat /\ p = 6 + data_cnt
    BY <1>1, <1>3, <2>1 DEF ParserOK
  <2>4. /\ data_cnt' = data_cnt + 1
        /\ Accept(IF data_cnt' = recv_buf[LenOffset + 1] THEN 5 ELSE 4)
    BY <2>1 DEF ParseByte
  <2>5. Accept(IF data_cnt + 1 = len THEN 5 ELSE 4)
    BY <2>2, <2>4 DEF LenOffset
  <2>6. StepOf(p + 1, n) = (IF data_cnt + 1 = len THEN 5 ELSE 4)
    BY <1>1, <1>8, <2>3 DEF StepOf
  <2> QED
    BY <1>a, <2>1, <2>5, <2>6
<1>9. CASE p = n - 1
  <2>1. recv_step = 5 /\ p = 6 + len
    BY <1>1, <1>3, <1>9 DEF StepOf
  <2>2. Execute(recv_buf)
    BY <2>1 DEF ParseByte
  <2>3. recv_buf = Body(sender)
    <3>1. Body(sender) \in Seq(Nat) /\ Len(Body(sender)) = 6 + len
      BY BytesType DEF len
    <3>2. \A i \in 1..Len(recv_buf) : recv_buf[i] = Body(sender)[i]
      BY <1>2, <1>3, <2>1
    <3> QED
      BY <1>3, <2>1, <3>1, <3>2, SeqEqual
  <2>4. ch = Crc(Body(sender))
    <3>1. p + 1 = 7 + len
      BY <1>1, <2>1
    <3> QED
      BY <1>c, <1>2, <3>1
  <2>5. Understood(sender)'
    <3>1. \A f \in Frames : recv_buf = Body(f) /\ ch = Crc(Body(f)) => Understood(f)'
      BY <2>2, WholeFrame
    <3> QED
      BY <2>3, <2>4, <3>1 DEF Understood
  <2>6. ~(p + 1 < n)
    BY <1>1, <1>9
  <2> QED
    BY <1>1, <2>5, <2>6 DEF Follows
<1> QED
  <2>1. p < n
    BY DEF n
  <2> QED
    BY <1>1, <1>4, <1>5, <1>6, <1>7, <1>8, <1>9, <2>1

\* g bytes have been received; each is with the driver, in ch or parsed.
At(i) == Bytes(sender)[i]
InDriver(g) == fifo = <<At(g)>>
CleanTake(g) == \/ fifo = <<>> /\ rx_sem = 0 /\ Follows(g)
                \/ g >= 1 /\ InDriver(g) /\ rx_sem = 1 /\ Follows(g - 1)
CleanRead(g) == /\ g >= 1 /\ rx_sem = 0 /\ Follows(g - 1)
                /\ InDriver(g) \/ (fifo = <<>> /\ ch = At(g))
CleanParse(g) == \/ g >= 1 /\ fifo = <<>> /\ rx_sem = 0 /\ ch = At(g) /\ Follows(g - 1)
                 \/ g >= 2 /\ InDriver(g) /\ rx_sem = 1 /\ ch = At(g - 1) /\ Follows(g - 2)

OnAir(g) == g + Len(air) = Size /\ \A i \in 1..Len(air) : air[i] = At(g + i)

CleanAt(g) ==
    /\ OnAir(g)
    /\ pc # "setup"
    /\ pc = "take" => CleanTake(g)
    /\ pc = "read" => CleanRead(g)
    /\ pc = "parse" => CleanParse(g)

CleanInv == clean => sender \in Frames /\ \E g \in Nat : CleanAt(g)

\* The same, for a frame too long to be followed.
LEMMA FollowStepAny ==
    ASSUME ParserOK, RegistryOK, sender \in Frames, ParseByte, UNCHANGED sender,
           NEW p \in Nat, p < Size, ch = At(p + 1), Follows(p)
    PROVE  Follows(p + 1)' /\ (p + 1 = Size => Understood(sender)')
<1>1. CASE sender.len < MaxLen
    BY <1>1, FollowStep DEF At
<1>2. CASE ~(sender.len < MaxLen)
    BY <1>2 DEF Follows, Understood
<1> QED
    BY <1>1, <1>2

LEMMA CleanStep == TypeInv /\ WakeInv /\ CleanInv /\ [Next]_vars => CleanInv'
<1> SUFFICES ASSUME TypeInv, WakeInv, CleanInv, [Next]_vars, clean' PROVE CleanInv'
    BY DEF CleanInv
<1>0. BufferOK /\ ControlOK /\ RegistryOK /\ ParserOK
    BY DEF TypeInv
<1> USE DEF parser, radio, history, bounds
<1>5. ASSUME NEW f \in Frames, Transmit(f) PROVE CleanInv'
  <2>1. /\ recv_step = 0 /\ pc = "take" /\ rx_sem = 0
        /\ sender' = f /\ air' = Bytes(f)
        /\ UNCHANGED <<pc, fifo, rx_sem, recv_buf, recv_step>>
    BY <1>5 DEF Transmit, Blocked
  <2>2. fifo = <<>> /\ recv_buf = <<>>
    BY <2>1, <1>0 DEF WakeInv, ParserOK
  <2>3. Bytes(f) \in Seq(Nat) /\ Len(Bytes(f)) \in Nat /\ Len(Bytes(f)) >= 7
    BY BytesType, ConstFacts
  <2>4. Size' = Len(Bytes(f)) /\ Len(air') = Len(Bytes(f))
    BY <2>1 DEF Size
  <2>5. OnAir(0)'
    <3>1. \A i \in 1..Len(air') : air'[i] = Bytes(f)[0 + i]
      BY <2>1, <2>3
    <3>2. 0 + Len(air') = Size'
      BY <2>3, <2>4
    <3> QED
      BY <2>1, <3>1, <3>2 DEF OnAir, At
  <2>6. Follows(0)'
    <3>1. Len(recv_buf') = 0
      BY <2>1, <2>2
    <3>2. StepOf(0, Len(Bytes(f))) = 0
      <4>1. \A n \in Nat : n >= 7 => StepOf(0, n) = 0
        BY DEF StepOf
      <4> QED
        BY <2>3, <4>1, Zenon
    <3>3. \A i \in 1..0 : recv_buf'[i] = At(i)'
      OBVIOUS
    <3> QED
      BY <2>1, <2>4, <3>1, <3>2, <3>3 DEF Follows
  <2>7. CleanTake(0)'
    BY <2>1, <2>2, <2>6 DEF CleanTake
  <2>8. CleanAt(0)'
    BY <2>1, <2>5, <2>7 DEF CleanAt
  <2> QED
    BY <2>1, <2>8 DEF CleanInv
<1>7. CASE Lose \/ Reply
    BY <1>7 DEF Lose, Reply
<1>c. ASSUME clean, UNCHANGED sender PROVE CleanInv'
  <2>1. PICK g \in Nat : CleanAt(g)
    BY <1>c DEF CleanInv
  <2>2. sender \in Frames /\ sender' \in Frames
    BY <1>c DEF CleanInv
  <2>3. /\ Size \in Nat /\ Size >= 7 /\ Len(air) \in Nat /\ g + Len(air) = Size /\ g <= Size
        /\ pc # "setup" /\ OnAir(g)
    <3>1. Size = 7 + sender.len /\ sender.len \in 0..MaxLen /\ MaxLen \in Nat
      BY <2>2, BytesType, ConstFacts DEF Size
    <3>2. Len(air) \in Nat /\ g + Len(air) = Size
      BY <1>0, <2>1 DEF BufferOK, CleanAt, OnAir
    <3> QED
      BY <2>1, <3>1, <3>2 DEF CleanAt
  <2>4. /\ Size' = Size
        /\ \A i : At(i)' = At(i)
        /\ UNCHANGED <<recv_buf, recv_step>> => \A p : Follows(p) => Follows(p)'
        /\ UNCHANGED air => OnAir(g)'
    BY <1>c, <2>3 DEF Size, At, Follows, OnAir
  <2>w. ASSUME CleanAt(g)' PROVE CleanInv'
    BY <2>2, <2>w DEF CleanInv
  <2>5. CASE SetUp
    BY <2>3, <2>5 DEF SetUp
  <2>6. CASE Read
    <3>1. pc = "read" /\ UNCHANGED <<air, recv_buf, recv_step, rx_sem>>
      BY <2>6 DEF Read
    <3>2. CleanRead(g)
      BY <2>1, <3>1 DEF CleanAt
    <3>3. rx_sem' = 0 /\ Follows(g - 1)'
      BY <2>4, <3>1, <3>2 DEF CleanRead
    <3>4. CASE fifo = <<>>
      <4>1. pc' = "parse" /\ UNCHANGED <<fifo, ch>>
        BY <2>6, <3>4 DEF Read
      <4>2. ch = At(g)
        BY <3>2, <3>4 DEF CleanRead, InDriver
      <4>3. ch' = At(g)'
        BY <4>1, <4>2, <2>4
      <4>4. CleanParse(g)'
        BY <3>2, <3>3, <3>4, <4>1, <4>3 DEF CleanParse, CleanRead
      <4> QED
        BY <2>4, <2>w, <3>1, <4>1, <4>4 DEF CleanAt
    <3>5. CASE fifo # <<>>
      <4>1. pc' = "read" /\ ch' = Head(fifo) /\ fifo' = Tail(fifo)
        BY <2>6, <3>1, <3>5 DEF Read
      <4>2. fifo = <<At(g)>>
        BY <3>2, <3>5 DEF CleanRead, InDriver
      <4>3. ch' = At(g) /\ fifo' = <<>>
        BY <4>1, <4>2
      <4>4. ch' = At(g)'
        BY <4>3, <2>4
      <4>5. CleanRead(g)'
        BY <3>2, <3>3, <4>3, <4>4 DEF CleanRead
      <4> QED
        BY <2>4, <2>w, <3>1, <4>1, <4>5 DEF CleanAt
    <3> QED
      BY <3>4, <3>5
  <2>7. CASE Take
    <3>1. /\ pc = "take" /\ pc' = "read" /\ rx_sem > 0 /\ rx_sem' = rx_sem - 1
          /\ UNCHANGED <<air, recv_buf, recv_step, fifo>>
      BY <2>7 DEF Take
    <3>2. CleanTake(g)
      BY <2>1, <3>1 DEF CleanAt
    <3>3. g >= 1 /\ InDriver(g) /\ rx_sem = 1 /\ Follows(g - 1)
      BY <3>1, <3>2 DEF CleanTake
    <3>4. InDriver(g)' /\ Follows(g - 1)' /\ rx_sem' = 0
      BY <2>4, <3>1, <3>3 DEF InDriver
    <3>5. CleanRead(g)'
      BY <3>3, <3>4 DEF CleanRead
    <3> QED
      BY <2>4, <2>w, <3>1, <3>5 DEF CleanAt
  <2>8. CASE Parse
    <3>1. /\ pc = "parse" /\ pc' = "take" /\ ParseByte
          /\ UNCHANGED <<air, fifo, rx_sem, ch>>
      BY <2>8 DEF Parse
    <3>2. CleanParse(g)
      BY <2>1, <3>1 DEF CleanAt
    <3>p. ASSUME NEW p \in Nat, p < Size, ch = At(p + 1), Follows(p) PROVE Follows(p + 1)'
      BY <3>1, <3>p, <1>0, <1>c, <2>2, FollowStepAny
    <3>3. CASE g >= 1 /\ fifo = <<>> /\ rx_sem = 0 /\ ch = At(g) /\ Follows(g - 1)
      <4>1. g - 1 \in Nat /\ g - 1 < Size /\ (g - 1) + 1 = g
        BY <2>3, <3>3
      <4>2. Follows((g - 1) + 1)'
        BY <3>3, <3>p, <4>1
      <4>3. Follows(g)'
        BY <4>1, <4>2
      <4>4. CleanTake(g)'
        BY <3>1, <3>3, <4>3 DEF CleanTake
      <4> QED
        BY <2>4, <2>w, <3>1, <4>4 DEF CleanAt
    <3>4. CASE g >= 2 /\ InDriver(g) /\ rx_sem = 1 /\ ch = At(g - 1) /\ Follows(g - 2)
      <4>1. g - 2 \in Nat /\ g - 2 < Size /\ (g - 2) + 1 = g - 1 /\ g >= 1
        BY <2>3, <3>4
      <4>2. Follows((g - 2) + 1)'
        BY <3>4, <3>p, <4>1
      <4>3. Follows(g - 1)' /\ InDriver(g)'
        BY <2>4, <3>1, <3>4, <4>1, <4>2 DEF InDriver
      <4>4. CleanTake(g)'
        BY <3>1, <3>4, <4>1, <4>3 DEF CleanTake
      <4> QED
        BY <2>4, <2>w, <3>1, <4>4 DEF CleanAt
    <3> QED
      BY <3>2, <3>3, <3>4 DEF CleanParse
  <2>9. CASE Receive
    <3>1. /\ KeptUp /\ air # <<>> /\ uart_input(Head(air)) /\ air' = Tail(air)
          /\ UNCHANGED <<pc, ch, recv_buf, recv_step>>
      BY <2>9 DEF Receive
    <3>2. fifo = <<>> /\ rx_sem = 0 /\ pc \in {"parse", "take"} /\ air \in Seq(Nat)
      BY <3>1, <1>0 DEF KeptUp, BufferOK
    <3>3. /\ Head(air) \in Nat /\ Head(air) = air[1] /\ Len(air) >= 1
          /\ Len(air') = Len(air) - 1
          /\ \A i \in 1..Len(air) - 1 : air'[i] = air[i + 1]
      BY <3>1, <3>2
    <3>4. fifo' = <<Head(air)>> /\ rx_sem' = 1
      BY <3>1, <3>2, <3>3, <1>0, UartFacts
    <3>5. \A i \in 1..Len(air) : air[i] = At(g + i)
      BY <2>3 DEF OnAir
    <3>6. Head(air) = At(g + 1)
      BY <2>3, <3>3, <3>5
    <3>7. OnAir(g + 1)'
      <4>1. (g + 1) + Len(air') = Size'
        BY <2>3, <2>4, <3>3
      <4>2. ASSUME NEW i \in 1..Len(air') PROVE air'[i] = At((g + 1) + i)'
        <5>1. i \in 1..Len(air) - 1 /\ i + 1 \in 1..Len(air) /\ i \in Nat
          BY <4>2, <2>3, <3>3
        <5>2. g + (i + 1) = (g + 1) + i
          BY <5>1
        <5>3. air'[i] = At(g + (i + 1))
          BY <5>1, <3>3, <3>5
        <5> QED
          BY <5>2, <5>3, <2>4
      <4> QED
        BY <4>1, <4>2 DEF OnAir
    <3>8. InDriver(g + 1)'
      BY <2>4, <3>4, <3>6 DEF InDriver
    <3>9. g + 1 \in Nat /\ g + 1 >= 1 /\ (g + 1) - 1 = g /\ (g + 1) - 2 = g - 1
          /\ (g >= 1 => g + 1 >= 2)
      OBVIOUS
    <3>10. CASE pc = "take"
      <4>1. Follows(g)
        BY <2>1, <3>2, <3>10 DEF CleanAt, CleanTake, InDriver
      <4>2. Follows((g + 1) - 1)'
        BY <4>1, <2>4, <3>1, <3>9
      <4>3. CleanTake(g + 1)'
        BY <3>4, <3>8, <3>9, <4>2 DEF CleanTake
      <4>4. CleanAt(g + 1)'
        BY <3>1, <3>7, <3>10, <4>3 DEF CleanAt
      <4> QED
        BY <2>2, <3>9, <4>4 DEF CleanInv
    <3>11. CASE pc = "parse"
      <4>1. g >= 1 /\ ch = At(g) /\ Follows(g - 1)
        BY <2>1, <3>2, <3>11 DEF CleanAt, CleanParse, InDriver
      <4>2. Follows((g + 1) - 2)' /\ ch' = At((g + 1) - 1)'
        BY <4>1, <2>4, <3>1, <3>9
      <4>3. CleanParse(g + 1)'
        BY <3>4, <3>8, <3>9, <4>1, <4>2 DEF CleanParse
      <4>4. CleanAt(g + 1)'
        BY <3>1, <3>7, <3>11, <4>3 DEF CleanAt
      <4> QED
        BY <2>2, <3>9, <4>4 DEF CleanInv
    <3> QED
      BY <3>2, <3>10, <3>11
  <2>10. CASE lora_set_band \/ UNCHANGED vars
    <3>1. UNCHANGED <<pc, fifo, rx_sem, sender, air, ch, recv_buf, recv_step>>
      BY <2>10 DEF lora_set_band, BandStart, BandEnd, vars
    <3>2. /\ CleanTake(g) => CleanTake(g)'
          /\ CleanRead(g) => CleanRead(g)'
          /\ CleanParse(g) => CleanParse(g)'
      BY <2>4, <3>1 DEF CleanTake, CleanRead, CleanParse, InDriver
    <3> QED
      BY <2>1, <2>4, <2>w, <3>1, <3>2 DEF CleanAt
  <2>11. CASE Spill
    <3>1. pc' = "spilt" /\ UNCHANGED air
      BY <2>11 DEF Spill
    <3> QED
      BY <2>4, <2>w, <3>1 DEF CleanAt
  <2> QED
    BY <1>5, <1>7, <2>5, <2>6, <2>7, <2>8, <2>9, <2>10, <2>11 DEF Next, serial_thread_entry
<1>8. CASE ~clean /\ ~\E f \in Frames : Transmit(f)
  <2>1. clean' => clean
    BY <1>8 DEF Next, serial_thread_entry, SetUp, Read, Take, Parse, Spill, Receive, Lose, Reply,
                lora_set_band, BandStart, BandEnd, vars
  <2> QED
    BY <1>8, <2>1
<1>9. clean /\ ~(\E f \in Frames : Transmit(f)) => UNCHANGED sender
    BY DEF Next, serial_thread_entry, SetUp, Read, Take, Parse, Spill, Receive, Lose, Reply,
           lora_set_band, BandStart, BandEnd, vars
<1> QED
    BY <1>5, <1>c, <1>8, <1>9

\* What has been understood stays understood, and the frame that ends is.
HeardInv == \A f \in heard : Understood(f)

LEMMA HeardStep == TypeInv /\ CleanInv /\ HeardInv /\ [Next]_vars => HeardInv'
<1> SUFFICES ASSUME TypeInv, CleanInv, HeardInv, [Next]_vars PROVE HeardInv'
    OBVIOUS
<1>0. BufferOK /\ RegistryOK /\ ParserOK
    BY DEF TypeInv
<1> USE DEF parser, radio, history, bounds
<1>1. CASE Parse
  <2>1. /\ pc = "parse" /\ ParseByte /\ UNCHANGED sender
        /\ heard' = IF clean /\ air = <<>> /\ fifo = <<>> THEN heard \cup {sender} ELSE heard
    BY <1>1 DEF Parse
  <2>2. ASSUME NEW f \in heard PROVE Understood(f)'
    <3>1. Understood(f)
      BY <2>2 DEF HeardInv
    <3> QED
      BY <1>0, <2>1, <3>1, ParseRegistry, UnderstoodStable
  <2>3. ASSUME clean, air = <<>>, fifo = <<>> PROVE Understood(sender)'
    <3>1. PICK g \in Nat : CleanAt(g)
      BY <2>3 DEF CleanInv
    <3>2. sender \in Frames
      BY <2>3 DEF CleanInv
    <3>3. g >= 1 /\ ch = At(g) /\ Follows(g - 1)
      BY <2>1, <2>3, <3>1 DEF CleanAt, CleanParse, InDriver
    <3>4. g = Size
      <4>1. g + Len(air) = Size /\ Len(air) = 0
        BY <2>3, <3>1 DEF CleanAt, OnAir
      <4> QED
        BY <4>1
    <3>5. g - 1 \in Nat /\ g - 1 < Size /\ (g - 1) + 1 = g
      BY <3>3, <3>4
    <3>6. \A p \in Nat : p < Size /\ ch = At(p + 1) /\ Follows(p) =>
             (p + 1 = Size => Understood(sender)')
      BY <1>0, <2>1, <3>2, FollowStepAny
    <3> QED
      BY <3>3, <3>4, <3>5, <3>6
  <2>4. ASSUME NEW f \in heard' PROVE Understood(f)'
    <3>1. f \in heard \/ (clean /\ air = <<>> /\ fifo = <<>> /\ f = sender)
      BY <2>1, <2>4
    <3>2. f = sender => (Understood(sender)' => Understood(f)')
      BY <2>1 DEF Understood
    <3> QED
      BY <2>2, <2>3, <3>1, <3>2
  <2> QED
    BY <2>4 DEF HeardInv
<1>2. CASE ~Parse
  <2>1. UNCHANGED <<smoke_dev, answered, heard>>
    BY <1>2 DEF Next, serial_thread_entry, SetUp, Read, Take, Spill, Transmit, Receive, Lose, Reply,
                lora_set_band, BandStart, BandEnd, vars
  <2> QED
    BY <2>1 DEF HeardInv, Understood, Full, Registered
<1> QED
    BY <1>1, <1>2

\* A frame that fits into recv_buf and found the parser idle and the thread keeping
\* up with it has registered its detector, unless there was no room, and its report
\* has been answered, for buffers, such frames and registries of every size, as long
\* as no overrun has spoilt the thread.
THEOREM CleanFramesHeard == Spec => []CleanFrameHeard
<1>1. Init => WakeInv /\ CleanInv /\ HeardInv
    BY DEF Init, WakeInv, CleanInv, HeardInv
<1>2. HeardInv => CleanFrameHeard
    BY DEF HeardInv, Understood, CleanFrameHeard
<1> QED
    BY <1>1, <1>2, TypeInit, TypeStep, WakeStep, CleanStep, HeardStep, PTL DEF Spec

-----------------------------------------------------------------------------
(* The registry.  What the parser takes for a frame may be any bytes with  *)
(* a matching checksum; the search alone keeps the registry in order.      *)

\* The registry, searched and filled in one loop from whatever the parser takes
\* for a frame, holds every detector once and none with the void address, and
\* only detectors in it are answered, when it is full too.
RegistrySound ==
    /\ \A i, j \in DOMAIN smoke_dev : smoke_dev[i] = smoke_dev[j] => i = j
    /\ 0 \notin Range(smoke_dev)
    /\ answered \subseteq Range(smoke_dev)

\* Appending a detector that is not there yet keeps the entries different.
LEMMA AppendApart ==
    ASSUME NEW s \in Seq(Nat), NEW d \in Nat, d \notin Range(s),
           \A i, j \in DOMAIN s : s[i] = s[j] => i = j
    PROVE  \A i, j \in DOMAIN Append(s, d) : Append(s, d)[i] = Append(s, d)[j] => i = j
<1>1. /\ DOMAIN s = 1..Len(s) /\ DOMAIN Append(s, d) = 1..Len(s) + 1 /\ Len(s) \in Nat
      /\ \A i \in 1..Len(s) : Append(s, d)[i] = s[i]
      /\ Append(s, d)[Len(s) + 1] = d
    OBVIOUS
<1>2. \A i \in 1..Len(s) + 1 : i \in 1..Len(s) \/ i = Len(s) + 1
    BY <1>1
<1>3. \A i \in 1..Len(s) : s[i] # d
    BY <1>1 DEF Range
<1> SUFFICES ASSUME NEW i \in 1..Len(s) + 1, NEW j \in 1..Len(s) + 1,
                    Append(s, d)[i] = Append(s, d)[j]
             PROVE  i = j
    BY <1>1
<1>4. CASE i \in 1..Len(s) /\ j \in 1..Len(s)
    BY <1>1, <1>4
<1>5. CASE i = Len(s) + 1 /\ j \in 1..Len(s)
    BY <1>1, <1>3, <1>5
<1>6. CASE i \in 1..Len(s) /\ j = Len(s) + 1
    BY <1>1, <1>3, <1>6
<1> QED
    BY <1>2, <1>4, <1>5, <1>6

\* One search and the answer after it.
LEMMA SearchKeepsSound ==
    ASSUME RegistryOK, RegistrySound, NEW d \in Nat, smoke_dev' = lora_search_smoke(d),
           answered' = answered \/ (Found(d) /\ answered' = answered \cup {d})
    PROVE  RegistrySound'
<1>0. smoke_dev \in Seq(Nat)
    BY DEF RegistryOK
<1>1. CASE d = 0 \/ Registered(d) \/ Full
  <2>1. smoke_dev' = smoke_dev
    BY <1>1 DEF lora_search_smoke
  <2>2. Found(d) => d \in Range(smoke_dev)
    BY <1>1 DEF Found, Registered
  <2> QED
    BY <2>1, <2>2 DEF RegistrySound
<1>2. CASE d # 0 /\ ~Registered(d) /\ ~Full
  <2>1. smoke_dev' = Append(smoke_dev, d) /\ d \notin Range(smoke_dev)
    BY <1>2 DEF lora_search_smoke, Registered
  <2>2. Range(smoke_dev') = Range(smoke_dev) \cup {d}
    BY <1>0, <2>1, RangeAppend
  <2>3. \A i, j \in DOMAIN smoke_dev' : smoke_dev'[i] = smoke_dev'[j] => i = j
    BY <1>0, <2>1, AppendApart DEF RegistrySound
  <2> QED
    BY <1>2, <2>2, <2>3 DEF RegistrySound
<1> QED
    BY <1>1, <1>2

LEMMA SoundStep == TypeInv /\ RegistrySound /\ [Next]_vars => RegistrySound'
<1> SUFFICES ASSUME TypeInv, RegistrySound, [Next]_vars PROVE RegistrySound'
    OBVIOUS
<1>s. ASSUME UNCHANGED <<smoke_dev, answered>> PROVE RegistrySound'
    BY <1>s DEF RegistrySound
<1>1. CASE Parse
  <2>1. CASE Keep
    BY <2>1, <1>s DEF Keep
  <2>2. CASE recv_step = 5 /\ Execute(recv_buf)
    <3>1. PICK d \in Nat : d = recv_buf[3]
      BY <2>2, ConstFacts, ElementOfSeq DEF TypeInv, ParserOK, LenOffset
    <3>2. \/ UNCHANGED <<smoke_dev, answered>>
          \/ /\ smoke_dev' = lora_search_smoke(d)
             /\ answered' = answered \/ (Found(d) /\ answered' = answered \cup {d})
      BY <2>2, <3>1 DEF Execute
    <3> QED
      BY <1>s, <3>2, SearchKeepsSound DEF TypeInv
  <2> QED
    BY <1>1, <2>1, <2>2 DEF Parse, ParseByte
<1>2. CASE ~Parse
  <2>1. UNCHANGED <<smoke_dev, answered>>
    BY <1>2 DEF Next, serial_thread_entry, SetUp, Read, Take, Spill, Transmit, Receive, Lose, Reply,
                lora_set_band, BandStart, BandEnd, vars
  <2> QED
    BY <2>1, <1>s
<1> QED
    BY <1>1, <1>2

\* Whatever the parser takes for frames, as long as no overrun has spoilt the
\* thread's variables, no detector is registered twice or under the void address,
\* and none is answered that is not registered, for registries of every size and
\* checksums with any collisions.
THEOREM RegistryIsSound == Spec => [](pc # "spilt" => RegistrySound)
<1>1. Init => RegistrySound
    BY DEF Init, RegistrySound, Range
<1> QED
    BY <1>1, TypeInit, TypeStep, SoundStep, PTL DEF Spec

-----------------------------------------------------------------------------
(* Only senders.  A buffer whose checksum matches is the body of a frame   *)
(* that was sent, or the checksum has collided.                            *)

SendersOf(fs) == {f.dev : f \in {g \in fs : g.building = Building}}

SenderInv ==
    /\ sent \subseteq Frames
    /\ ~collided => Range(smoke_dev) \subseteq SendersOf(sent)

\* A frame acted on without a collision is one that was sent.
LEMMA ActedOnIsSent ==
    ASSUME sent \subseteq Frames, recv_step = 5, CrcMatches(recv_buf), ~Collides,
           recv_buf[4] = Building
    PROVE  recv_buf[3] \in SendersOf(sent)
<1>1. PICK f \in sent : recv_buf = Body(f)
    BY DEF CrcMatches, Collides
<1>2. f \in Frames /\ f.len \in Nat
    BY BytesType, ConstFacts
<1>3. 3 \in 1..6 + f.len /\ 4 \in 1..6 + f.len
    BY <1>2
<1>4. recv_buf[3] = f.dev /\ recv_buf[4] = f.building
    BY <1>1, <1>2, <1>3, BytesAt
<1> QED
    BY <1>1, <1>4 DEF SendersOf

LEMMA SenderStep == TypeInv /\ SenderInv /\ [Next]_vars => SenderInv'
<1> SUFFICES ASSUME TypeInv, SenderInv, [Next]_vars PROVE SenderInv'
    OBVIOUS
<1>s. ASSUME UNCHANGED <<smoke_dev, sent>>, collided => collided' PROVE SenderInv'
    BY <1>s DEF SenderInv
<1> USE DEF history
<1>1. CASE Parse
  <2>1. collided' = (collided \/ Collides) /\ UNCHANGED sent /\ ParseByte
    BY <1>1 DEF Parse
  <2>2. CASE Keep \/ UNCHANGED smoke_dev
    BY <2>1, <2>2, <1>s DEF Keep
  <2>3. CASE /\ recv_step = 5 /\ CrcMatches(recv_buf) /\ recv_buf[4] = Building
             /\ smoke_dev' = lora_search_smoke(recv_buf[3])
    <3>1. recv_buf[3] \in Nat /\ smoke_dev \in Seq(Nat)
      BY <2>3, ConstFacts, ElementOfSeq DEF TypeInv, ParserOK, RegistryOK, LenOffset
    <3>2. Range(smoke_dev') \subseteq Range(smoke_dev) \cup {recv_buf[3]}
      BY <2>3, <3>1, RangeAppend DEF lora_search_smoke
    <3>3. ~collided' => recv_buf[3] \in SendersOf(sent) /\ ~collided
      BY <2>1, <2>3, ActedOnIsSent DEF SenderInv
    <3> QED
      BY <2>1, <3>2, <3>3 DEF SenderInv
  <2> QED
    BY <2>1, <2>2, <2>3 DEF ParseByte, Execute
<1>2. ASSUME NEW f \in Frames, Transmit(f) PROVE SenderInv'
  <2>1. sent' = sent \cup {f} /\ UNCHANGED <<smoke_dev, collided>>
    BY <1>2 DEF Transmit
  <2>2. SendersOf(sent) \subseteq SendersOf(sent')
    BY <2>1 DEF SendersOf
  <2> QED
    BY <2>1, <2>2 DEF SenderInv
<1>3. CASE ~Parse /\ ~\E f \in Frames : Transmit(f)
  <2>1. UNCHANGED <<smoke_dev, sent, collided>>
    BY <1>3 DEF Next, serial_thread_entry, SetUp, Read, Take, Spill, Receive, Lose, Reply,
                lora_set_band, BandStart, BandEnd, vars
  <2> QED
    BY <2>1, <1>s
<1> QED
    BY <1>1, <1>2, <1>3

\* Bytes lost, skipped or parsed twice never register a detector that sent no frame
\* for this building, for any frames and any checksum, unless that checksum matched
\* by accident or an overrun has spoilt the thread.
THEOREM OnlySendersRegistered == Spec => []OnlySenders
<1>1. Init => SenderInv
    BY DEF Init, SenderInv, Range
<1>2. SenderInv => OnlySenders
    BY DEF SenderInv, OnlySenders, SendersOf
<1> QED
    BY <1>1, <1>2, TypeInit, TypeStep, SenderStep, PTL DEF Spec
=============================================================================
