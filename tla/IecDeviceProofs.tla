-------------------------- MODULE IecDeviceProofs ---------------------------
(****************************************************************************)
(* Proofs about the device on the serial bus and the Kernal at its other    *)
(* end: bytes are taken once and in order, a file is read from its start    *)
(* without a gap, and no line stays pulled after an operation.  The places  *)
(* of a transfer, the sending of a byte and the ends of routines are in     *)
(* IecDeviceLemmas; here are the reading of a byte, the next call, types,   *)
(* what the Kernal does when nobody is there, resets and switches, and at   *)
(* the end the theorems.                                                    *)
(****************************************************************************)
EXTENDS IecDeviceLemmas

(* A byte, from the talker's side: each lemma is one access.                *)
LEMMA KeepAhead ==
    ASSUME NEW u, NEW v, Keep(u, v), v.byte = u.byte, TalksAhead(u)
    PROVE  TalksAhead(v) /\ v.st = u.st /\ v.taken = u.taken
BY DEF Keep, TalksAhead, Ahead, GotRight

LEMMA TalksSends ==
    ASSUME NEW u, cpu.atn, TalksAhead(u) \/ With(u, {"TALKING"})
    PROVE  Sends(u)
BY DEF Sends, TalksAhead, With

LEMMA AnnounceStays ==
    ASSUME NEW u, Typed(u), Announces(u, "EOI"), cpu.atn, cpu.data, NEW d \in Nat, NEW a
    PROVE  LET v == Exec(u, d, a) IN Announces(v, "EOI") /\ v.taken = u.taken
<1>1. Sends(u) /\ u.state = "EOI" /\ u.data
  BY TalksSends DEF Announces, InState, Free
<1> DEFINE v == Exec(u, d, a)
<1>2. Goes(u, v, "EOI", u.bit, u.byte, Left(u, d), u.clk, u.data)
  BY <1>1, SendsPre
<1> HIDE DEF v
<1>3. /\ Keep(u, v) /\ v.byte = u.byte /\ v.state = "EOI" /\ v.clk = u.clk /\ v.data = u.data
  BY <1>2 DEF Goes
<1>4. TalksAhead(v) /\ v.st = u.st /\ v.taken = u.taken
  BY <1>3, KeepAhead DEF Announces
<1>5. Announces(v, "EOI") /\ v.taken = u.taken
  BY <1>3, <1>4 DEF Announces, InState, Free
<1> QED BY <1>5 DEF v

LEMMA AnnounceHeard ==
    ASSUME NEW u, Typed(u), Announces(u, "EOI") \/ Announces(u, "EOIw"),
           cpu.atn, ~ cpu.data, NEW d \in Nat, NEW a
    PROVE  LET v == Exec(u, d, a) IN Announces(v, "EOIw") /\ v.taken = u.taken
<1>1. Sends(u) /\ u.state \in {"EOI", "EOIw"} /\ TalksAhead(u)
  BY TalksSends DEF Announces, InState, Free
<1> DEFINE v == Exec(u, d, a)
<1>2. Goes(u, v, "EOIw", u.bit, u.byte, Left(u, d), u.clk, u.data)
  BY <1>1, SendsPre
<1> HIDE DEF v
<1>3. /\ Keep(u, v) /\ v.byte = u.byte /\ v.state = "EOIw" /\ v.clk = u.clk /\ v.data = u.data
  BY <1>2 DEF Goes
<1>4. TalksAhead(v) /\ v.st = u.st /\ v.taken = u.taken
  BY <1>1, <1>3, KeepAhead
<1>5. Announces(v, "EOIw") /\ v.taken = u.taken
  BY <1>3, <1>4 DEF Announces, InState, Free
<1> QED BY <1>5 DEF v

LEMMA AnnounceOver ==
    ASSUME NEW u, Typed(u), Announces(u, "EOIw"), cpu.atn, cpu.data, NEW d \in Nat, NEW a
    PROVE  LET v == Exec(u, d, a) IN FirstBitIn(v) /\ v.st = EOF /\ v.taken = u.taken
<1>1. Sends(u) /\ u.state = "EOIw" /\ u.data /\ TalksAhead(u)
  BY TalksSends DEF Announces, InState, Free
<1> DEFINE v == Exec(u, d, a)
<1>2. Goes(u, v, "BIT", 0, u.byte, 0, u.clk, u.data)
  BY <1>1, SendsPre
<1> HIDE DEF v
<1>3. /\ Keep(u, v) /\ v.byte = u.byte /\ v.state = "BIT" /\ v.bit = 0 /\ v.timeout = 0
      /\ v.clk = u.clk /\ v.data = u.data
  BY <1>2 DEF Goes
<1>4. TalksAhead(v) /\ v.st = u.st /\ v.taken = u.taken
  BY <1>1, <1>3, KeepAhead
<1>5. FirstBitIn(v) /\ v.st = EOF /\ v.taken = u.taken
  BY <1>3, <1>4 DEF Announces, FirstBitIn, InBit, InState, Free
<1> QED BY <1>5 DEF v

SameByte(u, v) == v.byte = u.byte /\ v.st = u.st /\ v.taken = u.taken

LEMMA BitGoes ==
    ASSUME NEW u, Typed(u), TalksAhead(u), u.state = "BIT", cpu.atn, NEW d \in Nat, NEW a
    PROVE  LET v == Exec(u, d, a)
           IN  /\ SameByte(u, v)
               /\ \/ BitOut(v, u.bit)
                  \/ /\ u.timeout # 0 /\ TalksAhead(v) /\ v.state = "BIT"
                     /\ v.bit = u.bit /\ v.clk = u.clk
<1>1. Sends(u) /\ Left(u, d) \in Nat /\ (u.timeout = 0 => Left(u, d) = 0)
  BY TalksSends, LeftIs
<1> DEFINE v == Exec(u, d, a)
           x == (u.bit \in u.byte)
<1>2. /\ Left(u, d) = 0 => Goes(u, v, "BITw", u.bit, u.byte, Bit, FALSE, x)
      /\ Left(u, d) # 0 => Goes(u, v, "BIT", u.bit, u.byte, Left(u, d), u.clk, u.data)
  BY <1>1, SendsBits
<1> HIDE DEF v, x
<1>3. CASE Left(u, d) = 0
  <2>1. /\ Keep(u, v) /\ v.byte = u.byte /\ v.state = "BITw" /\ v.bit = u.bit
        /\ ~ v.clk /\ v.data = x
    BY <1>2, <1>3 DEF Goes
  <2>2. TalksAhead(v) /\ v.st = u.st /\ v.taken = u.taken
    BY <2>1, KeepAhead
  <2>3. BitOut(v, u.bit)
    BY <2>1, <2>2 DEF BitOut, x
  <2> QED BY <2>1, <2>2, <2>3 DEF SameByte, v
<1>4. CASE Left(u, d) # 0
  <2>1. /\ Keep(u, v) /\ v.byte = u.byte /\ v.state = "BIT" /\ v.bit = u.bit
        /\ v.clk = u.clk
    BY <1>2, <1>4 DEF Goes
  <2>2. TalksAhead(v) /\ v.st = u.st /\ v.taken = u.taken
    BY <2>1, KeepAhead
  <2> QED BY <1>1, <1>4, <2>1, <2>2 DEF SameByte, v
<1> QED BY <1>3, <1>4

LEMMA BitOutGoes ==
    ASSUME NEW u, Typed(u), NEW i \in 0 .. Bits - 1, BitOut(u, i), cpu.atn, cpu.data,
           NEW d \in Nat, NEW a
    PROVE  LET v == Exec(u, d, a)
           IN  /\ SameByte(u, v)
               /\ BitOut(v, i) \/ (BitIn(v, i) /\ v.data = (i \in u.byte))
<1>1. Sends(u) /\ Left(u, d) \in Nat /\ TalksAhead(u) /\ u.state = "BITw" /\ u.bit = i
  BY TalksSends, LeftIs DEF BitOut
<1> DEFINE v == Exec(u, d, a)
           x == cpu.data /\ u.data
<1>2. /\ Left(u, d) # 0 => Goes(u, v, "BITw", u.bit, u.byte, Left(u, d), u.clk, u.data)
      /\ Left(u, d) = 0 /\ u.bit < Bits - 1 =>
           Goes(u, v, "BIT", u.bit + 1, u.byte, Bit, TRUE, x)
      /\ Left(u, d) = 0 /\ ~ u.bit < Bits - 1 =>
           Goes(u, v, "DONE0", u.bit, u.byte, Bit, TRUE, x)
  BY <1>1, SendsBits
<1>y. cpu.data /\ u.data = (i \in u.byte)
  BY DEF BitOut
<1>z. x <=> (i \in u.byte)
  BY <1>y
<1>w. x \in BOOLEAN
  OBVIOUS
<1>x. x = (i \in u.byte)
  BY <1>z, <1>w
<1> HIDE DEF v, x
<1>3. CASE Left(u, d) # 0
  <2>1. /\ Keep(u, v) /\ v.byte = u.byte /\ v.state = "BITw" /\ v.bit = u.bit
        /\ v.clk = u.clk /\ v.data = u.data
    BY <1>2, <1>3 DEF Goes
  <2>2. TalksAhead(v) /\ v.st = u.st /\ v.taken = u.taken
    BY <1>1, <2>1, KeepAhead
  <2>3. BitOut(v, i)
    BY <2>1, <2>2 DEF BitOut
  <2> QED BY <2>1, <2>2, <2>3 DEF SameByte, v
<1>4. CASE Left(u, d) = 0 /\ u.bit < Bits - 1
  <2>1. /\ Keep(u, v) /\ v.byte = u.byte /\ v.state = "BIT" /\ v.bit = i + 1
        /\ v.clk /\ v.data = x
    BY <1>1, <1>2, <1>4 DEF Goes
  <2>2. TalksAhead(v) /\ v.st = u.st /\ v.taken = u.taken
    BY <1>1, <2>1, KeepAhead
  <2>3. BitIn(v, i)
    BY <1>1, <1>4, <2>1, <2>2, BitsAssumption DEF BitIn
  <2> QED BY <1>x, <2>1, <2>2, <2>3 DEF SameByte, v
<1>5. CASE Left(u, d) = 0 /\ ~ u.bit < Bits - 1
  <2>1. /\ Keep(u, v) /\ v.byte = u.byte /\ v.state = "DONE0"
        /\ v.clk /\ v.data = x
    BY <1>2, <1>5 DEF Goes
  <2>2. TalksAhead(v) /\ v.st = u.st /\ v.taken = u.taken
    BY <1>1, <2>1, KeepAhead
  <2>3. BitIn(v, i)
    BY <1>1, <1>5, <2>1, <2>2, BitsAssumption DEF BitIn
  <2> QED BY <1>x, <2>1, <2>2, <2>3 DEF SameByte, v
<1> QED BY <1>3, <1>4, <1>5

LEMMA DoneGoes ==
    ASSUME NEW u, Typed(u), TalksAhead(u), u.state = "DONE0", cpu.atn, NEW d \in Nat, NEW a
    PROVE  LET v == Exec(u, d, a)
           IN  /\ SameByte(u, v) /\ TalksAhead(v)
               /\ \/ v.state = "DONE0" /\ v.clk = u.clk
                  \/ v.state = "DONE1" /\ HoldsClk(v)
<1>1. Sends(u) /\ Left(u, d) \in Nat
  BY TalksSends, LeftIs
<1> DEFINE v == Exec(u, d, a)
<1>2. \/ Goes(u, v, "DONE1", u.bit, u.byte, Done, FALSE, TRUE)
      \/ Goes(u, v, "DONE0", u.bit, u.byte, Left(u, d), u.clk, u.data)
  BY <1>1, SendsDone
<1> HIDE DEF v
<1>3. /\ Keep(u, v) /\ v.byte = u.byte
      /\ \/ v.state = "DONE0" /\ v.clk = u.clk
         \/ v.state = "DONE1" /\ HoldsClk(v)
  BY <1>2 DEF Goes, HoldsClk
<1>4. TalksAhead(v) /\ v.st = u.st /\ v.taken = u.taken
  BY <1>3, KeepAhead
<1> QED BY <1>3, <1>4 DEF SameByte, v

LEMMA Done1Goes ==
    ASSUME NEW u, Typed(u), TalksAhead(u), u.state = "DONE1", HoldsClk(u),
           cpu.atn, cpu.data, NEW d \in Nat, NEW a
    PROVE  LET v == Exec(u, d, a)
           IN  /\ SameByte(u, v) /\ TalksAhead(v)
               /\ \/ v.state = "DONE1" /\ HoldsClk(v)
                  \/ InState(v, "FRAMEERR0") /\ v.timeout = Err
<1>1. Sends(u) /\ Left(u, d) \in Nat /\ u.data
  BY TalksSends, LeftIs DEF HoldsClk
<1> DEFINE v == Exec(u, d, a)
<1>2. \/ Goes(u, v, "FRAMEERR0", u.bit, u.byte, Err, TRUE, TRUE)
      \/ Goes(u, v, "DONE1", u.bit, u.byte, Left(u, d), u.clk, u.data)
  BY <1>1, SendsDone
<1> HIDE DEF v
<1>3. /\ Keep(u, v) /\ v.byte = u.byte
      /\ \/ v.state = "DONE1" /\ HoldsClk(v)
         \/ InState(v, "FRAMEERR0") /\ v.timeout = Err
  BY <1>2 DEF Goes, HoldsClk, InState, Free
<1>4. TalksAhead(v) /\ v.st = u.st /\ v.taken = u.taken
  BY <1>3, KeepAhead
<1> QED BY <1>3, <1>4 DEF SameByte, v

LEMMA Err0Stays ==
    ASSUME NEW u, Typed(u), TalksAhead(u), InState(u, "FRAMEERR0"), u.timeout = Err,
           cpu.atn, NEW a
    PROVE  LET v == Exec(u, 0, a)
           IN  SameByte(u, v) /\ TalksAhead(v) /\ InState(v, "FRAMEERR0") /\ v.timeout = Err
<1>1. Sends(u) /\ Left(u, 0) = Err /\ Err # 0 /\ u.state = "FRAMEERR0"
  BY TalksSends, LeftIs, TimesAre DEF InState
<1> DEFINE v == Exec(u, 0, a)
<1>2. Goes(u, v, "FRAMEERR0", u.bit, u.byte, Left(u, 0), u.clk, u.data)
  BY <1>1, SendsDone
<1> HIDE DEF v
<1>3. /\ Keep(u, v) /\ v.byte = u.byte /\ InState(v, "FRAMEERR0") /\ v.timeout = Err
  BY <1>1, <1>2 DEF Goes, InState, Free
<1>4. TalksAhead(v) /\ v.st = u.st /\ v.taken = u.taken
  BY <1>3, KeepAhead
<1> QED BY <1>3, <1>4 DEF SameByte, v

\* Before the first edge, with no byte in hand.
EdgeWait(u) ==
    /\ With(u, {"TALKING"}) /\ Waits4(u)
    /\ u.state \in {"READY", "FRAMEERR0", "FRAMEERR1"} \/ (u.state = "PRE1" /\ u.timeout = 0)

LEMMA EdgeWaitStays ==
    ASSUME NEW u, Typed(u), EdgeWait(u), cpu.atn, ~ cpu.data, NEW d \in Nat, NEW a
    PROVE  LET v == Exec(u, d, a) IN EdgeWait(v) /\ v.taken = u.taken
<1>1. Sends(u) /\ Left(u, d) \in Nat /\ Left(u, d) <= u.timeout
  BY TalksSends, LeftIs DEF EdgeWait
<1>a. u.timeout = 0 => Left(u, d) = 0
  BY LeftIs
<1> DEFINE v == Exec(u, d, a)
<1>2. CASE u.state = "READY"
  <2>1. Goes(u, v, "READY", u.bit, u.byte, Left(u, d), u.clk, u.data)
    BY <1>1, <1>2, SendsPre
  <2> HIDE DEF v
  <2>2. Keep(u, v) /\ v.state = "READY" /\ v.clk = u.clk /\ v.data = u.data
    BY <2>1 DEF Goes
  <2>3. With(v, {"TALKING"}) /\ v.taken = u.taken
    BY <2>2, KeepWith DEF EdgeWait
  <2>4. Waits4(v)
    BY <1>2, <2>2 DEF EdgeWait, Waits4, InState, Free
  <2> QED BY <2>2, <2>3, <2>4 DEF EdgeWait, v
<1>3. CASE u.state = "PRE1" /\ u.timeout = 0
  <2>1. Goes(u, v, "READY", u.bit, u.byte, 0, TRUE, TRUE)
    BY <1>1, <1>a, <1>3, SendsPre
  <2> HIDE DEF v
  <2>2. Keep(u, v) /\ v.state = "READY" /\ v.clk /\ v.data
    BY <2>1 DEF Goes
  <2>3. With(v, {"TALKING"}) /\ v.taken = u.taken
    BY <2>2, KeepWith DEF EdgeWait
  <2>4. Waits4(v)
    BY <2>2 DEF Waits4, InState, Free
  <2> QED BY <2>2, <2>3, <2>4 DEF EdgeWait, v
<1>4. CASE u.state = "FRAMEERR0"
  <2>1. \/ Goes(u, v, "FRAMEERR1", u.bit, u.byte, 0, FALSE, TRUE)
        \/ Goes(u, v, "FRAMEERR0", u.bit, u.byte, Left(u, d), u.clk, u.data)
    BY <1>1, <1>4, SendsDone
  <2>a. u.timeout <= Err /\ u.clk /\ u.data /\ u.timeout \in Nat /\ Err \in Nat
    BY <1>4, TimesAre DEF EdgeWait, Waits4, InState, Free, HoldsClk, Typed
  <2> HIDE DEF v
  <2>2. /\ Keep(u, v)
        /\ \/ v.state = "FRAMEERR1" /\ HoldsClk(v)
           \/ InState(v, "FRAMEERR0") /\ v.timeout = Left(u, d)
    BY <2>1, <2>a DEF Goes, HoldsClk, InState, Free
  <2>3. With(v, {"TALKING"}) /\ v.taken = u.taken
    BY <2>2, KeepWith DEF EdgeWait
  <2>4. Waits4(v)
    BY <1>1, <2>2, <2>a DEF Waits4
  <2> QED BY <2>2, <2>3, <2>4 DEF EdgeWait, InState, v
<1>5. CASE u.state = "FRAMEERR1"
  <2>1. Goes(u, v, "PRE1", u.bit, u.byte, 0, u.clk, u.data)
    BY <1>1, <1>5, SendsDone
  <2> HIDE DEF v
  <2>2. Keep(u, v) /\ v.state = "PRE1" /\ v.timeout = 0 /\ v.clk = u.clk /\ v.data = u.data
    BY <2>1 DEF Goes
  <2>3. With(v, {"TALKING"}) /\ v.taken = u.taken
    BY <2>2, KeepWith DEF EdgeWait
  <2>4. Waits4(v)
    BY <1>5, <2>2 DEF EdgeWait, Waits4, HoldsClk, InState
  <2> QED BY <2>2, <2>3, <2>4 DEF EdgeWait, v
<1> QED BY <1>2, <1>3, <1>4, <1>5 DEF EdgeWait

LEMMA EdgeWaitIs ==
    ASSUME NEW u, Typed(u)
    PROVE  /\ Talker(u) /\ u.clk => Silent(u) \/ EdgeWait(u)
           /\ Silent(u) \/ EdgeWait(u) => EdgeAt(u, EoiWait)
<1>1. ASSUME Talker(u), u.clk PROVE Silent(u) \/ EdgeWait(u)
  BY <1>1 DEF Talker, EdgeWait, Waits4, HoldsClk, InState, Free
<1>2. ASSUME EdgeWait(u) PROVE EdgeAt(u, EoiWait)
  <2>1. With(u, {"TALKING"}) /\ Waits4(u)
    BY <1>2 DEF EdgeWait
  <2>2. \/ u.state \in {"READY", "FRAMEERR1"}
        \/ u.state = "FRAMEERR0" /\ u.timeout <= Err
        \/ u.state = "PRE1" /\ u.timeout = 0
    BY <1>2 DEF EdgeWait, Waits4, InState
  <2>3. EoiWait >= 3 /\ Err <= EoiWait /\ u.timeout \in Nat /\ {Err, EoiWait} \subseteq Nat
    BY TimesAre DEF Typed
  <2> QED BY <2>1, <2>2, <2>3 DEF EdgeAt
<1>3. Silent(u) => EdgeAt(u, EoiWait)
  BY DEF EdgeAt
<1> QED BY <1>1, <1>2, <1>3

\* The talker takes up the next byte, or stops.
LEMMA NextByteGoes ==
    ASSUME NEW u, Typed(u), With(u, {"TALKING"}), InState(u, "READY"), cpu.atn, cpu.data,
           NEW d \in Nat, NEW a
    PROVE  LET v == Exec(u, d, a)
           IN  /\ v.taken = u.taken /\ v.clk
               /\ Silent(v) \/ (FirstBitIn(v) /\ v.st = OK) \/ Announces(v, "EOI")
<1>1. Sends(u) /\ u.clk /\ u.data /\ u.state = "READY"
  BY TalksSends DEF InState, Free
<1> DEFINE v == Exec(u, d, a)
<1>2. /\ v.enabled = u.enabled /\ v.mode = u.mode /\ v.file = u.file
      /\ v.taken = u.taken /\ v.got = u.got /\ v.lossy = u.lossy
      /\ v.clk = u.clk /\ v.data = u.data
      /\ IF u.mode = "read" /\ u.pos < Len(u.file)
         THEN /\ v.byte = u.file[u.pos + 1] /\ v.pos = u.pos + 1
              /\ v.flags = u.flags
              /\ IF u.pos + 1 = Len(u.file)
                 THEN v.st = EOF /\ v.state = "EOI"
                 ELSE /\ v.st = OK /\ v.state = "BIT" /\ v.bit = 0
                      /\ v.timeout = 0
         ELSE v.pos = u.pos /\ v.flags = {}
  BY <1>1, SendsNext
<1> HIDE DEF v
<1>3. /\ u.pos \in Nat /\ Len(u.got) \in Nat /\ Len(u.file) \in Nat /\ u.enabled
      /\ u.flags = {"TALKING"} /\ Level(u)
  <2>1. u.file \in Seq(Byte)
    <3>1. u.file \in Files \/ u.file = << >>
      BY DEF Typed
    <3>2. Files \subseteq Seq(Byte)
      BY BytesAssumption
    <3>3. << >> \in Seq(Byte)
      BY EmptySeq
    <3> QED BY <3>1, <3>2, <3>3
  <2>2. u.got \in Seq(Entries) /\ u.pos \in Nat
    BY DEF Typed
  <2>3. Len(u.file) \in Nat
    BY <2>1, LenProperties
  <2>4. Len(u.got) \in Nat
    BY <2>2, LenProperties
  <2>5. u.enabled /\ u.flags = {"TALKING"} /\ Level(u)
    BY DEF With
  <2> QED BY <2>2, <2>3, <2>4, <2>5
<1>4. Free(v) /\ v.enabled
  BY <1>1, <1>2, <1>3 DEF Free
<1>5. CASE u.mode = "read" /\ u.pos < Len(u.file)
  <2>1. /\ v.mode = "read" /\ v.pos = u.pos + 1 /\ v.file = u.file /\ v.got = u.got
        /\ v.byte = v.file[v.pos] /\ v.lossy = u.lossy /\ v.flags = {"TALKING"}
    BY <1>2, <1>3, <1>5
  <2>2. v.pos \in 1 .. Len(v.file)
    BY <1>3, <1>5, <2>1
  <2>3. ~ v.lossy => v.pos = Len(v.got) + 1 /\ GotRight(v)
    BY <1>3, <1>5, <2>1 DEF Level, GotRight
  <2>4. v.st = IF v.pos = Len(v.file) THEN EOF ELSE OK
    BY <1>2, <1>5, <2>1
  <2>5. TalksAhead(v)
    BY <1>4, <2>1, <2>2, <2>3, <2>4 DEF TalksAhead, Ahead
  <2>6. CASE u.pos + 1 = Len(u.file)
    <3>1. v.st = EOF /\ v.state = "EOI"
      BY <1>2, <1>5, <2>6
    <3>2. Announces(v, "EOI")
      BY <1>4, <2>5, <3>1 DEF Announces, InState
    <3> QED BY <1>1, <1>2, <3>2 DEF v
  <2>7. CASE u.pos + 1 # Len(u.file)
    <3>1. v.st = OK /\ v.state = "BIT" /\ v.bit = 0 /\ v.timeout = 0
      BY <1>2, <1>5, <2>7
    <3>2. FirstBitIn(v)
      BY <1>4, <2>5, <3>1 DEF FirstBitIn, InBit, InState
    <3> QED BY <1>1, <1>2, <3>1, <3>2 DEF v
  <2> QED BY <2>6, <2>7
<1>6. CASE ~ (u.mode = "read" /\ u.pos < Len(u.file))
  <2>1. v.pos = u.pos /\ v.flags = {}
    BY <1>2, <1>6
  <2>2. Level(v)
    BY <1>2, <1>3, <2>1 DEF Level, GotRight
  <2>3. Silent(v)
    BY <1>4, <2>1, <2>2 DEF Silent, With
  <2> QED BY <1>1, <1>2, <2>3 DEF v
<1> QED BY <1>5, <1>6

LEMMA FirstBitGoes ==
    ASSUME NEW u, Typed(u), FirstBitIn(u), cpu.atn, NEW d \in Nat, NEW a
    PROVE  LET v == Exec(u, d, a)
           IN  SameByte(u, v) /\ BitOut(v, 0) /\ ~ v.clk
<1>1. TalksAhead(u) /\ u.state = "BIT" /\ u.bit = 0 /\ u.timeout = 0
  BY DEF FirstBitIn, InBit, InState
<1> DEFINE v == Exec(u, d, a)
<1>2. /\ SameByte(u, v)
      /\ \/ BitOut(v, u.bit)
         \/ /\ u.timeout # 0 /\ TalksAhead(v) /\ v.state = "BIT"
            /\ v.bit = u.bit /\ v.clk = u.clk
  BY <1>1, BitGoes
<1> HIDE DEF v
<1>3. SameByte(u, v) /\ BitOut(v, 0) /\ ~ v.clk
  BY <1>1, <1>2 DEF BitOut
<1> QED BY <1>3 DEF v

\* The Kernal looks for the first edge.
LEMMA EdgeLook ==
    ASSUME NEW u, Typed(u), NEW t \in 1 .. EoiWait, EdgeAt(u, t), cpu.atn, cpu.data, NEW a
    PROVE  LET v == Exec(u, 1, a)
           IN  /\ v.taken = u.taken
               /\ \/ /\ v.clk /\ (t > 1 => EdgeAt(v, t - 1))
                     /\ t = 1 => Silent(v) \/ Announces(v, "EOI")
                  \/ ~ v.clk /\ (Stuck(v) \/ (BitOut(v, 0) /\ v.st = OK))
<1>0. 1 \in Nat /\ t \in Nat /\ t >= 1 /\ t - 1 \in Nat
  BY TimesAre
<1> DEFINE v == Exec(u, 1, a)
<1>1. CASE Silent(u)
  <2>1. Silent(v) /\ v.taken = u.taken
    BY <1>1, SilentStays
  <2> HIDE DEF v
  <2>2. v.clk /\ EdgeAt(v, t - 1)
    BY <2>1 DEF EdgeAt, Silent, Free
  <2> QED BY <2>1, <2>2 DEF v
<1>2. CASE With(u, {"TALKING"}) /\ InState(u, "READY") /\ t >= 2
  <2>1. /\ v.taken = u.taken /\ v.clk
        /\ Silent(v) \/ (FirstBitIn(v) /\ v.st = OK) \/ Announces(v, "EOI")
    BY <1>0, <1>2, NextByteGoes
  <2> HIDE DEF v
  <2>2. EdgeAt(v, t - 1) /\ t # 1
    BY <1>0, <1>2, <2>1 DEF EdgeAt
  <2> QED BY <1>0, <2>1, <2>2 DEF v
<1>3. CASE With(u, {"TALKING"}) /\ u.state = "PRE1" /\ u.timeout = 0 /\ t >= 3
  <2>1. Sends(u) /\ Left(u, 1) = 0
    BY <1>0, <1>3, TalksSends, LeftIs
  <2>2. Goes(u, v, "READY", u.bit, u.byte, 0, TRUE, TRUE)
    BY <1>0, <1>3, <2>1, SendsPre
  <2> HIDE DEF v
  <2>3. Keep(u, v) /\ v.state = "READY" /\ v.clk /\ v.data
    BY <2>2 DEF Goes
  <2>4. With(v, {"TALKING"}) /\ v.taken = u.taken
    BY <1>3, <2>3, KeepWith
  <2>5. t - 1 >= 2 /\ t # 1
    BY <1>0, <1>3
  <2>6. EdgeAt(v, t - 1)
    BY <2>3, <2>4, <2>5 DEF EdgeAt, Waits4, InState, Free
  <2> QED BY <2>3, <2>4, <2>5, <2>6 DEF v
<1>4. CASE With(u, {"TALKING"}) /\ InState(u, "FRAMEERR0") /\ u.timeout <= t /\ u.timeout <= Err
  <2>1. Sends(u) /\ u.state = "FRAMEERR0" /\ u.timeout \in Nat /\ Err \in Nat /\ Free(u)
    BY <1>4, TalksSends, TimesAre DEF Typed, InState
  <2>2. Left(u, 1) \in Nat /\ (u.timeout # 0 => Left(u, 1) = u.timeout - 1)
    BY <1>0, LeftIs
  <2>3. /\ Left(u, 1) = 0 => Goes(u, v, "FRAMEERR1", u.bit, u.byte, 0, FALSE, TRUE)
        /\ Left(u, 1) # 0 => Goes(u, v, "FRAMEERR0", u.bit, u.byte, Left(u, 1), u.clk, u.data)
    BY <1>0, <2>1, SendsDone
  <2> HIDE DEF v
  <2>4. CASE Left(u, 1) = 0
    <3>1. Keep(u, v) /\ v.state = "FRAMEERR1" /\ ~ v.clk /\ v.data
      BY <2>3, <2>4 DEF Goes
    <3>2. With(v, {"TALKING"}) /\ v.taken = u.taken
      BY <1>4, <3>1, KeepWith
    <3> QED BY <3>1, <3>2 DEF Stuck, HoldsClk, v
  <2>5. CASE Left(u, 1) # 0
    <3>1. Keep(u, v) /\ v.state = "FRAMEERR0" /\ v.clk /\ v.data /\ v.timeout = Left(u, 1)
      BY <2>1, <2>3, <2>5 DEF Goes, Free
    <3>2. With(v, {"TALKING"}) /\ v.taken = u.taken
      BY <1>4, <3>1, KeepWith
    <3>a. u.timeout = 0 => Left(u, 1) = 0
      BY <1>0, LeftIs
    <3>3. v.timeout <= t - 1 /\ v.timeout <= Err /\ t # 1
      BY <1>0, <1>4, <2>1, <2>2, <2>5, <3>1, <3>a
    <3>4. EdgeAt(v, t - 1)
      BY <3>1, <3>2, <3>3 DEF EdgeAt, Waits4, InState, Free
    <3> QED BY <3>1, <3>2, <3>3, <3>4 DEF v
  <2> QED BY <2>4, <2>5
<1>5. CASE With(u, {"TALKING"}) /\ u.state = "FRAMEERR1" /\ HoldsClk(u)
  <2>1. Sends(u) /\ u.data
    BY <1>5, TalksSends DEF HoldsClk
  <2>2. Goes(u, v, "FRAMEERR1", u.bit, u.byte, Left(u, 1), u.clk, u.data)
    BY <1>0, <1>5, <2>1, SendsDone
  <2> HIDE DEF v
  <2>3. Keep(u, v) /\ v.state = "FRAMEERR1" /\ v.clk = u.clk /\ v.data = u.data
    BY <2>2 DEF Goes
  <2>4. With(v, {"TALKING"}) /\ v.taken = u.taken
    BY <1>5, <2>3, KeepWith
  <2> QED BY <1>5, <2>3, <2>4 DEF Stuck, HoldsClk, v
<1>6. CASE FirstBitIn(u) /\ u.st = OK
  <2>1. SameByte(u, v) /\ BitOut(v, 0) /\ ~ v.clk
    BY <1>0, <1>6, FirstBitGoes
  <2> HIDE DEF v
  <2> QED BY <1>6, <2>1 DEF SameByte, v
<1>7. CASE Announces(u, "EOI")
  <2>1. Announces(v, "EOI") /\ v.taken = u.taken
    BY <1>0, <1>7, AnnounceStays
  <2> HIDE DEF v
  <2>2. v.clk /\ EdgeAt(v, t - 1)
    BY <2>1 DEF EdgeAt, Announces, InState, Free
  <2> QED BY <2>1, <2>2 DEF v
<1> QED BY <1>1, <1>2, <1>3, <1>4, <1>5, <1>6, <1>7 DEF EdgeAt, Waits4, InState

\* And once more, when the end was announced.
LEMMA LateLook ==
    ASSUME NEW u, Typed(u), NEW t \in 1 .. EoiWait, LateAt(u, t), cpu.atn, cpu.data, NEW a
    PROVE  LET v == Exec(u, 1, a)
           IN  /\ v.taken = u.taken
               /\ \/ v.clk /\ (t > 1 => LateAt(v, t - 1)) /\ (t = 1 => Silent(v))
                  \/ ~ v.clk /\ BitOut(v, 0) /\ v.st = EOF
<1>0. 1 \in Nat /\ t \in Nat /\ t >= 1
  BY TimesAre
<1> DEFINE v == Exec(u, 1, a)
<1>1. CASE Silent(u)
  <2>1. Silent(v) /\ v.taken = u.taken
    BY <1>1, SilentStays
  <2> HIDE DEF v
  <2>2. v.clk /\ LateAt(v, t - 1)
    BY <2>1 DEF LateAt, Silent, Free
  <2> QED BY <2>1, <2>2 DEF v
<1>2. CASE Announces(u, "EOIw") /\ t >= 2
  <2>1. FirstBitIn(v) /\ v.st = EOF /\ v.taken = u.taken
    BY <1>0, <1>2, AnnounceOver
  <2> HIDE DEF v
  <2>2. v.clk /\ LateAt(v, t - 1) /\ t # 1
    BY <1>0, <1>2, <2>1 DEF LateAt, FirstBitIn, InBit, InState, Free
  <2> QED BY <2>1, <2>2 DEF v
<1>3. CASE FirstBitIn(u) /\ u.st = EOF
  <2>1. SameByte(u, v) /\ BitOut(v, 0) /\ ~ v.clk
    BY <1>0, <1>3, FirstBitGoes
  <2> HIDE DEF v
  <2> QED BY <1>3, <2>1 DEF SameByte, v
<1> QED BY <1>1, <1>2, <1>3 DEF LateAt

(* Reading, access by access. *)
LEMMA StartingKept ==
    ASSUME UNCHANGED <<calls, eoi, input>>, NEW e
    PROVE  /\ Starting(e) => Starting(e)'
           /\ calls = <<Untalk>> => calls' = <<Untalk>>
BY DEF Starting

LEMMA ReadClkHiNext ==
    ASSUME TypeOK, AtReadClkHi, Kernal
    PROVE  AtTalkerReady(FALSE)' /\ Untaken
<1>1. Is(code, StoreOf([clk |-> TRUE], 0), FromTalkerReady(FALSE))
  BY FromReadIs, StoreIs DEF AtReadClkHi
<1>2. cpu = Lines(TRUE, TRUE, FALSE) /\ Talker(device) /\ Starting(FALSE)
  BY DEF AtReadClkHi
<1>3. /\ cpu' = Lines(TRUE, TRUE, FALSE) /\ code' = FromTalkerReady(FALSE) /\ Rests /\ Accessed
      /\ cpu.atn /\ ~ cpu.data
  BY <1>1, <1>2, ClkGoes
<1>4. Talker(device') /\ device'.taken = device.taken
  BY <1>2, <1>3, TalkerAfter
<1>5. Starting(FALSE)' /\ sent' = sent
  BY <1>2, <1>3, StartingKept DEF Rests
<1>6. AtTalkerReady(FALSE)'
  BY <1>3, <1>4, <1>5 DEF AtTalkerReady
<1> QED BY <1>4, <1>5, <1>6 DEF Untaken

LEMMA TalkerReadyNext ==
    ASSUME TypeOK, NEW o \in BOOLEAN, AtTalkerReady(o), Kernal
    PROVE  ((\E p \in BOOLEAN : AtTalkerReady(p)') \/ AtReadDataHi') /\ Untaken
<1>1. Is(code, Waits("clk", TRUE, o), FromReadDataHi(FALSE))
  BY FromReadIs DEF AtTalkerReady
<1>2. cpu = Lines(TRUE, TRUE, FALSE) /\ Talker(device) /\ Starting(FALSE)
  BY DEF AtTalkerReady
<1>3. /\ Looked /\ UNCHANGED <<cpu, meddled, calls, eoi, input, sent>>
      /\ IF Bus'["clk"] = TRUE THEN code' = FromReadDataHi(FALSE)
         ELSE \E p \in {o, ~ o} : code' = StillWaits("clk", TRUE, p, FromReadDataHi(FALSE))
  <2>1. LooksFor("clk", TRUE, o, FromReadDataHi(FALSE))
    BY <1>1, UntilMoves
  <2> QED BY <2>1 DEF LooksFor
<1>4. cpu.atn /\ cpu.clk /\ ~ cpu.data /\ Accessed
  BY <1>2, <1>3, LinesHigh, AccessedIs
<1>5. Talker(device') /\ device'.taken = device.taken
  BY <1>2, <1>4, TalkerAfter
<1>6. Starting(FALSE)' /\ sent' = sent /\ cpu' = Lines(TRUE, TRUE, FALSE)
  BY <1>2, <1>3, StartingKept
<1>7. CASE Bus'["clk"] = TRUE
  <2>1. code' = FromReadDataHi(FALSE)
    BY <1>3, <1>7
  <2>2. device'.clk
    BY <1>7, BusIs
  <2>3. AtReadDataHi'
    BY <1>5, <1>6, <2>1, <2>2 DEF AtReadDataHi
  <2> QED BY <1>5, <1>6, <2>3 DEF Untaken
<1>8. CASE ~ (Bus'["clk"] = TRUE)
  <2>1. PICK p \in {o, ~ o} : code' = StillWaits("clk", TRUE, p, FromReadDataHi(FALSE))
    BY <1>3, <1>8
  <2>2. p \in BOOLEAN /\ code' = FromTalkerReady(p)
    BY <2>1 DEF FromTalkerReady, StillWaits
  <2>3. AtTalkerReady(p)'
    BY <1>5, <1>6, <2>2 DEF AtTalkerReady
  <2> QED BY <1>5, <1>6, <2>2, <2>3 DEF Untaken
<1> QED BY <1>7, <1>8

LEMMA EdgeWaitAfter ==
    ASSUME Accessed, cpu.atn, ~ cpu.data, Silent(device) \/ EdgeWait(device)
    PROVE  (Silent(device') \/ EdgeWait(device')) /\ device'.taken = device.taken
<1>1. PICK d, a, p :
          /\ d \in Nat /\ a \in Answers
          /\ p = Exec(device, d, a) /\ Typed(device) /\ Typed(p)
          /\ device' = p \/ device' = Exec(p, 0, a)
  BY DEF Accessed
<1>2. (Silent(p) \/ EdgeWait(p)) /\ p.taken = device.taken
  BY <1>1, SilentStays, EdgeWaitStays
<1>3. 0 \in Nat
  OBVIOUS
<1>4. /\ Silent(Exec(p, 0, a)) \/ EdgeWait(Exec(p, 0, a))
      /\ Exec(p, 0, a).taken = p.taken
  BY <1>1, <1>2, <1>3, SilentStays, EdgeWaitStays
<1> QED BY <1>1, <1>2, <1>4

LEMMA ReadDataHiNext ==
    ASSUME TypeOK, AtReadDataHi, Kernal
    PROVE  AtEdge(EoiWait)' /\ Untaken
<1>1. Is(code, StoreOf([data |-> TRUE], 0), FromEdge(FALSE, EoiWait))
  BY FromReadIs, StoreIs DEF AtReadDataHi
<1>2. cpu = Lines(TRUE, TRUE, FALSE) /\ Talker(device) /\ device.clk /\ Starting(FALSE)
  BY DEF AtReadDataHi
<1>3. /\ cpu' = Lines(TRUE, TRUE, TRUE) /\ code' = FromEdge(FALSE, EoiWait) /\ Rests
      /\ Accessed /\ cpu.atn /\ ~ cpu.data
  BY <1>1, <1>2, DataGoes
<1>4. Typed(device)
  BY <1>3 DEF Accessed
<1>5. (Silent(device') \/ EdgeWait(device')) /\ device'.taken = device.taken
  BY <1>2, <1>3, <1>4, EdgeWaitIs, EdgeWaitAfter
<1>s. Stored(0, FALSE = TRUE)
  BY <1>1, <1>2, DataGoes
<1>6. Typed(device')
  BY <1>s, StoredIs, TimesToWait
<1>7. EdgeAt(device', EoiWait)
  BY <1>5, <1>6, EdgeWaitIs
<1>8. Starting(FALSE)' /\ sent' = sent
  BY <1>2, <1>3, StartingKept DEF Rests
<1>9. AtEdge(EoiWait)'
  BY <1>3, <1>7, <1>8 DEF AtEdge
<1> QED BY <1>5, <1>8, <1>9 DEF Untaken

LEMMA LookEnds ==
    ASSUME TypeOK, Looked, cpu' = Lines(TRUE, TRUE, TRUE), cpu' = cpu
    PROVE  /\ cpu.atn /\ cpu.clk /\ cpu.data
           /\ Bus'.clk = device'.clk /\ Bus'.data = device'.data
           /\ \E a \in Answers : device' = Exec(device, 1, a) /\ Typed(device) /\ Typed(device')
<1>1. PICK a \in Answers : device' = Exec(device, 1, a) /\ Typed(device) /\ Typed(device')
  BY LookIs
<1>2. device'.clk \in BOOLEAN /\ device'.data \in BOOLEAN
  BY <1>1 DEF Typed
<1>3. cpu.atn = TRUE /\ cpu.clk = TRUE /\ cpu.data = TRUE
  BY LinesHigh
<1>4. cpu'.clk = TRUE /\ cpu'.data = TRUE
  BY <1>3
<1> QED BY <1>1, <1>2, <1>3, <1>4, BusIs

LEMMA FromEoiIs ==
    <<DataLo, ClkHi, DataHi, FirstEdge(TRUE)>> \o FromReadBit(0) = FromEoi
<1> DEFINE f == <<DataLo, ClkHi, DataHi, FirstEdge(TRUE)>>
           s == FromReadBit(0)
<1>1. IsSeries(s)
  BY FromReadBitIsASeq, BitsAssumption
<1>2. f = <<f[1], f[2], f[3], f[4]>>
  OBVIOUS
<1>3. f[1] = DataLo /\ f[2] = ClkHi /\ f[3] = DataHi /\ f[4] = FirstEdge(TRUE)
  OBVIOUS
<1> HIDE DEF f, s
<1>4. Joined(f, s) = Joined(<<f[1]>>, Joined(<<f[2]>>, Joined(<<f[3]>>, Joined(<<f[4]>>, s))))
  BY <1>1, <1>2, FourFirst
<1>5. Joined(f, s) =
        Joined(<<DataLo>>, Joined(<<ClkHi>>, Joined(<<DataHi>>, Joined(<<FirstEdge(TRUE)>>, s))))
  BY <1>3, <1>4
<1>6. FirstEdge(TRUE) = Edge(TRUE, EoiWait)
  BY DEF FirstEdge, Edge
<1>7. Joined(<<FirstEdge(TRUE)>>, s) = FromEdge(TRUE, EoiWait)
  BY <1>6 DEF FromEdge, Joined, s
<1>8. Joined(<<DataHi>>, FromEdge(TRUE, EoiWait)) = FromReadDataHi(TRUE)
  BY DEF FromReadDataHi, Joined
<1>9. Joined(<<ClkHi>>, FromReadDataHi(TRUE)) = FromEoiClkHi
  BY DEF FromEoiClkHi, Joined
<1>10. Joined(<<DataLo>>, FromEoiClkHi) = FromEoi
  BY DEF FromEoi, Joined
<1>11. Joined(f, s) = FromEoi
  BY <1>5, <1>7, <1>8, <1>9, <1>10
<1> QED BY <1>11 DEF Joined, f, s

LEMMA FirstSample ==
    ASSUME Typed(device'), code' = FromReadBit(0), calls' = <<Untalk>>, cpu' = Lines(TRUE, TRUE, TRUE),
           input' = {},
           \/ Stuck(device')
           \/ BitOut(device', 0) /\ eoi' = (device'.st = EOF)
    PROVE  Reading'
<1>1. 0 \in 0 .. Bits - 1 /\ FALSE \in BOOLEAN
  BY BitsAssumption
<1>2. code' = FromSample(0, FALSE)
  BY <1>1, FromReadBitIs
<1>3. CASE Stuck(device')
  <2>1. AtSample(0, FALSE)'
    BY <1>2, <1>3 DEF AtSample
  <2> QED BY <1>1, <2>1 DEF Reading
<1>4. CASE BitOut(device', 0) /\ eoi' = (device'.st = EOF)
  <2>1. AtEnd(device)'
    BY <1>4 DEF AtEnd
  <2>2. {j \in device'.byte : j < 0} = {}
    BY <1>4 DEF Typed, Byte
  <2>3. input' = {j \in device'.byte : j < 0}
    BY <2>2
  <2>4. AtSample(0, FALSE)'
    BY <1>2, <1>4, <2>1, <2>3 DEF AtSample
  <2> QED BY <1>1, <2>4 DEF Reading
<1> QED BY <1>3, <1>4

LEMMA EdgeNext ==
    ASSUME TypeOK, NEW t \in 1 .. EoiWait, AtEdge(t), Kernal
    PROVE  Reading' /\ Untaken
<1> DEFINE again == <<Edge(FALSE, t - 1)>> \o FromReadBit(0)
           end == <<DataLo, ClkHi, DataHi, FirstEdge(TRUE)>> \o FromReadBit(0)
<1>1. Is(code, Edge(FALSE, t), FromReadBit(0)) /\ FALSE \in BOOLEAN
  BY FromReadIs DEF AtEdge
<1>2. /\ cpu = Lines(TRUE, TRUE, TRUE) /\ EdgeAt(device, t)
      /\ calls = <<Untalk>> /\ eoi = FALSE /\ input = {}
  BY DEF AtEdge, Starting
<1>3. /\ Looked /\ UNCHANGED <<cpu, meddled, input, sent, calls>>
      /\ \/ ~ Bus'.clk /\ code' = FromReadBit(0) /\ eoi' = eoi
         \/ Bus'.clk /\ t > 1 /\ code' = again /\ eoi' = eoi
         \/ /\ Bus'.clk /\ t = 1 /\ ~ FALSE /\ eoi' = TRUE
            /\ code' = end
         \/ Bus'.clk /\ t = 1 /\ FALSE /\ code' = Finish /\ eoi' = eoi
  BY <1>1, EdgeMoves
<1>a. again = FromEdge(FALSE, t - 1)
  BY DEF FromEdge
<1>e. end = FromEoi
  BY FromEoiIs
<1> HIDE DEF again, end
<1>4. cpu' = Lines(TRUE, TRUE, TRUE) /\ cpu' = cpu /\ sent' = sent
  BY <1>2, <1>3
<1>5. PICK a \in Answers : device' = Exec(device, 1, a) /\ Typed(device) /\ Typed(device')
  BY <1>3, <1>4, LookEnds
<1>6. cpu.atn /\ cpu.data /\ Bus'.clk = device'.clk
  BY <1>3, <1>4, LookEnds
<1>7. /\ device'.taken = device.taken
      /\ \/ /\ device'.clk /\ (t > 1 => EdgeAt(device', t - 1))
            /\ t = 1 => Silent(device') \/ Announces(device', "EOI")
         \/ ~ device'.clk /\ (Stuck(device') \/ (BitOut(device', 0) /\ device'.st = OK))
  BY <1>2, <1>5, <1>6, EdgeLook
<1>8. Untaken
  BY <1>4, <1>7 DEF Untaken
<1>9. calls' = <<Untalk>> /\ input' = {}
  BY <1>2, <1>3
<1>10. CASE ~ device'.clk
  <2>1. code' = FromReadBit(0) /\ eoi' = FALSE
    BY <1>2, <1>3, <1>6, <1>10
  <2>a. device'.st = OK => (device'.st = EOF) = FALSE
    BY DEF OK, EOF
  <2>2. Stuck(device') \/ (BitOut(device', 0) /\ eoi' = (device'.st = EOF))
    BY <1>7, <1>10, <2>1, <2>a
  <2>3. Reading'
    BY <1>4, <1>5, <1>9, <2>1, <2>2, FirstSample
  <2> QED BY <1>8, <2>3
<1>11. CASE device'.clk /\ t > 1
  <2>0. t # 1 /\ t - 1 \in 1 .. EoiWait
    BY <1>11, TimesAre
  <2>1. code' = again /\ eoi' = FALSE
    BY <1>2, <1>3, <1>6, <1>11, <2>0
  <2>2. code' = FromEdge(FALSE, t - 1) /\ t - 1 \in 1 .. EoiWait
    BY <2>0, <2>1, <1>a
  <2>3. EdgeAt(device', t - 1)
    BY <1>7, <1>11
  <2>4. Starting(FALSE)'
    BY <1>9, <2>1 DEF Starting
  <2>5. AtEdge(t - 1)'
    BY <1>4, <2>2, <2>3, <2>4 DEF AtEdge
  <2> QED BY <1>8, <2>2, <2>5 DEF Reading
<1>12. CASE device'.clk /\ t = 1
  <2>0. ~ (t > 1)
    BY <1>12
  <2>1. code' = end /\ eoi' = TRUE
    BY <1>3, <1>6, <1>12, <2>0
  <2>2. code' = FromEoi
    BY <2>1, <1>e
  <2>3. Silent(device') \/ Announces(device', "EOI")
    BY <1>7, <1>12
  <2>4. Starting(TRUE)'
    BY <1>9, <2>1 DEF Starting
  <2>5. AtEoiDataLo'
    BY <1>4, <2>2, <2>3, <2>4 DEF AtEoiDataLo
  <2> QED BY <1>8, <2>5 DEF Reading
<1> QED BY <1>10, <1>11, <1>12, <1>5 DEF Typed

\* The end is announced, and the Kernal answers.
LEMMA AnnounceAfter ==
    ASSUME Accessed, cpu.atn
    PROVE  /\ Announces(device, "EOI") /\ cpu.data =>
                Announces(device', "EOI") /\ device'.taken = device.taken
           /\ Announces(device, "EOI") \/ Announces(device, "EOIw") =>
                (~ cpu.data => Announces(device', "EOIw") /\ device'.taken = device.taken)
<1>1. PICK d, a, p :
          /\ d \in Nat /\ a \in Answers
          /\ p = Exec(device, d, a) /\ Typed(device) /\ Typed(p)
          /\ device' = p \/ device' = Exec(p, 0, a)
  BY DEF Accessed
<1>2. 0 \in Nat
  OBVIOUS
<1>3. ASSUME Announces(device, "EOI"), cpu.data
      PROVE  Announces(device', "EOI") /\ device'.taken = device.taken
  <2>1. Announces(p, "EOI") /\ p.taken = device.taken
    BY <1>1, <1>3, AnnounceStays
  <2>2. Announces(Exec(p, 0, a), "EOI") /\ Exec(p, 0, a).taken = p.taken
    BY <1>1, <1>2, <1>3, <2>1, AnnounceStays
  <2> QED BY <1>1, <2>1, <2>2
<1>4. ASSUME Announces(device, "EOI") \/ Announces(device, "EOIw"), ~ cpu.data
      PROVE  Announces(device', "EOIw") /\ device'.taken = device.taken
  <2>1. Announces(p, "EOIw") /\ p.taken = device.taken
    BY <1>1, <1>4, AnnounceHeard
  <2>2. Announces(Exec(p, 0, a), "EOIw") /\ Exec(p, 0, a).taken = p.taken
    BY <1>1, <1>2, <1>4, <2>1, AnnounceHeard
  <2> QED BY <1>1, <2>1, <2>2
<1> QED BY <1>3, <1>4

LEMMA EoiDataLoNext ==
    ASSUME TypeOK, AtEoiDataLo, Kernal
    PROVE  AtEoiClkHi' /\ Untaken
<1>1. Is(code, StoreOf([data |-> FALSE], 0), FromEoiClkHi)
  BY FromReadIs, StoreIs DEF AtEoiDataLo
<1>2. cpu = Lines(TRUE, TRUE, TRUE) /\ Starting(TRUE)
  BY DEF AtEoiDataLo
<1>3. /\ cpu' = Lines(TRUE, TRUE, FALSE) /\ code' = FromEoiClkHi /\ Rests /\ Accessed
      /\ cpu.atn /\ cpu.data
  BY <1>1, <1>2, DataGoes
<1>4. (Silent(device') \/ Announces(device', "EOI")) /\ device'.taken = device.taken
  BY <1>3, CalmAfter, AnnounceAfter DEF AtEoiDataLo
<1>5. Starting(TRUE)' /\ sent' = sent
  BY <1>2, <1>3, StartingKept DEF Rests
<1>6. AtEoiClkHi'
  BY <1>3, <1>4, <1>5 DEF AtEoiClkHi
<1> QED BY <1>4, <1>5, <1>6 DEF Untaken

LEMMA EoiClkHiNext ==
    ASSUME TypeOK, AtEoiClkHi, Kernal
    PROVE  AtEoiDataHi' /\ Untaken
<1>1. Is(code, StoreOf([clk |-> TRUE], 0), FromReadDataHi(TRUE))
  BY FromReadIs, StoreIs DEF AtEoiClkHi
<1>2. cpu = Lines(TRUE, TRUE, FALSE) /\ Starting(TRUE)
  BY DEF AtEoiClkHi
<1>3. /\ cpu' = Lines(TRUE, TRUE, FALSE) /\ code' = FromReadDataHi(TRUE) /\ Rests /\ Accessed
      /\ cpu.atn /\ ~ cpu.data
  BY <1>1, <1>2, ClkGoes
<1>4. (Silent(device') \/ Announces(device', "EOIw")) /\ device'.taken = device.taken
  BY <1>3, CalmAfter, AnnounceAfter DEF AtEoiClkHi
<1>5. Starting(TRUE)' /\ sent' = sent
  BY <1>2, <1>3, StartingKept DEF Rests
<1>6. AtEoiDataHi'
  BY <1>3, <1>4, <1>5 DEF AtEoiDataHi
<1> QED BY <1>4, <1>5, <1>6 DEF Untaken

LEMMA EoiDataHiNext ==
    ASSUME TypeOK, AtEoiDataHi, Kernal
    PROVE  AtLateEdge(EoiWait)' /\ Untaken
<1>1. Is(code, StoreOf([data |-> TRUE], 0), FromEdge(TRUE, EoiWait))
  BY FromReadIs, StoreIs DEF AtEoiDataHi
<1>2. cpu = Lines(TRUE, TRUE, FALSE) /\ Starting(TRUE)
  BY DEF AtEoiDataHi
<1>3. /\ cpu' = Lines(TRUE, TRUE, TRUE) /\ code' = FromEdge(TRUE, EoiWait) /\ Rests
      /\ Accessed /\ cpu.atn /\ ~ cpu.data
  BY <1>1, <1>2, DataGoes
<1>4. (Silent(device') \/ Announces(device', "EOIw")) /\ device'.taken = device.taken
  BY <1>3, CalmAfter, AnnounceAfter DEF AtEoiDataHi
<1>5. Starting(TRUE)' /\ sent' = sent
  BY <1>2, <1>3, StartingKept DEF Rests
<1>6. EoiWait >= 2
  BY TimesAre
<1>7. LateAt(device', EoiWait)
  BY <1>4, <1>6 DEF LateAt
<1>8. AtLateEdge(EoiWait)'
  BY <1>3, <1>5, <1>7 DEF AtLateEdge
<1> QED BY <1>4, <1>5, <1>8 DEF Untaken

LEMMA LateEdgeNext ==
    ASSUME TypeOK, NEW t \in 1 .. EoiWait, AtLateEdge(t), Kernal
    PROVE  (Reading' \/ Ending') /\ Untaken
<1> DEFINE again == <<Edge(TRUE, t - 1)>> \o FromReadBit(0)
           end == <<DataLo, ClkHi, DataHi, FirstEdge(TRUE)>> \o FromReadBit(0)
<1>1. Is(code, Edge(TRUE, t), FromReadBit(0)) /\ TRUE \in BOOLEAN
  BY FromReadIs DEF AtLateEdge
<1>2. /\ cpu = Lines(TRUE, TRUE, TRUE) /\ LateAt(device, t)
      /\ calls = <<Untalk>> /\ eoi = TRUE /\ input = {}
  BY DEF AtLateEdge, Starting
<1>3. /\ Looked /\ UNCHANGED <<cpu, meddled, input, sent, calls>>
      /\ \/ ~ Bus'.clk /\ code' = FromReadBit(0) /\ eoi' = eoi
         \/ Bus'.clk /\ t > 1 /\ code' = again /\ eoi' = eoi
         \/ Bus'.clk /\ t = 1 /\ ~ TRUE /\ eoi' = TRUE /\ code' = end
         \/ Bus'.clk /\ t = 1 /\ TRUE /\ code' = Finish /\ eoi' = eoi
  BY <1>1, EdgeMoves
<1>a. again = FromEdge(TRUE, t - 1)
  BY DEF FromEdge
<1> HIDE DEF again, end
<1>4. cpu' = Lines(TRUE, TRUE, TRUE) /\ cpu' = cpu /\ sent' = sent
  BY <1>2, <1>3
<1>5. PICK a \in Answers : device' = Exec(device, 1, a) /\ Typed(device) /\ Typed(device')
  BY <1>3, <1>4, LookEnds
<1>6. cpu.atn /\ cpu.data /\ Bus'.clk = device'.clk
  BY <1>3, <1>4, LookEnds
<1>7. /\ device'.taken = device.taken
      /\ \/ device'.clk /\ (t > 1 => LateAt(device', t - 1)) /\ (t = 1 => Silent(device'))
         \/ ~ device'.clk /\ BitOut(device', 0) /\ device'.st = EOF
  BY <1>2, <1>5, <1>6, LateLook
<1>8. Untaken
  BY <1>4, <1>7 DEF Untaken
<1>9. calls' = <<Untalk>> /\ input' = {}
  BY <1>2, <1>3
<1>10. CASE ~ device'.clk
  <2>1. code' = FromReadBit(0) /\ eoi' = TRUE
    BY <1>2, <1>3, <1>6, <1>10
  <2>a. device'.st = EOF => (device'.st = EOF) = TRUE
    OBVIOUS
  <2>2. BitOut(device', 0) /\ eoi' = (device'.st = EOF)
    BY <1>7, <1>10, <2>1, <2>a
  <2>3. Reading'
    BY <1>4, <1>5, <1>9, <2>1, <2>2, FirstSample
  <2> QED BY <1>8, <2>3
<1>11. CASE device'.clk /\ t > 1
  <2>0. t # 1 /\ t - 1 \in 1 .. EoiWait
    BY <1>11, TimesAre
  <2>1. code' = again /\ eoi' = TRUE
    BY <1>2, <1>3, <1>6, <1>11, <2>0
  <2>2. code' = FromEdge(TRUE, t - 1)
    BY <2>1, <1>a
  <2>3. LateAt(device', t - 1)
    BY <1>7, <1>11
  <2>4. Starting(TRUE)'
    BY <1>9, <2>1 DEF Starting
  <2>5. AtLateEdge(t - 1)'
    BY <1>4, <2>2, <2>3, <2>4 DEF AtLateEdge
  <2> QED BY <1>8, <2>0, <2>5 DEF Reading
<1>12. CASE device'.clk /\ t = 1
  <2>0. ~ (t > 1)
    BY <1>12
  <2>1. code' = Finish
    BY <1>3, <1>6, <1>12, <2>0
  <2>2. Silent(device')
    BY <1>7, <1>12
  <2>3. AfterFail'
    BY <1>9 DEF AfterFail
  <2>4. AtFinish'
    BY <1>4, <1>9, <2>1, <2>2, <2>3 DEF AtFinish
  <2> QED BY <1>8, <2>4 DEF Ending
<1> QED BY <1>10, <1>11, <1>12, <1>5 DEF Typed

LEMMA EndKept ==
    ASSUME eoi' = eoi, SameByte(device, device'), AtEnd(device)
    PROVE  AtEnd(device)' /\ device'.byte = device.byte /\ device'.taken = device.taken
BY DEF SameByte, AtEnd

LEMMA BitsUpTo ==
    ASSUME NEW b \in Byte, NEW i \in 0 .. Bits - 1
    PROVE  /\ {j \in b : j <= i} = {j \in b : j < i + 1}
           /\ i = Bits - 1 => {j \in b : j <= i} = b
<1>1. b \subseteq 0 .. Bits - 1 /\ Bits \in Nat
  BY BitsAssumption DEF Byte
<1>2. \A j \in b : j <= i <=> j < i + 1
  BY <1>1
<1>3. i = Bits - 1 => \A j \in b : j <= i
  BY <1>1
<1> QED BY <1>2, <1>3

LEMMA BitRead ==
    ASSUME NEW b \in Byte, NEW i \in 0 .. Bits - 1, NEW x, x <=> i \in b
    PROVE  WithBit({j \in b : j < i}, i, x) = {j \in b : j <= i}
<1>1. b \subseteq 0 .. Bits - 1
  BY DEF Byte
<1>2. \A j \in b : j <= i <=> j < i \/ j = i
  BY <1>1
<1>3. ~ (i < i)
  OBVIOUS
<1>4. CASE i \in b
  BY <1>2, <1>4 DEF WithBit
<1>5. CASE i \notin b
  BY <1>2, <1>3, <1>5 DEF WithBit
<1> QED BY <1>4, <1>5

LEMMA StuckStays ==
    ASSUME NEW u, Typed(u), Stuck(u), cpu.atn, cpu.data, NEW d \in Nat, NEW a
    PROVE  LET v == Exec(u, d, a) IN Stuck(v) /\ v.taken = u.taken /\ ~ v.clk
<1>1. Sends(u) /\ u.data /\ u.state = "FRAMEERR1"
  BY TalksSends DEF Stuck, HoldsClk
<1> DEFINE v == Exec(u, d, a)
<1>2. Goes(u, v, "FRAMEERR1", u.bit, u.byte, Left(u, d), u.clk, u.data)
  BY <1>1, SendsDone
<1> HIDE DEF v
<1>3. Keep(u, v) /\ v.state = "FRAMEERR1" /\ v.clk = u.clk /\ v.data = u.data
  BY <1>2 DEF Goes
<1>4. With(v, {"TALKING"}) /\ v.taken = u.taken
  BY <1>3, KeepWith DEF Stuck
<1> QED BY <1>3, <1>4 DEF Stuck, HoldsClk, v

LEMMA SampleNext ==
    ASSUME TypeOK, NEW i \in 0 .. Bits - 1, NEW o \in BOOLEAN, AtSample(i, o), Kernal
    PROVE  Reading' /\ Untaken
<1> DEFINE again(p) == <<Tries(i, p)>> \o FromEdgeEnd(i, FALSE)
<1>1. Is(code, Tries(i, o), FromEdgeEnd(i, FALSE))
  BY FromReadBitIs DEF AtSample
<1>2. cpu = Lines(TRUE, TRUE, TRUE) /\ calls = <<Untalk>>
  BY DEF AtSample
<1>3. /\ Looked /\ UNCHANGED <<cpu, meddled, calls, eoi, sent>>
      /\ IF Bus'.clk THEN code' = FromEdgeEnd(i, FALSE) /\ input' = WithBit(input, i, Bus'.data)
         ELSE (\E p \in {o, ~ o} : code' = again(p)) /\ input' = input
  BY <1>1, SampleMoves
<1>a. \A p : again(p) = FromSample(i, p)
  BY DEF FromSample
<1> HIDE DEF again
<1>4. cpu' = Lines(TRUE, TRUE, TRUE) /\ cpu' = cpu /\ sent' = sent /\ calls' = <<Untalk>>
      /\ eoi' = eoi
  BY <1>2, <1>3
<1>5. PICK a \in Answers : device' = Exec(device, 1, a) /\ Typed(device) /\ Typed(device')
  BY <1>3, <1>4, LookEnds
<1>6. cpu.atn /\ cpu.data /\ Bus'.clk = device'.clk /\ Bus'.data = device'.data
  BY <1>3, <1>4, LookEnds
<1>7. 1 \in Nat
  OBVIOUS
<1>8. CASE i = 0 /\ Stuck(device)
  <2>1. Stuck(device') /\ device'.taken = device.taken /\ ~ device'.clk
    BY <1>5, <1>6, <1>7, <1>8, StuckStays
  <2>2. PICK p \in {o, ~ o} : code' = again(p)
    BY <1>3, <1>6, <2>1
  <2>3. p \in BOOLEAN /\ code' = FromSample(i, p)
    BY <2>2, <1>a
  <2>4. AtSample(i, p)'
    BY <1>4, <1>8, <2>1, <2>3 DEF AtSample
  <2> QED BY <1>4, <2>1, <2>3, <2>4 DEF Reading, Untaken
<1>9. CASE BitOut(device, i) /\ AtEnd(device) /\ input = {j \in device.byte : j < i}
  <2>1. /\ SameByte(device, device')
        /\ BitOut(device', i) \/ (BitIn(device', i) /\ device'.data = (i \in device.byte))
    BY <1>5, <1>6, <1>7, <1>9, BitOutGoes
  <2>2. AtEnd(device)' /\ device'.byte = device.byte /\ device'.taken = device.taken
    BY <1>4, <1>9, <2>1, EndKept
  <2>3. CASE BitOut(device', i)
    <3>1. ~ device'.clk
      BY <2>3 DEF BitOut
    <3>2. PICK p \in {o, ~ o} : code' = again(p)
      BY <1>3, <1>6, <3>1
    <3>3. p \in BOOLEAN /\ code' = FromSample(i, p) /\ input' = input
      BY <1>3, <1>6, <3>1, <3>2, <1>a
    <3>4. input' = {j \in device'.byte : j < i}
      BY <1>9, <2>2, <3>3
    <3>5. AtSample(i, p)'
      BY <1>4, <2>2, <2>3, <3>3, <3>4 DEF AtSample
    <3> QED BY <1>4, <2>2, <3>3, <3>5 DEF Reading, Untaken
  <2>4. CASE BitIn(device', i) /\ device'.data = (i \in device.byte)
    <3>1. device'.clk
      BY <2>4 DEF BitIn
    <3>2. code' = FromEdgeEnd(i, FALSE) /\ input' = WithBit(input, i, device'.data)
      BY <1>3, <1>6, <3>1
    <3>3. device.byte \in Byte
      BY <1>5 DEF Typed
    <3>b. device'.data <=> i \in device.byte
      BY <2>4
    <3>4. WithBit({j \in device.byte : j < i}, i, device'.data) = {j \in device.byte : j <= i}
      BY <3>3, <3>b, BitRead
    <3>5. input' = {j \in device'.byte : j <= i}
      BY <1>9, <2>2, <3>2, <3>4
    <3>6. AtEdgeEnd(i, FALSE)'
      BY <1>4, <2>2, <2>4, <3>2, <3>5 DEF AtEdgeEnd
    <3> QED BY <1>4, <2>2, <3>6 DEF Reading, Untaken
  <2> QED BY <2>1, <2>3, <2>4
<1> QED BY <1>8, <1>9 DEF AtSample

LEMMA EdgeEndNext ==
    ASSUME TypeOK, NEW i \in 0 .. Bits - 1, NEW o \in BOOLEAN, AtEdgeEnd(i, o), Kernal
    PROVE  Reading' /\ Untaken
<1>1. Is(code, Waits("clk", FALSE, o), FromReadBit(i + 1))
  BY FromReadBitIs DEF AtEdgeEnd
<1>2. /\ cpu = Lines(TRUE, TRUE, TRUE) /\ calls = <<Untalk>>
      /\ BitIn(device, i) /\ AtEnd(device) /\ input = {j \in device.byte : j <= i}
  BY DEF AtEdgeEnd
<1>3. /\ Looked /\ UNCHANGED <<cpu, meddled, calls, eoi, input, sent>>
      /\ IF Bus'["clk"] = FALSE THEN code' = FromReadBit(i + 1)
         ELSE \E p \in {o, ~ o} : code' = StillWaits("clk", FALSE, p, FromReadBit(i + 1))
  <2>1. LooksFor("clk", FALSE, o, FromReadBit(i + 1))
    BY <1>1, UntilMoves
  <2> QED BY <2>1 DEF LooksFor
<1>a. \A p : StillWaits("clk", FALSE, p, FromReadBit(i + 1)) = FromEdgeEnd(i, p)
  BY DEF FromEdgeEnd, StillWaits
<1>4. cpu' = Lines(TRUE, TRUE, TRUE) /\ cpu' = cpu /\ sent' = sent /\ calls' = <<Untalk>>
      /\ eoi' = eoi /\ input' = input
  BY <1>2, <1>3
<1>5. PICK a \in Answers : device' = Exec(device, 1, a) /\ Typed(device) /\ Typed(device')
  BY <1>3, <1>4, LookEnds
<1>6. cpu.atn /\ cpu.data /\ Bus'["clk"] = device'.clk /\ device'.clk \in BOOLEAN
  BY <1>3, <1>4, <1>5, LookEnds DEF Typed
<1>7. 1 \in Nat
  OBVIOUS
<1>8. ASSUME BitIn(device', i), SameByte(device, device') PROVE Reading' /\ Untaken
  <2>1. AtEnd(device)' /\ device'.byte = device.byte /\ device'.taken = device.taken
    BY <1>2, <1>4, <1>8, EndKept
  <2>2. device'.clk
    BY <1>8 DEF BitIn
  <2>3. PICK p \in {o, ~ o} : code' = StillWaits("clk", FALSE, p, FromReadBit(i + 1))
    BY <1>3, <1>6, <2>2
  <2>4. p \in BOOLEAN /\ code' = FromEdgeEnd(i, p)
    BY <2>3, <1>a
  <2>5. input' = {j \in device'.byte : j <= i}
    BY <1>2, <1>4, <2>1
  <2>6. AtEdgeEnd(i, p)'
    BY <1>4, <1>8, <2>1, <2>4, <2>5 DEF AtEdgeEnd
  <2> QED BY <1>4, <2>1, <2>4, <2>6 DEF Reading, Untaken
<1>9. CASE i = Bits - 1
  <2>1. TalksAhead(device) /\ device.state = "DONE0" /\ device.clk
    BY <1>2, <1>9 DEF BitIn
  <2>2. /\ SameByte(device, device') /\ TalksAhead(device')
        /\ \/ device'.state = "DONE0" /\ device'.clk = device.clk
           \/ device'.state = "DONE1" /\ HoldsClk(device')
    BY <1>5, <1>6, <1>7, <2>1, DoneGoes
  <2>3. CASE device'.state = "DONE0" /\ device'.clk = device.clk
    <3>1. BitIn(device', i)
      BY <1>9, <2>1, <2>2, <2>3 DEF BitIn
    <3> QED BY <1>8, <2>2, <3>1
  <2>4. CASE device'.state = "DONE1" /\ HoldsClk(device')
    <3>1. AtEnd(device)' /\ device'.byte = device.byte /\ device'.taken = device.taken
      BY <1>2, <1>4, <2>2, EndKept
    <3>2. ~ device'.clk
      BY <2>4 DEF HoldsClk
    <3>3. code' = FromReadBit(i + 1)
      BY <1>3, <1>6, <3>2
    <3>4. i + 1 = Bits
      BY <1>9, BitsAssumption
    <3>5. code' = FromReadDataLo
      BY <3>3, <3>4, FromReadBitsEnd
    <3>6. device.byte \in Byte
      BY <1>5 DEF Typed
    <3>7. {j \in device.byte : j <= i} = device.byte
      BY <1>9, <3>6, BitsUpTo
    <3>8. input' = device'.byte
      BY <1>2, <1>4, <3>1, <3>7
    <3>9. HasSent(device)'
      BY <2>2, <2>4, <3>1, <3>8 DEF HasSent, AtEnd
    <3>10. AtReadDataLo'
      BY <1>4, <2>4, <3>5, <3>9 DEF AtReadDataLo
    <3> QED BY <1>4, <3>1, <3>10 DEF Reading, Untaken
  <2> QED BY <2>2, <2>3, <2>4
<1>10. CASE i # Bits - 1
  <2>1. TalksAhead(device) /\ device.state = "BIT" /\ device.bit = i + 1 /\ device.clk
    BY <1>2, <1>10 DEF BitIn
  <2>2. /\ SameByte(device, device')
        /\ \/ BitOut(device', device.bit)
           \/ /\ device.timeout # 0 /\ TalksAhead(device') /\ device'.state = "BIT"
              /\ device'.bit = device.bit /\ device'.clk = device.clk
    BY <1>5, <1>6, <1>7, <2>1, BitGoes
  <2>3. CASE ~ BitOut(device', device.bit)
    <3>1. BitIn(device', i)
      BY <1>10, <2>1, <2>2, <2>3 DEF BitIn
    <3> QED BY <1>8, <2>2, <3>1
  <2>4. CASE BitOut(device', device.bit)
    <3>1. AtEnd(device)' /\ device'.byte = device.byte /\ device'.taken = device.taken
      BY <1>2, <1>4, <2>2, EndKept
    <3>2. ~ device'.clk
      BY <2>4 DEF BitOut
    <3>3. code' = FromReadBit(i + 1)
      BY <1>3, <1>6, <3>2
    <3>4. i + 1 \in 0 .. Bits - 1 /\ i + 1 <= Bits /\ FALSE \in BOOLEAN
      BY <1>10, BitsAssumption
    <3>5. code' = FromSample(i + 1, FALSE)
      BY <3>3, <3>4, FromReadBitIs
    <3>6. device.byte \in Byte
      BY <1>5 DEF Typed
    <3>7. {j \in device.byte : j <= i} = {j \in device.byte : j < i + 1}
      BY <3>4, <3>6, BitsUpTo
    <3>8. input' = {j \in device'.byte : j < i + 1}
      BY <1>2, <1>4, <3>1, <3>7
    <3>9. BitOut(device', i + 1)
      BY <2>1, <2>4
    <3>10. AtSample(i + 1, FALSE)'
      BY <1>4, <3>1, <3>5, <3>8, <3>9 DEF AtSample
    <3> QED BY <1>4, <3>1, <3>4, <3>10 DEF Reading, Untaken
  <2> QED BY <2>3, <2>4
<1> QED BY <1>9, <1>10

LEMMA ReadDataLoNext ==
    ASSUME TypeOK, AtReadDataLo, Kernal
    PROVE  AtRead' /\ Untaken
<1>1. Is(code, StoreOf([data |-> FALSE], 0), FromRead)
  BY FromReadIs, StoreIs DEF AtReadDataLo
<1>2. cpu = Lines(TRUE, TRUE, TRUE) /\ calls = <<Untalk>>
  BY DEF AtReadDataLo
<1>3. /\ cpu' = Lines(TRUE, TRUE, FALSE) /\ code' = FromRead /\ Rests /\ Accessed
      /\ cpu.atn /\ cpu.data
  BY <1>1, <1>2, DataGoes
<1>4. PICK d, a, p :
          /\ d \in Nat /\ a \in Answers
          /\ p = Exec(device, d, a) /\ Typed(device) /\ Typed(p)
          /\ device' = p \/ device' = Exec(p, 0, a)
  BY <1>3 DEF Accessed
<1>5. /\ TalksAhead(device) /\ AtEnd(device) /\ input = device.byte
      /\ device.state = "DONE1" /\ HoldsClk(device)
  BY DEF AtReadDataLo, HasSent, InState
<1>6. /\ SameByte(device, p) /\ TalksAhead(p)
      /\ \/ p.state = "DONE1" /\ HoldsClk(p)
         \/ InState(p, "FRAMEERR0") /\ p.timeout = Err
  BY <1>3, <1>4, <1>5, Done1Goes
<1>7. 0 \in Nat /\ Err <= Err
  BY TimesAre
<1> DEFINE v == Exec(p, 0, a)
<1>9. /\ SameByte(p, v) /\ TalksAhead(v)
      /\ \/ v.state = "DONE1" /\ HoldsClk(v)
         \/ InState(v, "FRAMEERR0") /\ v.timeout = Err
  <2>1. CASE p.state = "DONE1" /\ HoldsClk(p)
    BY <1>3, <1>4, <1>6, <1>7, <2>1, Done1Goes
  <2>2. CASE InState(p, "FRAMEERR0") /\ p.timeout = Err
    BY <1>3, <1>4, <1>6, <2>2, Err0Stays
  <2> QED BY <1>6, <2>1, <2>2
<1>10. device' = p \/ device' = v
  BY <1>4
<1> HIDE DEF v
<1>11. SameByte(device, device')
  BY <1>6, <1>9, <1>10 DEF SameByte
<1>12. /\ TalksAhead(device')
       /\ \/ device'.state = "DONE1" /\ HoldsClk(device')
          \/ InState(device', "FRAMEERR0") /\ device'.timeout <= Err
  BY <1>6, <1>7, <1>9, <1>10
<1>13. eoi' = eoi /\ input' = input /\ calls' = calls /\ sent' = sent
  BY <1>3 DEF Rests
<1>14. AtEnd(device)' /\ device'.byte = device.byte /\ device'.taken = device.taken
  BY <1>5, <1>11, <1>13, EndKept
<1>15. HasSent(device)'
  BY <1>5, <1>12, <1>13, <1>14 DEF HasSent, AtEnd
<1>16. AtRead'
  BY <1>2, <1>3, <1>13, <1>15 DEF AtRead
<1> QED BY <1>13, <1>14, <1>16 DEF Untaken

LEMMA AppendIs ==
    ASSUME NEW S, NEW s \in Seq(S), NEW e
    PROVE  /\ Len(Append(s, e)) = Len(s) + 1 /\ Len(s) \in Nat
           /\ \A i \in 1 .. Len(s) : Append(s, e)[i] = s[i]
           /\ Append(s, e)[Len(s) + 1] = e
OBVIOUS

\* What was sent is noted down, and is of the file.
LEMMA ReadIs ==
    ASSUME NEW u, Typed(u), Reads1(u), HasSent(u), NEW v,
           v = [u EXCEPT !.got = Append(@, [byte |-> input, last |-> eoi])]
    PROVE  /\ With(v, {"TALKING"}) /\ v.taken = u.taken /\ Waits4(v) /\ v.state # "PRE1"
           /\ eoi => v.pos = Len(v.file)
<1> DEFINE e == [byte |-> input, last |-> eoi]
<1>1. u.got \in Seq(Entries) /\ u.pos \in Nat /\ Shape(u)
  BY DEF Typed
<1>2. /\ Shape(v) /\ v.got = Append(u.got, e)
      /\ v.enabled = u.enabled /\ v.flags = u.flags /\ v.mode = u.mode /\ v.lossy = u.lossy
      /\ v.pos = u.pos /\ v.file = u.file /\ v.state = u.state /\ v.clk = u.clk
      /\ v.data = u.data /\ v.timeout = u.timeout /\ v.taken = u.taken
  BY <1>1 DEF Shape, Fields
<1>3. /\ u.enabled /\ u.flags = {"TALKING"} /\ u.mode = "read"
      /\ u.pos \in 1 .. Len(u.file) /\ u.byte = u.file[u.pos]
      /\ u.st = IF u.pos = Len(u.file) THEN EOF ELSE OK
      /\ ~ u.lossy => u.pos = Len(u.got) + 1 /\ GotRight(u)
      /\ input = u.byte /\ eoi = (u.st = EOF)
  BY DEF HasSent, TalksAhead, Ahead, AtEnd
<1>4. eoi = (u.pos = Len(u.file))
  BY <1>3 DEF OK, EOF
<1>5. e = [byte |-> u.file[u.pos], last |-> u.pos = Len(u.file)]
  BY <1>3, <1>4
<1> HIDE DEF e
<1>6. /\ Len(v.got) = Len(u.got) + 1 /\ Len(u.got) \in Nat
      /\ \A i \in 1 .. Len(u.got) : v.got[i] = u.got[i]
      /\ v.got[Len(u.got) + 1] = e
  BY <1>1, <1>2, AppendIs
<1>7. ~ v.lossy => v.pos = Len(v.got) /\ GotRight(v)
  <2>1. SUFFICES ASSUME ~ v.lossy PROVE v.pos = Len(v.got) /\ GotRight(v)
    OBVIOUS
  <2>2. u.pos = Len(u.got) + 1 /\ GotRight(u)
    BY <1>2, <1>3, <2>1
  <2>3. v.pos = Len(v.got)
    BY <1>2, <1>6, <2>2
  <2>4. ASSUME NEW i \in 1 .. Len(v.got)
        PROVE  v.got[i] = [byte |-> v.file[i], last |-> i = Len(v.file)]
    <3>1. CASE i = Len(u.got) + 1
      BY <1>2, <1>5, <1>6, <2>2, <3>1
    <3>2. CASE i # Len(u.got) + 1
      <4>1. i \in 1 .. Len(u.got)
        BY <1>6, <3>2
      <4>2. u.got[i] = [byte |-> u.file[i], last |-> i = Len(u.file)]
        BY <2>2, <4>1 DEF GotRight
      <4> QED BY <1>2, <1>6, <4>1, <4>2
    <3> QED BY <3>1, <3>2
  <2> QED BY <2>3, <2>4 DEF GotRight
<1>8. With(v, {"TALKING"})
  BY <1>2, <1>3, <1>7 DEF With, Level
<1>9. Waits4(v) /\ v.state # "PRE1"
  BY <1>2 DEF HasSent, Waits4, HoldsClk, InState, Free
<1>10. eoi => v.pos = Len(v.file)
  BY <1>2, <1>4
<1> QED BY <1>2, <1>8, <1>9, <1>10

LEMMA ReadNext ==
    ASSUME TypeOK, AtRead, Kernal
    PROVE  (Ending' \/ Between') /\ Untaken
<1>1. Is(code, ByteRead, << >>)
  BY FromReadIs DEF AtRead
<1>2. cpu = Lines(TRUE, TRUE, FALSE) /\ calls = <<Untalk>> /\ HasSent(device)
  BY DEF AtRead
<1>3. /\ device' = [device EXCEPT !.got = Append(@, [byte |-> input, last |-> eoi])]
      /\ UNCHANGED <<cpu, meddled, eoi, input, sent>>
      /\ IF eoi THEN code' = LetGo /\ calls' = calls
         ELSE code' = << >> /\ calls' \in {calls, <<Acptr>> \o calls}
  BY <1>1, ReadMoves
<1>4. Typed(device) /\ Reads1(device) /\ eoi \in BOOLEAN
  BY TypedIs DEF TypeOK
<1> DEFINE w == [device EXCEPT !.got = Append(@, [byte |-> input, last |-> eoi])]
<1>5. device' = w
  BY <1>3
<1>6. /\ With(w, {"TALKING"}) /\ w.taken = device.taken /\ Waits4(w) /\ w.state # "PRE1"
      /\ eoi => w.pos = Len(w.file)
  BY <1>2, <1>4, ReadIs
<1> HIDE DEF w
<1>7. /\ With(device', {"TALKING"}) /\ device'.taken = device.taken /\ Waits4(device')
      /\ device'.state # "PRE1" /\ (eoi => device'.pos = Len(device'.file))
  BY <1>5, <1>6
<1>8. cpu' = Lines(TRUE, TRUE, FALSE) /\ eoi' = eoi /\ sent' = sent
  BY <1>2, <1>3
<1>9. Untaken
  BY <1>7, <1>8 DEF Untaken
<1>10. CASE eoi
  <2>1. code' = LetGo /\ calls' = <<Untalk>>
    BY <1>2, <1>3, <1>10
  <2>2. Exhausted(device')
    BY <1>7, <1>10 DEF Exhausted
  <2>3. AfterFail'
    BY <2>1 DEF AfterFail
  <2>4. AtFinishPause'
    BY <1>8, <2>1, <2>2, <2>3 DEF AtFinishPause
  <2> QED BY <1>9, <2>4 DEF Ending
<1>11. CASE ~ eoi
  <2>1. code' = << >> /\ (calls' = calls \/ calls' = <<Acptr>> \o calls)
    BY <1>3, <1>11
  <2>2. <<Acptr>> \o <<Untalk>> = <<Acptr, Untalk>>
    BY TwoIs
  <2>3. calls' = <<Untalk>> \/ calls' = <<Acptr, Untalk>>
    BY <1>2, <2>1, <2>2
  <2>4. eoi' = FALSE
    BY <1>4, <1>8, <1>11
  <2>5. Talker(device')
    BY <1>7 DEF Talker
  <2>6. calls' = <<Untalk>> \/ ReadsNext'
    BY <2>3, <2>4 DEF ReadsNext
  <2>7. AtReading'
    BY <1>8, <2>5, <2>6 DEF AtReading
  <2> QED BY <1>9, <2>1, <2>7 DEF Between
<1> QED BY <1>10, <1>11

LEMMA ReadingNext ==
    ASSUME TypeOK, Reading, Kernal
    PROVE  (Reading' \/ Ending' \/ Between') /\ Untaken
<1>1. FALSE \in BOOLEAN /\ EoiWait \in 1 .. EoiWait
  BY TimesAre
<1>2. CASE AtReadClkHi
  <2>1. AtTalkerReady(FALSE)' /\ Untaken
    BY <1>2, ReadClkHiNext
  <2> QED BY <1>1, <2>1 DEF Reading
<1>3. ASSUME NEW o \in BOOLEAN, AtTalkerReady(o)
      PROVE  (Reading' \/ Ending' \/ Between') /\ Untaken
  <2>1. ((\E p \in BOOLEAN : AtTalkerReady(p)') \/ AtReadDataHi') /\ Untaken
    BY <1>3, TalkerReadyNext
  <2> QED BY <2>1 DEF Reading
<1>4. CASE AtReadDataHi
  <2>1. AtEdge(EoiWait)' /\ Untaken
    BY <1>4, ReadDataHiNext
  <2> QED BY <1>1, <2>1 DEF Reading
<1>5. ASSUME NEW t \in 1 .. EoiWait, AtEdge(t) \/ AtLateEdge(t)
      PROVE  (Reading' \/ Ending' \/ Between') /\ Untaken
  BY <1>5, EdgeNext, LateEdgeNext
<1>6. CASE AtEoiDataLo \/ AtEoiClkHi
  <2>1. (AtEoiClkHi' \/ AtEoiDataHi') /\ Untaken
    BY <1>6, EoiDataLoNext, EoiClkHiNext
  <2> QED BY <2>1 DEF Reading
<1>7. CASE AtEoiDataHi
  <2>1. AtLateEdge(EoiWait)' /\ Untaken
    BY <1>7, EoiDataHiNext
  <2> QED BY <1>1, <2>1 DEF Reading
<1>8. ASSUME NEW i \in 0 .. Bits - 1, NEW o \in BOOLEAN, AtSample(i, o) \/ AtEdgeEnd(i, o)
      PROVE  (Reading' \/ Ending' \/ Between') /\ Untaken
  BY <1>8, SampleNext, EdgeEndNext
<1>9. CASE AtReadDataLo
  <2>1. AtRead' /\ Untaken
    BY <1>9, ReadDataLoNext
  <2> QED BY <2>1 DEF Reading
<1>10. CASE AtRead
  BY <1>10, ReadNext
<1> QED BY <1>2, <1>3, <1>4, <1>5, <1>6, <1>7, <1>8, <1>9, <1>10 DEF Reading

(* A routine as it is called, and as its places have it.                    *)
LEMMA JoinedIs ==
    \A s, t : IsSeries(s) /\ IsSeries(t) => IsSeries(Joined(s, t))
  BY ConcatIs DEF Joined
LEMMA JoinedNothing ==
    \A s : IsSeries(s) => Joined(<< >>, s) = s /\ Joined(s, << >>) = s
  BY ConcatEmpty DEF Joined

LEMMA JoinedSix ==
    ASSUME NEW a, NEW b, NEW c, NEW d, NEW e, NEW f,
           IsSeries(a), IsSeries(b), IsSeries(c), IsSeries(d), IsSeries(e), IsSeries(f)
    PROVE  /\ Joined(Joined(Joined(Joined(Joined(a, b), c), d), e), f) =
                  Joined(a, Joined(b, Joined(c, Joined(d, Joined(e, f)))))
           /\ IsSeries(Joined(a, Joined(b, Joined(c, Joined(d, Joined(e, f))))))
<1> DEFINE ab == Joined(a, b)  abc == Joined(ab, c)  abcd == Joined(abc, d)
           ef == Joined(e, f)  def == Joined(d, ef)  cdef == Joined(c, def)
<1>1. IsSeries(ab) /\ IsSeries(ef)
  BY JoinedIs
<1>2. IsSeries(abc) /\ IsSeries(def)
  BY <1>1, JoinedIs
<1>3. IsSeries(abcd) /\ IsSeries(cdef)
  BY <1>2, JoinedIs
<1>4. IsSeries(Joined(a, Joined(b, cdef)))
  BY <1>3, JoinedIs
<1>5. Joined(Joined(abcd, e), f) = Joined(abcd, ef)
  BY <1>3, JoinedAgain
<1>6. Joined(abcd, ef) = Joined(abc, def)
  BY <1>1, <1>2, JoinedAgain
<1>7. Joined(abc, def) = Joined(ab, cdef)
  BY <1>1, <1>2, JoinedAgain
<1>8. Joined(ab, cdef) = Joined(a, Joined(b, cdef))
  BY <1>3, JoinedAgain
<1> QED BY <1>4, <1>5, <1>6, <1>7, <1>8

LEMMA TwoJoined ==
    \A a, b, s : IsSeries(s) => Joined(<<a, b>>, s) = Joined(<<a>>, Joined(<<b>>, s))
  BY TwoFirst DEF Joined
LEMMA ThreeJoined ==
    ASSUME NEW a, NEW b, NEW c, NEW s, IsSeries(s)
    PROVE  /\ Joined(<<a, b, c>>, s) = Joined(<<a>>, Joined(<<b>>, Joined(<<c>>, s)))
           /\ IsSeries(<<a, b, c>>)
<1>1. IsSeries(<<a, b>>) /\ IsSeries(<<c>>)
  BY TwoIs, TupleIsASeq
<1>2. <<a, b, c>> = <<a, b>> \o <<c>> /\ IsSeries(<<a, b, c>>)
  <2>1. Len(<<a, b>> \o <<c>>) = 3
    BY <1>1, ConcatIs
  <2>2. /\ (<<a, b>> \o <<c>>)[1] = a /\ (<<a, b>> \o <<c>>)[2] = b
        /\ (<<a, b>> \o <<c>>)[2 + 1] = c
    BY <1>1, ConcatIs
  <2>3. IsSeries(<<a, b, c>>)
    <3>1. <<a, b, c>> \in Seq({a, b, c})
      OBVIOUS
    <3> QED BY <3>1 DEF IsSeries
  <2> QED BY <1>1, <2>1, <2>2, <2>3, ConcatIs, SeqsEqual
<1>3. Joined(<<a, b>>, <<c>>) = <<a, b, c>>
  BY <1>2 DEF Joined
<1>4. Joined(<<a, b, c>>, s) = Joined(<<a, b>>, Joined(<<c>>, s))
  BY <1>1, <1>3, JoinedAgain
<1> DEFINE r == Joined(<<c>>, s)
<1>5. IsSeries(r)
  BY <1>1, JoinedIs
<1>6. Joined(<<a, b, c>>, s) = Joined(<<a, b>>, r)
  BY <1>4
<1> HIDE DEF r
<1>7. Joined(<<a, b>>, r) = Joined(<<a>>, Joined(<<b>>, r))
  BY <1>5, TwoJoined
<1>8. Joined(<<a, b, c>>, s) = Joined(<<a>>, Joined(<<b>>, r))
  BY <1>6, <1>7
<1> QED BY <1>2, <1>8 DEF r

Announce(last) ==
    IF last THEN <<Until("data", TRUE), Until("data", FALSE)>> ELSE << >>
LEMMA IsourIs ==
    ASSUME NEW b, NEW last \in BOOLEAN, NEW data
    PROVE  /\ ISOUR(b, last, data) =
                  Joined(Joined(Joined(Joined(<<DataHi, Need(FALSE), ClkHi>>, Announce(last)),
                                       <<Until("data", TRUE), ClkLo>>), SendBits(b, 0)),
                         <<AckOf(b, data)>>)
           /\ IsSeries(<<DataHi, Need(FALSE), ClkHi>>) /\ IsSeries(Announce(last))
           /\ IsSeries(<<Until("data", TRUE), ClkLo>>) /\ IsSeries(SendBits(b, 0))
           /\ IsSeries(<<AckOf(b, data)>>) /\ IsSeries(ISOUR(b, last, data))
<1> DEFINE x == <<DataHi, Need(FALSE), ClkHi>>
           y == <<Until("data", TRUE), ClkLo>>
           z == <<AckOf(b, data)>>
<1>1. IsSeries(x) /\ IsSeries(y) /\ IsSeries(z)
  BY ThreeJoined, TwoIs, TupleIsASeq
<1>2. IsSeries(Announce(last))
  BY TwoIs, TupleIsASeq DEF Announce
<1>3. IsSeries(SendBits(b, 0))
  <2>1. 0 \in 0 .. Bits
    BY BitsAssumption
  <2> QED BY <2>1, SendBitsIsASeq
<1>4. ISOUR(b, last, data) =
          Joined(Joined(Joined(Joined(x, Announce(last)), y), SendBits(b, 0)), z)
  BY DEF ISOUR, Joined, Announce
<1> HIDE DEF x, y, z
<1>5. IsSeries(Joined(Joined(x, Announce(last)), y))
  BY <1>1, <1>2, JoinedIs
<1>6. IsSeries(Joined(Joined(Joined(x, Announce(last)), y), SendBits(b, 0)))
  BY <1>3, <1>5, JoinedIs
<1>7. IsSeries(ISOUR(b, last, data))
  BY <1>1, <1>4, <1>6, JoinedIs
<1> QED BY <1>1, <1>2, <1>3, <1>4, <1>7 DEF x, y, z

\* From the first access of a byte to the end of its routine.
LEMMA SendsFrom ==
    ASSUME NEW m \in Messages
    PROVE  Joined(ISOUR(m.byte, m.last, m.kind = "data"), Rest(m)) = FromLetGo(m)
<1> DEFINE x == <<DataHi, Need(FALSE), ClkHi>>
           y == <<Until("data", TRUE), ClkLo>>
           z == <<AckOf(m.byte, m.kind = "data")>>
           n == Announce(m.last)
           k == SendBits(m.byte, 0)
           r == Rest(m)
           i == ISOUR(m.byte, m.last, m.kind = "data")
<1>0. m.last \in BOOLEAN
  BY LastIsData
<1>1. /\ i = Joined(Joined(Joined(Joined(x, n), y), k), z)
      /\ IsSeries(x) /\ IsSeries(n) /\ IsSeries(y) /\ IsSeries(k) /\ IsSeries(z)
  BY <1>0, IsourIs, ZenonT(40)
<1>2. IsSeries(r)
  BY RestIs
<1>3. z = <<Answer(m, AckWait)>>
  BY DEF AckOf, Answer
<1> HIDE DEF x, y, z, n, k, r, i
<1>4. Joined(i, r) = Joined(x, Joined(n, Joined(y, Joined(k, Joined(z, r)))))
  BY <1>1, <1>2, JoinedSix
<1>5. Joined(z, r) = FromAck(m, AckWait)
  BY <1>3 DEF FromAck, Joined, r
<1>6. Joined(k, FromAck(m, AckWait)) = FromBit(m, 0)
  BY DEF FromBit, Joined, k
<1>7. /\ IsSeries(FromBit(m, 0)) /\ IsSeries(FromClkLo(m))
      /\ IsSeries(FromReady(m, FALSE)) /\ IsSeries(FromEoi1(m, FALSE))
  <2>1. 0 \in 0 .. Bits
    BY BitsAssumption
  <2>2. IsSeries(FromBit(m, 0))
    BY <2>1, FromBitIsASeq
  <2>3. /\ Is(FromClkLo(m), ClkLo, FromBit(m, 0))
        /\ Is(FromReady(m, FALSE), Waits("data", TRUE, FALSE), FromClkLo(m))
        /\ Is(FromEoi1(m, FALSE), Waits("data", TRUE, FALSE), FromEoi2(m, FALSE))
    BY FromSendIs
  <2> QED BY <2>2, <2>3 DEF Is
<1>8. Joined(y, FromBit(m, 0)) = FromReady(m, FALSE)
  <2> DEFINE u == Until("data", TRUE)  c == ClkLo  f == FromBit(m, 0)
  <2>0. y = <<u, c>> /\ IsSeries(f)
    BY <1>7 DEF y
  <2> HIDE DEF u, c, f
  <2>1a. Joined(y, f) = Joined(<<u>>, Joined(<<c>>, f))
    BY <2>0, TwoJoined
  <2>1. Joined(y, FromBit(m, 0)) = Joined(<<Until("data", TRUE)>>, Joined(<<ClkLo>>, FromBit(m, 0)))
    BY <2>1a DEF u, c, f
  <2>2. Joined(<<ClkLo>>, FromBit(m, 0)) = FromClkLo(m)
    BY DEF FromClkLo, Joined
  <2>3. <<Until("data", TRUE)>> = <<Waits("data", TRUE, FALSE)>>
    BY DEF Until, Waits
  <2>4. Joined(<<Waits("data", TRUE, FALSE)>>, FromClkLo(m)) = FromReady(m, FALSE)
    BY DEF FromReady, Joined
  <2> QED BY <2>1, <2>2, <2>3, <2>4
<1> DEFINE w == IF m.last THEN FromEoi1(m, FALSE) ELSE FromReady(m, FALSE)
<1>9. Joined(n, FromReady(m, FALSE)) = w
  <2>1. CASE m.last
    <3>1. n = <<Until("data", TRUE), Until("data", FALSE)>>
      BY <2>1 DEF n, Announce
    <3>2. /\ Until("data", TRUE) = Waits("data", TRUE, FALSE)
          /\ Until("data", FALSE) = Waits("data", FALSE, FALSE)
      BY DEF Until, Waits
    <3> DEFINE u == Waits("data", TRUE, FALSE)  c == Waits("data", FALSE, FALSE)
               f == FromReady(m, FALSE)
    <3>3a. n = <<u, c>> /\ IsSeries(f)
      BY <1>7, <3>1, <3>2
    <3> HIDE DEF u, c, f
    <3>3b. Joined(n, f) = Joined(<<u>>, Joined(<<c>>, f))
      BY <3>3a, TwoJoined
    <3>3. Joined(n, FromReady(m, FALSE)) =
              Joined(<<Waits("data", TRUE, FALSE)>>,
                     Joined(<<Waits("data", FALSE, FALSE)>>, FromReady(m, FALSE)))
      BY <3>3b DEF u, c, f
    <3>4. Joined(<<Waits("data", FALSE, FALSE)>>, FromReady(m, FALSE)) = FromEoi2(m, FALSE)
      BY DEF FromEoi2, Joined
    <3>5. Joined(<<Waits("data", TRUE, FALSE)>>, FromEoi2(m, FALSE)) = FromEoi1(m, FALSE)
      BY DEF FromEoi1, Joined
    <3> QED BY <2>1, <3>3, <3>4, <3>5
  <2>2. CASE ~ m.last
    <3>1. n = << >>
      BY <2>2 DEF n, Announce
    <3> QED BY <1>7, <2>2, <3>1, JoinedNothing
  <2> QED BY <2>1, <2>2
<1>10. IsSeries(w)
  BY <1>7
<1>11. w = IF m.last THEN FromEoi1(m, FALSE) ELSE FromReady(m, FALSE)
  OBVIOUS
<1> HIDE DEF w
<1>12. Joined(x, w) = FromLetGo(m)
  <2> DEFINE u == DataHi  c == Need(FALSE)  f == ClkHi
  <2>0. x = <<u, c, f>>
    BY DEF x
  <2> HIDE DEF u, c, f
  <2>1a. Joined(x, w) = Joined(<<u>>, Joined(<<c>>, Joined(<<f>>, w)))
    BY <1>10, <2>0, ThreeJoined
  <2>1. Joined(x, w) = Joined(<<DataHi>>, Joined(<<Need(FALSE)>>, Joined(<<ClkHi>>, w)))
    BY <2>1a DEF u, c, f
  <2>2. Joined(<<ClkHi>>, w) = FromClkHi(m)
    BY <1>11 DEF FromClkHi, Joined
  <2>3. Joined(<<Need(FALSE)>>, FromClkHi(m)) = FromNeed(m)
    BY DEF FromNeed, Joined
  <2>4. Joined(<<DataHi>>, FromNeed(m)) = FromLetGo(m)
    BY DEF FromLetGo, Joined
  <2> QED BY <2>1, <2>2, <2>3, <2>4
<1>13. Joined(i, r) = FromLetGo(m)
  BY <1>4, <1>5, <1>6, <1>8, <1>9, <1>12
<1> QED BY <1>13 DEF i, r

LEMMA IsouraIs ==
    ASSUME NEW b
    PROVE  ISOURA(b) = Joined(<<ClkLo, Pause([data |-> TRUE])>>, ISOUR(b, FALSE, FALSE))
           /\ IsSeries(ISOUR(b, FALSE, FALSE)) /\ IsSeries(ISOURA(b))
<1>1. IsSeries(ISOUR(b, FALSE, FALSE))
  BY IsourIs
<1>2. ISOURA(b) = Joined(<<ClkLo, Pause([data |-> TRUE])>>, ISOUR(b, FALSE, FALSE))
  BY DEF ISOURA, Joined
<1>3. IsSeries(<<ClkLo, Pause([data |-> TRUE])>>)
  BY TwoIs
<1> QED BY <1>1, <1>2, <1>3, JoinedIs

LEMMA SendsAddress ==
    ASSUME NEW m \in Messages, m.kind # "data"
    PROVE  Joined(ISOURA(m.byte), Rest(m)) = FromAddress(m)
<1> DEFINE i == ISOUR(m.byte, FALSE, FALSE)
           r == Rest(m)
           c == ClkLo
           p == Pause([data |-> TRUE])
           a == ISOURA(m.byte)
<1>1. m.last = FALSE /\ (m.kind = "data") = FALSE
  BY DEF Messages
<1>2. Joined(i, r) = FromLetGo(m)
  <2>1. ISOUR(m.byte, m.last, m.kind = "data") = i
    BY <1>1
  <2> HIDE DEF i, r
  <2>2. Joined(ISOUR(m.byte, m.last, m.kind = "data"), Rest(m)) = FromLetGo(m)
    BY SendsFrom
  <2> QED BY <2>1, <2>2 DEF r
<1>3. IsSeries(r) /\ IsSeries(i) /\ a = Joined(<<c, p>>, i)
  BY RestIs, IsouraIs
<1>4. Joined(<<p>>, FromLetGo(m)) = FromPause(m)
  BY DEF FromPause, Joined
<1>5. Joined(<<c>>, FromPause(m)) = FromAddress(m)
  BY DEF FromAddress, Joined
<1> HIDE DEF i, r, c, p, a
<1>6. Joined(<<c, p>>, i) = Joined(<<c>>, Joined(<<p>>, i))
  BY <1>3, TwoJoined
<1>7. IsSeries(Joined(<<p>>, i)) /\ IsSeries(<<c>>) /\ IsSeries(<<p>>)
  BY <1>3, JoinedIs, TupleIsASeq
<1> DEFINE q == Joined(<<p>>, i)
<1>8. Joined(a, r) = Joined(Joined(<<c>>, q), r) /\ IsSeries(q)
  BY <1>3, <1>6, <1>7
<1>9. Joined(q, r) = Joined(<<p>>, Joined(i, r))
  BY <1>3, <1>7, JoinedAgain
<1> HIDE DEF q
<1>10. Joined(Joined(<<c>>, q), r) = Joined(<<c>>, Joined(q, r))
  BY <1>3, <1>7, <1>8, JoinedAgain
<1>11. Joined(a, r) = FromAddress(m)
  BY <1>2, <1>4, <1>5, <1>8, <1>9, <1>10
<1> QED BY <1>11 DEF a, r

LEMMA CommandFrom ==
    ASSUME NEW m \in Messages, m.kind \in Opening \union Closing
    PROVE  Command(m.byte) =
               IF m.kind = "untalk" THEN Joined(<<ClkLo>>, FromUntalk(m)) ELSE FromDataHi(m)
<1> DEFINE x == IF m.byte = UNTALK THEN <<ClkLo, AtnLo>> ELSE << >>
           y == IF m.byte = UNLISTEN THEN <<ClkHi>> ELSE << >>
           z == IF m.byte \in {UNLISTEN, UNTALK} THEN <<AtnHi>> \o LetGo ELSE << >>
           a == ISOURA(m.byte)
           h == DataHi
           l == AtnLo
           r == FromAddress(m)
<1>1. /\ m.byte = UNTALK <=> m.kind = "untalk"
      /\ m.byte = UNLISTEN <=> m.kind = "unlisten"
  BY MessageIs, BytesDiffer DEF Opening, Closing
<1>2. z = Rest(m)
  BY <1>1 DEF Rest, Opening, Closing, Finish
<1>3. Command(m.byte) = Joined(Joined(Joined(Joined(Joined(x, <<h>>), y), <<l>>), a), z)
  BY DEF Command, Joined
<1>4. IsSeries(x) /\ IsSeries(y) /\ IsSeries(<<h>>) /\ IsSeries(<<l>>)
  BY TwoIs, TupleIsASeq
<1>5. IsSeries(z) /\ IsSeries(a) /\ Joined(a, z) = r
  BY <1>2, RestIs, IsouraIs, SendsAddress DEF Opening, Closing
<1>6. Joined(<<l>>, r) = FromAtnLo(m)
  BY DEF FromAtnLo, Joined
<1>7. IsSeries(FromAtnLo(m)) /\ IsSeries(FromDataHi(m)) /\ IsSeries(FromUntalk(m))
  BY FromSendIs DEF Is
<1>8. Joined(y, FromAtnLo(m)) =
          IF m.kind = "unlisten" THEN <<ClkHi>> \o FromAtnLo(m) ELSE FromAtnLo(m)
  BY <1>1, <1>7, JoinedNothing DEF Joined
<1> DEFINE w == IF m.kind = "unlisten" THEN <<ClkHi>> \o FromAtnLo(m) ELSE FromAtnLo(m)
<1>9. Joined(<<h>>, w) = FromDataHi(m)
  BY DEF FromDataHi, Joined
<1>10. Joined(x, FromDataHi(m)) =
           IF m.kind = "untalk" THEN Joined(<<ClkLo>>, FromUntalk(m)) ELSE FromDataHi(m)
  <2>1. CASE m.kind = "untalk"
    <3> DEFINE u == ClkLo  f == FromDataHi(m)
    <3>1. x = <<u, l>> /\ IsSeries(f) /\ Joined(<<l>>, f) = FromUntalk(m)
      BY <1>1, <1>7, <2>1 DEF FromUntalk, Joined
    <3> HIDE DEF u, f, l, x
    <3>2. Joined(x, f) = Joined(<<u>>, Joined(<<l>>, f))
      BY <3>1, TwoJoined
    <3> QED BY <2>1, <3>1, <3>2 DEF u, f
  <2>2. CASE m.kind # "untalk"
    <3>1. x = << >>
      BY <1>1, <2>2
    <3> HIDE DEF x
    <3> QED BY <1>7, <2>2, <3>1, JoinedNothing
  <2> QED BY <2>1, <2>2
<1> HIDE DEF x, y, z, a, h, l, r, w
<1>11. Command(m.byte) = Joined(x, Joined(<<h>>, Joined(y, Joined(<<l>>, Joined(a, z)))))
  BY <1>3, <1>4, <1>5, JoinedSix
<1>12. Joined(y, FromAtnLo(m)) = w
  BY <1>8 DEF w
<1> QED BY <1>5, <1>6, <1>9, <1>10, <1>11, <1>12

LEMMA SecondFrom ==
    ASSUME NEW m \in Messages
    PROVE  /\ m.kind = "second" => SECND(m.byte) = FromAddress(m)
           /\ m.kind = "turn" => TKSA(m.byte) = FromAddress(m)
<1> DEFINE a == ISOURA(m.byte)
           r == Rest(m)
<1>1. Joined(a, r) = FromAddress(m) \/ m.kind = "data"
  BY SendsAddress
<1>2. ASSUME m.kind = "second" PROVE SECND(m.byte) = FromAddress(m)
  <2>1. r = <<AtnHi>>
    BY <1>2 DEF Rest, Opening, Closing
  <2>2. SECND(m.byte) = Joined(a, <<AtnHi>>)
    BY DEF SECND, Joined
  <2> HIDE DEF a, r
  <2> QED BY <1>1, <1>2, <2>1, <2>2
<1>3. ASSUME m.kind = "turn" PROVE TKSA(m.byte) = FromAddress(m)
  <2>1. r = TurnRound
    BY <1>3 DEF Rest, Opening, Closing
  <2> DEFINE f == <<DataLo, AtnHi, ClkHi, Until("clk", FALSE)>>
  <2>2. TKSA(m.byte) = Joined(a, f)
    BY DEF TKSA, Joined
  <2>3. f = TurnRound
    <3> DEFINE u == Until("clk", FALSE)
    <3>1. /\ f = <<f[1], f[2], f[3], f[4]>>
          /\ f[1] = DataLo /\ f[2] = AtnHi /\ f[3] = ClkHi /\ f[4] = u
      OBVIOUS
    <3>2. IsSeries(f) /\ IsSeries(<< >>) /\ IsSeries(<<u>>)
      BY TupleIsASeq
    <3>3. TurnRound = Joined(<<DataLo>>, Joined(<<AtnHi>>, Joined(<<ClkHi>>, <<u>>)))
      BY DEF TurnRound, TurnAtnHi, TurnClkHi, Joined
    <3> HIDE DEF f, u
    <3>4. Joined(f, << >>) =
            Joined(<<f[1]>>, Joined(<<f[2]>>, Joined(<<f[3]>>, Joined(<<f[4]>>, << >>))))
      BY <3>1, <3>2, FourFirst
    <3>5. Joined(f, << >>) = f /\ Joined(<<u>>, << >>) = <<u>>
      BY <3>2, JoinedNothing
    <3> QED BY <3>1, <3>3, <3>4, <3>5
  <2> HIDE DEF a, r, f
  <2> QED BY <1>1, <1>3, <2>1, <2>2, <2>3
<1> QED BY <1>2, <1>3

LEMMA AcptrFrom == ACPTR = FromReadClkHi
<1> DEFINE f == <<ClkHi, Until("clk", TRUE), DataHi, FirstEdge(FALSE)>>
           b == ReadBits(0)
           d == DataLo
           y == ByteRead
           s == FromReadBit(0)
<1>1. ACPTR = Joined(Joined(f, b), <<d, y>>)
  BY DEF ACPTR, Joined
<1>2. f = <<f[1], f[2], f[3], f[4]>>
  OBVIOUS
<1>3. f[1] = ClkHi /\ f[2] = Until("clk", TRUE) /\ f[3] = DataHi /\ f[4] = FirstEdge(FALSE)
  OBVIOUS
<1>4. IsSeries(f) /\ IsSeries(<<d, y>>)
  BY TupleIsASeq, TwoIs
<1>5. IsSeries(b) /\ IsSeries(s)
  BY ReadBitsIsASeq, FromReadBitIsASeq, BitsAssumption
<1>6. <<d, y>> = FromReadDataLo
  BY TwoIs DEF FromReadDataLo, FromRead
<1>7. Joined(b, FromReadDataLo) = s
  BY DEF FromReadBit, Joined
<1> HIDE DEF f, b, d, y, s
<1>8. ACPTR = Joined(f, s)
  BY <1>1, <1>4, <1>5, <1>6, <1>7, JoinedAgain
<1>9. Joined(f, s) = Joined(<<f[1]>>, Joined(<<f[2]>>, Joined(<<f[3]>>, Joined(<<f[4]>>, s))))
  BY <1>2, <1>5, FourFirst
<1>10. Until("clk", TRUE) = Waits("clk", TRUE, FALSE) /\ FirstEdge(FALSE) = Edge(FALSE, EoiWait)
  BY DEF Until, Waits, FirstEdge, Edge
<1>11. Joined(f, s) =
         Joined(<<ClkHi>>, Joined(<<Waits("clk", TRUE, FALSE)>>,
                Joined(<<DataHi>>, Joined(<<Edge(FALSE, EoiWait)>>, s))))
  BY <1>3, <1>9, <1>10
<1>12. Joined(<<Edge(FALSE, EoiWait)>>, s) = FromEdge(FALSE, EoiWait)
  BY DEF FromEdge, Joined, s
<1>13. Joined(<<DataHi>>, FromEdge(FALSE, EoiWait)) = FromReadDataHi(FALSE)
  BY DEF FromReadDataHi, Joined
<1>14. Joined(<<Waits("clk", TRUE, FALSE)>>, FromReadDataHi(FALSE)) = FromTalkerReady(FALSE)
  BY DEF FromTalkerReady, Joined
<1>15. Joined(<<ClkHi>>, FromTalkerReady(FALSE)) = FromReadClkHi
  BY DEF FromReadClkHi, Joined
<1> QED BY <1>8, <1>11, <1>12, <1>13, <1>14, <1>15

(* Time passes that the device does not notice.                             *)
LEMMA PassIs ==
    ASSUME TypeOK, NEW d \in {0, AckWait}, device' = After(device, d)
    PROVE  /\ Keep(device, device') /\ device'.state = device.state
           /\ device'.bit = device.bit /\ device'.clk = device.clk
           /\ device'.data = device.data
           /\ device.timeout \in Nat /\ device'.timeout \in Nat
           /\ device'.timeout <= device.timeout
           /\ device.timeout = 0 => device'.timeout = 0
<1>1. Typed(device) /\ Shape(device) /\ d \in Nat
  <2>1. Typed(device)
    BY TypedIs DEF TypeOK
  <2>2. d \in Nat
    BY TimesAre
  <2> QED BY <2>1, <2>2 DEF Typed
<1>2. Goes(device, device', device.state, device.bit, device.byte, Left(device, d),
           device.clk, device.data)
  BY <1>1, AfterIs
<1>3. /\ Left(device, d) \in Nat /\ Left(device, d) <= device.timeout
      /\ device.timeout = 0 => Left(device, d) = 0
  BY <1>1, LeftIs
<1> QED BY <1>1, <1>2, <1>3 DEF Goes, Typed

LEMMA KeepUnder ==
    ASSUME NEW u, NEW v, Keep(u, v)
    PROVE  /\ \A f : With(u, f) => With(v, f)
           /\ \A f : Under(u, f) => Under(v, f)
           /\ v.primary = u.primary /\ v.secondary = u.secondary /\ v.taken = u.taken
           /\ v.mode = u.mode /\ v.pos = u.pos /\ v.file = u.file
BY KeepLevel DEF Keep, With, Under

LEMMA PassKeeps ==
    ASSUME TypeOK, NEW d \in {0, AckWait}, device' = After(device, d)
    PROVE  /\ Silent(device) => Silent(device')
           /\ Deaf(device) => Deaf(device')
           /\ Calm(device) => Calm(device')
           /\ Stale(device) => Stale(device')
           /\ \A q, f : AddressedBy(device, q, f) => AddressedBy(device', q, f)
           /\ Listener(device) => Listener(device')
           /\ Talker(device) => Talker(device')
           /\ Exhausted(device) => Exhausted(device')
           /\ device'.taken = device.taken /\ device'.secondary = device.secondary
           /\ device'.clk = device.clk
<1>1. /\ Keep(device, device') /\ device'.state = device.state
      /\ device'.bit = device.bit /\ device'.clk = device.clk
      /\ device'.data = device.data
      /\ device.timeout \in Nat /\ device'.timeout \in Nat
      /\ device'.timeout <= device.timeout
      /\ device.timeout = 0 => device'.timeout = 0
  BY PassIs
<1> DEFINE v == device'
<1>2. /\ \A f : With(device, f) => With(v, f)
      /\ \A f : Under(device, f) => Under(v, f)
      /\ v.primary = device.primary /\ v.secondary = device.secondary
      /\ v.taken = device.taken
      /\ v.mode = device.mode /\ v.pos = device.pos /\ v.file = device.file
  BY <1>1, KeepUnder
<1>3. /\ v.state = device.state /\ v.bit = device.bit /\ v.clk = device.clk
      /\ v.data = device.data /\ device.timeout \in Nat /\ v.timeout \in Nat
      /\ v.timeout <= device.timeout
      /\ device.timeout = 0 => v.timeout = 0
  BY <1>1
<1> HIDE DEF v
<1>4. Silent(device) => Silent(v)
  BY <1>2, <1>3 DEF Silent, Free
<1>5. Deaf(device) => Deaf(v)
  BY <1>2, <1>3, <1>4 DEF Deaf, InState, Free
<1>6. Calm(device) => Calm(v)
  BY <1>2, <1>3, <1>5 DEF Calm, InBit, InState, Free
<1>7. Stale(device) => Stale(v)
  BY <1>2, <1>3 DEF Stale, HoldsData
<1>8. \A q, f : AddressedBy(device, q, f) => AddressedBy(v, q, f)
  BY <1>2, <1>3 DEF AddressedBy, HoldsData
<1>9. Listener(device) => Listener(v)
  BY <1>2, <1>3 DEF Listener, HoldsData
<1>10. Waits4(device) => Waits4(v)
  BY <1>3, TimesAre DEF Waits4, InState, Free, HoldsClk
<1>11. Talker(device) => Talker(v)
  BY <1>2, <1>4, <1>10 DEF Talker
<1>12. Exhausted(device) => Exhausted(v)
  BY <1>2, <1>3, <1>4, <1>10 DEF Exhausted
<1> QED BY <1>2, <1>3, <1>4, <1>5, <1>6, <1>7, <1>8, <1>9, <1>11, <1>12 DEF v

(* The next call.                                                           *)
ToSend(kind, byte, last) == [kind |-> kind, byte |-> byte, last |-> last]
LEMMA ToSendIs ==
    /\ ToSend("listen", LISTEN, FALSE) \in Messages
    /\ ToSend("talk", TALK, FALSE) \in Messages
    /\ ToSend("absent", ABSENT, FALSE) \in Messages
    /\ ToSend("turn", DATA, FALSE) \in Messages
    /\ ToSend("unlisten", UNLISTEN, FALSE) \in Messages
    /\ ToSend("untalk", UNTALK, FALSE) \in Messages
    /\ \A s \in {OPEN, DATA, CLOSE} : ToSend("second", s, FALSE) \in Messages
    /\ \A b \in Byte, l \in BOOLEAN : ToSend("data", b, l) \in Messages
BY BytesAre DEF ToSend, Messages

LEMMA RoutineIs ==
    /\ \A b : Routine(CallOf("command", b)) = Command(b)
    /\ \A b : Routine(CallOf("SECND", b)) = SECND(b)
    /\ \A b : Routine(CallOf("TKSA", b)) = TKSA(b)
    /\ \A c \in ByteCalls : Routine(c) = ISOUR(c.byte, c.last, TRUE)
    /\ Routine(Acptr) = ACPTR
BY DEF Routine, CallOf, ByteCalls, Acptr

LEMMA WritingIs ==
    ASSUME NEW c \in Seq(AllCalls), Writing(c)
    PROVE  \/ Head(c) = Unlisten /\ Tail(c) = << >>
           \/ Head(c) \in ByteCalls /\ Writing(Tail(c))
<1>1. /\ c # << >> /\ c[Len(c)] = Unlisten
      /\ \A i \in 1 .. Len(c) - 1 : c[i] \in ByteCalls
  BY DEF Writing
<1>2. /\ Len(c) \in Nat /\ Len(c) # 0 /\ Head(c) = c[1] /\ Tail(c) \in Seq(AllCalls)
      /\ Len(Tail(c)) = Len(c) - 1
      /\ \A i \in 1 .. Len(Tail(c)) : Tail(c)[i] = c[i + 1]
  BY <1>1, LenProperties, EmptySeq, HeadTailProperties
<1> DEFINE t == Tail(c)  n == Len(c)
<1>3. /\ n \in Nat /\ n # 0 /\ Len(t) = n - 1 /\ t \in Seq(AllCalls)
      /\ \A i \in 1 .. Len(t) : t[i] = c[i + 1]
      /\ Head(c) = c[1] /\ c[n] = Unlisten
      /\ \A i \in 1 .. n - 1 : c[i] \in ByteCalls
  BY <1>1, <1>2
<1> HIDE DEF t, n
<1>4. CASE n = 1
  <2>1. Len(t) = 0
    BY <1>3, <1>4
  <2>2. t = << >>
    BY <1>3, <2>1, EmptySeq
  <2> QED BY <1>3, <1>4, <2>2 DEF t
<1>5. CASE n # 1
  <2>1. Len(t) # 0 /\ n \in 1 .. n /\ Len(t) \in 1 .. Len(t) /\ Len(t) + 1 = n /\ 1 \in 1 .. n - 1
    BY <1>3, <1>5
  <2>2. c[1] \in ByteCalls /\ t # << >> /\ t[Len(t)] = Unlisten
    BY <1>3, <2>1, EmptySeq
  <2>3. ASSUME NEW i \in 1 .. Len(t) - 1 PROVE t[i] \in ByteCalls
    <3>1. i \in 1 .. Len(t) /\ i + 1 \in 1 .. n - 1
      BY <1>3
    <3> QED BY <1>3, <3>1
  <2> QED BY <1>3, <2>2, <2>3 DEF Writing, t
<1> QED BY <1>4, <1>5

Calls ==
    /\ calls # << >> /\ code' = Routine(Head(calls)) /\ calls' = Tail(calls)
    /\ input' = {} /\ cpu' = cpu /\ eoi' = eoi /\ sent' = sent
    /\ Silent(device) => Silent(device')
    /\ Deaf(device) => Deaf(device')
    /\ Calm(device) => Calm(device')
    /\ Stale(device) => Stale(device')
    /\ \A q, f : AddressedBy(device, q, f) => AddressedBy(device', q, f)
    /\ Listener(device) => Listener(device')
    /\ Talker(device) => Talker(device')
    /\ Exhausted(device) => Exhausted(device')
    /\ device'.taken = device.taken /\ device'.secondary = device.secondary
LEMMA CallsIs ==
    ASSUME TypeOK, code = << >>, Kernal
    PROVE  Calls /\ Untaken
<1>1. /\ calls # << >> /\ code' = Routine(Head(calls)) /\ calls' = Tail(calls)
      /\ input' = {} /\ UNCHANGED <<cpu, meddled, eoi, sent>>
      /\ \E d \in {0, AckWait} : device' = After(device, d)
  BY CallMoves
<1>2. PICK d \in {0, AckWait} : device' = After(device, d)
  BY <1>1
<1>3. /\ Silent(device) => Silent(device')
      /\ Deaf(device) => Deaf(device')
      /\ Calm(device) => Calm(device')
      /\ Stale(device) => Stale(device')
      /\ \A q, f : AddressedBy(device, q, f) => AddressedBy(device', q, f)
      /\ Listener(device) => Listener(device')
      /\ Talker(device) => Talker(device')
      /\ Exhausted(device) => Exhausted(device')
      /\ device'.taken = device.taken /\ device'.secondary = device.secondary
  BY <1>2, PassKeeps
<1> QED BY <1>1, <1>3 DEF Calls, Untaken

LEMMA IdleNext ==
    ASSUME TypeOK, AtIdle, Calls
    PROVE  \E m \in Messages : Sending(m)'
<1>1. /\ Starts(calls) /\ Even(device) /\ eoi = FALSE /\ sent = << >>
      /\ cpu = Lines(TRUE, TRUE, TRUE) /\ (Calm(device) \/ Stale(device))
  BY DEF AtIdle, Ends, Calls
<1>2. /\ Even(device)' /\ eoi' = FALSE /\ sent' = << >> /\ cpu' = Lines(TRUE, TRUE, TRUE)
      /\ Calm(device') \/ Stale(device')
  BY <1>1 DEF Calls, Even
<1>3. ASSUME NEW m \in Messages, m.kind \in Opening,
             Head(calls) = CallOf("command", m.byte),
             IF m.kind = "talk" THEN calls' = Talking ELSE Addressing(calls')
      PROVE  Sending(m)'
  <2>1. code' = Command(m.byte)
    BY <1>3, RoutineIs DEF Calls
  <2>2. m.kind # "untalk" /\ m.kind \in Opening \union Closing
    BY <1>3 DEF Opening
  <2>3. code' = FromDataHi(m)
    BY <2>1, <2>2, CommandFrom
  <2>4. CallsAfter(m)'
    BY <1>2, <1>3 DEF CallsAfter, Opening, Closing
  <2>5. AtCommand(m)'
    BY <1>2, <1>3, <2>3, <2>4 DEF AtCommand
  <2> QED BY <2>5 DEF Sending
<1>4. CASE Head(calls) = CallOf("command", LISTEN) /\ Addressing(Tail(calls))
  <2> DEFINE m == ToSend("listen", LISTEN, FALSE)
  <2>1. m \in Messages /\ m.kind = "listen" /\ m.byte = LISTEN
    BY ToSendIs DEF ToSend
  <2> HIDE DEF m
  <2>2. m.kind \in Opening /\ m.kind # "talk" /\ Addressing(calls')
    BY <1>4, <2>1 DEF Opening, Calls
  <2> QED BY <1>3, <1>4, <2>1, <2>2
<1>5. CASE Head(calls) = CallOf("command", ABSENT) /\ Addressing(Tail(calls))
  <2> DEFINE m == ToSend("absent", ABSENT, FALSE)
  <2>1. m \in Messages /\ m.kind = "absent" /\ m.byte = ABSENT
    BY ToSendIs DEF ToSend
  <2> HIDE DEF m
  <2>2. m.kind \in Opening /\ m.kind # "talk" /\ Addressing(calls')
    BY <1>5, <2>1 DEF Opening, Calls
  <2> QED BY <1>3, <1>5, <2>1, <2>2
<1>6. CASE Head(calls) = CallOf("command", TALK) /\ Tail(calls) = Talking
  <2> DEFINE m == ToSend("talk", TALK, FALSE)
  <2>1. m \in Messages /\ m.kind = "talk" /\ m.byte = TALK
    BY ToSendIs DEF ToSend
  <2> HIDE DEF m
  <2>2. m.kind \in Opening /\ calls' = Talking
    BY <1>6, <2>1 DEF Opening, Calls
  <2> QED BY <1>3, <1>6, <2>1, <2>2
<1> QED BY <1>1, <1>4, <1>5, <1>6 DEF Starts

LEMMA WritingNext ==
    ASSUME TypeOK, AtWriting, Calls
    PROVE  \E m \in Messages : Sending(m)'
<1>0. calls \in Seq(AllCalls) /\ Writing(calls)
  BY DEF TypeOK, AtWriting
<1>1. CASE Head(calls) = Unlisten /\ Tail(calls) = << >>
  <2> DEFINE m == ToSend("unlisten", UNLISTEN, FALSE)
  <2>1. m \in Messages /\ m.kind = "unlisten" /\ m.byte = UNLISTEN
    BY ToSendIs DEF ToSend
  <2> HIDE DEF m
  <2>2. code' = Command(m.byte)
    BY <1>1, <2>1, RoutineIs DEF Calls, Unlisten
  <2>3. code' = FromDataHi(m)
    BY <2>1, <2>2, CommandFrom DEF Closing
  <2>4. CallsAfter(m)'
    BY <1>1, <2>1 DEF CallsAfter, Opening, Closing, Calls
  <2>5. AtUnlisten(m)'
    BY <2>1, <2>3, <2>4 DEF AtUnlisten, Unlistens, AtWriting, Calls
  <2> QED BY <2>1, <2>5 DEF Sending
<1>2. CASE Head(calls) \in ByteCalls /\ Writing(Tail(calls))
  <2> DEFINE c == Head(calls)
  <2>1. c \in ByteCalls /\ c.byte \in Byte /\ c.last \in BOOLEAN
    BY <1>2 DEF ByteCalls
  <2>2. PICK m \in Messages : m.kind = "data" /\ m.byte = c.byte /\ m.last = c.last
    <3>1. ToSend("data", c.byte, c.last) \in Messages
      BY <2>1, ToSendIs
    <3> QED BY <3>1 DEF ToSend
  <2>3. code' = ISOUR(c.byte, c.last, TRUE)
    BY <2>1, RoutineIs DEF Calls
  <2> HIDE DEF c
  <2>4. (m.kind = "data") = TRUE /\ Rest(m) = << >>
    BY <2>2 DEF Rest, Opening, Closing
  <2>5. code' = ISOUR(m.byte, m.last, m.kind = "data") /\ m.last \in BOOLEAN
    BY <2>1, <2>2, <2>3, <2>4
  <2>6. IsSeries(ISOUR(m.byte, m.last, m.kind = "data"))
    BY <2>5, IsourIs
  <2>7. code' = FromLetGo(m)
    <3>1. Joined(ISOUR(m.byte, m.last, m.kind = "data"), Rest(m)) = FromLetGo(m)
      BY <2>2, SendsFrom
    <3> DEFINE i == ISOUR(m.byte, m.last, m.kind = "data")
    <3>2. Joined(i, << >>) = FromLetGo(m) /\ IsSeries(i) /\ code' = i
      BY <2>4, <2>5, <2>6, <3>1
    <3> HIDE DEF i
    <3> QED BY <3>2, JoinedNothing
  <2>8. CallsAfter(m)'
    BY <1>2, <2>2 DEF CallsAfter, Opening, Closing, Calls
  <2>9. AtLetGo(m)'
    BY <2>2, <2>7, <2>8 DEF AtLetGo, AtWriting, Calls, Even
  <2> QED BY <2>2, <2>9 DEF Sending
<1> QED BY <1>0, <1>1, <1>2, WritingIs

LEMMA AddressingNext ==
    ASSUME TypeOK, AtAddressing, Calls
    PROVE  \E m \in Messages : Sending(m)'
<1>1. PICK s \in {OPEN, DATA, CLOSE} : Head(calls) = CallOf("SECND", s)
  BY DEF AtAddressing, Addressing
<1>2. Writing(calls')
  BY DEF AtAddressing, Addressing, Calls
<1> DEFINE m == ToSend("second", s, FALSE)
<1>3. m \in Messages /\ m.kind = "second" /\ m.byte = s
  BY ToSendIs DEF ToSend
<1> HIDE DEF m
<1>4. code' = SECND(m.byte)
  BY <1>1, <1>3, RoutineIs DEF Calls
<1>5. code' = FromAddress(m)
  BY <1>3, <1>4, SecondFrom
<1>6. CallsAfter(m)'
  BY <1>2, <1>3 DEF CallsAfter, Opening, Closing
<1>7. CASE /\ cpu = Lines(FALSE, FALSE, TRUE)
           /\ AddressedBy(device, LISTEN, {"LISTENING"})
           /\ device.secondary = NONE /\ Even(device)
  <2>1. /\ cpu' = Lines(FALSE, FALSE, TRUE)
        /\ AddressedBy(device', LISTEN, {"LISTENING"})
        /\ device'.secondary = NONE /\ Even(device)'
    BY <1>7 DEF Calls, Even
  <2>2. OtherFlags(m) = {"LISTENING"} /\ AddressBefore(m) = LISTEN
    BY <1>3 DEF OtherFlags, AddressBefore
  <2>3. /\ Under(device', {"LISTENING"}) /\ device'.primary = LISTEN
        /\ device'.state = "PRE2" /\ HoldsData(device')
    BY <2>1 DEF AddressedBy
  <2>4. UnderAtn(device, m)'
    BY <2>1, <2>2, <2>3 DEF UnderAtn
  <2>5. Asked(device, m)'
    BY <2>3, <2>4 DEF Asked
  <2>6. AtAddress(m)'
    BY <1>3, <1>5, <1>6, <2>1, <2>5 DEF AtAddress, Opening
  <2> QED BY <1>3, <2>6 DEF Sending
<1>8. CASE cpu = Lines(TRUE, TRUE, TRUE) /\ Deaf(device)
  <2>1. cpu' = Lines(TRUE, TRUE, TRUE) /\ Deaf(device')
    BY <1>8 DEF Calls
  <2>2. AtAddress(m)'
    BY <1>3, <1>5, <1>6, <2>1 DEF AtAddress
  <2> QED BY <1>3, <2>2 DEF Sending
<1> QED BY <1>7, <1>8 DEF AtAddressing

LEMMA TalkingNext ==
    ASSUME TypeOK, AtTalking, Calls
    PROVE  \E m \in Messages : Sending(m)'
<1> DEFINE m == ToSend("turn", DATA, FALSE)
<1>1. m \in Messages /\ m.kind = "turn" /\ m.byte = DATA
  BY ToSendIs DEF ToSend
<1> HIDE DEF m
<1>2. Head(calls) = CallOf("TKSA", DATA) /\ calls' = <<Acptr, Untalk>> /\ eoi' = FALSE
  BY DEF AtTalking, Talking, Calls
<1>3. code' = TKSA(m.byte)
  BY <1>1, <1>2, RoutineIs DEF Calls
<1>4. code' = FromAddress(m)
  BY <1>1, <1>3, SecondFrom
<1>5. CallsAfter(m)'
  BY <1>1, <1>2 DEF CallsAfter, ReadsNext, Opening, Closing
<1>6. /\ cpu' = Lines(FALSE, FALSE, TRUE) /\ AddressedBy(device', TALK, {"LISTENING"})
      /\ device'.secondary = NONE
  BY DEF AtTalking, Calls
<1>7. /\ Under(device', {"LISTENING"}) /\ device'.primary = TALK
      /\ device'.state = "PRE2" /\ HoldsData(device')
  BY <1>6 DEF AddressedBy
<1>8. OtherFlags(m) = {"LISTENING"} /\ AddressBefore(m) = TALK /\ ~ Counts(m)
  BY <1>1 DEF OtherFlags, AddressBefore, Counts
<1>9. UnderAtn(device, m)'
  BY <1>6, <1>7, <1>8 DEF UnderAtn
<1>10. Asked(device, m)'
  BY <1>7, <1>9 DEF Asked
<1>11. AtAddress(m)'
  BY <1>1, <1>4, <1>5, <1>6, <1>10 DEF AtAddress, Opening
<1> QED BY <1>1, <1>11 DEF Sending

LEMMA ToUntalk ==
    ASSUME Calls, calls = <<Untalk>>,
           \/ cpu = Lines(TRUE, TRUE, FALSE) /\ Talker(device)
           \/ cpu = Lines(TRUE, TRUE, TRUE) /\ Exhausted(device)
    PROVE  \E m \in Messages : Sending(m)'
<1> DEFINE m == ToSend("untalk", UNTALK, FALSE)
<1>1. m \in Messages /\ m.kind = "untalk" /\ m.byte = UNTALK
  BY ToSendIs DEF ToSend
<1> HIDE DEF m
<1>2. Head(calls) = CallOf("command", UNTALK) /\ calls' = << >>
  BY DEF Untalk, Calls
<1>3. code' = Command(m.byte)
  BY <1>1, <1>2, RoutineIs DEF Calls
<1>4. code' = Joined(<<ClkLo>>, FromUntalk(m))
  BY <1>1, <1>3, CommandFrom DEF Closing
<1>5. CallsAfter(m)'
  BY <1>1, <1>2 DEF CallsAfter, Opening, Closing
<1>6. code' = <<ClkLo>> \o FromUntalk(m)
  <2> DEFINE j == Joined(<<ClkLo>>, FromUntalk(m))
             k == <<ClkLo>> \o FromUntalk(m)
  <2>1. j = k /\ code' = j
    BY <1>4 DEF Joined
  <2> HIDE DEF j, k
  <2>2. code' = k
    BY <2>1
  <2> QED BY <2>2 DEF k
<1>7. \/ cpu' = Lines(TRUE, TRUE, FALSE) /\ Talker(device')
      \/ cpu' = Lines(TRUE, TRUE, TRUE) /\ Exhausted(device')
  BY DEF Calls
<1>8. AtUntalk(m)'
  BY <1>1, <1>5, <1>6, <1>7 DEF AtUntalk, Untalks
<1> QED BY <1>1, <1>8 DEF Sending

LEMMA BetweenNext ==
    ASSUME TypeOK, Between, Kernal
    PROVE  ((\E m \in Messages : Sending(m)') \/ Reading') /\ Untaken
<1>1. Calls /\ Untaken
  BY CallsIs DEF Between
<1>2. CASE AtIdle
  BY <1>1, <1>2, IdleNext
<1>3. CASE AtWriting
  BY <1>1, <1>3, WritingNext
<1>4. CASE AtAddressing
  BY <1>1, <1>4, AddressingNext
<1>5. CASE AtTalking
  BY <1>1, <1>5, TalkingNext
<1>6. CASE AtReading /\ calls = <<Untalk>>
  BY <1>1, <1>6, ToUntalk DEF AtReading
<1>7. CASE AtReading /\ ReadsNext
  <2>1. Head(calls) = Acptr /\ calls' = <<Untalk>> /\ eoi' = FALSE /\ input' = {}
    BY <1>1, <1>7 DEF ReadsNext, Calls
  <2>2. code' = FromReadClkHi
    BY <1>1, <2>1, RoutineIs, AcptrFrom DEF Calls
  <2>3. cpu' = Lines(TRUE, TRUE, FALSE) /\ Talker(device')
    BY <1>1, <1>7 DEF AtReading, Calls
  <2>4. AtReadClkHi'
    BY <2>1, <2>2, <2>3 DEF AtReadClkHi, Starting
  <2> QED BY <1>1, <2>4 DEF Reading
<1>8. CASE AtReadingDone
  BY <1>1, <1>8, ToUntalk DEF AtReadingDone
<1> QED BY <1>2, <1>3, <1>4, <1>5, <1>6, <1>7, <1>8 DEF Between, AtReading

\* With the device on, each access leads from one of the places to another.
LEMMA TransferNext ==
    ASSUME TypeOK, Transfer, Kernal
    PROVE  Transfer' /\ (Untaken \/ Taken1)
<1>1. ASSUME NEW m \in Messages, Sending(m)
      PROVE  Transfer' /\ (Untaken \/ Taken1)
  <2>1. (Sending(m)' \/ Ending' \/ Between') /\ (Untaken \/ Taken1)
    BY <1>1, SendingNext
  <2> QED BY <2>1 DEF Transfer
<1>2. CASE Ending
  <2>1. (Ending' \/ Between') /\ Untaken
    BY <1>2, EndingNext
  <2> QED BY <2>1 DEF Transfer
<1>3. CASE Reading
  <2>1. (Reading' \/ Ending' \/ Between') /\ Untaken
    BY <1>3, ReadingNext
  <2> QED BY <2>1 DEF Transfer
<1>4. CASE Between
  <2>1. ((\E m \in Messages : Sending(m)') \/ Reading') /\ Untaken
    BY <1>4, BetweenNext
  <2> QED BY <2>1 DEF Transfer
<1> QED BY <1>1, <1>2, <1>3, <1>4 DEF Transfer

(* Types: the accesses of the routines, and every step.                     *)
LineSets == UNION {[l -> BOOLEAN] : l \in SUBSET {"atn", "clk", "data"}}
LEMMA LineSetsAre ==
    /\ \A v \in BOOLEAN : [data |-> v] \in LineSets
    /\ \A v \in BOOLEAN : [clk |-> v] \in LineSets
    /\ \A v \in BOOLEAN : [atn |-> v] \in LineSets
    /\ \A v, w \in BOOLEAN : [clk |-> v, data |-> w] \in LineSets
    /\ High \in LineSets
<1>1. \A v \in BOOLEAN : [data |-> v] \in [{"data"} -> BOOLEAN]
  OBVIOUS
<1>2. \A v \in BOOLEAN : [clk |-> v] \in [{"clk"} -> BOOLEAN]
  OBVIOUS
<1>3. \A v \in BOOLEAN : [atn |-> v] \in [{"atn"} -> BOOLEAN]
  OBVIOUS
<1>4. \A v, w \in BOOLEAN : [clk |-> v, data |-> w] \in [{"clk", "data"} -> BOOLEAN]
  OBVIOUS
<1>5. High \in [{"atn", "clk", "data"} -> BOOLEAN]
  <2>1. \A x, y, z \in BOOLEAN :
            [atn |-> x, clk |-> y, data |-> z] \in [{"atn", "clk", "data"} -> BOOLEAN]
    OBVIOUS
  <2> QED BY <2>1, Zenon DEF High
<1>6. \A l \in SUBSET {"atn", "clk", "data"} : \A f \in [l -> BOOLEAN] : f \in LineSets
  BY DEF LineSets
<1>7. /\ {"data"} \in SUBSET {"atn", "clk", "data"} /\ {"clk"} \in SUBSET {"atn", "clk", "data"}
      /\ {"atn"} \in SUBSET {"atn", "clk", "data"}
      /\ {"clk", "data"} \in SUBSET {"atn", "clk", "data"}
      /\ {"atn", "clk", "data"} \in SUBSET {"atn", "clk", "data"}
  OBVIOUS
<1> QED BY <1>1, <1>2, <1>3, <1>4, <1>5, <1>6, <1>7

LEMMA AccessesAre ==
    /\ \A l \in LineSets : Store(l) \in Plain /\ Pause(l) \in Plain
    /\ \A v \in BOOLEAN : Need(v) \in Plain
    /\ \A l \in {"clk", "data"}, v \in BOOLEAN : Until(l, v) \in Plain
    /\ \A b \in Byte, d \in BOOLEAN : AckOf(b, d) \in Plain
    /\ \A a \in BOOLEAN : FirstEdge(a) \in Plain
    /\ \A i \in 0 .. Bits - 1 : Sample(i) \in Plain
<1>1. \A l \in LineSets : Store(l) \in Plain /\ Pause(l) \in Plain
  BY DEF Store, Pause, Plain, LineSets
<1>2. \A v \in BOOLEAN : Need(v) \in Plain
  BY DEF Need, Plain
<1>3. \A l \in {"clk", "data"}, v \in BOOLEAN : Until(l, v) \in Plain
  BY DEF Until, Plain
<1>4. \A b \in Byte, d \in BOOLEAN : AckOf(b, d) \in Plain
  <2>1. AckWait \in 1 .. AckWait
    BY TimesAre
  <2> QED BY <2>1 DEF AckOf, Plain
<1>5. \A a \in BOOLEAN : FirstEdge(a) \in Plain
  <2>1. EoiWait \in 1 .. EoiWait
    BY TimesAre
  <2> QED BY <2>1 DEF FirstEdge, Plain
<1>6. \A i \in 0 .. Bits - 1 : Sample(i) \in Plain
  BY DEF Sample, Plain
<1> QED BY <1>1, <1>2, <1>3, <1>4, <1>5, <1>6

LEMMA StoresFine ==
    {DataHi, DataLo, ClkHi, ClkLo, AtnHi, AtnLo} \subseteq Plain
    /\ Pause([clk |-> TRUE]) \in Plain /\ Pause([data |-> TRUE]) \in Plain
    /\ Store(High) \in Plain
BY LineSetsAre, AccessesAre DEF DataHi, DataLo, ClkHi, ClkLo, AtnHi, AtnLo

LEMMA FinishFine ==
    /\ LetGo \in Seq(Plain) /\ <<AtnHi>> \in Seq(Plain) /\ Finish \in Seq(Plain)
    /\ <<Store(High)>> \in Seq(Plain)
<1> DEFINE p == Pause([clk |-> TRUE])
<1>1. p \in Plain /\ DataHi \in Plain /\ AtnHi \in Plain /\ Store(High) \in Plain
  BY StoresFine
<1>2. LetGo = <<p, DataHi>>
  BY DEF LetGo
<1> HIDE DEF p
<1>3. LetGo \in Seq(Plain) /\ <<AtnHi>> \in Seq(Plain) /\ <<Store(High)>> \in Seq(Plain)
  BY <1>1, <1>2
<1> QED BY <1>3, ConcatProperties DEF Finish

LEMMA PlainIs ==
    Plain \subseteq Accesses /\ Seq(Plain) \subseteq Seq(Accesses) /\ ByteRead \in Accesses
<1>1. Plain \subseteq Accesses /\ ByteRead \in Accesses
  BY DEF Accesses, ByteRead
<1> QED BY <1>1

LEMMA SendBitsFine ==
    ASSUME NEW b
    PROVE  SendBits(b, 0) \in Seq(Plain)
<1>1. \A i : \A r \in 1 .. 4 : SendBit(b, i)[r] \in Plain
  <2> TAKE i
  <2> DEFINE s == Store([data |-> i \in b])  n == Need(TRUE)  c == ClkHi
             l == Store([clk |-> FALSE, data |-> TRUE])
  <2>1. s \in Plain /\ n \in Plain /\ c \in Plain /\ l \in Plain
    <3>1. (i \in b) \in BOOLEAN /\ TRUE \in BOOLEAN /\ FALSE \in BOOLEAN
      OBVIOUS
    <3> QED BY <3>1, LineSetsAre, AccessesAre, StoresFine
  <2>2. SendBit(b, i) = <<n, s, c, l>>
    BY DEF SendBit
  <2> HIDE DEF s, n, c, l
  <2> QED BY <2>1, <2>2
<1>2. SendBits(b, 0) = [k \in 1 .. 4 * (Bits - 0) |-> SendBit(b, 0 + ((k - 1) \div 4))[((k - 1) % 4) + 1]]
  BY DEF SendBits
<1>3. 4 * (Bits - 0) \in Nat
  BY BitsAssumption
<1>4. \A k \in 1 .. 4 * (Bits - 0) : ((k - 1) % 4) + 1 \in 1 .. 4
  BY <1>3
<1>5. \A k \in 1 .. 4 * (Bits - 0) : SendBit(b, 0 + ((k - 1) \div 4))[((k - 1) % 4) + 1] \in Plain
  BY <1>1, <1>4
<1> QED BY <1>2, <1>3, <1>5

LEMMA ReadBitsFine == ReadBits(0) \in Seq(Plain)
<1> DEFINE n == 2 * (Bits - 0)
           u == Until("clk", FALSE)
<1>1. n \in Nat /\ n = 2 * Bits
  BY BitsAssumption
<1>2. ReadBits(0) = [k \in 1 .. n |-> IF k % 2 = 1 THEN Sample(0 + ((k - 1) \div 2)) ELSE u]
  BY DEF ReadBits
<1>3. u \in Plain
  BY AccessesAre
<1>4. ASSUME NEW k \in 1 .. n PROVE (k - 1) \div 2 \in 0 .. Bits - 1 /\ 0 + ((k - 1) \div 2) = (k - 1) \div 2
  BY <1>1, BitsAssumption
<1>5. \A k \in 1 .. n : Sample(0 + ((k - 1) \div 2)) \in Plain
  BY <1>4, AccessesAre
<1> HIDE DEF n, u
<1> QED BY <1>1, <1>2, <1>3, <1>5

LEMMA IsourFine ==
    ASSUME NEW b \in Byte, NEW last \in BOOLEAN, NEW data \in BOOLEAN
    PROVE  ISOUR(b, last, data) \in Seq(Plain) /\ ISOURA(b) \in Seq(Plain)
<1>1. ASSUME NEW l \in BOOLEAN, NEW d \in BOOLEAN
      PROVE  ISOUR(b, l, d) \in Seq(Plain)
  <2> DEFINE n == Need(FALSE)  u == Until("data", TRUE)  w == Until("data", FALSE)
             a == AckOf(b, d)  k == SendBits(b, 0)  e == IF l THEN <<u, w>> ELSE << >>
  <2>1. n \in Plain /\ u \in Plain /\ w \in Plain /\ a \in Plain
    BY AccessesAre
  <2>2. DataHi \in Plain /\ ClkHi \in Plain /\ ClkLo \in Plain
    BY StoresFine
  <2>3. k \in Seq(Plain)
    BY SendBitsFine
  <2>4. ISOUR(b, l, d) = (((<<DataHi, n, ClkHi>> \o e) \o <<u, ClkLo>>) \o k) \o <<a>>
    BY DEF ISOUR
  <2> HIDE DEF n, u, w, a, k
  <2>5. /\ <<DataHi, n, ClkHi>> \in Seq(Plain) /\ e \in Seq(Plain)
        /\ <<u, ClkLo>> \in Seq(Plain) /\ <<a>> \in Seq(Plain)
    BY <2>1, <2>2
  <2> HIDE DEF e
  <2> DEFINE x == <<DataHi, n, ClkHi>>  y == <<u, ClkLo>>  z == <<a>>
  <2>6. /\ x \in Seq(Plain) /\ y \in Seq(Plain) /\ z \in Seq(Plain)
        /\ ISOUR(b, l, d) = (((x \o e) \o y) \o k) \o z
    BY <2>4, <2>5
  <2> HIDE DEF x, y, z
  <2>7. x \o e \in Seq(Plain)
    BY <2>5, <2>6, ConcatProperties
  <2>8. (x \o e) \o y \in Seq(Plain)
    BY <2>6, <2>7, ConcatProperties
  <2>9. ((x \o e) \o y) \o k \in Seq(Plain)
    BY <2>3, <2>8, ConcatProperties
  <2>10. (((x \o e) \o y) \o k) \o z \in Seq(Plain)
    BY <2>6, <2>9, ConcatProperties
  <2> QED BY <2>6, <2>10
<1>2. ISOURA(b) \in Seq(Plain)
  <2> DEFINE p == Pause([data |-> TRUE])  i == ISOUR(b, FALSE, FALSE)
  <2>1. p \in Plain /\ ClkLo \in Plain /\ i \in Seq(Plain)
    BY <1>1, StoresFine
  <2>2. ISOURA(b) = <<ClkLo, p>> \o i
    BY DEF ISOURA
  <2> HIDE DEF p, i
  <2>3. <<ClkLo, p>> \in Seq(Plain)
    BY <2>1
  <2> QED BY <2>1, <2>2, <2>3, ConcatProperties
<1> QED BY <1>1, <1>2

LEMMA CommandFine ==
    ASSUME NEW b \in Byte
    PROVE  Command(b) \in Seq(Plain)
<1> DEFINE x == IF b = UNTALK THEN <<ClkLo, AtnLo>> ELSE << >>
           y == IF b = UNLISTEN THEN <<ClkHi>> ELSE << >>
           z == IF b \in {UNLISTEN, UNTALK} THEN <<AtnHi>> \o LetGo ELSE << >>
           a == ISOURA(b)
           h == <<DataHi>>
           l == <<AtnLo>>
<1>1. Command(b) = ((((x \o h) \o y) \o l) \o a) \o z
  BY DEF Command
<1>2. /\ DataHi \in Plain /\ ClkLo \in Plain /\ AtnLo \in Plain /\ ClkHi \in Plain
  BY StoresFine
<1>3. x \in Seq(Plain) /\ y \in Seq(Plain) /\ h \in Seq(Plain) /\ l \in Seq(Plain)
  BY <1>2
<1>4. <<AtnHi>> \o LetGo \in Seq(Plain) /\ << >> \in Seq(Plain)
  BY FinishFine DEF Finish
<1>5. z \in Seq(Plain)
  BY <1>4
<1>6. a \in Seq(Plain)
  BY IsourFine
<1> HIDE DEF x, y, z, a, h, l
<1>7. x \o h \in Seq(Plain)
  BY <1>3, ConcatProperties
<1>8. (x \o h) \o y \in Seq(Plain)
  BY <1>3, <1>7, ConcatProperties
<1>9. ((x \o h) \o y) \o l \in Seq(Plain)
  BY <1>3, <1>8, ConcatProperties
<1>10. (((x \o h) \o y) \o l) \o a \in Seq(Plain)
  BY <1>6, <1>9, ConcatProperties
<1>11. ((((x \o h) \o y) \o l) \o a) \o z \in Seq(Plain)
  BY <1>5, <1>10, ConcatProperties
<1> QED BY <1>1, <1>11

LEMMA AcptrFine == ACPTR \in Seq(Accesses)
<1> DEFINE u == Until("clk", TRUE)  e == FirstEdge(FALSE)  k == ReadBits(0)
           x == <<ClkHi, u, DataHi, e>>
           y == <<DataLo, ByteRead>>
<1>1. /\ u \in Accesses /\ e \in Accesses /\ DataHi \in Accesses /\ ClkHi \in Accesses
      /\ DataLo \in Accesses /\ ByteRead \in Accesses
  BY AccessesAre, StoresFine, PlainIs
<1>2. ACPTR = (x \o k) \o y
  BY DEF ACPTR
<1>3. k \in Seq(Accesses)
  BY ReadBitsFine, PlainIs
<1> HIDE DEF u, e, k
<1>4. x \in Seq(Accesses) /\ y \in Seq(Accesses)
  BY <1>1
<1> HIDE DEF x, y
<1>5. x \o k \in Seq(Accesses)
  BY <1>3, <1>4, ConcatProperties
<1>6. (x \o k) \o y \in Seq(Accesses)
  BY <1>4, <1>5, ConcatProperties
<1> QED BY <1>2, <1>6

LEMMA RoutineFine ==
    ASSUME NEW c \in AllCalls
    PROVE  Routine(c) \in Seq(Accesses) /\ (c.name # "ACPTR" => Routine(c) \in Seq(Plain))
<1>1. \/ c \in ByteCalls
      \/ c \in [name : {"command", "SECND", "TKSA", "ACPTR"}, byte : Byte]
  BY DEF AllCalls
<1>2. CASE c \in ByteCalls
  <2>1. Routine(c) = ISOUR(c.byte, c.last, TRUE) /\ c.byte \in Byte /\ c.last \in BOOLEAN
    BY <1>2, RoutineIs DEF ByteCalls
  <2> QED BY <2>1, IsourFine, PlainIs
<1>3. CASE c \in [name : {"command", "SECND", "TKSA", "ACPTR"}, byte : Byte]
  <2>1. c.byte \in Byte /\ ISOURA(c.byte) \in Seq(Plain)
    BY <1>3, IsourFine
  <2>2. CASE c.name = "command"
    <3>1. Routine(c) = Command(c.byte)
      BY <2>2 DEF Routine
    <3> QED BY <2>1, <3>1, CommandFine, PlainIs
  <2>3. CASE c.name = "SECND"
    <3>1. Routine(c) = ISOURA(c.byte) \o <<AtnHi>>
      BY <2>3 DEF Routine, SECND
    <3>2. ISOURA(c.byte) \o <<AtnHi>> \in Seq(Plain)
      BY <2>1, FinishFine, ConcatProperties
    <3> QED BY <2>1, <3>1, <3>2, PlainIs
  <2>4. CASE c.name = "TKSA"
    <3> DEFINE u == Until("clk", FALSE)  t == <<DataLo, AtnHi, ClkHi, u>>
    <3>1. Routine(c) = ISOURA(c.byte) \o t
      BY <2>4 DEF Routine, TKSA
    <3>2. u \in Plain /\ DataLo \in Plain /\ AtnHi \in Plain /\ ClkHi \in Plain
      BY AccessesAre, StoresFine
    <3> HIDE DEF u
    <3>3. t \in Seq(Plain)
      BY <3>2
    <3> HIDE DEF t
    <3>4. ISOURA(c.byte) \o t \in Seq(Plain)
      BY <2>1, <3>3, ConcatProperties
    <3> QED BY <2>1, <3>1, <3>4, PlainIs
  <2>5. CASE c.name = "ACPTR"
    <3>1. Routine(c) = ACPTR
      BY <2>5 DEF Routine
    <3> QED BY <2>5, <3>1, AcptrFine
  <2> QED BY <1>3, <2>2, <2>3, <2>4, <2>5
<1> QED BY <1>1, <1>2, <1>3

LEMMA AccessIs ==
    ASSUME NEW x \in Accesses
    PROVE  /\ x.do \in {"store", "need", "until", "ack", "edge", "sample", "read"}
           /\ x.do = "store" => x.lines \in LineSets /\ x.t \in {0, AckWait}
           /\ x.do = "need" => x.v \in BOOLEAN
           /\ x.do = "until" => [x EXCEPT !.odd = ~ @] \in Accesses
           /\ x.do = "ack" =>
                /\ x.byte \in Byte /\ x.data \in BOOLEAN /\ x.t \in 1 .. AckWait
                /\ x.t > 1 => [x EXCEPT !.t = @ - 1] \in Accesses
           /\ x.do = "edge" =>
                /\ x.t \in 1 .. EoiWait
                /\ x.t > 1 => [x EXCEPT !.t = @ - 1] \in Accesses
           /\ x.do = "sample" =>
                x.bit \in 0 .. Bits - 1 /\ [x EXCEPT !.odd = ~ @] \in Accesses
           /\ x.do = "read" => x = ByteRead
<1>1. CASE x \in [do : {"store"}, lines : LineSets, t : {0, AckWait}]
  BY <1>1
<1>2. CASE x \in [do : {"need"}, v : BOOLEAN]
  BY <1>2
<1>3. CASE x \in [do : {"until"}, line : {"clk", "data"}, v : BOOLEAN, odd : BOOLEAN]
  <2>1. [x EXCEPT !.odd = ~ @] \in
            [do : {"until"}, line : {"clk", "data"}, v : BOOLEAN, odd : BOOLEAN]
    BY <1>3
  <2>2. [x EXCEPT !.odd = ~ @] \in Accesses
    BY <2>1 DEF Accesses, Plain
  <2> QED BY <1>3, <2>2
<1>4. CASE x \in [do : {"ack"}, t : 1 .. AckWait, byte : Byte, data : BOOLEAN]
  <2>1. ASSUME x.t > 1
        PROVE  [x EXCEPT !.t = @ - 1] \in Accesses
    <3>1. x.t - 1 \in 1 .. AckWait
      BY <1>4, <2>1, TimesAre
    <3>2. [x EXCEPT !.t = @ - 1] \in
              [do : {"ack"}, t : 1 .. AckWait, byte : Byte, data : BOOLEAN]
      BY <1>4, <3>1
    <3> QED BY <3>2 DEF Accesses, Plain
  <2> QED BY <1>4, <2>1
<1>5. CASE x \in [do : {"edge"}, t : 1 .. EoiWait, again : BOOLEAN]
  <2>1. ASSUME x.t > 1
        PROVE  [x EXCEPT !.t = @ - 1] \in Accesses
    <3>1. x.t - 1 \in 1 .. EoiWait
      BY <1>5, <2>1, TimesAre
    <3>2. [x EXCEPT !.t = @ - 1] \in [do : {"edge"}, t : 1 .. EoiWait, again : BOOLEAN]
      BY <1>5, <3>1
    <3> QED BY <3>2 DEF Accesses, Plain
  <2> QED BY <1>5, <2>1
<1>6. CASE x \in [do : {"sample"}, bit : 0 .. Bits - 1, odd : BOOLEAN]
  <2>1. [x EXCEPT !.odd = ~ @] \in [do : {"sample"}, bit : 0 .. Bits - 1, odd : BOOLEAN]
    BY <1>6
  <2>2. [x EXCEPT !.odd = ~ @] \in Accesses
    BY <2>1 DEF Accesses, Plain
  <2> QED BY <1>6, <2>2
<1>7. CASE x \in [do : {"read"}]
  <2>1. x = ByteRead
    BY <1>7 DEF ByteRead
  <2> QED BY <1>7, <2>1
<1> QED BY <1>1, <1>2, <1>3, <1>4, <1>5, <1>6, <1>7 DEF Accesses, Plain, LineSets

LEMMA AtIs ==
    ASSUME TypeOK, NEW do, At(do)
    PROVE  /\ Head(code) \in Accesses /\ Tail(code) \in Seq(Accesses) /\ code # << >>
           /\ Head(code).do = do
           /\ \A x \in Accesses : <<x>> \o Tail(code) \in Seq(Accesses)
<1>1. code \in Seq(Accesses) /\ code # << >> /\ Head(code).do = do
  BY DEF TypeOK, CodeOK, At
<1>2. Head(code) \in Accesses /\ Tail(code) \in Seq(Accesses)
  BY <1>1, HeadTailProperties
<1>3. \A x \in Accesses : <<x>> \in Seq(Accesses)
  OBVIOUS
<1> QED BY <1>1, <1>2, <1>3, ConcatProperties

\* The device stays one, on or off, and a channel that reads has a file.
LEMMA DeviceFine ==
    ASSUME TypeOK, Kernal
    PROVE  /\ device' \in Devices /\ Reads1(device') /\ device'.enabled = device.enabled
<1>1. /\ Typed(device) /\ Reads1(device)
      /\ \E x, y, z \in BOOLEAN : cpu = Lines(x, y, z)
  BY TypedIs DEF TypeOK
<1>2. \A d \in Nat, a \in Answers : Fine(device, Exec(device, d, a))
  BY <1>1, ExecFine
<1>3. \A d \in Nat, a \in Answers : Fine(device, Exec(Exec(device, d, a), 0, a))
  <2> TAKE d \in Nat, a \in Answers
  <2> DEFINE v == Exec(device, d, a)
  <2>1. Fine(device, v) /\ 0 \in Nat
    BY <1>2
  <2> HIDE DEF v
  <2>2. Typed(v) /\ Reads1(v)
    BY <1>1, <2>1 DEF Fine
  <2>3. Fine(v, Exec(v, 0, a))
    BY <1>1, <2>1, <2>2, ExecFine
  <2>4. Fine(device, Exec(v, 0, a))
    BY <2>1, <2>3, FineTwice
  <2> QED BY <2>4 DEF v
<1>4. Fine(device, device')
  <2>1. CASE Call
    <3>1. PICK d \in {0, AckWait} : device' = After(device, d)
      BY <2>1 DEF Call
    <3>2. d \in Nat
      BY TimesAre
    <3> QED BY <1>1, <3>1, <3>2, AfterFine
  <2>2. CASE Stores
    <3>1. Head(code).t \in Nat /\ Nmi \in Nat
      <4>1. Head(code).t \in {0, AckWait}
        BY <2>2, AtIs, AccessIs DEF Stores
      <4>2. 0 \in Nat /\ AckWait \in Nat /\ Nmi \in Nat
        BY TimesAre
      <4> QED BY <4>1, <4>2
    <3>2. PICK nmi \in BOOLEAN, a \in Answers :
              device' = IF cpu' = cpu
                        THEN Exec(device, IF nmi THEN Nmi ELSE Head(code).t, a)
                        ELSE Exec(Exec(device, IF nmi THEN Nmi ELSE Head(code).t, a), 0, a)
      BY <2>2 DEF Stores
    <3> DEFINE d == IF nmi THEN Nmi ELSE Head(code).t
    <3>3. d \in Nat /\ device' = IF cpu' = cpu THEN Exec(device, d, a)
                                 ELSE Exec(Exec(device, d, a), 0, a)
      BY <3>1, <3>2
    <3> HIDE DEF d
    <3> QED BY <1>2, <1>3, <3>3
  <2>3. CASE Needs \/ Untils \/ Acks \/ Edges \/ Samples
    <3>1. PICK a \in Answers : device' = Exec(device, 1, a)
      BY <2>3 DEF Needs, Untils, Acks, Edges, Samples, Looks
    <3>2. 1 \in Nat
      OBVIOUS
    <3> QED BY <1>2, <3>1, <3>2
  <2>4. CASE Reads
    <3> DEFINE e == [byte |-> input, last |-> eoi]
    <3>1. e \in Entries /\ device' = [device EXCEPT !.got = Append(@, e)]
      BY <2>4 DEF Reads, TypeOK, Entries
    <3> HIDE DEF e
    <3>2. device.got \in Seq(Entries) /\ Shape(device)
      BY <1>1 DEF Typed
    <3>3. Append(device.got, e) \in Seq(Entries)
      BY <3>1, <3>2
    <3>4. device' \in Devices
      BY <3>1, <3>3 DEF TypeOK, Devices
    <3>5. /\ device'.mode = device.mode /\ device'.file = device.file
          /\ device'.pos = device.pos /\ device'.isopen = device.isopen
          /\ device'.enabled = device.enabled
      BY <3>1, <3>2 DEF Shape, Fields
    <3>6. Typed(device')
      BY <3>4, TypedIs
    <3> QED BY <3>5, <3>6 DEF Fine, Reads1
  <2> QED BY <2>1, <2>2, <2>3, <2>4 DEF Kernal
<1>5. Typed(device') /\ Reads1(device') /\ device'.enabled = device.enabled
  BY <1>1, <1>4 DEF Fine
<1> QED BY <1>5, TypedIs

LEMMA CpuFine ==
    ASSUME TypeOK, Kernal
    PROVE  \E x, y, z \in BOOLEAN : cpu' = Lines(x, y, z)
<1>1. PICK a \in BOOLEAN, c \in BOOLEAN, d \in BOOLEAN : cpu = Lines(a, c, d)
  BY DEF TypeOK
<1>2. CASE Stores
  <2>1. Head(code).lines \in LineSets
    BY <1>2, AtIs, AccessIs DEF Stores
  <2> DEFINE l == Head(code).lines
             s == DOMAIN l
             v(k, w) == IF k \in s THEN l[k] ELSE w
  <2>2. cpu' = [k \in DOMAIN cpu |-> IF k \in s THEN l[k] ELSE cpu[k]]
    BY <1>2 DEF Stores
  <2>3. \A k \in s : l[k] \in BOOLEAN
    BY <2>1 DEF LineSets
  <2> HIDE DEF l, s
  <2>4. cpu' = Lines(v("atn", a), v("clk", c), v("data", d))
    BY <1>1, <2>2 DEF Lines
  <2>5. v("atn", a) \in BOOLEAN /\ v("clk", c) \in BOOLEAN /\ v("data", d) \in BOOLEAN
    BY <2>3
  <2> HIDE DEF v
  <2> QED BY <2>4, <2>5
<1>3. CASE ~ Stores
  <2>1. cpu' = cpu
    BY <1>3 DEF Kernal, Call, Needs, Untils, Acks, Edges, Samples, Reads, Looks
  <2> QED BY <1>1, <2>1
<1> QED BY <1>2, <1>3

LEMMA CodeFine ==
    ASSUME TypeOK, Kernal
    PROVE  CodeOK'
<1>1. Finish \in Seq(Accesses) /\ LetGo \in Seq(Accesses) /\ << >> \in Seq(Accesses)
  BY FinishFine, PlainIs
<1>2. CASE Call
  <2>1. Head(calls) \in AllCalls /\ code' = Routine(Head(calls))
    BY <1>2, HeadTailProperties DEF Call, TypeOK
  <2> QED BY <2>1, RoutineFine DEF CodeOK
<1>3. CASE Stores
  <2>1. code' = Tail(code) /\ Tail(code) \in Seq(Accesses)
    BY <1>3, AtIs DEF Stores
  <2> QED BY <2>1 DEF CodeOK
<1>4. CASE Needs
  <2>1. code' = Tail(code) \/ code' = Finish
    BY <1>4 DEF Needs, Fails, Finish
  <2>2. Tail(code) \in Seq(Accesses)
    BY <1>4, AtIs DEF Needs
  <2> QED BY <1>1, <2>1, <2>2 DEF CodeOK
<1>5. ASSUME At("until") \/ At("sample"), code' = Tail(code) \/ code' = Again
      PROVE  CodeOK'
  <2> DEFINE x == [Head(code) EXCEPT !.odd = ~ @]
             s == <<x>> \o Tail(code)
  <2>1. x \in Accesses
    BY <1>5, AtIs, AccessIs
  <2>2. Tail(code) \in Seq(Accesses) /\ s \in Seq(Accesses)
    BY <1>5, <2>1, AtIs
  <2>3. code' \in {Tail(code), s, code}
    BY <1>5 DEF Again
  <2> HIDE DEF s
  <2> QED BY <2>2, <2>3 DEF CodeOK, TypeOK
<1>6. CASE Untils
  BY <1>5, <1>6 DEF Untils
<1>7. CASE Samples
  <2>1. code' = Tail(code) \/ code' = Again
    BY <1>7 DEF Samples
  <2> QED BY <1>5, <1>7, <2>1 DEF Samples
<1>8. ASSUME At("ack") \/ At("edge"), Head(code).t > 1, code' = LessTime
      PROVE  CodeOK'
  <2> DEFINE x == [Head(code) EXCEPT !.t = @ - 1]
  <2>1. x \in Accesses
    BY <1>8, AtIs, AccessIs
  <2>2. code' = <<x>> \o Tail(code)
    BY <1>8 DEF LessTime
  <2> HIDE DEF x
  <2> QED BY <1>8, <2>1, <2>2, AtIs DEF CodeOK
<1>9. CASE Acks
  <2>1. \/ code' = Tail(code)
        \/ Head(code).t > 1 /\ code' = LessTime
        \/ code' = Finish
    BY <1>9 DEF Acks, Fails, Finish
  <2>2. At("ack")
    BY <1>9 DEF Acks
  <2>3. Tail(code) \in Seq(Accesses)
    BY <2>2, AtIs
  <2>4. CASE code' = Tail(code)
    BY <2>3, <2>4 DEF CodeOK
  <2>5. CASE code' = Finish
    BY <1>1, <2>5 DEF CodeOK
  <2> QED BY <1>8, <2>1, <2>2, <2>4, <2>5
<1>10. CASE Edges
  <2> DEFINE e == FirstEdge(TRUE)
             f == <<DataLo, ClkHi, DataHi, e>>
  <2>1. \/ code' = Tail(code)
        \/ Head(code).t > 1 /\ code' = LessTime
        \/ code' = f \o Tail(code)
        \/ code' = Finish
    BY <1>10 DEF Edges, Fails, Finish
  <2>2. At("edge")
    BY <1>10 DEF Edges
  <2>3. Tail(code) \in Seq(Accesses)
    BY <2>2, AtIs
  <2>4. e \in Accesses /\ DataLo \in Accesses /\ ClkHi \in Accesses /\ DataHi \in Accesses
    BY AccessesAre, StoresFine, PlainIs
  <2> HIDE DEF e
  <2>5. f \in Seq(Accesses)
    BY <2>4
  <2> HIDE DEF f
  <2>6. f \o Tail(code) \in Seq(Accesses)
    BY <2>3, <2>5, ConcatProperties
  <2>7. CASE code' = f \o Tail(code)
    BY <2>6, <2>7 DEF CodeOK
  <2>8. CASE code' = Tail(code)
    BY <2>3, <2>8 DEF CodeOK
  <2>9. CASE code' = Finish
    BY <1>1, <2>9 DEF CodeOK
  <2> QED BY <1>8, <2>1, <2>2, <2>7, <2>8, <2>9
<1>11. CASE Reads
  <2>1. code' = LetGo \/ code' = << >>
    BY <1>11 DEF Reads
  <2> QED BY <1>1, <2>1 DEF CodeOK
<1> QED BY <1>2, <1>3, <1>4, <1>6, <1>7, <1>9, <1>10, <1>11 DEF Kernal

LEMMA CallsFine ==
    ASSUME TypeOK, Kernal
    PROVE  calls' \in Seq(AllCalls)
<1>1. calls \in Seq(AllCalls) /\ << >> \in Seq(AllCalls)
  BY DEF TypeOK
<1>2. Acptr \in AllCalls
  BY BytesAre DEF Acptr, CallOf, AllCalls
<1>3. CASE Call
  BY <1>1, <1>3, HeadTailProperties DEF Call
<1>4. CASE Reads
  <2>1. calls' = calls \/ calls' = <<Acptr>> \o calls
    BY <1>4 DEF Reads, Acptr
  <2>2. <<Acptr>> \in Seq(AllCalls)
    BY <1>2
  <2>3. <<Acptr>> \o calls \in Seq(AllCalls)
    BY <1>1, <2>2, ConcatProperties
  <2> QED BY <1>1, <2>1, <2>3
<1>5. CASE Stores \/ Needs \/ Untils \/ Acks \/ Edges \/ Samples
  <2>1. calls' = calls \/ calls' = << >>
    BY <1>5 DEF Stores, Needs, Untils, Acks, Edges, Samples, Fails
  <2> QED BY <1>1, <2>1
<1> QED BY <1>3, <1>4, <1>5 DEF Kernal

LEMMA RestFine ==
    ASSUME TypeOK, Kernal
    PROVE  /\ eoi' \in BOOLEAN /\ input' \in Byte /\ sent' \in Seq(Byte)
           /\ held' \in BOOLEAN /\ meddled' \in BOOLEAN
<1>1. /\ eoi \in BOOLEAN /\ input \in Byte /\ sent \in Seq(Byte)
      /\ held \in BOOLEAN /\ meddled \in BOOLEAN
  BY DEF TypeOK
<1>2. eoi' \in BOOLEAN
  <2>1. eoi' = eoi \/ eoi' = TRUE
    BY DEF Kernal, Call, Stores, Needs, Untils, Acks, Edges, Samples, Reads, Fails
  <2> QED BY <1>1, <2>1
<1>3. input' \in Byte
  <2>1. CASE Samples
    <3>1. Head(code).bit \in 0 .. Bits - 1
      BY <2>1, AtIs, AccessIs DEF Samples
    <3>2. input' = input \/ input' = WithBit(input, Head(code).bit, Bus'.data)
      BY <2>1 DEF Samples
    <3> QED BY <1>1, <3>1, <3>2, WithBitIs
  <2>2. CASE ~ Samples
    <3>1. input' = input \/ input' = {}
      BY <2>2 DEF Kernal, Call, Stores, Needs, Untils, Acks, Edges, Reads, Fails
    <3> QED BY <1>1, <3>1 DEF Byte
  <2> QED BY <2>1, <2>2
<1>4. sent' \in Seq(Byte)
  <2>1. CASE Acks
    <3>1. Head(code).byte \in Byte
      BY <2>1, AtIs, AccessIs DEF Acks
    <3>2. sent' = sent \/ sent' = Append(sent, Head(code).byte)
      BY <2>1 DEF Acks, Fails
    <3> QED BY <1>1, <3>1, <3>2
  <2>2. CASE ~ Acks
    <3>1. sent' = sent
      BY <2>2 DEF Kernal, Call, Stores, Needs, Untils, Edges, Samples, Reads, Fails
    <3> QED BY <1>1, <3>1
  <2> QED BY <2>1, <2>2
<1>5. held' \in BOOLEAN
  <2>1. held' = held \/ held' \in BOOLEAN
    BY <1>1 DEF Kernal, Call, Stores, Needs, Untils, Acks, Edges, Samples, Reads, Looks
  <2> QED BY <1>1, <2>1
<1>6. meddled' = meddled
  BY ZenonT(40) DEF Kernal, Call, Stores, Needs, Untils, Acks, Edges, Samples, Reads, Looks
<1> QED BY <1>1, <1>2, <1>3, <1>4, <1>5, <1>6

LEMMA TypeKernal ==
    ASSUME TypeOK, Kernal
    PROVE  TypeOK'
BY DeviceFine, CpuFine, CodeFine, CallsFine, RestFine DEF TypeOK

(* The Kernal, whatever the device does.                                    *)
LEMMA PlainAccess ==
    ASSUME NEW x \in Plain
    PROVE  /\ x \in Accesses /\ x.do # "read"
           /\ x.do \in {"until", "sample"} => [x EXCEPT !.odd = ~ @] \in Plain
           /\ x.do \in {"ack", "edge"} /\ x.t > 1 => [x EXCEPT !.t = @ - 1] \in Plain
<1>1. x \in Accesses
  BY PlainIs
<1>2. x.do # "read"
  BY DEF Plain
<1>3. \A y \in Accesses : y.do # "read" => y \in Plain
  BY DEF Accesses
<1>4. ASSUME x.do \in {"until", "sample"}
      PROVE  [x EXCEPT !.odd = ~ @] \in Plain
  <2>1. [x EXCEPT !.odd = ~ @] \in Accesses
    BY <1>1, <1>4, AccessIs
  <2>2. [x EXCEPT !.odd = ~ @].do # "read"
    BY <1>4 DEF Plain
  <2> QED BY <1>3, <2>1, <2>2
<1>5. ASSUME x.do \in {"ack", "edge"}, x.t > 1
      PROVE  [x EXCEPT !.t = @ - 1] \in Plain
  <2>1. [x EXCEPT !.t = @ - 1] \in Accesses
    BY <1>1, <1>5, AccessIs
  <2>2. [x EXCEPT !.t = @ - 1].do # "read"
    BY <1>5 DEF Plain
  <2> QED BY <1>3, <2>1, <2>2
<1> QED BY <1>1, <1>2, <1>4, <1>5

LEMMA PlainAt ==
    ASSUME ReadsNothing, NEW do, At(do)
    PROVE  /\ Head(code) \in Plain /\ Tail(code) \in Seq(Plain) /\ do # "read"
           /\ Head(code).do = do
           /\ \A x \in Plain : <<x>> \o Tail(code) \in Seq(Plain)
<1>1. code \in Seq(Plain) /\ code # << >> /\ Head(code).do = do
  BY DEF ReadsNothing, At
<1>2. Head(code) \in Plain /\ Tail(code) \in Seq(Plain)
  BY <1>1, HeadTailProperties
<1>3. \A x \in Plain : <<x>> \in Seq(Plain)
  OBVIOUS
<1>4. do # "read"
  BY <1>1, <1>2, PlainAccess
<1> QED BY <1>1, <1>2, <1>3, <1>4, ConcatProperties

\* No access of a routine that hands nothing over leads to one that does.
LEMMA PlainNext ==
    ASSUME ReadsNothing, Kernal, code # << >>
    PROVE  ReadsNothing'
<1>1. Finish \in Seq(Plain)
  BY FinishFine
<1>3. CASE Stores
  <2>1. code' = Tail(code) /\ Tail(code) \in Seq(Plain)
    BY <1>3, PlainAt DEF Stores
  <2> QED BY <2>1 DEF ReadsNothing
<1>4. CASE Needs
  <2>1. code' = Tail(code) \/ code' = Finish
    BY <1>4 DEF Needs, Fails, Finish
  <2>2. Tail(code) \in Seq(Plain)
    BY <1>4, PlainAt DEF Needs
  <2> QED BY <1>1, <2>1, <2>2 DEF ReadsNothing
<1>5. ASSUME At("until") \/ At("sample"), code' = Tail(code) \/ code' = Again
      PROVE  ReadsNothing'
  <2> DEFINE x == [Head(code) EXCEPT !.odd = ~ @]
             s == <<x>> \o Tail(code)
  <2>1. x \in Plain
    BY <1>5, PlainAt, PlainAccess
  <2>2. Tail(code) \in Seq(Plain) /\ s \in Seq(Plain)
    BY <1>5, <2>1, PlainAt
  <2>3. code' \in {Tail(code), s, code}
    BY <1>5 DEF Again
  <2> HIDE DEF s
  <2> QED BY <2>2, <2>3 DEF ReadsNothing
<1>6. CASE Untils
  BY <1>5, <1>6 DEF Untils
<1>7. CASE Samples
  <2>1. code' = Tail(code) \/ code' = Again
    BY <1>7 DEF Samples
  <2> QED BY <1>5, <1>7, <2>1 DEF Samples
<1>8. ASSUME At("ack") \/ At("edge"), Head(code).t > 1, code' = LessTime
      PROVE  ReadsNothing'
  <2> DEFINE x == [Head(code) EXCEPT !.t = @ - 1]
  <2>1. x \in Plain
    BY <1>8, PlainAt, PlainAccess
  <2>2. code' = <<x>> \o Tail(code)
    BY <1>8 DEF LessTime
  <2> HIDE DEF x
  <2> QED BY <1>8, <2>1, <2>2, PlainAt DEF ReadsNothing
<1>9. CASE Acks
  <2>1. \/ code' = Tail(code)
        \/ Head(code).t > 1 /\ code' = LessTime
        \/ code' = Finish
    BY <1>9 DEF Acks, Fails, Finish
  <2>2. At("ack")
    BY <1>9 DEF Acks
  <2>3. Tail(code) \in Seq(Plain)
    BY <2>2, PlainAt
  <2>4. CASE code' = Tail(code)
    BY <2>3, <2>4 DEF ReadsNothing
  <2>5. CASE code' = Finish
    BY <1>1, <2>5 DEF ReadsNothing
  <2> QED BY <1>8, <2>1, <2>2, <2>4, <2>5
<1>10. CASE Edges
  <2> DEFINE e == FirstEdge(TRUE)
             f == <<DataLo, ClkHi, DataHi, e>>
  <2>1. \/ code' = Tail(code)
        \/ Head(code).t > 1 /\ code' = LessTime
        \/ code' = f \o Tail(code)
        \/ code' = Finish
    BY <1>10 DEF Edges, Fails, Finish
  <2>2. At("edge")
    BY <1>10 DEF Edges
  <2>3. Tail(code) \in Seq(Plain)
    BY <2>2, PlainAt
  <2>4. e \in Plain /\ DataLo \in Plain /\ ClkHi \in Plain /\ DataHi \in Plain
    BY AccessesAre, StoresFine
  <2> HIDE DEF e
  <2>5. f \in Seq(Plain)
    BY <2>4
  <2> HIDE DEF f
  <2>6. f \o Tail(code) \in Seq(Plain)
    BY <2>3, <2>5, ConcatProperties
  <2>7. CASE code' = f \o Tail(code)
    BY <2>6, <2>7 DEF ReadsNothing
  <2>8. CASE code' = Tail(code)
    BY <2>3, <2>8 DEF ReadsNothing
  <2>9. CASE code' = Finish
    BY <1>1, <2>9 DEF ReadsNothing
  <2> QED BY <1>8, <2>1, <2>2, <2>7, <2>8, <2>9
<1>11. ~ Reads /\ ~ Call
  BY PlainAt DEF Reads, Call
<1> QED BY <1>3, <1>4, <1>6, <1>7, <1>9, <1>10, <1>11 DEF Kernal

\* Where a byte is handed over, and where it is not.
LEMMA HandsOverIs ==
    /\ FromRead \notin Seq(Plain) /\ FromReadDataLo \notin Seq(Plain)
    /\ \A c \in Seq(Plain) : c \notin HandsOver
    /\ << >> \notin HandsOver
<1>1. Is(FromRead, ByteRead, << >>) /\ Is(FromReadDataLo, DataLo, FromRead)
  BY FromReadIs
<1>2. ByteRead \notin Plain
  BY PlainAccess DEF ByteRead
<1>3. FromRead \notin Seq(Plain)
  BY <1>1, <1>2, HeadTailProperties DEF Is
<1>4. FromReadDataLo \notin Seq(Plain)
  BY <1>1, <1>3, HeadTailProperties DEF Is
<1>5. << >> \notin HandsOver
  BY <1>1 DEF Is, HandsOver
<1> QED BY <1>3, <1>4, <1>5 DEF HandsOver

LEMMA NotOver ==
    ASSUME NEW c, NEW x, NEW s, Is(c, x, s), x # ByteRead,
           x = DataLo => s # << >> /\ Head(s) # ByteRead
    PROVE  c \notin HandsOver
<1>1. Is(FromRead, ByteRead, << >>) /\ Is(FromReadDataLo, DataLo, FromRead)
  BY FromReadIs
<1>2. c # FromRead
  BY <1>1 DEF Is
<1>3. ASSUME c = FromReadDataLo
      PROVE  FALSE
  <2>1. x = DataLo /\ s = FromRead
    BY <1>1, <1>3 DEF Is
  <2> QED BY <1>1, <2>1 DEF Is
<1> QED BY <1>2, <1>3 DEF HandsOver

LEMMA DoesDiffer ==
    /\ ByteRead.do = "read" /\ DataLo.do = "store" /\ DataHi.do = "store"
    /\ ClkHi.do = "store" /\ ClkLo.do = "store" /\ AtnHi.do = "store" /\ AtnLo.do = "store"
    /\ \A l, v, o : Waits(l, v, o).do = "until"
    /\ \A i, o : Tries(i, o).do = "sample"
    /\ \A a, t : Edge(a, t).do = "edge"
    /\ \A v : Need(v).do = "need"
    /\ \A m, t : Answer(m, t).do = "ack"
    /\ \A l, t : StoreOf(l, t).do = "store"
    /\ \A l : Store(l).do = "store" /\ Pause(l).do = "store"
    /\ DataLo # DataHi /\ DataLo # ClkHi /\ ClkHi # ByteRead
<1>1. DataLo # DataHi
  <2>1. [data |-> TRUE].data = TRUE /\ [data |-> FALSE].data = FALSE
    OBVIOUS
  <2>2. DataLo.lines = [data |-> FALSE] /\ DataHi.lines = [data |-> TRUE]
    BY DEF DataLo, DataHi, Store
  <2> QED BY <2>1, <2>2
<1>2. DataLo # ClkHi
  <2>1. DOMAIN [data |-> FALSE] = {"data"} /\ DOMAIN [clk |-> TRUE] = {"clk"}
    OBVIOUS
  <2>2. DataLo.lines = [data |-> FALSE] /\ ClkHi.lines = [clk |-> TRUE]
    BY DEF DataLo, ClkHi, Store
  <2>3. {"data"} # {"clk"}
    OBVIOUS
  <2> QED BY <2>1, <2>2, <2>3
<1>3. ByteRead.do = "read" /\ ClkHi.do = "store"
  BY DEF ByteRead, ClkHi, Store
<1>4. /\ DataLo.do = "store" /\ DataHi.do = "store"
      /\ ClkLo.do = "store" /\ AtnHi.do = "store" /\ AtnLo.do = "store"
  BY DEF DataLo, DataHi, ClkLo, AtnHi, AtnLo, Store
<1> QED BY <1>1, <1>2, <1>3, <1>4 DEF Waits, Tries, Edge, Need, Answer, StoreOf, Store, Pause

LEMMA StillReadsOn ==
    ASSUME NEW c, StillReads(c)
    PROVE  c \notin HandsOver
<1>1. CASE \E o \in BOOLEAN : c = FromTalkerReady(o)
  <2>1. PICK o \in BOOLEAN : c = FromTalkerReady(o)
    BY <1>1
  <2>2. Is(c, Waits("clk", TRUE, o), FromReadDataHi(FALSE))
    BY <2>1, FromReadIs
  <2>3. Waits("clk", TRUE, o) # ByteRead /\ Waits("clk", TRUE, o) # DataLo
    BY DoesDiffer
  <2> QED BY <2>2, <2>3, NotOver
<1>2. CASE \E o \in BOOLEAN : c = FromReadDataHi(o)
  <2>1. PICK o \in BOOLEAN : c = FromReadDataHi(o)
    BY <1>2
  <2>2. Is(c, DataHi, FromEdge(o, EoiWait))
    BY <2>1, FromReadIs
  <2>3. DataHi # ByteRead /\ DataHi # DataLo
    BY DoesDiffer
  <2> QED BY <2>2, <2>3, NotOver
<1>3. CASE \E again \in BOOLEAN, t \in 1 .. EoiWait : c = FromEdge(again, t)
  <2>1. PICK again \in BOOLEAN, t \in 1 .. EoiWait : c = FromEdge(again, t)
    BY <1>3
  <2>2. Is(c, Edge(again, t), FromReadBit(0))
    BY <2>1, FromReadIs
  <2>3. Edge(again, t) # ByteRead /\ Edge(again, t) # DataLo
    BY DoesDiffer
  <2> QED BY <2>2, <2>3, NotOver
<1>4. CASE c = FromEoi
  <2>1. Is(c, DataLo, FromEoiClkHi) /\ Is(FromEoiClkHi, ClkHi, FromReadDataHi(TRUE))
    BY <1>4, FromReadIs
  <2>2. FromEoiClkHi # << >> /\ Head(FromEoiClkHi) # ByteRead /\ DataLo # ByteRead
    BY <2>1, DoesDiffer DEF Is
  <2> QED BY <2>1, <2>2, NotOver
<1>5. CASE c = FromEoiClkHi
  <2>1. Is(c, ClkHi, FromReadDataHi(TRUE)) /\ ClkHi # ByteRead /\ ClkHi # DataLo
    BY <1>5, FromReadIs, DoesDiffer
  <2> QED BY <2>1, NotOver
<1>6. CASE \E i \in 0 .. Bits - 1, o \in BOOLEAN : c = FromSample(i, o)
  <2>1. PICK i \in 0 .. Bits - 1, o \in BOOLEAN : c = FromSample(i, o)
    BY <1>6
  <2>2. Is(c, Tries(i, o), FromEdgeEnd(i, FALSE))
    BY <2>1, FromReadBitIs
  <2>3. Tries(i, o) # ByteRead /\ Tries(i, o) # DataLo
    BY DoesDiffer
  <2> QED BY <2>2, <2>3, NotOver
<1>7. CASE \E i \in 0 .. Bits - 1, o \in BOOLEAN : c = FromEdgeEnd(i, o)
  <2>1. PICK i \in 0 .. Bits - 1, o \in BOOLEAN : c = FromEdgeEnd(i, o)
    BY <1>7
  <2>2. Is(c, Waits("clk", FALSE, o), FromReadBit(i + 1))
    BY <2>1, FromReadBitIs
  <2>3. Waits("clk", FALSE, o) # ByteRead /\ Waits("clk", FALSE, o) # DataLo
    BY DoesDiffer
  <2> QED BY <2>2, <2>3, NotOver
<1> QED BY <1>1, <1>2, <1>3, <1>4, <1>5, <1>6, <1>7 DEF StillReads

LEMMA CpuIs ==
    ASSUME TypeOK
    PROVE  \E a, c, d \in BOOLEAN : cpu = Lines(a, c, d) /\ cpu.clk = c /\ cpu.atn = a /\ cpu.data = d
BY LinesHigh DEF TypeOK

Reads2 ==
    \/ ReadsNothing'
    \/ StillReads(code')
    \/ code' = FromReadDataLo /\ cpu' = cpu /\ Bus'.clk = FALSE
\* A byte is being read: the Kernal goes on with it or gives up, and gets to the
\* end only when the clock line falls.
LEMMA StillNext ==
    ASSUME TypeOK, cpu.clk, StillReads(code), Kernal
    PROVE  cpu'.clk /\ calls' = calls /\ Reads2
<1>1. PICK a \in BOOLEAN, c \in BOOLEAN, d \in BOOLEAN :
          cpu = Lines(a, c, d) /\ cpu.clk = c /\ cpu.atn = a /\ cpu.data = d
  BY CpuIs
<1>2. c = TRUE
  BY <1>1
<1>l. cpu = Lines(a, c, d)
  BY <1>1
<1>3. ASSUME NEW o \in BOOLEAN, code = FromTalkerReady(o)
      PROVE  cpu' = cpu /\ calls' = calls /\ Reads2
  <2>1. Is(code, Waits("clk", TRUE, o), FromReadDataHi(FALSE))
    BY <1>3, FromReadIs
  <2>4. /\ cpu' = cpu /\ calls' = calls
        /\ IF Bus'["clk"] = TRUE THEN code' = FromReadDataHi(FALSE)
           ELSE \E p \in {o, ~ o} : code' = StillWaits("clk", TRUE, p, FromReadDataHi(FALSE))
    <3>1. LooksFor("clk", TRUE, o, FromReadDataHi(FALSE))
      BY <2>1, UntilMoves
    <3> QED BY <3>1 DEF LooksFor
  <2>2. /\ cpu' = cpu /\ calls' = calls
        /\ \/ code' = FromReadDataHi(FALSE)
           \/ \E p \in {o, ~ o} : code' = FromTalkerReady(p)
    BY <2>4 DEF FromTalkerReady, StillWaits
  <2>3. FALSE \in BOOLEAN /\ {o, ~ o} \subseteq BOOLEAN
    OBVIOUS
  <2> QED BY <2>2, <2>3 DEF Reads2, StillReads
<1>4. ASSUME NEW o \in BOOLEAN, code = FromReadDataHi(o)
      PROVE  cpu'.clk /\ calls' = calls /\ Reads2
  <2>1. Is(code, StoreOf([data |-> TRUE], 0), FromEdge(o, EoiWait))
    BY <1>4, FromReadIs, StoreIs
  <2>a. cpu' = Lines(a, c, TRUE) /\ code' = FromEdge(o, EoiWait) /\ Rests /\ Accessed
    BY <1>l, <2>1, DataGoes
  <2>2. cpu' = Lines(a, c, TRUE) /\ code' = FromEdge(o, EoiWait) /\ calls' = calls
    BY <2>a DEF Rests
  <2>3. EoiWait \in 1 .. EoiWait
    BY TimesAre
  <2>4. cpu'.clk
    BY <1>2, <2>2, LinesAre
  <2> QED BY <2>2, <2>3, <2>4 DEF Reads2, StillReads
<1>5. ASSUME NEW again \in BOOLEAN, NEW t \in 1 .. EoiWait, code = FromEdge(again, t)
      PROVE  cpu' = cpu /\ calls' = calls /\ Reads2
  <2>1. Is(code, Edge(again, t), FromReadBit(0))
    BY <1>5, FromReadIs
  <2> DEFINE less == <<Edge(again, t - 1)>> \o FromReadBit(0)
             end == <<DataLo, ClkHi, DataHi, FirstEdge(TRUE)>> \o FromReadBit(0)
  <2>8. /\ cpu' = cpu /\ calls' = calls
        /\ \/ code' = FromReadBit(0)
           \/ t > 1 /\ code' = less
           \/ code' = end
           \/ code' = Finish
    BY <2>1, EdgeMoves
  <2>9. less = FromEdge(again, t - 1)
    BY DEF FromEdge
  <2>10. end = FromEoi
    BY FromEoiIs
  <2> HIDE DEF less, end
  <2>2. /\ cpu' = cpu /\ calls' = calls
        /\ \/ code' = FromReadBit(0)
           \/ t > 1 /\ code' = FromEdge(again, t - 1)
           \/ code' = FromEoi
           \/ code' = Finish
    BY <2>8, <2>9, <2>10
  <2>3. FromReadBit(0) = FromSample(0, FALSE) /\ 0 \in 0 .. Bits - 1 /\ FALSE \in BOOLEAN
    <3>1. 0 \in 0 .. Bits - 1
      BY BitsAssumption
    <3> QED BY <3>1, FromReadBitIs
  <2>4. CASE code' = FromReadBit(0)
    BY <2>2, <2>3, <2>4 DEF Reads2, StillReads
  <2>5. CASE t > 1 /\ code' = FromEdge(again, t - 1)
    <3>1. t - 1 \in 1 .. EoiWait
      BY <2>5, TimesAre
    <3> QED BY <2>2, <2>5, <3>1 DEF Reads2, StillReads
  <2>6. CASE code' = FromEoi
    BY <2>2, <2>6 DEF Reads2, StillReads
  <2>7. CASE code' = Finish
    <3>1. ReadsNothing'
      BY <2>7, FinishFine DEF ReadsNothing
    <3> QED BY <2>2, <3>1 DEF Reads2
  <2> QED BY <2>2, <2>4, <2>5, <2>6, <2>7
<1>6. ASSUME code = FromEoi
      PROVE  cpu'.clk /\ calls' = calls /\ Reads2
  <2>1. Is(code, StoreOf([data |-> FALSE], 0), FromEoiClkHi)
    BY <1>6, FromReadIs, StoreIs
  <2>a. cpu' = Lines(a, c, FALSE) /\ code' = FromEoiClkHi /\ Rests /\ Accessed
    BY <1>l, <2>1, DataGoes, ZenonT(40)
  <2>2. cpu' = Lines(a, c, FALSE) /\ code' = FromEoiClkHi /\ calls' = calls
    BY <2>a DEF Rests
  <2>3. cpu'.clk
    BY <1>2, <2>2, LinesAre
  <2> QED BY <2>2, <2>3 DEF Reads2, StillReads
<1>7. ASSUME code = FromEoiClkHi
      PROVE  cpu'.clk /\ calls' = calls /\ Reads2
  <2>1. Is(code, StoreOf([clk |-> TRUE], 0), FromReadDataHi(TRUE))
    BY <1>7, FromReadIs, StoreIs
  <2>a. cpu' = Lines(a, TRUE, d) /\ code' = FromReadDataHi(TRUE) /\ Rests /\ Accessed
    BY <1>l, <2>1, ClkGoes
  <2>2. cpu' = Lines(a, TRUE, d) /\ code' = FromReadDataHi(TRUE) /\ calls' = calls
    BY <2>a DEF Rests
  <2>3. cpu'.clk
    BY <2>2, LinesAre
  <2> QED BY <2>2, <2>3 DEF Reads2, StillReads
<1>8. ASSUME NEW i \in 0 .. Bits - 1, NEW o \in BOOLEAN, code = FromSample(i, o)
      PROVE  cpu' = cpu /\ calls' = calls /\ Reads2
  <2>1. Is(code, Tries(i, o), FromEdgeEnd(i, FALSE))
    BY <1>8, FromReadBitIs
  <2>4. /\ cpu' = cpu /\ calls' = calls
        /\ \/ code' = FromEdgeEnd(i, FALSE)
           \/ \E p \in {o, ~ o} : code' = <<Tries(i, p)>> \o FromEdgeEnd(i, FALSE)
    BY <2>1, SampleMoves
  <2>2. /\ cpu' = cpu /\ calls' = calls
        /\ \/ code' = FromEdgeEnd(i, FALSE)
           \/ \E p \in {o, ~ o} : code' = FromSample(i, p)
    BY <2>4 DEF FromSample
  <2>3. FALSE \in BOOLEAN /\ {o, ~ o} \subseteq BOOLEAN
    OBVIOUS
  <2> QED BY <2>2, <2>3 DEF Reads2, StillReads
<1>9. ASSUME NEW i \in 0 .. Bits - 1, NEW o \in BOOLEAN, code = FromEdgeEnd(i, o)
      PROVE  cpu' = cpu /\ calls' = calls /\ Reads2
  <2>1. Is(code, Waits("clk", FALSE, o), FromReadBit(i + 1))
    BY <1>9, FromReadBitIs
  <2>6. /\ Looked /\ UNCHANGED <<cpu, meddled, calls, eoi, input, sent>>
        /\ IF Bus'["clk"] = FALSE THEN code' = FromReadBit(i + 1)
           ELSE \E p \in {o, ~ o} : code' = StillWaits("clk", FALSE, p, FromReadBit(i + 1))
    <3>1. LooksFor("clk", FALSE, o, FromReadBit(i + 1))
      BY <2>1, UntilMoves
    <3> QED BY <3>1 DEF LooksFor
  <2>7. \A p : StillWaits("clk", FALSE, p, FromReadBit(i + 1)) = FromEdgeEnd(i, p)
    BY DEF FromEdgeEnd, StillWaits
  <2>2. /\ cpu' = cpu /\ calls' = calls
        /\ \/ code' = FromReadBit(i + 1) /\ Bus'.clk = FALSE
           \/ \E p \in {o, ~ o} : code' = FromEdgeEnd(i, p)
    BY <2>6, <2>7
  <2>3. {o, ~ o} \subseteq BOOLEAN
    OBVIOUS
  <2>4. CASE code' = FromReadBit(i + 1) /\ Bus'.clk = FALSE
    <3>1. CASE i = Bits - 1
      <4>1. code' = FromReadDataLo
        <5>1. i + 1 = Bits
          BY <3>1, BitsAssumption
        <5> QED BY <2>4, <5>1, FromReadBitsEnd
      <4> QED BY <2>2, <2>4, <4>1 DEF Reads2
    <3>2. CASE i # Bits - 1
      <4>1. i + 1 \in 0 .. Bits - 1
        BY <3>2, BitsAssumption
      <4>2. code' = FromSample(i + 1, FALSE) /\ FALSE \in BOOLEAN
        BY <2>4, <4>1, FromReadBitIs
      <4> QED BY <2>2, <4>1, <4>2 DEF Reads2, StillReads
    <3> QED BY <3>1, <3>2
  <2>5. CASE \E p \in {o, ~ o} : code' = FromEdgeEnd(i, p)
    BY <2>2, <2>3, <2>5 DEF Reads2, StillReads
  <2> QED BY <2>2, <2>4, <2>5
<1>10. ASSUME \E i \in 0 .. Bits - 1, o \in BOOLEAN : code \in {FromSample(i, o), FromEdgeEnd(i, o)}
       PROVE  cpu' = cpu /\ calls' = calls /\ Reads2
  BY <1>8, <1>9, <1>10
<1>11. ASSUME \E o \in BOOLEAN : code \in {FromTalkerReady(o), FromReadDataHi(o)}
       PROVE  cpu'.clk /\ calls' = calls /\ Reads2
  BY <1>3, <1>4, <1>11
<1>12. ASSUME \E again \in BOOLEAN, t \in 1 .. EoiWait : code = FromEdge(again, t)
       PROVE  cpu' = cpu /\ calls' = calls /\ Reads2
  BY <1>5, <1>12
<1> QED BY <1>6, <1>7, <1>10, <1>11, <1>12 DEF StillReads

\* A byte was read and is handed over.
LEMMA HandsNext ==
    ASSUME TypeOK, cpu.clk, code \in HandsOver, calls # << >>, Kernal
    PROVE  /\ calls' # << >>
           /\ \/ ReadsNothing' /\ code' \in {LetGo, << >>} /\ calls' \in {calls, <<Acptr>> \o calls}
              \/ code' = FromRead /\ cpu'.clk /\ code = FromReadDataLo /\ calls' = calls
<1>1. PICK a \in BOOLEAN, c \in BOOLEAN, d \in BOOLEAN : cpu = Lines(a, c, d) /\ cpu.clk = c
  BY CpuIs
<1>l. cpu = Lines(a, c, d) /\ c = TRUE
  BY <1>1
<1>2. CASE code = FromReadDataLo
  <2>1. Is(code, StoreOf([data |-> FALSE], 0), FromRead)
    BY <1>2, FromReadIs, StoreIs
  <2>2. cpu' = Lines(a, c, FALSE) /\ code' = FromRead /\ Rests /\ Accessed
    BY <1>l, <2>1, DataGoes
  <2>3. cpu'.clk
    BY <1>l, <2>2, LinesAre
  <2> QED BY <1>2, <2>2, <2>3 DEF Rests
<1>3. CASE code = FromRead
  <2>1. Is(code, ByteRead, << >>)
    BY <1>3, FromReadIs
  <2>2. /\ code' \in {LetGo, << >>}
        /\ calls' \in {calls, <<Acptr>> \o calls}
    BY <2>1, ReadMoves
  <2>3. <<Acptr>> \o calls # << >>
    <3>1. calls \in Seq(AllCalls)
      BY DEF TypeOK
    <3>2. IsSeries(calls)
      BY <3>1 DEF IsSeries
    <3> QED BY <3>2, IsStore DEF Is
  <2>4. ReadsNothing'
    <3>1. LetGo \in Seq(Plain) /\ << >> \in Seq(Plain)
      BY FinishFine
    <3> QED BY <2>2, <3>1 DEF ReadsNothing
  <2> QED BY <2>2, <2>3, <2>4
<1> QED BY <1>2, <1>3 DEF HandsOver

\* A routine is called.
LEMMA CallReads ==
    ASSUME TypeOK, LastLetsGo, code = << >>, Kernal
    PROVE  ReadsInv' /\ (ReadsNothing' \/ code' = FromReadClkHi)
<1>1. calls # << >> /\ code' = Routine(Head(calls)) /\ calls' = Tail(calls)
  BY CallMoves
<1>2. calls \in Seq(AllCalls) /\ Head(calls) \in AllCalls
  BY <1>1, HeadTailProperties DEF TypeOK
<1>3. CASE Head(calls).name # "ACPTR"
  <2>1. ReadsNothing'
    BY <1>1, <1>2, <1>3, RoutineFine DEF ReadsNothing
  <2> QED BY <2>1 DEF ReadsInv
<1>4. CASE Head(calls).name = "ACPTR"
  <2>1. code' = FromReadClkHi
    BY <1>1, <1>4, AcptrFrom DEF Routine
  <2>2. ASSUME Tail(calls) = << >>
        PROVE  FALSE
    <3>4. Len(Tail(calls)) = Len(calls) - 1 /\ Len(Tail(calls)) = 0 /\ Len(calls) \in Nat
      <4>1. Len(Tail(calls)) = Len(calls) - 1
        BY <1>1, <1>2, HeadTailProperties
      <4>2. Len(calls) \in Nat
        BY <1>2, LenProperties
      <4>3. Len(<< >>) = 0
        OBVIOUS
      <4> QED BY <2>2, <4>1, <4>2, <4>3
    <3>1. Len(calls) = 1 /\ calls[Len(calls)] = Head(calls)
      <4>1. Len(calls) = 1
        BY <3>4
      <4>2. Head(calls) = calls[1]
        BY <1>1, <1>2
      <4> QED BY <4>1, <4>2
    <3>2. Head(calls) \in {Unlisten, Untalk}
      BY <1>1, <3>1 DEF LastLetsGo
    <3>3. Unlisten.name = "command" /\ Untalk.name = "command"
      BY DEF Unlisten, Untalk, CallOf
    <3> QED BY <1>4, <3>2, <3>3
  <2> QED BY <1>1, <2>1, <2>2 DEF ReadsInv
<1> QED BY <1>3, <1>4

LEMMA ReadClkHiReads ==
    ASSUME TypeOK, code = FromReadClkHi, calls # << >>, Kernal
    PROVE  cpu'.clk /\ calls' = calls /\ StillReads(code')
<1>1. PICK a \in BOOLEAN, c \in BOOLEAN, d \in BOOLEAN : cpu = Lines(a, c, d) /\ cpu.clk = c
  BY CpuIs
<1>2. cpu = Lines(a, c, d)
  BY <1>1
<1>3. Is(code, StoreOf([clk |-> TRUE], 0), FromTalkerReady(FALSE))
  BY FromReadIs, StoreIs
<1>4. cpu' = Lines(a, TRUE, d) /\ code' = FromTalkerReady(FALSE) /\ Rests /\ Accessed
  BY <1>2, <1>3, ClkGoes
<1>5. cpu'.clk
  BY <1>4, LinesAre
<1> QED BY <1>4, <1>5 DEF Rests, StillReads

\* The Kernal reads only what it has called for, and gets to the end of it only
\* when the clock line falls.
LEMMA ReadsOnlyCalled ==
    ASSUME TypeOK, LastLetsGo, ReadsInv, Kernal
    PROVE  /\ ReadsInv'
           /\ code' \in HandsOver =>
                code \in HandsOver \/ (cpu.clk /\ cpu' = cpu /\ Bus'.clk = FALSE)
           /\ ~ ReadsNothing => calls' # << >> /\ calls' \in {calls, <<Acptr>> \o calls}
<1>1. ReadsNothing' => code' \notin HandsOver
  BY HandsOverIs DEF ReadsNothing
<1>2. CASE ReadsNothing /\ code # << >>
  <2>1. ReadsNothing'
    BY <1>2, PlainNext
  <2> QED BY <1>1, <1>2, <2>1 DEF ReadsInv
<1>3. CASE code = << >>
  <2>1. ReadsInv' /\ (ReadsNothing' \/ code' = FromReadClkHi)
    BY <1>3, CallReads
  <2>2. ReadsNothing
    BY <1>3 DEF ReadsNothing
  <2>3. FromReadClkHi \notin HandsOver
    <3>1. Is(FromReadClkHi, ClkHi, FromTalkerReady(FALSE)) /\ ClkHi # ByteRead /\ ClkHi # DataLo
      BY FromReadIs, DoesDiffer
    <3> QED BY <3>1, NotOver
  <2> QED BY <1>1, <2>1, <2>2, <2>3
<1>4. CASE calls # << >> /\ code = FromReadClkHi
  <2>1. cpu'.clk /\ calls' = calls /\ StillReads(code')
    BY <1>4, ReadClkHiReads
  <2>2. code' \notin HandsOver
    BY <2>1, StillReadsOn
  <2>3. ReadsInv'
    BY <1>4, <2>1 DEF ReadsInv, ReadsOn
  <2> QED BY <1>4, <2>1, <2>2, <2>3
<1>5. CASE calls # << >> /\ cpu.clk /\ StillReads(code)
  <2>1. cpu'.clk /\ calls' = calls /\ Reads2
    BY <1>5, StillNext
  <2>2. ReadsInv'
    BY <1>5, <2>1 DEF ReadsInv, ReadsOn, Reads2, HandsOver
  <2>3. code' \in HandsOver => cpu' = cpu /\ Bus'.clk = FALSE
    BY <1>1, <2>1, StillReadsOn DEF Reads2
  <2> QED BY <1>5, <2>1, <2>2, <2>3
<1>6. CASE calls # << >> /\ cpu.clk /\ code \in HandsOver
  <2>1. /\ calls' # << >>
        /\ \/ ReadsNothing' /\ code' \in {LetGo, << >>} /\ calls' \in {calls, <<Acptr>> \o calls}
           \/ code' = FromRead /\ cpu'.clk /\ code = FromReadDataLo /\ calls' = calls
    BY <1>6, HandsNext
  <2> DEFINE more == <<Acptr>> \o calls
  <2>2. calls' \in {calls, more}
    BY <2>1
  <2> HIDE DEF more
  <2>3. ReadsInv'
    BY <2>1 DEF ReadsInv, ReadsOn, HandsOver
  <2> QED BY <1>6, <2>1, <2>2, <2>3 DEF more
<1> QED BY <1>2, <1>3, <1>4, <1>5, <1>6 DEF ReadsInv, ReadsOn

(* How an operation ends.                                                   *)
LEMMA EndsJoined ==
    ASSUME NEW s, NEW t, IsSeries(s), IsSeries(t), EndsWith(t)
    PROVE  EndsWith(s \o t)
<1> DEFINE c == s \o t  m == Len(s)  n == Len(t)
<1>1. /\ m \in Nat /\ n \in Nat /\ Len(c) = m + n
      /\ \A k \in 1 .. n : c[m + k] = t[k]
  BY ConcatIs
<1>2. n >= 3 /\ t[n] = DataHi /\ t[n - 1] = Pause([clk |-> TRUE]) /\ t[n - 2] = AtnHi
  BY DEF EndsWith
<1> HIDE DEF c, m, n
<1>3. n \in 1 .. n /\ n - 1 \in 1 .. n /\ n - 2 \in 1 .. n
  BY <1>1, <1>2
<1>4. m + n >= 3 /\ m + (n - 1) = (m + n) - 1 /\ m + (n - 2) = (m + n) - 2
  BY <1>1, <1>2
<1>5. c[m + n] = t[n] /\ c[(m + n) - 1] = t[n - 1] /\ c[(m + n) - 2] = t[n - 2]
  BY <1>1, <1>3, <1>4
<1>6. EndsWith(c)
  BY <1>1, <1>2, <1>4, <1>5 DEF EndsWith
<1> QED BY <1>6 DEF c

LEMMA EndsTail ==
    ASSUME NEW S, NEW c \in Seq(S), EndsWith(c)
    PROVE  /\ c # << >> /\ Is(c, Head(c), Tail(c))
           /\ EndsWith(Tail(c)) \/ (Head(c) = AtnHi /\ Tail(c) = LetGo)
<1> DEFINE n == Len(c)  t == Tail(c)
<1>1. n \in Nat /\ n >= 3 /\ c # << >>
  BY LenProperties, EmptySeq DEF EndsWith
<1>2. /\ t \in Seq(S) /\ Len(t) = n - 1 /\ \A i \in 1 .. Len(t) : t[i] = c[i + 1]
      /\ Head(c) = c[1]
  BY <1>1, HeadTailProperties
<1>3. c[n] = DataHi /\ c[n - 1] = Pause([clk |-> TRUE]) /\ c[n - 2] = AtnHi
  BY DEF EndsWith
<1>a. IsSeries(c)
  BY DEF IsSeries
<1> HIDE DEF n, t
<1>4. CASE n > 3
  <2>1. n - 1 \in 1 .. Len(t) /\ n - 2 \in 1 .. Len(t) /\ n - 3 \in 1 .. Len(t)
    BY <1>1, <1>2, <1>4
  <2>2. (n - 1) + 1 = n /\ (n - 2) + 1 = n - 1 /\ (n - 3) + 1 = n - 2
    BY <1>1
  <2>3. t[n - 1] = c[n] /\ t[n - 2] = c[n - 1] /\ t[n - 3] = c[n - 2]
    BY <1>2, <2>1, <2>2
  <2>4. (n - 1) - 1 = n - 2 /\ (n - 1) - 2 = n - 3 /\ n - 1 >= 3
    BY <1>1, <1>4
  <2>5. EndsWith(t)
    BY <1>2, <1>3, <2>3, <2>4 DEF EndsWith
  <2> QED BY <1>1, <1>a, <2>5 DEF t, Is
<1>5. CASE n = 3
  <2>1. Head(c) = AtnHi
    BY <1>2, <1>3, <1>5
  <2>2. 1 \in 1 .. Len(t) /\ 2 \in 1 .. Len(t) /\ Len(t) = 2
    BY <1>2, <1>5
  <2>3. t[1] = c[2] /\ t[2] = c[3]
    BY <1>2, <2>2
  <2> DEFINE p == Pause([clk |-> TRUE])
  <2>4. t[1] = p /\ t[2] = DataHi
    BY <1>3, <1>5, <2>3
  <2> HIDE DEF p
  <2>5. t = <<p, DataHi>>
    <3> DEFINE e == <<p, DataHi>>
    <3>1. IsSeries(t)
      BY <1>2 DEF IsSeries
    <3>2. IsSeries(e) /\ Len(e) = 2 /\ e[1] = p /\ e[2] = DataHi
      BY TwoIs
    <3> HIDE DEF e
    <3>3. \A k \in 1 .. Len(t) : t[k] = e[k]
      <4>1. \A k \in 1 .. 2 : k = 1 \/ k = 2
        OBVIOUS
      <4> QED BY <2>2, <2>4, <3>2, <4>1
    <3>4. t = e
      BY <2>2, <3>1, <3>2, <3>3, SeqsEqual
    <3> QED BY <3>4 DEF e
  <2>6. t = LetGo
    BY <2>5 DEF LetGo, p
  <2> QED BY <1>1, <1>a, <2>1, <2>6 DEF t, Is
<1> QED BY <1>1, <1>4, <1>5

LEMMA FinishEnds == EndsWith(Finish) /\ Finish # << >>
<1>1. /\ Is(Finish, AtnHi, LetGo) /\ Is(LetGo, Pause([clk |-> TRUE]), <<DataHi>>)
  BY FinishIs
<1> DEFINE p == Pause([clk |-> TRUE])  g == <<p, DataHi>>
<1>2. LetGo = g
  BY DEF LetGo
<1> HIDE DEF p
<1>3. IsSeries(g) /\ Len(g) = 2 /\ g[1] = p /\ g[2] = DataHi
  BY TwoIs
<1> HIDE DEF g
<1>6. Finish \in Seq(Plain) /\ Finish # << >> /\ Tail(Finish) = g /\ Head(Finish) = AtnHi
  BY <1>1, <1>2, FinishFine DEF Is
<1>5. /\ Len(Finish) = Len(g) + 1 /\ Finish[1] = AtnHi
      /\ \A i \in 1 .. Len(g) : Finish[i + 1] = g[i]
  <2>1. Len(g) = Len(Finish) - 1 /\ Len(Finish) \in Nat
    <3>1. Len(Tail(Finish)) = Len(Finish) - 1
      BY <1>6, HeadTailProperties
    <3>2. Len(Finish) \in Nat
      BY <1>6, LenProperties
    <3> QED BY <1>6, <3>1, <3>2
  <2>2. \A i \in 1 .. Len(g) : g[i] = Finish[i + 1]
    BY <1>6, HeadTailProperties
  <2>3. Finish[1] = AtnHi
    BY <1>6
  <2>4. Len(Finish) = Len(g) + 1
    <3> DEFINE n == Len(Finish)  m == Len(g)
    <3>1. m = 2 /\ m = n - 1 /\ n \in Nat
      BY <1>3, <2>1
    <3> HIDE DEF n, m
    <3>2. n = m + 1
      BY <3>1
    <3> QED BY <3>2 DEF n, m
  <2> QED BY <2>2, <2>3, <2>4, ZenonT(40)
<1>4. Len(Finish) = 3 /\ Finish[3] = DataHi /\ Finish[3 - 1] = p /\ Finish[3 - 2] = AtnHi
  <2>1. Len(Finish) = 3 /\ 1 \in 1 .. Len(g) /\ 2 \in 1 .. Len(g)
    BY <1>3, <1>5
  <2>2. Finish[1 + 1] = g[1] /\ Finish[2 + 1] = g[2]
    BY <1>5, <2>1
  <2> QED BY <1>3, <1>5, <2>1, <2>2
<1> QED BY <1>1, <1>4 DEF EndsWith, p, Is

LEMMA CommandEnds ==
    ASSUME NEW b \in {UNLISTEN, UNTALK}
    PROVE  EndsWith(Command(b))
<1> DEFINE x == IF b = UNTALK THEN <<ClkLo, AtnLo>> ELSE << >>
           y == IF b = UNLISTEN THEN <<ClkHi>> ELSE << >>
           a == ISOURA(b)
           h == <<DataHi>>
           l == <<AtnLo>>
           f == (((x \o h) \o y) \o l) \o a
<1>1. Command(b) = f \o Finish
  BY DEF Command, Finish
<1>2. /\ DataHi \in Plain /\ ClkLo \in Plain /\ AtnLo \in Plain /\ ClkHi \in Plain
  BY StoresFine
<1>3. x \in Seq(Plain) /\ y \in Seq(Plain) /\ h \in Seq(Plain) /\ l \in Seq(Plain)
  BY <1>2
<1>6. a \in Seq(Plain)
  BY IsourFine, BytesAre
<1> HIDE DEF x, y, a, h, l
<1>7. x \o h \in Seq(Plain)
  BY <1>3, ConcatProperties
<1>8. (x \o h) \o y \in Seq(Plain)
  BY <1>3, <1>7, ConcatProperties
<1>9. ((x \o h) \o y) \o l \in Seq(Plain)
  BY <1>3, <1>8, ConcatProperties
<1>10. f \in Seq(Plain)
  BY <1>6, <1>9, ConcatProperties
<1>11. IsSeries(f) /\ IsSeries(Finish)
  BY <1>10, FinishFine DEF IsSeries
<1> HIDE DEF f
<1>12. EndsWith(f \o Finish)
  BY <1>11, FinishEnds, EndsJoined
<1> QED BY <1>1, <1>12

LEMMA LastCall ==
    ASSUME TypeOK, LastLetsGo, calls # << >>, Tail(calls) = << >>
    PROVE  Head(calls) \in {Unlisten, Untalk}
<1>1. calls \in Seq(AllCalls)
  BY DEF TypeOK
<1>2. Len(Tail(calls)) = Len(calls) - 1
  BY <1>1, HeadTailProperties
<1>3. Len(calls) \in Nat
  BY <1>1, LenProperties
<1>4. Len(<< >>) = 0
  OBVIOUS
<1>5. Len(calls) = 1
  BY <1>2, <1>3, <1>4
<1>6. Head(calls) = calls[1]
  BY <1>1
<1> QED BY <1>5, <1>6 DEF LastLetsGo

\* What a routine makes of its end.
LEMMA EndsKeeps ==
    ASSUME EndsWith(code), ReadsNothing, Kernal, ~ At("store")
    PROVE  EndsWith(code')
<1>1. code \in Seq(Plain) /\ code # << >> /\ Is(code, Head(code), Tail(code))
  BY EndsTail DEF ReadsNothing
<1>2. Head(code) # AtnHi
  BY <1>1, DoesDiffer DEF At
<1>3. EndsWith(Tail(code)) /\ IsSeries(Tail(code))
  <2>1. EndsWith(Tail(code))
    BY <1>1, <1>2, EndsTail
  <2>2. Tail(code) \in Seq(Plain)
    BY <1>1, HeadTailProperties
  <2> QED BY <2>1, <2>2 DEF IsSeries
<1>4. \A x : EndsWith(<<x>> \o Tail(code))
  BY <1>3, TupleIsASeq, EndsJoined
<1> DEFINE e == FirstEdge(TRUE)
           f == <<DataLo, ClkHi, DataHi, e>>
           j == f \o Tail(code)
<1> HIDE DEF e
<1>5. EndsWith(j)
  BY <1>3, TupleIsASeq, EndsJoined
<1> HIDE DEF j
<1>6. EndsWith(Finish)
  BY FinishEnds
<1>7. CASE Needs
  <2>1. code' = Tail(code) \/ code' = Finish
    BY <1>7 DEF Needs, Fails, Finish
  <2> QED BY <1>3, <1>6, <2>1
<1>8. CASE Untils \/ Samples
  <2> DEFINE x == [Head(code) EXCEPT !.odd = ~ @]
             s == <<x>> \o Tail(code)
  <2>1. code' = Tail(code) \/ code' = Again
    BY <1>8 DEF Untils, Samples
  <2>2. code' \in {Tail(code), s, code}
    BY <2>1 DEF Again
  <2>3. EndsWith(s)
    BY <1>4
  <2> HIDE DEF s
  <2> QED BY <1>3, <2>2, <2>3
<1>9. CASE Acks \/ Edges
  <2> DEFINE x == [Head(code) EXCEPT !.t = @ - 1]
             s == <<x>> \o Tail(code)
  <2>1. code' \in {Tail(code), LessTime, Finish, j}
    BY <1>9 DEF Acks, Edges, Fails, Finish, j, f, e
  <2>2. LessTime = s
    BY DEF LessTime
  <2>3. EndsWith(s)
    BY <1>4
  <2> HIDE DEF s
  <2> QED BY <1>3, <1>5, <1>6, <2>1, <2>2, <2>3
<1>10. ~ Stores /\ ~ Call
  BY <1>1 DEF Stores, Call
<1>11. ~ Reads
  BY PlainAt DEF Reads
<1> QED BY <1>7, <1>8, <1>9, <1>10, <1>11 DEF Kernal

LEMMA CpuPicked ==
    ASSUME TypeOK
    PROVE  \E a, c, d : cpu = Lines(a, c, d)
BY DEF TypeOK

\* An operation that has ended, or is about to, lets the lines go.
LEMMA LetsGoNext ==
    ASSUME TypeOK, ReadsInv, Ends, LetsGo, Kernal
    PROVE  LetsGo' /\ Ends'
<1>1. ReadsNothing /\ calls = << >>
  BY DEF ReadsInv, Ends
<1>2. code # << >>
  BY <1>1, CallMoves
<1>3. PICK a, c, d : cpu = Lines(a, c, d)
  BY CpuPicked
<1>4. cpu.atn = a /\ cpu.clk = c /\ cpu.data = d
  BY <1>3, LinesHigh
<1>5. Ends'
  <2>1. ~ Reads
    BY <1>1, PlainAt DEF Reads
  <2>2. calls' = calls \/ calls' = << >>
    BY <1>1, <1>2, <2>1 DEF Kernal, Call, Stores, Needs, Untils, Acks, Edges, Samples, Fails
  <2> QED BY <1>1, <2>2 DEF Ends
<1>6. CASE EndsWith(code) /\ ~ At("store")
  <2>1. EndsWith(code')
    BY <1>1, <1>6, EndsKeeps
  <2> QED BY <1>5, <2>1 DEF LetsGo
<1>7. CASE EndsWith(code) /\ At("store")
  <2>1. /\ Is(code, Head(code), Tail(code))
        /\ EndsWith(Tail(code)) \/ (Head(code) = AtnHi /\ Tail(code) = LetGo)
    BY <1>1, <1>7, EndsTail DEF ReadsNothing
  <2>2. Stores
    BY <1>7, ZenonT(40) DEF Kernal, Call, Needs, Untils, Acks, Edges, Samples, Reads, At
  <2>3. code' = Tail(code)
    BY <2>2 DEF Stores
  <2>4. CASE EndsWith(Tail(code))
    BY <1>5, <2>3, <2>4 DEF LetsGo
  <2>5. CASE Head(code) = AtnHi /\ Tail(code) = LetGo
    <3>1. Is(code, StoreOf([atn |-> TRUE], 0), LetGo)
      BY <2>1, <2>5, StoreIs
    <3>2. cpu' = Lines(TRUE, c, d) /\ code' = LetGo /\ Rests /\ Accessed
      BY <1>3, <3>1, AtnGoes
    <3>3. cpu'.atn
      BY <3>2, LinesAre
    <3> QED BY <1>5, <3>2, <3>3 DEF LetsGo
  <2> QED BY <2>1, <2>4, <2>5
<1>8. CASE code = <<Store(High)>>
  <2>1. Is(code, StoreOf(Lines(TRUE, TRUE, TRUE), 0), << >>)
    BY <1>8, FinishIs, StoreIs DEF High, Lines
  <2>2. cpu' = Lines(TRUE, TRUE, TRUE) /\ code' = << >> /\ Rests /\ Accessed
    BY <1>3, <2>1, AllGo
  <2> QED BY <1>5, <2>2 DEF LetsGo
<1>9. CASE code = LetGo /\ cpu.atn
  <2>1. Is(code, StoreOf([clk |-> TRUE], AckWait), <<DataHi>>)
    BY <1>9, FinishIs, StoreIs
  <2>2. cpu' = Lines(a, TRUE, d) /\ code' = <<DataHi>> /\ Rests /\ Accessed
    BY <1>3, <2>1, ClkPauses
  <2>3. cpu'.atn /\ cpu'.clk
    BY <1>4, <1>9, <2>2, LinesAre
  <2> QED BY <1>5, <2>2, <2>3 DEF LetsGo
<1>10. CASE code = <<DataHi>> /\ cpu.atn /\ cpu.clk
  <2>1. Is(code, StoreOf([data |-> TRUE], 0), << >>)
    BY <1>10, FinishIs, StoreIs
  <2>2. cpu' = Lines(a, c, TRUE) /\ code' = << >> /\ Rests /\ Accessed
    BY <1>3, <2>1, DataGoes
  <2>3. a = TRUE /\ c = TRUE
    <3>1. \E x, y, z \in BOOLEAN : cpu = Lines(x, y, z) /\ cpu.clk = y /\ cpu.atn = x /\ cpu.data = z
      BY CpuIs
    <3> QED BY <1>4, <1>10, <3>1
  <2> QED BY <1>5, <2>2, <2>3 DEF LetsGo
<1> QED BY <1>2, <1>6, <1>7, <1>8, <1>9, <1>10 DEF LetsGo

\* The last call is over: it was one that lets the lines go, or nobody was there.
LEMMA LastCallNext ==
    ASSUME TypeOK, LastLetsGo, calls # << >>, Ends', Kernal
    PROVE  LetsGo'
<1>1. CASE code = << >>
  <2>1. code' = Routine(Head(calls)) /\ Tail(calls) = << >>
    BY <1>1, CallMoves DEF Ends
  <2>2. Head(calls) \in {Unlisten, Untalk}
    BY <2>1, LastCall
  <2>3. EndsWith(code')
    BY <2>1, <2>2, RoutineIs, CommandEnds DEF Unlisten, Untalk
  <2> QED BY <2>3 DEF LetsGo
<1>2. CASE Needs
  <2>1. code' = Finish
    BY <1>2 DEF Needs, Fails, Finish, Ends
  <2> QED BY <2>1, FinishEnds DEF LetsGo
<1>3. ASSUME Reads PROVE FALSE
  <2> DEFINE more == <<Acptr>> \o calls
  <2>1. calls' \in {calls, more}
    BY <1>3 DEF Reads, Acptr
  <2>2. IsSeries(calls)
    BY DEF TypeOK, IsSeries
  <2>3. more # << >>
    BY <2>2, IsStore DEF Is
  <2> HIDE DEF more
  <2> QED BY <2>1, <2>3 DEF Ends
<1>4. ~ (Stores \/ Untils \/ Acks \/ Edges \/ Samples)
  BY DEF Stores, Untils, Acks, Edges, Samples, Fails, Ends
<1>5. Call => code = << >>
  BY DEF Call
<1> QED BY <1>1, <1>2, <1>3, <1>4, <1>5 DEF Kernal

LEMMA LastNext ==
    ASSUME TypeOK, LastLetsGo, ReadsInv, Kernal
    PROVE  LastLetsGo'
<1>1. calls \in Seq(AllCalls)
  BY DEF TypeOK
<1>2. CASE calls' = calls
  BY <1>2 DEF LastLetsGo
<1>3. CASE calls' = << >>
  BY <1>3 DEF LastLetsGo
<1>4. CASE Call
  <2>1. calls' = Tail(calls) /\ calls # << >>
    BY <1>4 DEF Call
  <2> DEFINE n == Len(calls)  t == Tail(calls)
  <2>2. /\ t \in Seq(AllCalls) /\ Len(t) = n - 1 /\ \A i \in 1 .. Len(t) : t[i] = calls[i + 1]
        /\ n \in Nat
    BY <1>1, <2>1, HeadTailProperties, LenProperties
  <2>3. t # << >> => Len(t) # 0
    BY <2>2, EmptySeq
  <2> HIDE DEF n, t
  <2>4. ASSUME t # << >>
        PROVE  t[Len(t)] = calls[n]
    <3>1. Len(t) \in 1 .. Len(t) /\ Len(t) + 1 = n
      BY <2>2, <2>3, <2>4
    <3> QED BY <2>2, <3>1
  <2> QED BY <2>1, <2>4 DEF LastLetsGo, n, t
<1>5. CASE Reads
  <2> DEFINE more == <<Acptr>> \o calls  n == Len(calls)
  <2>1. calls' \in {calls, more}
    BY <1>5 DEF Reads, Acptr
  <2>2. calls # << >>
    BY <1>5, PlainAt DEF ReadsInv, Reads
  <2>3. IsSeries(calls)
    BY <1>1 DEF IsSeries
  <2>4. Len(more) = n + 1 /\ \A i \in 1 .. n : more[i + 1] = calls[i]
    BY <2>3, ConsIs
  <2>5. n \in Nat /\ n # 0
    BY <1>1, <2>2, LenProperties, EmptySeq
  <2> HIDE DEF more, n
  <2>6. more[Len(more)] = calls[n]
    <3>1. n \in 1 .. n
      BY <2>5
    <3> QED BY <2>4, <3>1
  <2> QED BY <1>2, <2>1, <2>2, <2>6 DEF LastLetsGo, n
<1> QED BY <1>2, <1>3, <1>4, <1>5 DEF Kernal, Stores, Needs, Untils, Acks, Edges, Samples, Fails

LEMMA KernalNext ==
    ASSUME TypeOK, KernalInv, Kernal
    PROVE  KernalInv'
<1>1. LastLetsGo' /\ ReadsInv'
  BY LastNext, ReadsOnlyCalled DEF KernalInv
<1>2. ASSUME Ends'
      PROVE  LetsGo'
  <2>1. CASE Ends
    BY <2>1, LetsGoNext DEF KernalInv
  <2>2. CASE calls # << >>
    BY <1>2, <2>2, LastCallNext DEF KernalInv
  <2> QED BY <2>1, <2>2 DEF Ends
<1> QED BY <1>1, <1>2 DEF KernalInv

(****************************************************************************)
(* The device is off: no access moves it, and nothing of a file is read.    *)
(****************************************************************************)
LEMMA ReadIsOver ==
    ASSUME ReadsInv, Reads
    PROVE  code \in HandsOver
<1>1. At("read")
  BY DEF Reads
<1>2. ~ ReadsNothing
  BY <1>1, PlainAt
<1>3. \A c, x, s : Is(c, x, s) /\ x.do # "read" => c # code
  BY <1>1 DEF Is, At
<1>4. code # FromReadClkHi
  BY <1>3, FromReadIs, DoesDiffer
<1>5. ~ StillReads(code)
  <2>1. \A o : FromTalkerReady(o) # code /\ FromReadDataHi(o) # code
    BY <1>3, FromReadIs, DoesDiffer
  <2>2. \A again, t : FromEdge(again, t) # code
    BY <1>3, FromReadIs, DoesDiffer
  <2>3. FromEoi # code /\ FromEoiClkHi # code
    BY <1>3, FromReadIs, DoesDiffer
  <2>4. \A i \in 0 .. Bits - 1 : \A o : FromSample(i, o) # code /\ FromEdgeEnd(i, o) # code
    BY <1>3, FromReadBitIs, DoesDiffer
  <2> QED BY <2>1, <2>2, <2>3, <2>4 DEF StillReads
<1> QED BY <1>2, <1>4, <1>5 DEF ReadsInv, ReadsOn

LEMMA OffStays ==
    ASSUME TypeOK, ~ device.enabled, Kernal, ~ Reads
    PROVE  Keep(device, device') /\ device'.clk = device.clk /\ device'.data = device.data
<1>1. /\ Typed(device) /\ Reads1(device)
      /\ \E x, y, z \in BOOLEAN : cpu = Lines(x, y, z)
  BY TypedIs DEF TypeOK
<1>2. \A d \in Nat, a \in Answers : Exec(device, d, a) = device
  BY <1>1, ExecFine
<1>3. CASE device' = device
  BY <1>1, <1>3 DEF Keep, Typed
<1>4. CASE Call
  <2>1. PICK d \in {0, AckWait} : device' = After(device, d)
    BY <1>4 DEF Call
  <2> QED BY <2>1, PassIs
<1>5. CASE Stores
  <2>1. Head(code).t \in Nat /\ Nmi \in Nat
    <3>1. Head(code).t \in {0, AckWait}
      BY <1>5, AtIs, AccessIs DEF Stores
    <3>2. 0 \in Nat /\ AckWait \in Nat /\ Nmi \in Nat
      BY TimesAre
    <3> QED BY <3>1, <3>2
  <2>2. PICK nmi \in BOOLEAN, a \in Answers :
            device' = IF cpu' = cpu
                      THEN Exec(device, IF nmi THEN Nmi ELSE Head(code).t, a)
                      ELSE Exec(Exec(device, IF nmi THEN Nmi ELSE Head(code).t, a), 0, a)
    BY <1>5 DEF Stores
  <2> DEFINE d == IF nmi THEN Nmi ELSE Head(code).t
  <2>3. d \in Nat /\ device' = IF cpu' = cpu THEN Exec(device, d, a)
                               ELSE Exec(Exec(device, d, a), 0, a)
    BY <2>1, <2>2
  <2> HIDE DEF d
  <2>4. Exec(device, d, a) = device /\ Exec(device, 0, a) = device
    BY <1>2, <2>3
  <2> QED BY <1>3, <2>3, <2>4
<1>6. CASE Needs \/ Untils \/ Acks \/ Edges \/ Samples
  <2>1. PICK a \in Answers : device' = Exec(device, 1, a)
    BY <1>6 DEF Needs, Untils, Acks, Edges, Samples, Looks
  <2>2. 1 \in Nat
    OBVIOUS
  <2> QED BY <1>2, <1>3, <2>1, <2>2
<1> QED BY <1>4, <1>5, <1>6 DEF Kernal

LEMMA OffTakesNone ==
    ASSUME TypeOK, ~ device.enabled, Kernal
    PROVE  /\ device'.taken = device.taken /\ device'.data = device.data
           /\ device'.clk = device.clk /\ device'.enabled = device.enabled
           /\ device'.flags = device.flags /\ device'.mode = device.mode
           /\ device'.lossy = device.lossy
<1>1. CASE Reads
  <2>1. Shape(device)
    BY TypedIs DEF TypeOK, Typed
  <2> QED BY <1>1, <2>1 DEF Reads, Shape, Fields
<1>2. CASE ~ Reads
  BY <1>2, OffStays DEF Keep
<1> QED BY <1>1, <1>2

LEMMA OpeningCalls ==
    ASSUME TypeOK, code = << >>, Starts(calls), Kernal
    PROVE  /\ \E m \in Messages : m.kind \in Opening /\ code' = FromDataHi(m)
           /\ sent' = sent
<1>1. code' = Routine(Head(calls)) /\ sent' = sent
  BY CallMoves
<1>2. PICK b \in {LISTEN, ABSENT, TALK} : Head(calls) = CallOf("command", b)
  BY DEF Starts
<1>3. code' = Command(b)
  BY <1>1, <1>2, RoutineIs
<1>4. PICK m \in Messages : m.kind \in Opening /\ m.byte = b
  <2>1. ASSUME NEW k \in Opening, ToSend(k, b, FALSE) \in Messages
        PROVE  \E m \in Messages : m.kind \in Opening /\ m.byte = b
    <3>1. ToSend(k, b, FALSE).kind = k /\ ToSend(k, b, FALSE).byte = b
      BY DEF ToSend
    <3> QED BY <2>1, <3>1
  <2>2. "listen" \in Opening /\ "talk" \in Opening /\ "absent" \in Opening
    BY DEF Opening
  <2>3. CASE b = LISTEN
    <3>1. ToSend("listen", b, FALSE) \in Messages
      BY <2>3, ToSendIs
    <3> QED BY <2>1, <2>2, <3>1
  <2>4. CASE b = TALK
    <3>1. ToSend("talk", b, FALSE) \in Messages
      BY <2>4, ToSendIs
    <3> QED BY <2>1, <2>2, <3>1
  <2>5. CASE b = ABSENT
    <3>1. ToSend("absent", b, FALSE) \in Messages
      BY <2>5, ToSendIs
    <3> QED BY <2>1, <2>2, <3>1
  <2> QED BY <1>2, <2>3, <2>4, <2>5
<1>5. Command(m.byte) = FromDataHi(m)
  <2>1. m.kind # "untalk" /\ m.kind \in Opening \union Closing
    BY <1>4 DEF Opening
  <2> QED BY <2>1, CommandFrom
<1> QED BY <1>1, <1>3, <1>4, <1>5

Opens1(m) ==
    \/ code \in {FromDataHi(m), FromAtnLo(m), FromAddress(m), FromPause(m), FromLetGo(m)}
    \/ code = FromNeed(m) /\ cpu.data
LetsGoNow == Ends /\ code \in {Finish, LetGo, <<DataHi>>}
LEMMA UnansweredOpening ==
    ASSUME TypeOK, ~ device.enabled, Free(device), Kernal,
           NEW m \in Messages, m.kind \in Opening, Opens1(m)
    PROVE  (Opens1(m)' \/ LetsGoNow') /\ sent' = sent
<1>1. PICK a, c, d : cpu = Lines(a, c, d)
  BY CpuPicked
<1>2. m.kind # "unlisten"
  BY DEF Opening
<1>3. CASE code = FromDataHi(m)
  <2>1. Is(code, StoreOf([data |-> TRUE], 0), FromAtnLo(m))
    BY <1>2, <1>3, FromSendIs, StoreIs
  <2>2. cpu' = Lines(a, c, TRUE) /\ code' = FromAtnLo(m) /\ Rests /\ Accessed
    BY <1>1, <2>1, DataGoes
  <2> QED BY <2>2 DEF Opens1, Rests
<1>4. CASE code = FromAtnLo(m)
  <2>1. Is(code, StoreOf([atn |-> FALSE], 0), FromAddress(m))
    BY <1>4, FromSendIs, StoreIs
  <2>2. cpu' = Lines(FALSE, c, d) /\ code' = FromAddress(m) /\ Rests /\ Accessed
    BY <1>1, <2>1, AtnGoes
  <2> QED BY <2>2 DEF Opens1, Rests
<1>5. CASE code = FromAddress(m)
  <2>1. Is(code, StoreOf([clk |-> FALSE], 0), FromPause(m))
    BY <1>5, FromSendIs, StoreIs
  <2>2. cpu' = Lines(a, FALSE, d) /\ code' = FromPause(m) /\ Rests /\ Accessed
    BY <1>1, <2>1, ClkGoes
  <2> QED BY <2>2 DEF Opens1, Rests
<1>6. CASE code = FromPause(m)
  <2>1. Is(code, StoreOf([data |-> TRUE], AckWait), FromLetGo(m))
    BY <1>6, FromSendIs, StoreIs
  <2>2. cpu' = Lines(a, c, TRUE) /\ code' = FromLetGo(m) /\ Rests /\ Accessed
    BY <1>1, <2>1, DataPauses
  <2> QED BY <2>2 DEF Opens1, Rests
<1>7. CASE code = FromLetGo(m)
  <2>1. Is(code, StoreOf([data |-> TRUE], 0), FromNeed(m))
    BY <1>7, FromSendIs, StoreIs
  <2>2. cpu' = Lines(a, c, TRUE) /\ code' = FromNeed(m) /\ Rests /\ Accessed
    BY <1>1, <2>1, DataGoes
  <2>3. cpu'.data
    BY <2>2, LinesAre
  <2> QED BY <2>2, <2>3 DEF Opens1, Rests
<1>8. CASE code = FromNeed(m) /\ cpu.data
  <2>1. Is(code, Need(FALSE), FromClkHi(m))
    BY <1>8, FromSendIs
  <2>2. /\ cpu' = cpu /\ sent' = sent
        /\ Bus'.data # FALSE => code' = Finish /\ calls' = << >>
    BY <2>1, NeedMoves
  <2>3. device'.data = device.data
    BY OffTakesNone
  <2>4. Bus'.data # FALSE
    BY <1>8, <2>2, <2>3, BusIs DEF Free
  <2> QED BY <2>2, <2>4 DEF LetsGoNow, Ends
<1> QED BY <1>3, <1>4, <1>5, <1>6, <1>7, <1>8 DEF Opens1

LEMMA UnansweredEnd ==
    ASSUME TypeOK, Kernal, LetsGoNow
    PROVE  (LetsGoNow' \/ (code' = << >> /\ Ends')) /\ sent' = sent
<1>1. PICK a, c, d : cpu = Lines(a, c, d)
  BY CpuPicked
<1>2. CASE code = Finish
  <2>1. Is(code, StoreOf([atn |-> TRUE], 0), LetGo)
    BY <1>2, FinishIs, StoreIs
  <2>2. cpu' = Lines(TRUE, c, d) /\ code' = LetGo /\ Rests /\ Accessed
    BY <1>1, <2>1, AtnGoes
  <2> QED BY <2>2 DEF LetsGoNow, Rests, Ends
<1>3. CASE code = LetGo
  <2>1. Is(code, StoreOf([clk |-> TRUE], AckWait), <<DataHi>>)
    BY <1>3, FinishIs, StoreIs
  <2>2. cpu' = Lines(a, TRUE, d) /\ code' = <<DataHi>> /\ Rests /\ Accessed
    BY <1>1, <2>1, ClkPauses
  <2> QED BY <2>2 DEF LetsGoNow, Rests, Ends
<1>4. CASE code = <<DataHi>>
  <2>1. Is(code, StoreOf([data |-> TRUE], 0), << >>)
    BY <1>4, FinishIs, StoreIs
  <2>2. cpu' = Lines(a, c, TRUE) /\ code' = << >> /\ Rests /\ Accessed
    BY <1>1, <2>1, DataGoes
  <2> QED BY <2>2 DEF LetsGoNow, Rests, Ends
<1> QED BY <1>2, <1>3, <1>4 DEF LetsGoNow

LEMMA NoAnswerIs ==
    NoAnswer <=>
        /\ sent = << >> /\ device.taken = << >>
        /\ \/ \E m \in Messages : m.kind \in Opening /\ Opens1(m)
           \/ LetsGoNow
           \/ code = << >> /\ (Ends \/ Starts(calls))
BY DEF NoAnswer, Opens1, LetsGoNow

LEMMA NoAnswerNext ==
    ASSUME TypeOK, ~ device.enabled, Free(device), NoAnswer, Kernal
    PROVE  NoAnswer'
<1>1. sent = << >> /\ device.taken = << >> /\ device'.taken = << >>
  BY OffTakesNone DEF NoAnswer
<1>2. /\ sent' = << >>
      /\ \/ \E m \in Messages : m.kind \in Opening /\ Opens1(m)'
         \/ LetsGoNow'
         \/ code' = << >> /\ Ends'
  <2>1. CASE \E m \in Messages : m.kind \in Opening /\ Opens1(m)
    BY <1>1, <2>1, UnansweredOpening
  <2>2. CASE LetsGoNow
    BY <1>1, <2>2, UnansweredEnd
  <2>3. CASE code = << >> /\ (Ends \/ Starts(calls))
    <3>1. ~ Ends
      BY <2>3, CallMoves DEF Ends
    <3>2. sent' = sent
      BY <2>3, <3>1, OpeningCalls
    <3>3. PICK m \in Messages : m.kind \in Opening /\ code' = FromDataHi(m)
      BY <2>3, <3>1, OpeningCalls
    <3>4. Opens1(m)'
      BY <3>3 DEF Opens1
    <3> QED BY <1>1, <3>2, <3>3, <3>4
  <2> QED BY <2>1, <2>2, <2>3, NoAnswerIs
<1> QED BY <1>1, <1>2 DEF NoAnswer, Opens1, LetsGoNow, Ends

\* With the device off.
LEMMA OffNext ==
    ASSUME TypeOK, KernalInv, Off, Kernal
    PROVE  Off'
<1>1. /\ ~ device.enabled /\ Free(device) /\ device.flags = {}
      /\ code \in HandsOver /\ device.mode = "read" => device.lossy
  BY DEF Off
<1>2. /\ device'.data = device.data /\ device'.clk = device.clk
      /\ device'.enabled = device.enabled /\ device'.flags = device.flags
      /\ device'.mode = device.mode /\ device'.lossy = device.lossy
  BY <1>1, OffTakesNone
<1>3. ~ device'.enabled /\ device'.flags = {} /\ Free(device')
  BY <1>1, <1>2 DEF Free
<1>4. ASSUME code' \in HandsOver
      PROVE  code \in HandsOver
  <2>1. ASSUME cpu.clk, cpu' = cpu, Bus'.clk = FALSE
        PROVE  FALSE
    BY <1>1, <1>2, <2>1, BusIs DEF Free
  <2> QED BY <1>4, <2>1, ReadsOnlyCalled DEF KernalInv
<1>5. code' \in HandsOver /\ device'.mode = "read" => device'.lossy
  BY <1>1, <1>2, <1>4
<1>6. Level(device')
  <2>1. CASE Reads
    <3>1. code \in HandsOver
      BY <2>1, ReadIsOver DEF KernalInv
    <3> QED BY <1>1, <1>2, <3>1 DEF Level
  <2>2. CASE ~ Reads
    <3>1. Keep(device, device')
      BY <1>1, <2>2, OffStays
    <3> QED BY <3>1 DEF Off, Level, Keep, GotRight
  <2> QED BY <2>1, <2>2
<1>7. meddled' = meddled
  BY ZenonT(40) DEF Kernal, Call, Stores, Needs, Untils, Acks, Edges, Samples, Reads, Looks
<1>8. meddled' \/ NoAnswer'
  BY <1>1, <1>7, NoAnswerNext DEF Off
<1> QED BY <1>3, <1>5, <1>6, <1>8 DEF Off

(****************************************************************************)
(* What the places say of the device at all of them.                        *)
(****************************************************************************)
Held(u) ==
    u.enabled /\ (Level(u) \/ Ahead(u)) /\ (u.flags = {} => Free(u))
LEMMA HeldThere ==
    ASSUME NEW u
    PROVE  /\ \A f : f # {} /\ With(u, f) => Held(u)
           /\ \A f : Under(u, f) => Held(u)
           /\ TalksAhead(u) => Held(u)
           /\ Silent(u) => Held(u)
BY DEF Held, With, Under, TalksAhead, Silent

LEMMA HeldCalm ==
    ASSUME NEW u
    PROVE  /\ Deaf(u) => Held(u)
           /\ Calm(u) => Held(u)
           /\ Stale(u) => Held(u)
           /\ Listener(u) => Held(u)
           /\ \A q, f : AddressedBy(u, q, f) => Held(u)
           /\ Closed(u) => Held(u)
           /\ NotThere(u) => Held(u)
           /\ Slips(u) => Held(u)
           /\ Turning(u) => Held(u)
           /\ Talker(u) => Held(u)
           /\ Exhausted(u) => Held(u)
           /\ Stuck(u) => Held(u)
           /\ With(u, {"LISTENING"}) => Held(u)
           /\ With(u, {"TALKING"}) => Held(u)
           /\ With(u, {}) /\ Free(u) => Held(u)
<1>1. /\ With(u, {"LISTENING"}) => Held(u)
      /\ With(u, {"TALKING"}) => Held(u)
      /\ \A f : Under(u, f) => Held(u)
      /\ Silent(u) => Held(u)
  BY HeldThere
<1>2. With(u, {}) /\ Free(u) => Held(u)
  BY <1>1 DEF Silent
<1> QED BY <1>1, <1>2 DEF Deaf, Calm, Stale, Listener, AddressedBy, Closed, NotThere, Slips,
                          Turning, Talker, Exhausted, Stuck

LEMMA HeldSending ==
    ASSUME NEW u, NEW m
    PROVE  /\ UnderAtn(u, m) => Held(u)
           /\ Asked(u, m) => Held(u)
           /\ Answers0(u, m) => Held(u)
           /\ Receives(u, m) => Held(u)
           /\ Holds(u, m) => Held(u)
           /\ \A i : Has(u, m, i) => Held(u)
<1>1. /\ With(u, {"LISTENING"}) => Held(u)
      /\ \A f : Under(u, f) => Held(u)
  BY HeldThere
<1>2. UnderAtn(u, m) => Held(u)
  BY <1>1 DEF UnderAtn
<1>3. Receives(u, m) => Held(u)
  BY <1>1, <1>2 DEF Receives
<1> QED BY <1>2, <1>3 DEF Asked, Answers0, Holds, Has

LEMMA HeldReading ==
    ASSUME NEW u
    PROVE  /\ FirstBitIn(u) => Held(u)
           /\ \A s : Announces(u, s) => Held(u)
           /\ \A t : EdgeAt(u, t) => Held(u)
           /\ \A t : LateAt(u, t) => Held(u)
           /\ \A i : BitOut(u, i) => Held(u)
           /\ \A i : BitIn(u, i) => Held(u)
           /\ HasSent(u) => Held(u)
<1>1. TalksAhead(u) => Held(u)
  BY HeldThere
<1>2. FirstBitIn(u) => Held(u)
  BY <1>1 DEF FirstBitIn
<1>3. \A s : Announces(u, s) => Held(u)
  BY <1>1 DEF Announces
<1>4. \A t : EdgeAt(u, t) => Held(u)
  BY <1>2, <1>3, HeldThere, HeldCalm DEF EdgeAt
<1>5. \A t : LateAt(u, t) => Held(u)
  BY <1>2, <1>3, HeldThere DEF LateAt
<1> QED BY <1>1, <1>2, <1>3, <1>4, <1>5 DEF BitOut, BitIn, HasSent

LEMMA HeldAtSending ==
    ASSUME NEW m, Sending(m)
    PROVE  Held(device)
<1>1. CASE AtCommand(m) \/ AtAtnLo(m)
  BY <1>1, HeldCalm DEF AtCommand, AtAtnLo
<1>2. CASE AtUnlisten(m) \/ AtUnlistenClkHi(m) \/ AtUnlistenAtnLo(m)
  BY <1>2, HeldCalm DEF AtUnlisten, AtUnlistenClkHi, AtUnlistenAtnLo
<1>3. CASE AtUntalk(m) \/ AtUntalkAtnLo(m) \/ AtUntalkDataHi(m)
  BY <1>3, HeldCalm DEF AtUntalk, AtUntalkAtnLo, AtUntalkDataHi
<1>4. CASE AtUntalkAgain(m)
  BY <1>4, HeldSending DEF AtUntalkAgain
<1>5. CASE AtAddress(m)
  <2>1. Silent(device) => Held(device)
    BY HeldThere
  <2> QED BY <1>5, <2>1, HeldSending, HeldCalm DEF AtAddress
<1>6. CASE AtPause(m)
  BY <1>6, HeldSending, HeldCalm DEF AtPause
<1>7. CASE AtLetGo(m)
  BY <1>7, HeldSending, HeldCalm DEF AtLetGo
<1>8. CASE AtNeed(m)
  BY <1>8, HeldSending, HeldCalm DEF AtNeed
<1>9. CASE AtClkHi(m)
  BY <1>9, HeldSending DEF AtClkHi
<1>10. CASE \E o \in BOOLEAN : AtEoi1(m, o) \/ AtEoi2(m, o) \/ AtReady(m, o)
  BY <1>10, HeldSending DEF AtEoi1, AtEoi2, AtReady
<1>11. CASE AtClkLo(m)
  BY <1>11, HeldSending DEF AtClkLo
<1>12. ASSUME NEW i \in 0 .. Bits - 1,
              AtNeedBit(m, i) \/ AtBitData(m, i) \/ AtBitClkHi(m, i) \/ AtBitClkLo(m, i)
       PROVE  Held(device)
  BY <1>12, HeldSending DEF AtNeedBit, AtBitData, AtBitClkHi, AtBitClkLo
<1>13. CASE \E t \in 1 .. AckWait : AtAck(m, t)
  BY <1>13, HeldSending, HeldCalm DEF AtAck
<1> QED BY <1>1, <1>2, <1>3, <1>4, <1>5, <1>6, <1>7, <1>8, <1>9, <1>10, <1>11, <1>12, <1>13
        DEF Sending

LEMMA HeldAtEnding ==
    ASSUME Ending
    PROVE  Held(device)
<1>1. Silent(device) => Held(device)
  BY HeldThere
<1>2. CASE AtSecondDone
  BY <1>2, HeldCalm DEF AtSecondDone
<1>3. CASE AtTurn
  BY <1>3, HeldCalm DEF AtTurn
<1>4. CASE \E o \in BOOLEAN : AtTurned(o)
  BY <1>4, HeldCalm DEF AtTurned
<1>5. CASE AtFinish
  BY <1>1, <1>5, HeldCalm DEF AtFinish
<1>6. CASE AtFinishPause
  BY <1>1, <1>6, HeldCalm DEF AtFinishPause
<1>7. CASE AtFinishDataHi
  BY <1>1, <1>7, HeldCalm DEF AtFinishDataHi
<1>8. CASE AtReset
  BY <1>1, <1>8 DEF AtReset
<1> QED BY <1>2, <1>3, <1>4, <1>5, <1>6, <1>7, <1>8 DEF Ending

LEMMA HeldAtReading ==
    ASSUME Reading
    PROVE  Held(device)
<1>1. Silent(device) => Held(device)
  BY HeldThere
<1>2. CASE AtReadClkHi \/ (\E o \in BOOLEAN : AtTalkerReady(o)) \/ AtReadDataHi
  BY <1>2, HeldCalm DEF AtReadClkHi, AtTalkerReady, AtReadDataHi
<1>3. CASE \E t \in 1 .. EoiWait : AtEdge(t) \/ AtLateEdge(t)
  BY <1>3, HeldReading DEF AtEdge, AtLateEdge
<1>4. CASE AtEoiDataLo \/ AtEoiClkHi \/ AtEoiDataHi
  BY <1>1, <1>4, HeldReading DEF AtEoiDataLo, AtEoiClkHi, AtEoiDataHi
<1>5. CASE \E i \in 0 .. Bits - 1, o \in BOOLEAN : AtSample(i, o) \/ AtEdgeEnd(i, o)
  BY <1>5, HeldReading, HeldCalm DEF AtSample, AtEdgeEnd
<1>6. CASE AtReadDataLo \/ AtRead
  BY <1>6, HeldReading DEF AtReadDataLo, AtRead
<1> QED BY <1>2, <1>3, <1>4, <1>5, <1>6 DEF Reading

LEMMA HeldBetween ==
    ASSUME Between
    PROVE  Held(device)
BY HeldCalm DEF Between, AtIdle, AtWriting, AtAddressing, AtTalking, AtReading, AtReadingDone

LEMMA HeldIs ==
    ASSUME Transfer
    PROVE  Held(device)
BY HeldAtSending, HeldAtEnding, HeldAtReading, HeldBetween DEF Transfer

\* No place but the last two of a read hands a byte over.
LEMMA NeitherDiffers ==
    /\ \A l, v, o : Waits(l, v, o) # ByteRead /\ Waits(l, v, o) # DataLo
    /\ \A v : Need(v) # ByteRead /\ Need(v) # DataLo
    /\ \A m, t : Answer(m, t) # ByteRead /\ Answer(m, t) # DataLo
    /\ \A a, t : Edge(a, t) # ByteRead /\ Edge(a, t) # DataLo
    /\ \A i, o : Tries(i, o) # ByteRead /\ Tries(i, o) # DataLo
    /\ DataHi # ByteRead /\ DataHi # DataLo
    /\ ClkHi # ByteRead /\ ClkHi # DataLo
    /\ ClkLo # ByteRead /\ ClkLo # DataLo
    /\ AtnLo # ByteRead /\ AtnLo # DataLo
    /\ AtnHi # ByteRead /\ AtnHi # DataLo
    /\ DataLo # ByteRead
    /\ \A l : Store(l) # ByteRead /\ Pause(l) # ByteRead
    /\ \A l : Pause(l) # DataLo
    /\ Store(High) # DataLo
    /\ \A v : Store([clk |-> FALSE, data |-> v]) # DataLo
<1>1. ClkLo # DataLo /\ AtnLo # DataLo /\ AtnHi # DataLo
  BY DEF ClkLo, AtnLo, AtnHi, DataLo, Store
<1>2. Store(High) # DataLo
  BY DEF Store, High, DataLo
<1>3. \A v : Store([clk |-> FALSE, data |-> v]) # DataLo
  <2> TAKE v
  <2>1. [clk |-> FALSE, data |-> v] # [data |-> FALSE]
    OBVIOUS
  <2> QED BY <2>1 DEF Store, DataLo
<1>4. \A l : Pause(l) # DataLo
  <2> TAKE l
  <2>1. Pause(l).t = AckWait /\ DataLo.t = 0
    BY DEF Pause, DataLo, Store
  <2> QED BY <2>1, TimesAre
<1> QED BY <1>1, <1>2, <1>3, <1>4, DoesDiffer

Midway(c) == c # << >> /\ c \notin HandsOver
LEMMA Overs ==
    ASSUME NEW c, NEW x, NEW s, Is(c, x, s), x # ByteRead, x # DataLo
    PROVE  Midway(c)
BY NotOver DEF Midway, Is

LEMMA TwoOver ==
    ASSUME NEW c, NEW x, NEW s, Is(c, x, s), x # ByteRead, s # << >>, Head(s) # ByteRead
    PROVE  Midway(c)
BY NotOver DEF Midway, Is

LEMMA SendingOver ==
    ASSUME NEW m \in Messages, Sending(m)
    PROVE  Midway(code)
<1>1. CASE code = FromDataHi(m)
  BY <1>1, FromSendIs, NeitherDiffers, Overs
<1>2. CASE code = FromAtnLo(m)
  BY <1>2, FromSendIs, NeitherDiffers, Overs
<1>3. CASE code = <<ClkHi>> \o FromAtnLo(m)
  <2> DEFINE c == <<ClkHi>> \o FromAtnLo(m)
  <2>1. Is(c, ClkHi, FromAtnLo(m)) /\ code = c
    BY <1>3, FromSendIs
  <2> HIDE DEF c
  <2> QED BY <2>1, NeitherDiffers, Overs
<1>4. CASE code = <<ClkLo>> \o FromUntalk(m)
  <2> DEFINE c == <<ClkLo>> \o FromUntalk(m)
  <2>1. Is(c, ClkLo, FromUntalk(m)) /\ code = c
    BY <1>4, FromSendIs
  <2> HIDE DEF c
  <2> QED BY <2>1, NeitherDiffers, Overs
<1>5. CASE code = FromUntalk(m)
  BY <1>5, FromSendIs, NeitherDiffers, Overs
<1>6. CASE code = FromAddress(m)
  BY <1>6, FromSendIs, NeitherDiffers, Overs
<1>7. CASE code = FromPause(m)
  BY <1>7, FromSendIs, NeitherDiffers, Overs
<1>8. CASE code = FromLetGo(m)
  BY <1>8, FromSendIs, NeitherDiffers, Overs
<1>9. CASE code = FromNeed(m)
  BY <1>9, FromSendIs, NeitherDiffers, Overs
<1>10. CASE code = FromClkHi(m)
  <2>1. PICK s : Is(FromClkHi(m), ClkHi, s)
    BY FromSendIs
  <2> QED BY <1>10, <2>1, NeitherDiffers, Overs
<1>11. CASE \E o \in BOOLEAN : code \in {FromEoi1(m, o), FromEoi2(m, o), FromReady(m, o)}
  <2>1. PICK o \in BOOLEAN : code \in {FromEoi1(m, o), FromEoi2(m, o), FromReady(m, o)}
    BY <1>11
  <2>2. \E l, v, s : Is(code, Waits(l, v, o), s)
    BY <2>1, FromSendIs
  <2> QED BY <2>2, NeitherDiffers, Overs
<1>12. CASE code = FromClkLo(m)
  BY <1>12, FromSendIs, NeitherDiffers, Overs
<1>13. ASSUME NEW i \in 0 .. Bits - 1, code = FromBit(m, i)
       PROVE  Midway(code)
  BY <1>13, FromBitIs, NeitherDiffers, Overs
<1>14. ASSUME NEW i \in 0 .. Bits - 1, code = FromBitData(m, i)
       PROVE  Midway(code)
  <2>1. /\ Is(code, Store([data |-> i \in m.byte]), FromBitClkHi(m, i))
        /\ Is(FromBitClkHi(m, i), ClkHi, FromBitClkLo(m, i))
    BY <1>14, FromBitIs
  <2>2. FromBitClkHi(m, i) # << >> /\ Head(FromBitClkHi(m, i)) # ByteRead
    BY <2>1, NeitherDiffers DEF Is
  <2>3. Store([data |-> i \in m.byte]) # ByteRead
    BY NeitherDiffers
  <2> QED BY <2>1, <2>2, <2>3, TwoOver
<1>15. ASSUME NEW i \in 0 .. Bits - 1, code = FromBitClkHi(m, i)
       PROVE  Midway(code)
  BY <1>15, FromBitIs, NeitherDiffers, Overs
<1>16. ASSUME NEW i \in 0 .. Bits - 1, code = FromBitClkLo(m, i)
       PROVE  Midway(code)
  BY <1>16, FromBitIs, NeitherDiffers, Overs
<1>17. ASSUME NEW t, code = FromAck(m, t)
       PROVE  Midway(code)
  BY <1>17, FromAckIs, NeitherDiffers, Overs
<1>18. CASE AtCommand(m) \/ AtAtnLo(m) \/ AtUnlisten(m) \/ AtUnlistenClkHi(m)
            \/ AtUnlistenAtnLo(m)
  BY <1>1, <1>2, <1>3, <1>18
     DEF AtCommand, AtAtnLo, AtUnlisten, AtUnlistenClkHi, AtUnlistenAtnLo
<1>19. CASE AtUntalk(m) \/ AtUntalkAtnLo(m) \/ AtUntalkDataHi(m) \/ AtUntalkAgain(m)
  BY <1>1, <1>2, <1>4, <1>5, <1>19 DEF AtUntalk, AtUntalkAtnLo, AtUntalkDataHi, AtUntalkAgain
<1>20. CASE AtAddress(m) \/ AtPause(m) \/ AtLetGo(m) \/ AtNeed(m) \/ AtClkHi(m)
  BY <1>6, <1>7, <1>8, <1>9, <1>10, <1>20 DEF AtAddress, AtPause, AtLetGo, AtNeed, AtClkHi
<1>21. CASE \E o \in BOOLEAN : AtEoi1(m, o) \/ AtEoi2(m, o) \/ AtReady(m, o)
  BY <1>11, <1>21 DEF AtEoi1, AtEoi2, AtReady
<1>22. CASE AtClkLo(m)
  BY <1>12, <1>22 DEF AtClkLo
<1>23. CASE \E i \in 0 .. Bits - 1 :
              AtNeedBit(m, i) \/ AtBitData(m, i) \/ AtBitClkHi(m, i) \/ AtBitClkLo(m, i)
  BY <1>13, <1>14, <1>15, <1>16, <1>23 DEF AtNeedBit, AtBitData, AtBitClkHi, AtBitClkLo
<1>24. CASE \E t \in 1 .. AckWait : AtAck(m, t)
  BY <1>17, <1>24 DEF AtAck
<1> QED BY <1>18, <1>19, <1>20, <1>21, <1>22, <1>23, <1>24 DEF Sending

LEMMA EndingOver ==
    ASSUME Ending
    PROVE  Midway(code)
<1>1. CASE code = <<AtnHi>>
  BY <1>1, FinishIs, NeitherDiffers, Overs
<1>2. CASE code = TurnRound
  <2>1. Is(code, DataLo, TurnAtnHi) /\ Is(TurnAtnHi, AtnHi, TurnClkHi)
    BY <1>2, TurnIs
  <2>2. TurnAtnHi # << >> /\ Head(TurnAtnHi) # ByteRead /\ DataLo # ByteRead
    BY <2>1, NeitherDiffers DEF Is
  <2> QED BY <2>1, <2>2, TwoOver
<1>3. CASE code = TurnAtnHi
  BY <1>3, TurnIs, NeitherDiffers, Overs
<1>4. CASE code = TurnClkHi
  <2>1. \E s : Is(code, ClkHi, s)
    BY <1>4, TurnIs
  <2> QED BY <2>1, NeitherDiffers, Overs
<1>5. ASSUME NEW o, code = <<Waits("clk", FALSE, o)>>
      PROVE  Midway(code)
  <2>1. Is(code, Waits("clk", FALSE, o), << >>)
    BY <1>5, IsLast
  <2> QED BY <2>1, NeitherDiffers, Overs
<1>6. CASE code = Finish
  BY <1>6, FinishIs, NeitherDiffers, Overs
<1>7. CASE code = LetGo
  BY <1>7, FinishIs, NeitherDiffers, Overs
<1>8. CASE code = <<DataHi>>
  BY <1>8, FinishIs, NeitherDiffers, Overs
<1>9. CASE code = <<Store(High)>>
  BY <1>9, FinishIs, NeitherDiffers, Overs
<1> QED BY <1>1, <1>2, <1>3, <1>4, <1>5, <1>6, <1>7, <1>8, <1>9
        DEF Ending, AtSecondDone, AtTurn, AtTurned, AtFinish, AtFinishPause, AtFinishDataHi,
            AtReset

\* Where a byte is handed over, the device has sent it, and holds it still.
LEMMA OverIs ==
    ASSUME Transfer, code \in HandsOver
    PROVE  HasSent(device)
<1>1. ~ Ending /\ ~ (\E m \in Messages : Sending(m))
  BY SendingOver, EndingOver DEF Midway
<1>2. ~ Between
  BY HandsOverIs DEF Between
<1>3. code # FromReadClkHi
  BY FromReadIs, NeitherDiffers, Overs DEF Midway
<1>4. ~ StillReads(code)
  BY StillReadsOn
<1>5. \A again \in BOOLEAN, t \in 1 .. EoiWait : code # FromEdge(again, t)
  BY <1>4 DEF StillReads
<1>6. \A o \in BOOLEAN : code # FromTalkerReady(o) /\ code # FromReadDataHi(o)
  BY <1>4 DEF StillReads
<1>7. code # FromEoi /\ code # FromEoiClkHi
  BY <1>4 DEF StillReads
<1>8. \A i \in 0 .. Bits - 1, o \in BOOLEAN : code # FromSample(i, o) /\ code # FromEdgeEnd(i, o)
  BY <1>4 DEF StillReads
<1>9. Reading
  BY <1>1, <1>2 DEF Transfer
<1>10. AtReadDataLo \/ AtRead
  BY <1>3, <1>5, <1>6, <1>7, <1>8, <1>9
     DEF Reading, AtReadClkHi, AtTalkerReady, AtReadDataHi, AtEdge, AtLateEdge, AtEoiDataLo,
         AtEoiClkHi, AtEoiDataHi, AtSample, AtEdgeEnd
<1> QED BY <1>10 DEF AtReadDataLo, AtRead

LEMMA ReadingGoesOn ==
    ASSUME Reading
    PROVE  code # << >>
<1>1. \A c, x, s : Is(c, x, s) => c # << >>
  BY DEF Is
<1>2. CASE AtReadClkHi \/ (\E o \in BOOLEAN : AtTalkerReady(o)) \/ AtReadDataHi
  <2>1. FromReadClkHi # << >> /\ \A o : FromTalkerReady(o) # << >> /\ FromReadDataHi(o) # << >>
    BY <1>1, FromReadIs
  <2> QED BY <1>2, <2>1 DEF AtReadClkHi, AtTalkerReady, AtReadDataHi
<1>3. CASE \E t \in 1 .. EoiWait : AtEdge(t) \/ AtLateEdge(t)
  <2>1. \A o, t : FromEdge(o, t) # << >>
    BY <1>1, FromReadIs
  <2> QED BY <1>3, <2>1 DEF AtEdge, AtLateEdge
<1>4. CASE AtEoiDataLo \/ AtEoiClkHi \/ AtEoiDataHi
  <2>1. FromEoi # << >> /\ FromEoiClkHi # << >> /\ \A o : FromReadDataHi(o) # << >>
    BY <1>1, FromReadIs
  <2> QED BY <1>4, <2>1 DEF AtEoiDataLo, AtEoiClkHi, AtEoiDataHi
<1>5. CASE \E i \in 0 .. Bits - 1, o \in BOOLEAN : AtSample(i, o) \/ AtEdgeEnd(i, o)
  <2>1. \A i \in 0 .. Bits - 1, o \in BOOLEAN :
            FromSample(i, o) # << >> /\ FromEdgeEnd(i, o) # << >>
    BY <1>1, FromReadBitIs
  <2> QED BY <1>5, <2>1 DEF AtSample, AtEdgeEnd
<1>6. CASE AtReadDataLo \/ AtRead
  BY <1>1, <1>6, FromReadIs DEF AtReadDataLo, AtRead
<1> QED BY <1>2, <1>3, <1>4, <1>5, <1>6 DEF Reading

\* Nothing is going on.
LEMMA IdleIs ==
    ASSUME Transfer, Idle
    PROVE  cpu = Lines(TRUE, TRUE, TRUE) /\ (Calm(device) \/ Stale(device))
<1>1. Between
  BY SendingOver, EndingOver, ReadingGoesOn DEF Transfer, Idle, Midway
<1>2. calls = << >>
  BY DEF Idle
<1>3. calls # <<Untalk>> /\ ~ ReadsNext /\ calls # Talking
  <2>1. <<Untalk>> # << >> /\ <<Acptr, Untalk>> # << >> /\ Talking # << >>
    BY DEF Talking
  <2> QED BY <1>2, <2>1 DEF ReadsNext
<1> QED BY <1>1, <1>2, <1>3
        DEF Between, AtIdle, AtWriting, AtAddressing, AtTalking, AtReading, AtReadingDone,
            Writing, Addressing

(****************************************************************************)
(* An operation begins.                                                     *)
(****************************************************************************)
LEMMA CallIs ==
    /\ \A n \in {"command", "SECND", "TKSA", "ACPTR"}, b \in Byte : CallOf(n, b) \in AllCalls
    /\ ByteCalls \subseteq AllCalls
    /\ {NONE, LISTEN, TALK, ABSENT, UNLISTEN, UNTALK, DATA, CLOSE, OPEN} \subseteq Byte
<1>1. \A n \in {"command", "SECND", "TKSA", "ACPTR"}, b \in Byte : CallOf(n, b) \in AllCalls
  BY DEF CallOf, AllCalls
<1>2. {0, 1, 2, 3} \subseteq 0 .. Bits - 1
  BY BitsAssumption
<1>3. {NONE, LISTEN, TALK, ABSENT, UNLISTEN, UNTALK, DATA, CLOSE, OPEN} \subseteq Byte
  BY <1>2 DEF NONE, LISTEN, TALK, ABSENT, UNLISTEN, UNTALK, DATA, CLOSE, OPEN, Byte
<1> QED BY <1>1, <1>3 DEF AllCalls

LEMMA WritingBegins ==
    ASSUME NEW mid \in Seq(ByteCalls)
    PROVE  LET w == Joined(mid, <<Unlisten>>) IN Writing(w) /\ w \in Seq(AllCalls)
<1> DEFINE u == <<Unlisten>>  w == Joined(mid, u)  n == Len(mid)
<1>1. Unlisten \in AllCalls /\ ByteCalls \subseteq AllCalls
  BY CallIs DEF Unlisten
<1>2. u \in Seq(AllCalls) /\ Len(u) = 1 /\ u[1] = Unlisten
  BY <1>1
<1>3. mid \in Seq(AllCalls) /\ n \in Nat /\ \A i \in 1 .. n : mid[i] \in ByteCalls
  BY <1>1, ElementOfSeq, LenProperties
<1> HIDE DEF u, n
<1>4. w \in Seq(AllCalls)
  BY <1>2, <1>3, ConcatProperties DEF Joined
<1>5. Len(w) = n + 1 /\ w[n + 1] = Unlisten /\ \A i \in 1 .. n : w[i] = mid[i]
  <2>1. IsSeries(mid) /\ IsSeries(u)
    BY <1>2, <1>3 DEF IsSeries
  <2>2. /\ Len(mid \o u) = Len(mid) + Len(u)
        /\ \A k \in 1 .. Len(mid) : (mid \o u)[k] = mid[k]
        /\ \A k \in 1 .. Len(u) : (mid \o u)[Len(mid) + k] = u[k]
    BY <2>1, ConcatIs
  <2> DEFINE j == mid \o u
  <2>3. Len(j) = Len(mid) + Len(u)
    BY <2>2
  <2>4. \A k \in 1 .. Len(mid) : j[k] = mid[k]
    BY <2>2
  <2>5. \A k \in 1 .. Len(u) : j[Len(mid) + k] = u[k]
    BY <2>2
  <2>6. w = j
    BY DEF Joined
  <2> HIDE DEF j, w
  <2>7. j[n + 1] = Unlisten
    BY <1>2, <2>5 DEF n
  <2> QED BY <1>2, <2>3, <2>4, <2>6, <2>7 DEF n
<1> HIDE DEF w
<1>6. w # << >>
  BY <1>3, <1>4, <1>5, EmptySeq
<1>7. Writing(w)
  BY <1>3, <1>5, <1>6 DEF Writing
<1> QED BY <1>4, <1>7 DEF w, u

LEMMA AddressingBegins ==
    ASSUME NEW w \in Seq(AllCalls), Writing(w), NEW s \in {OPEN, DATA, CLOSE},
           NEW p \in {LISTEN, ABSENT}
    PROVE  LET o == Joined(<<CallOf("command", p)>>, Joined(<<CallOf("SECND", s)>>, w))
           IN  /\ Starts(o) /\ o \in Seq(AllCalls)
               /\ o[Len(o)] = Unlisten
<1> DEFINE a == Joined(<<CallOf("SECND", s)>>, w)
           o == Joined(<<CallOf("command", p)>>, a)
<1>1. CallOf("SECND", s) \in AllCalls /\ CallOf("command", p) \in AllCalls
  BY CallIs
<1>2. a \in Seq(AllCalls)
  BY <1>1, ConcatProperties DEF Joined
<1>3. Is(a, CallOf("SECND", s), w)
  BY IsStore DEF IsSeries
<1>4. Len(a) = Len(w) + 1 /\ \A i \in 1 .. Len(w) : a[i + 1] = w[i]
  <2> DEFINE x == CallOf("SECND", s)  c == <<x>> \o w
  <2>1. IsSeries(w)
    BY DEF IsSeries
  <2>2. Len(c) = Len(w) + 1 /\ \A i \in 1 .. Len(w) : c[i + 1] = w[i]
    BY <2>1, ConsIs
  <2> HIDE DEF x
  <2> QED BY <2>2 DEF Joined, x
<1> HIDE DEF a
<1>5. o \in Seq(AllCalls)
  BY <1>1, <1>2, ConcatProperties DEF Joined
<1>6. Is(o, CallOf("command", p), a)
  BY <1>2, IsStore DEF IsSeries
<1>7. Len(o) = Len(a) + 1 /\ \A i \in 1 .. Len(a) : o[i + 1] = a[i]
  <2> DEFINE x == CallOf("command", p)  c == <<x>> \o a
  <2>1. IsSeries(a)
    BY <1>2 DEF IsSeries
  <2>2. Len(c) = Len(a) + 1 /\ \A i \in 1 .. Len(a) : c[i + 1] = a[i]
    BY <2>1, ConsIs
  <2> HIDE DEF x
  <2> QED BY <2>2 DEF Joined, x
<1> HIDE DEF o
<1>8. Addressing(a)
  BY <1>3 DEF Addressing, Is
<1>9. Starts(o)
  BY <1>6, <1>8 DEF Starts, Is
<1>10. o[Len(o)] = Unlisten
  <2> DEFINE n == Len(w)
  <2>1. n \in Nat /\ n # 0 /\ w[n] = Unlisten
    BY LenProperties, EmptySeq DEF Writing
  <2> HIDE DEF n
  <2>2. Len(a) = n + 1 /\ Len(o) = n + 2 /\ n \in 1 .. n /\ n + 1 \in 1 .. n + 1
    BY <1>4, <1>7, <2>1 DEF n
  <2>3. a[n + 1] = w[n]
    BY <1>4, <2>2 DEF n
  <2>4. o[n + 1 + 1] = a[n + 1]
    BY <1>7, <2>2
  <2>5. n + 1 + 1 = n + 2
    BY <2>1
  <2> QED BY <2>1, <2>2, <2>3, <2>4, <2>5
<1> QED BY <1>5, <1>9, <1>10 DEF o, a

WellBegun(op) ==
    op \in Seq(AllCalls) /\ Starts(op) /\ op[Len(op)] \in {Unlisten, Untalk}
LEMMA MessageBegins ==
    ASSUME NEW s \in {OPEN, DATA, CLOSE}, NEW text \in Seq(Byte)
    PROVE  WellBegun(Message(s, text))
<1> DEFINE mid == [i \in 1 .. Len(text) |->
                      [name |-> "CIOUT", byte |-> text[i], last |-> i = Len(text)]]
           a == CallOf("command", LISTEN)
           b == CallOf("SECND", s)
           u == <<Unlisten>>
           w == Joined(mid, u)
           f == <<a, b>>
           o == Joined(<<a>>, Joined(<<b>>, w))
<1>1. mid \in Seq(ByteCalls)
  <2>1. Len(text) \in Nat /\ \A i \in 1 .. Len(text) : text[i] \in Byte
    BY LenProperties, ElementOfSeq
  <2>2. \A i \in 1 .. Len(text) :
            [name |-> "CIOUT", byte |-> text[i], last |-> i = Len(text)] \in ByteCalls
    BY <2>1 DEF ByteCalls
  <2> QED BY <2>1, <2>2
<1>2. Message(s, text) = Joined(Joined(f, mid), u)
  BY DEF Message, Joined, Unlisten
<1> HIDE DEF mid
<1>3. w \in Seq(AllCalls) /\ Writing(w)
  BY <1>1, WritingBegins
<1>4. Starts(o) /\ o \in Seq(AllCalls) /\ o[Len(o)] = Unlisten
  <2> HIDE DEF w
  <2>1. s \in {OPEN, DATA, CLOSE} /\ LISTEN \in {LISTEN, ABSENT}
    OBVIOUS
  <2> QED BY <1>3, <2>1, AddressingBegins
<1>5. IsSeries(f) /\ IsSeries(mid) /\ IsSeries(u)
  <2>1. IsSeries(mid)
    BY <1>1 DEF IsSeries
  <2>2. IsSeries(u)
    BY TupleIsASeq
  <2> HIDE DEF a, b
  <2>3. IsSeries(f)
    BY TwoIs
  <2> QED BY <2>1, <2>2, <2>3
<1>6. IsSeries(w)
  BY <1>5, JoinedIs
<1> HIDE DEF a, b, u
<1>7. Joined(Joined(f, mid), u) = Joined(f, w)
  BY <1>5, JoinedAgain
<1> HIDE DEF w
<1>8. Joined(f, w) = o
  BY <1>6, TwoJoined
<1> HIDE DEF o, f
<1>9. Message(s, text) = o
  BY <1>2, <1>7, <1>8
<1> QED BY <1>4, <1>9 DEF WellBegun

LEMMA AbsentBegins ==
    WellBegun(<<CallOf("command", ABSENT), CallOf("SECND", DATA), CallOf("command", UNLISTEN)>>)
<1> DEFINE a == CallOf("command", ABSENT)
           b == CallOf("SECND", DATA)
           w == <<Unlisten>>
           o == Joined(<<a>>, Joined(<<b>>, w))
<1>1. w \in Seq(AllCalls) /\ Writing(w)
  <2>1. Unlisten \in AllCalls
    BY CallIs DEF Unlisten
  <2>2. w # << >> /\ Len(w) = 1 /\ w[1] = Unlisten
    OBVIOUS
  <2> QED BY <2>1, <2>2 DEF Writing
<1>2. Starts(o) /\ o \in Seq(AllCalls) /\ o[Len(o)] = Unlisten
  <2> HIDE DEF w
  <2>1. DATA \in {OPEN, DATA, CLOSE} /\ ABSENT \in {LISTEN, ABSENT}
    OBVIOUS
  <2> QED BY <1>1, <2>1, AddressingBegins
<1>3. o = <<a, b, Unlisten>>
  <2> DEFINE u == Unlisten  z == <<b, u>>
  <2>1. IsSeries(<<u>>) /\ IsSeries(<< >>)
    BY TupleIsASeq
  <2> HIDE DEF a, b, u
  <2>2. Joined(<<b>>, <<u>>) = z
    BY TwoIs DEF Joined
  <2>3. IsSeries(z) /\ z = Joined(<<b>>, <<u>>)
    BY <2>2, TwoIs
  <2>4. \A x, y, w1 : <<x, y, w1>> = Joined(<<x>>, <<y, w1>>)
    BY DEF Joined
  <2>5. <<a, b, u>> = Joined(<<a>>, z)
    BY <2>4
  <2> QED BY <2>3, <2>5 DEF u
<1>4. WellBegun(o)
  <2> HIDE DEF o
  <2> QED BY <1>2 DEF WellBegun
<1> HIDE DEF o
<1> QED BY <1>3, <1>4 DEF Unlisten

LEMMA TalkBegins ==
    WellBegun(<<CallOf("command", TALK), CallOf("TKSA", DATA), CallOf("ACPTR", NONE),
                CallOf("command", UNTALK)>>)
<1> DEFINE a == CallOf("command", TALK)
           b == CallOf("TKSA", DATA)
           o == <<a, b, Acptr, Untalk>>
<1>1. a \in AllCalls /\ b \in AllCalls /\ Acptr \in AllCalls /\ Untalk \in AllCalls
  BY CallIs DEF Acptr, Untalk
<1>2. Talking = <<b, Acptr, Untalk>>
  BY DEF Talking
<1>3. \A x, y, z, w \in AllCalls :
         LET c == <<x, y, z, w>>
         IN  /\ c \in Seq(AllCalls) /\ Head(c) = x /\ c # << >> /\ Len(c) = 4 /\ c[4] = w
             /\ Tail(c) = <<y, z, w>>
  OBVIOUS
<1> HIDE DEF a, b
<1>4. /\ o \in Seq(AllCalls) /\ Head(o) = a /\ o # << >> /\ Len(o) = 4 /\ o[4] = Untalk
      /\ Tail(o) = <<b, Acptr, Untalk>>
  BY <1>1, <1>3
<1> HIDE DEF o
<1>5. Starts(o)
  BY <1>2, <1>4 DEF Starts, a
<1>6. WellBegun(o)
  BY <1>4, <1>5 DEF WellBegun
<1> QED BY <1>6 DEF o, a, b, Acptr, Untalk

LEMMA OperationBegins ==
    ASSUME NEW op \in Operations
    PROVE  WellBegun(op)
<1>1. Names \subseteq Seq(Byte) /\ Texts \subseteq Seq(Byte) /\ << >> \in Seq(Byte)
  BY BytesAssumption
<1>2. /\ OPEN \in {OPEN, DATA, CLOSE} /\ DATA \in {OPEN, DATA, CLOSE}
      /\ CLOSE \in {OPEN, DATA, CLOSE}
  OBVIOUS
<1>3. CASE op \in {Message(OPEN, n) : n \in Names}
  <2>1. PICK n \in Names : op = Message(OPEN, n)
    BY <1>3
  <2>2. n \in Seq(Byte)
    BY <1>1
  <2>3. WellBegun(Message(OPEN, n))
    BY <1>2, <2>2, MessageBegins
  <2> QED BY <2>1, <2>3
<1>4. CASE op \in {Message(DATA, t) : t \in Texts}
  <2>1. PICK t \in Texts : op = Message(DATA, t)
    BY <1>4
  <2>2. t \in Seq(Byte)
    BY <1>1
  <2>3. WellBegun(Message(DATA, t))
    BY <1>2, <2>2, MessageBegins
  <2> QED BY <2>1, <2>3
<1>5. CASE op = Message(CLOSE, << >>)
  <2>1. WellBegun(Message(CLOSE, << >>))
    BY <1>1, <1>2, MessageBegins
  <2> QED BY <1>5, <2>1
<1> QED BY <1>3, <1>4, <1>5, AbsentBegins, TalkBegins DEF Operations

LEMMA TakenNone ==
    ASSUME TypeOK, NEW v, v = [device EXCEPT !.taken = << >>]
    PROVE  /\ v \in Devices /\ Reads1(v) /\ v.taken = << >> /\ Shape(v)
           /\ v.enabled = device.enabled /\ v.flags = device.flags
           /\ v.clk = device.clk /\ v.data = device.data
           /\ Level(device) => Level(v)
           /\ Calm(device) => Calm(v)
           /\ Stale(device) => Stale(v)
<1>1. Typed(device) /\ Reads1(device) /\ device \in Devices
  BY TypedIs DEF TypeOK
<1>2. << >> \in Seq(Byte)
  OBVIOUS
<1>3. v \in Devices
  BY <1>1, <1>2 DEF Devices
<1>4. Shape(device)
  BY <1>1 DEF Typed
<1>5. /\ Shape(v) /\ v.enabled = device.enabled /\ v.flags = device.flags
      /\ v.state = device.state /\ v.bit = device.bit /\ v.primary = device.primary
      /\ v.clk = device.clk /\ v.data = device.data /\ v.mode = device.mode
      /\ v.file = device.file /\ v.pos = device.pos /\ v.got = device.got
      /\ v.lossy = device.lossy /\ v.isopen = device.isopen /\ v.taken = << >>
  BY <1>4 DEF Shape, Fields
<1>6. Reads1(v)
  BY <1>1, <1>5 DEF Reads1
<1>7. Level(device) => Level(v)
  BY <1>5 DEF Level, GotRight
<1>8. \A f : With(device, f) => With(v, f)
  BY <1>5, <1>7 DEF With
<1>9. \A f : Under(device, f) => Under(v, f)
  BY <1>5, <1>7 DEF Under
<1>10. /\ \A s : InState(device, s) => InState(v, s)
       /\ \A s, i : InBit(device, s, i) => InBit(v, s, i)
       /\ HoldsData(device) => HoldsData(v)
       /\ Free(device) => Free(v)
  BY <1>5 DEF InState, InBit, HoldsData, Free
<1>11. Deaf(device) => Deaf(v)
  BY <1>8, <1>10 DEF Deaf, Silent
<1>12. Calm(device) => Calm(v)
  BY <1>8, <1>10, <1>11 DEF Calm
<1>13. Stale(device) => Stale(v)
  BY <1>5, <1>9, <1>10 DEF Stale
<1> QED BY <1>3, <1>5, <1>6, <1>7, <1>12, <1>13

LEMMA NoneTaken ==
    ASSUME sent = << >>, device.taken = << >>
    PROVE  SentIsTaken
<1>1. \A s : s = << >> => IsPrefix(s, s) /\ Len(s) <= Len(s) + 1
  BY DEF IsPrefix
<1> QED BY <1>1 DEF SentIsTaken

LEMMA TypeBegin ==
    ASSUME TypeOK, NEW op \in Operations, Begin(op)
    PROVE  TypeOK'
<1>1. device' \in Devices /\ Reads1(device')
  BY TakenNone DEF Begin
<1>2. op \in Seq(AllCalls)
  BY OperationBegins DEF WellBegun
<1>3. \E a, c, d \in BOOLEAN : cpu' = Lines(a, c, d)
  BY DEF TypeOK, Begin
<1>4. << >> \in Seq(Byte)
  OBVIOUS
<1> QED BY <1>1, <1>2, <1>3, <1>4 DEF TypeOK, Begin, CodeOK

LEMMA IdleEnds ==
    ASSUME KernalInv, Idle
    PROVE  cpu = Lines(TRUE, TRUE, TRUE)
<1>1. LetsGo /\ code = << >>
  BY DEF KernalInv, Idle, Ends
<1>2. ~ EndsWith(<< >>)
  BY DEF EndsWith
<1>3. /\ \A x : <<x>> # << >>
      /\ LetGo # << >>
  BY FinishIs DEF Is
<1> QED BY <1>1, <1>2, <1>3 DEF LetsGo

LEMMA BeginStep ==
    ASSUME TransferInv, NEW op \in Operations, Begin(op)
    PROVE  TransferInv'
<1>1. TypeOK /\ KernalInv /\ Idle
  BY DEF TransferInv, Begin
<1>2. TypeOK'
  BY <1>1, TypeBegin
<1>3. /\ device' = [device EXCEPT !.taken = << >>] /\ calls' = op /\ eoi' = FALSE
      /\ sent' = << >> /\ code' = << >> /\ code = << >> /\ cpu' = cpu /\ meddled' = FALSE
  BY DEF Begin, Idle
<1>4. /\ device'.taken = << >> /\ device'.enabled = device.enabled
      /\ device'.flags = device.flags /\ device'.clk = device.clk
      /\ device'.data = device.data
      /\ Level(device) => Level(device')
      /\ Calm(device) => Calm(device')
      /\ Stale(device) => Stale(device')
  BY <1>1, <1>3, TakenNone
<1>5. /\ Starts(calls)' /\ ~ Ends' /\ LastLetsGo'
  <2>1. WellBegun(op)
    BY OperationBegins
  <2>2. Starts(op) /\ op # << >> /\ op[Len(op)] \in {Unlisten, Untalk}
    BY <2>1 DEF WellBegun, Starts
  <2>3. calls' # << >> /\ calls'[Len(calls')] \in {Unlisten, Untalk}
    BY <1>3, <2>2
  <2>4. Starts(calls') <=> Starts(calls)'
    BY DEF Starts, Addressing, Writing
  <2>5. Starts(calls')
    BY <1>3, <2>2
  <2> QED BY <2>3, <2>4, <2>5 DEF LastLetsGo, Ends
<1>6. SentIsTaken'
  <2>1. \A s : s = << >> => IsPrefix(s, s) /\ Len(s) <= Len(s) + 1
    BY DEF IsPrefix
  <2> QED BY <1>3, <1>4, <2>1 DEF SentIsTaken
<1>7. KernalInv'
  <2>1. ReadsInv'
    <3>1. << >> \in Seq(Plain)
      OBVIOUS
    <3> QED BY <1>3, <3>1 DEF ReadsInv, ReadsNothing
  <2> QED BY <1>5, <2>1 DEF KernalInv
<1>8. CASE device.enabled
  <2>1. cpu = Lines(TRUE, TRUE, TRUE) /\ (Calm(device) \/ Stale(device))
    BY <1>1, <1>8, IdleIs DEF TransferInv
  <2>2. cpu' = Lines(TRUE, TRUE, TRUE) /\ (Calm(device') \/ Stale(device'))
    BY <1>3, <1>4, <2>1
  <2>3. Calm(device)' \/ Stale(device)'
    BY <2>2
  <2>4. Even(device)'
    BY <1>3, <1>4 DEF Even
  <2>5. AtIdle'
    BY <1>3, <1>5, <2>2, <2>4 DEF AtIdle
  <2>6. Transfer'
    BY <1>3, <2>5 DEF Transfer, Between
  <2> QED BY <1>2, <1>4, <1>6, <1>7, <1>8, <2>6 DEF TransferInv
<1>9. CASE ~ device.enabled
  <2>1. Off
    BY <1>9 DEF TransferInv
  <2>2. ~ device'.enabled /\ device'.flags = {} /\ Free(device') /\ Level(device')
    BY <1>4, <2>1 DEF Off, Free
  <2>3. code' \notin HandsOver
    BY <1>3, HandsOverIs
  <2>4. NoAnswer'
    BY <1>3, <1>4, <1>5 DEF NoAnswer
  <2>5. Off'
    BY <2>2, <2>3, <2>4 DEF Off
  <2> QED BY <1>2, <1>6, <1>7, <2>2, <2>5 DEF TransferInv
<1> QED BY <1>8, <1>9

(****************************************************************************)
(* The machine is reset, and the device switched off and on.                *)
(****************************************************************************)
LEMMA ForgetsIs ==
    ASSUME NEW u \in Devices
    PROVE  LET v == Forgets(u)
           IN  /\ v \in Devices /\ v.flags = {} /\ v.clk = TRUE /\ v.data = TRUE
               /\ v.enabled = u.enabled /\ v.mode = u.mode /\ v.isopen = u.isopen
               /\ v.pos = u.pos /\ v.file = u.file /\ v.got = u.got
               /\ v.lossy = u.lossy /\ v.taken = u.taken
<1> DEFINE w == [u EXCEPT !.flags = {}, !.timeout = 0, !.state = "PRE0", !.bit = 0,
                          !.byte = {}, !.primary = NONE, !.secondary = NONE,
                          !.secondary_prev = NONE]
           v == Forgets(u)
<1>1. Shape(u)
  BY TypedIs DEF Typed
<1>2. /\ {} \in SUBSET {"ATN", "LISTENING", "TALKING"} /\ 0 \in Nat
      /\ "PRE0" \in States /\ 0 \in 0 .. Bits - 1 /\ {} \in Byte /\ NONE \in Byte
  BY BitsAssumption DEF States, Byte, NONE
<1>3. w \in Devices
  BY <1>2 DEF Devices
<1>4. /\ Shape(w) /\ w.flags = {}
      /\ w.enabled = u.enabled /\ w.mode = u.mode /\ w.isopen = u.isopen
      /\ w.pos = u.pos /\ w.file = u.file /\ w.got = u.got
      /\ w.lossy = u.lossy /\ w.taken = u.taken
  BY <1>1, ZenonT(40) DEF Shape, Fields
<1>5. v = [w EXCEPT !.clk = TRUE, !.data = TRUE]
  BY DEF Forgets, Release, Pull
<1> HIDE DEF w, v
<1>6. v \in Devices
  BY <1>3, <1>5 DEF Devices
<1>7. /\ v.flags = w.flags /\ v.clk = TRUE /\ v.data = TRUE
      /\ v.enabled = w.enabled /\ v.mode = w.mode /\ v.isopen = w.isopen
      /\ v.pos = w.pos /\ v.file = w.file /\ v.got = w.got
      /\ v.lossy = w.lossy /\ v.taken = w.taken
  BY <1>4, <1>5 DEF Shape, Fields
<1>8. /\ v.flags = {} /\ v.enabled = u.enabled /\ v.mode = u.mode /\ v.isopen = u.isopen
      /\ v.pos = u.pos /\ v.file = u.file /\ v.got = u.got
      /\ v.lossy = u.lossy /\ v.taken = u.taken
  BY <1>4, <1>7
<1> QED BY <1>6, <1>7, <1>8 DEF v

\* The channel is closed as well.
LEMMA ResetIs ==
    ASSUME TypeOK, Reset
    PROVE  /\ device' \in Devices /\ device'.mode # "read"
           /\ device'.enabled = device.enabled
           /\ device.enabled => device'.flags = {} /\ Free(device')
           /\ ~ device.enabled => device'.flags = device.flags /\ device'.clk = device.clk
                                  /\ device'.data = device.data
<1> DEFINE u == device
           f == Forgets(u)
           s == [f EXCEPT !.st = OK]
           w == IF u.enabled THEN s ELSE u
           m == IF u.isopen # 0 THEN "none" ELSE w.mode
           v == [w EXCEPT !.isopen = 0, !.mode = m]
<1>1. u \in Devices /\ Reads1(u) /\ Shape(u)
  BY TypedIs DEF TypeOK, Typed
<1>2. /\ f \in Devices /\ f.flags = {} /\ f.clk = TRUE /\ f.data = TRUE
      /\ f.enabled = u.enabled /\ f.mode = u.mode
  BY <1>1, ForgetsIs
<1>3. device' = v
  BY DEF Reset
<1> HIDE DEF f
<1>4. Shape(f)
  BY <1>2, TypedIs DEF Typed
<1>5. s \in Devices
  BY <1>2 DEF Devices
<1>6. /\ s.flags = f.flags /\ s.clk = f.clk /\ s.data = f.data /\ s.enabled = f.enabled
      /\ s.mode = f.mode
  BY <1>4 DEF Shape, Fields
<1> HIDE DEF s
<1>7. /\ w \in Devices /\ w.mode = u.mode /\ w.enabled = u.enabled
      /\ u.enabled => w.flags = {} /\ w.clk = TRUE /\ w.data = TRUE
      /\ ~ u.enabled => w.flags = u.flags /\ w.clk = u.clk /\ w.data = u.data
  BY <1>1, <1>2, <1>5, <1>6
<1>8. w.mode \in {"read", "write", "none"}
  BY <1>7, TypedIs DEF Typed
<1>9. m \in {"write", "none"}
  <2>1. CASE u.isopen # 0
    BY <2>1
  <2>2. CASE u.isopen = 0
    <3>1. u.mode # "read"
      BY <1>1, <2>2 DEF Reads1
    <3> QED BY <1>7, <1>8, <2>2, <3>1
  <2> QED BY <2>1, <2>2
<1> HIDE DEF w, m
<1>10. v \in Devices
  <2>1. m \in {"read", "write", "none"} /\ 0 \in 0 .. 2 /\ w \in Devices
    BY <1>7, <1>9
  <2> QED BY <2>1 DEF Devices
<1>11. Shape(w)
  BY <1>7, TypedIs DEF Typed
<1>12. /\ v.mode = m /\ v.flags = w.flags /\ v.clk = w.clk /\ v.data = w.data
       /\ v.enabled = w.enabled
  BY <1>11 DEF Shape, Fields
<1> HIDE DEF v
<1> QED BY <1>3, <1>7, <1>9, <1>10, <1>12 DEF Free

LEMMA ResetStep ==
    ASSUME TransferInv, Reset
    PROVE  TransferInv'
<1>1. TypeOK
  BY DEF TransferInv
<1>2. /\ device' \in Devices /\ device'.mode # "read"
      /\ device'.enabled = device.enabled
      /\ device.enabled => device'.flags = {} /\ Free(device')
      /\ ~ device.enabled => device'.flags = device.flags /\ device'.clk = device.clk
                             /\ device'.data = device.data
  BY <1>1, ResetIs
<1>3. /\ code' = <<Store(High)>> /\ calls' = << >> /\ eoi' = FALSE /\ input' = {}
      /\ meddled' = TRUE /\ cpu' = cpu /\ sent' = sent /\ held' = held
  BY DEF Reset
<1>4. code' \in Seq(Plain) /\ code' \in Seq(Accesses)
  BY <1>3, FinishFine, PlainIs
<1>5. TypeOK'
  <2>1. Reads1(device')
    BY <1>2 DEF Reads1
  <2>2. << >> \in Seq(AllCalls) /\ {} \in Byte
    BY DEF Byte
  <2>3. \E a, c, d \in BOOLEAN : cpu' = Lines(a, c, d)
    BY <1>1, <1>3 DEF TypeOK
  <2>4. sent' \in Seq(Byte) /\ held' \in BOOLEAN /\ meddled' \in BOOLEAN
    BY <1>1, <1>3 DEF TypeOK
  <2> QED BY <1>2, <1>3, <1>4, <2>1, <2>2, <2>3, <2>4 DEF TypeOK, CodeOK
<1>6. KernalInv'
  BY <1>3, <1>4 DEF KernalInv, LastLetsGo, ReadsInv, ReadsNothing, LetsGo
<1>7. SentIsTaken'
  BY <1>3 DEF SentIsTaken
<1>8. Level(device')
  BY <1>2 DEF Level
<1>9. CASE device.enabled
  <2>1. Silent(device')
    BY <1>2, <1>8, <1>9 DEF Silent, With
  <2>2. \E a, c, d \in BOOLEAN : cpu' = Lines(a, c, d)
    BY <1>5 DEF TypeOK
  <2>3. AtReset'
    BY <1>3, <2>1, <2>2 DEF AtReset, Ends
  <2>4. Transfer'
    BY <2>3 DEF Transfer, Ending
  <2> QED BY <1>2, <1>5, <1>6, <1>7, <1>9, <2>4 DEF TransferInv
<1>10. CASE ~ device.enabled
  <2>1. Off
    BY <1>10 DEF TransferInv
  <2>2. device'.flags = {} /\ Free(device')
    BY <1>2, <1>10, <2>1 DEF Off, Free
  <2>3. Off'
    BY <1>2, <1>3, <1>8, <1>10, <2>2 DEF Off
  <2> QED BY <1>2, <1>5, <1>6, <1>7, <1>10, <2>3 DEF TransferInv
<1> QED BY <1>9, <1>10

\* Switched off, whatever it was doing.
LEMMA SwitchedOff ==
    ASSUME TypeOK, Transfer, device.enabled, Switch
    PROVE  TypeOK' /\ Off'
<1> DEFINE u == device
           f == Forgets(u)
           lost == u.lossy \/ u.pos > Len(u.got)
           v == [f EXCEPT !.enabled = FALSE, !.lossy = @ \/ u.pos > Len(u.got)]
<1>1. u \in Devices /\ Reads1(u) /\ Typed(u)
  BY TypedIs DEF TypeOK
<1>2. /\ f \in Devices /\ f.flags = {} /\ f.clk = TRUE /\ f.data = TRUE
      /\ f.mode = u.mode /\ f.isopen = u.isopen /\ f.pos = u.pos /\ f.file = u.file
      /\ f.got = u.got /\ f.lossy = u.lossy /\ f.taken = u.taken
  BY <1>1, ForgetsIs
<1>3. device' = v /\ meddled' = TRUE /\ UNCHANGED <<cpu, code, calls, eoi, input, sent, held>>
  BY DEF Switch, kernal
<1> HIDE DEF f
<1>4. Shape(f)
  BY <1>2, TypedIs DEF Typed
<1>5. lost \in BOOLEAN /\ FALSE \in BOOLEAN
  BY <1>1 DEF Typed
<1>6. v = [f EXCEPT !.enabled = FALSE, !.lossy = lost]
  BY <1>2
<1> HIDE DEF lost, v
<1>7. v \in Devices
  BY <1>2, <1>5, <1>6 DEF Devices
<1>8. /\ v.enabled = FALSE /\ v.lossy = lost /\ v.flags = {} /\ v.clk = TRUE /\ v.data = TRUE
      /\ v.mode = u.mode /\ v.isopen = u.isopen /\ v.pos = u.pos /\ v.file = u.file
      /\ v.got = u.got
  BY <1>2, <1>4, <1>6 DEF Shape, Fields
<1>9. Reads1(v)
  BY <1>1, <1>8 DEF Reads1
<1>10. TypeOK'
  <2>1. device' \in Devices /\ Reads1(device')
    BY <1>3, <1>7, <1>9
  <2>2. code' = code /\ cpu' = cpu /\ calls' = calls /\ eoi' = eoi /\ input' = input
    BY <1>3
  <2>3. sent' = sent /\ held' = held /\ meddled' \in BOOLEAN
    BY <1>3
  <2> QED BY <2>1, <2>2, <2>3 DEF TypeOK, CodeOK
<1>11. Level(u) \/ Ahead(u)
  BY HeldIs DEF Held
<1>12. u.pos \in Nat /\ Len(u.got) \in Nat
  BY <1>1, LenProperties DEF Typed
<1>13. Ahead(u) => lost
  BY <1>12 DEF lost, Ahead
<1>14. Level(v)
  <2>1. ASSUME v.mode = "read", ~ v.lossy
        PROVE  v.pos = Len(v.got) /\ GotRight(v)
    <3>1. ~ lost /\ u.mode = "read"
      BY <1>8, <2>1
    <3>2. Level(u) /\ ~ u.lossy
      BY <1>11, <1>13, <3>1 DEF lost
    <3>3. u.pos = Len(u.got) /\ GotRight(u)
      BY <3>1, <3>2 DEF Level
    <3> QED BY <1>8, <3>3 DEF GotRight
  <2> QED BY <2>1 DEF Level
<1>15. code \in HandsOver => v.lossy
  <2>1. code \in HandsOver => Ahead(u)
    BY OverIs DEF HasSent, TalksAhead
  <2> QED BY <1>8, <1>13, <2>1
<1>16. ~ device'.enabled /\ device'.flags = {} /\ Free(device') /\ Level(device')
  BY <1>3, <1>8, <1>14 DEF Free
<1>17. code' \in HandsOver /\ device'.mode = "read" => device'.lossy
  BY <1>3, <1>15
<1>18. Off'
  BY <1>3, <1>16, <1>17 DEF Off
<1> QED BY <1>10, <1>18

\* Switched on between two operations.
LEMMA SwitchedOn ==
    ASSUME TypeOK, KernalInv, Off, Switch
    PROVE  TypeOK' /\ Transfer' /\ device'.enabled
<1> DEFINE u == device
           v == [u EXCEPT !.enabled = TRUE, !.st = OK]
<1>1. u \in Devices /\ Reads1(u) /\ Shape(u)
  BY TypedIs DEF TypeOK, Typed
<1>2. /\ ~ u.enabled /\ u.flags = {} /\ Free(u) /\ Level(u)
  BY DEF Off
<1>3. /\ device' = v /\ meddled' = TRUE /\ Idle
      /\ UNCHANGED <<cpu, code, calls, eoi, input, sent, held>>
  BY <1>2 DEF Switch, kernal
<1>4. v \in Devices
  BY <1>1 DEF Devices
<1>5. /\ v.enabled = TRUE /\ v.flags = u.flags /\ v.clk = u.clk /\ v.data = u.data
      /\ v.mode = u.mode /\ v.isopen = u.isopen /\ v.pos = u.pos /\ v.file = u.file
      /\ v.got = u.got /\ v.lossy = u.lossy
  BY <1>1 DEF Shape, Fields
<1> HIDE DEF v
<1>6. Reads1(v)
  BY <1>1, <1>5 DEF Reads1
<1>7. TypeOK'
  <2>1. device' \in Devices /\ Reads1(device')
    BY <1>3, <1>4, <1>6
  <2>2. code' = code /\ cpu' = cpu /\ calls' = calls /\ eoi' = eoi /\ input' = input
    BY <1>3
  <2>3. sent' = sent /\ held' = held /\ meddled' \in BOOLEAN
    BY <1>3
  <2> QED BY <2>1, <2>2, <2>3 DEF TypeOK, CodeOK
<1>8. Silent(v)
  <2>1. Level(v) /\ Free(v)
    BY <1>2, <1>5 DEF Level, GotRight, Free
  <2> QED BY <1>2, <1>5, <2>1 DEF Silent, With
<1>9. Calm(device')
  BY <1>3, <1>8 DEF Calm, Deaf
<1>10. cpu' = Lines(TRUE, TRUE, TRUE) /\ code' = << >> /\ calls' = << >>
  BY <1>3, IdleEnds DEF Idle
<1>11. AtIdle'
  BY <1>9, <1>10 DEF AtIdle, Ends
<1>12. Transfer'
  BY <1>10, <1>11 DEF Transfer, Between
<1> QED BY <1>3, <1>5, <1>7, <1>12

LEMMA SwitchStep ==
    ASSUME TransferInv, Switch
    PROVE  TransferInv'
<1>1. TypeOK /\ KernalInv
  BY DEF TransferInv
<1>2. SentIsTaken'
  BY DEF Switch, SentIsTaken
<1>3. code' = code /\ calls' = calls /\ cpu' = cpu
  BY DEF Switch, kernal
<1>4. KernalInv'
  BY <1>1, <1>3 DEF KernalInv, LastLetsGo, ReadsInv, ReadsNothing, ReadsOn, Ends, LetsGo
<1>5. CASE device.enabled
  <2>1. TypeOK' /\ Off'
    BY <1>1, <1>5, SwitchedOff DEF TransferInv
  <2>2. ~ device'.enabled
    BY <2>1 DEF Off
  <2> QED BY <1>2, <1>4, <2>1, <2>2 DEF TransferInv
<1>6. CASE ~ device.enabled
  <2>1. TypeOK' /\ Transfer' /\ device'.enabled
    BY <1>1, <1>6, SwitchedOn DEF TransferInv
  <2> QED BY <1>2, <1>4, <2>1 DEF TransferInv
<1> QED BY <1>5, <1>6

LEMMA TransferInit ==
    ASSUME Init
    PROVE  TransferInv
<1>1. /\ cpu = High /\ code = << >> /\ calls = << >> /\ eoi = FALSE /\ input = {}
      /\ sent = << >> /\ held = FALSE /\ meddled = FALSE
      /\ device.enabled = TRUE /\ device.flags = {} /\ device.clk = TRUE /\ device.data = TRUE
      /\ device.mode = "none" /\ device.taken = << >>
  BY DEF Init
<1>2. device \in Devices
  <2>1. /\ {} \in SUBSET {"ATN", "LISTENING", "TALKING"} /\ 0 \in Nat
        /\ "PRE0" \in States /\ 0 \in 0 .. Bits - 1 /\ {} \in Byte /\ NONE \in Byte
        /\ OK \in {OK, EOF, FAIL} /\ 0 \in 0 .. 2 /\ << >> \in Seq(Byte)
        /\ << >> \in Files \union {<< >>} /\ << >> \in Seq(Entries)
        /\ "none" \in {"read", "write", "none"} /\ TRUE \in BOOLEAN /\ FALSE \in BOOLEAN
    BY BitsAssumption DEF States, Byte, NONE
  <2> HIDE DEF States, Byte, NONE, OK, EOF, FAIL, Entries
  <2> QED BY <2>1 DEF Init, Devices
<1>3. cpu = Lines(TRUE, TRUE, TRUE)
  BY <1>1 DEF High, Lines
<1>4. TypeOK
  <2>1. Reads1(device)
    BY <1>1 DEF Reads1
  <2>2. /\ << >> \in Seq(Accesses) /\ << >> \in Seq(AllCalls) /\ {} \in Byte
        /\ << >> \in Seq(Byte)
    BY DEF Byte
  <2>3. \E a, c, d \in BOOLEAN : cpu = Lines(a, c, d)
    BY <1>3
  <2> QED BY <1>1, <1>2, <2>1, <2>2, <2>3 DEF TypeOK, CodeOK
<1>5. SentIsTaken
  BY <1>1, NoneTaken
<1>6. KernalInv
  <2>1. << >> \in Seq(Plain)
    OBVIOUS
  <2> QED BY <1>1, <1>3, <2>1 DEF KernalInv, LastLetsGo, ReadsInv, ReadsNothing, LetsGo
<1>7. Silent(device)
  BY <1>1 DEF Silent, With, Level, Free
<1>8. Transfer
  BY <1>1, <1>3, <1>7 DEF Transfer, Between, AtIdle, Ends, Calm, Deaf
<1> QED BY <1>1, <1>4, <1>5, <1>6, <1>8 DEF TransferInv

\* A step that changes nothing.
LEMMA SendingStays ==
    ASSUME UNCHANGED vars, NEW m \in Messages, Sending(m)
    PROVE  Sending(m)'
<1>1. /\ code' = code /\ calls' = calls /\ cpu' = cpu /\ device' = device /\ eoi' = eoi
      /\ input' = input /\ sent' = sent
  BY DEF vars, kernal
<1>2. CallsAfter(m)' <=> CallsAfter(m)
  BY <1>1, CallsKept
<1>3. Even(device)' <=> Even(device)
  BY <1>1 DEF Even
<1>4. /\ UnderAtn(device, m) => UnderAtn(device, m)'
      /\ Asked(device, m) => Asked(device, m)'
      /\ Answers0(device, m) => Answers0(device, m)'
      /\ Receives(device, m) => Receives(device, m)'
      /\ Holds(device, m) => Holds(device, m)'
      /\ \A i : Has(device, m, i) => Has(device, m, i)'
  BY <1>1, SentKept
<1>5. CASE AtCommand(m) \/ AtAtnLo(m) \/ AtUnlisten(m) \/ AtUnlistenClkHi(m)
           \/ AtUnlistenAtnLo(m)
  <2>1. \/ AtCommand(m)' \/ AtAtnLo(m)' \/ AtUnlisten(m)' \/ AtUnlistenClkHi(m)'
        \/ AtUnlistenAtnLo(m)'
    BY <1>1, <1>2, <1>3, <1>5 DEF AtCommand, AtAtnLo, AtUnlisten, AtUnlistenClkHi,
        AtUnlistenAtnLo, Unlistens
  <2> QED BY <2>1 DEF Sending
<1>6. CASE AtUntalk(m) \/ AtUntalkAtnLo(m) \/ AtUntalkDataHi(m) \/ AtUntalkAgain(m)
  <2>1. AtUntalk(m)' \/ AtUntalkAtnLo(m)' \/ AtUntalkDataHi(m)' \/ AtUntalkAgain(m)'
    BY <1>1, <1>2, <1>4, <1>6 DEF AtUntalk, AtUntalkAtnLo, AtUntalkDataHi, AtUntalkAgain, Untalks
  <2> QED BY <2>1 DEF Sending
<1>7. CASE AtAddress(m) \/ AtPause(m)
  <2>1. AtAddress(m)' \/ AtPause(m)'
    BY <1>1, <1>2, <1>3, <1>4, <1>7 DEF AtAddress, AtPause
  <2> QED BY <2>1 DEF Sending
<1>8. CASE AtLetGo(m) \/ AtNeed(m) \/ AtClkHi(m)
  <2>1. AtLetGo(m)' \/ AtNeed(m)' \/ AtClkHi(m)'
    BY <1>1, <1>2, <1>3, <1>4, <1>8 DEF AtLetGo, AtNeed, AtClkHi
  <2> QED BY <2>1 DEF Sending
<1>9. CASE \E o \in BOOLEAN : AtEoi1(m, o) \/ AtEoi2(m, o) \/ AtReady(m, o)
  <2>1. \E o \in BOOLEAN : AtEoi1(m, o)' \/ AtEoi2(m, o)' \/ AtReady(m, o)'
    BY <1>1, <1>2, <1>4, <1>9 DEF AtEoi1, AtEoi2, AtReady
  <2> QED BY <2>1 DEF Sending
<1>10. CASE AtClkLo(m)
  <2>1. AtClkLo(m)'
    BY <1>1, <1>2, <1>4, <1>10 DEF AtClkLo
  <2> QED BY <2>1 DEF Sending
<1>11. CASE \E i \in 0 .. Bits - 1 :
              AtNeedBit(m, i) \/ AtBitData(m, i) \/ AtBitClkHi(m, i) \/ AtBitClkLo(m, i)
  <2>1. PICK i \in 0 .. Bits - 1 :
              AtNeedBit(m, i) \/ AtBitData(m, i) \/ AtBitClkHi(m, i) \/ AtBitClkLo(m, i)
    BY <1>11
  <2>2. AtNeedBit(m, i)' \/ AtBitData(m, i)' \/ AtBitClkHi(m, i)' \/ AtBitClkLo(m, i)'
    BY <1>1, <1>2, <1>4, <2>1 DEF AtNeedBit, AtBitData, AtBitClkHi, AtBitClkLo
  <2> QED BY <2>2 DEF Sending
<1>12. CASE \E t \in 1 .. AckWait : AtAck(m, t)
  <2>1. PICK t \in 1 .. AckWait : AtAck(m, t)
    BY <1>12
  <2>2. AtAck(m, t)'
    BY <1>1, <1>2, <1>4, <2>1 DEF AtAck
  <2> QED BY <2>2 DEF Sending
<1> QED BY <1>5, <1>6, <1>7, <1>8, <1>9, <1>10, <1>11, <1>12 DEF Sending

LEMMA PlaceStays ==
    ASSUME UNCHANGED vars
    PROVE  /\ Ending => Ending'
           /\ Reading => Reading'
           /\ Between => Between'
<1>1. /\ code' = code /\ calls' = calls /\ cpu' = cpu /\ device' = device /\ eoi' = eoi
      /\ input' = input /\ sent' = sent
  BY DEF vars, kernal
<1>2. /\ Even(device)' <=> Even(device)
      /\ Ends' <=> Ends
      /\ Writing(calls)' <=> Writing(calls)
      /\ Addressing(calls)' <=> Addressing(calls)
      /\ Starts(calls)' <=> Starts(calls)
      /\ ReadsNext' <=> ReadsNext
  BY <1>1 DEF Even, Ends, Writing, Addressing, Starts, ReadsNext
<1>3. WritesNext' <=> WritesNext
  BY <1>2 DEF WritesNext
<1>4. AfterFail' <=> AfterFail
  BY <1>1, <1>2, <1>3 DEF AfterFail
<1>5. ASSUME Ending PROVE Ending'
  <2>1. CASE AtSecondDone \/ AtTurn \/ (\E o \in BOOLEAN : AtTurned(o))
    <3>1. AtSecondDone' \/ AtTurn' \/ (\E o \in BOOLEAN : AtTurned(o)')
      BY <1>1, <1>2, <2>1 DEF AtSecondDone, AtTurn, AtTurned
    <3> QED BY <3>1 DEF Ending
  <2>2. CASE AtFinish
    <3>1. AtFinish'
      BY <1>1, <1>2, <1>3, <1>4, <2>2 DEF AtFinish
    <3> QED BY <3>1 DEF Ending
  <2>3. CASE AtFinishPause
    <3>1. AtFinishPause'
      BY <1>1, <1>2, <1>3, <1>4, <2>3 DEF AtFinishPause
    <3> QED BY <3>1 DEF Ending
  <2>4. CASE AtFinishDataHi
    <3>1. AtFinishDataHi'
      BY <1>1, <1>2, <1>3, <1>4, <2>4 DEF AtFinishDataHi
    <3> QED BY <3>1 DEF Ending
  <2>5. CASE AtReset
    <3>1. AtReset'
      BY <1>1, <1>2, <2>5 DEF AtReset
    <3> QED BY <3>1 DEF Ending
  <2> QED BY <1>5, <2>1, <2>2, <2>3, <2>4, <2>5 DEF Ending
<1>6. ASSUME Reading PROVE Reading'
  <2>1. \A e : Starting(e)' <=> Starting(e)
    BY <1>1 DEF Starting
  <2>2. /\ AtEnd(device)' <=> AtEnd(device)
        /\ HasSent(device)' <=> HasSent(device)
    BY <1>1 DEF AtEnd, HasSent
  <2>3. CASE AtReadClkHi \/ (\E o \in BOOLEAN : AtTalkerReady(o)) \/ AtReadDataHi
    <3>1. AtReadClkHi' \/ (\E o \in BOOLEAN : AtTalkerReady(o)') \/ AtReadDataHi'
      BY <1>1, <2>1, <2>3 DEF AtReadClkHi, AtTalkerReady, AtReadDataHi
    <3> QED BY <3>1 DEF Reading
  <2>4. CASE \E t \in 1 .. EoiWait : AtEdge(t) \/ AtLateEdge(t)
    <3>1. PICK t \in 1 .. EoiWait : AtEdge(t) \/ AtLateEdge(t)
      BY <2>4
    <3>2. AtEdge(t)' \/ AtLateEdge(t)'
      BY <1>1, <2>1, <3>1 DEF AtEdge, AtLateEdge
    <3> QED BY <3>2 DEF Reading
  <2>5. CASE AtEoiDataLo \/ AtEoiClkHi \/ AtEoiDataHi
    <3>1. AtEoiDataLo' \/ AtEoiClkHi' \/ AtEoiDataHi'
      BY <1>1, <2>1, <2>5 DEF AtEoiDataLo, AtEoiClkHi, AtEoiDataHi
    <3> QED BY <3>1 DEF Reading
  <2>6. CASE \E i \in 0 .. Bits - 1, o \in BOOLEAN : AtSample(i, o) \/ AtEdgeEnd(i, o)
    <3>1. PICK i \in 0 .. Bits - 1, o \in BOOLEAN : AtSample(i, o) \/ AtEdgeEnd(i, o)
      BY <2>6
    <3>2. AtSample(i, o)' \/ AtEdgeEnd(i, o)'
      BY <1>1, <2>2, <3>1 DEF AtSample, AtEdgeEnd
    <3> QED BY <3>2 DEF Reading
  <2>7. CASE AtReadDataLo \/ AtRead
    <3>1. AtReadDataLo' \/ AtRead'
      BY <1>1, <2>2, <2>7 DEF AtReadDataLo, AtRead
    <3> QED BY <3>1 DEF Reading
  <2> QED BY <1>6, <2>3, <2>4, <2>5, <2>6, <2>7 DEF Reading
<1>7. ASSUME Between PROVE Between'
  <2>1. \/ AtIdle' \/ AtWriting' \/ AtAddressing' \/ AtTalking' \/ AtReading' \/ AtReadingDone'
    BY <1>1, <1>2, <1>7 DEF Between, AtIdle, AtWriting, AtAddressing, AtTalking, AtReading,
                          AtReadingDone
  <2> QED BY <1>1, <1>7, <2>1 DEF Between
<1> QED BY <1>5, <1>6, <1>7

LEMMA NothingStep ==
    ASSUME TransferInv, UNCHANGED vars
    PROVE  TransferInv'
<1>1. /\ code' = code /\ calls' = calls /\ cpu' = cpu /\ device' = device /\ eoi' = eoi
      /\ input' = input /\ sent' = sent /\ held' = held /\ meddled' = meddled
  BY DEF vars, kernal
<1>2. TypeOK'
  BY <1>1 DEF TransferInv, TypeOK, CodeOK
<1>3. SentIsTaken'
  BY <1>1 DEF TransferInv, SentIsTaken
<1>4. KernalInv'
  BY <1>1 DEF TransferInv, KernalInv, LastLetsGo, ReadsInv, ReadsNothing, ReadsOn, Ends, LetsGo
<1>5. CASE device.enabled
  <2>1. Transfer'
    BY <1>5, SendingStays, PlaceStays DEF TransferInv, Transfer
  <2> QED BY <1>1, <1>2, <1>3, <1>4, <1>5, <2>1 DEF TransferInv
<1>6. CASE ~ device.enabled
  <2>1. Off
    BY <1>6 DEF TransferInv
  <2>2. meddled' \/ NoAnswer'
    BY <1>1, <2>1 DEF Off, NoAnswer, Ends, Starts, Addressing, Writing
  <2>3. Off'
    BY <1>1, <2>1, <2>2 DEF Off
  <2> QED BY <1>1, <1>2, <1>3, <1>4, <1>6, <2>3 DEF TransferInv
<1> QED BY <1>5, <1>6

LEMMA PrefixOf ==
    ASSUME NEW S, NEW s \in Seq(S), NEW b \in S
    PROVE  /\ IsPrefix(s, s) /\ Len(s) <= Len(s) + 1
           /\ IsPrefix(s, Append(s, b)) /\ Len(Append(s, b)) <= Len(s) + 1
           /\ IsPrefix(Append(s, b), Append(s, b))
           /\ Len(Append(s, b)) <= Len(Append(s, b)) + 1
<1> DEFINE n == Len(s)  t == Append(s, b)
<1>1. n \in Nat /\ t \in Seq(S) /\ Len(t) = n + 1 /\ \A i \in 1 .. n : t[i] = s[i]
  BY AppendIs
<1>2. \A r \in Seq(S) : Len(r) \in Nat /\ IsPrefix(r, r)
  BY LenProperties DEF IsPrefix
<1>3. SubSeq(s, 1, n) = SubSeq(t, 1, n)
  BY <1>1
<1>4. IsPrefix(s, t)
  BY <1>1, <1>3 DEF IsPrefix
<1>5. IsPrefix(s, s) /\ IsPrefix(t, t)
  <2> HIDE DEF t
  <2> QED BY <1>1, <1>2
<1>6. n <= n + 1 /\ Len(t) <= n + 1 /\ Len(t) <= Len(t) + 1
  <2> HIDE DEF n, t
  <2> QED BY <1>1
<1> HIDE DEF n, t
<1>7. IsPrefix(s, s) /\ n <= n + 1 /\ IsPrefix(s, t) /\ Len(t) <= n + 1 /\ IsPrefix(t, t)
      /\ Len(t) <= Len(t) + 1
  BY <1>4, <1>5, <1>6
<1> QED BY <1>7, Zenon DEF n, t

\* Every step of the Kernal, with the device on or off.
LEMMA KernalStep ==
    ASSUME TransferInv, Kernal
    PROVE  TransferInv'
<1>1. TypeOK /\ KernalInv /\ SentIsTaken
  BY DEF TransferInv
<1>2. TypeOK' /\ KernalInv'
  BY <1>1, TypeKernal, KernalNext
<1>3. device'.enabled = device.enabled
  BY <1>1, DeviceFine, ZenonT(40)
<1>4. meddled' = meddled
  BY ZenonT(40) DEF Kernal, Call, Stores, Needs, Untils, Acks, Edges, Samples, Reads, Looks
<1>5. CASE device.enabled
  <2>1. Transfer' /\ (Untaken \/ Taken1)
    BY <1>1, <1>5, TransferNext DEF TransferInv
  <2>2. CASE Untaken
    <3>1. SentIsTaken'
      BY <1>1, <1>4, <2>2 DEF Untaken, SentIsTaken
    <3> QED BY <1>2, <1>3, <1>5, <2>1, <3>1 DEF TransferInv
  <2>3. CASE Taken1
    <3>1. PICK b \in Byte : /\ device'.taken = Append(device.taken, b)
                            /\ sent' \in {sent, Append(sent, b)}
      BY <2>3 DEF Taken1
    <3>2. sent = device.taken /\ sent \in Seq(Byte)
      BY <1>1, <2>3 DEF Taken1, Even, TypeOK
    <3>3. /\ IsPrefix(sent, Append(sent, b)) /\ Len(Append(sent, b)) <= Len(sent) + 1
          /\ IsPrefix(Append(sent, b), Append(sent, b))
          /\ Len(Append(sent, b)) <= Len(Append(sent, b)) + 1
      BY <3>2, PrefixOf
    <3>4. IsPrefix(sent', device'.taken) /\ Len(device'.taken) <= Len(sent') + 1
      BY <3>1, <3>2, <3>3
    <3>5. SentIsTaken'
      BY <3>4 DEF SentIsTaken
    <3> QED BY <1>2, <1>3, <1>5, <2>1, <3>5 DEF TransferInv
  <2> QED BY <2>1, <2>2, <2>3
<1>6. CASE ~ device.enabled
  <2>1. Off'
    BY <1>1, <1>6, OffNext DEF TransferInv
  <2>2. SentIsTaken'
    <3>1. \A s : s = << >> => IsPrefix(s, s) /\ Len(s) <= Len(s) + 1
      BY DEF IsPrefix
    <3>2. meddled' \/ (sent' = << >> /\ device'.taken = << >>)
      BY <2>1 DEF Off, NoAnswer
    <3> QED BY <3>1, <3>2 DEF SentIsTaken
  <2> QED BY <1>2, <1>3, <1>6, <2>1, <2>2 DEF TransferInv
<1> QED BY <1>5, <1>6

LEMMA TransferStep ==
    ASSUME TransferInv, [Next]_vars
    PROVE  TransferInv'
BY KernalStep, BeginStep, ResetStep, SwitchStep, NothingStep DEF Next

\* Wherever the Kernal is in a routine, the device is in one of the states
\* that go with that place, on lines of the same levels and with the same bits
\* of the byte: serial_iec_device_exec_main and the Kernal's routines never
\* lose each other, but after a reset, a switch or an NMI that is too long,
\* and then in the ways listed.
THEOREM TransferAlways == Spec => []TransferInv
<1>1. Init => TransferInv
  BY TransferInit
<1>2. TransferInv /\ [Next]_vars => TransferInv'
  BY TransferStep
<1> QED BY <1>1, <1>2, PTL DEF Spec

\* The device, its channel and the Kernal keep their types: bits and time-outs
\* of serial_iec_device_state stay in range, for bytes of any width.
THEOREM TypeAlways == Spec => []TypeOK
<1>1. TransferInv => TypeOK
  BY DEF TransferInv
<1> QED BY <1>1, TransferAlways, PTL

\* What the Kernal was acknowledged is what fsdrive_write was given, in order
\* and once, and one byte more at most, for any texts and names, however long
\* the Kernal waits within its routines.
THEOREM SentIsTakenAlways == Spec => []SentIsTaken
<1>1. TransferInv => SentIsTaken
  BY DEF TransferInv
<1> QED BY <1>1, TransferAlways, PTL

LEMMA HeldOrOff ==
    ASSUME TransferInv
    PROVE  GotIsFile /\ LinesReleased
<1>1. (Level(device) \/ Ahead(device)) /\ (~ device.enabled \/ device.flags = {} => Free(device))
  <2>1. CASE device.enabled
    BY <2>1, HeldIs DEF TransferInv, Held
  <2>2. CASE ~ device.enabled
    BY <2>2 DEF TransferInv, Off
  <2> QED BY <2>1, <2>2
<1>2. LinesReleased
  BY <1>1 DEF LinesReleased, Free
<1>3. GotIsFile
  BY <1>1 DEF GotIsFile, Level, Ahead, GotRight
<1> QED BY <1>2, <1>3

\* What the Kernal has read is the file from its start, with the end announced
\* at its last byte, for any file, wherever a program stops reading and however
\* often it goes on, and after NMIs that let bytes be repeated.
THEOREM GotIsFileAlways == Spec => []GotIsFile
<1>1. TransferInv => GotIsFile
  BY HeldOrOff
<1> QED BY <1>1, TransferAlways, PTL

\* Once the device has been told to be quiet, found an error or the end, been
\* reset or switched off, it holds neither line (serial_iec_device_exec_main).
THEOREM LinesReleasedAlways == Spec => []LinesReleased
<1>1. TransferInv => LinesReleased
  BY HeldOrOff
<1> QED BY <1>1, TransferAlways, PTL
=============================================================================
