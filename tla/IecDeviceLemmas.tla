-------------------------- MODULE IecDeviceLemmas ---------------------------
(****************************************************************************)
(* The device on the serial bus and the Kernal at its other end, for bytes  *)
(* of any width, any files and names, and any times that keep to            *)
(* WaitsAssumption.  Here are the places of the two in a transfer, from     *)
(* which TransferInv is made, what one access does to the device in each of *)
(* its states, how a byte is sent to it, and how a routine ends.            *)
(* IecDeviceProofs has the rest.                                            *)
(****************************************************************************)
EXTENDS IecDevice, SequenceTheorems, TLAPS

----------------------------------------------------------------------------
(* The places of the Kernal: what is left of its routine.                   *)

Waits(line, v, o) == [do |-> "until", line |-> line, v |-> v, odd |-> o]
Tries(i, o) == [do |-> "sample", bit |-> i, odd |-> o]
Answer(m, t) == [do |-> "ack", t |-> t, byte |-> m.byte, data |-> m.kind = "data"]
Edge(again, t) == [do |-> "edge", t |-> t, again |-> again]

Finish == <<AtnHi>> \o LetGo
TurnClkHi == <<ClkHi>> \o <<Until("clk", FALSE)>>
TurnAtnHi == <<AtnHi>> \o TurnClkHi
TurnRound == <<DataLo>> \o TurnAtnHi

\* The bytes it sends, with what for.
Messages ==
    {m \in [kind : {"listen", "talk", "absent", "second", "turn", "data",
                    "unlisten", "untalk"},
            byte : Byte, last : BOOLEAN] :
        /\ m.kind = "listen" => m.byte = LISTEN
        /\ m.kind = "talk" => m.byte = TALK
        /\ m.kind = "absent" => m.byte = ABSENT
        /\ m.kind = "second" => m.byte \in {OPEN, DATA, CLOSE}
        /\ m.kind = "turn" => m.byte = DATA
        /\ m.kind = "unlisten" => m.byte = UNLISTEN
        /\ m.kind = "untalk" => m.byte = UNTALK
        /\ m.kind # "data" => m.last = FALSE}
Opening == {"listen", "talk", "absent"}
Closing == {"unlisten", "untalk"}

Rest(m) ==
    CASE m.kind \in Opening \union {"data"} -> << >>
      [] m.kind = "second" -> <<AtnHi>>
      [] m.kind = "turn" -> TurnRound
      [] m.kind \in Closing -> Finish

FromAck(m, t) == <<Answer(m, t)>> \o Rest(m)
FromBit(m, i) == SendBits(m.byte, i) \o FromAck(m, AckWait)
FromBitClkLo(m, i) == <<Store([clk |-> FALSE, data |-> TRUE])>> \o FromBit(m, i + 1)
FromBitClkHi(m, i) == <<ClkHi>> \o FromBitClkLo(m, i)
FromBitData(m, i) == <<Store([data |-> i \in m.byte])>> \o FromBitClkHi(m, i)
FromClkLo(m) == <<ClkLo>> \o FromBit(m, 0)
\* A wait that goes on, before what is left of the routine.
StillWaits(l, v, o, s) == <<Waits(l, v, o)>> \o s

FromReady(m, o) == <<Waits("data", TRUE, o)>> \o FromClkLo(m)
FromEoi2(m, o) == <<Waits("data", FALSE, o)>> \o FromReady(m, FALSE)
FromEoi1(m, o) == <<Waits("data", TRUE, o)>> \o FromEoi2(m, FALSE)
FromClkHi(m) ==
    <<ClkHi>> \o (IF m.last THEN FromEoi1(m, FALSE) ELSE FromReady(m, FALSE))
FromNeed(m) == <<Need(FALSE)>> \o FromClkHi(m)
FromLetGo(m) == <<DataHi>> \o FromNeed(m)
FromPause(m) == <<Pause([data |-> TRUE])>> \o FromLetGo(m)
FromAddress(m) == <<ClkLo>> \o FromPause(m)
FromAtnLo(m) == <<AtnLo>> \o FromAddress(m)
FromDataHi(m) ==
    <<DataHi>> \o (IF m.kind = "unlisten" THEN <<ClkHi>> \o FromAtnLo(m) ELSE FromAtnLo(m))
FromUntalk(m) == <<AtnLo>> \o FromDataHi(m)

\* Reading.
FromRead == <<ByteRead>>
FromReadDataLo == <<DataLo>> \o FromRead
FromReadBit(i) == ReadBits(i) \o FromReadDataLo
FromEdgeEnd(i, o) == <<Waits("clk", FALSE, o)>> \o FromReadBit(i + 1)
FromSample(i, o) == <<Tries(i, o)>> \o FromEdgeEnd(i, FALSE)
FromEdge(again, t) == <<Edge(again, t)>> \o FromReadBit(0)
FromReadDataHi(again) == <<DataHi>> \o FromEdge(again, EoiWait)
FromTalkerReady(o) == <<Waits("clk", TRUE, o)>> \o FromReadDataHi(FALSE)
FromReadClkHi == <<ClkHi>> \o FromTalkerReady(FALSE)
FromEoiClkHi == <<ClkHi>> \o FromReadDataHi(TRUE)
FromEoi == <<DataLo>> \o FromEoiClkHi

----------------------------------------------------------------------------
(* The calls that are left.                                                 *)

Unlisten == CallOf("command", UNLISTEN)
Untalk == CallOf("command", UNTALK)
Acptr == CallOf("ACPTR", NONE)
ByteCalls == [name : {"CIOUT"}, byte : Byte, last : BOOLEAN]
AllCalls ==
    ByteCalls \union [name : {"command", "SECND", "TKSA", "ACPTR"}, byte : Byte]
Writing(c) ==
    /\ c # << >> /\ c[Len(c)] = Unlisten
    /\ \A i \in 1 .. Len(c) - 1 : c[i] \in ByteCalls
Addressing(c) ==
    /\ c # << >> /\ \E s \in {OPEN, DATA, CLOSE} : Head(c) = CallOf("SECND", s)
    /\ Writing(Tail(c))
Talking == <<CallOf("TKSA", DATA), Acptr, Untalk>>
Starts(c) ==
    /\ c # << >>
    /\ \/ /\ Head(c) \in {CallOf("command", LISTEN), CallOf("command", ABSENT)}
          /\ Addressing(Tail(c))
       \/ Head(c) = CallOf("command", TALK) /\ Tail(c) = Talking

ReadsNext == calls = <<Acptr, Untalk>> /\ eoi = FALSE

CallsAfter(m) ==
    CASE m.kind \in {"listen", "absent"} -> Addressing(calls)
      [] m.kind = "talk" -> calls = Talking /\ eoi = FALSE
      [] m.kind \in {"second", "data"} -> Writing(calls)
      [] m.kind = "turn" -> ReadsNext
      [] m.kind \in Closing -> calls = << >>

----------------------------------------------------------------------------
(* The device.                                                              *)

Free(u) == u.clk /\ u.data
HoldsData(u) == u.clk /\ ~ u.data
HoldsClk(u) == ~ u.clk /\ u.data

\* What was read of the file is its beginning; the device has nothing in hand,
\* or the byte that comes next.
GotRight(u) ==
    \A i \in 1 .. Len(u.got) :
        u.got[i] = [byte |-> u.file[i], last |-> i = Len(u.file)]
Level(u) ==
    u.mode = "read" /\ ~ u.lossy => u.pos = Len(u.got) /\ GotRight(u)
Ahead(u) ==
    /\ u.mode = "read" /\ u.pos \in 1 .. Len(u.file) /\ u.byte = u.file[u.pos]
    /\ u.st = IF u.pos = Len(u.file) THEN EOF ELSE OK
    /\ ~ u.lossy => u.pos = Len(u.got) + 1 /\ GotRight(u)

\* On, with these flags, and nothing in hand.
With(u, flags) == u.enabled /\ u.flags = flags /\ Level(u)
\* On, ATN noticed, and before it none but these.
Under(u, others) ==
    /\ u.enabled /\ "ATN" \in u.flags /\ u.flags \ {"ATN"} \subseteq others /\ Level(u)

InState(u, s) == u.state = s /\ Free(u)
InBit(u, s, i) == InState(u, s) /\ u.bit = i

\* Neither under ATN nor about to do anything as long as ATN is high: at all,
\* or while the clock line stays high.
Silent(u) == With(u, {}) /\ Free(u)
Deaf(u) == Silent(u) \/ (With(u, {"LISTENING"}) /\ InState(u, "DONE0"))
Calm(u) == Deaf(u) \/ (With(u, {"LISTENING"}) /\ InBit(u, "BITw", 0))

\* What a reset under ATN leaves when ATN rises.
Stale(u) == Under(u, {}) /\ u.primary = NONE /\ HoldsData(u)

Even(u) == sent = u.taken

\* Under ATN, and maybe already addressed.
OtherFlags(m) == IF m.kind = "untalk" THEN {"TALKING"} ELSE {"LISTENING"}
AddressBefore(m) ==
    CASE m.kind = "second" -> LISTEN [] m.kind = "turn" -> TALK [] OTHER -> NONE
Counts(m) == m.kind \in {"listen", "second", "data"}
UnderAtn(u, m) ==
    /\ Under(u, OtherFlags(m)) /\ u.primary = AddressBefore(m) /\ u.secondary = NONE
    /\ Counts(m) => Even(u)

\* It has ATN's attention, and waits or will wait for the clock line.
Asked(u, m) ==
    /\ UnderAtn(u, m) /\ HoldsData(u)
    /\ \/ u.state = "PRE2"
       \/ m.kind \notin {"second", "turn"} /\ u.state = "PRE1"
       \/ m.kind \notin {"second", "turn"} /\ u.state = "PRE0" /\ u.timeout <= Pre0
Answers0(u, m) == UnderAtn(u, m) /\ HoldsData(u) /\ u.state \in {"PRE1", "PRE2"}

\* The byte with the address was acknowledged.
AddressedBy(u, primary, others) ==
    Under(u, others) /\ u.primary = primary /\ u.state = "PRE2" /\ HoldsData(u)
Listener(u) ==
    With(u, {"LISTENING"}) /\ u.state \in {"PRE1", "PRE2"} /\ HoldsData(u)
Closed(u) ==
    AddressedBy(u, UNLISTEN, {"LISTENING"}) \/ AddressedBy(u, UNTALK, {"TALKING"})
NotThere(u) == Under(u, {"LISTENING"}) /\ u.primary = ABSENT /\ InState(u, "DONE0")

\* It takes part in the message.
Receives(u, m) ==
    IF m.kind = "data" THEN With(u, {"LISTENING"}) /\ Even(u) ELSE UnderAtn(u, m)
Holds(u, m) == Receives(u, m) /\ u.state = "PRE2" /\ HoldsData(u)
Has(u, m, i) == Receives(u, m) /\ \A j \in 0 .. i - 1 : j \in u.byte <=> j \in m.byte

\* It takes the end to be announced when it is not.
Slips(u) ==
    /\ With(u, {"LISTENING"})
    /\ \/ u.state = "EOI" /\ HoldsData(u) /\ u.timeout <= Ack
       \/ InState(u, "EOIw")
       \/ InBit(u, "BIT", 0)

\* Talking, with no byte in hand.
Waits4(u) ==
    \/ u.state \in {"PRE1", "DONE1", "FRAMEERR1"} /\ HoldsClk(u)
    \/ InState(u, "READY")
    \/ InState(u, "FRAMEERR0") /\ u.timeout <= Err
Talker(u) == Silent(u) \/ (With(u, {"TALKING"}) /\ Waits4(u))
\* The same at the end of the file.
Exhausted(u) ==
    \/ Silent(u)
    \/ /\ With(u, {"TALKING"}) /\ Waits4(u)
       /\ u.state = "PRE1" => u.timeout = 0
       /\ u.mode = "read" => u.pos = Len(u.file)

\* Talking, with a byte in hand that is being read.
TalksAhead(u) ==
    u.enabled /\ u.flags = {"TALKING"} /\ Ahead(u)
AtEnd(u) == eoi = (u.st = EOF)
Stuck(u) ==
    With(u, {"TALKING"}) /\ u.state = "FRAMEERR1" /\ HoldsClk(u)
HasSent(u) ==
    /\ TalksAhead(u) /\ AtEnd(u) /\ input = u.byte
    /\ \/ u.state = "DONE1" /\ HoldsClk(u)
       \/ InState(u, "FRAMEERR0") /\ u.timeout <= Err

----------------------------------------------------------------------------
(* Sending: the Kernal's place, and what the device does there.             *)

Lines(a, c, d) == [atn |-> a, clk |-> c, data |-> d]
AtnOf(m) == m.kind = "data"

AtCommand(m) ==
    /\ m.kind \in Opening /\ CallsAfter(m) /\ eoi = FALSE /\ sent = << >>
    /\ code = FromDataHi(m)
    /\ cpu = Lines(TRUE, TRUE, TRUE)
    /\ Calm(device) \/ Stale(device)
    /\ Even(device)
AtAtnLo(m) ==
    /\ m.kind \in Opening /\ CallsAfter(m) /\ eoi = FALSE
    /\ code = FromAtnLo(m)
    /\ cpu = Lines(TRUE, TRUE, TRUE)
    /\ Calm(device) /\ Even(device)

Unlistens(m) == m.kind = "unlisten" /\ CallsAfter(m)
AtUnlisten(m) ==
    /\ Unlistens(m)
    /\ code = FromDataHi(m)
    /\ \/ /\ cpu = Lines(TRUE, FALSE, TRUE)
          /\ \/ AddressedBy(device, LISTEN, {"LISTENING"})
             \/ Listener(device)
       \/ cpu = Lines(TRUE, TRUE, TRUE) /\ Calm(device)
AtUnlistenClkHi(m) ==
    /\ Unlistens(m)
    /\ code = <<ClkHi>> \o FromAtnLo(m)
    /\ \/ /\ cpu = Lines(TRUE, FALSE, TRUE)
          /\ Listener(device) \/ Deaf(device)
       \/ cpu = Lines(TRUE, TRUE, TRUE) /\ Calm(device)
AtUnlistenAtnLo(m) ==
    /\ Unlistens(m)
    /\ code = FromAtnLo(m)
    /\ cpu = Lines(TRUE, TRUE, TRUE)
    /\ Listener(device) \/ Calm(device)

Untalks(m) == m.kind = "untalk" /\ CallsAfter(m)
AtUntalk(m) ==
    /\ Untalks(m)
    /\ code = <<ClkLo>> \o FromUntalk(m)
    /\ \/ cpu = Lines(TRUE, TRUE, FALSE) /\ Talker(device)
       \/ cpu = Lines(TRUE, TRUE, TRUE) /\ Exhausted(device)
AtUntalkAtnLo(m) ==
    /\ Untalks(m)
    /\ code = FromUntalk(m)
    /\ \/ cpu = Lines(TRUE, FALSE, FALSE) /\ Talker(device)
       \/ cpu = Lines(TRUE, FALSE, TRUE) /\ Exhausted(device)
AtUntalkDataHi(m) ==
    /\ Untalks(m)
    /\ code = FromDataHi(m)
    /\ cpu \in {Lines(FALSE, FALSE, FALSE), Lines(FALSE, FALSE, TRUE)}
    /\ Talker(device)
AtUntalkAgain(m) ==
    /\ Untalks(m)
    /\ code = FromAtnLo(m)
    /\ cpu = Lines(FALSE, FALSE, TRUE)
    /\ Asked(device, m)

\* ATN has fallen; the device may not have noticed.
AtAddress(m) ==
    /\ m.kind # "data" /\ CallsAfter(m)
    /\ code = FromAddress(m)
    /\ \/ /\ cpu = Lines(FALSE, TRUE, TRUE) /\ m.kind \in Opening \union {"unlisten"}
          /\ \/ Silent(device) /\ (m.kind = "listen" => Even(device))
             \/ With(device, {"LISTENING"}) /\ (m.kind = "listen" => Even(device))
       \/ /\ cpu = Lines(FALSE, FALSE, TRUE)
          /\ m.kind \notin Opening \union {"unlisten"}
          /\ Asked(device, m)
       \/ /\ cpu = Lines(TRUE, TRUE, TRUE) /\ m.kind = "second"
          /\ Deaf(device)
AtPause(m) ==
    /\ m.kind # "data" /\ CallsAfter(m)
    /\ code = FromPause(m)
    /\ \/ /\ cpu = Lines(FALSE, FALSE, TRUE)
          /\ Asked(device, m)
       \/ /\ cpu = Lines(TRUE, FALSE, TRUE) /\ m.kind = "second"
          /\ Deaf(device)
AtLetGo(m) ==
    /\ CallsAfter(m)
    /\ code = FromLetGo(m)
    /\ \/ /\ cpu = Lines(FALSE, FALSE, TRUE) /\ m.kind # "data"
          /\ Answers0(device, m)
       \/ /\ cpu = Lines(TRUE, FALSE, TRUE) /\ m.kind \in {"second", "data"}
          /\ Deaf(device)
       \/ /\ cpu = Lines(TRUE, FALSE, TRUE) /\ m.kind = "data" /\ Even(device)
          /\ AddressedBy(device, LISTEN, {"LISTENING"}) \/ Listener(device)
       \/ /\ cpu = Lines(TRUE, TRUE, TRUE) /\ m.kind = "data"
          /\ Calm(device)
AtNeed(m) ==
    /\ CallsAfter(m)
    /\ code = FromNeed(m)
    /\ \/ /\ cpu = Lines(AtnOf(m), FALSE, TRUE)
          /\ Holds(device, m)
       \/ /\ cpu = Lines(TRUE, FALSE, TRUE) /\ m.kind \in {"second", "data"}
          /\ Deaf(device)
       \/ /\ cpu = Lines(TRUE, TRUE, TRUE) /\ m.kind = "data"
          /\ Calm(device)
AtClkHi(m) ==
    /\ CallsAfter(m)
    /\ code = FromClkHi(m)
    /\ cpu = Lines(AtnOf(m), FALSE, TRUE)
    /\ Holds(device, m)
AtEoi1(m, o) ==
    /\ m.last /\ CallsAfter(m)
    /\ code = FromEoi1(m, o)
    /\ cpu = Lines(TRUE, TRUE, TRUE)
    /\ Holds(device, m)
AtEoi2(m, o) ==
    /\ m.last /\ CallsAfter(m)
    /\ code = FromEoi2(m, o)
    /\ cpu = Lines(TRUE, TRUE, TRUE)
    /\ Receives(device, m) /\ InState(device, "READY")
AtReady(m, o) ==
    /\ CallsAfter(m)
    /\ code = FromReady(m, o)
    /\ cpu = Lines(AtnOf(m), TRUE, TRUE)
    /\ Receives(device, m) /\ HoldsData(device)
    /\ device.state = IF m.last THEN "EOI" ELSE "PRE2"
AtClkLo(m) ==
    /\ CallsAfter(m)
    /\ code = FromClkLo(m)
    /\ cpu = Lines(AtnOf(m), TRUE, TRUE)
    /\ Receives(device, m) /\ InState(device, IF m.last THEN "EOIw" ELSE "READY")

\* The bits; before the first the device may think that the end is announced.
AtNeedBit(m, i) ==
    /\ CallsAfter(m)
    /\ code = FromBit(m, i)
    /\ cpu = Lines(AtnOf(m), FALSE, TRUE)
    /\ \/ /\ i = 0 /\ Receives(device, m)
          /\ \/ InState(device, IF m.last THEN "EOIw" ELSE "READY")
             \/ m.kind = "data" /\ device.state = "EOI" /\ HoldsData(device)
                /\ device.timeout <= Ack
       \/ i > 0 /\ Has(device, m, i) /\ InBit(device, "BITw", i - 1)
AtBitData(m, i) ==
    /\ CallsAfter(m)
    /\ code = FromBitData(m, i)
    /\ cpu = Lines(AtnOf(m), FALSE, TRUE)
    /\ \/ Has(device, m, i) /\ InBit(device, "BIT", i)
       \/ i = 0 /\ m.kind = "data" /\ Receives(device, m) /\ InState(device, "EOIw")
AtBitClkHi(m, i) ==
    /\ CallsAfter(m)
    /\ code = FromBitClkHi(m, i)
    /\ cpu = Lines(AtnOf(m), FALSE, i \in m.byte)
    /\ Has(device, m, i) /\ InBit(device, "BIT", i)
AtBitClkLo(m, i) ==
    /\ CallsAfter(m)
    /\ code = FromBitClkLo(m, i)
    /\ cpu = Lines(AtnOf(m), TRUE, i \in m.byte)
    /\ Has(device, m, i) /\ InBit(device, "BIT", i)
AtAck(m, t) ==
    /\ CallsAfter(m)
    /\ code = FromAck(m, t)
    /\ cpu = Lines(AtnOf(m), FALSE, TRUE)
    /\ \/ Has(device, m, Bits) /\ InBit(device, "BITw", Bits - 1)
       \/ m.kind = "absent" /\ NotThere(device)
       \/ m.kind = "data" /\ Deaf(device)

Sending(m) ==
    \/ AtCommand(m) \/ AtAtnLo(m) \/ AtUnlisten(m) \/ AtUnlistenClkHi(m)
    \/ AtUnlistenAtnLo(m) \/ AtUntalk(m) \/ AtUntalkAtnLo(m) \/ AtUntalkDataHi(m)
    \/ AtUntalkAgain(m)
    \/ AtAddress(m) \/ AtPause(m) \/ AtLetGo(m) \/ AtNeed(m) \/ AtClkHi(m)
    \/ \E o \in BOOLEAN : AtEoi1(m, o) \/ AtEoi2(m, o) \/ AtReady(m, o)
    \/ AtClkLo(m)
    \/ \E i \in 0 .. Bits - 1 :
           AtNeedBit(m, i) \/ AtBitData(m, i) \/ AtBitClkHi(m, i) \/ AtBitClkLo(m, i)
    \/ \E t \in 1 .. AckWait : AtAck(m, t)

----------------------------------------------------------------------------
(* After a byte under ATN, and after a failure.                             *)

AtSecondDone ==
    /\ code = <<AtnHi>> /\ Writing(calls)
    /\ cpu = Lines(FALSE, FALSE, TRUE)
    /\ AddressedBy(device, LISTEN, {"LISTENING"}) /\ Even(device)

Turning(u) == AddressedBy(u, TALK, {"LISTENING"})
AtTurn ==
    /\ ReadsNext
    /\ Turning(device)
    /\ \/ code = TurnRound /\ cpu = Lines(FALSE, FALSE, TRUE)
       \/ /\ code = TurnAtnHi
          /\ cpu = Lines(FALSE, FALSE, FALSE)
       \/ code = TurnClkHi /\ cpu = Lines(TRUE, FALSE, FALSE)
AtTurned(o) ==
    /\ ReadsNext
    /\ code = <<Waits("clk", FALSE, o)>>
    /\ cpu = Lines(TRUE, TRUE, FALSE)
    /\ With(device, {"TALKING"}) /\ device.state = "PRE0" /\ HoldsData(device)

\* The end of a routine that lets the bus go, or has failed.
Ends == calls = << >>
WritesNext == Ends \/ Writing(calls)
AfterFail == WritesNext \/ Addressing(calls) \/ calls = <<Untalk>>
AtFinish ==
    /\ code = Finish /\ AfterFail
    /\ \/ /\ cpu = Lines(FALSE, FALSE, TRUE)
          /\ \/ Closed(device) /\ Ends
             \/ NotThere(device) /\ Addressing(calls)
       \/ /\ cpu = Lines(TRUE, FALSE, TRUE)
          /\ \/ Deaf(device) /\ WritesNext
             \/ Slips(device) /\ Writing(calls)
       \/ /\ cpu = Lines(TRUE, TRUE, TRUE)
          /\ \/ Calm(device) /\ Ends
             \/ Silent(device) /\ calls = <<Untalk>>
AtFinishPause ==
    /\ code = LetGo /\ AfterFail
    /\ \/ /\ cpu = Lines(TRUE, FALSE, TRUE)
          /\ \/ Closed(device) /\ Ends
             \/ NotThere(device) /\ Addressing(calls)
             \/ Deaf(device) /\ WritesNext
             \/ Slips(device) /\ Writing(calls)
       \/ /\ cpu = Lines(TRUE, TRUE, TRUE)
          /\ \/ Calm(device) /\ Ends
             \/ Silent(device) /\ calls = <<Untalk>>
       \/ /\ cpu = Lines(TRUE, TRUE, FALSE) /\ calls = <<Untalk>>
          /\ Exhausted(device)
AtFinishDataHi ==
    /\ code = <<DataHi>> /\ AfterFail
    /\ \/ /\ cpu = Lines(TRUE, TRUE, TRUE)
          /\ \/ Calm(device) /\ WritesNext
             \/ Deaf(device) /\ Addressing(calls)
             \/ /\ With(device, {"LISTENING"}) /\ InBit(device, "BIT", 0)
                /\ Writing(calls)
             \/ Silent(device) /\ calls = <<Untalk>>
       \/ /\ cpu = Lines(TRUE, TRUE, FALSE) /\ calls = <<Untalk>>
          /\ Exhausted(device)

\* The machine was reset.
AtReset ==
    /\ code = <<Store(High)>> /\ Ends
    /\ \E a, c, d \in BOOLEAN : cpu = Lines(a, c, d)
    /\ Silent(device)

Ending ==
    \/ AtSecondDone \/ AtTurn \/ (\E o \in BOOLEAN : AtTurned(o))
    \/ AtFinish \/ AtFinishPause \/ AtFinishDataHi \/ AtReset

----------------------------------------------------------------------------
(* Reading.                                                                 *)

Starting(end) == calls = <<Untalk>> /\ eoi = end /\ input = {}
AtReadClkHi ==
    /\ code = FromReadClkHi /\ Starting(FALSE)
    /\ cpu = Lines(TRUE, TRUE, FALSE)
    /\ Talker(device)
AtTalkerReady(o) ==
    /\ code = FromTalkerReady(o) /\ Starting(FALSE)
    /\ cpu = Lines(TRUE, TRUE, FALSE)
    /\ Talker(device)
AtReadDataHi ==
    /\ code = FromReadDataHi(FALSE) /\ Starting(FALSE)
    /\ cpu = Lines(TRUE, TRUE, FALSE)
    /\ Talker(device) /\ device.clk

FirstBitIn(u) == TalksAhead(u) /\ InBit(u, "BIT", 0) /\ u.timeout = 0
Announces(u, s) == TalksAhead(u) /\ InState(u, s) /\ u.st = EOF
EdgeAt(u, t) ==
    \/ Silent(u)
    \/ /\ With(u, {"TALKING"}) /\ Waits4(u)
       /\ \/ u.state = "READY" /\ t >= 2
          \/ u.state = "PRE1" /\ u.timeout = 0 /\ t >= 3
          \/ u.state = "FRAMEERR0" /\ u.timeout <= t
          \/ u.state = "FRAMEERR1"
    \/ FirstBitIn(u) /\ u.st = OK
    \/ Announces(u, "EOI")
AtEdge(t) ==
    /\ code = FromEdge(FALSE, t) /\ Starting(FALSE)
    /\ cpu = Lines(TRUE, TRUE, TRUE)
    /\ EdgeAt(device, t)
AtEoiDataLo ==
    /\ code = FromEoi /\ Starting(TRUE)
    /\ cpu = Lines(TRUE, TRUE, TRUE)
    /\ Silent(device) \/ Announces(device, "EOI")
AtEoiClkHi ==
    /\ code = FromEoiClkHi /\ Starting(TRUE)
    /\ cpu = Lines(TRUE, TRUE, FALSE)
    /\ Silent(device) \/ Announces(device, "EOI")
AtEoiDataHi ==
    /\ code = FromReadDataHi(TRUE) /\ Starting(TRUE)
    /\ cpu = Lines(TRUE, TRUE, FALSE)
    /\ Silent(device) \/ Announces(device, "EOIw")
LateAt(u, t) ==
    \/ Silent(u)
    \/ Announces(u, "EOIw") /\ t >= 2
    \/ FirstBitIn(u) /\ u.st = EOF
AtLateEdge(t) ==
    /\ code = FromEdge(TRUE, t) /\ Starting(TRUE)
    /\ cpu = Lines(TRUE, TRUE, TRUE)
    /\ LateAt(device, t)

\* A bit is on the line; between two bits, or after the last.
BitOut(u, i) ==
    /\ TalksAhead(u) /\ u.state = "BITw" /\ u.bit = i
    /\ ~ u.clk /\ u.data = (i \in u.byte)
BitIn(u, i) ==
    /\ TalksAhead(u) /\ u.clk
    /\ IF i = Bits - 1 THEN u.state = "DONE0" ELSE u.state = "BIT" /\ u.bit = i + 1
AtSample(i, o) ==
    /\ code = FromSample(i, o) /\ calls = <<Untalk>>
    /\ cpu = Lines(TRUE, TRUE, TRUE)
    /\ \/ i = 0 /\ Stuck(device)
       \/ /\ BitOut(device, i) /\ AtEnd(device)
          /\ input = {j \in device.byte : j < i}
AtEdgeEnd(i, o) ==
    /\ code = FromEdgeEnd(i, o) /\ calls = <<Untalk>>
    /\ cpu = Lines(TRUE, TRUE, TRUE)
    /\ BitIn(device, i) /\ AtEnd(device)
    /\ input = {j \in device.byte : j <= i}
AtReadDataLo ==
    /\ code = FromReadDataLo /\ calls = <<Untalk>>
    /\ cpu = Lines(TRUE, TRUE, TRUE)
    /\ HasSent(device) /\ device.state = "DONE1"
AtRead ==
    /\ code = FromRead /\ calls = <<Untalk>>
    /\ cpu = Lines(TRUE, TRUE, FALSE)
    /\ HasSent(device)

Reading ==
    \/ AtReadClkHi \/ (\E o \in BOOLEAN : AtTalkerReady(o)) \/ AtReadDataHi
    \/ (\E t \in 1 .. EoiWait : AtEdge(t) \/ AtLateEdge(t))
    \/ AtEoiDataLo \/ AtEoiClkHi \/ AtEoiDataHi
    \/ (\E i \in 0 .. Bits - 1, o \in BOOLEAN : AtSample(i, o) \/ AtEdgeEnd(i, o))
    \/ AtReadDataLo \/ AtRead

----------------------------------------------------------------------------
(* Between two routines.                                                    *)

AtIdle ==
    /\ Ends \/ (Starts(calls) /\ Even(device) /\ eoi = FALSE /\ sent = << >>)
    /\ cpu = Lines(TRUE, TRUE, TRUE)
    /\ Calm(device) \/ Stale(device)
AtWriting ==
    /\ Writing(calls)
    /\ \/ /\ cpu = Lines(TRUE, FALSE, TRUE)
          /\ \/ AddressedBy(device, LISTEN, {"LISTENING"}) /\ Even(device)
             \/ Listener(device) /\ Even(device)
       \/ cpu = Lines(TRUE, TRUE, TRUE) /\ Calm(device)
AtAddressing ==
    /\ Addressing(calls)
    /\ \/ /\ cpu = Lines(FALSE, FALSE, TRUE)
          /\ AddressedBy(device, LISTEN, {"LISTENING"})
          /\ device.secondary = NONE /\ Even(device)
       \/ cpu = Lines(TRUE, TRUE, TRUE) /\ Deaf(device)
AtTalking ==
    /\ calls = Talking /\ eoi = FALSE
    /\ cpu = Lines(FALSE, FALSE, TRUE)
    /\ AddressedBy(device, TALK, {"LISTENING"}) /\ device.secondary = NONE
AtReading ==
    /\ calls = <<Untalk>> \/ ReadsNext
    /\ cpu = Lines(TRUE, TRUE, FALSE)
    /\ Talker(device)
AtReadingDone ==
    /\ calls = <<Untalk>>
    /\ cpu = Lines(TRUE, TRUE, TRUE)
    /\ Exhausted(device)

Between ==
    /\ code = << >>
    /\ AtIdle \/ AtWriting \/ AtAddressing \/ AtTalking \/ AtReading \/ AtReadingDone

\* The device is on.
Transfer ==
    (\E m \in Messages : Sending(m)) \/ Ending \/ Reading \/ Between

----------------------------------------------------------------------------
\* The accesses of a routine, and all but the one that hands a byte over.
Plain ==
    [do : {"store"}, lines : UNION {[l -> BOOLEAN] : l \in SUBSET {"atn", "clk", "data"}},
     t : {0, AckWait}]
    \union [do : {"need"}, v : BOOLEAN]
    \union [do : {"until"}, line : {"clk", "data"}, v : BOOLEAN, odd : BOOLEAN]
    \union [do : {"ack"}, t : 1 .. AckWait, byte : Byte, data : BOOLEAN]
    \union [do : {"edge"}, t : 1 .. EoiWait, again : BOOLEAN]
    \union [do : {"sample"}, bit : 0 .. Bits - 1, odd : BOOLEAN]
Accesses == Plain \union [do : {"read"}]

----------------------------------------------------------------------------
(* What is so of the Kernal whatever the device does: an operation ends     *)
(* with the lines let go, and a byte is handed over where it was read.      *)

EndsWith(c) ==
    /\ Len(c) >= 3 /\ c[Len(c)] = DataHi /\ c[Len(c) - 1] = Pause([clk |-> TRUE])
    /\ c[Len(c) - 2] = AtnHi
LetsGo ==
    \/ EndsWith(code) \/ code = <<Store(High)>>
    \/ code = LetGo /\ cpu.atn
    \/ code = <<DataHi>> /\ cpu.atn /\ cpu.clk
    \/ code = << >> /\ cpu = Lines(TRUE, TRUE, TRUE)
ReadsNothing == code \in Seq(Plain)
StillReads(c) ==
    \/ \E o \in BOOLEAN : c \in {FromTalkerReady(o), FromReadDataHi(o)}
    \/ \E again \in BOOLEAN, t \in 1 .. EoiWait : c = FromEdge(again, t)
    \/ c \in {FromEoi, FromEoiClkHi}
    \/ \E i \in 0 .. Bits - 1, o \in BOOLEAN : c \in {FromSample(i, o), FromEdgeEnd(i, o)}
HandsOver == {FromReadDataLo, FromRead}
ReadsOn == StillReads(code) \/ code \in HandsOver
LastLetsGo == calls # << >> => calls[Len(calls)] \in {Unlisten, Untalk}
ReadsInv ==
    \/ ReadsNothing
    \/ calls # << >> /\ (code = FromReadClkHi \/ (cpu.clk /\ ReadsOn))
KernalInv == LastLetsGo /\ ReadsInv /\ (Ends => LetsGo)

----------------------------------------------------------------------------
(* The device is off: the Kernal gets no answer, and none of what it reads  *)
(* is of the file.                                                          *)

NoAnswer ==
    /\ sent = << >> /\ device.taken = << >>
    /\ \/ \E m \in Messages :
            /\ m.kind \in Opening
            /\ \/ code \in {FromDataHi(m), FromAtnLo(m), FromAddress(m),
                            FromPause(m), FromLetGo(m)}
               \/ code = FromNeed(m) /\ cpu.data
       \/ Ends /\ code \in {Finish, LetGo, <<DataHi>>}
       \/ code = << >> /\ (Ends \/ Starts(calls))
Off ==
    /\ ~ device.enabled /\ device.flags = {} /\ Free(device) /\ Level(device)
    /\ code \in HandsOver /\ device.mode = "read" => device.lossy
    /\ meddled \/ NoAnswer

----------------------------------------------------------------------------
Entries == [byte : Byte, last : BOOLEAN]
States ==
    {"PRE0", "PRE1", "PRE2", "READY", "EOI", "EOIw", "BIT", "BITw",
     "DONE0", "DONE1", "FRAMEERR0", "FRAMEERR1"}
Devices ==
    [enabled : BOOLEAN, flags : SUBSET {"ATN", "LISTENING", "TALKING"},
     state : States, bit : 0 .. Bits - 1,
     primary : Byte, secondary : Byte, secondary_prev : Byte,
     byte : Byte, timeout : Nat, st : {OK, EOF, FAIL}, clk : BOOLEAN, data : BOOLEAN,
     isopen : 0 .. 2, name : Seq(Byte), mode : {"read", "write", "none"},
     file : Files \union {<< >>}, pos : Nat, taken : Seq(Byte), got : Seq(Entries),
     lossy : BOOLEAN]
\* A file that is read is one of those there are.
Reads1(u) ==
    u.mode = "read" => u.file \in Files /\ u.pos <= Len(u.file) /\ u.isopen # 0

CodeOK == code \in Seq(Accesses)

TypeOK ==
    /\ device \in Devices /\ Reads1(device)
    /\ CodeOK
    /\ \E a, c, d \in BOOLEAN : cpu = Lines(a, c, d)
    /\ calls \in Seq(AllCalls)
    /\ eoi \in BOOLEAN /\ input \in Byte /\ sent \in Seq(Byte)
    /\ held \in BOOLEAN /\ meddled \in BOOLEAN

TransferInv ==
    /\ TypeOK
    /\ SentIsTaken
    /\ KernalInv
    /\ IF device.enabled THEN Transfer ELSE Off

IsSeries(s) == \E S : s \in Seq(S)

LEMMA ConsIs ==
    ASSUME NEW x, NEW s, IsSeries(s)
    PROVE  LET c == <<x>> \o s
           IN  /\ IsSeries(c) /\ c # << >> /\ Head(c) = x /\ Tail(c) = s
               /\ Len(c) = Len(s) + 1 /\ c[1] = x
               /\ \A i \in 1 .. Len(s) : c[i + 1] = s[i]
<1>1. PICK S : s \in Seq(S)
  BY DEF IsSeries
<1> DEFINE T == S \union {x}
<1>2. s \in Seq(T) /\ <<x>> \in Seq(T)
  BY <1>1
<1> HIDE DEF T
<1>3. <<x>> \o s \in Seq(T) /\ Len(<<x>> \o s) = Len(s) + 1
  BY <1>2
<1>4. (<<x>> \o s)[1] = x /\ \A i \in 1 .. Len(s) : (<<x>> \o s)[i + 1] = s[i]
  BY <1>2
<1>5. <<x>> \o s # << >> /\ Head(<<x>> \o s) = x
  BY <1>2, <1>3, <1>4
<1>6. Tail(<<x>> \o s) = s
  BY <1>2, <1>3, <1>4
<1> QED BY <1>3, <1>4, <1>5, <1>6 DEF IsSeries

LEMMA JoinsAssociate ==
    ASSUME NEW s, NEW t, NEW r, IsSeries(s), IsSeries(t), IsSeries(r)
    PROVE  (s \o t) \o r = s \o (t \o r)
<1>1. PICK S : s \in Seq(S)
  BY DEF IsSeries
<1>2. PICK T : t \in Seq(T)
  BY DEF IsSeries
<1>3. PICK R : r \in Seq(R)
  BY DEF IsSeries
<1> DEFINE U == S \union T \union R
<1>4. s \in Seq(U) /\ t \in Seq(U) /\ r \in Seq(U)
  BY <1>1, <1>2, <1>3
<1> HIDE DEF U
<1> QED BY <1>4

LEMMA ConcatEmpty == ASSUME NEW s, IsSeries(s) PROVE << >> \o s = s /\ s \o << >> = s
  BY DEF IsSeries

LEMMA TupleIsASeq ==
    /\ IsSeries(<< >>)
    /\ \A a : IsSeries(<<a>>)
    /\ \A a, b, c, d : IsSeries(<<a, b, c, d>>)
<1>1. << >> \in Seq({})
  OBVIOUS
<1>2. \A a : <<a>> \in Seq({a})
  OBVIOUS
<1>3. \A a, b, c, d : <<a, b, c, d>> \in Seq({a, b, c, d})
  OBVIOUS
<1> QED BY <1>1, <1>2, <1>3 DEF IsSeries

LEMMA ConcatIs ==
    ASSUME NEW s, NEW t, IsSeries(s), IsSeries(t)
    PROVE  /\ IsSeries(s \o t) /\ Len(s) \in Nat /\ Len(t) \in Nat
           /\ Len(s \o t) = Len(s) + Len(t)
           /\ \A k \in 1 .. Len(s) : (s \o t)[k] = s[k]
           /\ \A k \in 1 .. Len(t) : (s \o t)[Len(s) + k] = t[k]
<1>1. PICK S : s \in Seq(S)
  BY DEF IsSeries
<1>2. PICK T : t \in Seq(T)
  BY DEF IsSeries
<1> DEFINE U == S \union T
<1>3. s \in Seq(U) /\ t \in Seq(U)
  BY <1>1, <1>2
<1> HIDE DEF U
<1>4. s \o t \in Seq(U)
  BY <1>3
<1> QED BY <1>3, <1>4 DEF IsSeries

LEMMA SeqsEqual ==
    ASSUME NEW s, NEW t, IsSeries(s), IsSeries(t), Len(s) = Len(t),
           \A k \in 1 .. Len(s) : s[k] = t[k]
    PROVE  s = t
  BY SeqEqual DEF IsSeries

LEMMA TwoIs == ASSUME NEW a, NEW b PROVE <<a, b>> = <<a>> \o <<b>> /\ IsSeries(<<a, b>>)
<1>1. <<a, b>> \in Seq({a, b})
  OBVIOUS
<1>2. IsSeries(<<a, b>>) /\ IsSeries(<<a>>) /\ IsSeries(<<b>>)
  BY <1>1, TupleIsASeq DEF IsSeries
<1>3. Len(<<a>> \o <<b>>) = 2 /\ (<<a>> \o <<b>>)[1] = a /\ (<<a>> \o <<b>>)[1 + 1] = b
  BY <1>2, ConcatIs
<1>4. IsSeries(<<a>> \o <<b>>) /\ Len(<<a, b>>) = 2 /\ <<a, b>>[1] = a /\ <<a, b>>[2] = b
  BY <1>2, ConcatIs
<1>5. <<a, b>> = <<a>> \o <<b>>
  <2> DEFINE s == <<a, b>>  t == <<a>> \o <<b>>
  <2> HIDE DEF s, t
  <2>1. IsSeries(s) /\ IsSeries(t) /\ Len(s) = 2 /\ Len(t) = 2 /\ s[1] = t[1] /\ s[2] = t[2]
    BY <1>2, <1>3, <1>4 DEF s, t
  <2>2. \A k \in 1 .. Len(s) : s[k] = t[k]
    BY <2>1
  <2> QED BY <2>1, <2>2, SeqsEqual DEF s, t
<1> QED BY <1>2, <1>5

LEMMA TwoFirst ==
    ASSUME NEW a, NEW b, NEW s, IsSeries(s)
    PROVE  <<a, b>> \o s = <<a>> \o (<<b>> \o s)
  BY TwoIs, TupleIsASeq, JoinsAssociate

Joined(s, t) == s \o t
LEMMA JoinedAgain ==
    \A s, t, r : IsSeries(s) /\ IsSeries(t) /\ IsSeries(r) =>
        Joined(Joined(s, t), r) = Joined(s, Joined(t, r))
  BY JoinsAssociate DEF Joined

LEMMA FourFirst ==
    ASSUME NEW f, NEW s, IsSeries(s), f = <<f[1], f[2], f[3], f[4]>>
    PROVE  Joined(f, s) =
               Joined(<<f[1]>>, Joined(<<f[2]>>, Joined(<<f[3]>>, Joined(<<f[4]>>, s))))
<1> DEFINE a == f[1]  b == f[2]  c == f[3]  d == f[4]
<1>0. f = <<a, b, c, d>>
  OBVIOUS
<1> HIDE DEF a, b, c, d
<1>1. IsSeries(<<a, b>>) /\ IsSeries(<<c, d>>)
  BY TwoIs
<1>2. <<a, b, c, d>> = <<a, b>> \o <<c, d>>
  <2>1. Len(<<a, b>> \o <<c, d>>) = 4
    BY <1>1, ConcatIs
  <2>2. /\ (<<a, b>> \o <<c, d>>)[1] = a /\ (<<a, b>> \o <<c, d>>)[2] = b
        /\ (<<a, b>> \o <<c, d>>)[2 + 1] = c /\ (<<a, b>> \o <<c, d>>)[2 + 2] = d
    BY <1>1, ConcatIs
  <2> QED BY <1>1, <2>1, <2>2, TupleIsASeq, ConcatIs, SeqsEqual
<1>3. Joined(<<a, b, c, d>>, s) = Joined(<<a, b>>, Joined(<<c, d>>, s))
  <2>1. <<a, b, c, d>> = Joined(<<a, b>>, <<c, d>>)
    BY <1>2 DEF Joined
  <2> QED BY <1>1, <2>1, JoinedAgain
<1>4. \A x, y, r : IsSeries(r) => Joined(<<x, y>>, r) = Joined(<<x>>, Joined(<<y>>, r))
  BY TwoFirst DEF Joined
<1>5. Joined(<<c, d>>, s) = Joined(<<c>>, Joined(<<d>>, s))
  BY <1>4
<1> DEFINE r == Joined(<<c, d>>, s)
<1>6. IsSeries(r)
  BY <1>1, ConcatIs DEF Joined
<1> HIDE DEF r
<1>7. Joined(<<a, b>>, r) = Joined(<<a>>, Joined(<<b>>, r))
  BY <1>4, <1>6
<1> QED BY <1>0, <1>3, <1>5, <1>7 DEF r, a, b, c, d

LEMMA FunIsASeq ==
    ASSUME NEW n \in Nat, NEW f, f = [k \in 1 .. n |-> f[k]]
    PROVE  IsSeries(f) /\ Len(f) = n
<1> DEFINE S == {f[k] : k \in 1 .. n}
<1>1. f \in [1 .. n -> S]
  OBVIOUS
<1>2. f \in Seq(S)
  BY <1>1
<1>3. Len(f) = n
  BY <1>2
<1> QED BY <1>2, <1>3 DEF IsSeries

LEMMA SendBitsIsASeq ==
    ASSUME NEW b, NEW i \in 0 .. Bits
    PROVE  IsSeries(SendBits(b, i)) /\ Len(SendBits(b, i)) = 4 * (Bits - i)
  BY FunIsASeq, BitsAssumption DEF SendBits

LEMMA IsJoined ==
    \A l, h, t :
        /\ IsSeries(l) /\ IsSeries(h) /\ IsSeries(t) /\ Len(l) = Len(h) + Len(t)
        /\ \A k \in 1 .. Len(h) : l[k] = h[k]
        /\ \A k \in 1 .. Len(t) : l[Len(h) + k] = t[k]
        => l = Joined(h, t)
<1> SUFFICES
      ASSUME NEW l, NEW h, NEW t, IsSeries(l), IsSeries(h), IsSeries(t),
             Len(l) = Len(h) + Len(t),
             \A k \in 1 .. Len(h) : l[k] = h[k],
             \A k \in 1 .. Len(t) : l[Len(h) + k] = t[k]
      PROVE  l = h \o t
  BY DEF Joined
<1> DEFINE n == Len(h)
<1>0. n \in Nat
  BY ConcatIs
<1> HIDE DEF n
<1>1. IsSeries(h \o t) /\ Len(h \o t) = n + Len(t) /\ Len(t) \in Nat
  BY ConcatIs DEF n
<1>2. ASSUME NEW k \in 1 .. Len(l) PROVE l[k] = (h \o t)[k]
  <2>1. CASE k <= n
    BY <1>0, <1>1, <1>2, <2>1, ConcatIs DEF n
  <2>2. CASE ~ k <= n
    <3>1. k - n \in 1 .. Len(t) /\ k = n + (k - n)
      BY <1>0, <1>1, <1>2, <2>2 DEF n
    <3>2. l[n + (k - n)] = t[k - n] /\ (h \o t)[n + (k - n)] = t[k - n]
      BY <3>1, ConcatIs DEF n
    <3> QED BY <3>1, <3>2
  <2> QED BY <2>1, <2>2
<1> QED BY <1>1, <1>2, SeqsEqual DEF n

\* The bits are sent one after the other.
LEMMA SendBitsNext ==
    ASSUME NEW b, NEW i \in 0 .. Bits - 1
    PROVE  SendBits(b, i) = SendBit(b, i) \o SendBits(b, i + 1)
<1>1. i \in Nat /\ Bits \in Nat /\ i + 1 \in 0 .. Bits /\ i \in 0 .. Bits
  BY BitsAssumption
<1>2. /\ IsSeries(SendBits(b, i)) /\ Len(SendBits(b, i)) = 4 * (Bits - i)
      /\ IsSeries(SendBits(b, i + 1)) /\ Len(SendBits(b, i + 1)) = 4 * (Bits - (i + 1))
  BY <1>1, SendBitsIsASeq
<1>3. IsSeries(SendBit(b, i)) /\ Len(SendBit(b, i)) = 4
  BY TupleIsASeq DEF SendBit
<1>4. ASSUME NEW k \in 1 .. 4 PROVE SendBits(b, i)[k] = SendBit(b, i)[k]
  <2>1. (k - 1) \div 4 = 0 /\ (k - 1) % 4 = k - 1 /\ k \in 1 .. 4 * (Bits - i)
    BY <1>1
  <2>2. SendBits(b, i)[k] = SendBit(b, i + ((k - 1) \div 4))[((k - 1) % 4) + 1]
    BY <2>1 DEF SendBits
  <2> QED BY <1>1, <2>1, <2>2
<1>5. ASSUME NEW k \in 1 .. 4 * (Bits - (i + 1))
      PROVE  SendBits(b, i)[4 + k] = SendBits(b, i + 1)[k]
  <2> DEFINE j == 4 + k
  <2>1. /\ (j - 1) \div 4 = ((k - 1) \div 4) + 1 /\ (j - 1) % 4 = (k - 1) % 4
        /\ j \in 1 .. 4 * (Bits - i) /\ (k - 1) \div 4 \in Nat
    BY <1>1
  <2> HIDE DEF j
  <2>2. SendBits(b, i)[j] = SendBit(b, i + ((j - 1) \div 4))[((j - 1) % 4) + 1]
    BY <2>1 DEF SendBits
  <2>3. SendBits(b, i + 1)[k] = SendBit(b, (i + 1) + ((k - 1) \div 4))[((k - 1) % 4) + 1]
    BY DEF SendBits
  <2>4. i + ((j - 1) \div 4) = (i + 1) + ((k - 1) \div 4)
    BY <1>1, <2>1
  <2> QED BY <2>1, <2>2, <2>3, <2>4 DEF j
<1>6. 4 * (Bits - i) = 4 + 4 * (Bits - (i + 1))
  BY <1>1
<1> DEFINE all == SendBits(b, i)  first == SendBit(b, i)  rest == SendBits(b, i + 1)
<1>7. /\ IsSeries(all) /\ IsSeries(first) /\ IsSeries(rest) /\ Len(first) = 4 /\ Len(all) = 4 + Len(rest)
      /\ \A k \in 1 .. 4 : all[k] = first[k]
      /\ \A k \in 1 .. Len(rest) : all[4 + k] = rest[k]
  BY <1>2, <1>3, <1>4, <1>5, <1>6
<1> HIDE DEF all, first, rest
<1>8. /\ IsSeries(all) /\ IsSeries(first) /\ IsSeries(rest) /\ Len(all) = Len(first) + Len(rest)
      /\ \A k \in 1 .. Len(first) : all[k] = first[k]
      /\ \A k \in 1 .. Len(rest) : all[Len(first) + k] = rest[k]
  BY <1>7
<1>9. all = Joined(first, rest)
  BY ONLY <1>8, IsJoined
<1> QED BY <1>9 DEF all, first, rest, Joined

LEMMA ReadBitsIsASeq ==
    ASSUME NEW i \in 0 .. Bits
    PROVE  IsSeries(ReadBits(i)) /\ Len(ReadBits(i)) = 2 * (Bits - i)
  BY FunIsASeq, BitsAssumption DEF ReadBits

LEMMA ReadBitsNext ==
    ASSUME NEW i \in 0 .. Bits - 1
    PROVE  ReadBits(i) = <<Sample(i), Until("clk", FALSE)>> \o ReadBits(i + 1)
<1> DEFINE all == ReadBits(i)
           first == <<Sample(i), Until("clk", FALSE)>>
           rest == ReadBits(i + 1)
<1>1. i \in Nat /\ Bits \in Nat /\ i + 1 \in 0 .. Bits /\ i \in 0 .. Bits
  BY BitsAssumption
<1>2. IsSeries(all) /\ IsSeries(rest) /\ Len(all) = 2 * (Bits - i) /\ Len(rest) = 2 * (Bits - (i + 1))
  BY <1>1, ReadBitsIsASeq
<1>3. IsSeries(first) /\ Len(first) = 2 /\ first[1] = Sample(i) /\ first[2] = Until("clk", FALSE)
  BY TwoIs
<1>4. all[1] = Sample(i) /\ all[2] = Until("clk", FALSE)
  <2>1. 1 \in 1 .. 2 * (Bits - i) /\ 2 \in 1 .. 2 * (Bits - i)
    BY <1>1
  <2>2. 1 % 2 = 1 /\ 2 % 2 = 0 /\ (1 - 1) \div 2 = 0 /\ i + 0 = i
    BY <1>1
  <2>3. all[1] = (IF 1 % 2 = 1 THEN Sample(i + ((1 - 1) \div 2)) ELSE Until("clk", FALSE))
    BY <2>1 DEF ReadBits
  <2>4. all[2] = (IF 2 % 2 = 1 THEN Sample(i + ((2 - 1) \div 2)) ELSE Until("clk", FALSE))
    BY <2>1 DEF ReadBits
  <2> QED BY <2>2, <2>3, <2>4
<1>5. ASSUME NEW k \in 1 .. 2 * (Bits - (i + 1))
      PROVE  all[2 + k] = rest[k]
  <2> DEFINE j == 2 + k
  <2>1. /\ (j - 1) \div 2 = ((k - 1) \div 2) + 1 /\ j % 2 = k % 2
        /\ j \in 1 .. 2 * (Bits - i) /\ (k - 1) \div 2 \in Nat
    BY <1>1
  <2> HIDE DEF j
  <2>2. ReadBits(i)[j] = IF j % 2 = 1 THEN Sample(i + ((j - 1) \div 2)) ELSE Until("clk", FALSE)
    BY <2>1 DEF ReadBits
  <2>3. ReadBits(i + 1)[k] =
            IF k % 2 = 1 THEN Sample((i + 1) + ((k - 1) \div 2)) ELSE Until("clk", FALSE)
    BY DEF ReadBits
  <2>4. i + ((j - 1) \div 2) = (i + 1) + ((k - 1) \div 2)
    BY <1>1, <2>1
  <2> QED BY <2>1, <2>2, <2>3, <2>4 DEF j
<1>6. 2 * (Bits - i) = 2 + 2 * (Bits - (i + 1))
  BY <1>1
<1> HIDE DEF all, first, rest
<1>7. \A k \in 1 .. 2 : all[k] = first[k]
  <2>1. \A k \in 1 .. 2 : k = 1 \/ k = 2
    OBVIOUS
  <2>2. all[1] = first[1] /\ all[2] = first[2]
    BY <1>3, <1>4
  <2> QED BY <2>1, <2>2
<1>8. /\ IsSeries(all) /\ IsSeries(first) /\ IsSeries(rest) /\ Len(all) = Len(first) + Len(rest)
      /\ \A k \in 1 .. Len(first) : all[k] = first[k]
      /\ \A k \in 1 .. Len(rest) : all[Len(first) + k] = rest[k]
  BY <1>2, <1>3, <1>5, <1>6, <1>7
<1>9. all = Joined(first, rest)
  BY ONLY <1>8, IsJoined
<1> QED BY <1>9 DEF all, first, rest, Joined

(* What is left of the Kernal's routine at each of its places, first and rest. *)
Is(c, x, s) == IsSeries(c) /\ c # << >> /\ Head(c) = x /\ Tail(c) = s

LEMMA IsStore ==
    ASSUME NEW x, NEW s, IsSeries(s)
    PROVE  Is(Joined(<<x>>, s), x, s) /\ Is(<<x>> \o s, x, s)
  BY ConsIs DEF Is, Joined
LEMMA IsLast == \A x : Is(<<x>>, x, << >>)
<1> TAKE x
<1>1. IsSeries(<< >>)
  BY TupleIsASeq
<1>2. <<x>> \o << >> = <<x>>
  BY TupleIsASeq, ConcatEmpty
<1> QED BY <1>1, <1>2, IsStore

LEMMA RestIs ==
    ASSUME NEW m \in Messages
    PROVE  IsSeries(Rest(m)) /\ IsSeries(LetGo) /\ IsSeries(Finish) /\ IsSeries(TurnRound)
  <1>1. IsSeries(LetGo)
    BY TwoIs DEF LetGo
  <1>2. IsSeries(Finish)
    BY <1>1, ConsIs DEF Finish
  <1>3. IsSeries(TurnRound)
    BY TupleIsASeq, ConsIs DEF TurnRound, TurnAtnHi, TurnClkHi
  <1>4. IsSeries(<< >>) /\ IsSeries(<<AtnHi>>)
    BY TupleIsASeq
  <1> QED BY <1>1, <1>2, <1>3, <1>4 DEF Rest, Messages, Opening, Closing

LEMMA FromAckIs ==
    ASSUME NEW m \in Messages, NEW t
    PROVE  Is(FromAck(m, t), Answer(m, t), Rest(m))
  BY RestIs, IsStore DEF FromAck

LEMMA FromBitIsASeq ==
    ASSUME NEW m \in Messages, NEW i \in 0 .. Bits
    PROVE  IsSeries(FromBit(m, i))
  BY SendBitsIsASeq, FromAckIs, ConcatIs DEF FromBit, Is

LEMMA FromBitIs ==
    ASSUME NEW m \in Messages, NEW i \in 0 .. Bits - 1
    PROVE  /\ Is(FromBit(m, i), Need(TRUE), FromBitData(m, i))
           /\ Is(FromBitData(m, i), Store([data |-> i \in m.byte]), FromBitClkHi(m, i))
           /\ Is(FromBitClkHi(m, i), ClkHi, FromBitClkLo(m, i))
           /\ Is(FromBitClkLo(m, i), Store([clk |-> FALSE, data |-> TRUE]), FromBit(m, i + 1))
<1>1. i + 1 \in 0 .. Bits /\ i \in 0 .. Bits
  BY BitsAssumption
<1>2. IsSeries(FromBit(m, i + 1))
  BY <1>1, FromBitIsASeq
<1>3. Is(FromBitClkLo(m, i), Store([clk |-> FALSE, data |-> TRUE]), FromBit(m, i + 1))
  BY <1>2, IsStore DEF FromBitClkLo
<1>4. Is(FromBitClkHi(m, i), ClkHi, FromBitClkLo(m, i))
  BY <1>3, IsStore DEF FromBitClkHi, Is
<1>5. Is(FromBitData(m, i), Store([data |-> i \in m.byte]), FromBitClkHi(m, i))
  BY <1>4, IsStore DEF FromBitData, Is
<1>6. FromBit(m, i) = Joined(<<Need(TRUE)>>, FromBitData(m, i))
  <2> DEFINE first == SendBit(m.byte, i)
             rest == SendBits(m.byte, i + 1)
             ack == FromAck(m, AckWait)
  <2>1. SendBits(m.byte, i) = first \o rest
    BY SendBitsNext
  <2>2. IsSeries(first) /\ IsSeries(rest) /\ IsSeries(ack)
    BY <1>1, SendBitsIsASeq, TupleIsASeq, FromAckIs DEF Is, SendBit
  <2>3. FromBit(m, i) = Joined(first, FromBit(m, i + 1))
    <3> HIDE DEF first, rest, ack
    <3>1. (first \o rest) \o ack = first \o (rest \o ack)
      <4>1. Joined(Joined(first, rest), ack) = Joined(first, Joined(rest, ack))
        BY <2>2, JoinedAgain
      <4> QED BY <4>1 DEF Joined
    <3> QED BY <2>1, <3>1 DEF FromBit, rest, ack, Joined
  <2>4. Joined(first, FromBit(m, i + 1)) =
            Joined(<<Need(TRUE)>>, Joined(<<Store([data |-> i \in m.byte])>>,
                Joined(<<ClkHi>>, Joined(<<Store([clk |-> FALSE, data |-> TRUE])>>,
                                         FromBit(m, i + 1)))))
    <3> DEFINE x == Store([data |-> i \in m.byte])
               y == Store([clk |-> FALSE, data |-> TRUE])
    <3> HIDE DEF x, y
    <3>1. first = <<Need(TRUE), x, ClkHi, y>>
      BY DEF SendBit, x, y
    <3> HIDE DEF first
    <3>2. first[1] = Need(TRUE) /\ first[2] = x /\ first[3] = ClkHi /\ first[4] = y
          /\ first = <<first[1], first[2], first[3], first[4]>>
      BY <3>1
    <3> DEFINE next == FromBit(m, i + 1)
    <3> HIDE DEF next
    <3>3. Joined(first, next) =
              Joined(<<first[1]>>, Joined(<<first[2]>>, Joined(<<first[3]>>, Joined(<<first[4]>>, next))))
      BY <1>2, <3>2, FourFirst DEF next
    <3> QED BY <3>2, <3>3 DEF x, y, next
  <2>5. Joined(<<Store([clk |-> FALSE, data |-> TRUE])>>, FromBit(m, i + 1)) = FromBitClkLo(m, i)
    BY DEF Joined, FromBitClkLo
  <2>6. Joined(<<ClkHi>>, FromBitClkLo(m, i)) = FromBitClkHi(m, i)
    BY DEF Joined, FromBitClkHi
  <2>7. Joined(<<Store([data |-> i \in m.byte])>>, FromBitClkHi(m, i)) = FromBitData(m, i)
    BY DEF Joined, FromBitData
  <2> QED BY <2>3, <2>4, <2>5, <2>6, <2>7
<1>7. Is(FromBit(m, i), Need(TRUE), FromBitData(m, i))
  BY <1>5, <1>6, IsStore DEF Is
<1> QED BY <1>3, <1>4, <1>5, <1>7

LEMMA FromBitsEnd ==
    ASSUME NEW m \in Messages
    PROVE  FromBit(m, Bits) = FromAck(m, AckWait)
<1>1. SendBits(m.byte, Bits) = << >>
  <2>1. Bits \in 0 .. Bits /\ 4 * (Bits - Bits) = 0
    BY BitsAssumption
  <2>2. IsSeries(SendBits(m.byte, Bits)) /\ Len(SendBits(m.byte, Bits)) = 0
    BY <2>1, SendBitsIsASeq
  <2> QED BY <2>2 DEF IsSeries
<1>2. IsSeries(FromAck(m, AckWait))
  BY FromAckIs DEF Is
<1> QED BY <1>1, <1>2, ConcatEmpty DEF FromBit

\* From the start of a byte to its first bit.
LEMMA FromSendIs ==
    ASSUME NEW m \in Messages, NEW o
    PROVE  /\ Is(FromClkLo(m), ClkLo, FromBit(m, 0))
           /\ Is(FromReady(m, o), Waits("data", TRUE, o), FromClkLo(m))
           /\ Is(FromEoi2(m, o), Waits("data", FALSE, o), FromReady(m, FALSE))
           /\ Is(FromEoi1(m, o), Waits("data", TRUE, o), FromEoi2(m, FALSE))
           /\ Is(FromClkHi(m), ClkHi,
                 IF m.last THEN FromEoi1(m, FALSE) ELSE FromReady(m, FALSE))
           /\ Is(FromNeed(m), Need(FALSE), FromClkHi(m))
           /\ Is(FromLetGo(m), DataHi, FromNeed(m))
           /\ Is(FromPause(m), Pause([data |-> TRUE]), FromLetGo(m))
           /\ Is(FromAddress(m), ClkLo, FromPause(m))
           /\ Is(FromAtnLo(m), AtnLo, FromAddress(m))
           /\ Is(FromDataHi(m), DataHi,
                 IF m.kind = "unlisten" THEN <<ClkHi>> \o FromAtnLo(m) ELSE FromAtnLo(m))
           /\ Is(<<ClkHi>> \o FromAtnLo(m), ClkHi, FromAtnLo(m))
           /\ Is(FromUntalk(m), AtnLo, FromDataHi(m))
           /\ Is(<<ClkLo>> \o FromUntalk(m), ClkLo, FromUntalk(m))
<1>1. Is(FromClkLo(m), ClkLo, FromBit(m, 0))
  BY FromBitIsASeq, IsStore, BitsAssumption DEF FromClkLo
<1>2. \A x : Is(FromReady(m, x), Waits("data", TRUE, x), FromClkLo(m))
  BY <1>1, IsStore DEF FromReady, Is
<1>3. \A x : Is(FromEoi2(m, x), Waits("data", FALSE, x), FromReady(m, FALSE))
  BY <1>2, IsStore DEF FromEoi2, Is
<1>4. \A x : Is(FromEoi1(m, x), Waits("data", TRUE, x), FromEoi2(m, FALSE))
  BY <1>3, IsStore DEF FromEoi1, Is
<1>5. Is(FromClkHi(m), ClkHi, IF m.last THEN FromEoi1(m, FALSE) ELSE FromReady(m, FALSE))
  BY <1>2, <1>4, IsStore DEF FromClkHi, Is
<1>6. Is(FromNeed(m), Need(FALSE), FromClkHi(m))
  BY <1>5, IsStore DEF FromNeed, Is
<1>7. Is(FromLetGo(m), DataHi, FromNeed(m))
  BY <1>6, IsStore DEF FromLetGo, Is
<1>8. Is(FromPause(m), Pause([data |-> TRUE]), FromLetGo(m))
  BY <1>7, IsStore DEF FromPause, Is
<1>9. Is(FromAddress(m), ClkLo, FromPause(m))
  BY <1>8, IsStore DEF FromAddress, Is
<1>10. Is(FromAtnLo(m), AtnLo, FromAddress(m))
  BY <1>9, IsStore DEF FromAtnLo, Is
<1>11. Is(<<ClkHi>> \o FromAtnLo(m), ClkHi, FromAtnLo(m))
  BY <1>10, IsStore DEF Is
<1>12. Is(FromDataHi(m), DataHi,
          IF m.kind = "unlisten" THEN <<ClkHi>> \o FromAtnLo(m) ELSE FromAtnLo(m))
  BY <1>10, <1>11, IsStore DEF FromDataHi, Is
<1>13. Is(FromUntalk(m), AtnLo, FromDataHi(m))
  BY <1>12, IsStore DEF FromUntalk, Is
<1>14. Is(<<ClkLo>> \o FromUntalk(m), ClkLo, FromUntalk(m))
  BY <1>13, IsStore DEF Is
<1> QED BY <1>1, <1>2, <1>3, <1>4, <1>5, <1>6, <1>7, <1>8, <1>9, <1>10, <1>11, <1>12, <1>13, <1>14

LEMMA FinishIs ==
    /\ Is(<<DataHi>>, DataHi, << >>)
    /\ Is(LetGo, Pause([clk |-> TRUE]), <<DataHi>>)
    /\ Is(Finish, AtnHi, LetGo)
    /\ Is(<<AtnHi>>, AtnHi, << >>)
    /\ Is(<<Store(High)>>, Store(High), << >>)
<1>1. Is(<<DataHi>>, DataHi, << >>) /\ Is(<<AtnHi>>, AtnHi, << >>)
      /\ Is(<<Store(High)>>, Store(High), << >>)
  BY IsLast
<1>2. LetGo = <<Pause([clk |-> TRUE])>> \o <<DataHi>>
  BY TwoIs DEF LetGo
<1>3. Is(LetGo, Pause([clk |-> TRUE]), <<DataHi>>)
  BY <1>1, <1>2, IsStore DEF Is
<1>4. Is(Finish, AtnHi, LetGo)
  BY <1>3, IsStore DEF Finish, Is
<1> QED BY <1>1, <1>3, <1>4

LEMMA TurnIs ==
    /\ \A o : Is(<<Waits("clk", FALSE, o)>>, Waits("clk", FALSE, o), << >>)
    /\ <<Until("clk", FALSE)>> = <<Waits("clk", FALSE, FALSE)>>
    /\ Is(TurnClkHi, ClkHi, <<Until("clk", FALSE)>>)
    /\ Is(TurnAtnHi, AtnHi, TurnClkHi)
    /\ Is(TurnRound, DataLo, TurnAtnHi)
<1> DEFINE u == <<Until("clk", FALSE)>>
<1>1. \A x : Is(<<x>>, x, << >>)
  BY IsLast
<1>2. IsSeries(u)
  BY TupleIsASeq
<1>3. Until("clk", FALSE) = Waits("clk", FALSE, FALSE)
  BY DEF Until, Waits
<1>4. Is(TurnClkHi, ClkHi, u)
  BY <1>2, IsStore DEF TurnClkHi
<1>5. Is(TurnAtnHi, AtnHi, TurnClkHi)
  BY <1>4, IsStore DEF TurnAtnHi, Is
<1>6. Is(TurnRound, DataLo, TurnAtnHi)
  BY <1>5, IsStore DEF TurnRound, Is
<1> QED BY <1>1, <1>3, <1>4, <1>5, <1>6

\* Reading a byte.
LEMMA FromReadBitIsASeq ==
    ASSUME NEW i \in 0 .. Bits
    PROVE  IsSeries(FromReadBit(i))
<1>1. IsSeries(FromReadDataLo)
  BY IsLast, IsStore DEF FromReadDataLo, FromRead, Is
<1> QED BY <1>1, ReadBitsIsASeq, ConcatIs DEF FromReadBit

LEMMA FromReadBitIs ==
    ASSUME NEW i \in 0 .. Bits - 1, NEW o
    PROVE  /\ Is(FromSample(i, o), Tries(i, o), FromEdgeEnd(i, FALSE))
           /\ Is(FromEdgeEnd(i, o), Waits("clk", FALSE, o), FromReadBit(i + 1))
           /\ FromReadBit(i) = FromSample(i, FALSE)
<1>1. i + 1 \in 0 .. Bits
  BY BitsAssumption
<1>2. \A x : Is(FromEdgeEnd(i, x), Waits("clk", FALSE, x), FromReadBit(i + 1))
  BY <1>1, FromReadBitIsASeq, IsStore DEF FromEdgeEnd
<1>3. Is(FromSample(i, o), Tries(i, o), FromEdgeEnd(i, FALSE))
  BY <1>2, IsStore DEF FromSample, Is
<1>4. FromReadBit(i) = FromSample(i, FALSE)
  <2> DEFINE first == <<Sample(i), Until("clk", FALSE)>>
             rest == ReadBits(i + 1)
             end == FromReadDataLo
             next == FromReadBit(i + 1)
  <2>1. IsSeries(first) /\ IsSeries(rest) /\ IsSeries(end) /\ IsSeries(next)
    BY <1>1, TwoIs, ReadBitsIsASeq, FromReadBitIsASeq, IsLast, IsStore
       DEF FromReadDataLo, FromRead, Is
  <2>2. ReadBits(i) = first \o rest
    BY ReadBitsNext
  <2>3. FromReadBit(i) = first \o next
    <3> HIDE DEF first, rest, end
    <3>1. (first \o rest) \o end = first \o (rest \o end)
      <4>1. Joined(Joined(first, rest), end) = Joined(first, Joined(rest, end))
        BY <2>1, JoinedAgain
      <4> QED BY <4>1 DEF Joined
    <3> QED BY <2>2, <3>1 DEF FromReadBit, rest, end
  <2>4. first \o next = <<Sample(i)>> \o (<<Until("clk", FALSE)>> \o next)
    <3> DEFINE a == Sample(i)
               b == Until("clk", FALSE)
    <3> HIDE DEF next, a, b
    <3>1. <<a, b>> \o next = <<a>> \o (<<b>> \o next)
      BY <2>1, TwoFirst
    <3> QED BY <3>1 DEF a, b
  <2>5. Sample(i) = Tries(i, FALSE) /\ Until("clk", FALSE) = Waits("clk", FALSE, FALSE)
    BY DEF Sample, Tries, Until, Waits
  <2> QED BY <2>3, <2>4, <2>5 DEF FromSample, FromEdgeEnd
<1> QED BY <1>2, <1>3, <1>4

LEMMA FromReadBitsEnd == FromReadBit(Bits) = FromReadDataLo
<1>1. ReadBits(Bits) = << >>
  <2>1. Bits \in 0 .. Bits /\ 2 * (Bits - Bits) = 0
    BY BitsAssumption
  <2>2. IsSeries(ReadBits(Bits)) /\ Len(ReadBits(Bits)) = 0
    BY <2>1, ReadBitsIsASeq
  <2> QED BY <2>2 DEF IsSeries
<1>2. IsSeries(FromReadDataLo)
  BY IsLast, IsStore DEF FromReadDataLo, FromRead, Is
<1> QED BY <1>1, <1>2, ConcatEmpty DEF FromReadBit

LEMMA FromReadIs ==
    ASSUME NEW o, NEW t
    PROVE  /\ Is(FromRead, ByteRead, << >>)
           /\ Is(FromReadDataLo, DataLo, FromRead)
           /\ Is(FromEdge(o, t), Edge(o, t), FromReadBit(0))
           /\ Is(FromReadDataHi(o), DataHi, FromEdge(o, EoiWait))
           /\ Is(FromTalkerReady(o), Waits("clk", TRUE, o), FromReadDataHi(FALSE))
           /\ Is(FromReadClkHi, ClkHi, FromTalkerReady(FALSE))
           /\ Is(FromEoiClkHi, ClkHi, FromReadDataHi(TRUE))
           /\ Is(FromEoi, DataLo, FromEoiClkHi)
<1>1. Is(FromRead, ByteRead, << >>) /\ Is(FromReadDataLo, DataLo, FromRead)
  BY IsLast, IsStore DEF FromReadDataLo, FromRead, Is
<1>2. IsSeries(FromReadBit(0))
  BY FromReadBitIsASeq, BitsAssumption
<1>3. \A x, y : Is(FromEdge(x, y), Edge(x, y), FromReadBit(0))
  BY <1>2, IsStore DEF FromEdge
<1>4. \A x : Is(FromReadDataHi(x), DataHi, FromEdge(x, EoiWait))
  BY <1>3, IsStore DEF FromReadDataHi, Is
<1>5. \A x : Is(FromTalkerReady(x), Waits("clk", TRUE, x), FromReadDataHi(FALSE))
  BY <1>4, IsStore DEF FromTalkerReady, Is
<1>6. Is(FromReadClkHi, ClkHi, FromTalkerReady(FALSE))
  BY <1>5, IsStore DEF FromReadClkHi, Is
<1>7. Is(FromEoiClkHi, ClkHi, FromReadDataHi(TRUE))
  BY <1>4, IsStore DEF FromEoiClkHi, Is
<1>8. Is(FromEoi, DataLo, FromEoiClkHi)
  BY <1>7, IsStore DEF FromEoi, Is
<1> QED BY <1>1, <1>3, <1>4, <1>5, <1>6, <1>7, <1>8

(* The device as a record: what its fields hold, and how one follows from   *)
(* another.                                                                 *)

Fields ==
    {"enabled", "flags", "state", "bit", "primary", "secondary", "secondary_prev",
     "byte", "timeout", "st", "clk", "data", "isopen", "name", "mode", "file", "pos",
     "taken", "got", "lossy"}
Shape(u) == u = [f \in Fields |-> u[f]]
Typed(u) ==
    /\ Shape(u) /\ u.enabled \in BOOLEAN
    /\ u.flags \subseteq {"ATN", "LISTENING", "TALKING"}
    /\ u.state \in States /\ u.bit \in 0 .. Bits - 1
    /\ u.primary \in Byte /\ u.secondary \in Byte /\ u.secondary_prev \in Byte
    /\ u.byte \in Byte /\ u.timeout \in Nat /\ u.st \in {OK, EOF, FAIL}
    /\ u.clk \in BOOLEAN /\ u.data \in BOOLEAN
    /\ u.isopen \in 0 .. 2 /\ u.name \in Seq(Byte) /\ u.mode \in {"read", "write", "none"}
    /\ u.file \in Files \union {<< >>} /\ u.pos \in Nat /\ u.taken \in Seq(Byte)
    /\ u.got \in Seq(Entries) /\ u.lossy \in BOOLEAN

LEMMA TypedIs == \A u : u \in Devices <=> Typed(u)
<1> TAKE u
<1>1. u \in Devices => Typed(u)
  BY DEF Devices, Typed, Shape, Fields
<1>2. Typed(u) => u \in Devices
  <2> DEFINE en == u.enabled  fl == u.flags  stt == u.state  bi == u.bit
             pr == u.primary  se == u.secondary  sp == u.secondary_prev
             by == u.byte  ti == u.timeout  stat == u.st  cl == u.clk  da == u.data
             is == u.isopen  na == u.name  mo == u.mode  fi == u.file  po == u.pos
             ta == u.taken  go == u.got  lo == u.lossy
             r == [enabled |-> en, flags |-> fl, state |-> stt, bit |-> bi,
                   primary |-> pr, secondary |-> se, secondary_prev |-> sp,
                   byte |-> by, timeout |-> ti, st |-> stat, clk |-> cl, data |-> da,
                   isopen |-> is, name |-> na, mode |-> mo, file |-> fi, pos |-> po,
                   taken |-> ta, got |-> go, lossy |-> lo]
  <2>1. Shape(u) => u = r
    BY DEF Shape, Fields
  <2>2. Typed(u) => r \in Devices
    <3> SUFFICES ASSUME Typed(u) PROVE r \in Devices
      OBVIOUS
    <3>1. /\ en \in BOOLEAN /\ fl \in SUBSET {"ATN", "LISTENING", "TALKING"}
          /\ stt \in States /\ bi \in 0 .. Bits - 1
          /\ pr \in Byte /\ se \in Byte /\ sp \in Byte
          /\ by \in Byte /\ ti \in Nat /\ stat \in {OK, EOF, FAIL}
          /\ cl \in BOOLEAN /\ da \in BOOLEAN
          /\ is \in 0 .. 2 /\ na \in Seq(Byte) /\ mo \in {"read", "write", "none"}
          /\ fi \in Files \union {<< >>} /\ po \in Nat /\ ta \in Seq(Byte)
          /\ go \in Seq(Entries) /\ lo \in BOOLEAN
      BY DEF Typed
    <3> HIDE DEF en, fl, stt, bi, pr, se, sp, by, ti, stat, cl, da, is, na, mo, fi, po, ta, go, lo
    <3> QED BY <3>1 DEF Devices
  <2> HIDE DEF r
  <2> QED BY <2>1, <2>2 DEF Typed
<1> QED BY <1>1, <1>2

(* One transition, state by state: what changes and what is kept.           *)

Keep(u, v) ==
    /\ Shape(v) /\ v.enabled = u.enabled /\ v.flags = u.flags
    /\ v.primary = u.primary /\ v.secondary = u.secondary
    /\ v.secondary_prev = u.secondary_prev
    /\ v.isopen = u.isopen /\ v.name = u.name /\ v.mode = u.mode /\ v.file = u.file
    /\ v.pos = u.pos /\ v.taken = u.taken /\ v.got = u.got /\ v.lossy = u.lossy
    /\ v.st = u.st
Goes(u, v, s, b, y, t, c, d) ==
    /\ Keep(u, v) /\ v.state = s /\ v.bit = b /\ v.byte = y /\ v.timeout = t
    /\ v.clk = c /\ v.data = d
Left(u, d) == IF u.timeout > d THEN u.timeout - d ELSE 0
Stays(u, v) == Goes(u, v, u.state, u.bit, u.byte, u.timeout, u.clk, u.data)

LEMMA AfterIs ==
    ASSUME NEW u, Shape(u), NEW d
    PROVE  Goes(u, After(u, d), u.state, u.bit, u.byte, Left(u, d), u.clk, u.data)
  BY DEF Goes, Keep, After, Left, Shape, Fields

LEMMA KeepTwice ==
    ASSUME NEW u, NEW v, NEW w, Keep(u, v), Keep(v, w)
    PROVE  Keep(u, w)
  BY DEF Keep

\* The lines as the device finds them tell it nothing new of ATN.
Quiet(u) == ("ATN" \in u.flags) = ~ cpu.atn
LEMMA ExecQuiet ==
    ASSUME NEW u, Shape(u), u.enabled, Quiet(u), NEW d, NEW a
    PROVE  /\ u.flags \intersect {"ATN", "LISTENING"} # {} =>
                Exec(u, d, a) = Receive(After(u, d), BusWith(u), a)
           /\ u.flags = {"TALKING"} => Exec(u, d, a) = Send(After(u, d), BusWith(u))
           /\ u.flags = {} => Exec(u, d, a) = After(u, d)
<1> DEFINE w == After(u, d)
<1>1. w.flags = u.flags
  BY AfterIs DEF Goes, Keep
<1>2. Exec(u, d, a) = Transition(AtnEdge(w, BusWith(u), a), BusWith(u), a)
  BY DEF Exec
<1> HIDE DEF w
<1>3. AtnEdge(w, BusWith(u), a) = w
  BY <1>1 DEF AtnEdge, Quiet, BusWith
<1>4. Exec(u, d, a) = Transition(w, BusWith(u), a)
  BY <1>2, <1>3
<1> QED BY <1>1, <1>4 DEF Transition, w

(* One transition under ATN or while listening. *)
LEMMA ReceivePre0 ==
    ASSUME NEW u, Shape(u), NEW bus, NEW a, u.state = "PRE0"
    PROVE  Goes(u, Receive(u, bus, a),
                IF u.timeout = 0 THEN "PRE1" ELSE "PRE0",
                u.bit,
                u.byte,
                u.timeout,
                u.clk,
                u.data)
<1> DEFINE v == [u EXCEPT !.state = "PRE1", !.timeout = u.timeout]
<1>1. Receive(u, bus, a) = IF u.timeout = 0 THEN v ELSE u
  BY DEF Receive, GoOn, Go, Expired, Release, HoldData, Pull, FirstBit, BitDone
<1>2. Goes(u, v, "PRE1", u.bit, u.byte, u.timeout, u.clk, u.data)
  BY DEF Goes, Keep, Shape, Fields
<1>3. Stays(u, u)
  BY DEF Stays, Goes, Keep
<1> HIDE DEF v
<1> QED BY <1>1, <1>2, <1>3 DEF Stays

LEMMA ReceivePre1 ==
    ASSUME NEW u, Shape(u), NEW bus, NEW a, u.state = "PRE1"
    PROVE  Goes(u, Receive(u, bus, a),
                IF ~ bus.clk THEN "PRE2" ELSE "PRE1",
                u.bit,
                u.byte,
                u.timeout,
                u.clk,
                u.data)
<1> DEFINE v == [u EXCEPT !.state = "PRE2", !.timeout = u.timeout]
<1>1. Receive(u, bus, a) = IF ~ bus.clk THEN v ELSE u
  BY DEF Receive, GoOn, Go, Expired, Release, HoldData, Pull, FirstBit, BitDone
<1>2. Goes(u, v, "PRE2", u.bit, u.byte, u.timeout, u.clk, u.data)
  BY DEF Goes, Keep, Shape, Fields
<1>3. Stays(u, u)
  BY DEF Stays, Goes, Keep
<1> HIDE DEF v
<1> QED BY <1>1, <1>2, <1>3 DEF Stays

LEMMA ReceivePre2 ==
    ASSUME NEW u, Shape(u), NEW bus, NEW a, u.state = "PRE2"
    PROVE  Goes(u, Receive(u, bus, a),
                IF bus.clk THEN "READY" ELSE "PRE2",
                u.bit,
                u.byte,
                IF bus.clk THEN Ready ELSE u.timeout,
                IF bus.clk THEN TRUE ELSE u.clk,
                IF bus.clk THEN TRUE ELSE u.data)
<1> DEFINE v == [[u EXCEPT !.clk = TRUE, !.data = TRUE] EXCEPT !.state = "READY", !.timeout = Ready]
<1>1. Receive(u, bus, a) = IF bus.clk THEN v ELSE u
  BY DEF Receive, GoOn, Go, Expired, Release, HoldData, Pull, FirstBit, BitDone
<1>2. Goes(u, v, "READY", u.bit, u.byte, Ready, TRUE, TRUE)
  BY DEF Goes, Keep, Shape, Fields
<1>3. Stays(u, u)
  BY DEF Stays, Goes, Keep
<1> HIDE DEF v
<1> QED BY <1>1, <1>2, <1>3 DEF Stays

LEMMA ReceiveReadyLow ==
    ASSUME NEW u, Shape(u), NEW bus, NEW a, u.state = "READY", ~ bus.clk
    PROVE  Goes(u, Receive(u, bus, a),
                "BIT", 0, u.byte, u.timeout, u.clk, u.data)
<1> DEFINE v == [[u EXCEPT !.state = "BIT", !.timeout = u.timeout] EXCEPT !.bit = 0]
<1>1. Receive(u, bus, a) = v
  BY DEF Receive, GoOn, Go, Expired, Release, HoldData, Pull, FirstBit, BitDone
<1>2. Goes(u, v, "BIT", 0, u.byte, u.timeout, u.clk, u.data)
  BY DEF Goes, Keep, Shape, Fields
<1> HIDE DEF v
<1> QED BY <1>1, <1>2

LEMMA ReceiveReadyHigh ==
    ASSUME NEW u, Shape(u), NEW bus, NEW a, u.state = "READY", bus.clk
    PROVE  Goes(u, Receive(u, bus, a),
                IF "ATN" \notin u.flags /\ u.timeout = 0 THEN "EOI" ELSE "READY",
                u.bit,
                u.byte,
                IF "ATN" \notin u.flags /\ u.timeout = 0 THEN Ack ELSE u.timeout,
                IF "ATN" \notin u.flags /\ u.timeout = 0 THEN TRUE ELSE u.clk,
                IF "ATN" \notin u.flags /\ u.timeout = 0 THEN FALSE ELSE u.data)
<1> DEFINE v == [[u EXCEPT !.clk = TRUE, !.data = FALSE] EXCEPT !.state = "EOI", !.timeout = Ack]
<1>1. Receive(u, bus, a) = IF "ATN" \notin u.flags /\ u.timeout = 0 THEN v ELSE u
  BY DEF Receive, GoOn, Go, Expired, Release, HoldData, Pull, FirstBit, BitDone
<1>2. Goes(u, v, "EOI", u.bit, u.byte, Ack, TRUE, FALSE)
  BY DEF Goes, Keep, Shape, Fields
<1>3. Stays(u, u)
  BY DEF Stays, Goes, Keep
<1> HIDE DEF v
<1> QED BY <1>1, <1>2, <1>3 DEF Stays

LEMMA ReceiveEoi ==
    ASSUME NEW u, Shape(u), NEW bus, NEW a, u.state = "EOI"
    PROVE  Goes(u, Receive(u, bus, a),
                IF u.timeout = 0 THEN "EOIw" ELSE "EOI",
                u.bit,
                u.byte,
                u.timeout,
                IF u.timeout = 0 THEN TRUE ELSE u.clk,
                IF u.timeout = 0 THEN TRUE ELSE u.data)
<1> DEFINE v == [[u EXCEPT !.clk = TRUE, !.data = TRUE] EXCEPT !.state = "EOIw", !.timeout = u.timeout]
<1>1. Receive(u, bus, a) = IF u.timeout = 0 THEN v ELSE u
  BY DEF Receive, GoOn, Go, Expired, Release, HoldData, Pull, FirstBit, BitDone
<1>2. Goes(u, v, "EOIw", u.bit, u.byte, u.timeout, TRUE, TRUE)
  BY ZenonT(40) DEF Goes, Keep, Shape, Fields
<1>3. Stays(u, u)
  BY DEF Stays, Goes, Keep
<1> HIDE DEF v
<1> QED BY <1>1, <1>2, <1>3 DEF Stays

LEMMA ReceiveEoiw ==
    ASSUME NEW u, Shape(u), NEW bus, NEW a, u.state = "EOIw"
    PROVE  Goes(u, Receive(u, bus, a),
                IF ~ bus.clk THEN "BIT" ELSE "EOIw",
                IF ~ bus.clk THEN 0 ELSE u.bit,
                u.byte,
                u.timeout,
                u.clk,
                u.data)
<1> DEFINE v == [[u EXCEPT !.state = "BIT", !.timeout = u.timeout] EXCEPT !.bit = 0]
<1>1. Receive(u, bus, a) = IF ~ bus.clk THEN v ELSE u
  BY DEF Receive, GoOn, Go, Expired, Release, HoldData, Pull, FirstBit, BitDone
<1>2. Goes(u, v, "BIT", 0, u.byte, u.timeout, u.clk, u.data)
  BY DEF Goes, Keep, Shape, Fields
<1>3. Stays(u, u)
  BY DEF Stays, Goes, Keep
<1> HIDE DEF v
<1> QED BY <1>1, <1>2, <1>3 DEF Stays

LEMMA ReceiveBit ==
    ASSUME NEW u, Shape(u), NEW bus, NEW a, u.state = "BIT"
    PROVE  Goes(u, Receive(u, bus, a),
                IF bus.clk THEN "BITw" ELSE "BIT",
                u.bit,
                IF bus.clk THEN WithBit(u.byte, u.bit, bus.data) ELSE u.byte,
                u.timeout,
                u.clk,
                u.data)
<1> DEFINE v == [[u EXCEPT !.state = "BITw", !.timeout = u.timeout] EXCEPT !.byte = WithBit(@, u.bit, bus.data)]
<1>1. Receive(u, bus, a) = IF bus.clk THEN v ELSE u
  BY DEF Receive, GoOn, Go, Expired, Release, HoldData, Pull, FirstBit, BitDone
<1>2. Goes(u, v, "BITw", u.bit, WithBit(u.byte, u.bit, bus.data), u.timeout, u.clk, u.data)
  BY ZenonT(40) DEF Goes, Keep, Shape, Fields
<1>3. Stays(u, u)
  BY DEF Stays, Goes, Keep
<1> HIDE DEF v
<1> QED BY <1>1, <1>2, <1>3 DEF Stays

LEMMA ReceiveBitHigh ==
    ASSUME NEW u, Shape(u), NEW bus, NEW a, u.state = "BITw", bus.clk
    PROVE  Goes(u, Receive(u, bus, a),
                "BITw", u.bit, u.byte, u.timeout, u.clk, u.data)
<1>1. Receive(u, bus, a) = u
  BY DEF Receive, GoOn, Go, Expired, Release, HoldData, Pull, FirstBit, BitDone
<1> QED BY <1>1 DEF Goes, Keep

LEMMA ReceiveNextBit ==
    ASSUME NEW u, Shape(u), NEW bus, NEW a, u.state = "BITw", ~ bus.clk, u.bit < Bits - 1
    PROVE  Goes(u, Receive(u, bus, a),
                "BIT", u.bit + 1, u.byte, u.timeout, u.clk, u.data)
<1> DEFINE v == [[u EXCEPT !.state = "BIT", !.timeout = u.timeout] EXCEPT !.bit = @ + 1]
<1>1. Receive(u, bus, a) = v
  BY DEF Receive, GoOn, Go, Expired, Release, HoldData, Pull, FirstBit, BitDone
<1>2. Goes(u, v, "BIT", u.bit + 1, u.byte, u.timeout, u.clk, u.data)
  BY DEF Goes, Keep, Shape, Fields
<1> HIDE DEF v
<1> QED BY <1>1, <1>2

LEMMA ReceiveLastBit ==
    ASSUME NEW u, NEW bus, NEW a, u.state = "BITw", ~ bus.clk, ~ u.bit < Bits - 1
    PROVE  Receive(u, bus, a) = IF "ATN" \in u.flags THEN ByteUnderAtn(u)
                                                     ELSE ByteForChannel(u, a)
  BY DEF Receive, BitDone, GoOn, Go, Expired

LEMMA ReceiveDone ==
    ASSUME NEW u, Shape(u), NEW bus, NEW a,
           u.state \in {"DONE0", "DONE1", "FRAMEERR0", "FRAMEERR1"}
    PROVE  Stays(u, Receive(u, bus, a))
<1>1. Receive(u, bus, a) = u
  BY DEF Receive, GoOn, Go, Expired
<1> QED BY <1>1 DEF Stays, Goes, Keep

(* One transition while talking. *)
LEMMA SendPre0 ==
    ASSUME NEW u, Shape(u), NEW bus, u.state = "PRE0"
    PROVE  Goes(u, Send(u, bus),
                IF bus.clk THEN "PRE1" ELSE "PRE0",
                u.bit,
                u.byte,
                IF bus.clk THEN Turn ELSE u.timeout,
                IF bus.clk THEN FALSE ELSE u.clk,
                IF bus.clk THEN TRUE ELSE u.data)
<1> DEFINE v == [[u EXCEPT !.clk = FALSE, !.data = TRUE] EXCEPT !.state = "PRE1", !.timeout = Turn]
<1>1. Send(u, bus) = IF bus.clk THEN v ELSE u
  BY DEF Send, GoOn, Go, Expired, Release, HoldClk, Pull, FirstBit, Acknowledged
<1>2. Goes(u, v, "PRE1", u.bit, u.byte, Turn, FALSE, TRUE)
  BY ZenonT(40) DEF Goes, Keep, Shape, Fields
<1>3. Stays(u, u)
  BY DEF Stays, Goes, Keep
<1> HIDE DEF v
<1> QED BY <1>1, <1>2, <1>3 DEF Stays

LEMMA SendPre1 ==
    ASSUME NEW u, Shape(u), NEW bus, u.state = "PRE1", u.timeout = 0
    PROVE  Goes(u, Send(u, bus),
                "READY", u.bit, u.byte, u.timeout, TRUE, TRUE)
<1> DEFINE v == [[u EXCEPT !.clk = TRUE, !.data = TRUE] EXCEPT !.state = "READY", !.timeout = u.timeout]
<1>1. Send(u, bus) = v
  BY DEF Send, GoOn, Go, Expired, Release, HoldClk, Pull, FirstBit, Acknowledged
<1>2. Goes(u, v, "READY", u.bit, u.byte, u.timeout, TRUE, TRUE)
  BY ZenonT(40) DEF Goes, Keep, Shape, Fields
<1> HIDE DEF v
<1> QED BY <1>1, <1>2

LEMMA SendNext ==
    ASSUME NEW u, Shape(u), NEW bus,
           u.state = "READY" \/ (u.state = "PRE1" /\ u.timeout # 0)
    PROVE  IF bus.data THEN Send(u, bus) = NextByte(u) ELSE Stays(u, Send(u, bus))
<1>1. Send(u, bus) = IF bus.data THEN NextByte(u) ELSE u
  BY DEF Send, GoOn, Go, Expired
<1>2. Stays(u, u)
  BY DEF Stays, Goes, Keep
<1> QED BY <1>1, <1>2

LEMMA SendEoi ==
    ASSUME NEW u, Shape(u), NEW bus, u.state = "EOI"
    PROVE  /\ ~ bus.data => Goes(u, Send(u, bus), "EOIw", u.bit, u.byte, u.timeout, u.clk, u.data)
           /\ bus.data => Stays(u, Send(u, bus))
<1> DEFINE v == [u EXCEPT !.state = "EOIw", !.timeout = u.timeout]
<1>1. /\ ~ bus.data => Send(u, bus) = v
      /\ bus.data => Send(u, bus) = u
  BY DEF Send, GoOn, Go, Expired
<1>2. Goes(u, v, "EOIw", u.bit, u.byte, u.timeout, u.clk, u.data)
  BY DEF Goes, Keep, Shape, Fields
<1>3. Stays(u, u)
  BY DEF Stays, Goes, Keep
<1> HIDE DEF v
<1> QED BY <1>1, <1>2, <1>3

LEMMA SendEoiw ==
    ASSUME NEW u, Shape(u), NEW bus, u.state = "EOIw"
    PROVE  Goes(u, Send(u, bus),
                IF bus.data THEN "BIT" ELSE "EOIw",
                IF bus.data THEN 0 ELSE u.bit,
                u.byte,
                IF bus.data THEN 0 ELSE u.timeout,
                u.clk,
                u.data)
<1> DEFINE v == [[u EXCEPT !.state = "BIT", !.timeout = 0] EXCEPT !.bit = 0]
<1>1. Send(u, bus) = IF bus.data THEN v ELSE u
  BY DEF Send, GoOn, Go, Expired, Release, HoldClk, Pull, FirstBit, Acknowledged
<1>2. Goes(u, v, "BIT", 0, u.byte, 0, u.clk, u.data)
  BY ZenonT(40) DEF Goes, Keep, Shape, Fields
<1>3. Stays(u, u)
  BY DEF Stays, Goes, Keep
<1> HIDE DEF v
<1> QED BY <1>1, <1>2, <1>3 DEF Stays

LEMMA SendBit1 ==
    ASSUME NEW u, Shape(u), NEW bus, u.state = "BIT"
    PROVE  Goes(u, Send(u, bus),
                IF u.timeout = 0 THEN "BITw" ELSE "BIT",
                u.bit,
                u.byte,
                IF u.timeout = 0 THEN Bit ELSE u.timeout,
                IF u.timeout = 0 THEN FALSE ELSE u.clk,
                IF u.timeout = 0 THEN (u.bit \in u.byte) ELSE u.data)
<1> DEFINE v == [[u EXCEPT !.clk = FALSE, !.data = u.bit \in u.byte] EXCEPT !.state = "BITw", !.timeout = Bit]
<1>1. Send(u, bus) = IF u.timeout = 0 THEN v ELSE u
  BY DEF Send, GoOn, Go, Expired, Release, HoldClk, Pull, FirstBit, Acknowledged
<1>2. Goes(u, v, "BITw", u.bit, u.byte, Bit, FALSE, (u.bit \in u.byte))
  BY ZenonT(40) DEF Goes, Keep, Shape, Fields
<1>3. Stays(u, u)
  BY DEF Stays, Goes, Keep
<1> HIDE DEF v
<1> QED BY <1>1, <1>2, <1>3 DEF Stays

LEMMA SendBitDone ==
    ASSUME NEW u, Shape(u), NEW bus, u.state = "BITw", u.timeout = 0, u.bit < Bits - 1
    PROVE  Goes(u, Send(u, bus),
                "BIT", u.bit + 1, u.byte, Bit, TRUE, bus.data)
<1> DEFINE v == [[[u EXCEPT !.clk = TRUE, !.data = bus.data] EXCEPT !.state = "BIT", !.timeout = Bit] EXCEPT !.bit = @ + 1]
<1>1. Send(u, bus) = v
  BY DEF Send, GoOn, Go, Expired, Release, HoldClk, Pull, FirstBit, Acknowledged
<1>2. Goes(u, v, "BIT", u.bit + 1, u.byte, Bit, TRUE, bus.data)
  BY ZenonT(40) DEF Goes, Keep, Shape, Fields
<1> HIDE DEF v
<1> QED BY <1>1, <1>2

LEMMA SendLastBit ==
    ASSUME NEW u, Shape(u), NEW bus, u.state = "BITw", u.timeout = 0, ~ u.bit < Bits - 1
    PROVE  Goes(u, Send(u, bus),
                "DONE0", u.bit, u.byte, Bit, TRUE, bus.data)
<1> DEFINE v == [[u EXCEPT !.clk = TRUE, !.data = bus.data] EXCEPT !.state = "DONE0", !.timeout = Bit]
<1>1. Send(u, bus) = v
  BY DEF Send, GoOn, Go, Expired, Release, HoldClk, Pull, FirstBit, Acknowledged
<1>2. Goes(u, v, "DONE0", u.bit, u.byte, Bit, TRUE, bus.data)
  BY ZenonT(40) DEF Goes, Keep, Shape, Fields
<1> HIDE DEF v
<1> QED BY <1>1, <1>2

LEMMA SendBitWaits ==
    ASSUME NEW u, Shape(u), NEW bus, u.state = "BITw", u.timeout # 0
    PROVE  Goes(u, Send(u, bus),
                "BITw", u.bit, u.byte, u.timeout, u.clk, u.data)
<1>1. Send(u, bus) = u
  BY DEF Send, GoOn, Go, Expired, Release, HoldClk, Pull, FirstBit, Acknowledged
<1> QED BY <1>1 DEF Goes, Keep

LEMMA SendDone0 ==
    ASSUME NEW u, Shape(u), NEW bus, u.state = "DONE0"
    PROVE  Goes(u, Send(u, bus),
                IF u.timeout = 0 THEN "DONE1" ELSE "DONE0",
                u.bit,
                u.byte,
                IF u.timeout = 0 THEN Done ELSE u.timeout,
                IF u.timeout = 0 THEN FALSE ELSE u.clk,
                IF u.timeout = 0 THEN TRUE ELSE u.data)
<1> DEFINE v == [[u EXCEPT !.clk = FALSE, !.data = TRUE] EXCEPT !.state = "DONE1", !.timeout = Done]
<1>1. Send(u, bus) = IF u.timeout = 0 THEN v ELSE u
  BY DEF Send, GoOn, Go, Expired, Release, HoldClk, Pull, FirstBit, Acknowledged
<1>2. Goes(u, v, "DONE1", u.bit, u.byte, Done, FALSE, TRUE)
  BY ZenonT(40) DEF Goes, Keep, Shape, Fields
<1>3. Stays(u, u)
  BY DEF Stays, Goes, Keep
<1> HIDE DEF v
<1> QED BY <1>1, <1>2, <1>3 DEF Stays

LEMMA SendDone1 ==
    ASSUME NEW u, Shape(u), NEW bus, u.state = "DONE1", bus.data
    PROVE  Goes(u, Send(u, bus),
                IF u.timeout = 0 THEN "FRAMEERR0" ELSE "DONE1",
                u.bit,
                u.byte,
                IF u.timeout = 0 THEN Err ELSE u.timeout,
                IF u.timeout = 0 THEN TRUE ELSE u.clk,
                IF u.timeout = 0 THEN TRUE ELSE u.data)
<1> DEFINE v == [[u EXCEPT !.clk = TRUE, !.data = TRUE] EXCEPT !.state = "FRAMEERR0", !.timeout = Err]
<1>1. Send(u, bus) = IF u.timeout = 0 THEN v ELSE u
  BY DEF Send, GoOn, Go, Expired, Release, HoldClk, Pull, FirstBit, Acknowledged
<1>2. Goes(u, v, "FRAMEERR0", u.bit, u.byte, Err, TRUE, TRUE)
  BY ZenonT(40) DEF Goes, Keep, Shape, Fields
<1>3. Stays(u, u)
  BY DEF Stays, Goes, Keep
<1> HIDE DEF v
<1> QED BY <1>1, <1>2, <1>3 DEF Stays

LEMMA SendAcknowledged ==
    ASSUME NEW u, NEW bus, u.state = "DONE1", ~ bus.data
    PROVE  Send(u, bus) = Acknowledged(u)
  BY DEF Send, GoOn, Go, Expired

LEMMA SendError0 ==
    ASSUME NEW u, Shape(u), NEW bus, u.state = "FRAMEERR0"
    PROVE  Goes(u, Send(u, bus),
                IF u.timeout = 0 THEN "FRAMEERR1" ELSE "FRAMEERR0",
                u.bit,
                u.byte,
                u.timeout,
                IF u.timeout = 0 THEN FALSE ELSE u.clk,
                IF u.timeout = 0 THEN TRUE ELSE u.data)
<1> DEFINE v == [[u EXCEPT !.clk = FALSE, !.data = TRUE] EXCEPT !.state = "FRAMEERR1", !.timeout = u.timeout]
<1>1. Send(u, bus) = IF u.timeout = 0 THEN v ELSE u
  BY DEF Send, GoOn, Go, Expired, Release, HoldClk, Pull, FirstBit, Acknowledged
<1>2. Goes(u, v, "FRAMEERR1", u.bit, u.byte, u.timeout, FALSE, TRUE)
  BY DEF Goes, Keep, Shape, Fields
<1>3. Stays(u, u)
  BY DEF Stays, Goes, Keep
<1> HIDE DEF v
<1> QED BY <1>1, <1>2, <1>3 DEF Stays

LEMMA SendError1 ==
    ASSUME NEW u, Shape(u), NEW bus, u.state = "FRAMEERR1"
    PROVE  /\ ~ bus.data => Goes(u, Send(u, bus), "PRE1", u.bit, u.byte, 0, u.clk, u.data)
           /\ bus.data => Stays(u, Send(u, bus))
<1> DEFINE v == [u EXCEPT !.state = "PRE1", !.timeout = 0]
<1>1. /\ ~ bus.data => Send(u, bus) = v
      /\ bus.data => Send(u, bus) = u
  BY DEF Send, GoOn, Go, Expired
<1>2. Goes(u, v, "PRE1", u.bit, u.byte, 0, u.clk, u.data)
  BY DEF Goes, Keep, Shape, Fields
<1>3. Stays(u, u)
  BY DEF Stays, Goes, Keep
<1> HIDE DEF v
<1> QED BY <1>1, <1>2, <1>3

LEMMA SendPre2 ==
    ASSUME NEW u, Shape(u), NEW bus, u.state = "PRE2"
    PROVE  Stays(u, Send(u, bus))
<1>1. Send(u, bus) = u
  BY DEF Send, GoOn, Go, Expired
<1> QED BY <1>1 DEF Stays, Goes, Keep

(* The steps that do more than that. *)

\* What the channel keeps.
Channel(u, v) ==
    /\ Shape(v) /\ v.enabled = u.enabled
    /\ v.isopen = u.isopen /\ v.name = u.name /\ v.mode = u.mode /\ v.file = u.file
    /\ v.pos = u.pos /\ v.taken = u.taken /\ v.got = u.got /\ v.lossy = u.lossy
    /\ v.st = u.st

LEMMA ByteUnderAtnIs ==
    ASSUME NEW u, Shape(u)
    PROVE  LET v == ByteUnderAtn(u)
           IN  /\ Channel(u, v) /\ v.flags = u.flags
               /\ v.secondary_prev = u.secondary_prev
               /\ v.primary = IF u.primary = NONE THEN u.byte ELSE u.primary
               /\ v.secondary = IF u.primary # NONE /\ u.secondary = NONE
                                THEN u.byte ELSE u.secondary
               /\ v.bit = u.bit /\ v.byte = u.byte /\ v.timeout = u.timeout
               /\ IF v.primary \in {LISTEN, TALK, UNLISTEN, UNTALK}
                  THEN v.state = "PRE2" /\ v.clk = TRUE /\ v.data = FALSE
                  ELSE v.state = "DONE0" /\ v.clk = u.clk /\ v.data = u.data
<1> DEFINE p == [u EXCEPT !.primary = u.byte]
           s == [u EXCEPT !.secondary = u.byte]
           w == IF u.primary = NONE THEN p ELSE IF u.secondary = NONE THEN s ELSE u
           h == [[w EXCEPT !.clk = TRUE, !.data = FALSE]
                    EXCEPT !.state = "PRE2", !.timeout = w.timeout]
           g == [w EXCEPT !.state = "DONE0", !.timeout = w.timeout]
<1>1. ByteUnderAtn(u) = IF w.primary \in {LISTEN, TALK, UNLISTEN, UNTALK} THEN h ELSE g
  BY DEF ByteUnderAtn, GoOn, Go, HoldData, Pull
<1>2. /\ Channel(u, w) /\ w.flags = u.flags /\ w.secondary_prev = u.secondary_prev
      /\ w.primary = (IF u.primary = NONE THEN u.byte ELSE u.primary)
      /\ w.secondary = (IF u.primary # NONE /\ u.secondary = NONE
                        THEN u.byte ELSE u.secondary)
      /\ w.bit = u.bit /\ w.byte = u.byte /\ w.timeout = u.timeout
      /\ w.clk = u.clk /\ w.data = u.data
  BY DEF Channel, Shape, Fields
<1> HIDE DEF w
<1>3. Goes(w, h, "PRE2", w.bit, w.byte, w.timeout, TRUE, FALSE)
  BY <1>2, ZenonT(40) DEF Channel, Goes, Keep, Shape, Fields
<1>4. Goes(w, g, "DONE0", w.bit, w.byte, w.timeout, w.clk, w.data)
  BY <1>2, ZenonT(40) DEF Channel, Goes, Keep, Shape, Fields
<1> HIDE DEF h, g
<1> QED BY <1>1, <1>2, <1>3, <1>4 DEF Channel, Goes, Keep

LEMMA ByteForChannelIs ==
    ASSUME NEW u, Typed(u), NEW a
    PROVE  LET v == ByteForChannel(u, a)
           IN  /\ Typed(v) /\ v.enabled = u.enabled /\ v.flags = u.flags
               /\ v.primary = u.primary /\ v.secondary = u.secondary
               /\ v.mode = u.mode /\ v.file = u.file /\ v.pos = u.pos
               /\ v.isopen = u.isopen
               /\ v.got = u.got /\ v.lossy = u.lossy /\ v.taken = Append(u.taken, u.byte)
               /\ v.bit = u.bit /\ v.byte = u.byte /\ v.timeout = u.timeout
               /\ \/ v.state = "PRE2" /\ v.clk = TRUE /\ v.data = FALSE
                  \/ v.state = "DONE0" /\ v.clk = u.clk /\ v.data = u.data
<1> DEFINE name == IF Len(u.name) < NameLength THEN Append(u.name, u.byte) ELSE u.name
           st == IF u.mode = "write" /\ a.mode # "none" THEN OK ELSE FAIL
           taken == Append(u.taken, u.byte)
           n == [u EXCEPT !.name = name, !.taken = taken]
           b == [u EXCEPT !.st = st, !.taken = taken]
           w == IF u.isopen = 1 THEN n ELSE b
           h == [[w EXCEPT !.clk = TRUE, !.data = FALSE]
                    EXCEPT !.state = "PRE2", !.timeout = w.timeout]
           g == [w EXCEPT !.state = "DONE0", !.timeout = w.timeout]
<1>1. ByteForChannel(u, a) = IF w.st = OK THEN h ELSE g
  BY DEF ByteForChannel, fsdrive_write, GoOn, Go, HoldData, Pull
<1>2. name \in Seq(Byte) /\ st \in {OK, EOF, FAIL} /\ taken \in Seq(Byte)
  BY DEF Typed
<1> HIDE DEF name, st, taken
<1>3. Typed(w)
  BY <1>2, ZenonT(40) DEF Typed, Shape, Fields
<1>4. /\ w.enabled = u.enabled /\ w.flags = u.flags /\ w.isopen = u.isopen
      /\ w.primary = u.primary /\ w.secondary = u.secondary
      /\ w.mode = u.mode /\ w.file = u.file /\ w.pos = u.pos
      /\ w.got = u.got /\ w.lossy = u.lossy /\ w.taken = taken
      /\ w.bit = u.bit /\ w.byte = u.byte /\ w.timeout = u.timeout
      /\ w.clk = u.clk /\ w.data = u.data
  BY DEF Typed, Shape, Fields
<1> HIDE DEF w
<1>5. Goes(w, h, "PRE2", w.bit, w.byte, w.timeout, TRUE, FALSE)
  BY <1>3, ZenonT(40) DEF Typed, Goes, Keep, Shape, Fields
<1>6. Goes(w, g, "DONE0", w.bit, w.byte, w.timeout, w.clk, w.data)
  BY <1>3, ZenonT(40) DEF Typed, Goes, Keep, Shape, Fields
<1> HIDE DEF h, g
<1>7. Typed(h) /\ Typed(g)
  BY <1>3, <1>5, <1>6 DEF Typed, Goes, Keep, States
<1> QED BY <1>1, <1>4, <1>5, <1>6, <1>7 DEF taken, Goes, Keep

LEMMA NextByteIs ==
    ASSUME NEW u, Shape(u)
    PROVE  LET v == NextByte(u)
           IN  /\ Shape(v) /\ v.enabled = u.enabled
               /\ v.primary = u.primary /\ v.secondary = u.secondary
               /\ v.secondary_prev = u.secondary_prev
               /\ v.isopen = u.isopen /\ v.name = u.name /\ v.mode = u.mode
               /\ v.file = u.file /\ v.taken = u.taken
               /\ v.got = u.got /\ v.lossy = u.lossy /\ v.clk = u.clk /\ v.data = u.data
               /\ IF u.mode = "read" /\ u.pos < Len(u.file)
                  THEN /\ v.byte = u.file[u.pos + 1] /\ v.pos = u.pos + 1
                       /\ v.flags = u.flags
                       /\ IF u.pos + 1 = Len(u.file)
                          THEN /\ v.st = EOF /\ v.state = "EOI" /\ v.bit = u.bit
                               /\ v.timeout = u.timeout
                          ELSE /\ v.st = OK /\ v.state = "BIT" /\ v.bit = 0
                               /\ v.timeout = 0
                  ELSE /\ v.pos = u.pos /\ v.byte = u.byte /\ v.st = FAIL
                       /\ v.flags = u.flags \ {"TALKING"} /\ v.state = u.state
                       /\ v.bit = u.bit /\ v.timeout = u.timeout
<1> DEFINE r == u.mode = "read" /\ u.pos < Len(u.file)
           w == [u EXCEPT !.byte = u.file[u.pos + 1], !.pos = u.pos + 1,
                          !.st = IF u.pos + 1 = Len(u.file) THEN EOF ELSE OK]
           f == [u EXCEPT !.st = FAIL]
           x == [[w EXCEPT !.state = "BIT", !.timeout = 0] EXCEPT !.bit = 0]
           e == [w EXCEPT !.state = "EOI", !.timeout = w.timeout]
           g == [f EXCEPT !.flags = f.flags \ {"TALKING"}]
<1>1. /\ Shape(w) /\ Shape(f) /\ f.st = FAIL
      /\ w.st = (IF u.pos + 1 = Len(u.file) THEN EOF ELSE OK)
  BY ZenonT(40) DEF Shape, Fields
<1>2. fsdrive_read(u) = IF r THEN w ELSE f
  BY DEF fsdrive_read
<1>3. NextByte(u) = IF r THEN IF u.pos + 1 = Len(u.file) THEN e ELSE x ELSE g
  <2> HIDE DEF w, f, r
  <2>1. NextByte(u) = LET z == fsdrive_read(u)
                      IN CASE z.st = OK -> [[z EXCEPT !.state = "BIT", !.timeout = 0]
                                               EXCEPT !.bit = 0]
                           [] z.st = EOF -> [z EXCEPT !.state = "EOI", !.timeout = z.timeout]
                           [] OTHER -> [z EXCEPT !.flags = z.flags \ {"TALKING"}]
    BY DEF NextByte, FirstBit, GoOn, Go
  <2>2. CASE r
    BY <1>1, <1>2, <2>1, <2>2 DEF OK, EOF
  <2>3. CASE ~ r
    BY <1>1, <1>2, <2>1, <2>3 DEF OK, EOF, FAIL
  <2> QED BY <2>2, <2>3
<1> DEFINE Same(v) ==
               /\ Shape(v) /\ v.enabled = u.enabled
               /\ v.primary = u.primary /\ v.secondary = u.secondary
               /\ v.secondary_prev = u.secondary_prev
               /\ v.isopen = u.isopen /\ v.name = u.name /\ v.mode = u.mode
               /\ v.file = u.file /\ v.taken = u.taken
               /\ v.got = u.got /\ v.lossy = u.lossy /\ v.clk = u.clk /\ v.data = u.data
<1>4. /\ Same(x) /\ x.byte = u.file[u.pos + 1] /\ x.pos = u.pos + 1 /\ x.flags = u.flags
      /\ x.state = "BIT" /\ x.bit = 0 /\ x.timeout = 0 /\ x.st = w.st
  BY ZenonT(40) DEF Shape, Fields
<1>5. /\ Same(e) /\ e.byte = u.file[u.pos + 1] /\ e.pos = u.pos + 1 /\ e.flags = u.flags
      /\ e.state = "EOI" /\ e.bit = u.bit /\ e.timeout = u.timeout /\ e.st = w.st
  BY ZenonT(40) DEF Shape, Fields
<1>6. /\ Same(g) /\ g.byte = u.byte /\ g.pos = u.pos /\ g.flags = u.flags \ {"TALKING"}
      /\ g.state = u.state /\ g.bit = u.bit /\ g.timeout = u.timeout /\ g.st = FAIL
  BY DEF Shape, Fields
<1> HIDE DEF w, f, x, e, g
<1> QED BY <1>1, <1>3, <1>4, <1>5, <1>6

LEMMA AcknowledgedIs ==
    ASSUME NEW u, Shape(u)
    PROVE  LET v == Acknowledged(u)
           IN  /\ Shape(v) /\ v.enabled = u.enabled
               /\ v.primary = u.primary /\ v.secondary = u.secondary
               /\ v.secondary_prev = u.secondary_prev
               /\ v.isopen = u.isopen /\ v.name = u.name /\ v.mode = u.mode
               /\ v.file = u.file /\ v.pos = u.pos /\ v.taken = u.taken
               /\ v.got = u.got /\ v.lossy = u.lossy /\ v.bit = u.bit /\ v.byte = u.byte
               /\ IF u.st = EOF
                  THEN /\ v.flags = u.flags \ {"TALKING"} /\ v.st = OK
                       /\ v.clk = TRUE /\ v.data = TRUE
                       /\ v.state = u.state /\ v.timeout = u.timeout
                  ELSE /\ v.flags = u.flags /\ v.st = u.st
                       /\ v.clk = u.clk /\ v.data = u.data
                       /\ v.state = "PRE1" /\ v.timeout = 0
<1> DEFINE w == [u EXCEPT !.flags = u.flags \ {"TALKING"}, !.st = OK]
           x == [w EXCEPT !.clk = TRUE, !.data = TRUE]
           g == [u EXCEPT !.state = "PRE1", !.timeout = 0]
<1>1. Acknowledged(u) = IF u.st = EOF THEN x ELSE g
  BY DEF Acknowledged, Release, Pull, Go
<1> DEFINE Same(v) ==
               /\ Shape(v) /\ v.enabled = u.enabled
               /\ v.primary = u.primary /\ v.secondary = u.secondary
               /\ v.secondary_prev = u.secondary_prev
               /\ v.isopen = u.isopen /\ v.name = u.name /\ v.mode = u.mode
               /\ v.file = u.file /\ v.pos = u.pos /\ v.taken = u.taken
               /\ v.got = u.got /\ v.lossy = u.lossy /\ v.bit = u.bit /\ v.byte = u.byte
<1>2. /\ Same(x) /\ x.flags = u.flags \ {"TALKING"} /\ x.st = OK
      /\ x.clk = TRUE /\ x.data = TRUE /\ x.state = u.state /\ x.timeout = u.timeout
  BY ZenonT(40) DEF Shape, Fields
<1>3. /\ Same(g) /\ g.flags = u.flags /\ g.st = u.st /\ g.clk = u.clk /\ g.data = u.data
      /\ g.state = "PRE1" /\ g.timeout = 0
  BY ZenonT(40) DEF Shape, Fields
<1> HIDE DEF w, x, g
<1> QED BY <1>1, <1>2, <1>3

LEMMA AtnFallsIs ==
    ASSUME NEW u, Shape(u)
    PROVE  LET v == AtnFalls(u)
           IN  /\ Channel(u, v) /\ v.flags = u.flags \union {"ATN"}
               /\ v.primary = NONE /\ v.secondary = NONE
               /\ v.secondary_prev = u.secondary
               /\ v.bit = u.bit /\ v.byte = u.byte
               /\ v.state = "PRE0" /\ v.timeout = Pre0 /\ v.clk = TRUE /\ v.data = FALSE
<1> DEFINE w == [u EXCEPT !.state = "PRE0", !.flags = u.flags \union {"ATN"},
                          !.primary = NONE, !.secondary_prev = u.secondary,
                          !.secondary = NONE, !.timeout = Pre0]
           x == [w EXCEPT !.clk = TRUE, !.data = FALSE]
<1>1. AtnFalls(u) = x
  BY DEF AtnFalls, HoldData, Pull
<1>2. /\ Channel(u, x) /\ x.flags = u.flags \union {"ATN"}
      /\ x.primary = NONE /\ x.secondary = NONE
      /\ x.secondary_prev = u.secondary
      /\ x.bit = u.bit /\ x.byte = u.byte
      /\ x.state = "PRE0" /\ x.timeout = Pre0 /\ x.clk = TRUE /\ x.data = FALSE
  BY ZenonT(40) DEF Channel, Shape, Fields
<1> HIDE DEF x
<1> QED BY <1>1, <1>2

\* What a secondary address does to the channel, and the end of a name.
Opens(u, v) ==
    /\ Typed(v) /\ (Reads1(u) => Reads1(v)) /\ (Level(u) => Level(v))
    /\ v.enabled = u.enabled /\ v.flags = u.flags
    /\ v.primary = u.primary /\ v.secondary = u.secondary
    /\ v.taken = u.taken /\ v.state = u.state /\ v.bit = u.bit /\ v.byte = u.byte
    /\ v.timeout = u.timeout /\ v.clk = u.clk /\ v.data = u.data

LEMMA AddressedIs ==
    ASSUME NEW u, Typed(u)
    PROVE  Opens(u, Addressed(u))
<1> DEFINE o == [u EXCEPT !.isopen = 1, !.st = OK]
           c == [u EXCEPT !.isopen = 0, !.mode = "none", !.st = OK]
           l == [u EXCEPT !.isopen = 2, !.name = << >>]
<1>1. << >> \in Seq(Byte)
  OBVIOUS
<1>2. Addressed(u) \in {o, c, l, u}
  BY DEF Addressed, fsdrive_open, fsdrive_close, fsdrive_listentalk
<1> DEFINE Same(v) ==
    /\ Shape(v) /\ v.enabled = u.enabled /\ v.flags = u.flags
    /\ v.primary = u.primary /\ v.secondary = u.secondary
    /\ v.secondary_prev = u.secondary_prev
    /\ v.taken = u.taken /\ v.state = u.state /\ v.bit = u.bit /\ v.byte = u.byte
    /\ v.timeout = u.timeout /\ v.clk = u.clk /\ v.data = u.data
    /\ v.file = u.file /\ v.pos = u.pos /\ v.got = u.got /\ v.lossy = u.lossy
<1>3. Shape(u)
  BY DEF Typed
<1>4. Same(o) /\ o.isopen = 1 /\ o.mode = u.mode /\ o.name = u.name /\ o.st = OK
  BY <1>3 DEF Shape, Fields
<1>5. Same(c) /\ c.isopen = 0 /\ c.mode = "none" /\ c.name = u.name /\ c.st = OK
  BY <1>3 DEF Shape, Fields
<1>6. Same(l) /\ l.isopen = 2 /\ l.mode = u.mode /\ l.name = << >> /\ l.st = u.st
  BY <1>3 DEF Shape, Fields
<1> HIDE DEF o, c, l
<1>0. Typed(o) /\ Typed(c) /\ Typed(l)
  BY <1>1, <1>4, <1>5, <1>6 DEF Typed
<1>7. Opens(u, o)
  BY <1>0, <1>4 DEF Opens, Reads1, Level, GotRight
<1>8. Opens(u, c)
  BY <1>0, <1>5 DEF Opens, Reads1, Level, GotRight
<1>9. Opens(u, l)
  BY <1>0, <1>6 DEF Opens, Reads1, Level, GotRight
<1>10. Opens(u, u)
  BY DEF Opens
<1> QED BY <1>2, <1>7, <1>8, <1>9, <1>10

LEMMA UnlistenIs ==
    ASSUME NEW u, Typed(u), NEW a \in Answers
    PROVE  Opens(u, fsdrive_unlisten(u, a))
<1> DEFINE open == IF a.mode = "none" THEN 0 ELSE 2
           st == IF a.mode = "none" THEN FAIL ELSE OK
           st2 == IF u.secondary_prev = OPEN THEN OK ELSE u.st
           o == [u EXCEPT !.isopen = open, !.name = << >>,
                          !.mode = a.mode, !.file = a.file, !.pos = 0,
                          !.got = << >>, !.lossy = FALSE, !.st = st]
           n == [u EXCEPT !.st = st2]
<1>1. fsdrive_unlisten(u, a) \in {o, n}
  BY DEF fsdrive_unlisten
<1>0. Len(<< >>) = 0 /\ 1 .. 0 = {}
  OBVIOUS
<1>2. /\ << >> \in Seq(Byte) /\ << >> \in Seq(Entries)
      /\ open \in 0 .. 2 /\ st \in {OK, EOF, FAIL} /\ st2 \in {OK, EOF, FAIL}
      /\ a.mode \in {"read", "write", "none"} /\ a.file \in Files \union {<< >>}
      /\ a.mode = "read" => a.file \in Files
  BY DEF Answers, Typed
<1>3. a.mode = "read" => open = 2 /\ Len(a.file) \in Nat
  BY <1>2, BytesAssumption
<1> HIDE DEF open, st, st2
<1> DEFINE Same(v) ==
    /\ Shape(v) /\ v.enabled = u.enabled /\ v.flags = u.flags
    /\ v.primary = u.primary /\ v.secondary = u.secondary
    /\ v.secondary_prev = u.secondary_prev
    /\ v.taken = u.taken /\ v.state = u.state /\ v.bit = u.bit /\ v.byte = u.byte
    /\ v.timeout = u.timeout /\ v.clk = u.clk /\ v.data = u.data
<1>4. Shape(u)
  BY DEF Typed
<1>6. /\ Same(o) /\ o.isopen = open /\ o.mode = a.mode /\ o.file = a.file /\ o.pos = 0
      /\ o.got = << >> /\ o.lossy = FALSE /\ o.st = st /\ o.name = << >>
  BY <1>4, ZenonT(40) DEF Shape, Fields
<1>7. /\ Same(n) /\ n.isopen = u.isopen /\ n.mode = u.mode /\ n.file = u.file /\ n.pos = u.pos
      /\ n.got = u.got /\ n.lossy = u.lossy /\ n.st = st2 /\ n.name = u.name
  BY <1>4 DEF Shape, Fields
<1> HIDE DEF o, n
<1>5. Typed(o) /\ Typed(n)
  <2>1. 0 \in Nat /\ FALSE \in BOOLEAN
    OBVIOUS
  <2>2. Typed(o)
    BY <1>2, <1>6, <2>1 DEF Typed
  <2>3. Typed(n)
    BY <1>2, <1>7 DEF Typed
  <2> QED BY <2>2, <2>3
<1>8. Opens(u, o)
  <2>1. Reads1(o)
    BY <1>2, <1>3, <1>6 DEF Reads1
  <2>2. Level(o)
    BY <1>0, <1>6 DEF Level, GotRight
  <2> QED BY <1>5, <1>6, <2>1, <2>2 DEF Opens
<1>9. Opens(u, n)
  BY <1>5, <1>7 DEF Opens, Reads1, Level, GotRight
<1> QED BY <1>1, <1>8, <1>9

\* As Opens, but for the flags, the state and the lines.
Rose(u, v) ==
    /\ Typed(v) /\ (Reads1(u) => Reads1(v)) /\ (Level(u) => Level(v))
    /\ v.enabled = u.enabled /\ v.primary = u.primary /\ v.secondary = u.secondary
    /\ v.taken = u.taken /\ v.bit = u.bit /\ v.byte = u.byte /\ v.timeout = u.timeout

LEMMA FlagsSet ==
    ASSUME NEW u, Typed(u), NEW f, f \subseteq {"ATN", "LISTENING", "TALKING"}
    PROVE  LET v == [u EXCEPT !.flags = f]
           IN  Rose(u, v) /\ v.flags = f /\ v.state = u.state /\ v.clk = u.clk
               /\ v.data = u.data
<1> DEFINE v == [u EXCEPT !.flags = f]
<1>1. Shape(u)
  BY DEF Typed
<1>2. /\ Channel(u, v) /\ v.flags = f /\ v.state = u.state /\ v.clk = u.clk
      /\ v.data = u.data /\ v.primary = u.primary /\ v.secondary = u.secondary
      /\ v.secondary_prev = u.secondary_prev
      /\ v.bit = u.bit /\ v.byte = u.byte /\ v.timeout = u.timeout
  BY <1>1 DEF Channel, Shape, Fields
<1> HIDE DEF v
<1>3. Typed(v)
  BY <1>2 DEF Typed, Channel
<1> QED BY <1>2, <1>3 DEF Rose, Channel, Reads1, Level, GotRight, v

LEMMA LinesSet ==
    ASSUME NEW u, Typed(u), NEW c \in BOOLEAN, NEW d \in BOOLEAN
    PROVE  LET v == Pull(u, c, d)
           IN  Rose(u, v) /\ v.flags = u.flags /\ v.state = u.state /\ v.clk = c
               /\ v.data = d
<1> DEFINE v == Pull(u, c, d)
<1>1. Shape(u)
  BY DEF Typed
<1>2. /\ Channel(u, v) /\ v.flags = u.flags /\ v.state = u.state /\ v.clk = c
      /\ v.data = d /\ v.primary = u.primary /\ v.secondary = u.secondary
      /\ v.secondary_prev = u.secondary_prev
      /\ v.bit = u.bit /\ v.byte = u.byte /\ v.timeout = u.timeout
  BY <1>1 DEF Channel, Shape, Fields, Pull
<1> HIDE DEF v
<1>3. Typed(v)
  BY <1>2 DEF Typed, Channel
<1> QED BY <1>2, <1>3 DEF Rose, Channel, Reads1, Level, GotRight, v

LEMMA StateSet ==
    ASSUME NEW u, Typed(u), NEW s \in States
    PROVE  LET v == [u EXCEPT !.state = s]
           IN  Rose(u, v) /\ v.flags = u.flags /\ v.state = s /\ v.clk = u.clk
               /\ v.data = u.data
<1> DEFINE v == [u EXCEPT !.state = s]
<1>1. Shape(u)
  BY DEF Typed
<1>2. /\ Channel(u, v) /\ v.flags = u.flags /\ v.state = s /\ v.clk = u.clk
      /\ v.data = u.data /\ v.primary = u.primary /\ v.secondary = u.secondary
      /\ v.secondary_prev = u.secondary_prev
      /\ v.bit = u.bit /\ v.byte = u.byte /\ v.timeout = u.timeout
  BY <1>1 DEF Channel, Shape, Fields
<1> HIDE DEF v
<1>3. Typed(v)
  BY <1>2 DEF Typed, Channel
<1> QED BY <1>2, <1>3 DEF Rose, Channel, Reads1, Level, GotRight, v

LEMMA RoseTwice ==
    ASSUME NEW u, NEW v, NEW w, Rose(u, v), Rose(v, w)
    PROVE  Rose(u, w)
  BY DEF Rose

LEMMA ListensIs ==
    ASSUME NEW u, Typed(u)
    PROVE  LET v == Listens(u)
           IN  /\ Rose(u, v) /\ v.clk = TRUE /\ v.data = FALSE
               /\ \/ v.flags = (u.flags \ {"TALKING"}) \union {"LISTENING"} /\ v.state = "PRE1"
                  \/ v.flags = u.flags \ {"TALKING"} /\ v.state = u.state
<1> DEFINE f == (u.flags \ {"TALKING"}) \union {"LISTENING"}
           g == u.flags \ {"TALKING"}
           x == [[u EXCEPT !.flags = f] EXCEPT !.state = "PRE1"]
           x1 == [u EXCEPT !.flags = f, !.state = "PRE1"]
           y == [u EXCEPT !.flags = g]
<1>1. f \subseteq {"ATN", "LISTENING", "TALKING"} /\ g \subseteq {"ATN", "LISTENING", "TALKING"}
  BY DEF Typed
<1>2. Listens(u) = Pull(IF u.st = OK THEN x1 ELSE y, TRUE, FALSE)
  BY DEF Listens, HoldData
<1>3. x1 = x
  OBVIOUS
<1>4. Rose(u, x) /\ x.flags = f /\ x.state = "PRE1"
  <2> DEFINE z == [u EXCEPT !.flags = f]
  <2>1. Rose(u, z) /\ z.flags = f
    BY <1>1, FlagsSet
  <2> HIDE DEF z, f
  <2>2. Typed(z) /\ "PRE1" \in States
    BY <2>1 DEF Rose, States
  <2> DEFINE v == [z EXCEPT !.state = "PRE1"]
  <2>3. Rose(z, v) /\ v.flags = z.flags /\ v.state = "PRE1"
    BY <2>2, StateSet
  <2>4. x = v
    BY DEF z
  <2> HIDE DEF v, x
  <2> QED BY <2>1, <2>3, <2>4, RoseTwice
<1>5. Rose(u, y) /\ y.flags = g /\ y.state = u.state
  BY <1>1, FlagsSet
<1> HIDE DEF x, x1, y
<1>6. \A w \in {x, y} : LET v == Pull(w, TRUE, FALSE)
                        IN Rose(w, v) /\ v.flags = w.flags /\ v.state = w.state
                           /\ v.clk = TRUE /\ v.data = FALSE
  BY <1>4, <1>5, LinesSet, ZenonT(40) DEF Rose
<1> QED BY <1>2, <1>3, <1>4, <1>5, <1>6, RoseTwice

LEMMA TalksIs ==
    ASSUME NEW u, Typed(u)
    PROVE  LET v == Talks(u)
           IN  /\ Rose(u, v) /\ v.clk = u.clk /\ v.data = u.data
               /\ v.flags = (u.flags \ {"LISTENING"}) \union {"TALKING"} /\ v.state = "PRE0"
<1> DEFINE f == (u.flags \ {"LISTENING"}) \union {"TALKING"}
           z == [u EXCEPT !.flags = f]
           x == [z EXCEPT !.state = "PRE0"]
<1>1. f \subseteq {"ATN", "LISTENING", "TALKING"}
  BY DEF Typed
<1>2. Talks(u) = x
  BY DEF Talks
<1>3. Rose(u, z) /\ z.flags = f /\ z.clk = u.clk /\ z.data = u.data
  BY <1>1, FlagsSet
<1> HIDE DEF z
<1>4. Rose(z, x) /\ x.flags = z.flags /\ x.state = "PRE0" /\ x.clk = z.clk /\ x.data = z.data
  BY <1>3, StateSet, ZenonT(40) DEF Rose, States
<1> HIDE DEF x
<1> QED BY <1>2, <1>3, <1>4, RoseTwice

LEMMA BytesDiffer ==
    /\ NONE # LISTEN /\ NONE # TALK /\ NONE # ABSENT /\ NONE # UNLISTEN /\ NONE # UNTALK
    /\ NONE # DATA /\ NONE # CLOSE /\ NONE # OPEN
    /\ LISTEN # TALK /\ LISTEN # ABSENT /\ LISTEN # UNLISTEN /\ LISTEN # UNTALK
    /\ TALK # ABSENT /\ TALK # UNLISTEN /\ TALK # UNTALK
    /\ ABSENT # UNLISTEN /\ ABSENT # UNTALK /\ UNLISTEN # UNTALK
<1>1. /\ 0 \in LISTEN /\ 1 \notin LISTEN /\ 2 \notin LISTEN
      /\ 0 \notin TALK /\ 1 \in TALK /\ 2 \notin TALK
      /\ 0 \in ABSENT /\ 1 \in ABSENT /\ 2 \notin ABSENT
      /\ 0 \notin UNLISTEN /\ 1 \notin UNLISTEN /\ 2 \in UNLISTEN
      /\ 0 \in UNTALK /\ 1 \notin UNTALK /\ 2 \in UNTALK
      /\ 1 \in DATA /\ 0 \in CLOSE /\ 3 \in OPEN
      /\ 0 \notin NONE /\ 1 \notin NONE /\ 2 \notin NONE /\ 3 \notin NONE
  BY DEF NONE, LISTEN, TALK, ABSENT, UNLISTEN, UNTALK, DATA, CLOSE, OPEN
<1> QED BY <1>1

LEMMA BytesAre ==
    {NONE, LISTEN, TALK, ABSENT, UNLISTEN, UNTALK, DATA, CLOSE, OPEN} \subseteq Byte
<1>1. {0, 1, 2, 3} \subseteq 0 .. Bits - 1
  BY BitsAssumption
<1> QED BY <1>1 DEF Byte, NONE, LISTEN, TALK, ABSENT, UNLISTEN, UNTALK, DATA, CLOSE, OPEN

LEMMA AtnRisesIs ==
    ASSUME NEW u, Typed(u), NEW a \in Answers
    PROVE  LET v == AtnRises(u, a)
               f == u.flags \ {"ATN"}
               l == f \ {"TALKING"}
           IN  /\ Rose(u, v)
               /\ u.primary = LISTEN =>
                    \/ /\ v.flags = l \union {"LISTENING"} /\ v.state = "PRE1"
                       /\ v.clk = TRUE /\ v.data = FALSE
                    \/ /\ v.flags = l /\ v.state = u.state
                       /\ v.clk = TRUE /\ v.data = (l = {})
               /\ u.primary = TALK =>
                    /\ v.flags = (f \ {"LISTENING"}) \union {"TALKING"}
                    /\ v.state = "PRE0" /\ v.clk = u.clk /\ v.data = u.data
               /\ u.primary \notin {LISTEN, TALK} =>
                    /\ v.flags = IF u.primary = UNLISTEN THEN f \ {"LISTENING"}
                                 ELSE IF u.primary = UNTALK THEN l ELSE f
                    /\ v.state = u.state
                    /\ IF v.flags = {} THEN v.clk = TRUE /\ v.data = TRUE
                                       ELSE v.clk = u.clk /\ v.data = u.data
<1> DEFINE f == u.flags \ {"ATN"}
           l == f \ {"TALKING"}
           n == f \ {"LISTENING"}
           w == [u EXCEPT !.flags = f]
           wl == [w EXCEPT !.flags = l]
           wn == [w EXCEPT !.flags = n]
           x == IF w.primary \in {LISTEN, TALK}
                THEN IF w.primary = LISTEN THEN Listens(Addressed(w)) ELSE Talks(Addressed(w))
                ELSE IF w.primary = UNLISTEN /\ "LISTENING" \in w.flags
                THEN fsdrive_unlisten(wn, a)
                ELSE IF w.primary = UNTALK THEN wl ELSE w
<1>1. Rose(u, w) /\ w.flags = f /\ w.state = u.state /\ w.clk = u.clk /\ w.data = u.data
  BY FlagsSet, ZenonT(40) DEF Typed
<1>2. AtnRises(u, a) = IF x.flags = {} THEN Pull(x, TRUE, TRUE) ELSE x
  <2> DEFINE y(z) ==
        IF z.primary \in {LISTEN, TALK}
        THEN IF z.primary = LISTEN THEN Listens(Addressed(z)) ELSE Talks(Addressed(z))
        ELSE IF z.primary = UNLISTEN /\ "LISTENING" \in z.flags
        THEN fsdrive_unlisten([z EXCEPT !.flags = z.flags \ {"LISTENING"}], a)
        ELSE IF z.primary = UNTALK THEN [z EXCEPT !.flags = z.flags \ {"TALKING"}] ELSE z
  <2>1. x = y(w)
    BY <1>1
  <2> HIDE DEF x
  <2>2. w.primary = u.primary
    BY <1>1 DEF Rose
  <2>3. AtnRises(u, a) = IF y(w).flags = {} THEN Pull(y(w), TRUE, TRUE) ELSE y(w)
    <3>1. w = [u EXCEPT !.flags = u.flags \ {"ATN"}]
      OBVIOUS
    <3> HIDE DEF w
    <3> QED BY <2>2, <3>1 DEF AtnRises, Release
  <2> HIDE DEF y
  <2> QED BY <2>1, <2>3
<1>3. /\ Rose(w, wl) /\ wl.flags = l /\ wl.state = w.state /\ wl.clk = w.clk /\ wl.data = w.data
      /\ Rose(w, wn) /\ wn.flags = n /\ wn.state = w.state /\ wn.clk = w.clk /\ wn.data = w.data
  <2> HIDE DEF w
  <2>1. Typed(w) /\ l \subseteq {"ATN", "LISTENING", "TALKING"}
        /\ n \subseteq {"ATN", "LISTENING", "TALKING"}
    BY <1>1 DEF Rose, Typed
  <2> HIDE DEF l, n
  <2> QED BY <2>1, FlagsSet
<1>4. w.primary = u.primary
  BY <1>1 DEF Rose
<1>5. Opens(w, Addressed(w)) /\ Opens(wn, fsdrive_unlisten(wn, a))
  BY <1>1, <1>3, AddressedIs, UnlistenIs DEF Rose
<1>6. Rose(w, Addressed(w)) /\ Rose(wn, fsdrive_unlisten(wn, a))
  BY <1>5 DEF Opens, Rose
<1> HIDE DEF w, wl, wn
<1>7. CASE u.primary = LISTEN
  <2>1. x = Listens(Addressed(w))
    BY <1>4, <1>7
  <2>2. /\ Rose(w, x) /\ x.clk = TRUE /\ x.data = FALSE
        /\ \/ x.flags = l \union {"LISTENING"} /\ x.state = "PRE1"
           \/ x.flags = l /\ x.state = u.state
    <3> DEFINE q == Addressed(w)
    <3>1. Rose(w, q) /\ q.flags = f /\ q.state = u.state /\ Typed(q)
      BY <1>1, <1>5, <1>6 DEF Rose, Opens
    <3> HIDE DEF q
    <3>2. /\ Rose(q, Listens(q)) /\ Listens(q).clk = TRUE /\ Listens(q).data = FALSE
          /\ \/ /\ Listens(q).flags = (q.flags \ {"TALKING"}) \union {"LISTENING"}
                /\ Listens(q).state = "PRE1"
             \/ Listens(q).flags = q.flags \ {"TALKING"} /\ Listens(q).state = q.state
      BY <3>1, ListensIs
    <3>3. x = Listens(q)
      BY <2>1 DEF q
    <3>4. Rose(w, x)
      BY <3>1, <3>2, <3>3, RoseTwice
    <3> HIDE DEF x
    <3> QED BY <3>1, <3>2, <3>3, <3>4
  <2> QED
    <3> HIDE DEF x
    <3> DEFINE p == Pull(x, TRUE, TRUE)
    <3>1. Rose(x, p) /\ p.flags = x.flags /\ p.state = x.state /\ p.clk = TRUE /\ p.data = TRUE
      BY <2>2, LinesSet DEF Rose
    <3>2. AtnRises(u, a) = IF x.flags = {} THEN p ELSE x
      BY <1>2
    <3> HIDE DEF p
    <3>3. Rose(u, x) /\ Rose(u, p)
      BY <1>1, <2>2, <3>1, RoseTwice
    <3>4. CASE x.flags = {}
      <4>1. x.flags = l
        BY <2>2, <3>4
      <4>2. l = {} /\ AtnRises(u, a) = p
        BY <3>2, <3>4, <4>1
      <4> HIDE DEF f, l
      <4> QED BY <1>7, <2>2, <3>1, <3>3, <3>4, <4>1, <4>2, BytesDiffer DEF f, l
    <3>5. CASE x.flags # {}
      <4>1. AtnRises(u, a) = x /\ (x.flags = l => l # {})
        BY <3>2, <3>5
      <4> HIDE DEF f, l
      <4> QED BY <1>7, <2>2, <3>3, <4>1, BytesDiffer DEF f, l
    <3> QED BY <3>4, <3>5
<1>8. CASE u.primary = TALK
  <2>1. x = Talks(Addressed(w))
    BY <1>4, <1>8, BytesDiffer
  <2>2. /\ Rose(w, x) /\ x.clk = u.clk /\ x.data = u.data
        /\ x.flags = n \union {"TALKING"} /\ x.state = "PRE0"
    BY <1>1, <1>5, <1>6, <2>1, TalksIs, RoseTwice DEF Rose, Opens
  <2> HIDE DEF x
  <2>3. x.flags # {}
    BY <2>2
  <2> QED BY <1>1, <1>2, <1>8, <2>2, <2>3, RoseTwice, BytesDiffer
<1>9. CASE u.primary \notin {LISTEN, TALK}
  <2>1. /\ Rose(w, x) /\ x.clk = u.clk /\ x.data = u.data /\ x.state = u.state
        /\ x.flags = IF u.primary = UNLISTEN THEN n ELSE IF u.primary = UNTALK THEN l ELSE f
    <3>1. CASE u.primary = UNLISTEN /\ "LISTENING" \in f
      <4>1. x = fsdrive_unlisten(wn, a)
        BY <1>1, <1>4, <1>9, <3>1
      <4> HIDE DEF x
      <4> QED BY <1>1, <1>3, <1>5, <1>6, <3>1, <4>1, RoseTwice DEF Opens
    <3>2. CASE u.primary = UNTALK
      <4>1. x = wl
        BY <1>1, <1>4, <1>9, <3>2, BytesDiffer
      <4> HIDE DEF x
      <4> QED BY <1>1, <1>3, <3>2, <4>1, BytesDiffer
    <3>3. CASE ~ (u.primary = UNLISTEN /\ "LISTENING" \in f) /\ u.primary # UNTALK
      <4>1. x = w
        BY <1>1, <1>4, <1>9, <3>3
      <4>2. Rose(w, w)
        BY <1>1 DEF Rose
      <4> HIDE DEF x
      <4>3. u.primary = UNLISTEN => n = f
        BY <3>3
      <4> QED BY <1>1, <3>3, <4>1, <4>2, <4>3
    <3> QED BY <3>1, <3>2, <3>3
  <2> HIDE DEF x
  <2> DEFINE p == Pull(x, TRUE, TRUE)
  <2>2. Rose(x, p) /\ p.flags = x.flags /\ p.state = x.state /\ p.clk = TRUE /\ p.data = TRUE
    BY <2>1, LinesSet DEF Rose
  <2> HIDE DEF p
  <2> QED BY <1>1, <1>2, <1>9, <2>1, <2>2, RoseTwice DEF p
<1> QED BY <1>7, <1>8, <1>9

(* What the Kernal's next access is decides its step. *)

StoreOf(lines, t) == [do |-> "store", lines |-> lines, t |-> t]
Rests == UNCHANGED <<calls, eoi, input, sent, meddled>>
Stored(t, same) ==
    \E d \in {t, Nmi}, a \in Answers :
        device' = IF same THEN Exec(device, d, a) ELSE Exec(Exec(device, d, a), 0, a)
Looked == \E a \in Answers : device' = Exec(device, 1, a)

LEMMA IsCons ==
    ASSUME NEW c, NEW x, NEW s, Is(c, x, s)
    PROVE  c = <<x>> \o s /\ IsSeries(s)
<1>1. PICK S : c \in Seq(S)
  BY DEF Is, IsSeries
<1>2. /\ c # << >> /\ Head(c) = x /\ Tail(c) = s /\ s \in Seq(S) /\ Len(c) = Len(s) + 1
      /\ Len(s) \in Nat /\ c[1] = x /\ \A i \in 1 .. Len(s) : c[i + 1] = s[i]
  BY <1>1 DEF Is
<1> DEFINE d == <<x>> \o s
<1>3. /\ IsSeries(d) /\ IsSeries(s) /\ Len(d) = Len(s) + 1 /\ d[1] = x
      /\ \A i \in 1 .. Len(s) : d[i + 1] = s[i]
  BY <1>2, ConsIs DEF IsSeries
<1> HIDE DEF d
<1>4. ASSUME NEW k \in 1 .. Len(c) PROVE c[k] = d[k]
  <2>1. CASE k = 1
    BY <1>2, <1>3, <2>1
  <2>2. CASE k # 1
    <3>1. k - 1 \in 1 .. Len(s) /\ k = (k - 1) + 1
      BY <1>2, <2>2
    <3>2. c[(k - 1) + 1] = s[k - 1] /\ d[(k - 1) + 1] = s[k - 1]
      BY <1>2, <1>3, <3>1
    <3> QED BY <3>1, <3>2
  <2> QED BY <2>1, <2>2
<1>5. c = d
  BY <1>1, <1>2, <1>3, <1>4, SeqsEqual DEF IsSeries
<1> QED BY <1>3, <1>5 DEF d

LEMMA StoreIs ==
    /\ \A l : Store(l) = StoreOf(l, 0) /\ Pause(l) = StoreOf(l, AckWait)
    /\ DataHi = StoreOf([data |-> TRUE], 0) /\ DataLo = StoreOf([data |-> FALSE], 0)
    /\ ClkHi = StoreOf([clk |-> TRUE], 0) /\ ClkLo = StoreOf([clk |-> FALSE], 0)
    /\ AtnHi = StoreOf([atn |-> TRUE], 0) /\ AtnLo = StoreOf([atn |-> FALSE], 0)
  BY DEF Store, Pause, StoreOf, DataHi, DataLo, ClkHi, ClkLo, AtnHi, AtnLo

LEMMA StoreMoves ==
    ASSUME NEW l, NEW t, NEW s, Is(code, StoreOf(l, t), s), Kernal
    PROVE  /\ cpu' = [k \in DOMAIN cpu |-> IF k \in DOMAIN l THEN l[k] ELSE cpu[k]]
           /\ Stored(t, cpu' = cpu) /\ code' = s /\ Rests
<1>1. Head(code).do = "store" /\ Head(code).lines = l /\ Head(code).t = t /\ Tail(code) = s
      /\ code # << >>
  BY DEF Is, StoreOf
<1>2. Stores
  BY <1>1 DEF Kernal, Call, Needs, Untils, Acks, Edges, Samples, Reads, At
<1>3. cpu' = [k \in DOMAIN cpu |-> IF k \in DOMAIN l THEN l[k] ELSE cpu[k]]
  BY <1>1, <1>2 DEF Stores
<1>4. code' = s /\ Rests
  BY <1>1, <1>2 DEF Stores, Rests
<1>5. Stored(t, cpu' = cpu)
  <2>1. PICK nmi \in BOOLEAN, a \in Answers :
            device' = IF cpu' = cpu
                      THEN Exec(device, IF nmi THEN Nmi ELSE Head(code).t, a)
                      ELSE Exec(Exec(device, IF nmi THEN Nmi ELSE Head(code).t, a), 0, a)
    BY <1>2 DEF Stores
  <2> DEFINE d == IF nmi THEN Nmi ELSE Head(code).t
  <2>2. d \in {t, Nmi}
    BY <1>1
  <2>3. device' = IF cpu' = cpu THEN Exec(device, d, a) ELSE Exec(Exec(device, d, a), 0, a)
    BY <2>1
  <2> HIDE DEF d
  <2> QED BY <2>2, <2>3 DEF Stored
<1> QED BY <1>3, <1>4, <1>5

LEMMA LinesAre ==
    \A a, c, d : /\ Lines(a, c, d).atn = a /\ Lines(a, c, d).clk = c /\ Lines(a, c, d).data = d
                 /\ DOMAIN Lines(a, c, d) = {"atn", "clk", "data"}
  BY DEF Lines
LEMMA LinesDiffer ==
    \A a, c, d, a2, c2, d2 :
        Lines(a, c, d) = Lines(a2, c2, d2) <=> a = a2 /\ c = c2 /\ d = d2
  BY LinesAre

LEMMA DataMoves ==
    ASSUME NEW x, NEW t, NEW s, NEW a, NEW c, NEW d, cpu = Lines(a, c, d),
           Is(code, StoreOf([data |-> x], t), s), Kernal
    PROVE  cpu' = Lines(a, c, x) /\ Stored(t, d = x) /\ code' = s /\ Rests
<1>1. cpu' = Lines(a, c, x)
  <2>1. cpu' = [k \in DOMAIN cpu |-> IF k \in DOMAIN [data |-> x] THEN [data |-> x][k] ELSE cpu[k]]
    BY StoreMoves
  <2> QED BY <2>1 DEF Lines
<1>2. (cpu' = cpu) = (d = x)
  BY <1>1, LinesDiffer
<1> QED BY <1>1, <1>2, StoreMoves
LEMMA ClkMoves ==
    ASSUME NEW x, NEW t, NEW s, NEW a, NEW c, NEW d, cpu = Lines(a, c, d),
           Is(code, StoreOf([clk |-> x], t), s), Kernal
    PROVE  cpu' = Lines(a, x, d) /\ Stored(t, c = x) /\ code' = s /\ Rests
<1>1. cpu' = Lines(a, x, d)
  <2>1. cpu' = [k \in DOMAIN cpu |-> IF k \in DOMAIN [clk |-> x] THEN [clk |-> x][k] ELSE cpu[k]]
    BY StoreMoves
  <2> QED BY <2>1 DEF Lines
<1>2. (cpu' = cpu) = (c = x)
  BY <1>1, LinesDiffer
<1> QED BY <1>1, <1>2, StoreMoves
LEMMA AtnMoves ==
    ASSUME NEW x, NEW t, NEW s, NEW a, NEW c, NEW d, cpu = Lines(a, c, d),
           Is(code, StoreOf([atn |-> x], t), s), Kernal
    PROVE  cpu' = Lines(x, c, d) /\ Stored(t, a = x) /\ code' = s /\ Rests
<1>1. cpu' = Lines(x, c, d)
  <2>1. cpu' = [k \in DOMAIN cpu |-> IF k \in DOMAIN [atn |-> x] THEN [atn |-> x][k] ELSE cpu[k]]
    BY StoreMoves
  <2> QED BY <2>1 DEF Lines
<1>2. (cpu' = cpu) = (a = x)
  BY <1>1, LinesDiffer
<1> QED BY <1>1, <1>2, StoreMoves
LEMMA ClkDataMoves ==
    ASSUME NEW x, NEW y, NEW t, NEW s, NEW a, NEW c, NEW d, cpu = Lines(a, c, d),
           Is(code, StoreOf([clk |-> x, data |-> y], t), s), Kernal
    PROVE  cpu' = Lines(a, x, y) /\ Stored(t, c = x /\ d = y) /\ code' = s /\ Rests
<1> DEFINE l == [clk |-> x, data |-> y]
<1>1. cpu' = Lines(a, x, y)
  <2>1. cpu' = [k \in DOMAIN cpu |-> IF k \in DOMAIN l THEN l[k] ELSE cpu[k]]
    BY StoreMoves
  <2> QED BY <2>1 DEF Lines
<1>2. (cpu' = cpu) = (c = x /\ d = y)
  BY <1>1, LinesDiffer
<1> QED BY <1>1, <1>2, StoreMoves
LEMMA AllMove ==
    ASSUME NEW x, NEW y, NEW z, NEW t, NEW s, NEW a, NEW c, NEW d, cpu = Lines(a, c, d),
           Is(code, StoreOf(Lines(x, y, z), t), s), Kernal
    PROVE  /\ cpu' = Lines(x, y, z) /\ Stored(t, a = x /\ c = y /\ d = z)
           /\ code' = s /\ Rests
<1>1. cpu' = Lines(x, y, z)
  <2>1. cpu' = [k \in DOMAIN cpu |->
                  IF k \in DOMAIN Lines(x, y, z) THEN Lines(x, y, z)[k] ELSE cpu[k]]
    BY StoreMoves
  <2> QED BY <2>1 DEF Lines
<1>2. (cpu' = cpu) = (a = x /\ c = y /\ d = z)
  BY <1>1, LinesDiffer
<1> QED BY <1>1, <1>2, StoreMoves

LEMMA NeedMoves ==
    ASSUME NEW v, NEW s, Is(code, Need(v), s), Kernal
    PROVE  /\ Looked /\ UNCHANGED <<cpu, meddled, eoi, input, sent>>
           /\ IF Bus'.data = v THEN code' = s /\ calls' = calls
                               ELSE code' = Finish /\ calls' = IF v THEN calls ELSE << >>
<1>1. Head(code).do = "need" /\ Head(code).v = v /\ Tail(code) = s /\ code # << >>
  BY DEF Is, Need
<1>2. Needs
  BY <1>1 DEF Kernal, Call, Stores, Untils, Acks, Edges, Samples, Reads, At
<1>3. Looked /\ UNCHANGED <<cpu, meddled>>
  BY <1>2 DEF Needs, Looks, Looked
<1>4. IF Bus'.data = v THEN code' = s /\ UNCHANGED <<calls, eoi, input, sent>>
                       ELSE Fails(~ v)
  BY <1>1, <1>2 DEF Needs
<1> QED BY <1>3, <1>4 DEF Fails, Finish

\* A wait looks, and ends or goes on.
LooksFor(l, v, o, s) ==
    /\ Looked /\ UNCHANGED <<cpu, meddled, calls, eoi, input, sent>>
    /\ IF Bus'[l] = v THEN code' = s
       ELSE \E p \in {o, ~ o} : code' = StillWaits(l, v, p, s)

LEMMA UntilMoves ==
    ASSUME NEW l, NEW v, NEW o, NEW s, Is(code, Waits(l, v, o), s), Kernal
    PROVE  LooksFor(l, v, o, s)
<1>1. /\ Head(code).do = "until" /\ Head(code).line = l /\ Head(code).v = v /\ Tail(code) = s
      /\ code # << >> /\ Head(code) = Waits(l, v, o)
  BY DEF Is, Waits
<1>2. Untils
  BY <1>1 DEF Kernal, Call, Stores, Needs, Acks, Edges, Samples, Reads, At
<1>3. Looked /\ UNCHANGED <<cpu, meddled>>
  BY <1>2 DEF Untils, Looks, Looked
<1>4. [Waits(l, v, o) EXCEPT !.odd = ~ @] = Waits(l, v, ~ o)
  BY DEF Waits
<1>5. code = StillWaits(l, v, o, s)
  BY IsCons DEF StillWaits
<1>6. Again = IF device' = device THEN StillWaits(l, v, ~ o, s) ELSE code
  BY <1>1, <1>4 DEF Again, StillWaits
<1>7. code' = (IF Bus'[l] = v THEN s ELSE Again) /\ UNCHANGED <<calls, eoi, input, sent>>
  BY <1>1, <1>2 DEF Untils
<1> HIDE DEF Again
<1>8. Again = StillWaits(l, v, ~ o, s) \/ Again = StillWaits(l, v, o, s)
  BY <1>5, <1>6
<1> QED BY <1>3, <1>7, <1>8 DEF LooksFor

LEMMA AckMoves ==
    ASSUME NEW m, NEW t, NEW s, Is(code, Answer(m, t), s), Kernal
    PROVE  /\ Looked /\ UNCHANGED <<cpu, meddled, eoi, input>>
           /\ \/ /\ ~ Bus'.data /\ code' = s /\ calls' = calls
                 /\ sent' = IF m.kind = "data" THEN Append(sent, m.byte) ELSE sent
              \/ /\ Bus'.data /\ t > 1 /\ code' = <<Answer(m, t - 1)>> \o s
                 /\ UNCHANGED <<calls, sent>>
              \/ Bus'.data /\ t = 1 /\ code' = Finish /\ UNCHANGED <<calls, sent>>
<1>1. /\ Head(code).do = "ack" /\ Head(code).t = t /\ Head(code).byte = m.byte
      /\ Head(code).data = (m.kind = "data") /\ Tail(code) = s
      /\ code # << >> /\ Head(code) = Answer(m, t)
  BY DEF Is, Answer
<1>2. Acks
  BY <1>1 DEF Kernal, Call, Stores, Needs, Untils, Edges, Samples, Reads, At
<1>3. Looked /\ UNCHANGED <<cpu, meddled>>
  BY <1>2 DEF Acks, Looks, Looked
<1>4. [Answer(m, t) EXCEPT !.t = @ - 1] = Answer(m, t - 1)
  BY DEF Answer
<1>5. LessTime = <<Answer(m, t - 1)>> \o s
  BY <1>1, <1>4 DEF LessTime
<1> HIDE DEF LessTime
<1>6. \/ /\ ~ Bus'.data /\ code' = s
         /\ sent' = IF m.kind = "data" THEN Append(sent, m.byte) ELSE sent
         /\ UNCHANGED <<calls, eoi, input>>
      \/ /\ Bus'.data /\ t > 1 /\ code' = LessTime
         /\ UNCHANGED <<calls, eoi, input, sent>>
      \/ Bus'.data /\ t = 1 /\ Fails(FALSE)
  BY <1>1, <1>2 DEF Acks
<1> QED BY <1>3, <1>5, <1>6 DEF Fails, Finish

LEMMA EdgeMoves ==
    ASSUME NEW again \in BOOLEAN, NEW t, NEW s, Is(code, Edge(again, t), s), Kernal
    PROVE  /\ Looked /\ UNCHANGED <<cpu, meddled, input, sent, calls>>
           /\ \/ ~ Bus'.clk /\ code' = s /\ eoi' = eoi
              \/ Bus'.clk /\ t > 1 /\ code' = <<Edge(again, t - 1)>> \o s /\ eoi' = eoi
              \/ /\ Bus'.clk /\ t = 1 /\ ~ again /\ eoi' = TRUE
                 /\ code' = <<DataLo, ClkHi, DataHi, FirstEdge(TRUE)>> \o s
              \/ Bus'.clk /\ t = 1 /\ again /\ code' = Finish /\ eoi' = eoi
<1>1. /\ Head(code).do = "edge" /\ Head(code).t = t /\ Head(code).again = again
      /\ Tail(code) = s /\ code # << >> /\ Head(code) = Edge(again, t)
  BY DEF Is, Edge
<1>2. Edges
  BY <1>1 DEF Kernal, Call, Stores, Needs, Untils, Acks, Samples, Reads, At
<1>3. Looked /\ UNCHANGED <<cpu, meddled>>
  BY <1>2 DEF Edges, Looks, Looked
<1>4. [Edge(again, t) EXCEPT !.t = @ - 1] = Edge(again, t - 1)
  BY DEF Edge
<1>5. LessTime = <<Edge(again, t - 1)>> \o s
  BY <1>1, <1>4 DEF LessTime
<1> HIDE DEF LessTime
<1> DEFINE e == <<DataLo, ClkHi, DataHi, FirstEdge(TRUE)>> \o s
<1>7. e = <<DataLo, ClkHi, DataHi, FirstEdge(TRUE)>> \o Tail(code)
  BY <1>1
<1> HIDE DEF e
<1>6. \/ /\ ~ Bus'.clk /\ code' = s /\ UNCHANGED <<calls, eoi, input, sent>>
      \/ /\ Bus'.clk /\ t > 1 /\ code' = LessTime
         /\ UNCHANGED <<calls, eoi, input, sent>>
      \/ /\ Bus'.clk /\ t = 1 /\ ~ again /\ code' = e /\ eoi' = TRUE
         /\ UNCHANGED <<calls, input, sent>>
      \/ Bus'.clk /\ t = 1 /\ again /\ Fails(FALSE)
  BY <1>1, <1>2, <1>7 DEF Edges
<1> QED BY <1>3, <1>5, <1>6 DEF Fails, Finish, e

LEMMA SampleMoves ==
    ASSUME NEW i, NEW o, NEW s, Is(code, Tries(i, o), s), Kernal
    PROVE  /\ Looked /\ UNCHANGED <<cpu, meddled, calls, eoi, sent>>
           /\ IF Bus'.clk THEN code' = s /\ input' = WithBit(input, i, Bus'.data)
              ELSE /\ \E p \in {o, ~ o} : code' = <<Tries(i, p)>> \o s
                   /\ input' = input
<1>1. /\ Head(code).do = "sample" /\ Head(code).bit = i /\ Tail(code) = s
      /\ code # << >> /\ Head(code) = Tries(i, o)
  BY DEF Is, Tries
<1>2. Samples
  BY <1>1 DEF Kernal, Call, Stores, Needs, Untils, Acks, Edges, Reads, At
<1>3. Looked /\ UNCHANGED <<cpu, meddled>>
  BY <1>2 DEF Samples, Looks, Looked
<1>4. [Tries(i, o) EXCEPT !.odd = ~ @] = Tries(i, ~ o)
  BY DEF Tries
<1>5. code = <<Tries(i, o)>> \o s
  BY IsCons
<1>6. Again = IF device' = device THEN <<Tries(i, ~ o)>> \o s ELSE code
  BY <1>1, <1>4 DEF Again
<1>7. /\ IF Bus'.clk THEN code' = s /\ input' = WithBit(input, i, Bus'.data)
                     ELSE code' = Again /\ input' = input
      /\ UNCHANGED <<calls, eoi, sent>>
  BY <1>1, <1>2 DEF Samples
<1> HIDE DEF Again
<1>8. Again = <<Tries(i, ~ o)>> \o s \/ Again = <<Tries(i, o)>> \o s
  BY <1>5, <1>6
<1> QED BY <1>3, <1>7, <1>8

LEMMA ReadMoves ==
    ASSUME NEW s, Is(code, ByteRead, s), Kernal
    PROVE  /\ device' = [device EXCEPT !.got = Append(@, [byte |-> input, last |-> eoi])]
           /\ UNCHANGED <<cpu, meddled, eoi, input, sent>>
           /\ IF eoi THEN code' = LetGo /\ calls' = calls
              ELSE code' = << >> /\ calls' \in {calls, <<Acptr>> \o calls}
<1>1. Head(code).do = "read" /\ code # << >>
  BY DEF Is, ByteRead
<1>2. Reads
  BY <1>1 DEF Kernal, Call, Stores, Needs, Untils, Acks, Edges, Samples, At
<1> QED BY <1>2 DEF Reads, Acptr

LEMMA CallMoves ==
    ASSUME code = << >>, Kernal
    PROVE  /\ calls # << >> /\ code' = Routine(Head(calls)) /\ calls' = Tail(calls)
           /\ input' = {} /\ UNCHANGED <<cpu, meddled, eoi, sent>>
           /\ \E d \in {0, AckWait} : device' = After(device, d)
<1>1. Call
  BY DEF Kernal, Stores, Needs, Untils, Acks, Edges, Samples, Reads, At
<1> QED BY <1>1 DEF Call

(* Whatever the lines and the time, the device stays one. *)

\* What no access touches.
Fine(u, v) ==
    /\ Typed(v) /\ (Reads1(u) => Reads1(v))
    /\ v.enabled = u.enabled

LEMMA TimesAre ==
    /\ {Pre0, Ready, Ack, Turn, Bit, Done, Err, EoiWait, AckWait, Nmi} \subseteq Nat
    /\ Pre0 # 0 /\ Ready # 0 /\ Ack # 0 /\ Turn # 0 /\ Bit # 0 /\ Done # 0 /\ Err # 0
    /\ EoiWait # 0 /\ AckWait # 0 /\ Nmi # 0
    /\ Pre0 <= AckWait /\ Ack <= AckWait /\ AckWait <= Nmi /\ 3 <= EoiWait /\ Err <= EoiWait
  BY TimesAssumption, WaitsAssumption

LEMMA GoesFine ==
    ASSUME NEW u, Typed(u), NEW v, NEW s \in States, NEW b \in 0 .. Bits - 1,
           NEW y \in Byte, NEW t \in Nat, NEW c \in BOOLEAN, NEW d \in BOOLEAN,
           Goes(u, v, s, b, y, t, c, d)
    PROVE  Fine(u, v)
<1>1. Typed(v)
  BY DEF Typed, Goes, Keep
<1>2. Reads1(u) => Reads1(v)
  BY DEF Goes, Keep, Reads1
<1> QED BY <1>1, <1>2 DEF Fine, Goes, Keep

LEMMA FineTwice ==
    ASSUME NEW u, NEW v, NEW w, Fine(u, v), Fine(v, w)
    PROVE  Fine(u, w)
  BY DEF Fine

LEMMA AfterFine ==
    ASSUME NEW u, Typed(u), NEW d \in Nat
    PROVE  Fine(u, After(u, d))
<1>1. Goes(u, After(u, d), u.state, u.bit, u.byte, Left(u, d), u.clk, u.data)
  BY AfterIs DEF Typed
<1>2. Left(u, d) \in Nat
  BY DEF Typed, Left
<1>3. /\ u.state \in States /\ u.bit \in 0 .. Bits - 1 /\ u.byte \in Byte
      /\ u.clk \in BOOLEAN /\ u.data \in BOOLEAN
  BY DEF Typed
<1> QED BY <1>1, <1>2, <1>3, GoesFine

LEMMA WithBitIs ==
    ASSUME NEW b \in Byte, NEW i \in 0 .. Bits - 1, NEW v
    PROVE  WithBit(b, i, v) \in Byte
  BY DEF WithBit, Byte

LEMMA ReceiveFine ==
    ASSUME NEW u, Typed(u), NEW bus, bus.clk \in BOOLEAN, bus.data \in BOOLEAN, NEW a
    PROVE  Fine(u, Receive(u, bus, a))
<1> DEFINE v == Receive(u, bus, a)
<1>0. Shape(u) /\ u.state \in States /\ u.bit \in 0 .. Bits - 1 /\ u.byte \in Byte
      /\ u.timeout \in Nat /\ u.clk \in BOOLEAN /\ u.data \in BOOLEAN
      /\ WithBit(u.byte, u.bit, bus.data) \in Byte /\ Fine(u, u)
  BY WithBitIs DEF Typed, Fine
<1>1. ASSUME NEW s, NEW b, NEW y, NEW t, NEW c, NEW d, Goes(u, v, s, b, y, t, c, d),
             s \in States, b \in 0 .. Bits - 1, y \in Byte, t \in Nat,
             c \in BOOLEAN, d \in BOOLEAN
      PROVE  Fine(u, v)
  BY <1>1, GoesFine
<1> HIDE DEF v
<1>2. CASE u.state = "PRE0"
  BY <1>0, <1>1, <1>2, ReceivePre0 DEF v, States
<1>3. CASE u.state = "PRE1"
  BY <1>0, <1>1, <1>3, ReceivePre1 DEF v, States
<1>4. CASE u.state = "PRE2"
  BY <1>0, <1>1, <1>4, ReceivePre2, TimesAre DEF v, States
<1>5. CASE u.state = "READY" /\ ~ bus.clk
  BY <1>0, <1>1, <1>5, ReceiveReadyLow, BitsAssumption DEF v, States
<1>6. CASE u.state = "READY" /\ bus.clk
  BY <1>0, <1>1, <1>6, ReceiveReadyHigh, TimesAre, ZenonT(40) DEF v, States
<1>7. CASE u.state = "EOI"
  BY <1>0, <1>1, <1>7, ReceiveEoi DEF v, States
<1>8. CASE u.state = "EOIw"
  BY <1>0, <1>1, <1>8, ReceiveEoiw, BitsAssumption DEF v, States
<1>9. CASE u.state = "BIT"
  BY <1>0, <1>1, <1>9, ReceiveBit DEF v, States
<1>10. CASE u.state = "BITw" /\ bus.clk
  BY <1>0, <1>1, <1>10, ReceiveBitHigh DEF v, States
<1>11. CASE u.state = "BITw" /\ ~ bus.clk /\ u.bit < Bits - 1
  <2>1. u.bit + 1 \in 0 .. Bits - 1
    BY <1>0, <1>11, BitsAssumption
  <2> QED BY <1>0, <1>1, <1>11, <2>1, ReceiveNextBit DEF v, States
<1>12. CASE u.state = "BITw" /\ ~ bus.clk /\ ~ u.bit < Bits - 1
  <2>1. v = IF "ATN" \in u.flags THEN ByteUnderAtn(u) ELSE ByteForChannel(u, a)
    BY <1>12, ReceiveLastBit DEF v
  <2>2. Fine(u, ByteForChannel(u, a))
    <3> DEFINE w == ByteForChannel(u, a)
    <3>1. Typed(w) /\ w.enabled = u.enabled /\ w.mode = u.mode /\ w.file = u.file
          /\ w.pos = u.pos /\ w.isopen = u.isopen
      BY ByteForChannelIs, ZenonT(40)
    <3> HIDE DEF w
    <3> QED BY <3>1 DEF Fine, Reads1, w
  <2>3. Fine(u, ByteUnderAtn(u))
    <3> DEFINE w == ByteUnderAtn(u)
    <3>1. /\ Channel(u, w) /\ w.flags = u.flags
          /\ w.secondary_prev = u.secondary_prev
          /\ w.primary = (IF u.primary = NONE THEN u.byte ELSE u.primary)
          /\ w.secondary = (IF u.primary # NONE /\ u.secondary = NONE
                            THEN u.byte ELSE u.secondary)
          /\ w.bit = u.bit /\ w.byte = u.byte /\ w.timeout = u.timeout
          /\ w.state \in {"PRE2", "DONE0"} /\ w.clk \in {TRUE, u.clk}
          /\ w.data \in {FALSE, u.data}
      BY <1>0, ByteUnderAtnIs
    <3> HIDE DEF w
    <3>2. Typed(w)
      BY <1>0, <3>1 DEF Typed, Channel, States
    <3> QED BY <3>1, <3>2 DEF Fine, Reads1, Channel, w
  <2> QED BY <2>1, <2>2, <2>3 DEF v
<1>13. CASE u.state \in {"DONE0", "DONE1", "FRAMEERR0", "FRAMEERR1"}
  BY <1>0, <1>1, <1>13, ReceiveDone DEF v, Stays
<1> QED BY <1>0, <1>2, <1>3, <1>4, <1>5, <1>6, <1>7, <1>8, <1>9, <1>10, <1>11, <1>12, <1>13
        DEF States, v

LEMMA NextByteFine ==
    ASSUME NEW u, Typed(u), Reads1(u)
    PROVE  Fine(u, NextByte(u))
<1> DEFINE v == NextByte(u)
           r == u.mode = "read" /\ u.pos < Len(u.file)
<1>0. Shape(u) /\ u.state \in States /\ u.bit \in 0 .. Bits - 1 /\ u.byte \in Byte
      /\ u.timeout \in Nat /\ 0 \in 0 .. Bits - 1 /\ u.flags \subseteq {"ATN", "LISTENING", "TALKING"}
  BY BitsAssumption DEF Typed
<1>1. /\ Shape(v) /\ v.enabled = u.enabled
      /\ v.primary = u.primary /\ v.secondary = u.secondary
      /\ v.secondary_prev = u.secondary_prev
      /\ v.isopen = u.isopen /\ v.name = u.name /\ v.mode = u.mode
      /\ v.file = u.file /\ v.taken = u.taken
      /\ v.got = u.got /\ v.lossy = u.lossy /\ v.clk = u.clk /\ v.data = u.data
      /\ v.flags \in {u.flags, u.flags \ {"TALKING"}} /\ v.st \in {OK, EOF, FAIL}
      /\ v.state \in {u.state, "EOI", "BIT"} /\ v.bit \in {0, u.bit}
      /\ v.timeout \in {0, u.timeout}
      /\ IF r THEN v.byte = u.file[u.pos + 1] /\ v.pos = u.pos + 1
              ELSE v.byte = u.byte /\ v.pos = u.pos
  BY <1>0, NextByteIs
<1> HIDE DEF v
<1>2. v.byte \in Byte /\ v.pos \in Nat /\ (u.mode = "read" => v.pos <= Len(v.file))
  <2>1. CASE r
    <3>1. u.file \in Seq(Byte) /\ u.pos \in Nat /\ Len(u.file) \in Nat
      BY <2>1, BytesAssumption DEF Reads1, Typed
    <3>2. u.pos + 1 \in 1 .. Len(u.file) /\ u.pos + 1 \in Nat
      BY <2>1, <3>1
    <3> QED BY <1>1, <2>1, <3>1, <3>2
  <2>2. CASE ~ r
    BY <1>0, <1>1, <2>2 DEF Typed, Reads1
  <2> QED BY <2>1, <2>2
<1>3. v.flags \subseteq {"ATN", "LISTENING", "TALKING"} /\ v.state \in States
      /\ v.bit \in 0 .. Bits - 1 /\ v.timeout \in Nat
  BY <1>0, <1>1 DEF States
<1>4. Typed(v)
  BY <1>1, <1>2, <1>3 DEF Typed
<1> QED BY <1>1, <1>2, <1>4 DEF Fine, Reads1, v

LEMMA AcknowledgedFine ==
    ASSUME NEW u, Typed(u)
    PROVE  Fine(u, Acknowledged(u))
<1> DEFINE v == Acknowledged(u)
<1>1. /\ Shape(v) /\ v.enabled = u.enabled
      /\ v.primary = u.primary /\ v.secondary = u.secondary
      /\ v.secondary_prev = u.secondary_prev
      /\ v.isopen = u.isopen /\ v.name = u.name /\ v.mode = u.mode
      /\ v.file = u.file /\ v.pos = u.pos /\ v.taken = u.taken
      /\ v.got = u.got /\ v.lossy = u.lossy /\ v.bit = u.bit /\ v.byte = u.byte
      /\ v.flags \in {u.flags, u.flags \ {"TALKING"}} /\ v.st \in {OK, u.st}
      /\ (v.clk = TRUE \/ v.clk = u.clk) /\ (v.data = TRUE \/ v.data = u.data)
      /\ v.state \in {u.state, "PRE1"} /\ v.timeout \in {0, u.timeout}
  BY AcknowledgedIs DEF Typed
<1> HIDE DEF v
<1>3. /\ v.flags \subseteq {"ATN", "LISTENING", "TALKING"} /\ v.state \in States
      /\ v.st \in {OK, EOF, FAIL} /\ v.timeout \in Nat
  BY <1>1 DEF Typed, States
<1>4. v.clk \in BOOLEAN /\ v.data \in BOOLEAN
  BY <1>1 DEF Typed
<1>2. Typed(v)
  BY <1>1, <1>3, <1>4 DEF Typed
<1> QED BY <1>1, <1>2 DEF Fine, Reads1, v

LEMMA SendFine ==
    ASSUME NEW u, Typed(u), Reads1(u), NEW bus, bus.clk \in BOOLEAN, bus.data \in BOOLEAN
    PROVE  Fine(u, Send(u, bus))
<1> DEFINE v == Send(u, bus)
<1>0. Shape(u) /\ u.state \in States /\ u.bit \in 0 .. Bits - 1 /\ u.byte \in Byte
      /\ u.timeout \in Nat /\ u.clk \in BOOLEAN /\ u.data \in BOOLEAN /\ Fine(u, u)
      /\ (u.bit \in u.byte) \in BOOLEAN
  BY DEF Typed, Fine
<1>1. ASSUME NEW s, NEW b, NEW y, NEW t, NEW c, NEW d, Goes(u, v, s, b, y, t, c, d),
             s \in States, b \in 0 .. Bits - 1, y \in Byte, t \in Nat,
             c \in BOOLEAN, d \in BOOLEAN
      PROVE  Fine(u, v)
  BY <1>1, GoesFine
<1> HIDE DEF v
<1>2. CASE u.state = "PRE0"
  BY <1>0, <1>1, <1>2, SendPre0, TimesAre DEF v, States
<1>3. CASE u.state = "PRE1" /\ u.timeout = 0
  BY <1>0, <1>1, <1>3, SendPre1 DEF v, States
<1>4. CASE u.state = "READY" \/ (u.state = "PRE1" /\ u.timeout # 0)
  BY <1>0, <1>1, <1>4, SendNext, NextByteFine DEF v, Stays
<1>5. CASE u.state = "PRE2"
  BY <1>0, <1>1, <1>5, SendPre2 DEF v, Stays
<1>6. CASE u.state = "EOI"
  <2>1. Goes(u, v, "EOIw", u.bit, u.byte, u.timeout, u.clk, u.data) \/ Stays(u, v)
    BY <1>0, <1>6, SendEoi DEF v
  <2> QED BY <1>0, <1>1, <2>1 DEF Stays, States, v
<1>7. CASE u.state = "EOIw"
  BY <1>0, <1>1, <1>7, SendEoiw, BitsAssumption DEF v, States
<1>8. CASE u.state = "BIT"
  BY <1>0, <1>1, <1>8, SendBit1, TimesAre DEF v, States
<1>9. CASE u.state = "BITw" /\ u.timeout = 0 /\ u.bit < Bits - 1
  <2>1. u.bit + 1 \in 0 .. Bits - 1
    BY <1>0, <1>9, BitsAssumption
  <2> QED BY <1>0, <1>1, <1>9, <2>1, SendBitDone, TimesAre DEF v, States
<1>10. CASE u.state = "BITw" /\ u.timeout = 0 /\ ~ u.bit < Bits - 1
  BY <1>0, <1>1, <1>10, SendLastBit, TimesAre DEF v, States
<1>11. CASE u.state = "BITw" /\ u.timeout # 0
  BY <1>0, <1>1, <1>11, SendBitWaits DEF v, States
<1>12. CASE u.state = "DONE0"
  BY <1>0, <1>1, <1>12, SendDone0, TimesAre DEF v, States
<1>13. CASE u.state = "DONE1" /\ bus.data
  BY <1>0, <1>1, <1>13, SendDone1, TimesAre DEF v, States
<1>14. CASE u.state = "DONE1" /\ ~ bus.data
  BY <1>14, SendAcknowledged, AcknowledgedFine DEF v
<1>15. CASE u.state = "FRAMEERR0"
  BY <1>0, <1>1, <1>15, SendError0 DEF v, States
<1>16. CASE u.state = "FRAMEERR1"
  <2>1. Goes(u, v, "PRE1", u.bit, u.byte, 0, u.clk, u.data) \/ Stays(u, v)
    BY <1>0, <1>16, SendError1 DEF v
  <2> QED BY <1>0, <1>1, <2>1 DEF Stays, States, v
<1> QED BY <1>0, <1>2, <1>3, <1>4, <1>5, <1>6, <1>7, <1>8, <1>9, <1>10, <1>11, <1>12, <1>13,
           <1>14, <1>15, <1>16 DEF States, v

LEMMA AtnEdgeFine ==
    ASSUME NEW u, Typed(u), NEW bus, NEW a \in Answers
    PROVE  Fine(u, AtnEdge(u, bus, a))
<1>1. Fine(u, AtnFalls(u))
  <2> DEFINE v == AtnFalls(u)
  <2>1. /\ Channel(u, v) /\ v.flags = u.flags \union {"ATN"}
        /\ v.primary = NONE /\ v.secondary = NONE /\ v.secondary_prev = u.secondary
        /\ v.bit = u.bit /\ v.byte = u.byte
        /\ v.state = "PRE0" /\ v.timeout = Pre0 /\ v.clk = TRUE /\ v.data = FALSE
    BY AtnFallsIs DEF Typed
  <2> HIDE DEF v
  <2>2. Typed(v)
    BY <2>1, BytesAre, TimesAre DEF Typed, Channel, States
  <2> QED BY <2>1, <2>2 DEF Fine, Channel, Reads1, v
<1>2. Fine(u, AtnRises(u, a))
  BY AtnRisesIs DEF Rose, Fine
<1>3. Fine(u, u)
  BY DEF Fine
<1>4. AtnEdge(u, bus, a) \in {AtnFalls(u), AtnRises(u, a), u}
  BY DEF AtnEdge
<1> QED BY <1>1, <1>2, <1>3, <1>4

LEMMA ExecFine ==
    ASSUME NEW u, Typed(u), Reads1(u), \E x, y, z \in BOOLEAN : cpu = Lines(x, y, z),
           NEW d \in Nat, NEW a \in Answers
    PROVE  Fine(u, Exec(u, d, a)) /\ (~ u.enabled => Exec(u, d, a) = u)
<1> DEFINE w == After(u, d)
           bus == BusWith(u)
           x == AtnEdge(w, bus, a)
<1>1. Fine(u, w)
  BY AfterFine
<1>2. Fine(w, x)
  BY <1>1, AtnEdgeFine DEF Fine
<1>3. bus.clk \in BOOLEAN /\ bus.data \in BOOLEAN
  BY DEF BusWith, Typed
<1>4. Exec(u, d, a) = IF ~ u.enabled THEN u ELSE Transition(x, bus, a)
  BY DEF Exec
<1>5. Transition(x, bus, a) \in {Receive(x, bus, a), Send(x, bus), x}
  BY DEF Transition
<1>6. Typed(x) /\ Reads1(x) /\ Fine(x, x)
  BY <1>1, <1>2 DEF Fine
<1> HIDE DEF w, bus, x
<1>7. Fine(x, Transition(x, bus, a))
  BY <1>3, <1>5, <1>6, ReceiveFine, SendFine
<1>8. Fine(u, u)
  BY DEF Fine
<1> QED BY <1>1, <1>2, <1>4, <1>7, <1>8, FineTwice

(* What an access does to a device that is not in the middle of a byte. *)

LEMMA KeepLevel ==
    ASSUME NEW u, NEW v, Keep(u, v) \/ Channel(u, v)
    PROVE  Level(u) => Level(v)
  BY DEF Keep, Channel, Level, GotRight

LEMMA LeftIs ==
    ASSUME NEW u, Typed(u), NEW d \in Nat
    PROVE  /\ Left(u, d) \in Nat /\ Left(u, d) <= u.timeout
           /\ u.timeout <= d => Left(u, d) = 0
           /\ u.timeout = 0 => Left(u, d) = 0
           /\ d = 0 => Left(u, d) = u.timeout
           /\ d = 1 /\ u.timeout # 0 => Left(u, d) = u.timeout - 1
  BY DEF Left, Typed

\* A transition of a device that sees nothing new of ATN.
LEMMA ReceiveAfter ==
    ASSUME NEW u, Typed(u), u.enabled, Quiet(u),
           u.flags \intersect {"ATN", "LISTENING"} # {}, NEW d, NEW a
    PROVE  \E w : /\ Goes(u, w, u.state, u.bit, u.byte, Left(u, d), u.clk, u.data)
                  /\ Shape(w) /\ Exec(u, d, a) = Receive(w, BusWith(u), a)
<1>1. Goes(u, After(u, d), u.state, u.bit, u.byte, Left(u, d), u.clk, u.data)
  BY AfterIs DEF Typed
<1>2. Exec(u, d, a) = Receive(After(u, d), BusWith(u), a)
  BY ExecQuiet DEF Typed
<1>3. Shape(After(u, d))
  BY <1>1 DEF Goes, Keep
<1> QED BY <1>1, <1>2, <1>3
LEMMA SendAfter ==
    ASSUME NEW u, Typed(u), u.enabled, cpu.atn, u.flags = {"TALKING"}, NEW d, NEW a
    PROVE  \E w : /\ Goes(u, w, u.state, u.bit, u.byte, Left(u, d), u.clk, u.data)
                  /\ Shape(w) /\ Exec(u, d, a) = Send(w, BusWith(u))
<1>1. Goes(u, After(u, d), u.state, u.bit, u.byte, Left(u, d), u.clk, u.data)
  BY AfterIs DEF Typed
<1>2. Quiet(u)
  BY DEF Quiet
<1>3. Exec(u, d, a) = Send(After(u, d), BusWith(u))
  BY <1>2, ExecQuiet DEF Typed
<1>4. Shape(After(u, d))
  BY <1>1 DEF Goes, Keep
<1> QED BY <1>1, <1>3, <1>4

LEMMA SilentStays ==
    ASSUME NEW u, Typed(u), Silent(u), cpu.atn, NEW d, NEW a
    PROVE  Silent(Exec(u, d, a)) /\ Exec(u, d, a).taken = u.taken
<1>1. Exec(u, d, a) = After(u, d)
  BY ExecQuiet DEF Quiet, Silent, With, Typed
<1>2. Goes(u, After(u, d), u.state, u.bit, u.byte, Left(u, d), u.clk, u.data)
  BY AfterIs DEF Typed
<1> DEFINE v == After(u, d)
<1> HIDE DEF v
<1> QED BY <1>1, <1>2, KeepLevel DEF Silent, With, Free, Goes, Keep, v

LEMMA DeafStays ==
    ASSUME NEW u, Typed(u), Deaf(u), cpu.atn, NEW d, NEW a
    PROVE  Deaf(Exec(u, d, a)) /\ Exec(u, d, a).taken = u.taken
<1>1. CASE Silent(u)
  BY <1>1, SilentStays DEF Deaf
<1>2. CASE With(u, {"LISTENING"}) /\ InState(u, "DONE0")
  <2> DEFINE v == Exec(u, d, a)
  <2>1. PICK w : /\ Goes(u, w, u.state, u.bit, u.byte, Left(u, d), u.clk, u.data)
                 /\ Shape(w) /\ Exec(u, d, a) = Receive(w, BusWith(u), a)
    <3>1. Quiet(u) /\ u.enabled /\ u.flags \intersect {"ATN", "LISTENING"} # {}
      BY <1>2 DEF With, Quiet
    <3> QED BY <3>1, ReceiveAfter
  <2>2. Stays(w, v)
    BY <1>2, <2>1, ReceiveDone DEF Goes, InState
  <2> HIDE DEF v
  <2> QED BY <1>2, <2>1, <2>2, KeepLevel, ZenonT(40) DEF Deaf, With, InState, Free, Goes, Keep, Stays, v
<1> QED BY <1>1, <1>2 DEF Deaf

LEMMA CalmStays ==
    ASSUME NEW u, Typed(u), Calm(u), cpu.atn, cpu.clk, NEW d, NEW a
    PROVE  Calm(Exec(u, d, a)) /\ Exec(u, d, a).taken = u.taken
<1>1. CASE Deaf(u)
  BY <1>1, DeafStays DEF Calm
<1>2. CASE With(u, {"LISTENING"}) /\ InBit(u, "BITw", 0)
  <2> DEFINE v == Exec(u, d, a)
  <2>1. PICK w : /\ Goes(u, w, u.state, u.bit, u.byte, Left(u, d), u.clk, u.data)
                 /\ Shape(w) /\ Exec(u, d, a) = Receive(w, BusWith(u), a)
    <3>1. Quiet(u) /\ u.enabled /\ u.flags \intersect {"ATN", "LISTENING"} # {}
      BY <1>2 DEF With, Quiet
    <3> QED BY <3>1, ReceiveAfter
  <2>2. BusWith(u).clk
    BY <1>2 DEF BusWith, InBit, InState, Free
  <2>3. Stays(w, v)
    BY <1>2, <2>1, <2>2, ReceiveBitHigh DEF Goes, InBit, InState, Stays
  <2> HIDE DEF v
  <2> QED BY <1>2, <2>1, <2>3, KeepLevel, ZenonT(40)
         DEF Calm, With, InBit, InState, Free, Goes, Keep, Stays, v
<1> QED BY <1>1, <1>2 DEF Calm

\* ATN is noticed.
LEMMA Falls ==
    ASSUME NEW u, Typed(u), NEW f, With(u, f), "ATN" \notin f, ~ cpu.atn, NEW d, NEW a
    PROVE  LET v == Exec(u, d, a)
           IN  /\ Under(v, f) /\ v.flags = f \union {"ATN"}
               /\ v.primary = NONE /\ v.secondary = NONE
               /\ v.state = "PRE0" /\ v.timeout = Pre0 /\ HoldsData(v) /\ v.taken = u.taken
<1> DEFINE w == After(u, d)
           bus == BusWith(u)
           x == AtnFalls(w)
           v == Exec(u, d, a)
<1>1. Goes(u, w, u.state, u.bit, u.byte, Left(u, d), u.clk, u.data)
  BY AfterIs DEF Typed
<1>2. v = Transition(AtnEdge(w, bus, a), bus, a)
  BY DEF Exec, With
<1> HIDE DEF w, v
<1>3. AtnEdge(w, bus, a) = x
  BY <1>1 DEF AtnEdge, BusWith, Goes, Keep, With
<1>4. /\ Channel(w, x) /\ x.flags = w.flags \union {"ATN"} /\ x.primary = NONE
      /\ x.secondary = NONE /\ x.state = "PRE0" /\ x.timeout = Pre0 /\ HoldsData(x)
  BY <1>1, AtnFallsIs DEF Goes, Keep, HoldsData
<1> HIDE DEF x, bus
<1>5. v = Receive(x, bus, a)
  BY <1>2, <1>3, <1>4 DEF Transition
<1>6. Goes(x, v, "PRE0", x.bit, x.byte, x.timeout, x.clk, x.data)
  BY <1>4, <1>5, TimesAre, ReceivePre0 DEF Channel
<1>7. Level(v)
  BY <1>1, <1>4, <1>6, KeepLevel DEF With, Goes
<1>8. v.flags = f \union {"ATN"} /\ v.enabled /\ v.taken = u.taken
  BY <1>1, <1>4, <1>6 DEF With, Goes, Keep, Channel
<1>9. Under(v, f)
  BY <1>7, <1>8 DEF Under
<1> QED BY <1>4, <1>6, <1>8, <1>9 DEF Goes, Keep, HoldsData, v

Receiving(u) ==
    u.enabled /\ Quiet(u) /\ u.flags \intersect {"ATN", "LISTENING"} # {}

LEMMA GoesOn ==
    ASSUME NEW u, NEW w, NEW v, NEW s, NEW b, NEW y, NEW t, NEW c, NEW e,
           NEW s0, NEW b0, NEW y0, NEW t0, NEW c0, NEW e0,
           Goes(u, w, s0, b0, y0, t0, c0, e0), Goes(w, v, s, b, y, t, c, e)
    PROVE  Goes(u, v, s, b, y, t, c, e)
  BY KeepTwice DEF Goes

LEMMA ReceivesPre ==
    ASSUME NEW u, Typed(u), Receiving(u), NEW d, NEW a
    PROVE  LET v == Exec(u, d, a)
               t == Left(u, d)
               clk == cpu.clk /\ u.clk
           IN  /\ u.state = "PRE0" /\ t = 0 =>
                    Goes(u, v, "PRE1", u.bit, u.byte, t, u.clk, u.data)
               /\ u.state = "PRE0" /\ t # 0 =>
                    Goes(u, v, "PRE0", u.bit, u.byte, t, u.clk, u.data)
               /\ u.state = "PRE1" /\ ~ clk =>
                    Goes(u, v, "PRE2", u.bit, u.byte, t, u.clk, u.data)
               /\ u.state = "PRE1" /\ clk =>
                    Goes(u, v, "PRE1", u.bit, u.byte, t, u.clk, u.data)
               /\ u.state = "PRE2" /\ ~ clk =>
                    Goes(u, v, "PRE2", u.bit, u.byte, t, u.clk, u.data)
               /\ u.state = "PRE2" /\ clk =>
                    Goes(u, v, "READY", u.bit, u.byte, Ready, TRUE, TRUE)
<1> DEFINE v == Exec(u, d, a)
<1>1. PICK w : /\ Goes(u, w, u.state, u.bit, u.byte, Left(u, d), u.clk, u.data)
               /\ Shape(w) /\ v = Receive(w, BusWith(u), a)
  BY ReceiveAfter DEF Receiving
<1>2. BusWith(u).clk = (cpu.clk /\ u.clk)
  BY DEF BusWith
<1> HIDE DEF v
<1>3. /\ w.state = u.state /\ w.bit = u.bit /\ w.byte = u.byte /\ w.timeout = Left(u, d)
      /\ w.clk = u.clk /\ w.data = u.data
  BY <1>1 DEF Goes
<1> DEFINE t == Left(u, d)
           clk == cpu.clk /\ u.clk
<1>4. /\ u.state = "PRE0" /\ t = 0 => Goes(w, v, "PRE1", u.bit, u.byte, t, u.clk, u.data)
      /\ u.state = "PRE0" /\ t # 0 => Goes(w, v, "PRE0", u.bit, u.byte, t, u.clk, u.data)
  BY <1>1, <1>3, ReceivePre0
<1>5. /\ u.state = "PRE1" /\ ~ clk => Goes(w, v, "PRE2", u.bit, u.byte, t, u.clk, u.data)
      /\ u.state = "PRE1" /\ clk => Goes(w, v, "PRE1", u.bit, u.byte, t, u.clk, u.data)
  BY <1>1, <1>2, <1>3, ReceivePre1
<1>6. u.state = "PRE2" /\ ~ clk =>
          Goes(w, v, "PRE2", u.bit, u.byte, t, u.clk, u.data)
  BY <1>1, <1>2, <1>3, ReceivePre2
<1>7. u.state = "PRE2" /\ clk =>
          Goes(w, v, "READY", u.bit, u.byte, Ready, TRUE, TRUE)
  BY <1>1, <1>2, <1>3, ReceivePre2
<1>8. \A s, b, y, x, c, e : Goes(w, v, s, b, y, x, c, e) => Goes(u, v, s, b, y, x, c, e)
  BY <1>1, GoesOn
<1> HIDE DEF t, clk
<1> QED BY <1>4, <1>5, <1>6, <1>7, <1>8 DEF v, t, clk

LEMMA ReceivesFrom ==
    ASSUME NEW u, Typed(u), Receiving(u), NEW d, NEW a
    PROVE  LET v == Exec(u, d, a)
               t == Left(u, d)
               clk == cpu.clk /\ u.clk
           IN  /\ u.state = "READY" /\ ~ clk =>
                    Goes(u, v, "BIT", 0, u.byte, t, u.clk, u.data)
               /\ u.state = "READY" /\ clk /\ ("ATN" \in u.flags \/ t # 0) =>
                    Goes(u, v, "READY", u.bit, u.byte, t, u.clk, u.data)
               /\ u.state = "READY" /\ clk /\ "ATN" \notin u.flags /\ t = 0 =>
                    Goes(u, v, "EOI", u.bit, u.byte, Ack, TRUE, FALSE)
               /\ u.state = "EOI" /\ t # 0 =>
                    Goes(u, v, "EOI", u.bit, u.byte, t, u.clk, u.data)
               /\ u.state = "EOI" /\ t = 0 =>
                    Goes(u, v, "EOIw", u.bit, u.byte, 0, TRUE, TRUE)
               /\ u.state = "EOIw" /\ ~ clk =>
                    Goes(u, v, "BIT", 0, u.byte, t, u.clk, u.data)
               /\ u.state = "EOIw" /\ clk =>
                    Goes(u, v, "EOIw", u.bit, u.byte, t, u.clk, u.data)
<1> DEFINE v == Exec(u, d, a)
<1>1. PICK w : /\ Goes(u, w, u.state, u.bit, u.byte, Left(u, d), u.clk, u.data)
               /\ Shape(w) /\ v = Receive(w, BusWith(u), a)
  BY ReceiveAfter DEF Receiving
<1>2. BusWith(u).clk = (cpu.clk /\ u.clk)
  BY DEF BusWith
<1> HIDE DEF v
<1>3. /\ w.state = u.state /\ w.bit = u.bit /\ w.byte = u.byte /\ w.timeout = Left(u, d)
      /\ w.clk = u.clk /\ w.data = u.data /\ w.flags = u.flags
  BY <1>1 DEF Goes, Keep
<1> DEFINE t == Left(u, d)
           clk == cpu.clk /\ u.clk
<1>4. /\ u.state = "READY" /\ ~ clk => Goes(w, v, "BIT", 0, u.byte, t, u.clk, u.data)
  BY <1>1, <1>2, <1>3, ReceiveReadyLow
<1>5. /\ u.state = "READY" /\ clk /\ ("ATN" \in u.flags \/ t # 0) =>
            Goes(w, v, "READY", u.bit, u.byte, t, u.clk, u.data)
      /\ u.state = "READY" /\ clk /\ "ATN" \notin u.flags /\ t = 0 =>
            Goes(w, v, "EOI", u.bit, u.byte, Ack, TRUE, FALSE)
  BY <1>1, <1>2, <1>3, ReceiveReadyHigh
<1>6. /\ u.state = "EOI" /\ t # 0 => Goes(w, v, "EOI", u.bit, u.byte, t, u.clk, u.data)
      /\ u.state = "EOI" /\ t = 0 => Goes(w, v, "EOIw", u.bit, u.byte, 0, TRUE, TRUE)
  BY <1>1, <1>2, <1>3, ReceiveEoi
<1>7. /\ u.state = "EOIw" /\ ~ clk => Goes(w, v, "BIT", 0, u.byte, t, u.clk, u.data)
      /\ u.state = "EOIw" /\ clk => Goes(w, v, "EOIw", u.bit, u.byte, t, u.clk, u.data)
  BY <1>1, <1>2, <1>3, ReceiveEoiw
<1>8. \A s, b, y, x, c, e : Goes(w, v, s, b, y, x, c, e) => Goes(u, v, s, b, y, x, c, e)
  BY <1>1, GoesOn
<1> HIDE DEF t, clk
<1> QED BY <1>4, <1>5, <1>6, <1>7, <1>8 DEF v, t, clk

LEMMA ReceivesBits ==
    ASSUME NEW u, Typed(u), Receiving(u), NEW d, NEW a
    PROVE  LET v == Exec(u, d, a)
               t == Left(u, d)
               clk == cpu.clk /\ u.clk
               data == cpu.data /\ u.data
           IN  /\ u.state = "BIT" /\ ~ clk =>
                    Goes(u, v, "BIT", u.bit, u.byte, t, u.clk, u.data)
               /\ u.state = "BIT" /\ clk =>
                    Goes(u, v, "BITw", u.bit, WithBit(u.byte, u.bit, data), t, u.clk, u.data)
               /\ u.state = "BITw" /\ clk =>
                    Goes(u, v, "BITw", u.bit, u.byte, t, u.clk, u.data)
               /\ u.state = "BITw" /\ ~ clk /\ u.bit < Bits - 1 =>
                    Goes(u, v, "BIT", u.bit + 1, u.byte, t, u.clk, u.data)
<1> DEFINE v == Exec(u, d, a)
<1>1. PICK w : /\ Goes(u, w, u.state, u.bit, u.byte, Left(u, d), u.clk, u.data)
               /\ Shape(w) /\ v = Receive(w, BusWith(u), a)
  BY ReceiveAfter DEF Receiving
<1>2. BusWith(u).clk = (cpu.clk /\ u.clk) /\ BusWith(u).data = (cpu.data /\ u.data)
  BY DEF BusWith
<1> HIDE DEF v
<1>3. /\ w.state = u.state /\ w.bit = u.bit /\ w.byte = u.byte /\ w.timeout = Left(u, d)
      /\ w.clk = u.clk /\ w.data = u.data
  BY <1>1 DEF Goes
<1> DEFINE t == Left(u, d)
           clk == cpu.clk /\ u.clk
           data == cpu.data /\ u.data
<1>4. /\ u.state = "BIT" /\ ~ clk => Goes(w, v, "BIT", u.bit, u.byte, t, u.clk, u.data)
      /\ u.state = "BIT" /\ clk =>
            Goes(w, v, "BITw", u.bit, WithBit(u.byte, u.bit, data), t, u.clk, u.data)
  BY <1>1, <1>2, <1>3, ReceiveBit
<1>5. u.state = "BITw" /\ clk => Goes(w, v, "BITw", u.bit, u.byte, t, u.clk, u.data)
  BY <1>1, <1>2, <1>3, ReceiveBitHigh
<1>6. u.state = "BITw" /\ ~ clk /\ u.bit < Bits - 1 =>
          Goes(w, v, "BIT", u.bit + 1, u.byte, t, u.clk, u.data)
  BY <1>1, <1>2, <1>3, ReceiveNextBit
<1>8. \A s, b, y, x, c, e : Goes(w, v, s, b, y, x, c, e) => Goes(u, v, s, b, y, x, c, e)
  BY <1>1, GoesOn
<1> HIDE DEF t, clk, data
<1> QED BY <1>4, <1>5, <1>6, <1>8 DEF v, t, clk, data

Sends(u) == u.enabled /\ cpu.atn /\ u.flags = {"TALKING"}

LEMMA SendsPre ==
    ASSUME NEW u, Typed(u), Sends(u), NEW d, NEW a
    PROVE  LET v == Exec(u, d, a)
               t == Left(u, d)
               clk == cpu.clk /\ u.clk
               data == cpu.data /\ u.data
           IN  /\ u.state = "PRE0" /\ clk =>
                    Goes(u, v, "PRE1", u.bit, u.byte, Turn, FALSE, TRUE)
               /\ u.state = "PRE0" /\ ~ clk =>
                    Goes(u, v, "PRE0", u.bit, u.byte, t, u.clk, u.data)
               /\ u.state = "PRE1" /\ t = 0 =>
                    Goes(u, v, "READY", u.bit, u.byte, 0, TRUE, TRUE)
               /\ u.state = "PRE1" /\ t # 0 /\ ~ data =>
                    Goes(u, v, "PRE1", u.bit, u.byte, t, u.clk, u.data)
               /\ u.state = "READY" /\ ~ data =>
                    Goes(u, v, "READY", u.bit, u.byte, t, u.clk, u.data)
               /\ u.state = "EOI" /\ ~ data =>
                    Goes(u, v, "EOIw", u.bit, u.byte, t, u.clk, u.data)
               /\ u.state = "EOI" /\ data =>
                    Goes(u, v, "EOI", u.bit, u.byte, t, u.clk, u.data)
               /\ u.state = "EOIw" /\ data =>
                    Goes(u, v, "BIT", 0, u.byte, 0, u.clk, u.data)
               /\ u.state = "EOIw" /\ ~ data =>
                    Goes(u, v, "EOIw", u.bit, u.byte, t, u.clk, u.data)
<1> DEFINE v == Exec(u, d, a)
<1>1. PICK w : /\ Goes(u, w, u.state, u.bit, u.byte, Left(u, d), u.clk, u.data)
               /\ Shape(w) /\ v = Send(w, BusWith(u))
  BY SendAfter DEF Sends
<1>2. BusWith(u).clk = (cpu.clk /\ u.clk) /\ BusWith(u).data = (cpu.data /\ u.data)
  BY DEF BusWith
<1> HIDE DEF v
<1>3. /\ w.state = u.state /\ w.bit = u.bit /\ w.byte = u.byte /\ w.timeout = Left(u, d)
      /\ w.clk = u.clk /\ w.data = u.data
  BY <1>1 DEF Goes
<1> DEFINE t == Left(u, d)
           clk == cpu.clk /\ u.clk
           data == cpu.data /\ u.data
<1>4. /\ u.state = "PRE0" /\ clk =>
            Goes(w, v, "PRE1", u.bit, u.byte, Turn, FALSE, TRUE)
      /\ u.state = "PRE0" /\ ~ clk =>
            Goes(w, v, "PRE0", u.bit, u.byte, t, u.clk, u.data)
  BY <1>1, <1>2, <1>3, SendPre0
<1>5. /\ u.state = "PRE1" /\ t = 0 =>
            Goes(w, v, "READY", u.bit, u.byte, 0, TRUE, TRUE)
  BY <1>1, <1>2, <1>3, SendPre1
<1>6. /\ u.state = "PRE1" /\ t # 0 /\ ~ data =>
            Goes(w, v, "PRE1", u.bit, u.byte, t, u.clk, u.data)
      /\ u.state = "READY" /\ ~ data =>
            Goes(w, v, "READY", u.bit, u.byte, t, u.clk, u.data)
  BY <1>1, <1>2, <1>3, SendNext DEF Stays
<1>7. /\ u.state = "EOI" /\ ~ data =>
            Goes(w, v, "EOIw", u.bit, u.byte, t, u.clk, u.data)
      /\ u.state = "EOI" /\ data =>
            Goes(w, v, "EOI", u.bit, u.byte, t, u.clk, u.data)
  BY <1>1, <1>2, <1>3, SendEoi DEF Stays
<1>8. /\ u.state = "EOIw" /\ data =>
            Goes(w, v, "BIT", 0, u.byte, 0, u.clk, u.data)
      /\ u.state = "EOIw" /\ ~ data =>
            Goes(w, v, "EOIw", u.bit, u.byte, t, u.clk, u.data)
  BY <1>1, <1>2, <1>3, SendEoiw
<1>9. \A s, b, y, x, c, e : Goes(w, v, s, b, y, x, c, e) => Goes(u, v, s, b, y, x, c, e)
  BY <1>1, GoesOn
<1> HIDE DEF t, clk, data
<1> QED BY <1>4, <1>5, <1>6, <1>7, <1>8, <1>9, ZenonT(40) DEF v, t, clk, data

LEMMA SendsBits ==
    ASSUME NEW u, Typed(u), Sends(u), NEW d, NEW a
    PROVE  LET v == Exec(u, d, a)
               t == Left(u, d)
               clk == cpu.clk /\ u.clk
               data == cpu.data /\ u.data
           IN  /\ u.state = "BIT" /\ t = 0 =>
                    Goes(u, v, "BITw", u.bit, u.byte, Bit, FALSE, (u.bit \in u.byte))
               /\ u.state = "BIT" /\ t # 0 =>
                    Goes(u, v, "BIT", u.bit, u.byte, t, u.clk, u.data)
               /\ u.state = "BITw" /\ t # 0 =>
                    Goes(u, v, "BITw", u.bit, u.byte, t, u.clk, u.data)
               /\ u.state = "BITw" /\ t = 0 /\ u.bit < Bits - 1 =>
                    Goes(u, v, "BIT", u.bit + 1, u.byte, Bit, TRUE, data)
               /\ u.state = "BITw" /\ t = 0 /\ ~ u.bit < Bits - 1 =>
                    Goes(u, v, "DONE0", u.bit, u.byte, Bit, TRUE, data)
<1> DEFINE v == Exec(u, d, a)
<1>1. PICK w : /\ Goes(u, w, u.state, u.bit, u.byte, Left(u, d), u.clk, u.data)
               /\ Shape(w) /\ v = Send(w, BusWith(u))
  BY SendAfter DEF Sends
<1>2. BusWith(u).clk = (cpu.clk /\ u.clk) /\ BusWith(u).data = (cpu.data /\ u.data)
  BY DEF BusWith
<1> HIDE DEF v
<1>3. /\ w.state = u.state /\ w.bit = u.bit /\ w.byte = u.byte /\ w.timeout = Left(u, d)
      /\ w.clk = u.clk /\ w.data = u.data
  BY <1>1 DEF Goes
<1> DEFINE t == Left(u, d)
           clk == cpu.clk /\ u.clk
           data == cpu.data /\ u.data
<1>4. /\ u.state = "BIT" /\ t = 0 =>
            Goes(w, v, "BITw", u.bit, u.byte, Bit, FALSE, (u.bit \in u.byte))
      /\ u.state = "BIT" /\ t # 0 =>
            Goes(w, v, "BIT", u.bit, u.byte, t, u.clk, u.data)
  BY <1>1, <1>2, <1>3, SendBit1
<1>5. /\ u.state = "BITw" /\ t # 0 =>
            Goes(w, v, "BITw", u.bit, u.byte, t, u.clk, u.data)
  BY <1>1, <1>2, <1>3, SendBitWaits
<1>6. /\ u.state = "BITw" /\ t = 0 /\ u.bit < Bits - 1 =>
            Goes(w, v, "BIT", u.bit + 1, u.byte, Bit, TRUE, data)
  BY <1>1, <1>2, <1>3, SendBitDone
<1>7. /\ u.state = "BITw" /\ t = 0 /\ ~ u.bit < Bits - 1 =>
            Goes(w, v, "DONE0", u.bit, u.byte, Bit, TRUE, data)
  BY <1>1, <1>2, <1>3, SendLastBit
<1>8. \A s, b, y, x, c, e : Goes(w, v, s, b, y, x, c, e) => Goes(u, v, s, b, y, x, c, e)
  BY <1>1, GoesOn
<1> HIDE DEF t, clk, data
<1> QED BY <1>4, <1>5, <1>6, <1>7, <1>8 DEF v, t, clk, data

LEMMA SendsDone ==
    ASSUME NEW u, Typed(u), Sends(u), NEW d, NEW a
    PROVE  LET v == Exec(u, d, a)
               t == Left(u, d)
               clk == cpu.clk /\ u.clk
               data == cpu.data /\ u.data
           IN  /\ u.state = "DONE0" /\ t = 0 =>
                    Goes(u, v, "DONE1", u.bit, u.byte, Done, FALSE, TRUE)
               /\ u.state = "DONE0" /\ t # 0 =>
                    Goes(u, v, "DONE0", u.bit, u.byte, t, u.clk, u.data)
               /\ u.state = "DONE1" /\ data /\ t = 0 =>
                    Goes(u, v, "FRAMEERR0", u.bit, u.byte, Err, TRUE, TRUE)
               /\ u.state = "DONE1" /\ data /\ t # 0 =>
                    Goes(u, v, "DONE1", u.bit, u.byte, t, u.clk, u.data)
               /\ u.state = "FRAMEERR0" /\ t = 0 =>
                    Goes(u, v, "FRAMEERR1", u.bit, u.byte, 0, FALSE, TRUE)
               /\ u.state = "FRAMEERR0" /\ t # 0 =>
                    Goes(u, v, "FRAMEERR0", u.bit, u.byte, t, u.clk, u.data)
               /\ u.state = "FRAMEERR1" /\ ~ data =>
                    Goes(u, v, "PRE1", u.bit, u.byte, 0, u.clk, u.data)
               /\ u.state = "FRAMEERR1" /\ data =>
                    Goes(u, v, "FRAMEERR1", u.bit, u.byte, t, u.clk, u.data)
<1> DEFINE v == Exec(u, d, a)
<1>1. PICK w : /\ Goes(u, w, u.state, u.bit, u.byte, Left(u, d), u.clk, u.data)
               /\ Shape(w) /\ v = Send(w, BusWith(u))
  BY SendAfter DEF Sends
<1>2. BusWith(u).clk = (cpu.clk /\ u.clk) /\ BusWith(u).data = (cpu.data /\ u.data)
  BY DEF BusWith
<1> HIDE DEF v
<1>3. /\ w.state = u.state /\ w.bit = u.bit /\ w.byte = u.byte /\ w.timeout = Left(u, d)
      /\ w.clk = u.clk /\ w.data = u.data
  BY <1>1 DEF Goes
<1> DEFINE t == Left(u, d)
           clk == cpu.clk /\ u.clk
           data == cpu.data /\ u.data
<1>4. /\ u.state = "DONE0" /\ t = 0 =>
            Goes(w, v, "DONE1", u.bit, u.byte, Done, FALSE, TRUE)
      /\ u.state = "DONE0" /\ t # 0 =>
            Goes(w, v, "DONE0", u.bit, u.byte, t, u.clk, u.data)
  BY <1>1, <1>2, <1>3, SendDone0
<1>5. /\ u.state = "DONE1" /\ data /\ t = 0 =>
            Goes(w, v, "FRAMEERR0", u.bit, u.byte, Err, TRUE, TRUE)
      /\ u.state = "DONE1" /\ data /\ t # 0 =>
            Goes(w, v, "DONE1", u.bit, u.byte, t, u.clk, u.data)
  BY <1>1, <1>2, <1>3, SendDone1
<1>6. /\ u.state = "FRAMEERR0" /\ t = 0 =>
            Goes(w, v, "FRAMEERR1", u.bit, u.byte, 0, FALSE, TRUE)
      /\ u.state = "FRAMEERR0" /\ t # 0 =>
            Goes(w, v, "FRAMEERR0", u.bit, u.byte, t, u.clk, u.data)
  BY <1>1, <1>2, <1>3, SendError0
<1>7. /\ u.state = "FRAMEERR1" /\ ~ data =>
            Goes(w, v, "PRE1", u.bit, u.byte, 0, u.clk, u.data)
      /\ u.state = "FRAMEERR1" /\ data =>
            Goes(w, v, "FRAMEERR1", u.bit, u.byte, t, u.clk, u.data)
  BY <1>1, <1>2, <1>3, SendError1 DEF Stays
<1>8. \A s, b, y, x, c, e : Goes(w, v, s, b, y, x, c, e) => Goes(u, v, s, b, y, x, c, e)
  BY <1>1, GoesOn
<1> HIDE DEF t, clk, data
<1> QED BY <1>4, <1>5, <1>6, <1>7, <1>8 DEF v, t, clk, data

\* The next byte of the file, or the end of the talk.
LEMMA SendsNext ==
    ASSUME NEW u, Typed(u), Sends(u), cpu.data /\ u.data, NEW d, NEW a,
           u.state = "READY" \/ (u.state = "PRE1" /\ Left(u, d) # 0)
    PROVE  LET v == Exec(u, d, a)
           IN  /\ v.enabled = u.enabled /\ v.mode = u.mode /\ v.file = u.file
               /\ v.taken = u.taken /\ v.got = u.got /\ v.lossy = u.lossy
               /\ v.clk = u.clk /\ v.data = u.data
               /\ IF u.mode = "read" /\ u.pos < Len(u.file)
                  THEN /\ v.byte = u.file[u.pos + 1] /\ v.pos = u.pos + 1
                       /\ v.flags = u.flags
                       /\ IF u.pos + 1 = Len(u.file)
                          THEN v.st = EOF /\ v.state = "EOI"
                          ELSE /\ v.st = OK /\ v.state = "BIT" /\ v.bit = 0
                               /\ v.timeout = 0
                  ELSE v.pos = u.pos /\ v.flags = {}
<1> DEFINE v == Exec(u, d, a)
<1>1. PICK w : /\ Goes(u, w, u.state, u.bit, u.byte, Left(u, d), u.clk, u.data)
               /\ Shape(w) /\ v = Send(w, BusWith(u))
  BY SendAfter DEF Sends
<1>2. BusWith(u).data
  BY DEF BusWith
<1> HIDE DEF v
<1>3. v = NextByte(w)
  BY <1>1, <1>2, SendNext DEF Goes
<1>4. u.flags \ {"TALKING"} = {}
  BY DEF Sends
<1>5. /\ w.enabled = u.enabled /\ w.mode = u.mode /\ w.file = u.file /\ w.pos = u.pos
      /\ w.taken = u.taken /\ w.got = u.got /\ w.lossy = u.lossy
      /\ w.clk = u.clk /\ w.data = u.data /\ w.flags = u.flags
  BY <1>1 DEF Goes, Keep
<1>6. /\ v.enabled = w.enabled /\ v.mode = w.mode /\ v.file = w.file
      /\ v.taken = w.taken /\ v.got = w.got /\ v.lossy = w.lossy
      /\ v.clk = w.clk /\ v.data = w.data
      /\ IF w.mode = "read" /\ w.pos < Len(w.file)
         THEN /\ v.byte = w.file[w.pos + 1] /\ v.pos = w.pos + 1
              /\ v.flags = w.flags
              /\ IF w.pos + 1 = Len(w.file)
                 THEN v.st = EOF /\ v.state = "EOI"
                 ELSE /\ v.st = OK /\ v.state = "BIT" /\ v.bit = 0
                      /\ v.timeout = 0
         ELSE v.pos = w.pos /\ v.flags = w.flags \ {"TALKING"}
  BY <1>1, <1>3, NextByteIs
<1> QED BY <1>4, <1>5, <1>6 DEF v

LEMMA SendsAcknowledged ==
    ASSUME NEW u, Typed(u), Sends(u), ~ (cpu.data /\ u.data), NEW d, NEW a,
           u.state = "DONE1"
    PROVE  LET v == Exec(u, d, a)
           IN  /\ v.enabled = u.enabled /\ v.mode = u.mode /\ v.file = u.file
               /\ v.pos = u.pos /\ v.taken = u.taken /\ v.got = u.got
               /\ v.lossy = u.lossy
               /\ IF u.st = EOF
                  THEN v.flags = {} /\ v.clk /\ v.data
                  ELSE /\ v.flags = {"TALKING"} /\ v.state = "PRE1" /\ v.timeout = 0
                       /\ v.clk = u.clk /\ v.data = u.data
<1> DEFINE v == Exec(u, d, a)
<1>1. PICK w : /\ Goes(u, w, u.state, u.bit, u.byte, Left(u, d), u.clk, u.data)
               /\ Shape(w) /\ v = Send(w, BusWith(u))
  BY SendAfter DEF Sends
<1>2. ~ BusWith(u).data
  BY DEF BusWith
<1> HIDE DEF v
<1>3. v = Acknowledged(w)
  BY <1>1, <1>2, SendAcknowledged DEF Goes
<1>4. u.flags \ {"TALKING"} = {} /\ u.flags = {"TALKING"}
  BY DEF Sends
<1>5. /\ w.enabled = u.enabled /\ w.mode = u.mode /\ w.file = u.file /\ w.pos = u.pos
      /\ w.taken = u.taken /\ w.got = u.got /\ w.lossy = u.lossy
      /\ w.clk = u.clk /\ w.data = u.data /\ w.flags = u.flags /\ w.st = u.st
  BY <1>1 DEF Goes, Keep
<1>6. /\ v.enabled = w.enabled /\ v.mode = w.mode /\ v.file = w.file
      /\ v.pos = w.pos /\ v.taken = w.taken /\ v.got = w.got /\ v.lossy = w.lossy
      /\ IF w.st = EOF
         THEN /\ v.flags = w.flags \ {"TALKING"} /\ v.clk = TRUE /\ v.data = TRUE
         ELSE /\ v.flags = w.flags /\ v.clk = w.clk /\ v.data = w.data
              /\ v.state = "PRE1" /\ v.timeout = 0
  <2>1. Shape(w)
    BY <1>1
  <2> QED BY <1>3, <2>1, AcknowledgedIs
<1> QED BY <1>4, <1>5, <1>6 DEF v

\* As RoseTo says, and what then follows in the same access.
Before(u) == u.flags \ {"ATN"}
BeforeTalk(u) == Before(u) \ {"TALKING"}
RoseTo(u, w, v, a) ==
    /\ Shape(w) /\ Level(w) /\ w.enabled /\ w.taken = u.taken
    /\ v = Transition(w, BusWith(u), a)
    /\ u.primary = LISTEN =>
         \/ /\ w.flags = BeforeTalk(u) \union {"LISTENING"} /\ w.state = "PRE1"
            /\ w.clk = TRUE /\ w.data = FALSE
         \/ /\ w.flags = BeforeTalk(u) /\ w.state = u.state
            /\ w.clk = TRUE /\ w.data = (BeforeTalk(u) = {})
    /\ u.primary = TALK =>
         /\ w.flags = (Before(u) \ {"LISTENING"}) \union {"TALKING"}
         /\ w.state = "PRE0" /\ w.clk = u.clk /\ w.data = u.data
    /\ u.primary \notin {LISTEN, TALK} =>
         /\ w.flags = IF u.primary = UNLISTEN THEN Before(u) \ {"LISTENING"}
                      ELSE IF u.primary = UNTALK THEN BeforeTalk(u) ELSE Before(u)
         /\ w.state = u.state
         /\ IF w.flags = {} THEN w.clk = TRUE /\ w.data = TRUE
                            ELSE w.clk = u.clk /\ w.data = u.data

LEMMA RisesTo ==
    ASSUME NEW u, Typed(u), NEW f, Under(u, f), cpu.atn, NEW d \in Nat, NEW a \in Answers
    PROVE  \E w : RoseTo(u, w, Exec(u, d, a), a)
<1> DEFINE p == After(u, d)
           w == AtnRises(p, a)
           g == u.flags \ {"ATN"}
           l == g \ {"TALKING"}
<1>1. Goes(u, p, u.state, u.bit, u.byte, Left(u, d), u.clk, u.data) /\ Fine(u, p)
  BY AfterIs, AfterFine DEF Typed
<1>2. Exec(u, d, a) = Transition(AtnEdge(p, BusWith(u), a), BusWith(u), a)
  BY DEF Exec, Under
<1> HIDE DEF p
<1>3. AtnEdge(p, BusWith(u), a) = w
  BY <1>1 DEF AtnEdge, BusWith, Goes, Keep, Under
<1>4. Typed(p) /\ Level(p) /\ p.taken = u.taken /\ p.enabled /\ p.primary = u.primary
      /\ p.state = u.state /\ p.clk = u.clk /\ p.data = u.data /\ p.flags = u.flags
  BY <1>1, KeepLevel DEF Fine, Goes, Keep, Under
<1>5. /\ Rose(p, w)
      /\ p.primary = LISTEN =>
           \/ /\ w.flags = l \union {"LISTENING"} /\ w.state = "PRE1"
              /\ w.clk = TRUE /\ w.data = FALSE
           \/ /\ w.flags = l /\ w.state = p.state
              /\ w.clk = TRUE /\ w.data = (l = {})
      /\ p.primary = TALK =>
           /\ w.flags = (g \ {"LISTENING"}) \union {"TALKING"}
           /\ w.state = "PRE0" /\ w.clk = p.clk /\ w.data = p.data
      /\ p.primary \notin {LISTEN, TALK} =>
           /\ w.flags = IF p.primary = UNLISTEN THEN g \ {"LISTENING"}
                        ELSE IF p.primary = UNTALK THEN l ELSE g
           /\ w.state = p.state
           /\ IF w.flags = {} THEN w.clk = TRUE /\ w.data = TRUE
                              ELSE w.clk = p.clk /\ w.data = p.data
  <2> DEFINE g1 == p.flags \ {"ATN"}
             l1 == g1 \ {"TALKING"}
  <2>1. /\ Rose(p, w)
        /\ p.primary = LISTEN =>
             \/ /\ w.flags = l1 \union {"LISTENING"} /\ w.state = "PRE1"
                /\ w.clk = TRUE /\ w.data = FALSE
             \/ /\ w.flags = l1 /\ w.state = p.state
                /\ w.clk = TRUE /\ w.data = (l1 = {})
        /\ p.primary = TALK =>
             /\ w.flags = (g1 \ {"LISTENING"}) \union {"TALKING"}
             /\ w.state = "PRE0" /\ w.clk = p.clk /\ w.data = p.data
        /\ p.primary \notin {LISTEN, TALK} =>
             /\ w.flags = IF p.primary = UNLISTEN THEN g1 \ {"LISTENING"}
                          ELSE IF p.primary = UNTALK THEN l1 ELSE g1
             /\ w.state = p.state
             /\ IF w.flags = {} THEN w.clk = TRUE /\ w.data = TRUE
                                ELSE w.clk = p.clk /\ w.data = p.data
    BY <1>4, AtnRisesIs
  <2>2. g1 = g /\ l1 = l
    BY <1>4
  <2> HIDE DEF g, l, g1, l1
  <2> QED BY <2>1, <2>2
<1> HIDE DEF w
<1>6. Shape(w) /\ Level(w) /\ w.enabled /\ w.taken = u.taken
  BY <1>4, <1>5 DEF Rose, Typed
<1>7. Exec(u, d, a) = Transition(w, BusWith(u), a)
  BY <1>2, <1>3
<1> HIDE DEF g, l
<1>8. /\ u.primary = LISTEN =>
           \/ /\ w.flags = l \union {"LISTENING"} /\ w.state = "PRE1"
              /\ w.clk = TRUE /\ w.data = FALSE
           \/ /\ w.flags = l /\ w.state = u.state
              /\ w.clk = TRUE /\ w.data = (l = {})
      /\ u.primary = TALK =>
           /\ w.flags = (g \ {"LISTENING"}) \union {"TALKING"}
           /\ w.state = "PRE0" /\ w.clk = u.clk /\ w.data = u.data
      /\ u.primary \notin {LISTEN, TALK} =>
           /\ w.flags = IF u.primary = UNLISTEN THEN g \ {"LISTENING"}
                        ELSE IF u.primary = UNTALK THEN l ELSE g
           /\ w.state = u.state
           /\ IF w.flags = {} THEN w.clk = TRUE /\ w.data = TRUE
                              ELSE w.clk = u.clk /\ w.data = u.data
  BY <1>4, <1>5
<1>9. g = Before(u) /\ l = BeforeTalk(u)
  BY DEF g, l, Before, BeforeTalk
<1>10. RoseTo(u, w, Exec(u, d, a), a)
  BY <1>6, <1>7, <1>8, <1>9 DEF RoseTo
<1> QED BY <1>10

LEMMA RisesSilent ==
    ASSUME NEW u, NEW w, NEW v, NEW a, RoseTo(u, w, v, a), w.flags = {},
           u.primary \notin {LISTEN, TALK}
    PROVE  Silent(v) /\ v.taken = u.taken
<1>1. w.clk /\ w.data /\ v = w
  BY DEF RoseTo, Transition
<1> QED BY <1>1 DEF RoseTo, Silent, With, Free

LEMMA RisesClosed ==
    ASSUME NEW u, Typed(u), Closed(u), cpu.atn, NEW d \in Nat, NEW a \in Answers
    PROVE  Silent(Exec(u, d, a)) /\ Exec(u, d, a).taken = u.taken
<1>1. CASE AddressedBy(u, UNLISTEN, {"LISTENING"})
  <2>1. Under(u, {"LISTENING"}) /\ u.primary = UNLISTEN /\ u.primary \notin {LISTEN, TALK}
    BY <1>1, BytesDiffer DEF AddressedBy
  <2>2. PICK w : RoseTo(u, w, Exec(u, d, a), a)
    BY <2>1, RisesTo
  <2>3. Before(u) \ {"LISTENING"} = {}
    BY <2>1 DEF Under, Before
  <2>4. w.flags = {}
    BY <2>1, <2>2, <2>3 DEF RoseTo
  <2> QED BY <2>1, <2>2, <2>4, RisesSilent
<1>2. CASE AddressedBy(u, UNTALK, {"TALKING"})
  <2>1. Under(u, {"TALKING"}) /\ u.primary = UNTALK /\ u.primary \notin {LISTEN, TALK}
        /\ u.primary # UNLISTEN
    BY <1>2, BytesDiffer DEF AddressedBy
  <2>2. PICK w : RoseTo(u, w, Exec(u, d, a), a)
    BY <2>1, RisesTo
  <2>3. BeforeTalk(u) = {}
    BY <2>1 DEF Under, Before, BeforeTalk
  <2>4. w.flags = {}
    BY <2>1, <2>2, <2>3 DEF RoseTo
  <2> QED BY <2>1, <2>2, <2>4, RisesSilent
<1> QED BY <1>1, <1>2 DEF Closed

LEMMA RisesStale ==
    ASSUME NEW u, Typed(u), Stale(u), cpu.atn, NEW d \in Nat, NEW a \in Answers
    PROVE  Silent(Exec(u, d, a)) /\ Exec(u, d, a).taken = u.taken
<1>0. Under(u, {}) /\ u.primary \notin {LISTEN, TALK, UNLISTEN, UNTALK} /\ Before(u) = {}
  BY BytesDiffer DEF Stale, Under, Before
<1>1. PICK w : RoseTo(u, w, Exec(u, d, a), a)
  BY <1>0, RisesTo
<1>2. w.flags = {}
  BY <1>0, <1>1 DEF RoseTo
<1> QED BY <1>0, <1>1, <1>2, RisesSilent

LEMMA RisesNotThere ==
    ASSUME NEW u, Typed(u), NotThere(u), cpu.atn, NEW d \in Nat, NEW a \in Answers
    PROVE  Deaf(Exec(u, d, a)) /\ Exec(u, d, a).taken = u.taken
<1>0. Under(u, {"LISTENING"}) /\ u.primary \notin {LISTEN, TALK, UNLISTEN, UNTALK}
      /\ Before(u) \subseteq {"LISTENING"} /\ u.state = "DONE0" /\ u.clk /\ u.data
  BY BytesDiffer DEF NotThere, Under, InState, Free, Before
<1> DEFINE v == Exec(u, d, a)
<1>1. PICK w : RoseTo(u, w, v, a)
  BY <1>0, RisesTo
<1>2. w.flags = Before(u) /\ w.state = "DONE0" /\ w.clk /\ w.data
  BY <1>0, <1>1 DEF RoseTo
<1> HIDE DEF v
<1>3. CASE w.flags = {}
  <2>1. Silent(v) /\ v.taken = u.taken
    BY <1>0, <1>1, <1>3, RisesSilent
  <2> QED BY <2>1 DEF v, Deaf
<1>4. CASE w.flags # {}
  <2>1. w.flags = {"LISTENING"}
    BY <1>0, <1>2, <1>4
  <2>2. v = Receive(w, BusWith(u), a) /\ Shape(w) /\ Level(w) /\ w.enabled /\ w.taken = u.taken
    BY <1>1, <2>1 DEF RoseTo, Transition
  <2>3. Stays(w, v)
    BY <1>2, <2>2, ReceiveDone
  <2>4. Level(v) /\ v.enabled /\ v.flags = {"LISTENING"} /\ v.state = "DONE0" /\ v.clk /\ v.data
        /\ v.taken = u.taken
    BY <1>2, <2>1, <2>2, <2>3, KeepLevel DEF Stays, Goes, Keep
  <2> QED BY <2>4 DEF Deaf, With, InState, Free, v
<1> QED BY <1>3, <1>4

LEMMA ListenerStays ==
    ASSUME NEW u, Typed(u), Listener(u), cpu.atn, ~ cpu.clk, NEW d \in Nat, NEW a
    PROVE  LET v == Exec(u, d, a)
           IN  Listener(v) /\ v.state = "PRE2" /\ v.taken = u.taken
<1> DEFINE v == Exec(u, d, a)
<1>1. Receiving(u) /\ ~ (cpu.clk /\ u.clk)
  BY DEF Receiving, Listener, With, Quiet
<1>2. Goes(u, v, "PRE2", u.bit, u.byte, Left(u, d), u.clk, u.data)
  BY <1>1, ReceivesPre DEF Listener
<1> HIDE DEF v
<1> QED BY <1>2, KeepLevel DEF Listener, With, HoldsData, Goes, Keep, v

LEMMA RisesListener ==
    ASSUME NEW u, Typed(u), AddressedBy(u, LISTEN, {"LISTENING"}), cpu.atn, ~ cpu.clk,
           NEW d \in Nat, NEW a \in Answers
    PROVE  LET v == Exec(u, d, a)
           IN  /\ (Listener(v) /\ v.state = "PRE2") \/ Silent(v)
               /\ v.taken = u.taken
<1> DEFINE v == Exec(u, d, a)
           l == BeforeTalk(u)
<1>0. Under(u, {"LISTENING"}) /\ u.primary = LISTEN /\ u.state = "PRE2" /\ HoldsData(u)
      /\ (l = {} \/ l = {"LISTENING"})
  BY DEF AddressedBy, Under, Before, BeforeTalk
<1>1. PICK w : RoseTo(u, w, v, a)
  BY <1>0, RisesTo
<1>2. \/ /\ w.flags = l \union {"LISTENING"} /\ w.state = "PRE1"
         /\ w.clk = TRUE /\ w.data = FALSE
      \/ /\ w.flags = l /\ w.state = u.state
         /\ w.clk = TRUE /\ w.data = (l = {})
  BY <1>0, <1>1 DEF RoseTo
<1>3. Shape(w) /\ Level(w) /\ w.enabled /\ w.taken = u.taken
      /\ v = Transition(w, BusWith(u), a)
  BY <1>1 DEF RoseTo
<1>4. ~ BusWith(u).clk
  BY DEF BusWith
<1> HIDE DEF v
<1>5. CASE w.flags = {}
  <2>1. v = w
    BY <1>3, <1>5 DEF Transition
  <2>2. w.clk /\ w.data
    BY <1>2, <1>5
  <2> QED BY <1>3, <1>5, <2>1, <2>2 DEF Silent, With, Free, v
<1>6. CASE w.flags # {}
  <2>1. w.flags = {"LISTENING"} /\ (w.state = "PRE1" \/ w.state = "PRE2")
        /\ w.clk = TRUE /\ w.data = FALSE
    <3>1. CASE l = {}
      BY <1>2, <1>6, <3>1
    <3>2. CASE l = {"LISTENING"}
      <4>1. l \union {"LISTENING"} = {"LISTENING"} /\ l # {}
        BY <3>2
      <4> HIDE DEF l
      <4> QED BY <1>0, <1>2, <3>2, <4>1
    <3> QED BY <1>0, <3>1, <3>2
  <2>2. v = Receive(w, BusWith(u), a)
    BY <1>3, <2>1 DEF Transition
  <2>3. CASE w.state = "PRE1"
    <3>1. Goes(w, v, "PRE2", w.bit, w.byte, w.timeout, w.clk, w.data)
      BY <1>3, <1>4, <2>2, <2>3, ReceivePre1
    <3> QED BY <1>3, <2>1, <3>1, KeepLevel
            DEF Listener, With, HoldsData, Goes, Keep, v
  <2>4. CASE w.state = "PRE2"
    <3>1. Goes(w, v, "PRE2", w.bit, w.byte, w.timeout, w.clk, w.data)
      BY <1>3, <1>4, <2>2, <2>4, ReceivePre2
    <3> QED BY <1>3, <2>1, <3>1, KeepLevel
            DEF Listener, With, HoldsData, Goes, Keep, v
  <2> QED BY <2>1, <2>3, <2>4
<1> QED BY <1>5, <1>6

\* Under ATN, or listening: one access that leaves the flags and the channel alone.
LEMMA GoesReceives ==
    ASSUME NEW u, NEW v, NEW m \in Messages, Keep(u, v)
    PROVE  /\ \A f : Under(u, f) => Under(v, f)
           /\ \A f : With(u, f) => With(v, f)
           /\ UnderAtn(u, m) => UnderAtn(v, m)
           /\ Receives(u, m) => Receives(v, m)
           /\ v.taken = u.taken /\ v.primary = u.primary /\ v.secondary = u.secondary
<1>1. Level(u) => Level(v)
  BY KeepLevel
<1>2. \A f : Under(u, f) => Under(v, f)
  BY <1>1 DEF Under, Keep
<1>3. \A f : With(u, f) => With(v, f)
  BY <1>1 DEF With, Keep
<1>4. UnderAtn(u, m) => UnderAtn(v, m)
  BY <1>2 DEF UnderAtn, Even, Keep
<1>5. Receives(u, m) => Receives(v, m)
  BY <1>3, <1>4 DEF Receives, Even, Keep
<1> QED BY <1>2, <1>3, <1>4, <1>5 DEF Keep

LEMMA ReceivesIs ==
    ASSUME NEW u, NEW m \in Messages, Receives(u, m), (cpu.atn <=> AtnOf(m))
    PROVE  Receiving(u)
<1>1. CASE m.kind = "data"
  BY <1>1 DEF Receives, With, AtnOf, Receiving, Quiet
<1>2. CASE m.kind # "data"
  BY <1>2 DEF Receives, UnderAtn, Under, AtnOf, Receiving, Quiet
<1> QED BY <1>1, <1>2

\* The lines as they are at the end of a waiting state.
LEMMA HoldsStays ==
    ASSUME NEW u, Typed(u), NEW m \in Messages, Receives(u, m), (cpu.atn <=> AtnOf(m)),
           ~ cpu.clk, HoldsData(u), u.state \in {"PRE1", "PRE2"}, NEW d, NEW a
    PROVE  Holds(Exec(u, d, a), m) /\ Exec(u, d, a).taken = u.taken
<1> DEFINE v == Exec(u, d, a)
<1>1. Receiving(u) /\ ~ (cpu.clk /\ u.clk)
  BY ReceivesIs
<1>2. Goes(u, v, "PRE2", u.bit, u.byte, Left(u, d), u.clk, u.data)
  BY <1>1, ReceivesPre
<1> HIDE DEF v
<1>3. v.state = "PRE2" /\ HoldsData(v) /\ Keep(u, v)
  BY <1>2 DEF Goes, HoldsData
<1> QED BY <1>3, GoesReceives DEF Holds, v

LEMMA AskedStays ==
    ASSUME NEW u, Typed(u), NEW m \in Messages, Asked(u, m), ~ cpu.atn, ~ cpu.clk,
           m.kind # "data", NEW d \in Nat, NEW a
    PROVE  LET v == Exec(u, d, a)
           IN  /\ Asked(v, m) /\ v.taken = u.taken
               /\ d >= Pre0 => Answers0(v, m)
<1> DEFINE v == Exec(u, d, a)
<1>1. Receives(u, m) /\ (cpu.atn <=> AtnOf(m)) /\ HoldsData(u)
  BY DEF Asked, Receives, AtnOf
<1>2. Receiving(u) /\ ~ (cpu.clk /\ u.clk)
  BY <1>1, ReceivesIs
<1>3. CASE u.state \in {"PRE1", "PRE2"}
  <2>1. Holds(v, m) /\ v.taken = u.taken
    BY <1>1, <1>3, HoldsStays
  <2> HIDE DEF v
  <2>2. UnderAtn(v, m) /\ v.state = "PRE2" /\ HoldsData(v)
    BY <2>1 DEF Holds, Receives
  <2> QED BY <2>1, <2>2 DEF Asked, Answers0, v
<1>4. CASE u.state = "PRE0"
  <2>0. m.kind \notin {"second", "turn"} /\ u.timeout <= Pre0 /\ Left(u, d) \in Nat
        /\ Left(u, d) <= u.timeout /\ u.timeout \in Nat /\ Pre0 \in Nat
        /\ (u.timeout <= d => Left(u, d) = 0)
    BY <1>4, LeftIs, TimesAre DEF Asked, Typed
  <2>1. /\ Left(u, d) = 0 => Goes(u, v, "PRE1", u.bit, u.byte, Left(u, d), u.clk, u.data)
        /\ Left(u, d) # 0 => Goes(u, v, "PRE0", u.bit, u.byte, Left(u, d), u.clk, u.data)
    BY <1>2, <1>4, ReceivesPre
  <2> HIDE DEF v
  <2>5. /\ Keep(u, v) /\ v.clk = u.clk /\ v.data = u.data /\ v.timeout = Left(u, d)
        /\ Left(u, d) = 0 => v.state = "PRE1"
        /\ Left(u, d) # 0 => v.state = "PRE0"
    BY <2>1 DEF Goes
  <2>6. HoldsData(v)
    BY <1>1, <2>5 DEF HoldsData
  <2>7. v.timeout <= Pre0
    BY <2>0, <2>5
  <2>2. /\ Keep(u, v) /\ HoldsData(v)
        /\ Left(u, d) = 0 => v.state = "PRE1"
        /\ Left(u, d) # 0 => v.state = "PRE0" /\ v.timeout <= Pre0
    BY <2>5, <2>6, <2>7
  <2>3. UnderAtn(v, m) /\ v.taken = u.taken
    BY <1>1, <2>2, GoesReceives DEF Asked
  <2>4. d >= Pre0 => Left(u, d) = 0
    BY <2>0
  <2> QED BY <2>0, <2>2, <2>3, <2>4 DEF Asked, Answers0, v
<1> QED BY <1>3, <1>4 DEF Asked

LEMMA FallsAsked ==
    ASSUME NEW u, Typed(u), NEW m \in Messages, With(u, {}) \/ With(u, OtherFlags(m)),
           ~ cpu.atn, m.kind \notin {"second", "turn", "data"}, Counts(m) => Even(u),
           NEW d, NEW a
    PROVE  Asked(Exec(u, d, a), m) /\ Exec(u, d, a).taken = u.taken
<1> DEFINE v == Exec(u, d, a)
<1>1. \E f \in {{}, OtherFlags(m)} : With(u, f) /\ "ATN" \notin f
  BY DEF OtherFlags
<1>2. \E f \in {{}, OtherFlags(m)} :
        /\ Under(v, f)
        /\ v.primary = NONE /\ v.secondary = NONE
        /\ v.state = "PRE0" /\ v.timeout = Pre0 /\ HoldsData(v) /\ v.taken = u.taken
  BY <1>1, Falls
<1> HIDE DEF v
<1>3. Under(v, OtherFlags(m))
  BY <1>2 DEF Under
<1>4. v.timeout <= Pre0
  BY <1>2, TimesAre
<1> QED BY <1>2, <1>3, <1>4 DEF Asked, UnderAtn, AddressBefore, Even, v

(* An access of the Kernal's, as the device sees it.                        *)
LEMMA LookedIs ==
    ASSUME TypeOK, Looked
    PROVE  \E a \in Answers : device' = Exec(device, 1, a) /\ Typed(device) /\ Typed(device')
<1>1. PICK a \in Answers : device' = Exec(device, 1, a)
  BY DEF Looked
<1>2. Typed(device) /\ Reads1(device)
  BY TypedIs DEF TypeOK
<1>3. Fine(device, Exec(device, 1, a))
  BY <1>2, ExecFine DEF TypeOK
<1> QED BY <1>1, <1>2, <1>3 DEF Fine

LEMMA StoredIs ==
    ASSUME TypeOK, NEW t \in {0, AckWait}, NEW same, Stored(t, same)
    PROVE  \E d, a, p :
             /\ d \in Nat /\ a \in Answers
             /\ t <= d /\ p = Exec(device, d, a) /\ Typed(device) /\ Typed(p)
             /\ (same => device' = p) /\ (~ same => device' = Exec(p, 0, a))
             /\ Typed(device')
<1>1. PICK d \in {t, Nmi}, a \in Answers :
        device' = IF same THEN Exec(device, d, a) ELSE Exec(Exec(device, d, a), 0, a)
  BY DEF Stored
<1>2. d \in Nat /\ t <= d
  BY TimesAre
<1> DEFINE p == Exec(device, d, a)
<1>3. Typed(device) /\ Reads1(device) /\ \E x, y, z \in BOOLEAN : cpu = Lines(x, y, z)
  BY TypedIs DEF TypeOK
<1>4. Fine(device, p)
  BY <1>2, <1>3, ExecFine
<1> HIDE DEF p
<1>5. Typed(p) /\ Reads1(p)
  BY <1>3, <1>4 DEF Fine
<1>6. Fine(p, Exec(p, 0, a))
  BY <1>3, <1>5, ExecFine
<1>7. Typed(Exec(p, 0, a))
  BY <1>6 DEF Fine
<1>8. device' = IF same THEN p ELSE Exec(p, 0, a)
  BY <1>1 DEF p
<1>9. Typed(device')
  BY <1>5, <1>7, <1>8
<1>10. p = Exec(device, d, a)
  BY DEF p
<1> QED BY <1>2, <1>3, <1>5, <1>8, <1>9, <1>10

\* However often and after whatever time.
Accessed ==
    \E d, a, p :
        /\ d \in Nat /\ a \in Answers
        /\ p = Exec(device, d, a) /\ Typed(device) /\ Typed(p)
        /\ device' = p \/ device' = Exec(p, 0, a)
LEMMA AccessedIs ==
    ASSUME TypeOK
    PROVE  /\ Looked => Accessed
           /\ \A t \in {0, AckWait} : \A same : Stored(t, same) => Accessed
<1>1. ASSUME Looked PROVE Accessed
  BY <1>1, LookedIs DEF Accessed
<1>2. ASSUME NEW t \in {0, AckWait}, NEW same, Stored(t, same) PROVE Accessed
  BY <1>2, StoredIs DEF Accessed
<1> QED BY <1>1, <1>2

LEMMA CalmAfter ==
    ASSUME Accessed, cpu.atn, NEW taken, taken = device.taken
    PROVE  /\ Silent(device) => Silent(device') /\ device'.taken = taken
           /\ Deaf(device) => Deaf(device') /\ device'.taken = taken
           /\ Calm(device) /\ cpu.clk => Calm(device') /\ device'.taken = taken
           /\ Listener(device) /\ ~ cpu.clk => Listener(device') /\ device'.taken = taken
<1>1. PICK d, a, p :
        /\ d \in Nat /\ a \in Answers
        /\ p = Exec(device, d, a) /\ Typed(device) /\ Typed(p)
        /\ device' = p \/ device' = Exec(p, 0, a)
  BY DEF Accessed
<1>2. Silent(device) => Silent(device') /\ device'.taken = taken
  BY <1>1, SilentStays
<1>3. Deaf(device) => Deaf(device') /\ device'.taken = taken
  BY <1>1, DeafStays
<1>4. Calm(device) /\ cpu.clk => Calm(device') /\ device'.taken = taken
  BY <1>1, CalmStays
<1>5. Listener(device) /\ ~ cpu.clk => Listener(device') /\ device'.taken = taken
  BY <1>1, ListenerStays
<1> QED BY <1>2, <1>3, <1>4, <1>5

Untaken == device'.taken = device.taken /\ sent' = sent

LEMMA LinesHigh ==
    \A a, c, d : cpu = Lines(a, c, d) => cpu.atn = a /\ cpu.clk = c /\ cpu.data = d
  BY LinesAre

LEMMA AtnLoNext ==
    ASSUME TypeOK, NEW m \in Messages, AtAtnLo(m), Kernal
    PROVE  AtAddress(m)' /\ Untaken
<1>1. Is(code, StoreOf([atn |-> FALSE], 0), FromAddress(m)) /\ cpu = Lines(TRUE, TRUE, TRUE)
      /\ Calm(device) /\ Even(device) /\ m.kind \in Opening /\ CallsAfter(m)
  BY FromSendIs, StoreIs DEF AtAtnLo
<1>2. cpu' = Lines(FALSE, TRUE, TRUE) /\ Stored(0, TRUE = FALSE) /\ code' = FromAddress(m)
      /\ Rests
  BY <1>1, AtnMoves
<1>3. Calm(device') /\ device'.taken = device.taken
  BY <1>1, <1>2, AccessedIs, CalmAfter, LinesHigh
<1>4. CallsAfter(m)'
  BY <1>1, <1>2 DEF CallsAfter, Rests, ReadsNext
<1>5. Even(device)'
  BY <1>1, <1>2, <1>3 DEF Even, Rests
<1>6. Silent(device') \/ With(device', {"LISTENING"})
  BY <1>3 DEF Calm, Deaf
<1>7. AtAddress(m)'
  BY <1>1, <1>2, <1>4, <1>5, <1>6 DEF AtAddress, Opening
<1> QED BY <1>2, <1>3, <1>7 DEF Untaken, Rests

LEMMA DoneStays ==
    ASSUME NEW u, Typed(u), Receiving(u), u.state = "DONE0", NEW d, NEW a
    PROVE  Keep(u, Exec(u, d, a)) /\ Exec(u, d, a).state = "DONE0"
           /\ Exec(u, d, a).clk = u.clk /\ Exec(u, d, a).data = u.data
<1> DEFINE v == Exec(u, d, a)
<1>1. PICK w : /\ Goes(u, w, u.state, u.bit, u.byte, Left(u, d), u.clk, u.data)
               /\ Shape(w) /\ v = Receive(w, BusWith(u), a)
  BY ReceiveAfter DEF Receiving
<1> HIDE DEF v
<1>2. w.state = "DONE0"
  BY <1>1 DEF Goes
<1>3. Goes(w, v, w.state, w.bit, w.byte, w.timeout, w.clk, w.data)
  BY <1>1, <1>2, ReceiveDone DEF Stays
<1>4. Keep(u, v)
  BY <1>1, <1>3, KeepTwice DEF Goes
<1> QED BY <1>1, <1>3, <1>4 DEF Goes, v

LEMMA AddressedStays ==
    ASSUME NEW u, Typed(u), ~ cpu.atn, ~ cpu.clk, NEW d, NEW a
    PROVE  LET v == Exec(u, d, a)
           IN  /\ \A q, f : AddressedBy(u, q, f) => AddressedBy(v, q, f) /\ v.taken = u.taken
               /\ NotThere(u) => NotThere(v) /\ v.taken = u.taken
<1> DEFINE v == Exec(u, d, a)
<1>1. \A f : Under(u, f) => Receiving(u)
  BY DEF Under, Receiving, Quiet
<1>2. ASSUME NEW q, NEW f, AddressedBy(u, q, f)
      PROVE  AddressedBy(v, q, f) /\ v.taken = u.taken
  <2>1. Receiving(u) /\ ~ (cpu.clk /\ u.clk) /\ u.state = "PRE2"
    BY <1>1, <1>2 DEF AddressedBy
  <2>2. Goes(u, v, "PRE2", u.bit, u.byte, Left(u, d), u.clk, u.data)
    BY <2>1, ReceivesPre
  <2> HIDE DEF v
  <2>3. Keep(u, v) /\ Level(u) => Level(v)
    BY KeepLevel
  <2> QED BY <1>2, <2>2, <2>3 DEF AddressedBy, Under, HoldsData, Goes, Keep
<1>3. ASSUME NotThere(u)
      PROVE  NotThere(v) /\ v.taken = u.taken
  <2>1. Receiving(u) /\ u.state = "DONE0"
    BY <1>1, <1>3 DEF NotThere, InState
  <2>2. Keep(u, v) /\ v.state = "DONE0" /\ v.clk = u.clk /\ v.data = u.data
    BY <2>1, DoneStays
  <2> HIDE DEF v
  <2>3. Level(u) => Level(v)
    BY <2>2, KeepLevel
  <2> QED BY <1>3, <2>2, <2>3 DEF NotThere, Under, InState, Free, Keep
<1> QED BY <1>2, <1>3

LEMMA AddressedAfter ==
    ASSUME Accessed, ~ cpu.atn, ~ cpu.clk, NEW taken, taken = device.taken
    PROVE  /\ \A q, f : AddressedBy(device, q, f) =>
                            AddressedBy(device', q, f) /\ device'.taken = taken
           /\ NotThere(device) => NotThere(device') /\ device'.taken = taken
<1>1. PICK d, a, p :
        /\ d \in Nat /\ a \in Answers
        /\ p = Exec(device, d, a) /\ Typed(device) /\ Typed(p)
        /\ device' = p \/ device' = Exec(p, 0, a)
  BY DEF Accessed
<1>2. /\ \A q, f : AddressedBy(device, q, f) => AddressedBy(p, q, f) /\ p.taken = taken
      /\ NotThere(device) => NotThere(p) /\ p.taken = taken
  BY <1>1, AddressedStays
<1> DEFINE v == Exec(p, 0, a)
<1>3. /\ \A q, f : AddressedBy(p, q, f) => AddressedBy(v, q, f) /\ v.taken = p.taken
      /\ NotThere(p) => NotThere(v) /\ v.taken = p.taken
  BY <1>1, AddressedStays
<1> HIDE DEF v
<1>4. device' = p \/ device' = v
  BY <1>1 DEF v
<1> QED BY <1>2, <1>3, <1>4

LEMMA HoldsAfter ==
    ASSUME Accessed, NEW m \in Messages, (cpu.atn <=> AtnOf(m)), ~ cpu.clk, Holds(device, m)
    PROVE  Holds(device', m) /\ device'.taken = device.taken
<1>1. PICK d, a, p :
        /\ d \in Nat /\ a \in Answers
        /\ p = Exec(device, d, a) /\ Typed(device) /\ Typed(p)
        /\ device' = p \/ device' = Exec(p, 0, a)
  BY DEF Accessed
<1>2. Holds(p, m) /\ p.taken = device.taken
  BY <1>1, HoldsStays DEF Holds
<1>3. Holds(Exec(p, 0, a), m) /\ Exec(p, 0, a).taken = p.taken
  BY <1>1, <1>2, HoldsStays DEF Holds
<1> QED BY <1>1, <1>2, <1>3

\* ATN has risen.
LEMMA RisesAfter ==
    ASSUME Accessed, cpu.atn, NEW taken, taken = device.taken
    PROVE  /\ Closed(device) => Silent(device') /\ device'.taken = taken
           /\ Stale(device) => Silent(device') /\ device'.taken = taken
           /\ NotThere(device) => Deaf(device') /\ device'.taken = taken
           /\ AddressedBy(device, LISTEN, {"LISTENING"}) /\ ~ cpu.clk =>
                /\ (Listener(device') /\ device'.state = "PRE2") \/ Silent(device')
                /\ device'.taken = taken
<1>1. PICK d, a, p :
        /\ d \in Nat /\ a \in Answers
        /\ p = Exec(device, d, a) /\ Typed(device) /\ Typed(p)
        /\ device' = p \/ device' = Exec(p, 0, a)
  BY DEF Accessed
<1>2. /\ Closed(device) => Silent(p) /\ p.taken = taken
      /\ Stale(device) => Silent(p) /\ p.taken = taken
      /\ NotThere(device) => Deaf(p) /\ p.taken = taken
      /\ AddressedBy(device, LISTEN, {"LISTENING"}) /\ ~ cpu.clk =>
           /\ (Listener(p) /\ p.state = "PRE2") \/ Silent(p)
           /\ p.taken = taken
  BY <1>1, RisesClosed, RisesStale, RisesNotThere, RisesListener
<1> DEFINE v == Exec(p, 0, a)
<1>3. /\ Silent(p) => Silent(v) /\ v.taken = p.taken
      /\ Deaf(p) => Deaf(v) /\ v.taken = p.taken
      /\ Listener(p) /\ ~ cpu.clk => Listener(v) /\ v.state = "PRE2" /\ v.taken = p.taken
  BY <1>1, SilentStays, DeafStays, ListenerStays
<1> HIDE DEF v
<1>4. device' = p \/ device' = v
  BY <1>1 DEF v
<1> QED BY <1>2, <1>3, <1>4

LEMMA RisesTurning ==
    ASSUME NEW u, Typed(u), Turning(u), cpu.atn, ~ cpu.clk, NEW d \in Nat, NEW a \in Answers
    PROVE  LET v == Exec(u, d, a)
           IN  With(v, {"TALKING"}) /\ v.state = "PRE0" /\ HoldsData(v) /\ v.taken = u.taken
<1> DEFINE v == Exec(u, d, a)
<1>0. Under(u, {"LISTENING"}) /\ u.primary = TALK /\ u.clk /\ ~ u.data
      /\ (Before(u) \ {"LISTENING"}) \union {"TALKING"} = {"TALKING"}
  BY DEF Turning, AddressedBy, HoldsData, Under, Before
<1>1. PICK w : RoseTo(u, w, v, a)
  BY <1>0, RisesTo
<1>2. w.flags = {"TALKING"} /\ w.state = "PRE0" /\ w.clk = u.clk /\ w.data = u.data
      /\ Shape(w) /\ Level(w) /\ w.enabled /\ w.taken = u.taken
      /\ v = Transition(w, BusWith(u), a)
  BY <1>0, <1>1 DEF RoseTo
<1>3. ~ BusWith(u).clk
  BY DEF BusWith
<1> HIDE DEF v
<1>4. v = Send(w, BusWith(u))
  BY <1>2 DEF Transition
<1>5. Goes(w, v, "PRE0", w.bit, w.byte, w.timeout, w.clk, w.data)
  BY <1>2, <1>3, <1>4, SendPre0
<1> QED BY <1>0, <1>2, <1>5, KeepLevel DEF With, HoldsData, Goes, Keep, v

(* Talking and listening, with nothing in hand.                             *)
OnAs(u, v) ==
    /\ With(v, {"TALKING"}) /\ v.taken = u.taken
    /\ v.mode = u.mode /\ v.pos = u.pos /\ v.file = u.file
LEMMA KeepWith ==
    ASSUME NEW u, NEW v, Keep(u, v)
    PROVE  /\ \A f : With(u, f) => With(v, f)
           /\ With(u, {"TALKING"}) => OnAs(u, v)
           /\ v.taken = u.taken
  BY KeepLevel DEF With, Keep, OnAs

LEMMA WaitsMoves ==
    ASSUME NEW u, Typed(u), With(u, {"TALKING"}), Waits4(u), cpu.atn,
           ~ cpu.data \/ (u.state = "PRE1" => u.timeout = 0), NEW d \in Nat, NEW a
    PROVE  LET v == Exec(u, d, a)
           IN  \/ /\ OnAs(u, v) /\ Waits4(v)
                  /\ v.state = "PRE1" /\ v.timeout # 0 => u.state = "PRE1" /\ u.timeout # 0
               \/ Silent(v) /\ v.taken = u.taken
               \/ /\ u.state = "READY" /\ cpu.data
                  /\ u.mode = "read" /\ u.pos < Len(u.file)
<1> DEFINE v == Exec(u, d, a)
           t == Left(u, d)
<1>0. Sends(u) /\ With(u, {"TALKING"}) /\ u.timeout \in Nat /\ t \in Nat /\ t <= u.timeout
      /\ (u.timeout = 0 => t = 0) /\ Err \in Nat /\ Level(u) /\ u.enabled
  BY LeftIs, TimesAre DEF Sends, With, Typed
<1>1. CASE u.state = "PRE1" /\ HoldsClk(u)
  <2>1. CASE t = 0
    <3>1. Goes(u, v, "READY", u.bit, u.byte, 0, TRUE, TRUE)
      BY <1>0, <1>1, <2>1, SendsPre
    <3> HIDE DEF v
    <3>2. Keep(u, v) /\ v.state = "READY" /\ v.clk /\ v.data
      BY <3>1 DEF Goes
    <3> QED BY <3>2, KeepWith DEF Waits4, InState, Free, v
  <2>2. CASE t # 0
    <3>0. ~ cpu.data
      BY <1>0, <1>1, <2>2
    <3>1. Goes(u, v, "PRE1", u.bit, u.byte, t, u.clk, u.data)
      BY <1>0, <1>1, <2>2, <3>0, SendsPre
    <3> HIDE DEF v
    <3>2. Keep(u, v) /\ v.state = "PRE1" /\ HoldsClk(v) /\ u.timeout # 0
      BY <1>0, <1>1, <2>2, <3>1 DEF Goes, HoldsClk
    <3> QED BY <1>1, <3>2, KeepWith DEF Waits4, v
  <2> QED BY <2>1, <2>2
<1>2. CASE InState(u, "READY")
  <2>1. CASE cpu.data
    <3>0. u.clk /\ u.data /\ u.state = "READY"
      BY <1>2 DEF InState, Free
    <3>1. CASE u.mode = "read" /\ u.pos < Len(u.file)
      BY <2>1, <3>0, <3>1
    <3>2. CASE ~ (u.mode = "read" /\ u.pos < Len(u.file))
      <4>1. /\ v.enabled = u.enabled /\ v.mode = u.mode /\ v.file = u.file
            /\ v.taken = u.taken /\ v.got = u.got /\ v.lossy = u.lossy
            /\ v.clk = u.clk /\ v.data = u.data /\ v.pos = u.pos /\ v.flags = {}
        <5>1. Sends(u) /\ (cpu.data /\ u.data)
              /\ (u.state = "READY" \/ (u.state = "PRE1" /\ Left(u, d) # 0))
          BY <1>0, <2>1, <3>0
        <5>2. /\ v.enabled = u.enabled /\ v.mode = u.mode /\ v.file = u.file
              /\ v.taken = u.taken /\ v.got = u.got /\ v.lossy = u.lossy
              /\ v.clk = u.clk /\ v.data = u.data
              /\ IF u.mode = "read" /\ u.pos < Len(u.file)
                 THEN /\ v.byte = u.file[u.pos + 1] /\ v.pos = u.pos + 1
                      /\ v.flags = u.flags
                      /\ IF u.pos + 1 = Len(u.file)
                         THEN v.st = EOF /\ v.state = "EOI"
                         ELSE /\ v.st = OK /\ v.state = "BIT" /\ v.bit = 0
                              /\ v.timeout = 0
                 ELSE v.pos = u.pos /\ v.flags = {}
          BY <5>1, SendsNext
        <5> HIDE DEF v
        <5> QED BY <3>2, <5>2
      <4> HIDE DEF v
      <4>2. Level(v)
        BY <1>0, <4>1 DEF Level, GotRight
      <4> QED BY <1>0, <3>0, <4>1, <4>2 DEF Silent, With, Free, v
    <3> QED BY <3>1, <3>2
  <2>2. CASE ~ cpu.data
    <3>1. Goes(u, v, "READY", u.bit, u.byte, t, u.clk, u.data)
      BY <1>0, <1>2, <2>2, SendsPre DEF InState
    <3> HIDE DEF v
    <3>2. Keep(u, v) /\ InState(v, "READY")
      BY <1>2, <3>1 DEF Goes, InState, Free
    <3>3. v.state # "PRE1"
      BY <3>2 DEF InState
    <3> QED BY <3>2, <3>3, KeepWith DEF Waits4, v
  <2> QED BY <2>1, <2>2
<1>3. CASE u.state = "DONE1" /\ HoldsClk(u)
  <2>1. CASE cpu.data
    <3>0. cpu.data /\ u.data
      BY <1>3, <2>1 DEF HoldsClk
    <3>1. /\ t = 0 => Goes(u, v, "FRAMEERR0", u.bit, u.byte, Err, TRUE, TRUE)
          /\ t # 0 => Goes(u, v, "DONE1", u.bit, u.byte, t, u.clk, u.data)
      BY <1>0, <1>3, <3>0, SendsDone
    <3> HIDE DEF v
    <3>2. /\ Keep(u, v)
          /\ t = 0 => v.state = "FRAMEERR0" /\ v.timeout = Err /\ v.clk /\ v.data
          /\ t # 0 => v.state = "DONE1" /\ v.clk = u.clk /\ v.data = u.data
      BY <3>1 DEF Goes
    <3>4. CASE t = 0
      <4>1. InState(v, "FRAMEERR0") /\ v.timeout <= Err
        BY <1>0, <3>2, <3>4 DEF InState, Free
      <4> QED BY <3>2, <3>4, <4>1, KeepWith DEF Waits4, v
    <3>5. CASE t # 0
      <4>1. v.state = "DONE1" /\ HoldsClk(v)
        BY <1>3, <3>2, <3>5 DEF HoldsClk
      <4> QED BY <3>2, <4>1, KeepWith DEF Waits4, v
    <3> QED BY <3>4, <3>5
  <2>2. CASE ~ cpu.data
    <3>1. /\ v.enabled = u.enabled /\ v.mode = u.mode /\ v.file = u.file
          /\ v.pos = u.pos /\ v.taken = u.taken /\ v.got = u.got
          /\ v.lossy = u.lossy
          /\ IF u.st = EOF
             THEN v.flags = {} /\ v.clk /\ v.data
             ELSE /\ v.flags = {"TALKING"} /\ v.state = "PRE1" /\ v.timeout = 0
                  /\ v.clk = u.clk /\ v.data = u.data
      <4>1. Sends(u) /\ ~ (cpu.data /\ u.data) /\ u.state = "DONE1"
        BY <1>0, <1>3, <2>2
      <4> QED BY <4>1, SendsAcknowledged
    <3> HIDE DEF v
    <3>2. Level(v)
      BY <1>0, <3>1 DEF Level, GotRight
    <3>3. CASE u.st = EOF
      BY <1>0, <3>1, <3>2, <3>3 DEF Silent, With, Free, v
    <3>4. CASE u.st # EOF
      <4>1. v.state = "PRE1" /\ v.timeout = 0 /\ HoldsClk(v)
        BY <1>3, <3>1, <3>4 DEF HoldsClk
      <4>2. OnAs(u, v)
        BY <1>0, <3>1, <3>2, <3>4 DEF OnAs, With
      <4> QED BY <4>1, <4>2 DEF Waits4, v
    <3> QED BY <3>3, <3>4
  <2> QED BY <2>1, <2>2
<1>4. CASE InState(u, "FRAMEERR0") /\ u.timeout <= Err
  <2>1. /\ t = 0 => Goes(u, v, "FRAMEERR1", u.bit, u.byte, 0, FALSE, TRUE)
        /\ t # 0 => Goes(u, v, "FRAMEERR0", u.bit, u.byte, t, u.clk, u.data)
    BY <1>0, <1>4, SendsDone DEF InState
  <2> HIDE DEF v
  <2>2. /\ Keep(u, v)
        /\ t = 0 => v.state = "FRAMEERR1" /\ ~ v.clk /\ v.data
        /\ t # 0 => v.state = "FRAMEERR0" /\ v.timeout = t /\ v.clk = u.clk /\ v.data = u.data
    BY <2>1 DEF Goes
  <2>3. t <= Err
    BY <1>0, <1>4
  <2>4. Waits4(v) /\ v.state # "PRE1"
    BY <1>4, <2>2, <2>3 DEF Waits4, InState, Free, HoldsClk
  <2> QED BY <2>2, <2>4, KeepWith DEF v
<1>5. CASE u.state = "FRAMEERR1" /\ HoldsClk(u)
  <2>1. /\ ~ (cpu.data /\ u.data) => Goes(u, v, "PRE1", u.bit, u.byte, 0, u.clk, u.data)
        /\ cpu.data /\ u.data => Goes(u, v, "FRAMEERR1", u.bit, u.byte, t, u.clk, u.data)
    BY <1>0, <1>5, SendsDone
  <2> HIDE DEF v
  <2>2. /\ Keep(u, v) /\ v.clk = u.clk /\ v.data = u.data
        /\ (v.state = "PRE1" /\ v.timeout = 0) \/ v.state = "FRAMEERR1"
    BY <2>1 DEF Goes
  <2>3. Waits4(v)
    BY <1>5, <2>2 DEF Waits4, HoldsClk
  <2> QED BY <2>2, <2>3, KeepWith DEF v
<1> QED BY <1>1, <1>2, <1>3, <1>4, <1>5 DEF Waits4

LEMMA TalkerStays ==
    ASSUME NEW u, Typed(u), cpu.atn, NEW d \in Nat, NEW a
    PROVE  LET v == Exec(u, d, a)
           IN  /\ Talker(u) /\ ~ cpu.data => Talker(v) /\ v.taken = u.taken
               /\ Exhausted(u) => Exhausted(v) /\ v.taken = u.taken
<1> DEFINE v == Exec(u, d, a)
<1>1. Silent(u) => Silent(v) /\ v.taken = u.taken
  BY SilentStays
<1>2. ASSUME With(u, {"TALKING"}), Waits4(u),
             ~ cpu.data \/ (u.state = "PRE1" => u.timeout = 0)
      PROVE  \/ /\ OnAs(u, v) /\ Waits4(v)
                /\ v.state = "PRE1" /\ v.timeout # 0 => u.state = "PRE1" /\ u.timeout # 0
             \/ Silent(v) /\ v.taken = u.taken
             \/ /\ u.state = "READY" /\ cpu.data
                /\ u.mode = "read" /\ u.pos < Len(u.file)
  BY <1>2, WaitsMoves
<1> HIDE DEF v
<1>3. Talker(u) /\ ~ cpu.data => Talker(v) /\ v.taken = u.taken
  BY <1>1, <1>2 DEF Talker, OnAs
<1>4. u.mode = "read" /\ u.pos = Len(u.file) => ~ u.pos < Len(u.file)
  BY DEF Typed
<1>5. Exhausted(u) => Exhausted(v) /\ v.taken = u.taken
  BY <1>1, <1>2, <1>4 DEF Exhausted, OnAs
<1> QED BY <1>3, <1>5 DEF v

LEMMA TalkerAfter ==
    ASSUME Accessed, cpu.atn, NEW taken, taken = device.taken
    PROVE  /\ Talker(device) /\ ~ cpu.data => Talker(device') /\ device'.taken = taken
           /\ Exhausted(device) => Exhausted(device') /\ device'.taken = taken
<1>1. PICK d, a, p :
        /\ d \in Nat /\ a \in Answers
        /\ p = Exec(device, d, a) /\ Typed(device) /\ Typed(p)
        /\ device' = p \/ device' = Exec(p, 0, a)
  BY DEF Accessed
<1>2. /\ Talker(device) /\ ~ cpu.data => Talker(p) /\ p.taken = taken
      /\ Exhausted(device) => Exhausted(p) /\ p.taken = taken
  BY <1>1, TalkerStays
<1> DEFINE v == Exec(p, 0, a)
<1>3. /\ Talker(p) /\ ~ cpu.data => Talker(v) /\ v.taken = p.taken
      /\ Exhausted(p) => Exhausted(v) /\ v.taken = p.taken
  BY <1>1, TalkerStays
<1> HIDE DEF v
<1>4. device' = p \/ device' = v
  BY <1>1 DEF v
<1> QED BY <1>2, <1>3, <1>4

(* Asked for its attention.                                                 *)
LEMMA AskedAfter ==
    ASSUME Accessed, NEW m \in Messages, ~ cpu.atn, ~ cpu.clk, m.kind # "data",
           Asked(device, m)
    PROVE  Asked(device', m) /\ device'.taken = device.taken
<1>1. PICK d, a, p :
        /\ d \in Nat /\ a \in Answers
        /\ p = Exec(device, d, a) /\ Typed(device) /\ Typed(p)
        /\ device' = p \/ device' = Exec(p, 0, a)
  BY DEF Accessed
<1>2. Asked(p, m) /\ p.taken = device.taken
  BY <1>1, AskedStays
<1>3. Asked(Exec(p, 0, a), m) /\ Exec(p, 0, a).taken = p.taken
  BY <1>1, <1>2, AskedStays
<1> QED BY <1>1, <1>2, <1>3

LEMMA AskedAgain ==
    ASSUME NEW u, Typed(u), NEW m \in Messages, Asked(u, m), u.timeout = Pre0 \/ ~ cpu.clk,
           ~ cpu.atn, m.kind # "data", u.state = "PRE0" \/ ~ cpu.clk, NEW a
    PROVE  Asked(Exec(u, 0, a), m) /\ Exec(u, 0, a).taken = u.taken
<1>1. CASE ~ cpu.clk
  BY <1>1, AskedStays
<1>2. CASE cpu.clk
  <2> DEFINE v == Exec(u, 0, a)
  <2>1. UnderAtn(u, m) /\ HoldsData(u) /\ u.state = "PRE0" /\ u.timeout = Pre0
        /\ m.kind \notin {"second", "turn"}
    BY <1>2 DEF Asked
  <2>2. Receives(u, m) /\ (cpu.atn <=> AtnOf(m))
    BY <2>1 DEF Receives, AtnOf
  <2>3. Receiving(u)
    BY <2>2, ReceivesIs
  <2>4. Left(u, 0) = Pre0 /\ Pre0 # 0 /\ Pre0 <= Pre0
    BY <2>1, LeftIs, TimesAre
  <2>5. Goes(u, v, "PRE0", u.bit, u.byte, Left(u, 0), u.clk, u.data)
    BY <2>1, <2>3, <2>4, ReceivesPre
  <2> HIDE DEF v
  <2>6. Keep(u, v) /\ v.state = "PRE0" /\ v.timeout = Pre0 /\ HoldsData(v)
    BY <2>1, <2>4, <2>5 DEF Goes, HoldsData
  <2>7. UnderAtn(v, m) /\ v.taken = u.taken
    BY <2>1, <2>6, GoesReceives
  <2> QED BY <2>1, <2>4, <2>6, <2>7 DEF Asked, v
<1> QED BY <1>1, <1>2

LEMMA FallsAskedAfter ==
    ASSUME Accessed, NEW m \in Messages, ~ cpu.atn,
           m.kind \notin {"second", "turn", "data"}, Counts(m) => Even(device),
           With(device, {}) \/ With(device, OtherFlags(m))
    PROVE  Asked(device', m) /\ device'.taken = device.taken
<1>1. PICK d, a, p :
        /\ d \in Nat /\ a \in Answers
        /\ p = Exec(device, d, a) /\ Typed(device) /\ Typed(p)
        /\ device' = p \/ device' = Exec(p, 0, a)
  BY DEF Accessed
<1>2. Asked(p, m) /\ p.state = "PRE0" /\ p.timeout = Pre0 /\ p.taken = device.taken
  <2>1. \E f \in {{}, OtherFlags(m)} : With(device, f) /\ "ATN" \notin f
    BY DEF OtherFlags
  <2>2. p.state = "PRE0" /\ p.timeout = Pre0
    BY <1>1, <2>1, Falls
  <2> QED BY <1>1, <2>2, FallsAsked
<1>3. Asked(Exec(p, 0, a), m) /\ Exec(p, 0, a).taken = p.taken
  BY <1>1, <1>2, AskedAgain
<1> QED BY <1>1, <1>2, <1>3

(* Listening, at the end of the Kernal's routine.                           *)
LEMMA ListenerMoves ==
    ASSUME NEW u, Typed(u), With(u, {"LISTENING"}), u.clk, cpu.atn, cpu.clk,
           NEW d \in Nat, NEW a
    PROVE  LET v == Exec(u, d, a)
           IN  /\ u.state \in {"PRE1", "PRE2", "READY"} =>
                    /\ With(v, {"LISTENING"}) /\ v.clk /\ v.taken = u.taken
                    /\ v.state \in {"PRE1", "READY", "EOI"}
               /\ u.state = "EOI" => With(v, {"LISTENING"}) /\ v.taken = u.taken
               /\ InBit(u, "BIT", 0) =>
                    /\ With(v, {"LISTENING"}) /\ InBit(v, "BITw", 0) /\ v.taken = u.taken
<1> DEFINE v == Exec(u, d, a)
           t == Left(u, d)
<1>0. Receiving(u) /\ (cpu.clk /\ u.clk) /\ "ATN" \notin u.flags
  BY DEF With, Receiving, Quiet
<1>1. /\ u.state = "PRE1" => Goes(u, v, "PRE1", u.bit, u.byte, t, u.clk, u.data)
      /\ u.state = "PRE2" => Goes(u, v, "READY", u.bit, u.byte, Ready, TRUE, TRUE)
  BY <1>0, ReceivesPre
<1>2. /\ u.state = "READY" /\ t # 0 => Goes(u, v, "READY", u.bit, u.byte, t, u.clk, u.data)
      /\ u.state = "READY" /\ t = 0 => Goes(u, v, "EOI", u.bit, u.byte, Ack, TRUE, FALSE)
      /\ u.state = "EOI" /\ t # 0 => Goes(u, v, "EOI", u.bit, u.byte, t, u.clk, u.data)
      /\ u.state = "EOI" /\ t = 0 => Goes(u, v, "EOIw", u.bit, u.byte, 0, TRUE, TRUE)
  BY <1>0, ReceivesFrom
<1>3. u.state = "BIT" => Goes(u, v, "BITw", u.bit,
                              WithBit(u.byte, u.bit, (cpu.data /\ u.data)), t, u.clk, u.data)
  BY <1>0, ReceivesBits
<1> HIDE DEF v, t
<1>4. u.state \in {"PRE1", "PRE2", "READY"} =>
        Keep(u, v) /\ v.clk /\ v.state \in {"PRE1", "READY", "EOI"}
  BY <1>0, <1>1, <1>2 DEF Goes
<1>5. u.state = "EOI" => Keep(u, v)
  BY <1>2 DEF Goes
<1>6. u.state = "BIT" =>
        Keep(u, v) /\ v.state = "BITw" /\ v.bit = u.bit /\ v.clk = u.clk /\ v.data = u.data
  BY <1>3 DEF Goes
<1> QED BY <1>4, <1>5, <1>6, KeepWith DEF InBit, InState, Free, v

LEMMA ListenerAfter ==
    ASSUME Accessed, cpu.atn, cpu.clk, Listener(device)
    PROVE  With(device', {"LISTENING"}) /\ device'.taken = device.taken
<1>1. PICK d, a, p :
        /\ d \in Nat /\ a \in Answers
        /\ p = Exec(device, d, a) /\ Typed(device) /\ Typed(p)
        /\ device' = p \/ device' = Exec(p, 0, a)
  BY DEF Accessed
<1>2. With(device, {"LISTENING"}) /\ device.clk /\ device.state \in {"PRE1", "PRE2", "READY"}
  BY DEF Listener, HoldsData
<1>3. /\ With(p, {"LISTENING"}) /\ p.clk /\ p.taken = device.taken
      /\ p.state \in {"PRE1", "READY", "EOI"}
  BY <1>1, <1>2, ListenerMoves
<1> DEFINE v == Exec(p, 0, a)
<1>4. /\ p.state \in {"PRE1", "PRE2", "READY"} => With(v, {"LISTENING"}) /\ v.taken = p.taken
      /\ p.state = "EOI" => With(v, {"LISTENING"}) /\ v.taken = p.taken
  BY <1>1, <1>3, ListenerMoves
<1> HIDE DEF v
<1>5. device' = p \/ device' = v
  BY <1>1 DEF v
<1> QED BY <1>3, <1>4, <1>5

LEMMA SlipsMoves ==
    ASSUME NEW u, Typed(u), Slips(u), cpu.atn, ~ cpu.clk, NEW d \in Nat, NEW a
    PROVE  LET v == Exec(u, d, a)
           IN  /\ Slips(v) /\ v.taken = u.taken
               /\ d >= Ack => v.state # "EOI"
               /\ u.state # "EOI" => v.state = "BIT"
<1> DEFINE v == Exec(u, d, a)
           t == Left(u, d)
<1>4. Receiving(u) /\ ~ (cpu.clk /\ u.clk) /\ With(u, {"LISTENING"})
  BY DEF Slips, With, Receiving, Quiet
<1>5. /\ t \in Nat /\ t <= u.timeout /\ u.timeout \in Nat /\ Ack \in Nat
      /\ u.timeout <= d => t = 0
  BY LeftIs, TimesAre DEF Typed
<1>0. Receiving(u) /\ ~ (cpu.clk /\ u.clk) /\ With(u, {"LISTENING"})
      /\ t \in Nat /\ t <= u.timeout /\ u.timeout \in Nat /\ Ack \in Nat
      /\ (u.timeout <= d => t = 0)
  BY <1>4, <1>5
<1>1. CASE u.state = "EOI" /\ HoldsData(u) /\ u.timeout <= Ack
  <2>1. /\ t # 0 => Goes(u, v, "EOI", u.bit, u.byte, t, u.clk, u.data)
        /\ t = 0 => Goes(u, v, "EOIw", u.bit, u.byte, 0, TRUE, TRUE)
    BY <1>0, <1>1, ReceivesFrom
  <2> HIDE DEF v, t
  <2>2. /\ Keep(u, v)
        /\ t # 0 => v.state = "EOI" /\ v.timeout = t /\ v.clk = u.clk /\ v.data = u.data
        /\ t = 0 => v.state = "EOIw" /\ v.clk /\ v.data
    BY <2>1 DEF Goes
  <2>3. t <= Ack /\ (d >= Ack => t = 0)
    BY <1>0, <1>1
  <2>4. With(v, {"LISTENING"}) /\ v.taken = u.taken
    BY <1>0, <2>2, KeepWith
  <2>5. Slips(v)
    BY <1>1, <2>2, <2>3, <2>4 DEF Slips, HoldsData, InState, Free
  <2> QED BY <1>1, <2>2, <2>3, <2>4, <2>5 DEF v
<1>2. CASE InState(u, "EOIw")
  <2>1. Goes(u, v, "BIT", 0, u.byte, t, u.clk, u.data)
    BY <1>0, <1>2, ReceivesFrom DEF InState
  <2> HIDE DEF v, t
  <2>2. Keep(u, v) /\ InBit(v, "BIT", 0)
    BY <1>2, <2>1 DEF Goes, InState, InBit, Free
  <2>3. With(v, {"LISTENING"}) /\ v.taken = u.taken /\ v.state = "BIT"
    BY <1>0, <2>2, KeepWith DEF InBit, InState
  <2> QED BY <2>2, <2>3 DEF Slips, v
<1>3. CASE InBit(u, "BIT", 0)
  <2>1. Goes(u, v, "BIT", u.bit, u.byte, t, u.clk, u.data)
    BY <1>0, <1>3, ReceivesBits DEF InBit, InState
  <2> HIDE DEF v, t
  <2>2. Keep(u, v) /\ InBit(v, "BIT", 0)
    BY <1>3, <2>1 DEF Goes, InState, InBit, Free
  <2>3. With(v, {"LISTENING"}) /\ v.taken = u.taken /\ v.state = "BIT"
    BY <1>0, <2>2, KeepWith DEF InBit, InState
  <2> QED BY <2>2, <2>3 DEF Slips, v
<1> QED BY <1>1, <1>2, <1>3 DEF Slips

(* Sending, access by access.                                               *)
LEMMA CallsKept ==
    ASSUME UNCHANGED <<calls, eoi>>, NEW m
    PROVE  CallsAfter(m)' <=> CallsAfter(m)
  BY DEF CallsAfter, ReadsNext

LEMMA SentKept ==
    ASSUME sent' = sent, NEW m
    PROVE  /\ UnderAtn(device', m) => UnderAtn(device, m)'
           /\ Asked(device', m) => Asked(device, m)'
           /\ Answers0(device', m) => Answers0(device, m)'
           /\ Receives(device', m) => Receives(device, m)'
           /\ Holds(device', m) => Holds(device, m)'
           /\ \A i : Has(device', m, i) => Has(device, m, i)'
<1>1. UnderAtn(device', m) => UnderAtn(device, m)'
  BY DEF UnderAtn, Even
<1>2. Receives(device', m) => Receives(device, m)'
  BY <1>1 DEF Receives, Even
<1>3. Asked(device', m) => Asked(device, m)'
  BY <1>1 DEF Asked
<1>4. Answers0(device', m) => Answers0(device, m)'
  BY <1>1 DEF Answers0
<1>5. Holds(device', m) => Holds(device, m)'
  BY <1>2 DEF Holds
<1>6. \A i : Has(device', m, i) => Has(device, m, i)'
  BY <1>2 DEF Has
<1> QED BY <1>1, <1>2, <1>3, <1>4, <1>5, <1>6

LEMMA CommandNext ==
    ASSUME TypeOK, NEW m \in Messages, AtCommand(m), Kernal
    PROVE  AtAtnLo(m)' /\ Untaken
<1>0. m.kind \in Opening /\ m.kind # "unlisten" /\ cpu = Lines(TRUE, TRUE, TRUE)
      /\ (Calm(device) \/ Stale(device)) /\ Even(device) /\ CallsAfter(m) /\ eoi = FALSE
  BY DEF AtCommand, Opening
<1>1. Is(code, StoreOf([data |-> TRUE], 0), FromAtnLo(m))
  BY <1>0, FromSendIs, StoreIs DEF AtCommand
<1>2. cpu' = Lines(TRUE, TRUE, TRUE) /\ Stored(0, TRUE = TRUE) /\ code' = FromAtnLo(m)
      /\ Rests
  BY <1>0, <1>1, DataMoves
<1>3. Calm(device') /\ device'.taken = device.taken
  BY <1>0, <1>2, AccessedIs, CalmAfter, RisesAfter, LinesHigh DEF Calm, Deaf
<1>4. CallsAfter(m)'
  BY <1>0, <1>2, CallsKept DEF Rests
<1> QED BY <1>0, <1>2, <1>3, <1>4 DEF AtAtnLo, Untaken, Rests, Even

LEMMA UnlistenNext ==
    ASSUME TypeOK, NEW m \in Messages, Kernal
    PROVE  /\ AtUnlisten(m) => AtUnlistenClkHi(m)' /\ Untaken
           /\ AtUnlistenClkHi(m) => AtUnlistenAtnLo(m)' /\ Untaken
           /\ AtUnlistenAtnLo(m) => AtAddress(m)' /\ Untaken
<1>1. ASSUME AtUnlisten(m) PROVE AtUnlistenClkHi(m)' /\ Untaken
  <2>1. Is(code, StoreOf([data |-> TRUE], 0), <<ClkHi>> \o FromAtnLo(m))
        /\ Unlistens(m)
    BY <1>1, FromSendIs, StoreIs DEF AtUnlisten, Unlistens
  <2>2. CASE cpu = Lines(TRUE, FALSE, TRUE)
            /\ (AddressedBy(device, LISTEN, {"LISTENING"}) \/ Listener(device))
    <3>1. cpu' = Lines(TRUE, FALSE, TRUE) /\ Stored(0, TRUE = TRUE)
          /\ code' = <<ClkHi>> \o FromAtnLo(m) /\ Rests
      BY <2>1, <2>2, DataMoves
    <3>2. Accessed /\ cpu.atn /\ ~ cpu.clk
      BY <2>2, <3>1, AccessedIs, LinesHigh
    <3>3. (Listener(device') \/ Deaf(device')) /\ device'.taken = device.taken
      BY <2>2, <3>2, CalmAfter, RisesAfter DEF Deaf
    <3>4. Unlistens(m)'
      BY <2>1, <3>1, CallsKept DEF Unlistens, Rests
    <3> QED BY <3>1, <3>3, <3>4 DEF AtUnlistenClkHi, Untaken, Rests
  <2>3. CASE cpu = Lines(TRUE, TRUE, TRUE) /\ Calm(device)
    <3>1. cpu' = Lines(TRUE, TRUE, TRUE) /\ Stored(0, TRUE = TRUE)
          /\ code' = <<ClkHi>> \o FromAtnLo(m) /\ Rests
      BY <2>1, <2>3, DataMoves
    <3>2. Accessed /\ cpu.atn /\ cpu.clk
      BY <2>3, <3>1, AccessedIs, LinesHigh
    <3>3. Calm(device') /\ device'.taken = device.taken
      BY <2>3, <3>2, CalmAfter
    <3>4. Unlistens(m)'
      BY <2>1, <3>1, CallsKept DEF Unlistens, Rests
    <3> QED BY <3>1, <3>3, <3>4 DEF AtUnlistenClkHi, Untaken, Rests
  <2> QED BY <1>1, <2>2, <2>3 DEF AtUnlisten
<1>2. ASSUME AtUnlistenClkHi(m) PROVE AtUnlistenAtnLo(m)' /\ Untaken
  <2>1. Is(code, StoreOf([clk |-> TRUE], 0), FromAtnLo(m)) /\ Unlistens(m)
    BY <1>2, FromSendIs, StoreIs DEF AtUnlistenClkHi
  <2>2. CASE cpu = Lines(TRUE, FALSE, TRUE) /\ (Listener(device) \/ Deaf(device))
    <3>1. cpu' = Lines(TRUE, TRUE, TRUE) /\ Stored(0, FALSE = TRUE)
          /\ code' = FromAtnLo(m) /\ Rests
      BY <2>1, <2>2, ClkMoves
    <3>2. Accessed /\ cpu.atn /\ ~ cpu.clk
      BY <2>2, <3>1, AccessedIs, LinesHigh
    <3>3. (Listener(device') \/ Calm(device')) /\ device'.taken = device.taken
      BY <2>2, <3>2, CalmAfter DEF Calm
    <3>4. Unlistens(m)'
      BY <2>1, <3>1, CallsKept DEF Unlistens, Rests
    <3> QED BY <3>1, <3>3, <3>4 DEF AtUnlistenAtnLo, Untaken, Rests
  <2>3. CASE cpu = Lines(TRUE, TRUE, TRUE) /\ Calm(device)
    <3>1. cpu' = Lines(TRUE, TRUE, TRUE) /\ Stored(0, TRUE = TRUE)
          /\ code' = FromAtnLo(m) /\ Rests
      BY <2>1, <2>3, ClkMoves
    <3>2. Accessed /\ cpu.atn /\ cpu.clk
      BY <2>3, <3>1, AccessedIs, LinesHigh
    <3>3. Calm(device') /\ device'.taken = device.taken
      BY <2>3, <3>2, CalmAfter
    <3>4. Unlistens(m)'
      BY <2>1, <3>1, CallsKept DEF Unlistens, Rests
    <3> QED BY <3>1, <3>3, <3>4 DEF AtUnlistenAtnLo, Untaken, Rests
  <2> QED BY <1>2, <2>2, <2>3 DEF AtUnlistenClkHi
<1>3. ASSUME AtUnlistenAtnLo(m) PROVE AtAddress(m)' /\ Untaken
  <2>0. cpu = Lines(TRUE, TRUE, TRUE) /\ m.kind = "unlisten" /\ CallsAfter(m)
    BY <1>3 DEF AtUnlistenAtnLo, Unlistens
  <2>1. Is(code, StoreOf([atn |-> FALSE], 0), FromAddress(m))
    BY <1>3, FromSendIs, StoreIs DEF AtUnlistenAtnLo
  <2>2. cpu' = Lines(FALSE, TRUE, TRUE) /\ Stored(0, TRUE = FALSE)
        /\ code' = FromAddress(m) /\ Rests
    BY <2>0, <2>1, AtnMoves
  <2>3. CallsAfter(m)'
    BY <2>0, <2>2, CallsKept DEF Rests
  <2>4. Accessed /\ cpu.atn /\ cpu.clk
    BY <2>0, <2>2, AccessedIs, LinesHigh
  <2>5. (Silent(device') \/ With(device', {"LISTENING"})) /\ device'.taken = device.taken
    BY <1>3, <2>4, CalmAfter, ListenerAfter DEF AtUnlistenAtnLo, Calm, Deaf
  <2> QED BY <2>0, <2>2, <2>3, <2>5 DEF AtAddress, Untaken, Rests
<1> QED BY <1>1, <1>2, <1>3

LEMMA UntalkNext ==
    ASSUME TypeOK, NEW m \in Messages, Kernal
    PROVE  /\ AtUntalk(m) => AtUntalkAtnLo(m)' /\ Untaken
           /\ AtUntalkAtnLo(m) => AtUntalkDataHi(m)' /\ Untaken
           /\ AtUntalkDataHi(m) => AtUntalkAgain(m)' /\ Untaken
           /\ AtUntalkAgain(m) => AtAddress(m)' /\ Untaken
<1>0. \A u : Exhausted(u) => Talker(u)
  BY DEF Exhausted, Talker
<1>1. ASSUME AtUntalk(m) PROVE AtUntalkAtnLo(m)' /\ Untaken
  <2>1. Is(code, StoreOf([clk |-> FALSE], 0), FromUntalk(m)) /\ Untalks(m)
    BY <1>1, FromSendIs, StoreIs DEF AtUntalk
  <2>2. CASE cpu = Lines(TRUE, TRUE, FALSE) /\ Talker(device)
    <3>1. cpu' = Lines(TRUE, FALSE, FALSE) /\ Stored(0, TRUE = FALSE)
          /\ code' = FromUntalk(m) /\ Rests
      BY <2>1, <2>2, ClkMoves
    <3>2. Accessed /\ cpu.atn /\ ~ cpu.data
      BY <2>2, <3>1, AccessedIs, LinesHigh
    <3>3. Talker(device') /\ device'.taken = device.taken
      BY <2>2, <3>2, TalkerAfter
    <3>4. Untalks(m)'
      BY <2>1, <3>1, CallsKept DEF Untalks, Rests
    <3> QED BY <3>1, <3>3, <3>4 DEF AtUntalkAtnLo, Untaken, Rests
  <2>3. CASE cpu = Lines(TRUE, TRUE, TRUE) /\ Exhausted(device)
    <3>1. cpu' = Lines(TRUE, FALSE, TRUE) /\ Stored(0, TRUE = FALSE)
          /\ code' = FromUntalk(m) /\ Rests
      BY <2>1, <2>3, ClkMoves
    <3>2. Accessed /\ cpu.atn
      BY <2>3, <3>1, AccessedIs, LinesHigh
    <3>3. Exhausted(device') /\ device'.taken = device.taken
      BY <2>3, <3>2, TalkerAfter
    <3>4. Untalks(m)'
      BY <2>1, <3>1, CallsKept DEF Untalks, Rests
    <3> QED BY <3>1, <3>3, <3>4 DEF AtUntalkAtnLo, Untaken, Rests
  <2> QED BY <1>1, <2>2, <2>3 DEF AtUntalk
<1>2. ASSUME AtUntalkAtnLo(m) PROVE AtUntalkDataHi(m)' /\ Untaken
  <2>1. Is(code, StoreOf([atn |-> FALSE], 0), FromDataHi(m)) /\ Untalks(m)
    BY <1>2, FromSendIs, StoreIs DEF AtUntalkAtnLo
  <2>2. CASE cpu = Lines(TRUE, FALSE, FALSE) /\ Talker(device)
    <3>1. cpu' = Lines(FALSE, FALSE, FALSE) /\ Stored(0, TRUE = FALSE)
          /\ code' = FromDataHi(m) /\ Rests
      BY <2>1, <2>2, AtnMoves
    <3>2. Accessed /\ cpu.atn /\ ~ cpu.data
      BY <2>2, <3>1, AccessedIs, LinesHigh
    <3>3. Talker(device') /\ device'.taken = device.taken
      BY <2>2, <3>2, TalkerAfter
    <3>4. Untalks(m)'
      BY <2>1, <3>1, CallsKept DEF Untalks, Rests
    <3> QED BY <3>1, <3>3, <3>4 DEF AtUntalkDataHi, Untaken, Rests
  <2>3. CASE cpu = Lines(TRUE, FALSE, TRUE) /\ Exhausted(device)
    <3>1. cpu' = Lines(FALSE, FALSE, TRUE) /\ Stored(0, TRUE = FALSE)
          /\ code' = FromDataHi(m) /\ Rests
      BY <2>1, <2>3, AtnMoves
    <3>2. Accessed /\ cpu.atn
      BY <2>3, <3>1, AccessedIs, LinesHigh
    <3>3. Talker(device') /\ device'.taken = device.taken
      BY <1>0, <2>3, <3>2, TalkerAfter
    <3>4. Untalks(m)'
      BY <2>1, <3>1, CallsKept DEF Untalks, Rests
    <3> QED BY <3>1, <3>3, <3>4 DEF AtUntalkDataHi, Untaken, Rests
  <2> QED BY <1>2, <2>2, <2>3 DEF AtUntalkAtnLo
<1>3. ASSUME AtUntalkDataHi(m) PROVE AtUntalkAgain(m)' /\ Untaken
  <2>0. PICK x \in BOOLEAN : cpu = Lines(FALSE, FALSE, x)
    BY <1>3 DEF AtUntalkDataHi
  <2>1. Is(code, StoreOf([data |-> TRUE], 0), FromAtnLo(m)) /\ m.kind = "untalk"
    BY <1>3, FromSendIs, StoreIs DEF AtUntalkDataHi, Untalks
  <2>2. cpu' = Lines(FALSE, FALSE, TRUE) /\ Stored(0, x = TRUE)
        /\ code' = FromAtnLo(m) /\ Rests
    BY <2>0, <2>1, DataMoves
  <2>3. Untalks(m)'
    BY <1>3, <2>2, CallsKept DEF AtUntalkDataHi, Untalks, Rests
  <2>4. Accessed /\ ~ cpu.atn
    BY <2>0, <2>2, AccessedIs, LinesHigh
  <2>5. With(device, {}) \/ With(device, OtherFlags(m))
    BY <1>3, <2>1 DEF AtUntalkDataHi, Talker, Silent, OtherFlags
  <2>6. ~ Counts(m) /\ m.kind \notin {"second", "turn", "data"}
    BY <2>1 DEF Counts
  <2>7. Asked(device', m) /\ device'.taken = device.taken
    BY <2>4, <2>5, <2>6, FallsAskedAfter
  <2>8. Asked(device, m)'
    BY <2>2, <2>7, SentKept DEF Rests
  <2> QED BY <2>2, <2>3, <2>7, <2>8 DEF AtUntalkAgain, Untaken, Rests
<1>4. ASSUME AtUntalkAgain(m) PROVE AtAddress(m)' /\ Untaken
  <2>0. cpu = Lines(FALSE, FALSE, TRUE) /\ m.kind = "untalk" /\ CallsAfter(m)
        /\ Asked(device, m)
    BY <1>4 DEF AtUntalkAgain, Untalks
  <2>1. Is(code, StoreOf([atn |-> FALSE], 0), FromAddress(m))
    BY <1>4, FromSendIs, StoreIs DEF AtUntalkAgain
  <2>2. cpu' = Lines(FALSE, FALSE, TRUE) /\ Stored(0, FALSE = FALSE)
        /\ code' = FromAddress(m) /\ Rests
    BY <2>0, <2>1, AtnMoves
  <2>3. CallsAfter(m)'
    BY <2>0, <2>2, CallsKept DEF Rests
  <2>4. Accessed /\ ~ cpu.atn /\ ~ cpu.clk
    BY <2>0, <2>2, AccessedIs, LinesHigh
  <2>5. Asked(device', m) /\ device'.taken = device.taken
    BY <2>0, <2>4, AskedAfter
  <2>6. Asked(device, m)'
    BY <2>2, <2>5, SentKept DEF Rests
  <2> QED BY <2>0, <2>2, <2>3, <2>5, <2>6 DEF AtAddress, Untaken, Rests, Opening
<1> QED BY <1>1, <1>2, <1>3, <1>4

LEMMA TimesToWait == 0 \in {0, AckWait} /\ AckWait \in {0, AckWait}
  OBVIOUS

LEMMA ClkGoes ==
    ASSUME TypeOK, Kernal, NEW x, NEW s,
           NEW a, NEW c, NEW d, cpu = Lines(a, c, d), Is(code, StoreOf([clk |-> x], 0), s)
    PROVE  /\ cpu' = Lines(a, x, d) /\ code' = s /\ Rests /\ Accessed /\ Stored(0, c = x)
           /\ cpu.atn = a /\ cpu.clk = c /\ cpu.data = d
<1>1. cpu' = Lines(a, x, d) /\ code' = s /\ Rests /\ Stored(0, c = x)
  BY ClkMoves
<1> QED BY <1>1, AccessedIs, TimesToWait, LinesHigh

LEMMA DataGoes ==
    ASSUME TypeOK, Kernal, NEW x, NEW s,
           NEW a, NEW c, NEW d, cpu = Lines(a, c, d), Is(code, StoreOf([data |-> x], 0), s)
    PROVE  /\ cpu' = Lines(a, c, x) /\ code' = s /\ Rests /\ Accessed /\ Stored(0, d = x)
           /\ cpu.atn = a /\ cpu.clk = c /\ cpu.data = d
<1>1. cpu' = Lines(a, c, x) /\ code' = s /\ Rests /\ Stored(0, d = x)
  BY DataMoves
<1> QED BY <1>1, AccessedIs, TimesToWait, LinesHigh

LEMMA AtnGoes ==
    ASSUME TypeOK, Kernal, NEW x, NEW s,
           NEW a, NEW c, NEW d, cpu = Lines(a, c, d), Is(code, StoreOf([atn |-> x], 0), s)
    PROVE  /\ cpu' = Lines(x, c, d) /\ code' = s /\ Rests /\ Accessed /\ Stored(0, a = x)
           /\ cpu.atn = a /\ cpu.clk = c /\ cpu.data = d
<1>1. cpu' = Lines(x, c, d) /\ code' = s /\ Rests /\ Stored(0, a = x)
  BY AtnMoves
<1> QED BY <1>1, AccessedIs, TimesToWait, LinesHigh

LEMMA DataPauses ==
    ASSUME TypeOK, Kernal, NEW x, NEW s,
           NEW a, NEW c, NEW d, cpu = Lines(a, c, d), Is(code, StoreOf([data |-> x], AckWait), s)
    PROVE  /\ cpu' = Lines(a, c, x) /\ code' = s /\ Rests /\ Accessed /\ Stored(AckWait, d = x)
           /\ cpu.atn = a /\ cpu.clk = c /\ cpu.data = d
<1>1. cpu' = Lines(a, c, x) /\ code' = s /\ Rests /\ Stored(AckWait, d = x)
  BY DataMoves
<1> QED BY <1>1, AccessedIs, TimesToWait, LinesHigh

LEMMA ClkPauses ==
    ASSUME TypeOK, Kernal, NEW x, NEW s,
           NEW a, NEW c, NEW d, cpu = Lines(a, c, d), Is(code, StoreOf([clk |-> x], AckWait), s)
    PROVE  /\ cpu' = Lines(a, x, d) /\ code' = s /\ Rests /\ Accessed /\ Stored(AckWait, c = x)
           /\ cpu.atn = a /\ cpu.clk = c /\ cpu.data = d
<1>1. cpu' = Lines(a, x, d) /\ code' = s /\ Rests /\ Stored(AckWait, c = x)
  BY ClkMoves
<1> QED BY <1>1, AccessedIs, TimesToWait, LinesHigh

LEMMA StoredSame ==
    ASSUME TypeOK, NEW t \in {0, AckWait}, Stored(t, TRUE = TRUE)
    PROVE  \E d \in Nat, a \in Answers :
             t <= d /\ device' = Exec(device, d, a) /\ Typed(device)
<1>1. PICK d, a, p :
             /\ d \in Nat /\ a \in Answers
             /\ t <= d /\ p = Exec(device, d, a) /\ Typed(device) /\ Typed(p)
             /\ (TRUE = TRUE => device' = p) /\ (~ (TRUE = TRUE) => device' = Exec(p, 0, a))
             /\ Typed(device')
  BY StoredIs, ZenonT(40)
<1> QED BY <1>1

LEMMA BusIs ==
    /\ Bus'.data = (cpu'.data /\ device'.data)
    /\ Bus'.clk = (cpu'.clk /\ device'.clk)
  BY DEF Bus, BusWith

LEMMA AddressNext ==
    ASSUME TypeOK, NEW m \in Messages, Kernal
    PROVE  /\ AtAddress(m) => AtPause(m)' /\ Untaken
           /\ AtPause(m) => AtLetGo(m)' /\ Untaken
<1>1. ASSUME AtAddress(m) PROVE AtPause(m)' /\ Untaken
  <2>1. Is(code, StoreOf([clk |-> FALSE], 0), FromPause(m)) /\ m.kind # "data" /\ CallsAfter(m)
    BY <1>1, FromSendIs, StoreIs DEF AtAddress
  <2>2. CASE /\ cpu = Lines(FALSE, TRUE, TRUE) /\ m.kind \in Opening \union {"unlisten"}
             /\ \/ Silent(device) /\ (m.kind = "listen" => Even(device))
                \/ With(device, {"LISTENING"}) /\ (m.kind = "listen" => Even(device))
    <3>0. cpu = Lines(FALSE, TRUE, TRUE)
      BY <2>2
    <3>1. /\ cpu' = Lines(FALSE, FALSE, TRUE) /\ code' = FromPause(m) /\ Rests /\ Accessed
          /\ ~ cpu.atn
      BY <2>1, <3>0, ClkGoes
    <3>c. CallsAfter(m)'
      BY <2>1, <3>1, CallsKept DEF Rests
    <3>2. With(device, {}) \/ With(device, OtherFlags(m))
      BY <2>2 DEF Silent, OtherFlags, Opening
    <3>3. (Counts(m) => Even(device)) /\ m.kind \notin {"second", "turn", "data"}
      BY <2>2 DEF Counts, Opening
    <3>4. Asked(device', m) /\ device'.taken = device.taken
      BY <3>1, <3>2, <3>3, FallsAskedAfter
    <3>5. Asked(device, m)'
      BY <3>1, <3>4, SentKept DEF Rests
    <3> QED BY <2>1, <3>1, <3>c, <3>4, <3>5 DEF AtPause, Untaken, Rests
  <2>3. CASE cpu = Lines(FALSE, FALSE, TRUE) /\ Asked(device, m)
    <3>0. cpu = Lines(FALSE, FALSE, TRUE)
      BY <2>3
    <3>1. /\ cpu' = Lines(FALSE, FALSE, TRUE) /\ code' = FromPause(m) /\ Rests /\ Accessed
          /\ ~ cpu.atn /\ ~ cpu.clk
      BY <2>1, <3>0, ClkGoes
    <3>c. CallsAfter(m)'
      BY <2>1, <3>1, CallsKept DEF Rests
    <3>4. Asked(device', m) /\ device'.taken = device.taken
      BY <2>1, <2>3, <3>1, AskedAfter
    <3>5. Asked(device, m)'
      BY <3>1, <3>4, SentKept DEF Rests
    <3> QED BY <2>1, <3>1, <3>c, <3>4, <3>5 DEF AtPause, Untaken, Rests
  <2>4. CASE cpu = Lines(TRUE, TRUE, TRUE) /\ m.kind = "second" /\ Deaf(device)
    <3>0. cpu = Lines(TRUE, TRUE, TRUE)
      BY <2>4
    <3>1. /\ cpu' = Lines(TRUE, FALSE, TRUE) /\ code' = FromPause(m) /\ Rests /\ Accessed
          /\ cpu.atn
      BY <2>1, <3>0, ClkGoes
    <3>c. CallsAfter(m)'
      BY <2>1, <3>1, CallsKept DEF Rests
    <3>4. Deaf(device') /\ device'.taken = device.taken
      BY <2>4, <3>1, CalmAfter
    <3> QED BY <2>1, <2>4, <3>1, <3>c, <3>4 DEF AtPause, Untaken, Rests
  <2> QED BY <1>1, <2>2, <2>3, <2>4 DEF AtAddress
<1>2. ASSUME AtPause(m) PROVE AtLetGo(m)' /\ Untaken
  <2>1. Is(code, StoreOf([data |-> TRUE], AckWait), FromLetGo(m)) /\ m.kind # "data"
        /\ CallsAfter(m)
    BY <1>2, FromSendIs, StoreIs DEF AtPause
  <2>2. CASE cpu = Lines(FALSE, FALSE, TRUE) /\ Asked(device, m)
    <3>0. cpu = Lines(FALSE, FALSE, TRUE)
      BY <2>2
    <3>1. /\ cpu' = Lines(FALSE, FALSE, TRUE) /\ code' = FromLetGo(m) /\ Rests
          /\ Stored(AckWait, TRUE = TRUE) /\ ~ cpu.atn /\ ~ cpu.clk
      BY <2>1, <3>0, DataPauses
    <3>c. CallsAfter(m)'
      BY <2>1, <3>1, CallsKept DEF Rests
    <3>2. PICK d \in Nat, a \in Answers :
            AckWait <= d /\ device' = Exec(device, d, a) /\ Typed(device)
      BY <3>1, StoredSame, TimesToWait
    <3>3. d >= Pre0
      BY <3>2, TimesAre
    <3>4. Answers0(device', m) /\ device'.taken = device.taken
      BY <2>1, <2>2, <3>1, <3>2, <3>3, AskedStays, ZenonT(40)
    <3>5. Answers0(device, m)'
      BY <3>1, <3>4, SentKept DEF Rests
    <3> QED BY <2>1, <3>1, <3>c, <3>4, <3>5 DEF AtLetGo, Untaken, Rests
  <2>3. CASE cpu = Lines(TRUE, FALSE, TRUE) /\ m.kind = "second" /\ Deaf(device)
    <3>0. cpu = Lines(TRUE, FALSE, TRUE)
      BY <2>3
    <3>1. /\ cpu' = Lines(TRUE, FALSE, TRUE) /\ code' = FromLetGo(m) /\ Rests /\ Accessed
          /\ cpu.atn
      BY <2>1, <3>0, DataPauses
    <3>c. CallsAfter(m)'
      BY <2>1, <3>1, CallsKept DEF Rests
    <3>4. Deaf(device') /\ device'.taken = device.taken
      BY <2>3, <3>1, CalmAfter
    <3> QED BY <2>1, <2>3, <3>1, <3>c, <3>4 DEF AtLetGo, Untaken, Rests
  <2> QED BY <1>2, <2>2, <2>3 DEF AtPause
<1> QED BY <1>1, <1>2

LEMMA LetGoNext ==
    ASSUME TypeOK, NEW m \in Messages, AtLetGo(m), Kernal
    PROVE  AtNeed(m)' /\ Untaken
<1>1. Is(code, StoreOf([data |-> TRUE], 0), FromNeed(m)) /\ CallsAfter(m)
  BY FromSendIs, StoreIs DEF AtLetGo
<1>2. CASE cpu = Lines(FALSE, FALSE, TRUE) /\ m.kind # "data" /\ Answers0(device, m)
  <2>0. cpu = Lines(FALSE, FALSE, TRUE)
    BY <1>2
  <2>1. /\ cpu' = Lines(FALSE, FALSE, TRUE) /\ code' = FromNeed(m) /\ Rests
        /\ Stored(0, TRUE = TRUE) /\ ~ cpu.atn /\ ~ cpu.clk
    BY <1>1, <2>0, DataGoes
  <2>c. CallsAfter(m)'
    BY <1>1, <2>1, CallsKept DEF Rests
  <2>2. PICK d \in Nat, a \in Answers :
            0 <= d /\ device' = Exec(device, d, a) /\ Typed(device)
    BY <2>1, StoredSame, TimesToWait
  <2>3. Receives(device, m) /\ (cpu.atn <=> AtnOf(m)) /\ HoldsData(device)
        /\ device.state \in {"PRE1", "PRE2"}
    BY <1>2, <2>1 DEF Receives, Answers0, AtnOf
  <2>4. Holds(device', m) /\ device'.taken = device.taken
    BY <2>1, <2>2, <2>3, HoldsStays
  <2>5. Holds(device, m)'
    BY <2>1, <2>4, SentKept DEF Rests
  <2>6. cpu' = Lines(AtnOf(m), FALSE, TRUE)
    BY <1>2, <2>1 DEF AtnOf
  <2> QED BY <2>1, <2>c, <2>4, <2>5, <2>6 DEF AtNeed, Untaken, Rests
<1>3. CASE cpu = Lines(TRUE, FALSE, TRUE) /\ m.kind \in {"second", "data"} /\ Deaf(device)
  <2>0. cpu = Lines(TRUE, FALSE, TRUE)
    BY <1>3
  <2>1. /\ cpu' = Lines(TRUE, FALSE, TRUE) /\ code' = FromNeed(m) /\ Rests /\ Accessed
        /\ cpu.atn
    BY <1>1, <2>0, DataGoes
  <2>c. CallsAfter(m)'
    BY <1>1, <2>1, CallsKept DEF Rests
  <2>2. Deaf(device') /\ device'.taken = device.taken
    BY <1>3, <2>1, CalmAfter
  <2> QED BY <1>3, <2>1, <2>c, <2>2 DEF AtNeed, Untaken, Rests
<1>4. CASE /\ cpu = Lines(TRUE, FALSE, TRUE) /\ m.kind = "data" /\ Even(device)
           /\ AddressedBy(device, LISTEN, {"LISTENING"}) \/ Listener(device)
  <2>0. cpu = Lines(TRUE, FALSE, TRUE)
    BY <1>4
  <2>1. /\ cpu' = Lines(TRUE, FALSE, TRUE) /\ code' = FromNeed(m) /\ Rests
        /\ Stored(0, TRUE = TRUE) /\ cpu.atn /\ ~ cpu.clk
    BY <1>1, <2>0, DataGoes
  <2>c. CallsAfter(m)'
    BY <1>1, <2>1, CallsKept DEF Rests
  <2>2. PICK d \in Nat, a \in Answers :
            0 <= d /\ device' = Exec(device, d, a) /\ Typed(device)
    BY <2>1, StoredSame, TimesToWait
  <2>3. ((Listener(device') /\ device'.state = "PRE2") \/ Silent(device'))
        /\ device'.taken = device.taken
    <3>1. Typed(device) /\ cpu.atn /\ ~ cpu.clk
      BY <2>1, <2>2
    <3>2. CASE Listener(device)
      BY <2>2, <3>1, <3>2, ListenerStays
    <3>3. CASE AddressedBy(device, LISTEN, {"LISTENING"})
      BY <2>2, <3>1, <3>3, RisesListener
    <3> QED BY <1>4, <3>2, <3>3
  <2>4. Even(device')
    BY <1>4, <2>3 DEF Even
  <2>5. Holds(device', m) \/ Deaf(device')
    BY <1>4, <2>3, <2>4 DEF Holds, Receives, Listener, Deaf
  <2>6. Holds(device, m)' \/ Deaf(device')
    BY <2>1, <2>5, SentKept DEF Rests
  <2>7. cpu' = Lines(AtnOf(m), FALSE, TRUE)
    BY <1>4, <2>1 DEF AtnOf
  <2> QED BY <1>4, <2>1, <2>c, <2>3, <2>6, <2>7 DEF AtNeed, Untaken, Rests
<1>5. CASE cpu = Lines(TRUE, TRUE, TRUE) /\ m.kind = "data" /\ Calm(device)
  <2>0. cpu = Lines(TRUE, TRUE, TRUE)
    BY <1>5
  <2>1. /\ cpu' = Lines(TRUE, TRUE, TRUE) /\ code' = FromNeed(m) /\ Rests /\ Accessed
        /\ cpu.atn /\ cpu.clk
    BY <1>1, <2>0, DataGoes
  <2>c. CallsAfter(m)'
    BY <1>1, <2>1, CallsKept DEF Rests
  <2>2. Calm(device') /\ device'.taken = device.taken
    BY <1>5, <2>1, CalmAfter
  <2> QED BY <1>5, <2>1, <2>c, <2>2 DEF AtNeed, Untaken, Rests
<1> QED BY <1>2, <1>3, <1>4, <1>5 DEF AtLetGo

(* A byte, from the receiver's side: each lemma is one access.              *)
Taking(u, m) == Typed(u) /\ Receives(u, m) /\ (cpu.atn <=> AtnOf(m))
Same(u, v, m) == Receives(v, m) /\ v.taken = u.taken
LEMMA GoesSame ==
    ASSUME NEW u, NEW v, NEW m \in Messages, Receives(u, m),
           NEW s, NEW b, NEW y, NEW t, NEW c, NEW e, Goes(u, v, s, b, y, t, c, e)
    PROVE  /\ Same(u, v, m) /\ v.state = s /\ v.bit = b /\ v.byte = y /\ v.timeout = t
           /\ v.clk = c /\ v.data = e
<1>1. Keep(u, v)
  BY DEF Goes
<1>2. Same(u, v, m)
  BY <1>1, GoesReceives DEF Same
<1> QED BY <1>2 DEF Goes

LEMMA FlagsOf ==
    ASSUME NEW u, NEW m \in Messages, Receives(u, m)
    PROVE  "ATN" \in u.flags <=> m.kind # "data"
  BY DEF Receives, UnderAtn, Under, With

LEMMA TakesUp ==
    ASSUME NEW u, NEW m \in Messages, Taking(u, m), cpu.clk, u.state = "PRE2",
           HoldsData(u), NEW d \in Nat, NEW a
    PROVE  LET v == Exec(u, d, a) IN Same(u, v, m) /\ InState(v, "READY")
<1> DEFINE v == Exec(u, d, a)
<1>1. Receiving(u)
  BY ReceivesIs DEF Taking
<1>2. Goes(u, v, "READY", u.bit, u.byte, Ready, TRUE, TRUE)
  BY <1>1, ReceivesPre DEF Taking, HoldsData
<1> HIDE DEF v
<1>a. Keep(u, v) /\ v.state = "READY" /\ v.clk /\ v.data
  BY <1>2 DEF Goes
<1>3. Same(u, v, m) /\ v.state = "READY" /\ v.clk /\ v.data
  BY <1>a, GoesReceives DEF Taking, Same
<1> QED BY <1>3 DEF InState, Free, v

LEMMA ReadyWaits ==
    ASSUME NEW u, NEW m \in Messages, Taking(u, m), cpu.clk, InState(u, "READY"),
           NEW d \in Nat, NEW a
    PROVE  LET v == Exec(u, d, a)
           IN  /\ Same(u, v, m)
               /\ \/ InState(v, "READY")
                  \/ /\ m.kind = "data" /\ v.state = "EOI" /\ HoldsData(v)
                     /\ v.timeout = Ack
<1> DEFINE v == Exec(u, d, a)
<1>1. Receiving(u) /\ Typed(u) /\ u.state = "READY" /\ u.clk /\ u.data
  BY ReceivesIs DEF Taking, InState, Free
<1>2. CASE "ATN" \in u.flags \/ Left(u, d) # 0
  <2>1. Goes(u, v, "READY", u.bit, u.byte, Left(u, d), u.clk, u.data)
    BY <1>1, <1>2, ReceivesFrom
  <2> HIDE DEF v
  <2>2. Same(u, v, m) /\ v.state = "READY" /\ v.clk = u.clk /\ v.data = u.data
    BY <2>1, GoesSame DEF Taking
  <2> QED BY <1>1, <2>2 DEF InState, Free, v
<1>3. CASE "ATN" \notin u.flags /\ Left(u, d) = 0
  <2>1. Goes(u, v, "EOI", u.bit, u.byte, Ack, TRUE, FALSE)
    BY <1>1, <1>3, ReceivesFrom
  <2> HIDE DEF v
  <2>2. Same(u, v, m) /\ v.state = "EOI" /\ v.clk = TRUE /\ v.data = FALSE
        /\ v.timeout = Ack
    BY <2>1, GoesSame, ZenonT(40) DEF Taking
  <2>3. m.kind = "data"
    BY <1>3, FlagsOf DEF Taking
  <2> QED BY <2>2, <2>3 DEF HoldsData, v
<1> QED BY <1>2, <1>3

LEMMA EoiWaits ==
    ASSUME NEW u, NEW m \in Messages, Taking(u, m), u.state = "EOI", HoldsData(u),
           NEW d \in Nat, NEW a
    PROVE  LET v == Exec(u, d, a)
           IN  /\ Same(u, v, m)
               /\ \/ v.state = "EOI" /\ HoldsData(v) /\ v.timeout <= u.timeout
                     /\ v.timeout = Left(u, d) /\ v.timeout # 0
                  \/ Left(u, d) = 0 /\ InState(v, "EOIw")
<1> DEFINE v == Exec(u, d, a)
<1>1. Receiving(u) /\ Typed(u) /\ u.clk /\ ~ u.data
  BY ReceivesIs DEF Taking, HoldsData
<1>2. CASE Left(u, d) # 0
  <2>1. Goes(u, v, "EOI", u.bit, u.byte, Left(u, d), u.clk, u.data)
    BY <1>1, <1>2, ReceivesFrom
  <2> HIDE DEF v
  <2>2. Same(u, v, m) /\ v.state = "EOI" /\ v.clk = u.clk /\ v.data = u.data
        /\ v.timeout = Left(u, d)
    BY <2>1, GoesSame DEF Taking
  <2>3. Left(u, d) <= u.timeout
    BY <1>1, LeftIs
  <2> QED BY <1>1, <1>2, <2>2, <2>3 DEF HoldsData, v
<1>3. CASE Left(u, d) = 0
  <2>1. Goes(u, v, "EOIw", u.bit, u.byte, 0, TRUE, TRUE)
    BY <1>1, <1>3, ReceivesFrom
  <2> HIDE DEF v
  <2>a. Keep(u, v) /\ v.state = "EOIw" /\ v.clk /\ v.data
    BY <2>1 DEF Goes
  <2>2. Same(u, v, m) /\ v.state = "EOIw" /\ v.clk /\ v.data
    BY <2>a, GoesReceives DEF Taking, Same
  <2> QED BY <1>3, <2>2 DEF InState, Free, v
<1> QED BY <1>2, <1>3

LEMMA EoiwMoves ==
    ASSUME NEW u, NEW m \in Messages, Taking(u, m), InState(u, "EOIw"),
           NEW d \in Nat, NEW a
    PROVE  LET v == Exec(u, d, a)
           IN  /\ Same(u, v, m)
               /\ cpu.clk => InState(v, "EOIw")
               /\ ~ cpu.clk => InBit(v, "BIT", 0)
<1> DEFINE v == Exec(u, d, a)
<1>1. Receiving(u) /\ Typed(u) /\ u.state = "EOIw" /\ u.clk /\ u.data
  BY ReceivesIs DEF Taking, InState, Free
<1>2. CASE cpu.clk
  <2>1. Goes(u, v, "EOIw", u.bit, u.byte, Left(u, d), u.clk, u.data)
    BY <1>1, <1>2, ReceivesFrom
  <2> HIDE DEF v
  <2>2. Same(u, v, m) /\ v.state = "EOIw" /\ v.clk = u.clk /\ v.data = u.data
    BY <2>1, GoesSame, SMTT(30) DEF Taking
  <2> QED BY <1>1, <1>2, <2>2 DEF InState, Free, v
<1>3. CASE ~ cpu.clk
  <2>1. Goes(u, v, "BIT", 0, u.byte, Left(u, d), u.clk, u.data)
    BY <1>1, <1>3, ReceivesFrom
  <2> HIDE DEF v
  <2>2. Same(u, v, m) /\ v.state = "BIT" /\ v.bit = 0 /\ v.clk = u.clk /\ v.data = u.data
    BY <2>1, GoesSame DEF Taking
  <2> QED BY <1>1, <1>3, <2>2 DEF InState, InBit, Free, v
<1> QED BY <1>2, <1>3

LEMMA ReadyGoes ==
    ASSUME NEW u, NEW m \in Messages, Taking(u, m), InState(u, "READY"), ~ cpu.clk,
           NEW d \in Nat, NEW a
    PROVE  LET v == Exec(u, d, a) IN Same(u, v, m) /\ InBit(v, "BIT", 0)
<1> DEFINE v == Exec(u, d, a)
<1>1. Receiving(u) /\ Typed(u) /\ u.state = "READY" /\ u.clk /\ u.data
  BY ReceivesIs DEF Taking, InState, Free
<1>2. Goes(u, v, "BIT", 0, u.byte, Left(u, d), u.clk, u.data)
  BY <1>1, ReceivesFrom
<1> HIDE DEF v
<1>3. Same(u, v, m) /\ v.state = "BIT" /\ v.bit = 0 /\ v.clk = u.clk /\ v.data = u.data
  BY <1>2, GoesSame DEF Taking
<1> QED BY <1>1, <1>3 DEF InState, InBit, Free, v

LEMMA LookIs ==
    ASSUME TypeOK, Looked
    PROVE  \E a \in Answers : device' = Exec(device, 1, a) /\ Typed(device) /\ Typed(device')
  BY LookedIs

LEMMA NeedNext ==
    ASSUME TypeOK, NEW m \in Messages, AtNeed(m), Kernal
    PROVE  (AtClkHi(m)' \/ AtFinish') /\ Untaken
<1>0. Is(code, Need(FALSE), FromClkHi(m)) /\ CallsAfter(m)
  BY FromSendIs DEF AtNeed
<1>1. /\ Looked /\ UNCHANGED <<cpu, meddled, eoi, input, sent>>
      /\ IF Bus'.data = FALSE THEN code' = FromClkHi(m) /\ calls' = calls
                              ELSE code' = Finish /\ calls' = << >>
  BY <1>0, NeedMoves
<1>2. Accessed
  BY <1>1, AccessedIs
<1>3. CASE cpu = Lines(AtnOf(m), FALSE, TRUE) /\ Holds(device, m)
  <2>1. (cpu.atn <=> AtnOf(m)) /\ ~ cpu.clk
    BY <1>3, LinesHigh
  <2>2. Holds(device', m) /\ device'.taken = device.taken
    BY <1>2, <1>3, <2>1, HoldsAfter
  <2>3. ~ device'.data
    BY <2>2 DEF Holds, HoldsData
  <2>4. Bus'.data = FALSE
    BY <2>3, BusIs
  <2>5. code' = FromClkHi(m) /\ calls' = calls
    BY <1>1, <2>4
  <2>6. Holds(device, m)' /\ CallsAfter(m)'
    BY <1>0, <1>1, <2>2, <2>5, SentKept, CallsKept
  <2> QED BY <1>1, <1>3, <2>2, <2>5, <2>6 DEF AtClkHi, Untaken
<1>4. CASE cpu = Lines(TRUE, FALSE, TRUE) /\ Deaf(device)
  <2>1. cpu.atn /\ cpu.data /\ cpu' = cpu
    BY <1>1, <1>4, LinesHigh
  <2>2. Deaf(device') /\ device'.taken = device.taken
    BY <1>2, <1>4, <2>1, CalmAfter
  <2>3. device'.data
    BY <2>2 DEF Deaf, Silent, InState, Free
  <2>4. Bus'.data # FALSE
    BY <2>1, <2>3, BusIs
  <2>5. code' = Finish /\ calls' = << >>
    BY <1>1, <2>4
  <2> QED BY <1>1, <1>4, <2>2, <2>5 DEF AtFinish, AfterFail, WritesNext, Ends, Untaken
<1>5. CASE cpu = Lines(TRUE, TRUE, TRUE) /\ Calm(device)
  <2>1. cpu.atn /\ cpu.clk /\ cpu.data /\ cpu' = cpu
    BY <1>1, <1>5, LinesHigh
  <2>2. Calm(device') /\ device'.taken = device.taken
    BY <1>2, <1>5, <2>1, CalmAfter
  <2>3. device'.data
    BY <2>2 DEF Calm, Deaf, Silent, InState, InBit, Free
  <2>4. Bus'.data # FALSE
    BY <2>1, <2>3, BusIs
  <2>5. code' = Finish /\ calls' = << >>
    BY <1>1, <2>4
  <2> QED BY <1>1, <1>5, <2>2, <2>5 DEF AtFinish, AfterFail, WritesNext, Ends, Untaken
<1> QED BY <1>3, <1>4, <1>5 DEF AtNeed

LEMMA LastIsData ==
    ASSUME NEW m \in Messages
    PROVE  m.last \in BOOLEAN /\ (m.last => m.kind = "data") /\ (m.last => AtnOf(m) = TRUE)
  BY DEF Messages, AtnOf

LEMMA ClkHiNext ==
    ASSUME TypeOK, NEW m \in Messages, AtClkHi(m), Kernal
    PROVE  (AtEoi1(m, FALSE)' \/ AtReady(m, FALSE)') /\ Untaken
<1> DEFINE next == IF m.last THEN FromEoi1(m, FALSE) ELSE FromReady(m, FALSE)
<1>0. /\ Is(code, StoreOf([clk |-> TRUE], 0), next) /\ CallsAfter(m)
      /\ cpu = Lines(AtnOf(m), FALSE, TRUE) /\ Holds(device, m)
  BY FromSendIs, StoreIs DEF AtClkHi
<1> HIDE DEF next
<1>a. Is(code, StoreOf([clk |-> TRUE], 0), next)
  BY <1>0
<1> DEFINE at == AtnOf(m)
<1>b. cpu = Lines(at, FALSE, TRUE)
  BY <1>0
<1> HIDE DEF at
<1>c. cpu' = Lines(at, TRUE, TRUE) /\ code' = next /\ Rests /\ Accessed
      /\ cpu.atn = at /\ ~ cpu.clk
  BY <1>a, <1>b, ClkGoes, ZenonT(40)
<1>1. cpu' = Lines(AtnOf(m), TRUE, TRUE) /\ code' = next /\ Rests /\ Accessed
      /\ (cpu.atn <=> AtnOf(m)) /\ ~ cpu.clk
  BY <1>c DEF at
<1>2. Holds(device', m) /\ device'.taken = device.taken
  BY <1>0, <1>1, HoldsAfter
<1>3. Holds(device, m)' /\ CallsAfter(m)'
  BY <1>0, <1>1, <1>2, SentKept, CallsKept DEF Rests
<1>4. CASE m.last
  <2>1. cpu' = Lines(TRUE, TRUE, TRUE) /\ code' = FromEoi1(m, FALSE)
    BY <1>1, <1>4, LastIsData DEF next
  <2> QED BY <1>1, <1>2, <1>3, <1>4, <2>1 DEF AtEoi1, Untaken, Rests
<1>5. CASE ~ m.last
  <2>1. code' = FromReady(m, FALSE)
    BY <1>1, <1>5 DEF next
  <2>2. Receives(device, m)' /\ HoldsData(device)' /\ device'.state = "PRE2"
    BY <1>3 DEF Holds
  <2> QED BY <1>1, <1>2, <1>3, <1>5, <2>1, <2>2 DEF AtReady, Untaken, Rests
<1> QED BY <1>4, <1>5

\* A look, while a byte is sent: what follows for a lemma on one access.
LEMMA LookTakes ==
    ASSUME TypeOK, NEW m \in Messages, Looked, Receives(device, m), (cpu.atn <=> AtnOf(m))
    PROVE  \E a \in Answers : device' = Exec(device, 1, a) /\ Taking(device, m)
  BY LookedIs DEF Taking

LEMMA SameSent ==
    ASSUME sent' = sent, NEW m \in Messages, Same(device, device', m)
    PROVE  Receives(device, m)' /\ Untaken
  BY SentKept DEF Same, Untaken

LEMMA Eoi1Next ==
    ASSUME TypeOK, NEW m \in Messages, NEW o \in BOOLEAN, AtEoi1(m, o), Kernal
    PROVE  AtEoi2(m, FALSE)' /\ Untaken
<1>0. /\ Is(code, Waits("data", TRUE, o), FromEoi2(m, FALSE)) /\ CallsAfter(m)
      /\ cpu = Lines(TRUE, TRUE, TRUE) /\ Holds(device, m) /\ m.last
  BY FromSendIs DEF AtEoi1
<1>1. /\ Looked /\ UNCHANGED <<cpu, meddled, calls, eoi, input, sent>>
      /\ IF Bus'["data"] = TRUE THEN code' = FromEoi2(m, FALSE)
         ELSE \E p \in {o, ~ o} : code' = StillWaits("data", TRUE, p, FromEoi2(m, FALSE))
  <2>1. LooksFor("data", TRUE, o, FromEoi2(m, FALSE))
    BY <1>0, UntilMoves
  <2> QED BY <2>1 DEF LooksFor
<1>2. cpu.clk /\ cpu.data /\ (cpu.atn <=> AtnOf(m)) /\ cpu' = cpu
  BY <1>0, <1>1, LinesHigh, LastIsData
<1>3. Receives(device, m) /\ device.state = "PRE2" /\ HoldsData(device)
  BY <1>0 DEF Holds
<1>4. PICK a \in Answers : device' = Exec(device, 1, a) /\ Taking(device, m)
  BY <1>1, <1>2, <1>3, LookTakes
<1>5. Same(device, device', m) /\ InState(device', "READY")
  BY <1>2, <1>3, <1>4, TakesUp
<1>6. Bus'["data"] = TRUE
  BY <1>2, <1>5, BusIs DEF InState, Free
<1>7. Receives(device, m)' /\ Untaken /\ CallsAfter(m)' /\ code' = FromEoi2(m, FALSE)
  BY <1>0, <1>1, <1>5, <1>6, SameSent, CallsKept
<1> QED BY <1>0, <1>1, <1>5, <1>7 DEF AtEoi2

LEMMA Eoi2Next ==
    ASSUME TypeOK, NEW m \in Messages, NEW o \in BOOLEAN, AtEoi2(m, o), Kernal
    PROVE  ((\E p \in BOOLEAN : AtEoi2(m, p)') \/ AtReady(m, FALSE)') /\ Untaken
<1>0. /\ Is(code, Waits("data", FALSE, o), FromReady(m, FALSE)) /\ CallsAfter(m)
      /\ cpu = Lines(TRUE, TRUE, TRUE) /\ m.last
      /\ Receives(device, m) /\ InState(device, "READY")
  BY FromSendIs DEF AtEoi2
<1>1. /\ Looked /\ UNCHANGED <<cpu, meddled, calls, eoi, input, sent>>
      /\ IF Bus'["data"] = FALSE THEN code' = FromReady(m, FALSE)
         ELSE \E p \in {o, ~ o} : code' = StillWaits("data", FALSE, p, FromReady(m, FALSE))
  <2>1. LooksFor("data", FALSE, o, FromReady(m, FALSE))
    BY <1>0, UntilMoves
  <2> QED BY <2>1 DEF LooksFor
<1>2. cpu.clk /\ cpu.data /\ (cpu.atn <=> AtnOf(m)) /\ cpu' = cpu
  BY <1>0, <1>1, LinesHigh, LastIsData
<1>4. PICK a \in Answers : device' = Exec(device, 1, a) /\ Taking(device, m)
  BY <1>0, <1>1, <1>2, LookTakes
<1>5. /\ Same(device, device', m)
      /\ \/ InState(device', "READY")
         \/ m.kind = "data" /\ device'.state = "EOI" /\ HoldsData(device')
            /\ device'.timeout = Ack
  BY <1>0, <1>2, <1>4, ReadyWaits
<1>6. Receives(device, m)' /\ Untaken /\ CallsAfter(m)'
  BY <1>0, <1>1, <1>5, SameSent, CallsKept
<1>7. CASE InState(device', "READY")
  <2>1. Bus'["data"] # FALSE
    BY <1>2, <1>7, BusIs DEF InState, Free
  <2>2. PICK p \in BOOLEAN : code' = FromEoi2(m, p)
    BY <1>1, <2>1 DEF FromEoi2, StillWaits
  <2> QED BY <1>0, <1>1, <1>6, <1>7, <2>2 DEF AtEoi2
<1>8. CASE device'.state = "EOI" /\ HoldsData(device')
  <2>1. Bus'["data"] = FALSE
    BY <1>2, <1>8, BusIs DEF HoldsData
  <2>2. code' = FromReady(m, FALSE) /\ cpu' = Lines(AtnOf(m), TRUE, TRUE)
    BY <1>0, <1>1, <2>1, LastIsData
  <2> QED BY <1>0, <1>6, <1>8, <2>2 DEF AtReady
<1> QED BY <1>5, <1>7, <1>8

LEMMA ReadyNext ==
    ASSUME TypeOK, NEW m \in Messages, NEW o \in BOOLEAN, AtReady(m, o), Kernal
    PROVE  ((\E p \in BOOLEAN : AtReady(m, p)') \/ AtClkLo(m)') /\ Untaken
<1>0. /\ Is(code, Waits("data", TRUE, o), FromClkLo(m)) /\ CallsAfter(m)
      /\ cpu = Lines(AtnOf(m), TRUE, TRUE)
      /\ Receives(device, m) /\ HoldsData(device)
      /\ device.state = IF m.last THEN "EOI" ELSE "PRE2"
  BY FromSendIs DEF AtReady
<1>1. /\ Looked /\ UNCHANGED <<cpu, meddled, calls, eoi, input, sent>>
      /\ IF Bus'["data"] = TRUE THEN code' = FromClkLo(m)
         ELSE \E p \in {o, ~ o} : code' = StillWaits("data", TRUE, p, FromClkLo(m))
  <2>1. Is(code, Waits("data", TRUE, o), FromClkLo(m))
    BY <1>0
  <2>2. LooksFor("data", TRUE, o, FromClkLo(m))
    BY <2>1, UntilMoves
  <2> QED BY <2>2 DEF LooksFor
<1>2. cpu.clk /\ cpu.data /\ (cpu.atn <=> AtnOf(m)) /\ cpu' = cpu
  BY <1>0, <1>1, LinesHigh
<1>4. PICK a \in Answers : device' = Exec(device, 1, a) /\ Taking(device, m)
  BY <1>0, <1>1, <1>2, LookTakes
<1>5. /\ Same(device, device', m)
      /\ \/ InState(device', IF m.last THEN "EOIw" ELSE "READY")
         \/ m.last /\ device'.state = "EOI" /\ HoldsData(device')
  <2>1. CASE m.last
    <3>1. device.state = "EOI"
      BY <1>0, <2>1
    <3>2. /\ Same(device, device', m)
          /\ \/ device'.state = "EOI" /\ HoldsData(device')
                /\ device'.timeout <= device.timeout
                /\ device'.timeout = Left(device, 1) /\ device'.timeout # 0
             \/ Left(device, 1) = 0 /\ InState(device', "EOIw")
      BY <1>0, <1>4, <3>1, EoiWaits
    <3> QED BY <2>1, <3>2
  <2>2. CASE ~ m.last
    <3>1. device.state = "PRE2"
      BY <1>0, <2>2
    <3>2. Same(device, device', m) /\ InState(device', "READY")
      BY <1>0, <1>2, <1>4, <3>1, TakesUp
    <3> QED BY <2>2, <3>2
  <2> QED BY <2>1, <2>2
<1>6. Receives(device, m)' /\ Untaken /\ CallsAfter(m)'
  BY <1>0, <1>1, <1>5, SameSent, CallsKept
<1>7. CASE InState(device', IF m.last THEN "EOIw" ELSE "READY")
  <2>1. Bus'["data"] = TRUE
    BY <1>2, <1>7, BusIs DEF InState, Free
  <2>2. code' = FromClkLo(m)
    BY <1>1, <2>1
  <2> QED BY <1>0, <1>1, <1>6, <1>7, <2>2 DEF AtClkLo
<1>8. CASE m.last /\ device'.state = "EOI" /\ HoldsData(device')
  <2>1. Bus'["data"] # TRUE
    BY <1>2, <1>8, BusIs DEF HoldsData
  <2>2. PICK p \in BOOLEAN : code' = FromReady(m, p)
    BY <1>1, <2>1 DEF FromReady, StillWaits
  <2>3. HoldsData(device)' /\ device'.state = IF m.last THEN "EOI" ELSE "PRE2"
    BY <1>8
  <2> QED BY <1>0, <1>1, <1>6, <2>2, <2>3 DEF AtReady
<1> QED BY <1>5, <1>7, <1>8

LEMMA SameTwice ==
    ASSUME NEW u, NEW v, NEW w, NEW m, Same(u, v, m), Same(v, w, m)
    PROVE  Same(u, w, m)
  BY DEF Same

LEMMA AccessTakes ==
    ASSUME Accessed, NEW m \in Messages, Receives(device, m), (cpu.atn <=> AtnOf(m))
    PROVE  \E d, a, p :
             /\ d \in Nat /\ a \in Answers
             /\ Taking(device, m) /\ p = Exec(device, d, a) /\ Typed(p)
             /\ device' = p \/ device' = Exec(p, 0, a)
  BY DEF Accessed, Taking

(* The bits. *)
LEMMA HasKept ==
    ASSUME NEW u, NEW v, NEW m, NEW i, Has(u, m, i), Same(u, v, m), v.byte = u.byte
    PROVE  Has(v, m, i)
  BY DEF Has, Same

LEMMA BitStays ==
    ASSUME NEW u, NEW m \in Messages, Taking(u, m), ~ cpu.clk, NEW i, InBit(u, "BIT", i),
           Has(u, m, i), NEW d \in Nat, NEW a
    PROVE  LET v == Exec(u, d, a)
           IN  Same(u, v, m) /\ InBit(v, "BIT", i) /\ Has(v, m, i)
<1> DEFINE v == Exec(u, d, a)
<1>1. Receiving(u) /\ Typed(u) /\ u.state = "BIT" /\ u.clk /\ u.data /\ u.bit = i
  BY ReceivesIs DEF Taking, InState, InBit, Free
<1>2. Goes(u, v, "BIT", u.bit, u.byte, Left(u, d), u.clk, u.data)
  BY <1>1, ReceivesBits
<1> HIDE DEF v
<1>3. Same(u, v, m) /\ v.state = "BIT" /\ v.bit = u.bit /\ v.clk = u.clk /\ v.data = u.data
      /\ v.byte = u.byte
  BY <1>2, GoesSame DEF Taking
<1>4. Has(v, m, i)
  BY <1>3, HasKept
<1> QED BY <1>1, <1>3, <1>4 DEF InState, InBit, Free, v

LEMMA BitWaits ==
    ASSUME NEW u, NEW m \in Messages, Taking(u, m), cpu.clk, NEW i, InBit(u, "BITw", i),
           NEW k, Has(u, m, k), NEW d \in Nat, NEW a
    PROVE  LET v == Exec(u, d, a)
           IN  Same(u, v, m) /\ InBit(v, "BITw", i) /\ Has(v, m, k)
<1> DEFINE v == Exec(u, d, a)
<1>1. Receiving(u) /\ Typed(u) /\ u.state = "BITw" /\ u.clk /\ u.data /\ u.bit = i
  BY ReceivesIs DEF Taking, InState, InBit, Free
<1>2. Goes(u, v, "BITw", u.bit, u.byte, Left(u, d), u.clk, u.data)
  BY <1>1, ReceivesBits
<1> HIDE DEF v
<1>3. Same(u, v, m) /\ v.state = "BITw" /\ v.bit = u.bit /\ v.clk = u.clk /\ v.data = u.data
      /\ v.byte = u.byte
  BY <1>2, GoesSame DEF Taking
<1>4. Has(v, m, k)
  BY <1>3, HasKept
<1> QED BY <1>1, <1>3, <1>4 DEF InState, InBit, Free, v

LEMMA BitNext ==
    ASSUME NEW u, NEW m \in Messages, Taking(u, m), ~ cpu.clk, NEW i \in 1 .. Bits - 1,
           InBit(u, "BITw", i - 1), Has(u, m, i), NEW d \in Nat, NEW a
    PROVE  LET v == Exec(u, d, a)
           IN  Same(u, v, m) /\ InBit(v, "BIT", i) /\ Has(v, m, i)
<1> DEFINE v == Exec(u, d, a)
<1>1. Receiving(u) /\ Typed(u) /\ u.state = "BITw" /\ u.clk /\ u.data /\ u.bit = i - 1
  BY ReceivesIs DEF Taking, InState, InBit, Free
<1>2. u.bit < Bits - 1 /\ u.bit + 1 = i
  BY <1>1, BitsAssumption
<1>3. Goes(u, v, "BIT", u.bit + 1, u.byte, Left(u, d), u.clk, u.data)
  BY <1>1, <1>2, ReceivesBits
<1> HIDE DEF v
<1>4. Same(u, v, m) /\ v.state = "BIT" /\ v.bit = u.bit + 1 /\ v.clk = u.clk
      /\ v.data = u.data /\ v.byte = u.byte
  BY <1>3, GoesSame DEF Taking
<1>5. Has(v, m, i)
  BY <1>4, HasKept
<1> QED BY <1>1, <1>2, <1>4, <1>5 DEF InState, InBit, Free, v

LEMMA BitTaken ==
    ASSUME NEW u, NEW m \in Messages, Taking(u, m), cpu.clk, NEW i \in 0 .. Bits - 1,
           InBit(u, "BIT", i), Has(u, m, i), (cpu.data <=> i \in m.byte),
           NEW d \in Nat, NEW a
    PROVE  LET v == Exec(u, d, a)
           IN  Same(u, v, m) /\ InBit(v, "BITw", i) /\ Has(v, m, i + 1)
<1> DEFINE v == Exec(u, d, a)
           data == cpu.data /\ u.data
           y == WithBit(u.byte, u.bit, data)
<1>1. Receiving(u) /\ Typed(u) /\ u.state = "BIT" /\ u.clk /\ u.data /\ u.bit = i
  BY ReceivesIs DEF Taking, InState, InBit, Free
<1>2. Goes(u, v, "BITw", u.bit, y, Left(u, d), u.clk, u.data)
  BY <1>1, ReceivesBits
<1>3. data <=> i \in m.byte
  BY <1>1
<1>4. y = IF i \in m.byte THEN u.byte \union {i} ELSE u.byte \ {i}
  BY <1>1, <1>3 DEF WithBit
<1> HIDE DEF v, y
<1>5. Same(u, v, m) /\ v.state = "BITw" /\ v.bit = u.bit /\ v.clk = u.clk
      /\ v.data = u.data /\ v.byte = y
  BY <1>2, GoesSame DEF Taking
<1>6. \A j \in 0 .. i - 1 : j \in u.byte <=> j \in m.byte
  BY DEF Has
<1>7. \A j \in 0 .. (i + 1) - 1 : j \in y <=> j \in m.byte
  BY <1>4, <1>6, BitsAssumption
<1>8. Has(v, m, i + 1)
  BY <1>5, <1>7 DEF Has, Same
<1> QED BY <1>1, <1>5, <1>8 DEF InState, InBit, Free, v

(* The stores of a byte: the lines, and one access or two. *)
LEMMA ClkSends ==
    ASSUME TypeOK, Kernal, NEW m \in Messages, NEW x, NEW s, NEW c, NEW d,
           cpu = Lines(AtnOf(m), c, d), Is(code, StoreOf([clk |-> x], 0), s)
    PROVE  /\ cpu' = Lines(AtnOf(m), x, d) /\ code' = s /\ Rests /\ Accessed
           /\ (cpu.atn <=> AtnOf(m)) /\ cpu.clk = c /\ cpu.data = d
<1> DEFINE at == AtnOf(m)
<1>1. cpu = Lines(at, c, d)
  OBVIOUS
<1> HIDE DEF at
<1>2. cpu' = Lines(at, x, d) /\ code' = s /\ Rests /\ Accessed
      /\ cpu.atn = at /\ cpu.clk = c /\ cpu.data = d
  BY <1>1, ClkGoes
<1> QED BY <1>2 DEF at

LEMMA DataSends ==
    ASSUME TypeOK, Kernal, NEW m \in Messages, NEW x, NEW s, NEW c, NEW d,
           cpu = Lines(AtnOf(m), c, d), Is(code, StoreOf([data |-> x], 0), s)
    PROVE  /\ cpu' = Lines(AtnOf(m), c, x) /\ code' = s /\ Rests /\ Accessed
           /\ (cpu.atn <=> AtnOf(m)) /\ cpu.clk = c /\ cpu.data = d
<1> DEFINE at == AtnOf(m)
<1>1. cpu = Lines(at, c, d)
  OBVIOUS
<1> HIDE DEF at
<1>2. cpu' = Lines(at, c, x) /\ code' = s /\ Rests /\ Accessed
      /\ cpu.atn = at /\ cpu.clk = c /\ cpu.data = d
  BY <1>1, DataGoes
<1> QED BY <1>2 DEF at

LEMMA BothGo ==
    ASSUME TypeOK, Kernal, NEW x, NEW y, NEW s,
           NEW a, NEW c, NEW d, cpu = Lines(a, c, d),
           Is(code, StoreOf([clk |-> x, data |-> y], 0), s)
    PROVE  /\ cpu' = Lines(a, x, y) /\ code' = s /\ Rests /\ Accessed
           /\ cpu.atn = a /\ cpu.clk = c /\ cpu.data = d
<1> DEFINE same == c = x /\ d = y
<1>1. cpu' = Lines(a, x, y) /\ Stored(0, same) /\ code' = s /\ Rests
  BY ClkDataMoves
<1> HIDE DEF same
<1>2. Accessed
  BY <1>1, AccessedIs, TimesToWait
<1> QED BY <1>1, <1>2, LinesHigh

LEMMA BothSend ==
    ASSUME TypeOK, Kernal, NEW m \in Messages, NEW s, NEW d, NEW c, NEW x, NEW y,
           cpu = Lines(AtnOf(m), c, d),
           Is(code, StoreOf([clk |-> x, data |-> y], 0), s)
    PROVE  /\ cpu' = Lines(AtnOf(m), x, y) /\ code' = s /\ Rests /\ Accessed
           /\ (cpu.atn <=> AtnOf(m)) /\ cpu.clk = c /\ cpu.data = d
<1> DEFINE at == AtnOf(m)
<1>1. cpu = Lines(at, c, d)
  OBVIOUS
<1> HIDE DEF at
<1>2. /\ cpu' = Lines(at, x, y) /\ code' = s /\ Rests /\ Accessed
      /\ cpu.atn = at /\ cpu.clk = c /\ cpu.data = d
  BY <1>1, BothGo
<1> QED BY <1>2 DEF at

LEMMA CallsFor ==
    ASSUME NEW m, CallsAfter(m)
    PROVE  /\ m.kind \in {"listen", "absent"} => Addressing(calls)
           /\ m.kind = "talk" => calls = Talking /\ eoi = FALSE
           /\ m.kind \in {"second", "data"} => Writing(calls)
           /\ m.kind = "turn" => ReadsNext
           /\ m.kind \in Closing => calls = << >>
<1>1. CASE m.kind \in {"listen", "absent"}
  BY <1>1 DEF CallsAfter, Closing
<1>2. CASE m.kind = "talk"
  BY <1>2 DEF CallsAfter, Closing
<1>3. CASE m.kind \in {"second", "data"}
  BY <1>3 DEF CallsAfter, Closing
<1>4. CASE m.kind = "turn"
  BY <1>4 DEF CallsAfter, Closing
<1>5. CASE m.kind \in Closing
  BY <1>5 DEF CallsAfter, Closing
<1> QED BY <1>1, <1>2, <1>3, <1>4, <1>5 DEF Closing

LEMMA ClkLoNext ==
    ASSUME TypeOK, NEW m \in Messages, AtClkLo(m), Kernal
    PROVE  AtNeedBit(m, 0)' /\ Untaken
<1>a. Is(code, StoreOf([clk |-> FALSE], 0), FromBit(m, 0))
  BY FromSendIs, StoreIs DEF AtClkLo
<1>b. cpu = Lines(AtnOf(m), TRUE, TRUE)
  BY DEF AtClkLo
<1>0. Receives(device, m) /\ InState(device, IF m.last THEN "EOIw" ELSE "READY")
      /\ CallsAfter(m)
  BY DEF AtClkLo
<1>1. /\ cpu' = Lines(AtnOf(m), FALSE, TRUE) /\ code' = FromBit(m, 0) /\ Rests /\ Accessed
      /\ (cpu.atn <=> AtnOf(m)) /\ cpu.clk
  BY <1>a, <1>b, ClkSends
<1>2. PICK d, a, p :
        /\ d \in Nat /\ a \in Answers
        /\ Taking(device, m) /\ p = Exec(device, d, a) /\ Typed(p)
        /\ device' = p \/ device' = Exec(p, 0, a)
  BY <1>0, <1>1, AccessTakes
<1>3. \A u : Typed(u) /\ Same(device, u, m) => Taking(u, m)
  BY <1>1 DEF Taking, Same
<1> DEFINE Next0(u) ==
        \/ InState(u, IF m.last THEN "EOIw" ELSE "READY")
        \/ m.kind = "data" /\ u.state = "EOI" /\ HoldsData(u) /\ u.timeout <= Ack
<1>4. Same(device, device', m) /\ Next0(device')
  <2>1. CASE m.last
    <3>1. InState(device, "EOIw")
      BY <1>0, <2>1
    <3>2. Same(device, p, m) /\ InState(p, "EOIw")
      BY <1>1, <1>2, <3>1, EoiwMoves
    <3>3. Taking(p, m)
      BY <1>2, <1>3, <3>2
    <3>4. Same(p, Exec(p, 0, a), m) /\ InState(Exec(p, 0, a), "EOIw")
      BY <1>1, <3>2, <3>3, EoiwMoves
    <3>5. Same(device, Exec(p, 0, a), m)
      BY <3>2, <3>4, SameTwice
    <3> QED BY <1>2, <2>1, <3>2, <3>4, <3>5
  <2>2. CASE ~ m.last
    <3> DEFINE After0(u) == \/ InState(u, "READY")
                            \/ /\ m.kind = "data" /\ u.state = "EOI" /\ HoldsData(u)
                               /\ u.timeout = Ack
    <3>1. InState(device, "READY")
      BY <1>0, <2>2
    <3>2. Same(device, p, m) /\ After0(p)
      BY <1>1, <1>2, <3>1, ReadyWaits
    <3>3. Taking(p, m)
      BY <1>2, <1>3, <3>2
    <3>4. CASE InState(p, "READY")
      <4>1. Same(p, Exec(p, 0, a), m) /\ After0(Exec(p, 0, a))
        BY <1>1, <3>3, <3>4, ReadyWaits
      <4>2. Same(device, Exec(p, 0, a), m)
        BY <3>2, <4>1, SameTwice
      <4> QED BY <1>2, <2>2, <3>2, <3>4, <4>1, <4>2, TimesAre
    <3>5. CASE m.kind = "data" /\ p.state = "EOI" /\ HoldsData(p) /\ p.timeout = Ack
      <4> DEFINE q == Exec(p, 0, a)
      <4>1. Left(p, 0) = Ack
        BY <1>2, <3>5, LeftIs
      <4>2. /\ Same(p, q, m)
            /\ \/ q.state = "EOI" /\ HoldsData(q) /\ q.timeout <= p.timeout
                  /\ q.timeout = Left(p, 0) /\ q.timeout # 0
               \/ Left(p, 0) = 0 /\ InState(q, "EOIw")
        BY <3>3, <3>5, EoiWaits
      <4> HIDE DEF q
      <4>3. q.state = "EOI" /\ HoldsData(q) /\ q.timeout = Ack
        BY <4>1, <4>2, TimesAre
      <4>4. Same(device, q, m)
        BY <3>2, <4>2, SameTwice
      <4>5. device' = p \/ device' = q
        BY <1>2 DEF q
      <4>6. Ack <= Ack
        BY TimesAre
      <4> QED BY <3>2, <3>5, <4>3, <4>4, <4>5, <4>6
    <3> QED BY <3>2, <3>4, <3>5
  <2> QED BY <2>1, <2>2
<1>5. Receives(device, m)' /\ Untaken /\ CallsAfter(m)'
  BY <1>0, <1>1, <1>4, SameSent, CallsKept DEF Rests
<1> QED BY <1>1, <1>4, <1>5 DEF AtNeedBit

LEMMA HasNothing ==
    ASSUME NEW u, NEW m, Receives(u, m)
    PROVE  Has(u, m, 0)
  BY DEF Has

LEMMA NeedBitNext ==
    ASSUME TypeOK, NEW m \in Messages, NEW i \in 0 .. Bits - 1, AtNeedBit(m, i), Kernal
    PROVE  (AtBitData(m, i)' \/ AtFinish') /\ Untaken
<1>a. Is(code, Need(TRUE), FromBitData(m, i))
  BY FromBitIs DEF AtNeedBit
<1>b. cpu = Lines(AtnOf(m), FALSE, TRUE) /\ CallsAfter(m)
  BY DEF AtNeedBit
<1>1. /\ Looked /\ UNCHANGED <<cpu, meddled, eoi, input, sent>>
      /\ IF Bus'.data = TRUE THEN code' = FromBitData(m, i) /\ calls' = calls
                              ELSE code' = Finish /\ calls' = calls
  <2>1. /\ Looked /\ UNCHANGED <<cpu, meddled, eoi, input, sent>>
        /\ IF Bus'.data = TRUE THEN code' = FromBitData(m, i) /\ calls' = calls
           ELSE code' = Finish /\ calls' = IF TRUE THEN calls ELSE << >>
    BY <1>a, NeedMoves
  <2> QED BY <2>1
<1>2. (cpu.atn <=> AtnOf(m)) /\ ~ cpu.clk /\ cpu.data /\ cpu' = cpu
  BY <1>1, <1>b, LinesHigh
<1>3. CallsAfter(m)'
  BY <1>1, <1>b, CallsKept
<1>4. Receives(device, m)
  BY DEF AtNeedBit, Has
<1>5. PICK a \in Answers : device' = Exec(device, 1, a) /\ Taking(device, m)
  BY <1>1, <1>2, <1>4, LookTakes
<1>6. ASSUME Same(device, device', m), InBit(device', "BIT", i), Has(device', m, i)
      PROVE  AtBitData(m, i)' /\ Untaken
  <2>1. Bus'.data = TRUE
    BY <1>2, <1>6, BusIs DEF InBit, InState, Free
  <2>2. code' = FromBitData(m, i)
    BY <1>1, <2>1
  <2>3. Has(device, m, i)' /\ Untaken
    BY <1>1, <1>6, SentKept, SameSent
  <2> QED BY <1>b, <1>1, <1>3, <1>6, <2>2, <2>3 DEF AtBitData
<1>7. CASE i > 0 /\ Has(device, m, i) /\ InBit(device, "BITw", i - 1)
  <2>1. i \in 1 .. Bits - 1
    BY <1>7
  <2>2. Same(device, device', m) /\ InBit(device', "BIT", i) /\ Has(device', m, i)
    BY <1>2, <1>5, <1>7, <2>1, BitNext
  <2> QED BY <1>6, <2>2
<1>8. CASE i = 0 /\ InState(device, "READY")
  <2>1. Same(device, device', m) /\ InBit(device', "BIT", 0)
    BY <1>2, <1>5, <1>8, ReadyGoes
  <2>2. Has(device', m, 0)
    BY <2>1, HasNothing DEF Same
  <2> QED BY <1>6, <1>8, <2>1, <2>2
<1>9. CASE i = 0 /\ InState(device, "EOIw")
  <2>1. Same(device, device', m) /\ InBit(device', "BIT", 0)
    BY <1>2, <1>5, <1>9, EoiwMoves
  <2>2. Has(device', m, 0)
    BY <2>1, HasNothing DEF Same
  <2> QED BY <1>6, <1>9, <2>1, <2>2
<1>10. CASE /\ i = 0 /\ m.kind = "data" /\ device.state = "EOI" /\ HoldsData(device)
            /\ device.timeout <= Ack
  <2>1. /\ Same(device, device', m)
        /\ \/ device'.state = "EOI" /\ HoldsData(device')
              /\ device'.timeout <= device.timeout
              /\ device'.timeout = Left(device, 1) /\ device'.timeout # 0
           \/ Left(device, 1) = 0 /\ InState(device', "EOIw")
    BY <1>5, <1>10, EoiWaits
  <2>2. Receives(device, m)' /\ Untaken
    BY <1>1, <2>1, SameSent
  <2>3. CASE InState(device', "EOIw")
    <3>1. Bus'.data = TRUE
      BY <1>2, <2>3, BusIs DEF InState, Free
    <3>2. code' = FromBitData(m, i)
      BY <1>1, <3>1
    <3> QED BY <1>b, <1>1, <1>3, <1>10, <2>2, <2>3, <3>2 DEF AtBitData
  <2>4. CASE device'.state = "EOI" /\ HoldsData(device') /\ device'.timeout <= device.timeout
    <3>1. Bus'.data # TRUE
      BY <1>2, <2>4, BusIs DEF HoldsData
    <3>2. code' = Finish /\ calls' = calls
      BY <1>1, <3>1
    <3>3. cpu' = Lines(TRUE, FALSE, TRUE)
      BY <1>b, <1>1, <1>10 DEF AtnOf
    <3>4. Writing(calls')
      BY <1>b, <1>10, <3>2, CallsFor
    <3>5. device'.timeout <= Ack
      <4>1. Typed(device) /\ device.timeout \in Nat
        BY <1>5 DEF Taking, Typed
      <4>2. Left(device, 1) \in Nat
        BY <4>1, LeftIs
      <4>3. device'.timeout \in Nat
        BY <2>1, <2>4, <4>2 DEF InState
      <4> QED BY <1>10, <2>4, <4>1, <4>3, TimesAre
    <3>6. With(device', {"LISTENING"})
      BY <1>10, <2>1 DEF Same, Receives
    <3>7. Slips(device')
      BY <2>4, <3>5, <3>6 DEF Slips
    <3>8. Writing(calls)' /\ Slips(device)'
      BY <3>4, <3>7
    <3> QED BY <2>2, <3>2, <3>3, <3>8 DEF AtFinish, AfterFail, WritesNext
  <2> QED BY <2>1, <2>3, <2>4
<1> QED BY <1>7, <1>8, <1>9, <1>10 DEF AtNeedBit

LEMMA TakingOn ==
    ASSUME NEW u, NEW m, Same(device, u, m), Typed(u), (cpu.atn <=> AtnOf(m))
    PROVE  Taking(u, m)
  BY DEF Taking, Same

LEMMA BitStaysAfter ==
    ASSUME Accessed, NEW m \in Messages, Receives(device, m), (cpu.atn <=> AtnOf(m)), ~ cpu.clk,
           NEW i \in 0 .. Bits - 1,
           \/ InBit(device, "BIT", i) /\ Has(device, m, i)
           \/ i = 0 /\ InState(device, "EOIw")
    PROVE  Same(device, device', m) /\ InBit(device', "BIT", i) /\ Has(device', m, i)
<1>1. PICK d, a, p :
        /\ d \in Nat /\ a \in Answers
        /\ Taking(device, m) /\ p = Exec(device, d, a) /\ Typed(p)
        /\ device' = p \/ device' = Exec(p, 0, a)
  BY AccessTakes
<1>2. Same(device, p, m) /\ InBit(p, "BIT", i) /\ Has(p, m, i)
  <2>1. CASE InBit(device, "BIT", i) /\ Has(device, m, i)
    BY <1>1, <2>1, BitStays
  <2>2. CASE i = 0 /\ InState(device, "EOIw")
    <3>1. Same(device, p, m) /\ InBit(p, "BIT", 0)
      BY <1>1, <2>2, EoiwMoves
    <3> QED BY <2>2, <3>1, HasNothing DEF Same
  <2> QED BY <2>1, <2>2
<1>3. Taking(p, m)
  BY <1>1, <1>2, TakingOn
<1> DEFINE q == Exec(p, 0, a)
<1>4. Same(p, q, m) /\ InBit(q, "BIT", i) /\ Has(q, m, i)
  BY <1>2, <1>3, BitStays
<1> HIDE DEF q
<1>5. Same(device, q, m)
  BY <1>2, <1>4, SameTwice
<1>6. device' = p \/ device' = q
  BY <1>1 DEF q
<1> QED BY <1>2, <1>4, <1>5, <1>6

LEMMA BitDataNext ==
    ASSUME TypeOK, NEW m \in Messages, NEW i \in 0 .. Bits - 1, AtBitData(m, i), Kernal
    PROVE  AtBitClkHi(m, i)' /\ Untaken
<1>a. Is(code, StoreOf([data |-> i \in m.byte], 0), FromBitClkHi(m, i))
  BY FromBitIs, StoreIs DEF AtBitData
<1>b. cpu = Lines(AtnOf(m), FALSE, TRUE)
  BY DEF AtBitData
<1>0. /\ CallsAfter(m) /\ Receives(device, m)
      /\ \/ InBit(device, "BIT", i) /\ Has(device, m, i)
         \/ i = 0 /\ InState(device, "EOIw")
  BY DEF AtBitData, Has
<1>1. /\ cpu' = Lines(AtnOf(m), FALSE, i \in m.byte) /\ code' = FromBitClkHi(m, i)
      /\ Rests /\ Accessed /\ (cpu.atn <=> AtnOf(m)) /\ ~ cpu.clk
  BY <1>a, <1>b, DataSends
<1>2. Same(device, device', m) /\ InBit(device', "BIT", i) /\ Has(device', m, i)
  BY <1>0, <1>1, BitStaysAfter
<1>3. Has(device, m, i)' /\ Untaken /\ CallsAfter(m)'
  BY <1>0, <1>1, <1>2, SentKept, SameSent, CallsKept DEF Rests
<1> QED BY <1>1, <1>2, <1>3 DEF AtBitClkHi

LEMMA BitClkHiNext ==
    ASSUME TypeOK, NEW m \in Messages, NEW i \in 0 .. Bits - 1, AtBitClkHi(m, i), Kernal
    PROVE  AtBitClkLo(m, i)' /\ Untaken
<1>a. Is(code, StoreOf([clk |-> TRUE], 0), FromBitClkLo(m, i))
  BY FromBitIs, StoreIs DEF AtBitClkHi
<1>b. cpu = Lines(AtnOf(m), FALSE, i \in m.byte)
  BY DEF AtBitClkHi
<1>0. /\ CallsAfter(m) /\ Receives(device, m)
      /\ InBit(device, "BIT", i) /\ Has(device, m, i)
  BY DEF AtBitClkHi, Has
<1>1. /\ cpu' = Lines(AtnOf(m), TRUE, i \in m.byte) /\ code' = FromBitClkLo(m, i)
      /\ Rests /\ Accessed /\ (cpu.atn <=> AtnOf(m)) /\ ~ cpu.clk
  BY <1>a, <1>b, ClkSends
<1>2. Same(device, device', m) /\ InBit(device', "BIT", i) /\ Has(device', m, i)
  BY <1>0, <1>1, BitStaysAfter
<1>3. Has(device, m, i)' /\ Untaken /\ CallsAfter(m)'
  BY <1>0, <1>1, <1>2, SentKept, SameSent, CallsKept DEF Rests
<1> QED BY <1>1, <1>2, <1>3 DEF AtBitClkLo

LEMMA BitTakenAfter ==
    ASSUME Accessed, NEW m \in Messages, Receives(device, m), (cpu.atn <=> AtnOf(m)), cpu.clk,
           NEW i \in 0 .. Bits - 1, InBit(device, "BIT", i), Has(device, m, i),
           (cpu.data <=> i \in m.byte)
    PROVE  Same(device, device', m) /\ InBit(device', "BITw", i) /\ Has(device', m, i + 1)
<1>1. PICK d, a, p :
        /\ d \in Nat /\ a \in Answers
        /\ Taking(device, m) /\ p = Exec(device, d, a) /\ Typed(p)
        /\ device' = p \/ device' = Exec(p, 0, a)
  BY AccessTakes
<1>2. Same(device, p, m) /\ InBit(p, "BITw", i) /\ Has(p, m, i + 1)
  BY <1>1, BitTaken
<1>3. Taking(p, m)
  BY <1>1, <1>2, TakingOn
<1> DEFINE q == Exec(p, 0, a)
<1>4. Same(p, q, m) /\ InBit(q, "BITw", i) /\ Has(q, m, i + 1)
  BY <1>2, <1>3, BitWaits
<1> HIDE DEF q
<1>5. Same(device, q, m)
  BY <1>2, <1>4, SameTwice
<1>6. device' = p \/ device' = q
  BY <1>1 DEF q
<1> QED BY <1>2, <1>4, <1>5, <1>6

LEMMA BitClkLoNext ==
    ASSUME TypeOK, NEW m \in Messages, NEW i \in 0 .. Bits - 1, AtBitClkLo(m, i), Kernal
    PROVE  (IF i = Bits - 1 THEN AtAck(m, AckWait)' ELSE AtNeedBit(m, i + 1)') /\ Untaken
<1>a. Is(code, StoreOf([clk |-> FALSE, data |-> TRUE], 0), FromBit(m, i + 1))
  BY FromBitIs, StoreIs DEF AtBitClkLo
<1>b. cpu = Lines(AtnOf(m), TRUE, i \in m.byte)
  BY DEF AtBitClkLo
<1>0. /\ CallsAfter(m) /\ Receives(device, m)
      /\ InBit(device, "BIT", i) /\ Has(device, m, i)
  BY DEF AtBitClkLo, Has
<1>1. /\ cpu' = Lines(AtnOf(m), FALSE, TRUE) /\ code' = FromBit(m, i + 1)
      /\ Rests /\ Accessed /\ (cpu.atn <=> AtnOf(m)) /\ cpu.clk = TRUE
      /\ cpu.data = (i \in m.byte)
  BY <1>a, <1>b, BothSend
<1>2. Same(device, device', m) /\ InBit(device', "BITw", i) /\ Has(device', m, i + 1)
  BY <1>0, <1>1, BitTakenAfter
<1>3. Has(device, m, i + 1)' /\ Untaken /\ CallsAfter(m)'
  BY <1>0, <1>1, <1>2, SentKept, SameSent, CallsKept DEF Rests
<1>4. CASE i = Bits - 1
  <2>1. i + 1 = Bits
    BY <1>4, BitsAssumption
  <2>2. code' = FromAck(m, AckWait)
    BY <1>1, <2>1, FromBitsEnd
  <2> QED BY <1>1, <1>2, <1>3, <1>4, <2>1, <2>2 DEF AtAck
<1>5. CASE i # Bits - 1
  <2>1. i + 1 > 0 /\ (i + 1) - 1 = i
    BY BitsAssumption
  <2> QED BY <1>1, <1>2, <1>3, <1>5, <2>1 DEF AtNeedBit
<1> QED BY <1>4, <1>5

(* The last bit: the byte is taken. *)
LEMMA HasAll ==
    ASSUME NEW u, u.byte \in Byte, NEW m \in Messages, Has(u, m, Bits)
    PROVE  u.byte = m.byte
<1>1. \A j \in 0 .. Bits - 1 : j \in u.byte <=> j \in m.byte
  BY DEF Has
<1>2. u.byte \subseteq 0 .. Bits - 1 /\ m.byte \subseteq 0 .. Bits - 1
  BY DEF Byte, Messages
<1> QED BY <1>1, <1>2

LEMMA MessageIs ==
    ASSUME NEW m \in Messages
    PROVE  /\ m.kind \in {"listen", "talk", "absent", "second", "turn", "data",
                           "unlisten", "untalk"}
           /\ m.byte \in Byte
           /\ m.kind = "listen" => m.byte = LISTEN
           /\ m.kind = "talk" => m.byte = TALK
           /\ m.kind = "absent" => m.byte = ABSENT
           /\ m.kind = "second" => m.byte \in {OPEN, DATA, CLOSE}
           /\ m.kind = "turn" => m.byte = DATA
           /\ m.kind = "unlisten" => m.byte = UNLISTEN
           /\ m.kind = "untalk" => m.byte = UNTALK
  BY DEF Messages

LEMMA LastBit ==
    ASSUME NEW u, NEW m \in Messages, Taking(u, m), ~ cpu.clk, Has(u, m, Bits),
           InBit(u, "BITw", Bits - 1), NEW d \in Nat, NEW a
    PROVE  \E w : /\ Shape(w) /\ Keep(u, w) /\ w.byte = m.byte /\ w.clk /\ w.data
                  /\ w.bit = u.bit /\ w.state = u.state /\ w.timeout = Left(u, d)
                  /\ Exec(u, d, a) = IF m.kind = "data" THEN ByteForChannel(w, a)
                                                        ELSE ByteUnderAtn(w)
<1>1. /\ Receiving(u) /\ Typed(u) /\ u.state = "BITw" /\ u.clk /\ u.data
      /\ u.bit = Bits - 1 /\ Receives(u, m)
  BY ReceivesIs DEF Taking, InState, InBit, Free
<1>2. u.byte = m.byte
  BY <1>1, HasAll DEF Typed
<1>3. PICK w : /\ Goes(u, w, u.state, u.bit, u.byte, Left(u, d), u.clk, u.data)
               /\ Shape(w) /\ Exec(u, d, a) = Receive(w, BusWith(u), a)
  BY <1>1, ReceiveAfter DEF Receiving
<1>4. /\ Keep(u, w) /\ w.state = "BITw" /\ w.bit = Bits - 1 /\ w.byte = m.byte
      /\ w.timeout = Left(u, d) /\ w.clk /\ w.data /\ w.flags = u.flags
  BY <1>1, <1>2, <1>3 DEF Goes, Keep
<1>5. ~ BusWith(u).clk
  BY DEF BusWith
<1>6. ~ w.bit < Bits - 1
  BY <1>4, BitsAssumption
<1>7. Receive(w, BusWith(u), a) = IF "ATN" \in w.flags THEN ByteUnderAtn(w)
                                                       ELSE ByteForChannel(w, a)
  BY <1>4, <1>5, <1>6, ReceiveLastBit
<1>8. "ATN" \in u.flags <=> m.kind # "data"
  BY <1>1, FlagsOf
<1>9. Exec(u, d, a) = IF m.kind = "data" THEN ByteForChannel(w, a) ELSE ByteUnderAtn(w)
  BY <1>3, <1>4, <1>7, <1>8
<1> QED BY <1>1, <1>3, <1>4, <1>9

LEMMA LastUnderAtn ==
    ASSUME NEW u, NEW m \in Messages, Taking(u, m), ~ cpu.clk, Has(u, m, Bits),
           InBit(u, "BITw", Bits - 1), m.kind # "data", NEW d \in Nat, NEW a
    PROVE  LET v == Exec(u, d, a)
           IN  /\ v.taken = u.taken
               /\ m.kind = "absent" => NotThere(v)
               /\ m.kind \in Closing => Closed(v)
               /\ m.kind \in {"listen", "second"} => AddressedBy(v, LISTEN, {"LISTENING"})
               /\ m.kind \in {"talk", "turn"} => AddressedBy(v, TALK, {"LISTENING"})
               /\ m.kind \in {"listen", "talk"} => v.secondary = NONE
<1> DEFINE v == Exec(u, d, a)
<1>1. PICK w : /\ Shape(w) /\ Keep(u, w) /\ w.byte = m.byte /\ w.clk /\ w.data
               /\ w.bit = u.bit /\ w.state = u.state /\ w.timeout = Left(u, d)
               /\ v = IF m.kind = "data" THEN ByteForChannel(w, a) ELSE ByteUnderAtn(w)
  BY LastBit
<1>2. v = ByteUnderAtn(w)
  BY <1>1
<1> HIDE DEF v
<1>3. /\ Channel(w, v) /\ v.flags = w.flags
      /\ v.primary = IF w.primary = NONE THEN w.byte ELSE w.primary
      /\ v.secondary = IF w.primary # NONE /\ w.secondary = NONE THEN w.byte ELSE w.secondary
      /\ IF v.primary \in {LISTEN, TALK, UNLISTEN, UNTALK}
         THEN v.state = "PRE2" /\ v.clk = TRUE /\ v.data = FALSE
         ELSE v.state = "DONE0" /\ v.clk = w.clk /\ v.data = w.data
  <2> DEFINE x == ByteUnderAtn(w)
  <2>1. /\ Channel(w, x) /\ x.flags = w.flags
        /\ x.primary = IF w.primary = NONE THEN w.byte ELSE w.primary
        /\ x.secondary = IF w.primary # NONE /\ w.secondary = NONE THEN w.byte ELSE w.secondary
    BY <1>1, ByteUnderAtnIs
  <2>2. IF x.primary \in {LISTEN, TALK, UNLISTEN, UNTALK}
        THEN x.state = "PRE2" /\ x.clk = TRUE /\ x.data = FALSE
        ELSE x.state = "DONE0" /\ x.clk = w.clk /\ x.data = w.data
    BY <1>1, ByteUnderAtnIs
  <2> HIDE DEF x
  <2>3. v = x
    BY <1>2 DEF x
  <2> QED BY <2>1, <2>2, <2>3
<1>4. UnderAtn(u, m)
  BY DEF Taking, Receives
<1>5. UnderAtn(w, m)
  BY <1>1, <1>4, GoesReceives
<1>6. Under(w, OtherFlags(m)) /\ w.primary = AddressBefore(m) /\ w.secondary = NONE
  BY <1>5 DEF UnderAtn
<1>7. Under(v, OtherFlags(m))
  <2>1. Level(w) => Level(v)
    BY <1>3, KeepLevel
  <2>2. v.enabled = w.enabled
    BY <1>3 DEF Channel
  <2> QED BY <1>3, <1>6, <2>1, <2>2 DEF Under
<1>8. v.taken = u.taken
  BY <1>1, <1>3 DEF Channel, Keep
<1>9. v.primary \in {LISTEN, TALK, UNLISTEN, UNTALK} => v.state = "PRE2" /\ HoldsData(v)
  BY <1>3 DEF HoldsData
<1>10. CASE m.kind = "absent"
  <2>1. v.primary = ABSENT /\ OtherFlags(m) = {"LISTENING"}
    BY <1>1, <1>3, <1>6, <1>10, MessageIs DEF AddressBefore, OtherFlags
  <2>2. v.state = "DONE0" /\ Free(v)
    BY <1>1, <1>3, <2>1, BytesDiffer DEF Free
  <2> QED BY <1>7, <1>8, <1>10, <2>1, <2>2 DEF NotThere, InState, Closing, v
<1>11. CASE m.kind = "unlisten"
  <2>1. v.primary = UNLISTEN /\ OtherFlags(m) = {"LISTENING"}
    BY <1>1, <1>3, <1>6, <1>11, MessageIs DEF AddressBefore, OtherFlags
  <2> QED BY <1>7, <1>8, <1>9, <1>11, <2>1 DEF Closed, AddressedBy, v
<1>12. CASE m.kind = "untalk"
  <2>1. v.primary = UNTALK /\ OtherFlags(m) = {"TALKING"}
    BY <1>1, <1>3, <1>6, <1>12, MessageIs DEF AddressBefore, OtherFlags
  <2> QED BY <1>7, <1>8, <1>9, <1>12, <2>1 DEF Closed, AddressedBy, v
<1>13. CASE m.kind = "listen"
  <2>1. v.primary = LISTEN /\ OtherFlags(m) = {"LISTENING"} /\ v.secondary = NONE
    BY <1>1, <1>3, <1>6, <1>13, MessageIs DEF AddressBefore, OtherFlags
  <2> QED BY <1>7, <1>8, <1>9, <1>13, <2>1 DEF Closing, AddressedBy, v
<1>14. CASE m.kind = "talk"
  <2>1. v.primary = TALK /\ OtherFlags(m) = {"LISTENING"} /\ v.secondary = NONE
    BY <1>1, <1>3, <1>6, <1>14, MessageIs DEF AddressBefore, OtherFlags
  <2> QED BY <1>7, <1>8, <1>9, <1>14, <2>1 DEF Closing, AddressedBy, v
<1>15. CASE m.kind = "second"
  <2>1. v.primary = LISTEN /\ OtherFlags(m) = {"LISTENING"}
    BY <1>1, <1>3, <1>6, <1>15, BytesDiffer DEF AddressBefore, OtherFlags
  <2> QED BY <1>7, <1>8, <1>9, <1>15, <2>1 DEF Closing, AddressedBy, v
<1>16. CASE m.kind = "turn"
  <2>1. v.primary = TALK /\ OtherFlags(m) = {"LISTENING"}
    BY <1>1, <1>3, <1>6, <1>16, BytesDiffer DEF AddressBefore, OtherFlags
  <2> QED BY <1>7, <1>8, <1>9, <1>16, <2>1 DEF Closing, AddressedBy, v
<1> QED BY <1>10, <1>11, <1>12, <1>13, <1>14, <1>15, <1>16, MessageIs

LEMMA LastData ==
    ASSUME NEW u, NEW m \in Messages, Taking(u, m), ~ cpu.clk, Has(u, m, Bits),
           InBit(u, "BITw", Bits - 1), m.kind = "data", NEW d \in Nat, NEW a
    PROVE  LET v == Exec(u, d, a)
           IN  /\ v.taken = Append(u.taken, m.byte)
               /\ \/ Listener(v)
                  \/ Deaf(v)
<1> DEFINE v == Exec(u, d, a)
<1>1. PICK w : /\ Shape(w) /\ Keep(u, w) /\ w.byte = m.byte /\ w.clk /\ w.data
               /\ w.bit = u.bit /\ w.state = u.state /\ w.timeout = Left(u, d)
               /\ v = IF m.kind = "data" THEN ByteForChannel(w, a) ELSE ByteUnderAtn(w)
  BY LastBit
<1>2. v = ByteForChannel(w, a)
  BY <1>1
<1>3. Typed(w)
  <2>1. Typed(u) /\ u.timeout \in Nat
    BY DEF Taking, Typed
  <2>2. Left(u, d) \in Nat
    BY <2>1, LeftIs
  <2> QED BY <1>1, <2>1, <2>2, MessageIs DEF Typed, Keep
<1> HIDE DEF v
<1>4. /\ v.enabled = w.enabled /\ v.flags = w.flags /\ v.mode = w.mode /\ v.file = w.file
      /\ v.pos = w.pos /\ v.got = w.got /\ v.lossy = w.lossy
      /\ v.taken = Append(w.taken, w.byte)
      /\ \/ v.state = "PRE2" /\ v.clk = TRUE /\ v.data = FALSE
         \/ v.state = "DONE0" /\ v.clk = w.clk /\ v.data = w.data
  <2> DEFINE x == ByteForChannel(w, a)
  <2>1. /\ x.enabled = w.enabled /\ x.flags = w.flags /\ x.mode = w.mode /\ x.file = w.file
        /\ x.pos = w.pos /\ x.got = w.got /\ x.lossy = w.lossy
    BY <1>3, ByteForChannelIs, ZenonT(40)
  <2>2. x.taken = Append(w.taken, w.byte)
    BY <1>3, ByteForChannelIs
  <2>3. \/ x.state = "PRE2" /\ x.clk = TRUE /\ x.data = FALSE
        \/ x.state = "DONE0" /\ x.clk = w.clk /\ x.data = w.data
    BY <1>3, ByteForChannelIs
  <2> HIDE DEF x
  <2>4. v = x
    BY <1>2 DEF x
  <2> QED BY <2>1, <2>2, <2>3, <2>4
<1>5. With(u, {"LISTENING"})
  BY DEF Taking, Receives
<1>6. With(w, {"LISTENING"}) /\ w.taken = u.taken
  BY <1>1, <1>5, GoesReceives
<1>7. Level(v)
  BY <1>4, <1>6 DEF With, Level, GotRight
<1>8. With(v, {"LISTENING"})
  BY <1>4, <1>6, <1>7 DEF With
<1>9. v.taken = Append(u.taken, m.byte)
  BY <1>1, <1>4, <1>6
<1>10. CASE v.state = "PRE2" /\ v.clk = TRUE /\ v.data = FALSE
  BY <1>8, <1>9, <1>10 DEF Listener, HoldsData, v
<1>11. CASE v.state = "DONE0" /\ v.clk = w.clk /\ v.data = w.data
  BY <1>1, <1>8, <1>9, <1>11 DEF Deaf, InState, Free, v
<1> QED BY <1>4, <1>10, <1>11

\* The byte that the Kernal waits to be acknowledged is taken.
Taken1 ==
    /\ Even(device)
    /\ \E b \in Byte : /\ device'.taken = Append(device.taken, b)
                       /\ sent' \in {sent, Append(sent, b)}

\* Nobody acknowledges: it waits on, or gives up.
LEMMA AckWaits ==
    ASSUME TypeOK, NEW m \in Messages, NEW t \in 1 .. AckWait, AtAck(m, t), Kernal,
           Bus'.data,
           \/ m.kind = "absent" /\ NotThere(device')
           \/ m.kind = "data" /\ Deaf(device')
    PROVE  (Sending(m)' \/ Ending') /\ sent' = sent
<1>a. Is(code, Answer(m, t), Rest(m))
  BY FromAckIs DEF AtAck
<1>b. CallsAfter(m) /\ cpu = Lines(AtnOf(m), FALSE, TRUE)
  BY DEF AtAck
<1>1. /\ UNCHANGED <<cpu, meddled, eoi, input>>
      /\ \/ /\ ~ Bus'.data /\ code' = Rest(m) /\ calls' = calls
            /\ sent' = IF m.kind = "data" THEN Append(sent, m.byte) ELSE sent
         \/ /\ Bus'.data /\ t > 1 /\ code' = <<Answer(m, t - 1)>> \o Rest(m)
            /\ UNCHANGED <<calls, sent>>
         \/ Bus'.data /\ t = 1 /\ code' = Finish /\ UNCHANGED <<calls, sent>>
  BY <1>a, AckMoves
<1>2. sent' = sent /\ calls' = calls /\ CallsAfter(m)' /\ cpu' = Lines(AtnOf(m), FALSE, TRUE)
  BY <1>b, <1>1, CallsKept
<1>3. CASE t > 1 /\ code' = <<Answer(m, t - 1)>> \o Rest(m)
  <2>1. code' = FromAck(m, t - 1) /\ t - 1 \in 1 .. AckWait
    BY <1>3, TimesAre DEF FromAck
  <2>2. AtAck(m, t - 1)'
    BY <1>2, <2>1 DEF AtAck
  <2>3. Sending(m)'
    BY <2>1, <2>2 DEF Sending
  <2> QED BY <1>2, <2>3
<1>4. CASE code' = Finish
  <2>1. CASE m.kind = "absent" /\ NotThere(device')
    <3>1. Addressing(calls) /\ cpu' = Lines(FALSE, FALSE, TRUE)
      BY <1>b, <1>2, <2>1, CallsFor DEF AtnOf
    <3>2. AtFinish'
      BY <1>2, <1>4, <2>1, <3>1 DEF AtFinish, AfterFail
    <3> QED BY <1>2, <3>2 DEF Ending
  <2>2. CASE m.kind = "data" /\ Deaf(device')
    <3>1. Writing(calls) /\ cpu' = Lines(TRUE, FALSE, TRUE)
      BY <1>b, <1>2, <2>2, CallsFor DEF AtnOf
    <3>2. AtFinish'
      BY <1>2, <1>4, <2>2, <3>1 DEF AtFinish, AfterFail, WritesNext
    <3> QED BY <1>2, <3>2 DEF Ending
  <2> QED BY <2>1, <2>2
<1> QED BY <1>1, <1>3, <1>4

\* The byte under ATN is acknowledged, or was for nobody.
LEMMA AckUnderAtn ==
    ASSUME TypeOK, NEW m \in Messages, NEW t \in 1 .. AckWait, AtAck(m, t), Kernal,
           Has(device, m, Bits), InBit(device, "BITw", Bits - 1), m.kind # "data"
    PROVE  (Sending(m)' \/ Ending' \/ Between') /\ Untaken
<1>a. Is(code, Answer(m, t), Rest(m))
  BY FromAckIs DEF AtAck
<1>b. CallsAfter(m) /\ cpu = Lines(FALSE, FALSE, TRUE)
  BY DEF AtAck, AtnOf
<1>1. /\ Looked /\ UNCHANGED <<cpu, meddled, eoi, input>>
      /\ \/ /\ ~ Bus'.data /\ code' = Rest(m) /\ calls' = calls
            /\ sent' = IF m.kind = "data" THEN Append(sent, m.byte) ELSE sent
         \/ /\ Bus'.data /\ t > 1 /\ code' = <<Answer(m, t - 1)>> \o Rest(m)
            /\ UNCHANGED <<calls, sent>>
         \/ Bus'.data /\ t = 1 /\ code' = Finish /\ UNCHANGED <<calls, sent>>
  BY <1>a, AckMoves
<1>2. (cpu.atn <=> AtnOf(m)) /\ ~ cpu.clk /\ cpu.data /\ cpu' = cpu /\ Receives(device, m)
  BY <1>b, <1>1, LinesHigh DEF AtnOf, Has
<1>3. PICK a \in Answers : device' = Exec(device, 1, a) /\ Taking(device, m)
  BY <1>1, <1>2, LookTakes
<1>4. /\ device'.taken = device.taken
      /\ m.kind = "absent" => NotThere(device')
      /\ m.kind \in Closing => Closed(device')
      /\ m.kind \in {"listen", "second"} => AddressedBy(device', LISTEN, {"LISTENING"})
      /\ m.kind \in {"talk", "turn"} => AddressedBy(device', TALK, {"LISTENING"})
      /\ m.kind \in {"listen", "talk"} => device'.secondary = NONE
  BY <1>2, <1>3, LastUnderAtn
<1>5. sent' = sent /\ calls' = calls
  BY <1>1
<1>6. Untaken
  BY <1>4, <1>5 DEF Untaken
<1>7. CASE m.kind = "absent"
  <2>1. NotThere(device')
    BY <1>4, <1>7
  <2>2. Bus'.data
    BY <1>2, <2>1, BusIs DEF NotThere, InState, Free
  <2> QED BY <1>6, <1>7, <2>1, <2>2, AckWaits
<1>8. ASSUME ~ device'.data PROVE code' = Rest(m)
  <2>1. ~ Bus'.data
    BY <1>8, BusIs
  <2> QED BY <1>1, <2>1
<1>9. CallsAfter(m)' /\ cpu' = Lines(FALSE, FALSE, TRUE)
  BY <1>b, <1>1, <1>5, CallsKept
<1>c. Counts(m) => Even(device)'
  BY <1>2, <1>4, <1>5 DEF Receives, UnderAtn, Even, Counts
<1>10. CASE m.kind = "listen"
  <2>1. AddressedBy(device', LISTEN, {"LISTENING"}) /\ device'.secondary = NONE
    BY <1>4, <1>10
  <2>2. code' = << >>
    BY <1>8, <1>10, <2>1 DEF AddressedBy, HoldsData, Rest, Opening, Closing
  <2>3. Addressing(calls)
    BY <1>b, <1>10, CallsFor
  <2>4. AtAddressing'
    BY <1>5, <1>9, <1>10, <1>c, <2>1, <2>3 DEF AtAddressing, Counts
  <2> QED BY <1>6, <2>2, <2>4 DEF Between
<1>11. CASE m.kind = "talk"
  <2>1. AddressedBy(device', TALK, {"LISTENING"}) /\ device'.secondary = NONE
    BY <1>4, <1>11
  <2>2. code' = << >>
    BY <1>8, <1>11, <2>1 DEF AddressedBy, HoldsData, Rest, Opening, Closing
  <2>3. calls = Talking /\ eoi = FALSE
    BY <1>b, <1>11, CallsFor
  <2>4. AtTalking'
    BY <1>1, <1>5, <1>9, <2>1, <2>3 DEF AtTalking
  <2> QED BY <1>6, <2>2, <2>4 DEF Between
<1>12. CASE m.kind = "second"
  <2>1. AddressedBy(device', LISTEN, {"LISTENING"})
    BY <1>4, <1>12
  <2>2. code' = <<AtnHi>>
    BY <1>8, <1>12, <2>1 DEF AddressedBy, HoldsData, Rest, Opening, Closing
  <2>3. Writing(calls)
    BY <1>b, <1>12, CallsFor
  <2>4. AtSecondDone'
    BY <1>5, <1>9, <1>12, <1>c, <2>1, <2>2, <2>3 DEF AtSecondDone, Counts
  <2> QED BY <1>6, <2>4 DEF Ending
<1>13. CASE m.kind = "turn"
  <2>1. AddressedBy(device', TALK, {"LISTENING"})
    BY <1>4, <1>13
  <2>2. code' = TurnRound
    BY <1>8, <1>13, <2>1 DEF AddressedBy, HoldsData, Rest, Opening, Closing
  <2>3. ReadsNext'
    BY <1>b, <1>1, <1>5, <1>13, CallsFor DEF ReadsNext
  <2>4. AtTurn'
    BY <1>9, <2>1, <2>2, <2>3 DEF AtTurn, Turning
  <2> QED BY <1>6, <2>4 DEF Ending
<1>14. CASE m.kind \in Closing
  <2>1. Closed(device')
    BY <1>4, <1>14
  <2>2. code' = Finish
    BY <1>8, <1>14, <2>1 DEF Closed, AddressedBy, HoldsData, Rest, Opening, Closing
  <2>3. Ends'
    BY <1>b, <1>5, <1>14, CallsFor DEF Ends
  <2>4. AtFinish'
    BY <1>9, <2>1, <2>2, <2>3 DEF AtFinish, AfterFail, WritesNext
  <2> QED BY <1>6, <2>4 DEF Ending
<1> QED BY <1>7, <1>10, <1>11, <1>12, <1>13, <1>14, MessageIs DEF Closing

\* A byte for the channel is.
LEMMA AckData ==
    ASSUME TypeOK, NEW m \in Messages, NEW t \in 1 .. AckWait, AtAck(m, t), Kernal,
           Has(device, m, Bits), InBit(device, "BITw", Bits - 1), m.kind = "data"
    PROVE  (Sending(m)' \/ Ending' \/ Between') /\ Taken1
<1>a. Is(code, Answer(m, t), Rest(m))
  BY FromAckIs DEF AtAck
<1>b. CallsAfter(m) /\ cpu = Lines(TRUE, FALSE, TRUE)
  BY DEF AtAck, AtnOf
<1>1. /\ Looked /\ UNCHANGED <<cpu, meddled, eoi, input>>
      /\ \/ /\ ~ Bus'.data /\ code' = Rest(m) /\ calls' = calls
            /\ sent' = IF m.kind = "data" THEN Append(sent, m.byte) ELSE sent
         \/ /\ Bus'.data /\ t > 1 /\ code' = <<Answer(m, t - 1)>> \o Rest(m)
            /\ UNCHANGED <<calls, sent>>
         \/ Bus'.data /\ t = 1 /\ code' = Finish /\ UNCHANGED <<calls, sent>>
  BY <1>a, AckMoves
<1>2. (cpu.atn <=> AtnOf(m)) /\ ~ cpu.clk /\ cpu.data /\ cpu' = cpu /\ Receives(device, m)
  BY <1>b, <1>1, LinesHigh DEF AtnOf, Has
<1>3. PICK a \in Answers : device' = Exec(device, 1, a) /\ Taking(device, m)
  BY <1>1, <1>2, LookTakes
<1>4. device'.taken = Append(device.taken, m.byte) /\ (Listener(device') \/ Deaf(device'))
  BY <1>2, <1>3, LastData
<1>5. Even(device)
  BY <1>2 DEF Receives
<1>6. m.byte \in Byte
  BY MessageIs
<1>7. CASE Deaf(device')
  <2>1. Bus'.data
    BY <1>2, <1>7, BusIs DEF Deaf, Silent, InState, Free
  <2>2. (Sending(m)' \/ Ending') /\ sent' = sent
    BY <1>7, <2>1, AckWaits
  <2> QED BY <1>4, <1>5, <1>6, <2>2 DEF Taken1
<1>8. CASE Listener(device')
  <2>1. ~ Bus'.data
    BY <1>8, BusIs DEF Listener, HoldsData
  <2>2. code' = << >> /\ calls' = calls /\ sent' = Append(sent, m.byte)
    BY <1>1, <2>1 DEF Rest, Opening, Closing
  <2>3. Writing(calls)' /\ cpu' = Lines(TRUE, FALSE, TRUE)
    BY <1>b, <1>1, <2>2, CallsFor
  <2>4. Even(device)'
    BY <1>4, <1>5, <2>2 DEF Even
  <2>5. AtWriting'
    BY <1>8, <2>3, <2>4 DEF AtWriting
  <2>6. Between'
    BY <2>2, <2>5 DEF Between
  <2> QED BY <1>4, <1>5, <1>6, <2>2, <2>6 DEF Taken1
<1> QED BY <1>4, <1>7, <1>8

LEMMA AckNext ==
    ASSUME TypeOK, NEW m \in Messages, NEW t \in 1 .. AckWait, AtAck(m, t), Kernal
    PROVE  (Sending(m)' \/ Ending' \/ Between') /\ (Untaken \/ Taken1)
<1>1. CASE Has(device, m, Bits) /\ InBit(device, "BITw", Bits - 1)
  BY <1>1, AckUnderAtn, AckData
<1>a. Is(code, Answer(m, t), Rest(m))
  BY FromAckIs DEF AtAck
<1>b. cpu = Lines(AtnOf(m), FALSE, TRUE)
  BY DEF AtAck
<1>2. Looked /\ cpu' = cpu
  BY <1>a, AckMoves
<1>3. Accessed /\ (cpu.atn <=> AtnOf(m)) /\ ~ cpu.clk /\ cpu.data
  BY <1>2, <1>b, AccessedIs, LinesHigh
<1>4. CASE m.kind = "absent" /\ NotThere(device)
  <2>1. NotThere(device') /\ device'.taken = device.taken
    BY <1>3, <1>4, AddressedAfter DEF AtnOf
  <2>2. Bus'.data
    BY <1>2, <1>3, <2>1, BusIs DEF NotThere, InState, Free
  <2> QED BY <1>4, <2>1, <2>2, AckWaits DEF Untaken
<1>5. CASE m.kind = "data" /\ Deaf(device)
  <2>1. Deaf(device') /\ device'.taken = device.taken
    BY <1>3, <1>5, CalmAfter DEF AtnOf
  <2>2. Bus'.data
    BY <1>2, <1>3, <2>1, BusIs DEF Deaf, Silent, InState, Free
  <2> QED BY <1>5, <2>1, <2>2, AckWaits DEF Untaken
<1> QED BY <1>1, <1>4, <1>5 DEF AtAck

\* While a byte is sent, whatever comes next is one of the places.
LEMMA SendingNext ==
    ASSUME TypeOK, NEW m \in Messages, Sending(m), Kernal
    PROVE  (Sending(m)' \/ Ending' \/ Between') /\ (Untaken \/ Taken1)
<1>0. FALSE \in BOOLEAN /\ 0 \in 0 .. Bits - 1 /\ AckWait \in 1 .. AckWait
  BY BitsAssumption, TimesAre
<1>1. CASE AtCommand(m) \/ AtAtnLo(m)
  <2>1. (AtAtnLo(m)' \/ AtAddress(m)') /\ Untaken
    BY <1>1, CommandNext, AtnLoNext
  <2> QED BY <2>1 DEF Sending
<1>2. CASE AtUnlisten(m) \/ AtUnlistenClkHi(m) \/ AtUnlistenAtnLo(m)
  <2>1. (AtUnlistenClkHi(m)' \/ AtUnlistenAtnLo(m)' \/ AtAddress(m)') /\ Untaken
    BY <1>2, UnlistenNext
  <2> QED BY <2>1 DEF Sending
<1>3. CASE AtUntalk(m) \/ AtUntalkAtnLo(m) \/ AtUntalkDataHi(m) \/ AtUntalkAgain(m)
  <2>1. (AtUntalkAtnLo(m)' \/ AtUntalkDataHi(m)' \/ AtUntalkAgain(m)' \/ AtAddress(m)')
        /\ Untaken
    BY <1>3, UntalkNext
  <2> QED BY <2>1 DEF Sending
<1>4. CASE AtAddress(m) \/ AtPause(m) \/ AtLetGo(m)
  <2>1. (AtPause(m)' \/ AtLetGo(m)' \/ AtNeed(m)') /\ Untaken
    BY <1>4, AddressNext, LetGoNext
  <2> QED BY <2>1 DEF Sending
<1>5. CASE AtNeed(m)
  <2>1. (AtClkHi(m)' \/ AtFinish') /\ Untaken
    BY <1>5, NeedNext
  <2> QED BY <2>1 DEF Sending, Ending
<1>6. CASE AtClkHi(m)
  <2>1. (AtEoi1(m, FALSE)' \/ AtReady(m, FALSE)') /\ Untaken
    BY <1>6, ClkHiNext
  <2> QED BY <2>1, <1>0 DEF Sending
<1>7. ASSUME NEW o \in BOOLEAN, AtEoi1(m, o) \/ AtEoi2(m, o) \/ AtReady(m, o)
      PROVE  Sending(m)' /\ Untaken
  <2>1. CASE AtEoi1(m, o)
    <3>1. AtEoi2(m, FALSE)' /\ Untaken
      BY <2>1, Eoi1Next
    <3> QED BY <3>1, <1>0 DEF Sending
  <2>2. CASE AtEoi2(m, o)
    <3>1. ((\E p \in BOOLEAN : AtEoi2(m, p)') \/ AtReady(m, FALSE)') /\ Untaken
      BY <2>2, Eoi2Next
    <3> QED BY <3>1, <1>0 DEF Sending
  <2>3. CASE AtReady(m, o)
    <3>1. ((\E p \in BOOLEAN : AtReady(m, p)') \/ AtClkLo(m)') /\ Untaken
      BY <2>3, ReadyNext
    <3> QED BY <3>1 DEF Sending
  <2> QED BY <1>7, <2>1, <2>2, <2>3
<1>8. CASE AtClkLo(m)
  <2>1. AtNeedBit(m, 0)' /\ Untaken
    BY <1>8, ClkLoNext
  <2> QED BY <2>1, <1>0 DEF Sending
<1>9. ASSUME NEW i \in 0 .. Bits - 1,
             AtNeedBit(m, i) \/ AtBitData(m, i) \/ AtBitClkHi(m, i) \/ AtBitClkLo(m, i)
      PROVE  (Sending(m)' \/ Ending') /\ Untaken
  <2>1. CASE AtNeedBit(m, i)
    <3>1. (AtBitData(m, i)' \/ AtFinish') /\ Untaken
      BY <2>1, NeedBitNext
    <3> QED BY <3>1 DEF Sending, Ending
  <2>2. CASE AtBitData(m, i)
    <3>1. AtBitClkHi(m, i)' /\ Untaken
      BY <2>2, BitDataNext
    <3> QED BY <3>1 DEF Sending
  <2>3. CASE AtBitClkHi(m, i)
    <3>1. AtBitClkLo(m, i)' /\ Untaken
      BY <2>3, BitClkHiNext
    <3> QED BY <3>1 DEF Sending
  <2>4. CASE AtBitClkLo(m, i)
    <3>1. (IF i = Bits - 1 THEN AtAck(m, AckWait)' ELSE AtNeedBit(m, i + 1)') /\ Untaken
      BY <2>4, BitClkLoNext
    <3>2. CASE i = Bits - 1
      <4>1. AtAck(m, AckWait)'
        BY <3>1, <3>2
      <4> QED BY <3>1, <4>1, <1>0 DEF Sending
    <3>3. CASE i # Bits - 1
      <4>1. AtNeedBit(m, i + 1)' /\ i + 1 \in 0 .. Bits - 1
        BY <3>1, <3>3, BitsAssumption
      <4> QED BY <3>1, <4>1 DEF Sending
    <3> QED BY <3>2, <3>3
  <2> QED BY <1>9, <2>1, <2>2, <2>3, <2>4
<1>10. ASSUME NEW t \in 1 .. AckWait, AtAck(m, t)
       PROVE  (Sending(m)' \/ Ending' \/ Between') /\ (Untaken \/ Taken1)
  BY <1>10, AckNext
<1> QED BY <1>1, <1>2, <1>3, <1>4, <1>5, <1>6, <1>7, <1>8, <1>9, <1>10 DEF Sending

(* After a byte under ATN, and after a failure. *)
LEMMA SecondDoneNext ==
    ASSUME TypeOK, AtSecondDone, Kernal
    PROVE  Between' /\ Untaken
<1>1. Is(code, StoreOf([atn |-> TRUE], 0), << >>)
  BY FinishIs, StoreIs DEF AtSecondDone
<1>2. cpu = Lines(FALSE, FALSE, TRUE)
  BY DEF AtSecondDone
<1>3. /\ cpu' = Lines(TRUE, FALSE, TRUE) /\ code' = << >> /\ Rests /\ Accessed
      /\ ~ cpu.atn /\ ~ cpu.clk
  BY <1>1, <1>2, AtnGoes
<1>4. AddressedBy(device', LISTEN, {"LISTENING"}) /\ device'.taken = device.taken
  BY <1>3, AddressedAfter DEF AtSecondDone
<1>5. Writing(calls)' /\ sent' = sent
  BY <1>3 DEF AtSecondDone, Rests
<1>6. Even(device)'
  BY <1>4, <1>5 DEF Even, AtSecondDone
<1>7. AtWriting'
  BY <1>3, <1>4, <1>5, <1>6 DEF AtWriting
<1> QED BY <1>3, <1>4, <1>5, <1>7 DEF Between, Untaken

LEMMA TurnNext ==
    ASSUME TypeOK, AtTurn, Kernal
    PROVE  (AtTurn' \/ AtTurned(FALSE)') /\ Untaken
<1>0. ReadsNext /\ Turning(device)
  BY DEF AtTurn
<1>1. CASE code = TurnRound /\ cpu = Lines(FALSE, FALSE, TRUE)
  <2>1. Is(code, StoreOf([data |-> FALSE], 0), TurnAtnHi)
    BY <1>1, TurnIs, StoreIs
  <2>2. cpu = Lines(FALSE, FALSE, TRUE)
    BY <1>1
  <2>3. /\ cpu' = Lines(FALSE, FALSE, FALSE) /\ code' = TurnAtnHi /\ Rests /\ Accessed
        /\ ~ cpu.atn /\ ~ cpu.clk
    <3>1. cpu' = Lines(FALSE, FALSE, FALSE) /\ code' = TurnAtnHi /\ Rests /\ Accessed
      BY <2>1, <2>2, DataGoes
    <3>2. ~ cpu.atn /\ ~ cpu.clk
      BY <2>2, LinesHigh
    <3> QED BY <3>1, <3>2
  <2>4. Turning(device') /\ device'.taken = device.taken
    BY <2>3, <1>0, AddressedAfter DEF Turning
  <2>5. ReadsNext'
    BY <2>3, <1>0 DEF ReadsNext, Rests
  <2>6. Turning(device)' /\ Untaken
    BY <2>3, <2>4 DEF Untaken, Rests, Turning
  <2>7. AtTurn'
    BY <2>3, <2>5, <2>6 DEF AtTurn
  <2> QED BY <2>6, <2>7
<1>2. CASE code = TurnAtnHi /\ cpu = Lines(FALSE, FALSE, FALSE)
  <2>1. Is(code, StoreOf([atn |-> TRUE], 0), TurnClkHi)
    BY <1>2, TurnIs, StoreIs
  <2>2. cpu = Lines(FALSE, FALSE, FALSE)
    BY <1>2
  <2>3. /\ cpu' = Lines(TRUE, FALSE, FALSE) /\ code' = TurnClkHi /\ Rests /\ Accessed
        /\ ~ cpu.atn /\ ~ cpu.clk
    BY <2>1, <2>2, AtnGoes
  <2>4. Turning(device') /\ device'.taken = device.taken
    BY <2>3, <1>0, AddressedAfter DEF Turning
  <2>5. ReadsNext'
    BY <2>3, <1>0 DEF ReadsNext, Rests
  <2>6. Turning(device)' /\ Untaken
    BY <2>3, <2>4 DEF Untaken, Rests, Turning
  <2>7. AtTurn'
    BY <2>3, <2>5, <2>6 DEF AtTurn
  <2> QED BY <2>6, <2>7
<1>3. CASE code = TurnClkHi /\ cpu = Lines(TRUE, FALSE, FALSE)
  <2>1. Is(code, StoreOf([clk |-> TRUE], 0), <<Until("clk", FALSE)>>)
    BY <1>3, TurnIs, StoreIs
  <2>2. cpu = Lines(TRUE, FALSE, FALSE)
    BY <1>3
  <2>3. /\ cpu' = Lines(TRUE, TRUE, FALSE) /\ code' = <<Until("clk", FALSE)>> /\ Rests
        /\ Accessed /\ cpu.atn /\ ~ cpu.clk
    <3>1. /\ cpu' = Lines(TRUE, TRUE, FALSE) /\ code' = <<Until("clk", FALSE)>> /\ Rests
          /\ Accessed
      BY <2>1, <2>2, ClkGoes
    <3>2. cpu.atn /\ ~ cpu.clk
      BY <2>2, LinesHigh
    <3> QED BY <3>1, <3>2
  <2>4. PICK d, a, p :
            /\ d \in Nat /\ a \in Answers
            /\ p = Exec(device, d, a) /\ Typed(device) /\ Typed(p)
            /\ device' = p \/ device' = Exec(p, 0, a)
    BY <2>3 DEF Accessed
  <2>5. With(p, {"TALKING"}) /\ p.state = "PRE0" /\ HoldsData(p) /\ p.taken = device.taken
    BY <2>3, <2>4, <1>0, RisesTurning
  <2>6. Sends(p) /\ p.clk /\ ~ p.data
    BY <2>3, <2>5 DEF Sends, With, HoldsData
  <2>7. LET v == Exec(p, 0, a)
        IN  Goes(p, v, p.state, p.bit, p.byte, Left(p, 0), p.clk, p.data)
    BY <2>3, <2>4, <2>5, <2>6, SendsPre
  <2>8. LET v == Exec(p, 0, a)
        IN  With(v, {"TALKING"}) /\ v.state = "PRE0" /\ HoldsData(v) /\ v.taken = p.taken
    <3> DEFINE v == Exec(p, 0, a)
    <3>1. Goes(p, v, p.state, p.bit, p.byte, Left(p, 0), p.clk, p.data)
      BY <2>7
    <3> HIDE DEF v
    <3>2. Keep(p, v) /\ v.state = p.state /\ v.clk = p.clk /\ v.data = p.data
      BY <3>1 DEF Goes
    <3>3. With(v, {"TALKING"}) /\ v.taken = p.taken
      BY <3>2, <2>5, KeepWith
    <3>4. v.state = "PRE0" /\ HoldsData(v)
      BY <3>2, <2>5 DEF HoldsData
    <3> QED BY <3>3, <3>4 DEF v
  <2>9. /\ With(device', {"TALKING"}) /\ device'.state = "PRE0" /\ HoldsData(device')
        /\ device'.taken = device.taken
    BY <2>4, <2>5, <2>8
  <2>10. ReadsNext'
    BY <2>3, <1>0 DEF ReadsNext, Rests
  <2>11. Untaken
    BY <2>3, <2>9 DEF Untaken, Rests
  <2>12. code' = <<Waits("clk", FALSE, FALSE)>>
    BY <2>3, TurnIs
  <2>13. AtTurned(FALSE)'
    BY <2>3, <2>9, <2>10, <2>12 DEF AtTurned
  <2> QED BY <2>11, <2>13
<1> QED BY <1>1, <1>2, <1>3 DEF AtTurn

LEMMA TurnedNext ==
    ASSUME TypeOK, NEW o \in BOOLEAN, AtTurned(o), Kernal
    PROVE  Between' /\ Untaken
<1>1. Is(code, Waits("clk", FALSE, o), << >>)
  BY TurnIs DEF AtTurned
<1>2. /\ Looked /\ UNCHANGED <<cpu, meddled, calls, eoi, input, sent>>
      /\ IF Bus'["clk"] = FALSE THEN code' = << >>
         ELSE \E p \in {o, ~ o} : code' = StillWaits("clk", FALSE, p, << >>)
  <2>1. LooksFor("clk", FALSE, o, << >>)
    BY <1>1, UntilMoves
  <2> QED BY <2>1 DEF LooksFor
<1>3. /\ ReadsNext /\ cpu = Lines(TRUE, TRUE, FALSE)
      /\ With(device, {"TALKING"}) /\ device.state = "PRE0" /\ HoldsData(device)
  BY DEF AtTurned
<1>4. cpu.atn /\ cpu.clk /\ ~ cpu.data
  BY <1>3, LinesHigh
<1>5. PICK a \in Answers : device' = Exec(device, 1, a) /\ Typed(device) /\ Typed(device')
  BY <1>2, LookIs
<1>6. Sends(device) /\ device.clk
  BY <1>3, <1>4 DEF Sends, With, HoldsData
<1> DEFINE v == Exec(device, 1, a)
<1>7. Goes(device, v, "PRE1", device.bit, device.byte, Turn, FALSE, TRUE)
  BY <1>3, <1>4, <1>5, <1>6, SendsPre
<1>8. device' = v
  BY <1>5
<1> HIDE DEF v
<1>9. Keep(device, v) /\ v.state = "PRE1" /\ ~ v.clk /\ v.data
  BY <1>7 DEF Goes
<1>10. With(v, {"TALKING"}) /\ v.taken = device.taken
  BY <1>9, <1>3, KeepWith
<1>11. Talker(v)
  BY <1>9, <1>10 DEF Talker, Waits4, HoldsClk
<1>12. Talker(device') /\ ~ device'.clk /\ device'.taken = device.taken
  BY <1>8, <1>9, <1>10, <1>11
<1>13. Bus'.clk = FALSE
  BY <1>12, BusIs
<1>14. code' = << >>
  BY <1>2, <1>13
<1>15. ReadsNext' /\ cpu' = Lines(TRUE, TRUE, FALSE) /\ sent' = sent
  BY <1>2, <1>3 DEF ReadsNext
<1>16. AtReading'
  BY <1>12, <1>15 DEF AtReading
<1> QED BY <1>12, <1>14, <1>15, <1>16 DEF Between, Untaken

LEMMA EndsKept ==
    ASSUME calls' = calls
    PROVE  /\ Ends => Ends'
           /\ WritesNext => WritesNext'
           /\ AfterFail => AfterFail'
           /\ Writing(calls) => Writing(calls)'
           /\ Addressing(calls) => Addressing(calls)'
           /\ calls = <<Untalk>> => calls' = <<Untalk>>
BY DEF Ends, WritesNext, AfterFail

\* The Kernal gives up, or ends an operation, and lets ATN go.
LEMMA SlipsAfter ==
    ASSUME Accessed, Slips(device), cpu.atn, ~ cpu.clk
    PROVE  Slips(device') /\ device'.taken = device.taken
<1>1. PICK d, a, p :
          /\ d \in Nat /\ a \in Answers
          /\ p = Exec(device, d, a) /\ Typed(device) /\ Typed(p)
          /\ device' = p \/ device' = Exec(p, 0, a)
  BY DEF Accessed
<1>2. Slips(p) /\ p.taken = device.taken
  BY <1>1, SlipsMoves
<1>3. 0 \in Nat
  OBVIOUS
<1>4. Slips(Exec(p, 0, a)) /\ Exec(p, 0, a).taken = p.taken
  BY <1>1, <1>2, <1>3, SlipsMoves
<1> QED BY <1>1, <1>2, <1>4

LEMMA FinishNext ==
    ASSUME TypeOK, AtFinish, Kernal
    PROVE  AtFinishPause' /\ Untaken
<1>0. Is(code, StoreOf([atn |-> TRUE], 0), LetGo) /\ AfterFail
  BY FinishIs, StoreIs DEF AtFinish
<1>1. ASSUME cpu = Lines(FALSE, FALSE, TRUE),
             (Closed(device) /\ Ends) \/ (NotThere(device) /\ Addressing(calls))
      PROVE  AtFinishPause' /\ Untaken
  <2>1. /\ cpu' = Lines(TRUE, FALSE, TRUE) /\ code' = LetGo /\ Rests /\ Accessed
        /\ ~ cpu.atn /\ ~ cpu.clk
    BY <1>0, <1>1, AtnGoes
  <2>2. calls' = calls /\ sent' = sent
    BY <2>1 DEF Rests
  <2>3. /\ Closed(device) => Closed(device') /\ device'.taken = device.taken
        /\ NotThere(device) => NotThere(device') /\ device'.taken = device.taken
    BY <2>1, AddressedAfter DEF Closed
  <2>4. AfterFail'
    BY <1>0, <2>2, EndsKept
  <2>5. \/ Closed(device') /\ Ends'
        \/ NotThere(device') /\ Addressing(calls)'
    BY <1>1, <2>2, <2>3, EndsKept
  <2>6. AtFinishPause'
    BY <2>1, <2>4, <2>5 DEF AtFinishPause
  <2> QED BY <1>1, <2>2, <2>3, <2>6 DEF Untaken
<1>2. ASSUME cpu = Lines(TRUE, FALSE, TRUE),
             (Deaf(device) /\ WritesNext) \/ (Slips(device) /\ Writing(calls))
      PROVE  AtFinishPause' /\ Untaken
  <2>1. /\ cpu' = Lines(TRUE, FALSE, TRUE) /\ code' = LetGo /\ Rests /\ Accessed
        /\ cpu.atn /\ ~ cpu.clk
    BY <1>0, <1>2, AtnGoes
  <2>2. calls' = calls /\ sent' = sent
    BY <2>1 DEF Rests
  <2>3. /\ Deaf(device) => Deaf(device') /\ device'.taken = device.taken
        /\ Slips(device) => Slips(device') /\ device'.taken = device.taken
    BY <2>1, CalmAfter, SlipsAfter
  <2>4. AfterFail'
    BY <1>0, <2>2, EndsKept
  <2>5. \/ Deaf(device') /\ WritesNext'
        \/ Slips(device') /\ Writing(calls)'
    BY <1>2, <2>2, <2>3, EndsKept
  <2>6. AtFinishPause'
    BY <2>1, <2>4, <2>5 DEF AtFinishPause
  <2> QED BY <1>2, <2>2, <2>3, <2>6 DEF Untaken
<1>3. ASSUME cpu = Lines(TRUE, TRUE, TRUE),
             (Calm(device) /\ Ends) \/ (Silent(device) /\ calls = <<Untalk>>)
      PROVE  AtFinishPause' /\ Untaken
  <2>1. /\ cpu' = Lines(TRUE, TRUE, TRUE) /\ code' = LetGo /\ Rests /\ Accessed
        /\ cpu.atn /\ cpu.clk
    BY <1>0, <1>3, AtnGoes
  <2>2. calls' = calls /\ sent' = sent
    BY <2>1 DEF Rests
  <2>3. /\ Calm(device) => Calm(device') /\ device'.taken = device.taken
        /\ Silent(device) => Silent(device') /\ device'.taken = device.taken
    BY <2>1, CalmAfter
  <2>4. AfterFail'
    BY <1>0, <2>2, EndsKept
  <2>5. \/ Calm(device') /\ Ends'
        \/ Silent(device') /\ calls' = <<Untalk>>
    BY <1>3, <2>2, <2>3, EndsKept
  <2>6. AtFinishPause'
    BY <2>1, <2>4, <2>5 DEF AtFinishPause
  <2> QED BY <1>3, <2>2, <2>3, <2>6 DEF Untaken
<1> QED BY <1>1, <1>2, <1>3 DEF AtFinish

\* Then the clock line, after the longest wait.
LEMMA FinishPauseNext ==
    ASSUME TypeOK, AtFinishPause, Kernal
    PROVE  AtFinishDataHi' /\ Untaken
<1>0. Is(code, StoreOf([clk |-> TRUE], AckWait), <<DataHi>>) /\ AfterFail
  BY FinishIs, StoreIs DEF AtFinishPause
<1>1. ASSUME cpu = Lines(TRUE, FALSE, TRUE),
             \/ Closed(device) /\ Ends
             \/ NotThere(device) /\ Addressing(calls)
             \/ Deaf(device) /\ WritesNext
             \/ Slips(device) /\ Writing(calls)
      PROVE  AtFinishDataHi' /\ Untaken
  <2>1. /\ cpu' = Lines(TRUE, TRUE, TRUE) /\ code' = <<DataHi>> /\ Rests /\ Accessed
        /\ Stored(AckWait, FALSE = TRUE) /\ cpu.atn /\ ~ cpu.clk
    BY <1>0, <1>1, ClkPauses
  <2>2. calls' = calls /\ sent' = sent
    BY <2>1 DEF Rests
  <2>3. AfterFail'
    BY <1>0, <2>2, EndsKept
  <2>4. CASE Closed(device) /\ Ends
    <3>1. Silent(device') /\ device'.taken = device.taken
      BY <2>1, <2>4, RisesAfter
    <3>2. Calm(device') /\ WritesNext'
      BY <2>2, <2>4, <3>1, EndsKept DEF Calm, Deaf, WritesNext
    <3>3. AtFinishDataHi'
      BY <2>1, <2>3, <3>2 DEF AtFinishDataHi
    <3> QED BY <2>2, <3>1, <3>3 DEF Untaken
  <2>5. CASE NotThere(device) /\ Addressing(calls)
    <3>1. Deaf(device') /\ device'.taken = device.taken
      BY <2>1, <2>5, RisesAfter
    <3>2. Addressing(calls)'
      BY <2>2, <2>5, EndsKept
    <3>3. AtFinishDataHi'
      BY <2>1, <2>3, <3>1, <3>2 DEF AtFinishDataHi
    <3> QED BY <2>2, <3>1, <3>3 DEF Untaken
  <2>6. CASE Deaf(device) /\ WritesNext
    <3>1. Deaf(device') /\ device'.taken = device.taken
      BY <2>1, <2>6, CalmAfter
    <3>2. Calm(device') /\ WritesNext'
      BY <2>2, <2>6, <3>1, EndsKept DEF Calm
    <3>3. AtFinishDataHi'
      BY <2>1, <2>3, <3>2 DEF AtFinishDataHi
    <3> QED BY <2>2, <3>1, <3>3 DEF Untaken
  <2>7. CASE Slips(device) /\ Writing(calls)
    <3>1. PICK d, a, p :
              /\ d \in Nat /\ a \in Answers
              /\ AckWait <= d /\ p = Exec(device, d, a) /\ Typed(device) /\ Typed(p)
              /\ (FALSE = TRUE => device' = p) /\ (~ (FALSE = TRUE) => device' = Exec(p, 0, a))
              /\ Typed(device')
      BY <2>1, StoredIs, TimesToWait
    <3>2. d >= Ack /\ 0 \in Nat
      BY <3>1, TimesAre
    <3>3. Slips(p) /\ p.taken = device.taken /\ p.state # "EOI"
      BY <2>1, <2>7, <3>1, <3>2, SlipsMoves
    <3>4. /\ Slips(Exec(p, 0, a)) /\ Exec(p, 0, a).taken = p.taken
          /\ Exec(p, 0, a).state = "BIT"
      BY <2>1, <3>1, <3>2, <3>3, SlipsMoves
    <3>5. Slips(device') /\ device'.taken = device.taken /\ device'.state = "BIT"
      BY <3>1, <3>3, <3>4
    <3>6. With(device', {"LISTENING"}) /\ InBit(device', "BIT", 0)
      BY <3>5 DEF Slips, InBit, InState
    <3>7. Writing(calls)'
      BY <2>2, <2>7, EndsKept
    <3>8. AtFinishDataHi'
      BY <2>1, <2>3, <3>6, <3>7 DEF AtFinishDataHi
    <3> QED BY <2>2, <3>5, <3>8 DEF Untaken
  <2> QED BY <1>1, <2>4, <2>5, <2>6, <2>7
<1>2. ASSUME cpu = Lines(TRUE, TRUE, TRUE),
             (Calm(device) /\ Ends) \/ (Silent(device) /\ calls = <<Untalk>>)
      PROVE  AtFinishDataHi' /\ Untaken
  <2>1. /\ cpu' = Lines(TRUE, TRUE, TRUE) /\ code' = <<DataHi>> /\ Rests /\ Accessed
        /\ cpu.atn /\ cpu.clk
    BY <1>0, <1>2, ClkPauses
  <2>2. calls' = calls /\ sent' = sent
    BY <2>1 DEF Rests
  <2>3. /\ Calm(device) => Calm(device') /\ device'.taken = device.taken
        /\ Silent(device) => Silent(device') /\ device'.taken = device.taken
    BY <2>1, CalmAfter
  <2>4. AfterFail'
    BY <1>0, <2>2, EndsKept
  <2>5. \/ Calm(device') /\ WritesNext'
        \/ Silent(device') /\ calls' = <<Untalk>>
    BY <1>2, <2>2, <2>3, EndsKept DEF WritesNext
  <2>6. AtFinishDataHi'
    BY <2>1, <2>4, <2>5 DEF AtFinishDataHi
  <2> QED BY <1>2, <2>2, <2>3, <2>6 DEF Untaken
<1>3. ASSUME cpu = Lines(TRUE, TRUE, FALSE), calls = <<Untalk>>, Exhausted(device)
      PROVE  AtFinishDataHi' /\ Untaken
  <2>1. /\ cpu' = Lines(TRUE, TRUE, FALSE) /\ code' = <<DataHi>> /\ Rests /\ Accessed
        /\ cpu.atn /\ cpu.clk
    BY <1>0, <1>3, ClkPauses, ZenonT(40)
  <2>2. calls' = calls /\ sent' = sent
    BY <2>1 DEF Rests
  <2>3. Exhausted(device') /\ device'.taken = device.taken
    BY <1>3, <2>1, TalkerAfter
  <2>4. AfterFail' /\ calls' = <<Untalk>>
    BY <1>0, <1>3, <2>2, EndsKept
  <2>6. AtFinishDataHi'
    BY <2>1, <2>3, <2>4 DEF AtFinishDataHi
  <2> QED BY <2>2, <2>3, <2>6 DEF Untaken
<1> QED BY <1>1, <1>2, <1>3 DEF AtFinishPause

\* And the data line: the routine is over.
LEMMA FinishDataHiNext ==
    ASSUME TypeOK, AtFinishDataHi, Kernal
    PROVE  Between' /\ Untaken
<1>0. Is(code, StoreOf([data |-> TRUE], 0), << >>) /\ AfterFail
  BY FinishIs, StoreIs DEF AtFinishDataHi
<1>1. ASSUME cpu = Lines(TRUE, TRUE, TRUE),
             \/ Calm(device) /\ WritesNext
             \/ Deaf(device) /\ Addressing(calls)
             \/ /\ With(device, {"LISTENING"}) /\ InBit(device, "BIT", 0)
                /\ Writing(calls)
             \/ Silent(device) /\ calls = <<Untalk>>
      PROVE  Between' /\ Untaken
  <2>1. /\ cpu' = Lines(TRUE, TRUE, TRUE) /\ code' = << >> /\ Rests /\ Accessed
        /\ Stored(0, TRUE = TRUE) /\ cpu.atn /\ cpu.clk
    BY <1>0, <1>1, DataGoes
  <2>2. calls' = calls /\ sent' = sent
    BY <2>1 DEF Rests
  <2>3. CASE Calm(device) /\ WritesNext
    <3>1. Calm(device') /\ device'.taken = device.taken
      BY <2>1, <2>3, CalmAfter
    <3>2. WritesNext'
      BY <2>2, <2>3, EndsKept
    <3>3. AtIdle' \/ AtWriting'
      BY <2>1, <3>1, <3>2 DEF AtIdle, AtWriting, WritesNext
    <3> QED BY <2>1, <2>2, <3>1, <3>3 DEF Between, Untaken
  <2>4. CASE Deaf(device) /\ Addressing(calls)
    <3>1. Deaf(device') /\ device'.taken = device.taken
      BY <2>1, <2>4, CalmAfter
    <3>2. Addressing(calls)'
      BY <2>2, <2>4, EndsKept
    <3>3. AtAddressing'
      BY <2>1, <3>1, <3>2 DEF AtAddressing
    <3> QED BY <2>1, <2>2, <3>1, <3>3 DEF Between, Untaken
  <2>5. CASE /\ With(device, {"LISTENING"}) /\ InBit(device, "BIT", 0)
             /\ Writing(calls)
    <3>1. PICK d \in Nat, a \in Answers :
              0 <= d /\ device' = Exec(device, d, a) /\ Typed(device)
      BY <2>1, StoredSame, TimesToWait
    <3>2. device.clk
      BY <2>5 DEF InBit, InState, Free
    <3>3. /\ With(device', {"LISTENING"}) /\ InBit(device', "BITw", 0)
          /\ device'.taken = device.taken
      BY <2>1, <2>5, <3>1, <3>2, ListenerMoves
    <3>4. Calm(device')
      BY <3>3 DEF Calm
    <3>5. Writing(calls)'
      BY <2>2, <2>5, EndsKept
    <3>6. AtWriting'
      BY <2>1, <3>4, <3>5 DEF AtWriting
    <3> QED BY <2>1, <2>2, <3>3, <3>6 DEF Between, Untaken
  <2>6. CASE Silent(device) /\ calls = <<Untalk>>
    <3>1. Silent(device') /\ device'.taken = device.taken
      BY <2>1, <2>6, CalmAfter
    <3>2. Exhausted(device') /\ calls' = <<Untalk>>
      BY <2>2, <2>6, <3>1 DEF Exhausted
    <3>3. AtReadingDone'
      BY <2>1, <3>2 DEF AtReadingDone
    <3> QED BY <2>1, <2>2, <3>1, <3>3 DEF Between, Untaken
  <2> QED BY <1>1, <2>3, <2>4, <2>5, <2>6
<1>2. ASSUME cpu = Lines(TRUE, TRUE, FALSE), calls = <<Untalk>>, Exhausted(device)
      PROVE  Between' /\ Untaken
  <2>1. /\ cpu' = Lines(TRUE, TRUE, TRUE) /\ code' = << >> /\ Rests /\ Accessed
        /\ cpu.atn /\ cpu.clk
    <3>1. cpu' = Lines(TRUE, TRUE, TRUE) /\ code' = << >> /\ Rests /\ Accessed
      BY <1>0, <1>2, DataGoes
    <3>2. cpu.atn /\ cpu.clk
      BY <1>2, LinesHigh
    <3> QED BY <3>1, <3>2
  <2>2. calls' = calls /\ sent' = sent
    BY <2>1 DEF Rests
  <2>3. Exhausted(device') /\ device'.taken = device.taken
    BY <1>2, <2>1, TalkerAfter
  <2>4. AtReadingDone'
    BY <1>2, <2>1, <2>2, <2>3 DEF AtReadingDone
  <2> QED BY <2>1, <2>2, <2>3, <2>4 DEF Between, Untaken
<1> QED BY <1>1, <1>2 DEF AtFinishDataHi

\* After a reset of the machine the device is silent, whatever the lines were.
LEMMA FallsStale ==
    ASSUME NEW u, Typed(u), Silent(u), ~ cpu.atn, NEW d, NEW a
    PROVE  Stale(Exec(u, d, a)) /\ Exec(u, d, a).state = "PRE0"
           /\ Exec(u, d, a).timeout = Pre0 /\ Exec(u, d, a).taken = u.taken
<1>1. With(u, {}) /\ "ATN" \notin {}
  BY DEF Silent
<1> DEFINE v == Exec(u, d, a)
<1>2. /\ Under(v, {}) /\ v.flags = {} \union {"ATN"}
      /\ v.primary = NONE /\ v.secondary = NONE
      /\ v.state = "PRE0" /\ v.timeout = Pre0 /\ HoldsData(v) /\ v.taken = u.taken
  BY <1>1, Falls
<1> QED BY <1>2 DEF Stale

LEMMA StaleStays ==
    ASSUME NEW u, Typed(u), Stale(u), u.state = "PRE0", ~ cpu.atn, NEW d, NEW a
    PROVE  Stale(Exec(u, d, a)) /\ Exec(u, d, a).taken = u.taken
<1>1. Receiving(u)
  BY DEF Receiving, Stale, Under, Quiet
<1> DEFINE v == Exec(u, d, a)
<1>2. \/ Goes(u, v, "PRE1", u.bit, u.byte, Left(u, d), u.clk, u.data)
      \/ Goes(u, v, "PRE0", u.bit, u.byte, Left(u, d), u.clk, u.data)
  BY <1>1, ReceivesPre
<1> HIDE DEF v
<1>3. Keep(u, v) /\ v.clk = u.clk /\ v.data = u.data
  BY <1>2 DEF Goes
<1>4. Level(v)
  BY <1>3, KeepLevel DEF Stale, Under
<1>5. Stale(v) /\ v.taken = u.taken
  BY <1>3, <1>4 DEF Stale, Under, Keep, HoldsData
<1> QED BY <1>5 DEF v

LEMMA AllGo ==
    ASSUME TypeOK, Kernal, NEW x, NEW y, NEW z, NEW s, NEW a, NEW c, NEW d,
           cpu = Lines(a, c, d), Is(code, StoreOf(Lines(x, y, z), 0), s)
    PROVE  cpu' = Lines(x, y, z) /\ code' = s /\ Rests /\ Accessed
<1>1. /\ cpu' = Lines(x, y, z) /\ Stored(0, a = x /\ c = y /\ d = z)
      /\ code' = s /\ Rests
  BY AllMove
<1>2. Accessed
  BY <1>1, AccessedIs, TimesToWait
<1> QED BY <1>1, <1>2

LEMMA ResetNext ==
    ASSUME TypeOK, AtReset, Kernal
    PROVE  Between' /\ Untaken
<1>0. Is(code, StoreOf(Lines(TRUE, TRUE, TRUE), 0), << >>) /\ Ends /\ Silent(device)
  BY FinishIs, StoreIs DEF AtReset, High, Lines
<1>1. PICK x \in BOOLEAN, c \in BOOLEAN, d \in BOOLEAN : cpu = Lines(x, c, d)
  BY DEF AtReset
<1>2. cpu' = Lines(TRUE, TRUE, TRUE) /\ code' = << >> /\ Rests /\ Accessed
  BY <1>0, <1>1, AllGo
<1>3. Accessed
  BY <1>2
<1>4. calls' = calls /\ sent' = sent
  BY <1>2 DEF Rests
<1>5. PICK n, a, p :
          /\ n \in Nat /\ a \in Answers
          /\ p = Exec(device, n, a) /\ Typed(device) /\ Typed(p)
          /\ device' = p \/ device' = Exec(p, 0, a)
  BY <1>3 DEF Accessed
<1>6. CASE cpu.atn
  <2>1. Silent(device') /\ device'.taken = device.taken
    BY <1>0, <1>3, <1>6, CalmAfter
  <2> QED BY <2>1 , <1>0, <1>2, <1>4, EndsKept DEF Between, Untaken, AtIdle, Calm, Deaf
<1>7. CASE ~ cpu.atn
  <2>1. Stale(p) /\ p.state = "PRE0" /\ p.taken = device.taken
    BY <1>0, <1>5, <1>7, FallsStale
  <2>2. Stale(Exec(p, 0, a)) /\ Exec(p, 0, a).taken = p.taken
    BY <1>5, <1>7, <2>1, StaleStays
  <2>3. Stale(device') /\ device'.taken = device.taken
    BY <1>5, <2>1, <2>2
  <2> QED BY <2>3, <1>0, <1>2, <1>4, EndsKept DEF Between, Untaken, AtIdle
<1> QED BY <1>6, <1>7

LEMMA EndingNext ==
    ASSUME TypeOK, Ending, Kernal
    PROVE  (Ending' \/ Between') /\ Untaken
<1>1. CASE AtSecondDone \/ AtFinishDataHi \/ AtReset
  BY <1>1, SecondDoneNext, FinishDataHiNext, ResetNext
<1>2. CASE AtTurn
  <2>1. (AtTurn' \/ AtTurned(FALSE)') /\ Untaken
    BY <1>2, TurnNext
  <2> QED BY <2>1 DEF Ending
<1>3. ASSUME NEW o \in BOOLEAN, AtTurned(o) PROVE Between' /\ Untaken
  BY <1>3, TurnedNext
<1>4. CASE AtFinish \/ AtFinishPause
  <2>1. (AtFinishPause' \/ AtFinishDataHi') /\ Untaken
    BY <1>4, FinishNext, FinishPauseNext
  <2> QED BY <2>1 DEF Ending
<1> QED BY <1>1, <1>2, <1>3, <1>4 DEF Ending
=============================================================================
