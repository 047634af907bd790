------------------------------ MODULE IecDevice ------------------------------
(****************************************************************************)
(* A device on the serial bus that is not an emulated drive but a state     *)
(* machine of its own (serial-iec-device.c), the channels behind it         *)
(* (fsdrive.c on vdrive-iec.c), and the Kernal of the C64 at the other end. *)
(*                                                                          *)
(* The device moves only when the CPU looks at the bus or changes a line:   *)
(* one transition per access, on the lines as they were before it, however  *)
(* long ago the last access was.  Neither side can wait for the other by    *)
(* anything but the lines and its own timers.                               *)
(*                                                                          *)
(* The Kernal is a program of the machine.  It is kept as the accesses its  *)
(* routines make, with their waits and time-outs.                           *)
(****************************************************************************)
EXTENDS Naturals, Sequences, SequencesExt

CONSTANTS
    Bits,               \* bits of a byte
    NameLength,         \* SERIAL_NAMELENGTH
    Names, Texts,       \* what is sent after OPEN, and to an open file
    Files,              \* what is read from one
    Pre0, Ready, Ack, Turn, Bit, Done, Err,
                        \* US2CYCLES(100), (200), (60), (80), (60), (1000), (100)
    EoiWait, AckWait,   \* the Kernal's time-outs, 256 and 1000 us
    Nmi                 \* how long an NMI holds the Kernal up

\* A byte is the set of its bits that are one.
Byte == SUBSET (0 .. Bits - 1)
ASSUME BitsAssumption == Bits \in Nat /\ Bits >= 4
ASSUME TimesAssumption ==
    {Pre0, Ready, Ack, Turn, Bit, Done, Err, EoiWait, AckWait, Nmi} \subseteq Nat \ {0}
\* The Kernal is the more patient one, in its pauses and with the talker.
ASSUME WaitsAssumption ==
    /\ {Pre0, Ack} \subseteq 0 .. AckWait /\ AckWait <= Nmi
    /\ {3, Err} \subseteq 0 .. EoiWait
ASSUME BytesAssumption == Names \union Texts \union Files \subseteq Seq(Byte) \ {<< >>}

VARIABLES
    cpu,        \* what the C64 lets go of: line to BOOLEAN
    device,     \* serial_iec_device_state[devnr] with its lines `clk' and `data',
                \*   the channel behind it, and as history, `taken': what
                \*   fsdrive_write was given in this operation, `got': what the
                \*   Kernal has read of the file, `lossy': the device was switched
                \*   off while it had a byte of the file in hand
    code,       \* the accesses left of the Kernal's routine,
    calls,      \*   and the routines to call then
    eoi,        \* bit 6 of STATUS: the end of the file was seen
    input,      \* BSOUR1: the bits read so far
    sent,       \* history: bytes acknowledged to the Kernal in this operation,
    held,       \*   an NMI has come in it,
    meddled     \*   the machine was reset or the device switched in it
kernal == <<code, calls, eoi, input>>
vars == <<cpu, device, kernal, sent, held, meddled>>

\* The bytes of the protocol, and none yet.  ABSENT is 0x20 + a device that is
\* not there.
NONE == {}
LISTEN == {0}
TALK == {1}
ABSENT == {0, 1}
UNLISTEN == {2}
UNTALK == {0, 2}
DATA == {1, 2}
CLOSE == {0, 1, 2}
OPEN == {3}

\* SERIAL_OK, SERIAL_EOF and SERIAL_ERROR
OK == 0
EOF == 64
FAIL == 2

\* Answers of the file system to openf; a write fails when it would.
Answers ==
    {[mode |-> "read", file |-> f] : f \in Files} \union
    {[mode |-> m, file |-> << >>] : m \in {"write", "none"}}

High == [atn |-> TRUE, clk |-> TRUE, data |-> TRUE]

\* A line is high when neither side pulls it.
BusWith(u) == [atn |-> cpu.atn, clk |-> cpu.clk /\ u.clk, data |-> cpu.data /\ u.data]
Bus == BusWith(device)

WithBit(b, i, v) == IF v THEN b \union {i} ELSE b \ {i}

Init ==
    /\ cpu = High
    /\ device =
        [enabled |-> TRUE, flags |-> {}, state |-> "PRE0", bit |-> 0,
         primary |-> NONE, secondary |-> NONE, secondary_prev |-> NONE, byte |-> {},
         timeout |-> 0, st |-> OK, clk |-> TRUE, data |-> TRUE,
         isopen |-> 0, name |-> << >>, mode |-> "none", file |-> << >>, pos |-> 0,
         taken |-> << >>, got |-> << >>, lossy |-> FALSE]
    /\ code = << >> /\ calls = << >> /\ eoi = FALSE /\ input = {}
    /\ sent = << >> /\ held = FALSE /\ meddled = FALSE

----------------------------------------------------------------------------
(* The channel: each operator is the device u after the call, with the      *)
(* status the call reports in st.                                           *)

fsdrive_open(u) == [u EXCEPT !.isopen = 1, !.st = OK]

fsdrive_close(u) == [u EXCEPT !.isopen = 0, !.mode = "none", !.st = OK]

\* A file that was opened but not named is opened without a name, which
\* fails; what was kept of a name goes to whatever was open before.
fsdrive_listentalk(u) ==
    IF u.isopen = 1 THEN [u EXCEPT !.isopen = 2, !.name = << >>] ELSE u

\* The file is opened when its name is complete.
fsdrive_unlisten(u, answer) ==
    IF u.secondary_prev = OPEN /\ u.isopen # 0 /\ u.name # << >>
    THEN [u EXCEPT !.isopen = IF answer.mode = "none" THEN 0 ELSE 2,
                   !.name = << >>,
                   !.mode = answer.mode, !.file = answer.file, !.pos = 0,
                   !.got = << >>, !.lossy = FALSE,
                   !.st = IF answer.mode = "none" THEN FAIL ELSE OK]
    ELSE [u EXCEPT !.st = IF u.secondary_prev = OPEN THEN OK ELSE @]

\* A byte of a name is kept, one for the file is written, if it can be.
fsdrive_write(u, answer) ==
    IF u.isopen = 1
    THEN [u EXCEPT !.name = IF Len(@) < NameLength THEN Append(@, u.byte) ELSE @,
                   !.taken = Append(@, u.byte)]
    ELSE [u EXCEPT !.st = IF u.mode = "write" /\ answer.mode # "none" THEN OK ELSE FAIL,
                   !.taken = Append(@, u.byte)]

fsdrive_read(u) ==
    IF u.mode = "read" /\ u.pos < Len(u.file)
    THEN [u EXCEPT !.byte = u.file[u.pos + 1], !.pos = @ + 1,
                   !.st = IF u.pos + 1 = Len(u.file) THEN EOF ELSE OK]
    ELSE [u EXCEPT !.st = FAIL]

----------------------------------------------------------------------------
(* serial_iec_device_exec_main, for the device u and the lines as it finds  *)
(* them; timeout is what is left of the time, and time has passed before.   *)

\* iecbus_device_write
Pull(u, clk, data) == [u EXCEPT !.clk = clk, !.data = data]
Go(u, state, timeout) == [u EXCEPT !.state = state, !.timeout = timeout]

(* Faults that the properties below must notice; none is used by the model. *)
Acknowledged_ReadsAhead(u) ==
    IF u.st = EOF
    THEN [Pull(u, TRUE, TRUE) EXCEPT !.flags = @ \ {"TALKING"}, !.st = OK]
    ELSE Go(fsdrive_read(u), "PRE1", 0)
Talks_StateKept(u) == [u EXCEPT !.flags = (@ \ {"LISTENING"}) \union {"TALKING"}]

Release(u) == Pull(u, TRUE, TRUE)
HoldData(u) == Pull(u, TRUE, FALSE)
HoldClk(u) == Pull(u, FALSE, TRUE)

GoOn(u, state) == Go(u, state, u.timeout)
FirstBit(u, timeout) == [Go(u, "BIT", timeout) EXCEPT !.bit = 0]
Expired(u) == u.timeout = 0

AtnFalls(u) ==
    HoldData(
        [u EXCEPT !.state = "PRE0", !.flags = @ \union {"ATN"},
                  !.primary = NONE, !.secondary_prev = u.secondary,
                  !.secondary = NONE, !.timeout = Pre0])

\* What the secondary address asks of the channel.
Addressed(u) ==
    CASE u.secondary = DATA -> fsdrive_listentalk(u)
      [] u.secondary = CLOSE -> fsdrive_close(u)
      [] u.secondary = OPEN -> fsdrive_open(u)
      [] OTHER -> u

Listens(u) ==
    HoldData(
        IF u.st = OK
        THEN [u EXCEPT !.flags = (@ \ {"TALKING"}) \union {"LISTENING"}, !.state = "PRE1"]
        ELSE [u EXCEPT !.flags = @ \ {"TALKING"}])

Talks(u) ==
    [u EXCEPT !.flags = (@ \ {"LISTENING"}) \union {"TALKING"}, !.state = "PRE0"]

AtnRises(u0, answer) ==
    LET u == [u0 EXCEPT !.flags = @ \ {"ATN"}]
        v == IF u.primary \in {LISTEN, TALK}
             THEN IF u.primary = LISTEN THEN Listens(Addressed(u)) ELSE Talks(Addressed(u))
             ELSE IF u.primary = UNLISTEN /\ "LISTENING" \in u.flags
             THEN fsdrive_unlisten([u EXCEPT !.flags = @ \ {"LISTENING"}], answer)
             ELSE IF u.primary = UNTALK
             THEN [u EXCEPT !.flags = @ \ {"TALKING"}]
             ELSE u
    IN IF v.flags = {} THEN Release(v) ELSE v

AtnEdge(u, bus, answer) ==
    CASE "ATN" \notin u.flags /\ ~ bus.atn -> AtnFalls(u)
      [] "ATN" \in u.flags /\ bus.atn -> AtnRises(u, answer)
      [] OTHER -> u

\* The last bit has come: under ATN the first two bytes are the addresses, and
\* only those for this device or for all are acknowledged; a byte for the
\* channel is, if the channel took it.
ByteUnderAtn(u0) ==
    LET u == IF u0.primary = NONE THEN [u0 EXCEPT !.primary = u0.byte]
             ELSE IF u0.secondary = NONE THEN [u0 EXCEPT !.secondary = u0.byte]
             ELSE u0
    IN IF u.primary \in {LISTEN, TALK, UNLISTEN, UNTALK}
       THEN GoOn(HoldData(u), "PRE2")
       ELSE GoOn(u, "DONE0")

ByteForChannel(u0, answer) ==
    LET u == fsdrive_write(u0, answer)
    IN IF u.st = OK THEN GoOn(HoldData(u), "PRE2") ELSE GoOn(u, "DONE0")

\* A fault: what the device listens to goes before ATN.
BitDone_ListenFirst(u, answer) ==
    IF u.bit < Bits - 1 THEN [GoOn(u, "BIT") EXCEPT !.bit = @ + 1]
    ELSE IF "LISTENING" \in u.flags THEN ByteForChannel(u, answer)
    ELSE ByteUnderAtn(u)

BitDone(u, answer) ==
    IF u.bit < Bits - 1 THEN [GoOn(u, "BIT") EXCEPT !.bit = @ + 1]
    ELSE IF "ATN" \in u.flags THEN ByteUnderAtn(u)
    ELSE ByteForChannel(u, answer)

\* One transition under ATN or while listening.
Receive(u, bus, answer) ==
    CASE u.state = "PRE0" /\ Expired(u) -> GoOn(u, "PRE1")
      [] u.state = "PRE1" /\ ~ bus.clk -> GoOn(u, "PRE2")
      [] u.state = "PRE2" /\ bus.clk -> Go(Release(u), "READY", Ready)
      [] u.state = "READY" /\ ~ bus.clk -> FirstBit(u, u.timeout)
      [] u.state = "READY" /\ bus.clk /\ "ATN" \notin u.flags /\ Expired(u) ->
            Go(HoldData(u), "EOI", Ack)
      [] u.state = "EOI" /\ Expired(u) -> GoOn(Release(u), "EOIw")
      [] u.state = "EOIw" /\ ~ bus.clk -> FirstBit(u, u.timeout)
      [] u.state = "BIT" /\ bus.clk ->
            [GoOn(u, "BITw") EXCEPT !.byte = WithBit(@, u.bit, bus.data)]
      [] u.state = "BITw" /\ ~ bus.clk -> BitDone(u, answer)
      [] OTHER -> u

\* The talker's next byte: the last one is announced, an error ends the talk.
NextByte(u0) ==
    LET u == fsdrive_read(u0)
    IN CASE u.st = OK -> FirstBit(u, 0)
         [] u.st = EOF -> GoOn(u, "EOI")
         [] OTHER -> [u EXCEPT !.flags = @ \ {"TALKING"}]

\* The byte was acknowledged.
Acknowledged(u) ==
    IF u.st = EOF THEN Release([u EXCEPT !.flags = @ \ {"TALKING"}, !.st = OK])
    ELSE Go(u, "PRE1", 0)

\* One transition while talking.
Send(u, bus) ==
    CASE u.state = "PRE0" /\ bus.clk -> Go(HoldClk(u), "PRE1", Turn)
      [] u.state = "PRE1" /\ Expired(u) -> GoOn(Release(u), "READY")
      [] u.state \in {"PRE1", "READY"} /\ ~ (u.state = "PRE1" /\ Expired(u)) /\ bus.data ->
            NextByte(u)
      [] u.state = "EOI" /\ ~ bus.data -> GoOn(u, "EOIw")
      [] u.state = "EOIw" /\ bus.data -> FirstBit(u, 0)
      [] u.state = "BIT" /\ Expired(u) ->
            Go(Pull(u, FALSE, u.bit \in u.byte), "BITw", Bit)
      [] u.state = "BITw" /\ Expired(u) ->
            LET v == Pull(u, TRUE, bus.data)
            IN IF u.bit < Bits - 1 THEN [Go(v, "BIT", Bit) EXCEPT !.bit = @ + 1]
               ELSE Go(v, "DONE0", Bit)
      [] u.state = "DONE0" /\ Expired(u) -> Go(HoldClk(u), "DONE1", Done)
      [] u.state = "DONE1" /\ ~ bus.data -> Acknowledged(u)
      [] u.state = "DONE1" /\ bus.data /\ Expired(u) -> Go(Release(u), "FRAMEERR0", Err)
      [] u.state = "FRAMEERR0" /\ Expired(u) -> GoOn(HoldClk(u), "FRAMEERR1")
      [] u.state = "FRAMEERR1" /\ ~ bus.data -> Go(u, "PRE1", 0)
      [] OTHER -> u

Transition(u, bus, answer) ==
    IF u.flags \intersect {"ATN", "LISTENING"} # {} THEN Receive(u, bus, answer)
    ELSE IF "TALKING" \in u.flags THEN Send(u, bus)
    ELSE u

\* serial_iec_device_exec, d after the last time, with the lines as they are.
After(u, d) == [u EXCEPT !.timeout = IF @ > d THEN @ - d ELSE 0]
Exec(u, d, answer) ==
    IF ~ u.enabled THEN u
    ELSE Transition(AtnEdge(After(u, d), BusWith(u), answer), BusWith(u), answer)

----------------------------------------------------------------------------
(* The Kernal's routines, as the accesses they make: a store of some lines,  *)
(* t after the last access at least; a look at a line that must be so; looks *)
(* until it is so; for so long at most, for an acknowledgement and for the   *)
(* first edge of a byte; until a bit is valid; and the byte that was read.   *)

Store(lines) == [do |-> "store", lines |-> lines, t |-> 0]
Pause(lines) == [do |-> "store", lines |-> lines, t |-> AckWait]
Need(v) == [do |-> "need", v |-> v]
Until(line, v) == [do |-> "until", line |-> line, v |-> v, odd |-> FALSE]
AckOf(b, data) == [do |-> "ack", t |-> AckWait, byte |-> b, data |-> data]
FirstEdge(again) == [do |-> "edge", t |-> EoiWait, again |-> again]
Sample(i) == [do |-> "sample", bit |-> i, odd |-> FALSE]
ByteRead == [do |-> "read"]

DataHi == Store([data |-> TRUE])
DataLo == Store([data |-> FALSE])
ClkHi == Store([clk |-> TRUE])
ClkLo == Store([clk |-> FALSE])
AtnHi == Store([atn |-> TRUE])
AtnLo == Store([atn |-> FALSE])
LetGo == <<Pause([clk |-> TRUE]), DataHi>>

\* ISOUR sends a byte, a last one with the end announced.
SendBit(b, i) ==
    <<Need(TRUE), Store([data |-> i \in b]), ClkHi,
      Store([clk |-> FALSE, data |-> TRUE])>>
SendBits(b, i) ==
    [k \in 1 .. 4 * (Bits - i) |-> SendBit(b, i + ((k - 1) \div 4))[((k - 1) % 4) + 1]]
ISOUR(b, last, data) ==
    <<DataHi, Need(FALSE), ClkHi>>
    \o (IF last THEN <<Until("data", TRUE), Until("data", FALSE)>> ELSE << >>)
    \o <<Until("data", TRUE), ClkLo>>
    \o SendBits(b, 0) \o <<AckOf(b, data)>>
ISOURA(b) == <<ClkLo, Pause([data |-> TRUE])>> \o ISOUR(b, FALSE, FALSE)

\* LISTN, TALK, UNLSN and UNTLK send a byte under ATN.
Command(b) ==
    (IF b = UNTALK THEN <<ClkLo, AtnLo>> ELSE << >>)
    \o <<DataHi>>
    \o (IF b = UNLISTEN THEN <<ClkHi>> ELSE << >>)
    \o <<AtnLo>> \o ISOURA(b)
    \o (IF b \in {UNLISTEN, UNTALK} THEN <<AtnHi>> \o LetGo ELSE << >>)
SECND(b) == ISOURA(b) \o <<AtnHi>>
TKSA(b) == ISOURA(b) \o <<DataLo, AtnHi, ClkHi, Until("clk", FALSE)>>

\* ACPTR reads a byte.
ReadBits(i) ==
    [k \in 1 .. 2 * (Bits - i) |->
        IF k % 2 = 1 THEN Sample(i + ((k - 1) \div 2)) ELSE Until("clk", FALSE)]
ACPTR ==
    <<ClkHi, Until("clk", TRUE), DataHi, FirstEdge(FALSE)>>
    \o ReadBits(0) \o <<DataLo, ByteRead>>

Routine(c) ==
    CASE c.name = "command" -> Command(c.byte)
      [] c.name = "SECND" -> SECND(c.byte)
      [] c.name = "TKSA" -> TKSA(c.byte)
      [] c.name = "CIOUT" -> ISOUR(c.byte, c.last, TRUE)
      [] c.name = "ACPTR" -> ACPTR

\* What a program calls for: open, write, read, close, another device.
CallOf(name, b) == [name |-> name, byte |-> b]
Message(second, text) ==
    <<CallOf("command", LISTEN), CallOf("SECND", second)>>
    \o [i \in 1 .. Len(text) |->
            [name |-> "CIOUT", byte |-> text[i], last |-> i = Len(text)]]
    \o <<CallOf("command", UNLISTEN)>>
Operations ==
    {Message(OPEN, n) : n \in Names} \union {Message(DATA, t) : t \in Texts} \union
    {Message(CLOSE, << >>),
     <<CallOf("command", TALK), CallOf("TKSA", DATA), CallOf("ACPTR", NONE),
       CallOf("command", UNTALK)>>,
     <<CallOf("command", ABSENT), CallOf("SECND", DATA), CallOf("command", UNLISTEN)>>}

----------------------------------------------------------------------------
Idle == code = << >> /\ calls = << >>

Begin(op) ==
    /\ Idle
    /\ calls' = op /\ eoi' = FALSE
    /\ sent' = << >> /\ held' = FALSE /\ device' = [device EXCEPT !.taken = << >>]
    /\ meddled' = FALSE
    /\ UNCHANGED <<cpu, code, input>>

\* The next routine, at once or when the program gets there; the device does
\* not notice that time passes.
Call ==
    /\ code = << >> /\ calls # << >>
    /\ code' = Routine(Head(calls)) /\ calls' = Tail(calls)
    /\ input' = {}
    /\ \E d \in {0, AckWait} : device' = After(device, d)
    /\ UNCHANGED <<cpu, eoi, sent, held, meddled>>

At(do) == code # << >> /\ Head(code).do = do

\* The port is read, changed and written back; writing the same again is not
\* noticed on the bus (store_ciapa).  An NMI may come first, longer than any
\* time-out; during the waits below it would upset the Kernal's own timers.
Stores ==
    /\ At("store")
    /\ cpu' = [l \in DOMAIN cpu |-> IF l \in DOMAIN Head(code).lines
                                    THEN Head(code).lines[l] ELSE cpu[l]]
    /\ \E nmi \in BOOLEAN, answer \in Answers :
        LET read == Exec(device, IF nmi THEN Nmi ELSE Head(code).t, answer)
        IN /\ nmi => ~ held
           /\ held' = (held \/ nmi)
           /\ device' = IF cpu' = cpu THEN read ELSE Exec(read, 0, answer)
    /\ code' = Tail(code)
    /\ UNCHANGED <<calls, eoi, input, sent, meddled>>

\* A look at the port.
Looks ==
    /\ \E answer \in Answers : device' = Exec(device, 1, answer)
    /\ UNCHANGED <<cpu, held, meddled>>

\* The routine gives up, and so does the program if nobody answers.
Fails(absent) ==
    /\ code' = <<AtnHi>> \o LetGo
    /\ calls' = IF absent THEN << >> ELSE calls
    /\ UNCHANGED <<eoi, input, sent>>

Needs ==
    /\ At("need")
    /\ Looks
    /\ IF Bus'.data = Head(code).v
       THEN code' = Tail(code) /\ UNCHANGED <<calls, eoi, input, sent>>
       ELSE Fails(~ Head(code).v)

\* Another look of the same kind: a step also when it changes nothing.
Again ==
    IF device' = device THEN <<[Head(code) EXCEPT !.odd = ~ @]>> \o Tail(code) ELSE code

Untils ==
    /\ At("until")
    /\ Looks
    /\ code' = IF Bus'[Head(code).line] = Head(code).v THEN Tail(code) ELSE Again
    /\ UNCHANGED <<calls, eoi, input, sent>>

\* The same routine, with less time for its first access.
LessTime == <<[Head(code) EXCEPT !.t = @ - 1]>> \o Tail(code)

Acks ==
    /\ At("ack")
    /\ Looks
    /\ \/ /\ ~ Bus'.data
          /\ code' = Tail(code)
          /\ sent' = IF Head(code).data THEN Append(sent, Head(code).byte) ELSE sent
          /\ UNCHANGED <<calls, eoi, input>>
       \/ /\ Bus'.data /\ Head(code).t > 1
          /\ code' = LessTime
          /\ UNCHANGED <<calls, eoi, input, sent>>
       \/ Bus'.data /\ Head(code).t = 1 /\ Fails(FALSE)

\* No edge in time: the end is announced, or the second time an error.
Edges ==
    /\ At("edge")
    /\ Looks
    /\ \/ /\ ~ Bus'.clk
          /\ code' = Tail(code)
          /\ UNCHANGED <<calls, eoi, input, sent>>
       \/ /\ Bus'.clk /\ Head(code).t > 1
          /\ code' = LessTime
          /\ UNCHANGED <<calls, eoi, input, sent>>
       \/ /\ Bus'.clk /\ Head(code).t = 1 /\ ~ Head(code).again
          /\ code' = <<DataLo, ClkHi, DataHi, FirstEdge(TRUE)>> \o Tail(code)
          /\ eoi' = TRUE
          /\ UNCHANGED <<calls, input, sent>>
       \/ Bus'.clk /\ Head(code).t = 1 /\ Head(code).again /\ Fails(FALSE)

Samples ==
    /\ At("sample")
    /\ Looks
    /\ IF Bus'.clk
       THEN /\ code' = Tail(code)
            /\ input' = WithBit(input, Head(code).bit, Bus'.data)
       ELSE code' = Again /\ UNCHANGED input
    /\ UNCHANGED <<calls, eoi, sent>>

\* The byte is handed to the program, which goes on reading or does not.
Reads ==
    /\ At("read")
    /\ device' = [device EXCEPT !.got = Append(@, [byte |-> input, last |-> eoi])]
    /\ code' = IF eoi THEN LetGo ELSE << >>
    /\ calls' \in IF eoi THEN {calls} ELSE {calls, <<CallOf("ACPTR", NONE)>> \o calls}
    /\ UNCHANGED <<cpu, eoi, input, sent, held, meddled>>

----------------------------------------------------------------------------
\* A device whose flags are cleared: what it still holds of an unfinished
\* transfer is overwritten before it is looked at, and is left out.
Forgets(u) ==
    Release([u EXCEPT !.flags = {}, !.timeout = 0, !.state = "PRE0", !.bit = 0,
                      !.byte = {}, !.primary = NONE, !.secondary = NONE,
                      !.secondary_prev = NONE])

\* machine_specific_reset: the channel is closed, the device starts anew, and
\* the Kernal lets go of the lines when it gets there.
Reset ==
    /\ ~ meddled
    /\ device' =
        [(IF device.enabled THEN [Forgets(device) EXCEPT !.st = OK] ELSE device) EXCEPT !.isopen = 0,
                              !.mode = IF device.isopen # 0 THEN "none" ELSE @]
    /\ code' = <<Store(High)>> /\ calls' = << >> /\ eoi' = FALSE /\ input' = {}
    /\ meddled' = TRUE
    /\ UNCHANGED <<cpu, sent, held>>

\* serial_iec_device_disable and serial_iec_device_enable, which clears the
\* flags; not switched on in
\* the middle of an operation, where it would take up bytes half way.
Switch ==
    /\ ~ meddled /\ (device.enabled \/ Idle)
    /\ device' =
        IF device.enabled
        THEN [Forgets(device) EXCEPT !.enabled = FALSE,
                                     !.lossy = @ \/ device.pos > Len(device.got)]
        ELSE [device EXCEPT !.enabled = TRUE, !.st = OK]
    /\ meddled' = TRUE
    /\ UNCHANGED <<cpu, kernal, sent, held>>

Kernal == Call \/ Stores \/ Needs \/ Untils \/ Acks \/ Edges \/ Samples \/ Reads

Next == Kernal \/ (\E op \in Operations : Begin(op)) \/ Reset \/ Switch
Spec == Init /\ [][Next]_vars

\* The CPU does not stop: weak fairness of Kernal, every look a step, which is
\* enabled unless Idle.
FairSpec == Spec /\ ([]<>Idle \/ []<><<Kernal>>_vars)

----------------------------------------------------------------------------
(* Safety. *)

\* Every byte acknowledged to the Kernal was taken by the channel, in order
\* and once; one more may be taken that is not acknowledged yet, or never is.
\* The Kernal and the device each have their own idea of where in a byte they
\* are (serial_iec_device_exec_main).
SentIsTaken ==
    meddled \/ (IsPrefix(sent, device.taken) /\ Len(device.taken) <= Len(sent) + 1)

\* What the Kernal has read is the file from its start, with nothing left out
\* or read twice where a program stopped and went on later, and the end
\* announced with the last byte and no other.  The device has at most one byte
\* more in hand.
GotIsFile ==
    device.mode = "read" /\ ~ device.lossy =>
        /\ device.pos \in {Len(device.got), Len(device.got) + 1}
        /\ \A i \in 1 .. Len(device.got) :
            device.got[i] = [byte |-> device.file[i], last |-> i = Len(device.file)]

\* A device that is off, or neither under ATN nor listening nor talking, does
\* not hold the bus, whichever of the places in serial_iec_device_exec_main,
\* serial_iec_device_reset and _disable made it so: nobody could use it.
LinesReleased ==
    ~ device.enabled \/ device.flags = {} => device.clk /\ device.data

----------------------------------------------------------------------------
(* Liveness. *)

\* Every operation ends, if need be with an error: the Kernal waits for the
\* device without a time-out in five places, and so does the device for it.
\* Not so when an NMI kept the Kernal from acknowledging a byte within Done: the
\* device's answer to that (P_FRAMEERR0) looks to the Kernal like a next byte.
OperationsEnd == ~ Idle ~> (Idle \/ meddled \/ held)
==============================================================================
