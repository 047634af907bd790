------------------------------ MODULE FileStore ------------------------------
(****************************************************************************)
(* What a disk drive promises to the programs that write files on it,       *)
(* without blocks, directory and bitmap: a file becomes what was written to *)
(* its channel when the channel is closed, a file that is replaced stays    *)
(* what it was until then, no operation on one file changes another, and a  *)
(* file made incomplete by a full disk holds nothing but bytes that were    *)
(* written, in order, and leaves the drive with something to report.        *)
(****************************************************************************)
EXTENDS Naturals, Sequences, SequencesExt

CONSTANTS Names, Channels,
          None              \* no such file, nothing being written

VARIABLES files,            \* the contents of every closed file
          writing,          \* what has been handed to every channel
          error,            \* what the drive reports, "OK" if nothing
          torn              \* has a change of a file been cut off half-way?

vars == <<torn, error, writing, files>>

Init ==
    /\ files = [n \in Names |-> None]
    /\ writing = [c \in Channels |-> None]
    /\ error = "OK"
    /\ torn = FALSE

\* `part' lacks some of the bytes of `text', each of which occurs there once.
PartOf(part, text) ==
    /\ \A i \in DOMAIN part : \E k \in DOMAIN text : part[i] = text[k]
    /\ \A i, j \in DOMAIN part : i < j =>
           \E k, l \in DOMAIN text : k < l /\ part[i] = text[k] /\ part[j] = text[l]

Begin(c, n) ==
    /\ writing[c] = None
    /\ writing'[c] # None
    /\ LET text == writing'[c].text
       IN  /\ writing' = [writing EXCEPT ![c] = [name |-> n, text |-> text, whole |-> TRUE]]
           /\ \/ text = << >> /\ UNCHANGED files
              \/ text = files[n] /\ files' = [files EXCEPT ![n] = None]
    /\ error' = "OK"

Put(c) ==
    /\ writing[c] # None /\ writing'[c] # None
    /\ \/ writing'[c].text # << >>
          /\ writing' = [writing EXCEPT ![c].text = Append(@, Last(writing'[c].text))]
       \/ writing' = [writing EXCEPT ![c].whole = FALSE]
          /\ error' # "OK"
    /\ UNCHANGED files

Finish(c) ==
    /\ writing[c] # None
    /\ writing' = [writing EXCEPT ![c] = None]
    /\ LET text == writing[c].text
           n == writing[c].name
       IN  \E stored \in {files'[n]} :
              /\ stored # None
              /\ PartOf(stored, text)
              /\ stored # text => ~writing[c].whole \/ error' # "OK"
              /\ files' = [files EXCEPT ![n] = stored]

\* The emulator is killed: what is being written is lost, no file is.
Silence == writing' = [c \in Channels |-> None]
Lose == Silence /\ UNCHANGED files

Drop(n) == UNCHANGED writing /\ files' = [files EXCEPT ![n] = None]

Move(n, m) ==
    /\ UNCHANGED writing
    /\ files[m] = None
    /\ files' = [files EXCEPT ![n] = None, ![m] = files[n]]

\* A file saved by a drive that runs its own program.
Arrive(n) ==
    /\ UNCHANGED writing
    /\ files[n] = None
    /\ files' = [files EXCEPT ![n] = files'[n]]

Report == UNCHANGED <<writing, files>>

Operate ==
    \/ Report \/ Lose
    \/ \E c \in Channels : Put(c) \/ Finish(c) \/ \E n \in Names : Begin(c, n)
    \/ \E n \in Names : Drop(n) \/ Arrive(n) \/ \E m \in Names : Move(n, m)

(* A kill half-way through a change of a file has at first touched that     *)
(* file only; but from then on nothing is promised, until a validate that   *)
(* succeeds, and leaves the files as it finds them.                         *)
Tear == Silence /\ \E n \in Names : files' = [files EXCEPT ![n] = files'[n]]
Repair == UNCHANGED <<writing, files>>

Next ==
    \/ ~torn /\ ~torn' /\ Operate
    \/ ~torn /\ torn' /\ Tear
    \/ torn /\ torn'
    \/ torn /\ ~torn' /\ Repair

Spec == Init /\ [][Next]_vars
=============================================================================
