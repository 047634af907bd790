----------------------------- MODULE VirtualDrive -----------------------------
(****************************************************************************)
(* The virtual drive (vdrive/): the files of an attached disk image as the  *)
(* serial traps write them, without the program of a real drive.  A channel *)
(* that writes a file holds one block in its buffer and a copy of the       *)
(* file's directory entry; blocks are allocated in the copy of the bitmap   *)
(* that the drive keeps in memory, and the bitmap goes to the image only    *)
(* when a file is closed or a command has freed blocks.  Meanwhile true     *)
(* emulation may be switched on and the drive's own program write the same  *)
(* image, and the emulator may be killed.                                   *)
(*                                                                          *)
(* A block holds BlockSize bytes instead of 254, and a byte says which file *)
(* it was written for and as the how-manieth.  Which free block is taken is *)
(* left open: vdrive_bam_alloc_first_free_sector and _next_free_sector      *)
(* search all of the disk.  A directory has room for a fixed number of      *)
(* files, on a track of its own.  Left out: reading, which changes nothing, *)
(* relative and deleted files, partitions, block and memory commands,       *)
(* write-protected and unreadable images.                                   *)
(****************************************************************************)
EXTENDS Integers, Sequences, SequencesExt, FiniteSets, FiniteSetsExt

CONSTANTS
    None,               \* no block, no file, no channel
    Blocks,             \* the blocks of the disk, the directory's track aside
    SlotCount,          \* the number of files in a full directory
    Names,
    ChannelCount,       \* the number of channels
    BlockSize,          \* bytes in a block
    Careful,            \* does the user keep to MayTouch and MaySwitch?
    TrueEmulation,      \* may true emulation be switched on and off?
    Kills,              \* may the emulator be killed?
    MaxOpens,           \* bound on the files written
    MaxBytes            \* bound on the bytes written for one of them

ASSUME SizesArePositive ==
    /\ SlotCount \in Nat \ {0} /\ ChannelCount \in Nat \ {0} /\ BlockSize \in Nat \ {0}

Slots == 1 .. SlotCount
Channels == 1 .. ChannelCount

\* Entries of the directory, and what a channel keeps of the file it writes.
BlockOrNone == Blocks \cup {None}
Bytes == Nat \X Nat
Entries == [name : Names, closed : BOOLEAN, first : BlockOrNone]
Buffers ==
    [slot : Slots, entry : Entries, replacement : BlockOrNone,
     track : BlockOrNone, needsupdate : BOOLEAN, buffer : Seq(Bytes),
     id : Nat, count : Nat, text : Seq(Bytes), whole : BOOLEAN]

ASSUME BlocksAssumption == IsFiniteSet(Blocks)
ASSUME NoneAssumption ==
    /\ None \notin Blocks \cup Entries \cup Buffers
    /\ None \notin Seq(Bytes) \cup [name : Names, text : Seq(Bytes), whole : BOOLEAN]

VARIABLES
    diskBam, dir, link, data,   \* the image: blocks in use, directory entries,
                                \*   and every block's next one and bytes
    bam,                        \* vdrive->bam, the blocks in use
    chan,                       \* vdrive->buffers
    last_code,                  \* the error channel: "OK", "DISK_FULL" or "OTHER"
    command,                    \* the command that is closing all channels, or None
    true_emulation,             \* does the drive's own program run?
    opens,                      \* how many files have been opened to write
    orphans,                    \* history: may blocks of a file that was lost be
                                \*   in use, not freed yet?
    torn                        \* history: has the emulator been killed with only
                                \*   one of directory and bitmap written, and the
                                \*   disk not been validated since?

diskVars == <<diskBam, dir, link, data>>
vars == <<diskVars, bam, chan, last_code, command, true_emulation, opens, orphans, torn>>

Entry(name, closed, first) == [name |-> name, closed |-> closed, first |-> first]

VdriveInit ==
    /\ diskBam = {} /\ dir = [s \in Slots |-> None]
    /\ link = [b \in Blocks |-> None] /\ data = [b \in Blocks |-> << >>]
    /\ bam = {}
    /\ chan = [c \in Channels |-> None]
    /\ last_code = "OK" /\ command = None /\ true_emulation = FALSE
    /\ opens = 0 /\ orphans = FALSE /\ torn = FALSE
----------------------------------------------------------------------------
(* Faults that the properties below must notice; none is used by the model. *)
FreeChain_FirstOnly(used, next, first) == used \ {first}
AfterSwitchOff_Kept == bam
Closing_KeepsReplacement(f) == Entry(f.entry.name, TRUE, f.entry.first)
----------------------------------------------------------------------------
(* Chains of blocks.                                                        *)

\* The block reached over i links from `first', None beyond the last.
Walk(next, first) ==
    LET at[i \in 0 .. Cardinality(Blocks)] ==
            IF i = 0 THEN first
            ELSE IF at[i - 1] = None THEN None ELSE next[at[i - 1]]
    IN  at
Chain(next, first) == Range(Walk(next, first)) \ {None}
Ends(next, first) == None \in Range(Walk(next, first))
LastOf(next, first) == CHOOSE b \in Chain(next, first) : next[b] = None
Contents(next, bytes, first) ==
    LET at == Walk(next, first)
        upTo[i \in DOMAIN at] ==
            LET here == IF at[i] = None THEN << >> ELSE bytes[at[i]]
            IN  IF i = 0 THEN here ELSE upTo[i - 1] \o here
    IN  upTo[Cardinality(Blocks)]

(* vdrive_dir_free_chain: it stops at a block that is free already.         *)
FreeChain(used, next, first) ==
    LET at == Walk(next, first)
    IN  used \ {at[i] : i \in {k \in DOMAIN at : \A j \in 0 .. k : at[j] \in used}}
----------------------------------------------------------------------------
Named(n) == {s \in Slots : dir[s] # None /\ dir[s].name = n}
Written(s) == \E c \in Channels : chan[c] # None /\ chan[c].slot = s
Open == {c \in Channels : chan[c] # None}

(* A careful user does nothing to a file that is open, nor to one that was  *)
(* not closed, but validates the disk; and switches true emulation on only  *)
(* when no file is open.                                                    *)
MayTouch(s) == Careful => dir[s].closed /\ ~Written(s)
MaySwitch == Careful => Open = {}

\* vdrive_command_set_error
SetError(code) == IF code # "OK" /\ last_code # "OK" THEN last_code ELSE code

\* The traps pass operations to the virtual drive.
Served == ~true_emulation /\ command = None
----------------------------------------------------------------------------
(* vdrive_iec_open, for writing.  The fields of a channel: the directory    *)
(* slot and the copy of its entry with SLOT_REPLACE_TRACK, the block being  *)
(* written, needsupdate, and the buffer; `id', `count' and `text' number    *)
(* the bytes handed over and remember them.                                 *)

Channel(s, entry, track, needsupdate, buffer, text) ==
    [slot |-> s, entry |-> entry, replacement |-> None, track |-> track,
     needsupdate |-> needsupdate, buffer |-> buffer,
     id |-> opens + 1, count |-> 0, text |-> text, whole |-> TRUE]

OpenChannel(c, f) ==
    /\ Served /\ chan[c] = None /\ opens < MaxOpens
    /\ chan' = [chan EXCEPT ![c] = f]
    /\ opens' = opens + 1
    /\ last_code' = "OK"
    /\ UNCHANGED <<diskBam, link, data, bam, command, true_emulation, orphans, torn>>

OpenNew(c, n) ==
    /\ Named(n) = {}
    /\ \E s \in Slots :
        /\ dir[s] = None /\ \A t \in 1 .. s - 1 : dir[t] # None
        /\ LET entry == Entry(n, FALSE, None)
           IN  /\ OpenChannel(c, Channel(s, entry, None, FALSE, << >>, << >>))
               /\ dir' = [dir EXCEPT ![s] = entry]

OpenReplace(c, s) ==
    /\ dir[s] # None /\ MayTouch(s)
    /\ OpenChannel(c, Channel(s, dir[s], None, TRUE, << >>, << >>))
    /\ UNCHANGED dir

OpenAppend(c, s) ==
    /\ dir[s] # None /\ MayTouch(s)
    /\ Ends(link, dir[s].first)     \* else the scan does not end
    /\ LET entry == [dir[s] EXCEPT !.closed = FALSE]
           track == IF entry.first = None THEN None ELSE LastOf(link, entry.first)
           buffer == IF track = None THEN << >> ELSE data[track]
       IN  /\ OpenChannel(c, Channel(s, entry, track, FALSE, buffer,
                                     Contents(link, data, entry.first)))
           /\ dir' = [dir EXCEPT ![s] = entry]

\* An open with the file there, no slot free or the channel in use; a command
\* with its file not there.
Refused ==
    /\ Served
    /\ last_code' \in {"OTHER", SetError("OTHER")}
    /\ UNCHANGED <<diskVars, bam, chan, command, true_emulation, opens, orphans, torn>>
----------------------------------------------------------------------------
(* vdrive_iec_write and iec_write_sequential.                               *)

\* The first block of a file, remembered in the entry.
WithFirst(f, b) ==
    IF f.needsupdate THEN [f EXCEPT !.track = b, !.replacement = b]
                     ELSE [f EXCEPT !.track = b, !.entry.first = b]

Byte(f) == <<f.id, f.count + 1>>
Take(f, buffer) ==
    [f EXCEPT !.buffer = Append(buffer, Byte(f)), !.count = @ + 1,
              !.text = Append(@, Byte(f))]
\* The byte is refused, and the block in the buffer given up with it.
Refuse(f) == [f EXCEPT !.buffer = << >>, !.whole = FALSE]

CanWrite(c) ==
    /\ Served /\ chan[c] # None /\ chan[c].count < MaxBytes
    /\ UNCHANGED <<dir, diskBam, command, true_emulation, opens, orphans, torn>>

WriteByte(c) ==
    /\ CanWrite(c)
    /\ Len(chan[c].buffer) < BlockSize
    /\ chan' = [chan EXCEPT ![c] = Take(@, @.buffer)]
    /\ UNCHANGED <<link, data, bam, last_code>>

\* The buffer is written, and linked to a block allocated for the next.
WriteBlock(c) ==
    /\ CanWrite(c)
    /\ Len(chan[c].buffer) = BlockSize
    /\ \E this \in IF chan[c].track = None THEN Blocks \ bam ELSE {chan[c].track} :
       \E next \in Blocks \ (bam \cup {b \in {this} : chan[c].track = None}) :
        /\ LET f == IF chan[c].track = None THEN WithFirst(chan[c], this) ELSE chan[c]
           IN  chan' = [chan EXCEPT ![c] = Take([f EXCEPT !.track = next], << >>)]
        /\ link' = [link EXCEPT ![this] = next]
        /\ data' = [data EXCEPT ![this] = chan[c].buffer]
        /\ bam' = bam \cup {this, next}
    /\ UNCHANGED last_code

\* No block is free, or only one for the first block of the file.
WriteRefused(c) ==
    /\ CanWrite(c)
    /\ Len(chan[c].buffer) = BlockSize
    /\ \/ bam = Blocks
          /\ chan' = [chan EXCEPT ![c] = Refuse(@)]
          /\ UNCHANGED bam
       \/ chan[c].track = None /\ Cardinality(Blocks \ bam) = 1
          /\ \E b \in Blocks \ bam : chan' = [chan EXCEPT ![c] = Refuse(WithFirst(@, b))]
          /\ bam' = Blocks
    /\ last_code' = SetError("DISK_FULL")
    /\ UNCHANGED <<link, data>>
----------------------------------------------------------------------------
(* iec_close_sequential.                                                    *)

(* The last block of a file is written: its place, and None if there is     *)
(* none, which is all the caller would have to notice.                      *)
LastBlock(f) ==
    IF f.track # None THEN {f.track} ELSE IF bam = Blocks THEN {None} ELSE Blocks \ bam

\* The entry as it goes to the directory.
Closing(f) ==
    Entry(f.entry.name, TRUE, IF f.needsupdate THEN f.replacement ELSE f.entry.first)

\* The channel when its last block is at b, and the write of that block.
Flushed(c, b) == IF chan[c].track = None THEN WithFirst(chan[c], b) ELSE chan[c]
Flush(c, b) ==
    IF b = None
    THEN UNCHANGED <<link, data>>
    ELSE /\ link' = [link EXCEPT ![b] = None]
         /\ data' = [data EXCEPT ![b] = Flushed(c, b).buffer]

CloseFile(c) ==
    /\ chan[c] # None
    /\ \E b \in LastBlock(chan[c]) :
        LET f == Flushed(c, b)
            used == bam \cup ({b} \ {None})
        IN  /\ Flush(c, b)
            /\ last_code' = IF b = None THEN SetError("DISK_FULL") ELSE last_code
            /\ dir' = [dir EXCEPT ![f.slot] = Closing(f)]
            /\ bam' = IF f.needsupdate THEN FreeChain(used, link', f.entry.first) ELSE used
            /\ diskBam' = bam'
    /\ chan' = [chan EXCEPT ![c] = None]
    /\ UNCHANGED <<true_emulation, opens, orphans, torn>>

Close(c) == Served /\ CloseFile(c) /\ UNCHANGED command
----------------------------------------------------------------------------
(* Commands.                                                                *)

Command(code) ==
    /\ last_code' = SetError(code)
    /\ UNCHANGED <<chan, true_emulation, opens>>

\* vdrive_command_scratch
Scratch(s) ==
    /\ Served /\ dir[s] # None /\ MayTouch(s)
    /\ bam' = FreeChain(bam, link, dir[s].first)
    /\ diskBam' = bam'
    /\ dir' = [dir EXCEPT ![s] = None]
    /\ Command("OTHER")
    /\ UNCHANGED <<link, data, command, orphans, torn>>

\* vdrive_command_rename
Rename(s, n) ==
    /\ Served /\ dir[s] # None /\ MayTouch(s) /\ Named(n) = {}
    /\ dir' = [dir EXCEPT ![s].name = n]
    /\ Command("OK")
    /\ UNCHANGED <<diskBam, link, data, bam, command, orphans, torn>>

(* I, V and UJ first close all channels, as detaching the image does; then  *)
(* the bitmap is read again, but for UJ.                                    *)
CloseAll(cmd) ==
    /\ command = None /\ (true_emulation => cmd = "ATTACH")
    /\ command' = cmd
    /\ UNCHANGED <<diskVars, bam, chan, last_code, true_emulation, opens, orphans, torn>>

CloseNext == command # None /\ Open # {} /\ CloseFile(Min(Open)) /\ UNCHANGED command

AllClosed(cmd) == command = cmd /\ Open = {} /\ command' = None

\* vdrive_command_initialize; detaching the image and attaching it again.
Initialized ==
    /\ \/ AllClosed("I") /\ Command("OK")
       \/ AllClosed("ATTACH") /\ Command("OTHER")
    /\ bam' = diskBam
    /\ UNCHANGED <<diskVars, orphans, torn>>

(* file_system_attach_disk_internal sets the channels up before the image   *)
(* in the drive is detached: an image attached over it finds none to close. *)
AttachOver ==
    /\ command = None
    /\ chan' = [c \in Channels |-> None] /\ bam' = diskBam
    /\ last_code' = SetError("OTHER")
    /\ orphans' = (orphans \/ Open # {})
    /\ UNCHANGED <<diskVars, command, true_emulation, opens, torn>>

ResetByUJ ==
    /\ AllClosed("UJ")
    /\ Command("OTHER")
    /\ UNCHANGED <<diskVars, bam, orphans, torn>>

(* vdrive_command_validate: the chains of all closed files are allocated    *)
(* anew, in the order of the directory, and files not closed are deleted,   *)
(* up to one whose chain cannot be allocated.                               *)
ClosedSlots == {s \in Slots : dir[s] # None /\ dir[s].closed}
ChainOf(s) == Chain(link, dir[s].first)
Conflicts ==
    {s \in ClosedSlots :
        ~Ends(link, dir[s].first)
        \/ \E t \in ClosedSlots : t < s /\ ChainOf(t) \cap ChainOf(s) # {}}
Deleted(upTo) ==
    [s \in Slots |-> IF s < upTo /\ s \notin ClosedSlots THEN None ELSE dir[s]]
InUse == UNION {ChainOf(s) : s \in ClosedSlots}

Validated ==
    /\ AllClosed("V")
    /\ IF Conflicts = {}
       THEN /\ bam' = InUse /\ diskBam' = InUse
            /\ dir' = Deleted(SlotCount + 1)
            /\ orphans' = FALSE /\ torn' = FALSE
            /\ Command("OK")
       ELSE /\ bam' = diskBam
            /\ dir' = Deleted(Min(Conflicts))
            /\ Command("OTHER")
            /\ UNCHANGED <<diskBam, orphans, torn>>
    /\ UNCHANGED <<link, data>>

\* The program reads the error to its end, and beyond.
ReadStatus ==
    /\ Served /\ last_code # "OK"
    /\ last_code' = "OK"
    /\ UNCHANGED <<diskVars, bam, chan, command, true_emulation, opens, orphans, torn>>
----------------------------------------------------------------------------
(* set_drive_true_emulation, and the drive that runs its own program: it    *)
(* saves and deletes files, and what it knows of the disk is on the disk.   *)

SwitchOn ==
    /\ TrueEmulation /\ Served /\ MaySwitch
    /\ true_emulation' = TRUE
    /\ UNCHANGED <<diskVars, bam, chan, last_code, command, opens, orphans, torn>>

AfterSwitchOff == diskBam
SwitchOff ==
    /\ true_emulation /\ command = None
    /\ true_emulation' = FALSE
    /\ bam' = AfterSwitchOff
    /\ UNCHANGED <<diskVars, chan, last_code, command, opens, orphans, torn>>

DriveSaves(s, n, b) ==
    /\ true_emulation /\ command = None /\ opens < MaxOpens
    /\ Named(n) = {} /\ dir[s] = None /\ b \notin diskBam
    /\ dir' = [dir EXCEPT ![s] = Entry(n, TRUE, b)]
    /\ link' = [link EXCEPT ![b] = None]
    /\ data' = [data EXCEPT ![b] = <<<<opens + 1, 1>>>>]
    /\ diskBam' = diskBam \cup {b}
    /\ opens' = opens + 1
    /\ UNCHANGED <<bam, chan, last_code, command, true_emulation, orphans, torn>>

DriveScratches(s) ==
    /\ true_emulation /\ command = None /\ s \in ClosedSlots
    /\ dir' = [dir EXCEPT ![s] = None]
    /\ diskBam' = FreeChain(diskBam, link, dir[s].first)
    /\ UNCHANGED <<link, data, bam, chan, last_code, command, true_emulation, opens, orphans, torn>>

----------------------------------------------------------------------------
(* The emulator is killed, started again, and the image attached.  Every    *)
(* write to the image is flushed, so a kill falls before, between or after  *)
(* the writes of what is being done, and leaves the first of them.          *)

Killed ==
    /\ Kills
    /\ chan' = [c \in Channels |-> None] /\ bam' = diskBam'
    /\ command' = None /\ last_code' = "OTHER"
    /\ true_emulation' \in {FALSE, TRUE} /\ (true_emulation' => TrueEmulation)
    /\ orphans' = (orphans \/ torn' \/ Open # {})

Kill == UNCHANGED <<diskVars, opens, torn>> /\ Killed

\* A close writes the last block, the entry, and the bitmap.
KilledInClose(c) ==
    /\ chan[c] # None
    /\ Served \/ (command # None /\ c = Min(Open))
    /\ \E b \in LastBlock(chan[c]) :
        /\ Flush(c, b)
        /\ \/ UNCHANGED <<dir, torn>>
           \/ LET f == Flushed(c, b) IN dir' = [dir EXCEPT ![f.slot] = Closing(f)]
              /\ torn' = TRUE
    /\ UNCHANGED <<diskBam, opens>>
    /\ Killed

\* vdrive_dir_remove_slot writes the bitmap, and the entry.
KilledInScratch(s) ==
    /\ Served /\ dir[s] # None /\ MayTouch(s)
    /\ diskBam' = FreeChain(bam, link, dir[s].first)
    /\ torn' = TRUE
    /\ UNCHANGED <<dir, link, data, opens>>
    /\ Killed

\* Files not closed are deleted one by one, and the bitmap is written.
KilledInValidate ==
    /\ command = "V" /\ Open = {}
    /\ \E upTo \in 1 .. SlotCount + 1 :
        (\A s \in Conflicts : upTo <= s) /\ dir' = Deleted(upTo)
    /\ UNCHANGED <<diskBam, link, data, opens, torn>>
    /\ Killed

\* The drive's own program writes entry and bitmap in an order of its own.
KilledInDrive ==
    /\ true_emulation /\ command = None
    /\ \/ \E s \in ClosedSlots :
          /\ \/ dir' = [dir EXCEPT ![s] = None] /\ UNCHANGED diskBam
             \/ diskBam' = FreeChain(diskBam, link, dir[s].first) /\ UNCHANGED dir
          /\ UNCHANGED <<link, data, opens>>
       \/ \E s \in Slots, n \in Names, b \in Blocks \ diskBam :
          /\ opens < MaxOpens /\ Named(n) = {} /\ dir[s] = None
          /\ \/ dir' = [dir EXCEPT ![s] = Entry(n, TRUE, b)] /\ UNCHANGED diskBam
             \/ diskBam' = diskBam \cup {b} /\ UNCHANGED dir
          /\ link' = [link EXCEPT ![b] = None]
          /\ data' = [data EXCEPT ![b] = <<<<opens + 1, 1>>>>]
          /\ opens' = opens + 1
    /\ torn' = TRUE
    /\ Killed
----------------------------------------------------------------------------
VdriveNext ==
    \/ \E c \in Channels :
        \/ \E n \in Names : OpenNew(c, n)
        \/ \E s \in Slots : OpenReplace(c, s) \/ OpenAppend(c, s)
        \/ WriteByte(c) \/ WriteBlock(c) \/ WriteRefused(c) \/ Close(c)
    \/ Refused
    \/ \E s \in Slots : Scratch(s) \/ \E n \in Names : Rename(s, n)
    \/ \E cmd \in {"I", "V", "UJ", "ATTACH"} : CloseAll(cmd)
    \/ CloseNext \/ Initialized \/ AttachOver \/ ResetByUJ \/ Validated
    \/ ReadStatus
    \/ SwitchOn \/ SwitchOff
    \/ \E s \in Slots : DriveScratches(s) \/ \E n \in Names, b \in Blocks : DriveSaves(s, n, b)
    \/ Kill \/ KilledInValidate \/ KilledInDrive
    \/ \E c \in Channels : KilledInClose(c)
    \/ \E s \in Slots : KilledInScratch(s)

VdriveSpec == VdriveInit /\ [][VdriveNext]_vars
----------------------------------------------------------------------------
VdriveTypeOK ==
    /\ bam \subseteq Blocks /\ diskBam \subseteq Blocks
    /\ dir \in [Slots -> Entries \cup {None}]
    /\ link \in [Blocks -> BlockOrNone] /\ data \in [Blocks -> Seq(Bytes)]
    /\ chan \in [Channels -> Buffers \cup {None}]
    /\ opens \in Nat /\ true_emulation \in BOOLEAN
    /\ orphans \in BOOLEAN /\ torn \in BOOLEAN
    /\ command \in {None, "I", "V", "UJ", "ATTACH"}
    /\ last_code \in {"OK", "DISK_FULL", "OTHER"}

(* The image alone is sound, whatever the drive holds in memory: the blocks *)
(* of closed files are in use on the disk, and no block belongs to two of   *)
(* them.  A drive that allocates sees them in use too, and no channel       *)
(* writes into one of them.  Not so from a kill between the writes of       *)
(* directory and bitmap until a validate that succeeds.                     *)
DiskIsSound ==
    ~torn =>
    /\ Conflicts = {}
    /\ InUse \subseteq diskBam
    /\ ~true_emulation => InUse \subseteq bam
    /\ \A c \in Open : chan[c].track \notin InUse

(* When all files are closed every block in use belongs to one of them, and *)
(* memory and disk agree; unless the emulator was killed or an image        *)
(* attached over this one with a file open, or killed between the writes of *)
(* directory and bitmap, and the disk has not been validated since.         *)
NoBlockLost ==
    Open = {} /\ command = None /\ ~orphans /\ ~torn =>
        /\ diskBam = InUse
        /\ ~true_emulation => bam = diskBam

(* To its programs the drive is a store of files.                           *)
files ==
    [n \in Names |->
        IF \E s \in ClosedSlots : dir[s].name = n
        THEN Contents(link, data, dir[CHOOSE s \in ClosedSlots : dir[s].name = n].first)
        ELSE None]
writing ==
    [c \in Channels |->
        IF chan[c] = None THEN None
        ELSE [name |-> chan[c].entry.name, text |-> chan[c].text, whole |-> chan[c].whole]]
Files == INSTANCE FileStore WITH error <- last_code
ImplementsFiles == Files!Spec
=============================================================================
