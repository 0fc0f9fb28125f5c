----------------------------- MODULE JsonlStore -----------------------------
(***************************************************************************)
(* JsonlStore<T>: one append-only JSONL file, the records read from it and *)
(* the open append handle, at the granularity of the system calls made     *)
(* under the file mutex.  Between any two of them the process may die, the *)
(* machine may lose power, or the call may fail.                           *)
(*                                                                         *)
(* A file is its newline-terminated lines and an unterminated tail.  What  *)
(* matters of a line is the record it parses to (or that it does not), and *)
(* of a tail whether it is empty, a complete record, a torn one, or one    *)
(* cut inside a multi-byte character.                                      *)
(*                                                                         *)
(* `file` is the content at the path as the running system sees it; the    *)
(* death of the process does not change it.  A power loss leaves one of    *)
(* `inode`, what may be on the disk of the file at the path, or, while the *)
(* directory entry is not on the disk, one of `stale`, what the name may   *)
(* stand for there instead.                                                *)
(***************************************************************************)
EXTENDS Naturals, Sequences, FiniteSets, SequencesExt, Filtering

CONSTANTS
    Records,    \* records, each appended at most once
    HasParent,  \* whether the path names a directory, as the defaults do not
    Faults,     \* the kinds of call that may fail
    MaxFaults,  \* bound: failing calls
    MaxKills,   \* bound: deaths of the process
    MaxLosses   \* bound: power losses

Bad == "bad"        \* a line that is no JSON record
NoTail == "none"    \* the file ends in a newline, or is empty
Torn == "torn"      \* a tail that is no JSON record
Cut == "cut"        \* a tail that is not UTF-8
NoFile == "nofile"  \* there is no file at all
Error == <<Bad>>    \* read_jsonl returned InvalidData

ASSUME JsonlStoreAssumption ==
    /\ Records \cap {Bad, NoTail, Torn, Cut, NoFile} = {}
    /\ HasParent \in BOOLEAN
    /\ Faults \subseteq {"create", "write", "sync", "drain", "compact"}
    /\ MaxFaults \in Nat /\ MaxKills \in Nat /\ MaxLosses \in Nat

VARIABLES
    up,       \* whether a process has the store open
    records,  \* the records in memory
    file,     \* content at the path
    inode,    \* contents that a power loss may leave of that file
    stale,    \* contents that a power loss may bring back in its place
    handle,   \* whether the append handle is on the file at the path
    op,       \* the operation holding the file mutex
    used,     \* records passed to append, in their order (history)
    acked,    \* records whose append was acknowledged (history)
    gone,     \* records a drain or compaction removed (history)
    damage,   \* ways the store is at risk or was damaged (history)
    faults,
    kills,
    losses

disk == <<file, inode, stale>>
counters == <<faults, kills, losses>>
vars == <<up, records, disk, handle, op, used, acked, gone, damage, counters>>

Files == [lines : Seq(Records \cup {Bad}),
          tail : Records \cup {NoTail, Torn, Cut, NoFile}]
Content(s) == [lines |-> s, tail |-> NoTail]
Empty == Content(<<>>)
Missing == [lines |-> <<>>, tail |-> NoFile]
Idle == [at |-> "idle", arg |-> <<>>]

(* An operation runs only while the store is open, and then there is a     *)
(* file; nothing is both acknowledged and removed; the handle can leave    *)
(* the path only in a compaction that is running or failed; and a path     *)
(* with a directory is used while its entry may be lost only after a       *)
(* process died, or a call failed, before the directory was synced.        *)
TypeOK ==
    /\ up \in BOOLEAN
    /\ records \in Seq(Records)
    /\ file \in Files /\ inode \subseteq Files /\ stale \subseteq Files
    /\ handle \in {"path", "orphan"}
    /\ op \in [at : {"idle", "created", "writing", "written", "truncated",
                     "copied", "renamed", "named"},
               arg : Seq(Records)]
    /\ used \in Seq(Records)
    /\ acked \subseteq Range(used) /\ gone \subseteq Range(used)
    /\ damage \subseteq {"unnamed", "forgotten", "glued", "cut", "orphaned",
                         "halfdrained"}
    /\ faults \in 0..MaxFaults /\ kills \in 0..MaxKills
    /\ losses \in 0..MaxLosses
    /\ IF up THEN file.tail # NoFile ELSE op = Idle /\ records = <<>>
    /\ acked \cap gone = {}
    /\ handle = "orphan" =>
          op.at \in {"renamed", "named"} \/ "orphaned" \in damage
    /\ HasParent /\ "unnamed" \in damage => kills > 0 \/ faults > 0

Init ==
    /\ up = FALSE
    /\ records = <<>>
    /\ file = Missing /\ inode = {Missing} /\ stale = {}
    /\ handle = "path"
    /\ op = Idle
    /\ used = <<>> /\ acked = {} /\ gone = {} /\ damage = {}
    /\ faults = 0 /\ kills = 0 /\ losses = 0

Fault(kind) ==
    /\ kind \in Faults /\ faults < MaxFaults
    /\ faults' = faults + 1
    /\ UNCHANGED <<kills, losses>>

-----------------------------------------------------------------------------
(* Reading and extending a file.                                           *)

(* read_jsonl: a torn tail is left out, any other bad line is an error.    *)
ReadBack(f) ==
    IF f.tail = Cut \/ Bad \in Range(f.lines) THEN Error
    ELSE IF f.tail \in Records THEN Append(f.lines, f.tail)
    ELSE f.lines

(* A record and its newline written at the end: they complete a line, with *)
(* whatever tail was there.                                                *)
Extend(f, r) == Content(Append(f.lines, IF f.tail = NoTail THEN r ELSE Bad))

(* Only a part of them written, without the newline.                       *)
Broken(f) == {[f EXCEPT !.tail = t] : t \in {Torn, Cut}}
Partly(f, r) ==
    {f} \cup Broken(f)
        \cup (IF f.tail = NoTail THEN {[f EXCEPT !.tail = r]} ELSE {})

Glued == IF file.tail # NoTail /\ file' # file THEN {"glued"} ELSE {}

(* A write that gets no further than some part of the record.  An orphaned *)
(* handle leads to a file that nobody will read.                           *)
WritePartly(r) ==
    /\ file' \in IF handle = "path" THEN Partly(file, r) ELSE {file}
    /\ inode' = inode \cup {file'}
                  \cup (IF file' = file THEN {} ELSE Broken(file))

(* sync_parent_dir: nothing is done for a path without a directory, and    *)
(* the store goes on with a name that a power loss may take away.          *)
SyncParentDir ==
    /\ stale' = IF HasParent THEN {} ELSE stale
    /\ damage' = IF HasParent THEN damage ELSE damage \cup {"unnamed"}

-----------------------------------------------------------------------------
(* open: a file that exists is read, whether its name is durable or not; a *)
(* new one is created and its directory synced.                            *)

Open ==
    /\ ~up
    /\ file.tail # NoFile /\ ReadBack(file) # Error
    /\ up' = TRUE
    /\ records' = ReadBack(file)
    /\ damage' = IF stale = {} THEN damage ELSE damage \cup {"unnamed"}
    /\ UNCHANGED <<disk, handle, op, used, acked, gone, counters>>

Create ==
    /\ ~up
    /\ file.tail = NoFile
    /\ up' = TRUE
    /\ file' = Empty /\ inode' = {Empty} /\ stale' = {Missing}
    /\ op' = [at |-> "created", arg |-> <<>>]
    /\ UNCHANGED <<records, handle, used, acked, gone, damage, counters>>

CreateSyncDir ==
    /\ op.at = "created"
    /\ SyncParentDir
    /\ op' = Idle
    /\ UNCHANGED <<up, records, file, inode, handle, used, acked, gone,
                   counters>>

CreateFails ==
    /\ op.at = "created"
    /\ Fault("create")
    /\ up' = FALSE
    /\ op' = Idle
    /\ UNCHANGED <<records, disk, handle, used, acked, gone, damage>>

-----------------------------------------------------------------------------
(* Stops.                                                                  *)

(* The records the operation in progress is about to remove.               *)
Leaving ==
    CASE op.at = "truncated" -> Range(records)
      [] op.at \in {"renamed", "named"} -> Range(records) \ Range(op.arg)
      [] OTHER -> {}

Stop ==
    /\ up' = FALSE
    /\ records' = <<>>
    /\ handle' = "path"
    /\ op' = Idle
    /\ acked' = acked \ Leaving
    /\ UNCHANGED <<used, gone, faults>>

Unreadable == IF file'.tail = Cut THEN {"cut"} ELSE {}

(* The process ends, maybe inside the write of an append.  What it wrote   *)
(* is there for the next one, and is no more durable than before.          *)
Kill ==
    /\ up /\ kills < MaxKills
    /\ IF op.at = "writing" THEN WritePartly(op.arg[1])
                            ELSE UNCHANGED <<file, inode>>
    /\ Stop
    /\ damage' = damage \cup Glued \cup Unreadable
    /\ kills' = kills + 1
    /\ UNCHANGED <<stale, losses>>

PowerLoss ==
    /\ losses < MaxLosses
    /\ file' \in inode \cup stale
    /\ inode' = {file'} /\ stale' = {}
    /\ Stop
    /\ damage' = (damage \ {"unnamed"}) \cup Unreadable
                    \cup (IF "unnamed" \in damage /\ file' \notin inode
                          THEN {"forgotten"} ELSE {})
    /\ losses' = losses + 1
    /\ UNCHANGED kills

-----------------------------------------------------------------------------
(* append: one write_all of the whole line, then sync_data, then memory.   *)

AppendBegin(r) ==
    /\ up /\ op = Idle /\ r \notin Range(used)
    /\ used' = Append(used, r)
    /\ op' = [at |-> "writing", arg |-> <<r>>]
    /\ UNCHANGED <<up, records, disk, handle, acked, gone, damage, counters>>

AppendWrite ==
    /\ op.at = "writing"
    /\ op' = [op EXCEPT !.at = "written"]
    /\ IF handle = "path"
       THEN /\ file' = Extend(file, op.arg[1])
            /\ inode' = inode \cup Partly(file, op.arg[1]) \cup {file'}
       ELSE UNCHANGED <<file, inode>>
    /\ damage' = damage \cup Glued
    /\ UNCHANGED <<up, records, stale, handle, used, acked, gone, counters>>

AppendWriteFails ==
    /\ op.at = "writing"
    /\ Fault("write")
    /\ WritePartly(op.arg[1])
    /\ op' = Idle
    /\ damage' = damage \cup Glued
    /\ UNCHANGED <<up, records, stale, handle, used, acked, gone>>

(* A bug of AppendSync: the append is acknowledged without the sync.       *)
AppendUnsynced ==
    /\ op.at = "written"
    /\ records' = records \o op.arg
    /\ acked' = acked \cup Range(op.arg)
    /\ op' = Idle
    /\ UNCHANGED <<up, disk, handle, used, gone, damage, counters>>

AppendSync ==
    /\ op.at = "written"
    /\ inode' = IF handle = "path" THEN {file} ELSE inode
    /\ records' = Append(records, op.arg[1])
    /\ acked' = acked \cup {op.arg[1]}
    /\ op' = Idle
    /\ UNCHANGED <<up, file, stale, handle, used, gone, damage, counters>>

AppendSyncFails ==
    /\ op.at = "written"
    /\ Fault("sync")
    /\ op' = Idle
    /\ UNCHANGED <<up, records, disk, handle, used, acked, gone, damage>>

-----------------------------------------------------------------------------
(* drain: set_len(0), sync_all, then the records are taken from memory.    *)
(* A failing set_len changes nothing; a failing sync_all comes after it.   *)

DrainTruncate ==
    /\ up /\ op = Idle
    /\ file' = IF handle = "path" THEN Empty ELSE file
    /\ inode' = inode \cup {file'}
    /\ op' = [at |-> "truncated", arg |-> <<>>]
    /\ UNCHANGED <<up, records, stale, handle, used, acked, gone, damage,
                   counters>>

(* The operation ends with the records s in memory.                        *)
Removed(s) ==
    /\ records' = s
    /\ acked' = acked \ Leaving
    /\ gone' = gone \cup Leaving
    /\ op' = Idle

(* A bug of DrainSync: the records stay in memory as well.                 *)
DrainKeepsMemory ==
    /\ op.at = "truncated"
    /\ inode' = IF handle = "path" THEN {file} ELSE inode
    /\ Removed(records)
    /\ UNCHANGED <<up, file, stale, handle, used, damage, counters>>

DrainSync ==
    /\ op.at = "truncated"
    /\ inode' = IF handle = "path" THEN {file} ELSE inode
    /\ Removed(<<>>)
    /\ UNCHANGED <<up, file, stale, handle, used, damage, counters>>

DrainSyncFails ==
    /\ op.at = "truncated"
    /\ Fault("drain")
    /\ op' = Idle
    /\ damage' = damage \cup {"halfdrained"}
    /\ UNCHANGED <<up, records, disk, handle, used, acked, gone>>

-----------------------------------------------------------------------------
(* compact_jsonl on behalf of retain, prune and replace_all: copy the      *)
(* survivors to a synced sibling, rename it over the path, sync the        *)
(* directory, open and lock a new handle, then swap the memory.            *)

CompactCopy(S) ==
    /\ up /\ op = Idle
    /\ op' = [at |-> "copied", arg |-> Filter(records, S)]
    /\ UNCHANGED <<up, records, disk, handle, used, acked, gone, damage,
                   counters>>

(* A bug of CompactRename: the survivors are written over the file itself. *)
CompactInPlace ==
    /\ op.at = "copied"
    /\ file' = Content(op.arg) /\ inode' = inode \cup {Empty, file'}
    /\ handle' = "orphan"
    /\ op' = [op EXCEPT !.at = "renamed"]
    /\ UNCHANGED <<up, records, stale, used, acked, gone, damage, counters>>

CompactRename ==
    /\ op.at = "copied"
    /\ file' = Content(op.arg) /\ inode' = {file'}
    /\ stale' = stale \cup inode
    /\ handle' = "orphan"
    /\ op' = [op EXCEPT !.at = "renamed"]
    /\ UNCHANGED <<up, records, used, acked, gone, damage, counters>>

(* A bug of CompactSyncDir: the rename is not made durable.                *)
CompactNoSyncDir ==
    /\ op.at = "renamed"
    /\ op' = [op EXCEPT !.at = "named"]
    /\ UNCHANGED <<up, records, disk, handle, used, acked, gone, damage,
                   counters>>

CompactSyncDir ==
    /\ op.at = "renamed"
    /\ SyncParentDir
    /\ op' = [op EXCEPT !.at = "named"]
    /\ UNCHANGED <<up, records, file, inode, handle, used, acked, gone,
                   counters>>

(* A bug of CompactReopen: the old handle is kept.                         *)
CompactOldHandle ==
    /\ op.at = "named"
    /\ Removed(op.arg)
    /\ UNCHANGED <<up, disk, handle, used, damage, counters>>

CompactReopen ==
    /\ op.at = "named"
    /\ handle' = "path"
    /\ Removed(op.arg)
    /\ UNCHANGED <<up, disk, used, damage, counters>>

(* Writing or renaming the sibling fails, or, after the rename, syncing    *)
(* the directory or opening and locking the new handle.                    *)
CompactFails ==
    /\ op.at \in {"copied", "renamed", "named"}
    /\ Fault("compact")
    /\ op' = Idle
    /\ damage' = IF op.at = "copied" THEN damage
                 ELSE damage \cup {"orphaned"}
    /\ UNCHANGED <<up, records, disk, handle, used, acked, gone>>

Next ==
    \/ Open \/ Create \/ CreateSyncDir \/ CreateFails
    \/ Kill \/ PowerLoss
    \/ \E r \in Records : AppendBegin(r)
    \/ AppendWrite \/ AppendWriteFails \/ AppendSync \/ AppendSyncFails
    \/ DrainTruncate \/ DrainSync \/ DrainSyncFails
    \/ \E S \in SUBSET Range(records) : CompactCopy(S)
    \/ CompactRename \/ CompactSyncDir \/ CompactReopen \/ CompactFails

Spec == Init /\ [][Next]_vars

-----------------------------------------------------------------------------
(* Properties.                                                             *)

(* What the next stop may leave at the path.  Once the store is used under *)
(* a name that is not durable, this is what the death of the process may   *)
(* leave: a power loss may then bring anything of `stale` back.            *)
Left == inode \cup (IF "unnamed" \in damage THEN {} ELSE stale)

(* Durable by acknowledgement, whenever the process or the machine stops   *)
(* and whatever failed before: the store opens with every acknowledged     *)
(* record.  What is excluded is what refutes AcknowledgedIsDurable and     *)
(* TornTailIsTolerated: a power loss under a name that is not durable, an  *)
(* append after a torn tail, a tail cut inside a character, a compaction   *)
(* that failed after its rename, a drain that failed after its truncation. *)
AcknowledgedSurvives ==
    damage \subseteq {"unnamed"} =>
        \A f \in Left :
            f.tail # Cut => /\ ReadBack(f) # Error
                            /\ acked \ Leaving \subseteq Range(ReadBack(f))

(* No resurrection: a record that a drain returned or a compaction removed *)
(* is not in the store when it is next opened, unless an earlier           *)
(* compaction failed after its rename or a name that was not durable was   *)
(* lost with the power.                                                    *)
RemovedStaysRemoved ==
    damage \cap {"orphaned", "forgotten"} = {} =>
        \A f \in Left :
            ReadBack(f) # Error => gone \cap Range(ReadBack(f)) = {}

(* Reopening shows the records in the order in which they were appended,   *)
(* which count and byte retention rely on: the records in memory are those *)
(* of the file, less appends that reported an error.                       *)
MemoryMatchesFile ==
    up /\ op = Idle /\ damage \subseteq {"unnamed"} /\ file.tail # Cut =>
        records = Filter(ReadBack(file), Range(records))

(* The store implements the atomic log that DurableLog states: what a      *)
(* reader sees, open or after a stop at any point, holds what was          *)
(* acknowledged, in its order, a removal is all or nothing, and only       *)
(* appends and removals that were cut short may show besides.  It ends     *)
(* with damage.                                                            *)
View == IF up THEN records ELSE ReadBack(file)
Shown == Records \cap UNION {Range(f.lines) \cup {f.tail} : f \in Left}
Limbo == (Shown \cup (IF op.at = "writing" THEN Range(op.arg) ELSE {}))
            \ Range(View)
Loose == \E f \in Left : f.tail \notin {NoTail, NoFile}
Exposed == "unnamed" \in damage
Removing ==
    IF op.at \in {"truncated", "renamed", "named"} THEN {Leaving} ELSE {}
Damaged == ~(damage \subseteq {"unnamed"})
Log == INSTANCE DurableLog WITH
    view <- View, limbo <- Limbo, loose <- Loose, exposed <- Exposed,
    removing <- Removing, damaged <- Damaged
ImplementsDurableLog == Log!Spec

(* Durable by acknowledgement, without those exceptions, as the comments   *)
(* and the specification of the repository state it: in a store that is    *)
(* closed, what was acknowledged and not removed is read back.             *)
AcknowledgedIsDurable ==
    ~up /\ file.tail # Cut => acked \subseteq Range(ReadBack(file))

(* What the comment of read_jsonl and the specification of the repository  *)
(* say of a torn trailing record: it is discarded, so the store still      *)
(* opens.                                                                  *)
TornTailIsTolerated ==
    ~up /\ Bad \notin Range(file.lines) => ReadBack(file) # Error
=============================================================================
