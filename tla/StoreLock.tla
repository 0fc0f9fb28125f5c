----------------------------- MODULE StoreLock -----------------------------
(***************************************************************************)
(* The advisory lock of a store file between processes: JsonlStore::open,  *)
(* append, compact_jsonl and open_locked_append, one step per system call. *)
(* A lock belongs to an open file, not to its path, and a compaction puts  *)
(* another file under the path.  JsonlStore models what one process does   *)
(* to the contents.                                                        *)
(***************************************************************************)
EXTENDS Naturals

CONSTANTS
    Processes,  \* processes that open the store: serve, replay, prune ...
    MaxFiles    \* bound: files made, the first and one per compaction

VARIABLES
    path,      \* the file under the store's path
    contents,  \* contents[f]: the writes in file f, by process
    holder,    \* holder[f]: the process with the lock of f
    proc       \* proc[p]: where p is, its handle, and a second one while
               \* it compacts, and what it has in memory

vars == <<path, contents, holder, proc>>

Nobody == "nobody"
Files == 1..MaxFiles
Closed == [at |-> "closed", handle |-> 0, fresh |-> 0, records |-> {}]

Init ==
    /\ path = 1
    /\ contents = [f \in Files |-> {}]
    /\ holder = [f \in Files |-> Nobody]
    /\ proc = [p \in Processes |-> Closed]

(* open reads the file before it opens and locks it for appending.         *)
ReadFile(p) ==
    /\ proc[p].at = "closed"
    /\ proc' = [proc EXCEPT ![p].at = "read", ![p].records = contents[path]]
    /\ UNCHANGED <<path, contents, holder>>

OpenAppend(p) ==
    /\ proc[p].at = "read"
    /\ proc' = [proc EXCEPT ![p].at = "opened", ![p].handle = path]
    /\ UNCHANGED <<path, contents, holder>>

(* try_lock_exclusive: fails fast if another process has the lock.         *)
TryLock(p) ==
    LET f == proc[p].handle
    IN  /\ proc[p].at = "opened"
        /\ \/ /\ holder[f] = Nobody
              /\ holder' = [holder EXCEPT ![f] = p]
              /\ proc' = [proc EXCEPT ![p].at = "open"]
           \/ /\ holder[f] # Nobody
              /\ proc' = [proc EXCEPT ![p] = Closed]
              /\ UNCHANGED holder
        /\ UNCHANGED <<path, contents>>

AppendRecord(p) ==
    /\ proc[p].at = "open"
    /\ contents' = [contents EXCEPT ![proc[p].handle] = @ \cup {p}]
    /\ proc' = [proc EXCEPT ![p].records = @ \cup {p}]
    /\ UNCHANGED <<path, holder>>

(* compact_jsonl: the rewritten file takes the path; the handle and its    *)
(* lock are still those of the old one, ...                                *)
Rename(p) ==
    /\ proc[p].at = "open"
    /\ path < MaxFiles
    /\ path' = path + 1
    /\ contents' = [contents EXCEPT ![path'] = proc[p].records]
    /\ proc' = [proc EXCEPT ![p].at = "renamed"]
    /\ UNCHANGED holder

Reopen(p) ==
    /\ proc[p].at = "renamed"
    /\ proc' = [proc EXCEPT ![p].at = "relocking", ![p].fresh = path]
    /\ UNCHANGED <<path, contents, holder>>

(* ... until the new one is locked.  If another process was faster the     *)
(* compaction fails and replace_all keeps the old handle.                  *)
Relock(p) ==
    LET old == proc[p].handle
        new == proc[p].fresh
    IN  /\ proc[p].at = "relocking"
        /\ \/ /\ holder[new] = Nobody
              /\ holder' = [holder EXCEPT ![new] = p, ![old] = Nobody]
              /\ proc' = [proc EXCEPT ![p].at = "open", ![p].handle = new,
                                      ![p].fresh = 0]
           \/ /\ holder[new] # Nobody
              /\ proc' = [proc EXCEPT ![p].at = "open", ![p].fresh = 0]
              /\ UNCHANGED holder
        /\ UNCHANGED <<path, contents>>

(* The handle is dropped, by the end of the process if not before.         *)
Close(p) ==
    /\ proc[p].at # "closed"
    /\ holder' = [f \in Files |-> IF holder[f] = p THEN Nobody ELSE holder[f]]
    /\ proc' = [proc EXCEPT ![p] = Closed]
    /\ UNCHANGED <<path, contents>>

Next ==
    \E p \in Processes :
        \/ ReadFile(p) \/ OpenAppend(p) \/ TryLock(p)
        \/ AppendRecord(p)
        \/ Rename(p) \/ Reopen(p) \/ Relock(p)
        \/ Close(p)

Spec == Init /\ [][Next]_vars

-----------------------------------------------------------------------------
(* A process that has the store open writes to the file at its path, so    *)
(* that no acknowledged append goes to a file that was renamed away        *)
(* (open_locked_append).                                                   *)
HandlesOnPath ==
    \A p \in Processes : proc[p].at = "open" => proc[p].handle = path
=============================================================================
