----------------------------- MODULE EventStore -----------------------------
(***************************************************************************)
(* FileEventStore: the event log, the journal of delivered ids beside it   *)
(* and the in-memory delivered set, used concurrently by the request and   *)
(* dispatcher tasks (append, mark_delivered) and by the maintenance task   *)
(* (enforce_retention), with crashes, reopening and an operator's prune.   *)
(*                                                                         *)
(* mark_delivered and enforce_retention take the locks of the log, the     *)
(* journal and the set one after the other, so each is several steps.  An  *)
(* operation of one JsonlStore (append, retain, replace_all) holds that    *)
(* store's lock throughout and is one durable step.                        *)
(***************************************************************************)
EXTENDS Retention, FiniteSets

CONSTANTS
    Events,     \* event ids
    Policies,   \* automatic retention policies
    MaxClock,   \* bound: the clock
    MaxCrashes  \* bound: crashes

ASSUME EventStoreAssumption ==
    /\ Policies \subseteq AutoPolicies
    /\ MaxClock \in Nat /\ MaxCrashes \in Nat

VARIABLES
    log,      \* retained events, in append order (file and memory agree)
    journal,  \* ids in the delivered journal (file and memory agree)
    set,      \* delivered_set, in memory
    open,     \* whether a server has the store open
    mark,     \* mark[e]: progress of mark_delivered(e)
    sweep,    \* progress of enforce_retention, with its local variables
    clock,
    crashes,
    appended, \* events ever appended (history)
    marked,   \* events whose mark_delivered reached the journal (history)
    raced     \* events whose mark overlapped a sweep (history)

vars == <<log, journal, set, open, mark, sweep, clock, crashes, appended,
          marked, raced>>

Ids(s) == {s[i].id : i \in 1..Len(s)}

NoPolicy ==
    [grace |-> NoBound, maxAge |-> NoBound, maxCount |-> NoBound,
     maxBytes |-> NoBound]
NoSweep == [at |-> "idle", policy |-> NoPolicy, seen |-> {}, now |-> 0,
            kept |-> {}]
Records == [id : Events, ts : 0..MaxClock, size : {1}]

TypeOK ==
    /\ log \in Seq(Records)
    /\ \A i, j \in 1..Len(log) : log[i].id = log[j].id => i = j
    /\ journal \subseteq Events /\ set \subseteq Events
    /\ open \in BOOLEAN
    /\ mark \in [Events -> {"none", "checked", "journaled"}]
    /\ sweep \in [at : {"idle", "seen", "compacted", "replaced"},
                  policy : Policies \cup {NoPolicy},
                  seen : SUBSET Events, now : 0..MaxClock,
                  kept : SUBSET Events]
    /\ clock \in 0..MaxClock /\ crashes \in 0..MaxCrashes
    /\ appended \subseteq Events /\ marked \subseteq Events
    /\ raced \subseteq Events

Init ==
    /\ log = <<>> /\ journal = {} /\ set = {}
    /\ open = TRUE
    /\ mark = [e \in Events |-> "none"]
    /\ sweep = NoSweep
    /\ clock = 0 /\ crashes = 0
    /\ appended = {} /\ marked = {} /\ raced = {}

Tick ==
    /\ clock < MaxClock
    /\ clock' = clock + 1
    /\ UNCHANGED <<log, journal, set, open, mark, sweep, crashes, appended,
                   marked, raced>>

(* An event takes its timestamp when it is created, before its append.     *)
AppendEvent(e) ==
    /\ open /\ e \notin appended
    /\ \E t \in 0..clock : log' = Append(log, [id |-> e, ts |-> t, size |-> 1])
    /\ appended' = appended \cup {e}
    /\ UNCHANGED <<journal, set, open, mark, sweep, clock, crashes, marked,
                   raced>>

-----------------------------------------------------------------------------
(* mark_delivered(e): look in the set, append to the journal, insert.      *)

MarkCheck(e) ==
    /\ open /\ e \in appended /\ mark[e] = "none" /\ e \notin set
    /\ mark' = [mark EXCEPT ![e] = "checked"]
    /\ raced' = IF sweep.at = "idle" THEN raced ELSE raced \cup {e}
    /\ UNCHANGED <<log, journal, set, open, sweep, clock, crashes, appended,
                   marked>>

MarkJournal(e) ==
    /\ mark[e] = "checked"
    /\ journal' = journal \cup {e}
    /\ mark' = [mark EXCEPT ![e] = "journaled"]
    /\ marked' = marked \cup {e}
    /\ UNCHANGED <<log, set, open, sweep, clock, crashes, appended, raced>>

(* The journal append fails and so does mark_delivered.                    *)
MarkFails(e) ==
    /\ mark[e] = "checked"
    /\ mark' = [mark EXCEPT ![e] = "none"]
    /\ UNCHANGED <<log, journal, set, open, sweep, clock, crashes, appended,
                   marked, raced>>

MarkInsert(e) ==
    /\ mark[e] = "journaled"
    /\ set' = set \cup {e}
    /\ mark' = [mark EXCEPT ![e] = "none"]
    /\ UNCHANGED <<log, journal, open, sweep, clock, crashes, appended, marked,
                   raced>>

-----------------------------------------------------------------------------
(* enforce_retention: snapshot the set, retain under the log's lock,       *)
(* replace the journal, replace the set.  The sweep's time is read before. *)
(* A server has one policy, which its next start may change.               *)

SweepBegin(p) ==
    /\ open /\ sweep.at = "idle"
    /\ ~IsUnbounded(p)
    /\ sweep' = [at |-> "seen", policy |-> p, seen |-> set, now |-> clock,
                 kept |-> {}]
    /\ raced' = raced \cup {e \in Events : mark[e] # "none"}
    /\ UNCHANGED <<log, journal, set, open, mark, clock, crashes, appended,
                   marked>>

(* A bug of SweepLog: the age of an event alone decides, so everything     *)
(* older than the sweep goes, delivered or not.                            *)
SweepLogBlindly ==
    /\ sweep.at = "seen"
    /\ LET kept == Filter(log, {r \in ToSet(log) : r.ts >= sweep.now})
       IN  /\ log' = kept
           /\ sweep' = IF kept = log THEN NoSweep
                       ELSE [sweep EXCEPT !.at = "compacted",
                                          !.kept = Ids(kept)]
    /\ UNCHANGED <<journal, set, open, mark, clock, crashes, appended, marked,
                   raced>>

(* retain computes the survivors of the live log; nothing more is done     *)
(* when there is nothing to remove.                                        *)
SweepLog ==
    /\ sweep.at = "seen"
    /\ LET kept == RetainEvents(log, sweep.seen, sweep.policy, sweep.now)
       IN  /\ log' = kept
           /\ sweep' = IF kept = log THEN NoSweep
                       ELSE [sweep EXCEPT !.at = "compacted",
                                          !.kept = Ids(kept)]
    /\ UNCHANGED <<journal, set, open, mark, clock, crashes, appended, marked,
                   raced>>

(* A bug of KeptDelivered: every survivor is taken to be delivered.        *)
AllKept(s) == s.kept

(* The delivered ids that enforce_retention writes back.                   *)
KeptDelivered(s) == s.seen \cap s.kept

SweepJournal ==
    /\ sweep.at = "compacted"
    /\ journal' = KeptDelivered(sweep)
    /\ sweep' = [sweep EXCEPT !.at = "replaced"]
    /\ UNCHANGED <<log, set, open, mark, clock, crashes, appended, marked,
                   raced>>

SweepSet ==
    /\ sweep.at = "replaced"
    /\ set' = KeptDelivered(sweep)
    /\ sweep' = NoSweep
    /\ UNCHANGED <<log, journal, open, mark, clock, crashes, appended, marked,
                   raced>>

(* Compacting the log or replacing the journal fails: the sweep returns    *)
(* with what it has done so far.                                           *)
SweepFails ==
    /\ sweep.at \in {"seen", "compacted"}
    /\ sweep' = NoSweep
    /\ UNCHANGED <<log, journal, set, open, mark, clock, crashes, appended,
                   marked, raced>>

-----------------------------------------------------------------------------
Crash ==
    /\ open /\ crashes < MaxCrashes
    /\ open' = FALSE
    /\ set' = {}
    /\ mark' = [e \in Events |-> "none"]
    /\ sweep' = NoSweep
    /\ crashes' = crashes + 1
    /\ UNCHANGED <<log, journal, clock, appended, marked, raced>>

(* A bug of Open: the set starts empty.                                    *)
OpenEmpty ==
    /\ ~open
    /\ open' = TRUE
    /\ set' = {}
    /\ UNCHANGED <<log, journal, mark, sweep, clock, crashes, appended, marked,
                   raced>>

(* FileEventStore::open rebuilds the set from the journal.                 *)
Open ==
    /\ ~open
    /\ open' = TRUE
    /\ set' = journal
    /\ UNCHANGED <<log, journal, mark, sweep, clock, crashes, appended, marked,
                   raced>>

(* `triggerlane prune` holds the store's lock, so no server is running; it *)
(* leaves the journal alone.                                               *)
Prune ==
    /\ ~open
    /\ log # <<>>
    /\ \/ \E n \in 0..(Len(log) - 1) : log' = KeepMostRecent(log, n)
       \/ \E cutoff \in 0..MaxClock : log' = KeepOlderThan(log, cutoff)
    /\ UNCHANGED <<journal, set, open, mark, sweep, clock, crashes, appended,
                   marked, raced>>

Next ==
    \/ Tick
    \/ \E e \in Events :
          \/ AppendEvent(e)
          \/ MarkCheck(e) \/ MarkJournal(e) \/ MarkFails(e) \/ MarkInsert(e)
    \/ \E p \in Policies : SweepBegin(p)
    \/ SweepLog \/ SweepJournal \/ SweepSet \/ SweepFails
    \/ Crash \/ Open \/ Prune

Spec == Init /\ [][Next]_vars

-----------------------------------------------------------------------------
(* EventStore::undelivered, which start-up recovery replays.               *)
Undelivered == Ids(log) \ set

(* Start-up recovery misses nothing: an event that was never marked is     *)
(* never reported delivered, whatever retention did to the set and the     *)
(* journal meanwhile.                                                      *)
NeverMarkedIsUndelivered == set \cup journal \subseteq marked

(* Without a hard bound, a sweep removes only events that were marked      *)
(* delivered; an append or a mark that lands between its snapshot and its  *)
(* compaction cannot lose an event (comments of retain and                 *)
(* enforce_retention).                                                     *)
GraceAlone(p) ==
    p.maxAge = NoBound /\ p.maxCount = NoBound /\ p.maxBytes = NoBound
SweepRemovesOnlyDelivered ==
    [][(sweep.at # "idle" /\ GraceAlone(sweep.policy) /\ open')
          => \A e \in Ids(log) \ Ids(log') : e \in marked]_vars

(* Losing a delivered id to a sweep is limited to a mark that overlapped   *)
(* it: any other mark of a retained event is still known after reopening,  *)
(* so it is not redelivered (comment of enforce_retention).                *)
MarksOutsideSweepsSurvive ==
    \A e \in marked \cap Ids(log) :
        e \notin raced /\ mark[e] = "none" /\ sweep.at = "idle"
            => e \in journal /\ (open => e \in set)
=============================================================================
