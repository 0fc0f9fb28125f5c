-------------------------- MODULE EventStoreProofs --------------------------
(***************************************************************************)
(* Proofs about EventStore, for any events and retention policies and any  *)
(* number of crashes: an event that was never marked is never taken to be  *)
(* delivered, a sweep without hard bounds removes only delivered events,   *)
(* and only a mark that overlaps a sweep can be lost.                      *)
(***************************************************************************)
EXTENDS EventStore, RetentionLemmas

Sweeps ==
    [at : {"idle", "seen", "compacted", "replaced"},
     policy : Policies \cup {NoPolicy}, seen : SUBSET Events,
     now : 0..MaxClock, kept : SUBSET Events]

(* Only events that were appended have a history.                          *)
AppendedOK ==
    /\ Ids(log) \subseteq appended
    /\ marked \subseteq appended
    /\ \A e \in Events : mark[e] # "none" => e \in appended

(* What counts as delivered was marked, in a sweep's snapshot too.         *)
MarkedOK ==
    /\ set \cup journal \cup sweep.seen \subseteq marked
    /\ \A e \in Events : mark[e] = "journaled" => e \in marked

(* No mark or sweep outlives its process, and a mark that is under way     *)
(* during a sweep has raced with it.                                       *)
RunningOK ==
    /\ ~open => sweep.at = "idle" /\ \A e \in Events : mark[e] = "none"
    /\ sweep.at # "idle" => \A e \in Events \ raced : mark[e] = "none"

(* A mark that did not race is in the journal, in the set once it is       *)
(* inserted, and in what a sweep is about to write back.                   *)
KnownOK ==
    \A e \in (marked \cap Ids(log)) \ raced :
        /\ e \in journal
        /\ (open /\ mark[e] # "journaled") => e \in set
        /\ sweep.at # "idle" => e \in sweep.seen
        /\ sweep.at \in {"compacted", "replaced"} => e \in sweep.kept

Inductive == TypeOK /\ AppendedOK /\ MarkedOK /\ RunningOK /\ KnownOK

-----------------------------------------------------------------------------
(* The log and the values in use.                                          *)

(* Event records have sizes the retention bounds can add.                  *)
LEMMA SizedRecords == Sized(Records)
<1> QED
  BY DEF Sized, Records

(* The policies of a sweep, the empty one included, are automatic ones.    *)
LEMMA PoliciesKnown ==
    \A p \in Policies \cup {NoPolicy} : p \in AutoPolicies
<1>1. NoPolicy \in AutoPolicies
  BY DEF NoPolicy, AutoPolicies, Bounds
<1> QED
  BY <1>1, EventStoreAssumption

(* The sweep variable has its type when no sweep runs.                     *)
LEMMA NoSweepType == NoSweep \in Sweeps
<1>1. 0 \in 0..MaxClock
  BY EventStoreAssumption
<1> QED
  BY <1>1 DEF NoSweep, Sweeps

(* A part of the log has the ids of the log, each once.                    *)
LEMMA PartOfLog ==
    ASSUME TypeOK, NEW f \in Seq(Records), IsPart(f, log)
    PROVE  /\ Ids(f) \subseteq Ids(log)
           /\ \A i, j \in 1..Len(f) : f[i].id = f[j].id => i = j
<1>1. Len(f) \in Nat /\ Len(log) \in Nat
  BY LenProperties DEF TypeOK
<1>2. PICK h \in [1..Len(f) -> 1..Len(log)] :
         /\ \A i, j \in 1..Len(f) : h[i] = h[j] => i = j
         /\ \A i \in 1..Len(f) : f[i] = log[h[i]]
  BY <1>1, PartPlaces
<1>3. Ids(f) \subseteq Ids(log)
  BY <1>2 DEF Ids
<1>4. ASSUME NEW i \in 1..Len(f), NEW j \in 1..Len(f), f[i].id = f[j].id
      PROVE  i = j
  <2>1. h[i] \in 1..Len(log) /\ h[j] \in 1..Len(log)
    BY <1>2
  <2>2. log[h[i]].id = log[h[j]].id
    BY <1>2, <1>4
  <2>3. h[i] = h[j]
    BY <2>1, <2>2 DEF TypeOK
  <2> QED
    BY <1>2, <2>3
<1> QED
  BY <1>3, <1>4

-----------------------------------------------------------------------------
(* Appending and marking.                                                  *)

(* An append adds one unmarked event and forgets none.                     *)
LEMMA AppendKeeps ==
    ASSUME Inductive, NEW e \in Events, AppendEvent(e)
    PROVE  Inductive' /\ Ids(log) \subseteq Ids(log')
<1>1. PICK t \in 0..clock : log' = Append(log, [id |-> e, ts |-> t, size |-> 1])
  BY DEF AppendEvent
<1>2. PICK r : r = [id |-> e, ts |-> t, size |-> 1]
  OBVIOUS
<1>3. r \in Records /\ r.id = e
  <2>1. t \in 0..MaxClock
    BY EventStoreAssumption DEF Inductive, TypeOK
  <2> QED
    BY <1>2, <2>1 DEF Records
<1>4. log \in Seq(Records) /\ Len(log) \in Nat
  BY DEF Inductive, TypeOK
<1>5. /\ log' \in Seq(Records) /\ Len(log') = Len(log) + 1
      /\ log'[Len(log) + 1] = r
      /\ \A i \in 1..Len(log) : log'[i] = log[i]
  BY <1>1, <1>2, <1>3, <1>4
<1>6. \A i \in 1..Len(log') : i \in 1..Len(log) \/ i = Len(log) + 1
  BY <1>4, <1>5
<1>7. Ids(log') = Ids(log) \cup {e}
  <2>1. 1..Len(log) \subseteq 1..Len(log') /\ Len(log) + 1 \in 1..Len(log')
    BY <1>4, <1>5
  <2> QED
    BY <1>3, <1>5, <1>6, <2>1 DEF Ids
<1>8. e \notin appended /\ e \notin Ids(log) /\ e \notin marked
  BY DEF Inductive, AppendedOK, AppendEvent
<1>9. ASSUME NEW i \in 1..Len(log'), NEW j \in 1..Len(log'),
             log'[i].id = log'[j].id
      PROVE  i = j
  <2>1. CASE i \in 1..Len(log) /\ j \in 1..Len(log)
    BY <1>5, <1>9, <2>1 DEF Inductive, TypeOK
  <2>2. CASE i = Len(log) + 1 /\ j \in 1..Len(log)
    BY <1>3, <1>5, <1>8, <1>9, <2>2 DEF Ids
  <2>3. CASE i \in 1..Len(log) /\ j = Len(log) + 1
    BY <1>3, <1>5, <1>8, <1>9, <2>3 DEF Ids
  <2> QED
    BY <1>6, <2>1, <2>2, <2>3
<1>10. /\ appended' = appended \cup {e}
       /\ UNCHANGED <<journal, set, open, mark, sweep, clock, crashes, marked,
                      raced>>
  BY DEF AppendEvent
<1>11. TypeOK'
  BY <1>5, <1>9, <1>10 DEF Inductive, TypeOK
<1>12. AppendedOK'
  BY <1>7, <1>10 DEF Inductive, AppendedOK
<1>13. MarkedOK' /\ RunningOK'
  BY <1>10 DEF Inductive, MarkedOK, RunningOK
<1>14. KnownOK'
  BY <1>7, <1>8, <1>10 DEF Inductive, KnownOK
<1> QED
  BY <1>7, <1>11, <1>12, <1>13, <1>14 DEF Inductive

(* mark_delivered, from its look-up over the journal to the set in memory, *)
(* keeps the invariant.                                                    *)
LEMMA MarkKeeps ==
    ASSUME Inductive, NEW e \in Events,
           MarkCheck(e) \/ MarkJournal(e) \/ MarkFails(e) \/ MarkInsert(e)
    PROVE  Inductive'
<1>1. UNCHANGED <<log, open, sweep, clock, crashes, appended>>
  BY DEF MarkCheck, MarkJournal, MarkFails, MarkInsert
<1>2. mark \in [Events -> {"none", "checked", "journaled"}]
  BY DEF Inductive, TypeOK
<1>3. CASE MarkCheck(e)
  <2>1. /\ open /\ e \in appended /\ mark[e] = "none" /\ e \notin set
        /\ mark' = [mark EXCEPT ![e] = "checked"]
        /\ raced' = IF sweep.at = "idle" THEN raced ELSE raced \cup {e}
        /\ UNCHANGED <<journal, set, marked>>
    BY <1>3 DEF MarkCheck
  <2>2. TypeOK'
    BY <1>1, <2>1 DEF Inductive, TypeOK
  <2>3. AppendedOK' /\ MarkedOK'
    BY <1>1, <1>2, <2>1 DEF Inductive, AppendedOK, MarkedOK
  <2>4. RunningOK'
    BY <1>1, <1>2, <2>1 DEF Inductive, RunningOK
  <2>5. e \notin (marked \cap Ids(log)) \ raced
    BY <2>1 DEF Inductive, KnownOK
  <2>6. KnownOK'
    BY <1>1, <1>2, <2>1, <2>5 DEF Inductive, KnownOK
  <2> QED
    BY <2>2, <2>3, <2>4, <2>6 DEF Inductive
<1>4. CASE MarkJournal(e)
  <2>1. /\ mark[e] = "checked" /\ journal' = journal \cup {e}
        /\ mark' = [mark EXCEPT ![e] = "journaled"]
        /\ marked' = marked \cup {e}
        /\ UNCHANGED <<set, raced>>
    BY <1>4 DEF MarkJournal
  <2>2. TypeOK'
    BY <1>1, <2>1 DEF Inductive, TypeOK
  <2>3. AppendedOK' /\ MarkedOK'
    BY <1>1, <1>2, <2>1 DEF Inductive, AppendedOK, MarkedOK
  <2>4. RunningOK'
    BY <1>1, <1>2, <2>1 DEF Inductive, RunningOK
  <2>5. sweep.at # "idle" => e \in raced
    BY <2>1 DEF Inductive, RunningOK
  <2>6. KnownOK'
    BY <1>1, <1>2, <2>1, <2>5 DEF Inductive, KnownOK
  <2> QED
    BY <2>2, <2>3, <2>4, <2>6 DEF Inductive
<1>5. CASE MarkFails(e)
  <2>1. /\ mark[e] = "checked" /\ mark' = [mark EXCEPT ![e] = "none"]
        /\ UNCHANGED <<journal, set, marked, raced>>
    BY <1>5 DEF MarkFails
  <2>2. TypeOK'
    BY <1>1, <2>1 DEF Inductive, TypeOK
  <2>3. AppendedOK' /\ MarkedOK' /\ RunningOK'
    BY <1>1, <1>2, <2>1 DEF Inductive, AppendedOK, MarkedOK, RunningOK
  <2>4. KnownOK'
    BY <1>1, <1>2, <2>1 DEF Inductive, KnownOK
  <2> QED
    BY <2>2, <2>3, <2>4 DEF Inductive
<1>6. CASE MarkInsert(e)
  <2>1. /\ mark[e] = "journaled" /\ set' = set \cup {e}
        /\ mark' = [mark EXCEPT ![e] = "none"]
        /\ UNCHANGED <<journal, marked, raced>>
    BY <1>6 DEF MarkInsert
  <2>2. TypeOK'
    BY <1>1, <2>1 DEF Inductive, TypeOK
  <2>3. AppendedOK' /\ MarkedOK' /\ RunningOK'
    BY <1>1, <1>2, <2>1 DEF Inductive, AppendedOK, MarkedOK, RunningOK
  <2>4. KnownOK'
    BY <1>1, <1>2, <2>1 DEF Inductive, KnownOK
  <2> QED
    BY <2>2, <2>3, <2>4 DEF Inductive
<1> QED
  BY <1>3, <1>4, <1>5, <1>6

-----------------------------------------------------------------------------
(* Sweeps.                                                                 *)

(* A sweep begins with the delivered set and the time it has read.         *)
LEMMA SweepBeginKeeps ==
    ASSUME Inductive, NEW p \in Policies, SweepBegin(p)
    PROVE  Inductive'
<1>1. /\ open /\ sweep.at = "idle"
      /\ sweep' = [at |-> "seen", policy |-> p, seen |-> set, now |-> clock,
                   kept |-> {}]
      /\ raced' = raced \cup {e \in Events : mark[e] # "none"}
      /\ UNCHANGED <<log, journal, set, open, mark, clock, crashes, appended,
                     marked>>
  BY DEF SweepBegin
<1>2. sweep' \in Sweeps
  BY <1>1 DEF Inductive, TypeOK, Sweeps
<1>3. /\ sweep'.at = "seen" /\ sweep'.seen = set
  BY <1>1
<1>4. TypeOK'
  BY <1>1, <1>2 DEF Inductive, TypeOK, Sweeps
<1>5. AppendedOK' /\ MarkedOK'
  BY <1>1, <1>3 DEF Inductive, AppendedOK, MarkedOK
<1>6. RunningOK'
  BY <1>1, <1>3 DEF Inductive, RunningOK
<1>7. KnownOK'
  <2> SUFFICES ASSUME NEW e \in (marked \cap Ids(log)) \ raced'
               PROVE  e \in journal /\ e \in set
    BY <1>1, <1>3 DEF KnownOK
  <2>1. e \in Events /\ mark[e] = "none" /\ e \notin raced
    BY <1>1 DEF Inductive, TypeOK
  <2> QED
    BY <1>1, <2>1 DEF Inductive, KnownOK
<1> QED
  BY <1>4, <1>5, <1>6, <1>7 DEF Inductive

(* retain removes delivered events alone if the policy has no hard bound.  *)
LEMMA SweepLogKeeps ==
    ASSUME Inductive, SweepLog
    PROVE  /\ Inductive'
           /\ GraceAlone(sweep.policy) =>
                 \A e \in Ids(log) \ Ids(log') : e \in sweep.seen
<1>1. PICK f : f = RetainEvents(log, sweep.seen, sweep.policy, sweep.now)
  OBVIOUS
<1>2. /\ sweep.at = "seen" /\ log' = f
      /\ sweep' = IF f = log THEN NoSweep
                  ELSE [sweep EXCEPT !.at = "compacted", !.kept = Ids(f)]
      /\ UNCHANGED <<journal, set, open, mark, clock, crashes, appended,
                     marked, raced>>
  BY <1>1 DEF SweepLog
<1>3. log \in Seq(Records) /\ sweep \in Sweeps
  BY DEF Inductive, TypeOK, Sweeps
<1>4. PICK p : p = sweep.policy
  OBVIOUS
<1>5. p \in AutoPolicies
  BY <1>3, <1>4, PoliciesKnown DEF Sweeps
<1>6. /\ f \in Seq(Records)
      /\ IsPart(f, log)
      /\ (p.maxAge = NoBound /\ p.maxCount = NoBound /\ p.maxBytes = NoBound)
            => \A i \in 1..Len(log) : log[i].id \notin sweep.seen =>
                  \E j \in 1..Len(f) : f[j] = log[i]
  BY <1>1, <1>3, <1>4, <1>5, SizedRecords, RetainEventsKeepsPart
<1>7. /\ Ids(f) \subseteq Ids(log)
      /\ \A i, j \in 1..Len(f) : f[i].id = f[j].id => i = j
  BY <1>6, PartOfLog DEF Inductive
<1>8. GraceAlone(p) => \A e \in Ids(log) \ Ids(f) : e \in sweep.seen
  BY <1>6 DEF GraceAlone, Ids
<1>9. Ids(log) \subseteq Events
  BY DEF Inductive, TypeOK, AppendedOK
<1>10. /\ sweep' \in Sweeps
       /\ sweep'.at \in {"idle", "compacted"}
       /\ sweep'.at = "compacted" =>
             sweep'.seen = sweep.seen /\ sweep'.kept = Ids(f)
       /\ sweep'.seen \subseteq sweep.seen
  <2>1. CASE f = log
    BY <1>2, <2>1, NoSweepType DEF NoSweep
  <2>2. CASE f # log
    <3>1. sweep' = [at |-> "compacted", policy |-> sweep.policy,
                    seen |-> sweep.seen, now |-> sweep.now, kept |-> Ids(f)]
      BY <1>2, <1>3, <2>2 DEF Sweeps
    <3>2. Ids(f) \subseteq Events
      BY <1>7, <1>9
    <3> QED
      BY <1>3, <3>1, <3>2 DEF Sweeps
  <2> QED
    BY <2>1, <2>2
<1>11. TypeOK'
  BY <1>2, <1>6, <1>7, <1>10 DEF Inductive, TypeOK, Sweeps
<1>12. AppendedOK' /\ MarkedOK'
  BY <1>2, <1>7, <1>10 DEF Inductive, AppendedOK, MarkedOK
<1>13. RunningOK'
  BY <1>2, <1>10 DEF Inductive, RunningOK
<1>14. KnownOK'
  BY <1>2, <1>7, <1>10 DEF Inductive, KnownOK
<1> QED
  BY <1>2, <1>4, <1>8, <1>11, <1>12, <1>13, <1>14 DEF Inductive

(* After the log, a sweep replaces the journal and the set in memory, or   *)
(* returns early with an error.                                            *)
LEMMA SweepEndKeeps ==
    ASSUME Inductive, SweepJournal \/ SweepSet \/ SweepFails
    PROVE  Inductive'
<1>1. UNCHANGED <<log, open, mark, clock, crashes, appended, marked, raced>>
  BY DEF SweepJournal, SweepSet, SweepFails
<1>2. sweep \in Sweeps
  BY DEF Inductive, TypeOK, Sweeps
<1>3. KeptDelivered(sweep) = sweep.seen \cap sweep.kept
  BY DEF KeptDelivered
<1>4. NoSweep.at = "idle" /\ NoSweep.seen = {}
  BY DEF NoSweep
<1>5. CASE SweepJournal
  <2>1. /\ sweep.at = "compacted"
        /\ journal' = sweep.seen \cap sweep.kept /\ set' = set
        /\ sweep' = [sweep EXCEPT !.at = "replaced"]
    BY <1>3, <1>5 DEF SweepJournal
  <2>2. sweep' \in Sweeps
    BY <1>2, <2>1 DEF Sweeps
  <2>3. /\ sweep'.at = "replaced" /\ sweep'.seen = sweep.seen
        /\ sweep'.kept = sweep.kept
    BY <1>2, <2>1 DEF Sweeps
  <2>4. sweep.seen \subseteq Events
    BY <1>2 DEF Sweeps
  <2>5. TypeOK'
    BY <1>1, <2>1, <2>2, <2>4 DEF Inductive, TypeOK, Sweeps
  <2>6. AppendedOK' /\ MarkedOK' /\ RunningOK'
    BY <1>1, <2>1, <2>3 DEF Inductive, AppendedOK, MarkedOK, RunningOK
  <2>7. KnownOK'
    BY <1>1, <2>1, <2>3 DEF Inductive, KnownOK
  <2> QED
    BY <2>5, <2>6, <2>7 DEF Inductive
<1>6. CASE SweepSet
  <2>1. /\ sweep.at = "replaced" /\ sweep' = NoSweep
        /\ set' = sweep.seen \cap sweep.kept /\ journal' = journal
    BY <1>3, <1>6 DEF SweepSet
  <2>2. sweep.seen \subseteq Events
    BY <1>2 DEF Sweeps
  <2>3. TypeOK'
    BY <1>1, <2>1, <2>2, NoSweepType DEF Inductive, TypeOK, Sweeps
  <2>4. AppendedOK' /\ MarkedOK' /\ RunningOK'
    BY <1>1, <1>4, <2>1 DEF Inductive, AppendedOK, MarkedOK, RunningOK
  <2>5. KnownOK'
    BY <1>1, <1>4, <2>1 DEF Inductive, KnownOK
  <2> QED
    BY <2>3, <2>4, <2>5 DEF Inductive
<1>7. CASE SweepFails
  <2>1. sweep' = NoSweep /\ set' = set /\ journal' = journal
    BY <1>7 DEF SweepFails
  <2>2. TypeOK'
    BY <1>1, <2>1, NoSweepType DEF Inductive, TypeOK, Sweeps
  <2>3. AppendedOK' /\ MarkedOK' /\ RunningOK'
    BY <1>1, <1>4, <2>1 DEF Inductive, AppendedOK, MarkedOK, RunningOK
  <2>4. KnownOK'
    BY <1>1, <1>4, <2>1 DEF Inductive, KnownOK
  <2> QED
    BY <2>2, <2>3, <2>4 DEF Inductive
<1> QED
  BY <1>5, <1>6, <1>7

-----------------------------------------------------------------------------
(* Processes and the operator.                                             *)

(* The clock, a crash and a reopening keep the invariant.                  *)
LEMMA ProcessKeeps ==
    ASSUME Inductive, Tick \/ Crash \/ Open
    PROVE  Inductive'
<1>1. UNCHANGED <<log, journal, appended, marked, raced>>
  BY DEF Tick, Crash, Open
<1>2. CASE Tick
  <2>1. UNCHANGED <<set, open, mark, sweep, crashes>>
    BY <1>2 DEF Tick
  <2>2. clock' \in 0..MaxClock
    BY <1>2, EventStoreAssumption DEF Inductive, TypeOK, Tick
  <2>3. TypeOK'
    BY <1>1, <2>1, <2>2 DEF Inductive, TypeOK
  <2>4. AppendedOK' /\ MarkedOK' /\ RunningOK' /\ KnownOK'
    BY <1>1, <2>1
       DEF Inductive, AppendedOK, MarkedOK, RunningOK, KnownOK
  <2> QED
    BY <2>3, <2>4 DEF Inductive
<1>3. CASE Crash
  <2>1. /\ open' = FALSE /\ set' = {} /\ clock' = clock
        /\ mark' = [e \in Events |-> "none"] /\ sweep' = NoSweep
    BY <1>3 DEF Crash
  <2>2. crashes' \in 0..MaxCrashes
    BY <1>3, EventStoreAssumption DEF Inductive, TypeOK, Crash
  <2>3. NoSweep.at = "idle" /\ NoSweep.seen = {}
    BY DEF NoSweep
  <2>4. TypeOK'
    BY <1>1, <2>1, <2>2, NoSweepType DEF Inductive, TypeOK, Sweeps
  <2>5. AppendedOK' /\ MarkedOK' /\ RunningOK'
    BY <1>1, <2>1, <2>3 DEF Inductive, AppendedOK, MarkedOK, RunningOK
  <2>6. KnownOK'
    BY <1>1, <2>1, <2>3 DEF Inductive, KnownOK
  <2> QED
    BY <2>4, <2>5, <2>6 DEF Inductive
<1>4. CASE Open
  <2>1. /\ ~open /\ open' = TRUE /\ set' = journal
        /\ UNCHANGED <<mark, sweep, clock, crashes>>
    BY <1>4 DEF Open
  <2>2. TypeOK'
    BY <1>1, <2>1 DEF Inductive, TypeOK
  <2>3. AppendedOK' /\ MarkedOK' /\ RunningOK'
    BY <1>1, <2>1 DEF Inductive, AppendedOK, MarkedOK, RunningOK
  <2>4. KnownOK'
    BY <1>1, <2>1 DEF Inductive, KnownOK
  <2> QED
    BY <2>2, <2>3, <2>4 DEF Inductive
<1> QED
  BY <1>2, <1>3, <1>4

(* An explicit prune keeps the invariant.                                  *)
LEMMA PruneKeeps ==
    ASSUME Inductive, Prune
    PROVE  Inductive'
<1>1. log \in Seq(Records) /\ Len(log) \in Nat
  BY DEF Inductive, TypeOK
<1>2. log' \in Seq(Records) /\ IsPart(log', log)
  <2>1. CASE \E n \in 0..(Len(log) - 1) : log' = KeepMostRecent(log, n)
    <3>1. PICK n \in Nat : log' = KeepMostRecent(log, n)
      BY <1>1, <2>1
    <3> QED
      BY <1>1, <3>1, PruneKeepsPart
  <2>2. CASE \E cutoff \in 0..MaxClock : log' = KeepOlderThan(log, cutoff)
    <3>1. 0 \in Nat
      OBVIOUS
    <3> QED
      BY <1>1, <2>2, <3>1, PruneKeepsPart
  <2> QED
    BY <2>1, <2>2 DEF Prune
<1>3. /\ Ids(log') \subseteq Ids(log)
      /\ \A i, j \in 1..Len(log') : log'[i].id = log'[j].id => i = j
  <2>1. PICK f : f = log'
    OBVIOUS
  <2>2. /\ Ids(f) \subseteq Ids(log)
        /\ \A i, j \in 1..Len(f) : f[i].id = f[j].id => i = j
    BY <1>2, <2>1, PartOfLog DEF Inductive
  <2> QED
    BY <2>1, <2>2
<1>4. UNCHANGED <<journal, set, open, mark, sweep, clock, crashes, appended,
                  marked, raced>>
  BY DEF Prune
<1>5. TypeOK'
  BY <1>2, <1>3, <1>4 DEF Inductive, TypeOK
<1>6. AppendedOK' /\ MarkedOK' /\ RunningOK' /\ KnownOK'
  BY <1>3, <1>4 DEF Inductive, AppendedOK, MarkedOK, RunningOK, KnownOK
<1> QED
  BY <1>5, <1>6 DEF Inductive

-----------------------------------------------------------------------------
(* The whole of EventStore.                                                *)

(* The inductive invariant holds in an empty, open store.                  *)
LEMMA InitInductive == Init => Inductive
<1> SUFFICES ASSUME Init PROVE Inductive
  OBVIOUS
<1>1. 0 \in 0..MaxClock /\ 0 \in 0..MaxCrashes
  BY EventStoreAssumption
<1>2. Ids(log) = {} /\ log \in Seq(Records) /\ Len(log) = 0
  BY DEF Init, Ids
<1>3. sweep.at = "idle" /\ sweep.seen = {}
  BY DEF Init, NoSweep
<1>4. TypeOK
  BY <1>1, <1>2, NoSweepType DEF Init, TypeOK, Sweeps
<1>5. AppendedOK /\ MarkedOK /\ RunningOK /\ KnownOK
  BY <1>2, <1>3 DEF Init, AppendedOK, MarkedOK, RunningOK, KnownOK
<1> QED
  BY <1>4, <1>5 DEF Inductive

(* Every step keeps the inductive invariant.                               *)
LEMMA NextInductive == Inductive /\ [Next]_vars => Inductive'
<1> SUFFICES ASSUME Inductive, [Next]_vars PROVE Inductive'
  OBVIOUS
<1>1. ASSUME NEW e \in Events,
             \/ AppendEvent(e) \/ MarkCheck(e) \/ MarkJournal(e)
             \/ MarkFails(e) \/ MarkInsert(e)
      PROVE  Inductive'
  BY <1>1, AppendKeeps, MarkKeeps
<1>2. CASE UNCHANGED vars
  BY <1>2 DEF vars, Inductive, TypeOK, AppendedOK, MarkedOK, RunningOK,
              KnownOK, Ids
<1> QED
  BY <1>1, <1>2, SweepBeginKeeps, SweepLogKeeps, SweepEndKeeps, ProcessKeeps,
     PruneKeeps DEF Next

(* The inductive invariant holds throughout.                               *)
LEMMA AlwaysInductive == Spec => []Inductive
<1> QED
  BY InitInductive, NextInductive, PTL DEF Spec

(* EventStore keeps its types, and holds no event twice.                   *)
THEOREM TypeCorrect == Spec => []TypeOK
<1>1. Inductive => TypeOK
  BY DEF Inductive
<1> QED
  BY <1>1, AlwaysInductive, PTL

(* For any events, policies, sweeps and crashes: only an event that was    *)
(* marked delivered is ever taken to be delivered.                         *)
THEOREM RecoveryMissesNothing == Spec => []NeverMarkedIsUndelivered
<1>1. Inductive => NeverMarkedIsUndelivered
  BY DEF Inductive, MarkedOK, NeverMarkedIsUndelivered
<1> QED
  BY <1>1, AlwaysInductive, PTL

(* A mark that no sweep overlapped is known after it, in the journal and   *)
(* in an open store's set.                                                 *)
THEOREM QuietMarksSurvive == Spec => []MarksOutsideSweepsSurvive
<1>1. Inductive => MarksOutsideSweepsSurvive
  BY DEF Inductive, KnownOK, MarksOutsideSweepsSurvive
<1> QED
  BY <1>1, AlwaysInductive, PTL

(* A sweep whose policy has no hard bound removes only events that were    *)
(* marked delivered, whatever is appended or marked while it runs.         *)
THEOREM SweepsSpareUndelivered == Spec => SweepRemovesOnlyDelivered
<1> DEFINE Removal ==
      (sweep.at # "idle" /\ GraceAlone(sweep.policy) /\ open')
          => \A e \in Ids(log) \ Ids(log') : e \in marked
<1>1. Inductive /\ [Next]_vars => [Removal]_vars
  <2> SUFFICES ASSUME Inductive, Next PROVE Removal
    OBVIOUS
  <2>1. CASE log' = log
    BY <2>1 DEF Ids
  <2>2. CASE \E e \in Events : AppendEvent(e)
    BY <2>2, AppendKeeps
  <2>3. CASE SweepLog
    <3>1. sweep.seen \subseteq marked
      BY DEF Inductive, MarkedOK
    <3> QED
      BY <2>3, <3>1, SweepLogKeeps
  <2>4. CASE Prune
    BY <2>4 DEF Prune, Inductive, RunningOK
  <2> QED
    BY <2>1, <2>2, <2>3, <2>4
       DEF Next, Tick, MarkCheck, MarkJournal, MarkFails, MarkInsert,
           SweepBegin, SweepJournal, SweepSet, SweepFails, Crash, Open
<1> QED
  BY <1>1, AlwaysInductive, PTL DEF Spec, SweepRemovesOnlyDelivered
=============================================================================
