------------------------------ MODULE Retention ------------------------------
(***************************************************************************)
(* The pure retention decisions of triggerlane-storage: what a manual      *)
(* prune keeps, and what automatic retention keeps of the event store and  *)
(* of the dead-trigger queue.  Records are kept in append order.           *)
(*                                                                         *)
(* A record is [id, ts, size]: its event's id, its timestamp and its       *)
(* serialized length.  An Option bound that is None is NoBound.            *)
(***************************************************************************)
EXTENDS Integers, Sequences, SequencesExt, Filtering

NoBound == -1
Exceeds(x, bound) == bound # NoBound /\ x > bound

(* The last n records, all of them if there are fewer.                     *)
MostRecent(s, n) == SubSeq(s, IF Len(s) > n THEN Len(s) - n + 1 ELSE 1, Len(s))

(* ManualRetention::keep.                                                  *)
KeepOlderThan(s, cutoff) == Filter(s, {r \in ToSet(s) : r.ts >= cutoff})
KeepMostRecent(s, n) == MostRecent(s, n)

-----------------------------------------------------------------------------
(* AutoRetention: [grace, maxAge, maxCount, maxBytes], each optional; the  *)
(* bounds in use are lengths of time, counts and sizes.                    *)
Bounds == Nat \cup {NoBound}
AutoPolicies ==
    [grace : Bounds, maxAge : Bounds, maxCount : Bounds, maxBytes : Bounds]

IsUnbounded(p) ==
    \A bound \in {p.grace, p.maxAge, p.maxCount, p.maxBytes} : bound = NoBound

(* A bug of BoundBytes: the walk goes on past a record that does not fit.  *)
SkipOversized(s, max) ==
    LET walk[n \in 0..Len(s)] ==
            IF n = 0 THEN [budget |-> max, first |-> Len(s) + 1]
            ELSE IF s[Len(s) + 1 - n].size > walk[n - 1].budget
            THEN walk[n - 1]
            ELSE [budget |-> walk[n - 1].budget - s[Len(s) + 1 - n].size,
                  first |-> Len(s) + 1 - n]
    IN  SubSeq(s, walk[Len(s)].first, Len(s))

(* Walk from the newest record to the oldest while the budget lasts; the   *)
(* first record that does not fit ends the walk.  walk[n] is where it is   *)
(* after the n newest records.                                             *)
BoundBytes(s, max) ==
    LET walk[n \in 0..Len(s)] ==
            IF n = 0
            THEN [budget |-> max, first |-> Len(s) + 1, full |-> FALSE]
            ELSE IF walk[n - 1].full
                       \/ s[Len(s) + 1 - n].size > walk[n - 1].budget
            THEN [walk[n - 1] EXCEPT !.full = TRUE]
            ELSE [budget |-> walk[n - 1].budget - s[Len(s) + 1 - n].size,
                  first |-> Len(s) + 1 - n, full |-> FALSE]
    IN  SubSeq(s, walk[Len(s)].first, Len(s))

(* apply_size_bounds: the count bound first, then the byte bound.          *)
ApplySizeBounds(s, p) ==
    LET counted == IF p.maxCount = NoBound THEN s ELSE MostRecent(s, p.maxCount)
    IN  IF p.maxBytes = NoBound THEN counted
        ELSE BoundBytes(counted, p.maxBytes)

(* A bug of OutlivesAge: the grace bound forgets to ask for delivery.      *)
OutlivesAgeBlindly(r, delivered, p, now) ==
    ~Exceeds(now - r.ts, p.maxAge) /\ ~Exceeds(now - r.ts, p.grace)

(* The age filter of retain_events.                                        *)
OutlivesAge(r, delivered, p, now) ==
    /\ ~Exceeds(now - r.ts, p.maxAge)
    /\ ~(r.id \in delivered /\ Exceeds(now - r.ts, p.grace))

RetainEvents(s, delivered, p, now) ==
    ApplySizeBounds(
        Filter(s, {r \in ToSet(s) : OutlivesAge(r, delivered, p, now)}), p)

(* retain_dead_triggers: a dead trigger has no delivery state.             *)
RetainDeadTriggers(s, p, now) ==
    ApplySizeBounds(
        Filter(s, {r \in ToSet(s) : ~Exceeds(now - r.ts, p.maxAge)}), p)
=============================================================================
