----------------------------- MODULE DurableLog -----------------------------
(***************************************************************************)
(* What one JSONL file promises its users, without system calls, handles   *)
(* and buffers: an atomic log.  An acknowledged record stays, in its       *)
(* place, until it is removed; a removal happens wholly or not at all,     *)
(* also when the process or the machine stops in the middle of it; a stop  *)
(* may add only appends that were not acknowledged and removals that were  *)
(* cut short.  The promise ends when the log is damaged, which only a      *)
(* removal that failed half-way, an append that was cut short, or a stop   *)
(* of a log whose name is not durable can do.  JsonlStore implements this  *)
(* specification.                                                          *)
(***************************************************************************)
EXTENDS Sequences, SequencesExt, Filtering

CONSTANT Records

VARIABLES
    up,        \* whether the log is open
    view,      \* the records it holds, or will hold when it is next opened
    acked,     \* the acknowledged ones of them
    limbo,     \* records it does not hold that may show after a stop
    loose,     \* whether it may end in a line that is not terminated
    exposed,   \* whether its name may be lost in a stop
    removing,  \* the set of records whose removal is under way, if any
    damaged    \* whether the promise has ended

vars == <<up, view, acked, limbo, loose, exposed, removing, damaged>>

Init ==
    /\ up = FALSE
    /\ view = <<>> /\ acked = {}
    /\ limbo = {} /\ loose = FALSE /\ exposed = FALSE
    /\ removing = {}
    /\ damaged = FALSE

Open ==
    /\ ~up
    /\ up' = TRUE
    /\ limbo' \subseteq limbo /\ loose' => loose
    /\ UNCHANGED <<view, acked, removing, damaged>>

(* The log goes on, under a name that is durable or one that is not.       *)
Named ==
    /\ up /\ removing = {}
    /\ exposed => exposed'
    /\ limbo' \subseteq limbo /\ loose' => loose
    /\ UNCHANGED <<up, view, acked, removing, damaged>>

Attempt(r) ==
    /\ up /\ removing = {}
    /\ r \notin Range(view)
    /\ limbo' = limbo \cup {r}
    /\ UNCHANGED <<up, view, acked, loose, exposed, removing, damaged>>

(* The record is written, wholly or not.  What does not end in a newline   *)
(* spoils the next record.                                                 *)
Write ==
    /\ up /\ removing = {}
    /\ \/ damaged' /\ loose
       \/ /\ limbo' \subseteq limbo
          /\ UNCHANGED <<up, view, acked, exposed, removing, damaged>>

Acknowledge(r) ==
    /\ up /\ removing = {}
    /\ r \in limbo
    /\ view' = Append(view, r)
    /\ acked' = acked \cup {r}
    /\ limbo' \subseteq limbo \ {r} /\ loose' => loose
    /\ UNCHANGED <<up, exposed, removing, damaged>>

BeginRemove(S) ==
    /\ up /\ removing = {}
    /\ removing' = {S}
    /\ limbo' \subseteq limbo /\ loose' => loose
    /\ UNCHANGED <<up, view, acked, exposed, damaged>>

(* The removal can no longer be undone.                                    *)
Settle ==
    /\ removing # {}
    /\ limbo' = {} /\ loose' = FALSE
    /\ UNCHANGED <<up, view, acked, removing, damaged>>

FinishRemove ==
    /\ \E S \in removing :
          /\ view' = Filter(view, Range(view) \ S)
          /\ acked' = acked \ S
    /\ limbo' = {} /\ loose' = FALSE
    /\ removing' = {}
    /\ UNCHANGED <<up, exposed, damaged>>

RemovalFails ==
    /\ removing # {}
    /\ damaged' = TRUE

(* A stop may leave s: what s shares with the view is in the same order,   *)
(* and a removal under way is all or nothing.                              *)
MayLeave(s) ==
    /\ Range(s) \subseteq Range(view) \cup limbo
    /\ Filter(s, Range(view)) = Filter(view, Range(s))
    /\ \/ acked \subseteq Range(s)
       \/ \E S \in removing :
             acked \ S \subseteq Range(s) /\ S \cap Range(s) = {}

(* The process or the machine stops; the machine may stop later as well.   *)
Stop ==
    /\ up' = FALSE
    /\ \/ damaged' /\ (loose \/ limbo # {} \/ exposed)
       \/ /\ MayLeave(view')
          /\ acked' = acked \ UNION removing
          /\ limbo' \subseteq limbo \cup Range(view)
          /\ exposed' => exposed
          /\ removing' = {}
          /\ UNCHANGED damaged

Next ==
    \/ damaged /\ damaged'
    \/ /\ ~damaged
       /\ \/ Open \/ Named \/ Write \/ Settle \/ FinishRemove
          \/ RemovalFails \/ Stop
          \/ \E r \in Records : Attempt(r) \/ Acknowledge(r)
          \/ \E S \in SUBSET Range(view) : BeginRemove(S)

Spec == Init /\ [][Next]_vars
=============================================================================
