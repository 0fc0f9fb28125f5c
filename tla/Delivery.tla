------------------------------ MODULE Delivery ------------------------------
(***************************************************************************)
(* What the ingest pipeline promises, without processes, queues, crashes   *)
(* or retries: at-least-once delivery of every stored event.               *)
(*                                                                         *)
(* An event is stored once, its matched triggers are taken (by Worklane or *)
(* by the dead-trigger queue) only while it has been stored, it is         *)
(* delivered only when all of them are taken, and only a delivered event   *)
(* may be retired.  Ingest implements this specification.                  *)
(***************************************************************************)
EXTENDS Naturals, Sequences

CONSTANTS
    Events,
    Triggers,
    Matches,   \* Matches[e]: the triggers e matched
    Ident      \* Ident[e]: events of equal identity share their submissions

VARIABLES
    status,    \* how far each event is
    taken      \* <<event, trigger>> pairs whose work is held durably

vars == <<status, taken>>

Init ==
    /\ status = [e \in Events |-> "unknown"]
    /\ taken = {}

Accept(e) ==
    /\ status[e] = "unknown"
    /\ status' = [status EXCEPT ![e] = "stored"]
    /\ UNCHANGED taken

(* A submission counts for every event of the same identity; a dead-letter *)
(* record counts for its own event.                                        *)
Take(e, t) ==
    /\ status[e] # "unknown"
    /\ \/ taken' = taken \cup {<<e, t>>}
       \/ taken' = taken \cup {<<f, t>> : f \in {f \in Events :
                                                    Ident[f] = Ident[e]}}
    /\ UNCHANGED status

Deliver(e) ==
    /\ status[e] = "stored"
    /\ \A i \in 1..Len(Matches[e]) : <<e, Matches[e][i]>> \in taken
    /\ status' = [status EXCEPT ![e] = "delivered"]
    /\ UNCHANGED taken

Retire(e) ==
    /\ status[e] = "delivered"
    /\ status' = [status EXCEPT ![e] = "retired"]
    /\ UNCHANGED taken

Next ==
    \E e \in Events :
        Accept(e) \/ Deliver(e) \/ Retire(e) \/ \E t \in Triggers : Take(e, t)

Spec == Init /\ [][Next]_vars
=============================================================================
