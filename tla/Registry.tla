------------------------------ MODULE Registry ------------------------------
(***************************************************************************)
(* TriggerRegistry: the registered triggers in evaluation order.           *)
(*                                                                         *)
(* A registration is [name, priority, enabled, accepts]: accepts is the    *)
(* set of the events that its Trigger condition matches.                   *)
(***************************************************************************)
EXTENDS Integers, SequencesExt, Filtering

(* A bug of register: the new registration goes before its equals.         *)
RegisterBeforeEquals(registrations, r) ==
    LET before == {x \in ToSet(registrations) : x.priority > r.priority}
    IN  Filter(registrations, before) \o <<r>>
            \o Filter(registrations, ToSet(registrations) \ before)

(* register pushes the registration and sorts by descending priority; the  *)
(* sort is stable, so it lands behind its equals.                          *)
Register(registrations, r) ==
    LET before == {x \in ToSet(registrations) : x.priority >= r.priority}
    IN  Filter(registrations, before) \o <<r>>
            \o Filter(registrations, ToSet(registrations) \ before)

(* load_registry: the registrations of a configuration, one by one.        *)
LoadRegistry(config) ==
    LET loaded[n \in 0..Len(config)] ==
            IF n = 0 THEN <<>> ELSE Register(loaded[n - 1], config[n])
    IN  loaded[Len(config)]

(* The triggers that handle evaluates for event e, in order.               *)
Matching(registrations, e) ==
    Filter(registrations,
           {r \in ToSet(registrations) : r.enabled /\ e \in r.accepts})
=============================================================================
