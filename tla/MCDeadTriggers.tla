--------------------------- MODULE MCDeadTriggers ---------------------------
(***************************************************************************)
(* Constants for the run of DeadTriggers: two events of different types,   *)
(* a configuration where trigger t1 handles both and t2 the first, and one *)
(* where t2 is disabled.                                                   *)
(***************************************************************************)
EXTENDS DeadTriggers, TLC

CONSTANTS e1, e2, t1, t2, push, issue, github

Both == {e1, e2}
Times2 == (e1 :> 0) @@ (e2 :> 1)
Types == (e1 :> push) @@ (e2 :> issue)
OneSource == [e \in Both |-> github]

Trigger(name, priority, enabled, accepts) ==
    [name |-> name, priority |-> priority, enabled |-> enabled,
     accepts |-> accepts]
TwoConfigs ==
    {<<Trigger(t2, 0, TRUE, {e1}), Trigger(t1, 10, TRUE, Both)>>,
     <<Trigger(t1, 10, TRUE, Both), Trigger(t2, 0, FALSE, {e1})>>}

Window(start, end, type) ==
    [start |-> start, end |-> end, type |-> type, source |-> None]
TwoRanges == {Window(0, 2, None), Window(0, 1, push)}

CountBound ==
    {[grace |-> NoBound, maxAge |-> NoBound, maxCount |-> 1,
      maxBytes |-> NoBound]}

(* The registries of these configurations name each trigger once.          *)
ASSUME MCDeadTriggersAssumption == DistinctNames
=============================================================================
