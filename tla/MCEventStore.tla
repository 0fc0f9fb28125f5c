---------------------------- MODULE MCEventStore ----------------------------
(***************************************************************************)
(* Policies for the model-checking runs of EventStore: the grace bound     *)
(* alone, and with hard bounds on age and count.                           *)
(***************************************************************************)
EXTENDS EventStore

GraceOnly == [grace |-> 0, maxAge |-> NoBound, maxCount |-> NoBound,
              maxBytes |-> NoBound]
WithHardBounds == [grace |-> 0, maxAge |-> 0, maxCount |-> 1,
                   maxBytes |-> NoBound]
BothPolicies == {GraceOnly, WithHardBounds}
=============================================================================
