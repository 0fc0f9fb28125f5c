----------------------------- MODULE Conditions -----------------------------
(***************************************************************************)
(* Match conditions of triggers, as a configuration file states them, and  *)
(* the registry that it builds.                                            *)
(*                                                                         *)
(* An event is [type, json, fields]: fields maps the JSON pointers that    *)
(* resolve in its payload to their values, of which null is one; json is   *)
(* whether it is JSON at all.  A condition is a dyn Trigger, that is, the  *)
(* set of the events it matches.                                           *)
(***************************************************************************)
EXTENDS Registry

CONSTANTS
    Events,     \* the events that conditions are evaluated on
    MatchSpecs  \* the conditions in use, with those inside them

EventTypeIs(t) == {e \in Events : e.type = t}

PayloadFieldEquals(p, v) ==
    {e \in Events : e.json /\ p \in DOMAIN e.fields /\ e.fields[p] = v}

AllOf(triggers) == {e \in Events : \A i \in DOMAIN triggers : e \in triggers[i]}
AnyOf(triggers) == {e \in Events : \E i \in DOMAIN triggers : e \in triggers[i]}

BuildCondition(spec) ==
    LET build[s \in MatchSpecs] ==
            CASE s.type = "event_type" -> EventTypeIs(s.event_type)
              [] s.type = "payload_field_equals" ->
                     PayloadFieldEquals(s.pointer, s.value)
              [] s.type = "all_of" ->
                     AllOf([i \in DOMAIN s.conditions |->
                               build[s.conditions[i]]])
              [] s.type = "any_of" ->
                     AnyOf([i \in DOMAIN s.conditions |->
                               build[s.conditions[i]]])
    IN  build[spec]

(* parse_registry, one entry of the file after the other.                  *)
EntryRegistration(entry) ==
    [name |-> entry.name, priority |-> entry.priority,
     enabled |-> entry.enabled, accepts |-> BuildCondition(entry.condition)]
ParseRegistry(entries) ==
    LoadRegistry([i \in DOMAIN entries |-> EntryRegistration(entries[i])])
=============================================================================
