----------------------------- MODULE MCDecisions -----------------------------
(***************************************************************************)
(* The cases on which Decisions is checked.                                *)
(***************************************************************************)
EXTENDS Decisions

(* Every combination of the four optional bounds.                          *)
SmallPolicies ==
    [grace : {NoBound, 0}, maxAge : {NoBound, 1}, maxCount : {NoBound, 1, 2},
     maxBytes : {NoBound, 2, 3}]

SmallSettings ==
    [text : {"unset", "empty", "off", "junk"}, n : {0}, unit : {"bare"}]
    \cup [text : {"number"}, n : {-1, 0, 1, 3, 5, 20, 500000, 1000001},
          unit : {"bare", "s", "m", "h", "d", "other"}]

(* Events with the pointer missing, null or a value, or not JSON at all.   *)
Samples ==
    [type : {"a", "b"}, json : {TRUE},
     fields : {[x \in {} |-> "null"]} \cup [{"/p"} -> {"null", "v"}]]
    \cup [type : {"a"}, json : {FALSE}, fields : {[x \in {} |-> "null"]}]

(* Conditions inside conditions, and an any_of of nothing.                 *)
Leaves ==
    {[type |-> "event_type", event_type |-> "a"],
     [type |-> "payload_field_equals", pointer |-> "/p", value |-> "null"]}
Composed ==
    [type : {"any_of"}, conditions : {<<>>}]
    \cup [type : {"all_of", "any_of"},
          conditions : {<<a, b>> : a \in Leaves, b \in Leaves}]
Nested == [type : {"all_of"}, conditions : {<<c>> : c \in Composed}]
SmallSpecs == Leaves \cup Composed \cup Nested

(* One trigger with any condition, or up to three of three priorities with *)
(* one of two: triggers of equal and of different priority in every order. *)
EntriesOf(n, conditions) ==
    {entries \in [1..n -> [name : 1..n, priority : {-1, 0, 1},
                          enabled : BOOLEAN, condition : conditions]] :
        \A i \in 1..n : entries[i].name = i}
SmallConfigurations ==
    EntriesOf(1, SmallSpecs) \cup UNION {EntriesOf(n, Leaves) : n \in 0..3}

FourIds == <<"e1", "e2", "e3", "e4">>
OptionalMetadata ==
    [trace : {None, "t"}, correlation : {None, "c"}, tenant : {None, "n"},
     key : {None, "k"}, causation : {None, "x"}]
=============================================================================
