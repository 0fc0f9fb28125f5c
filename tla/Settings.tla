------------------------------ MODULE Settings ------------------------------
(***************************************************************************)
(* How the command line reads its settings, and the submission back-off    *)
(* they control.  A setting is its raw text, as far as the parsers tell    *)
(* texts apart:                                                            *)
(*   text  unset, empty, off, junk (not a number) or number                *)
(*   n     the number, negative with a sign                                *)
(*   unit  the letter after it: s, m, h, d or other; bare for none         *)
(* Durations are in seconds, back-off delays in milliseconds.  Widths are  *)
(* constants, so that overflow is within reach.                            *)
(***************************************************************************)
EXTENDS Integers, FiniteSetsExt, Retention

CONSTANTS
    Width,       \* bits of a u32 (32)
    MaxBackoff,  \* MAX_SUBMISSION_BACKOFF
    MaxDuration, \* the longest std Duration
    MaxUnsigned, \* the largest u64, and usize
    MaxInt,      \* the largest i64
    MaxSeconds   \* the longest chrono Duration

PowerOfTwo(n) ==
    LET power[i \in 0..n] == IF i = 0 THEN 1 ELSE 2 * power[i - 1]
    IN  power[n]

ASSUME SettingsAssumption ==
    /\ Width \in Nat \ {0, 1}
    /\ MaxBackoff \in 0..(PowerOfTwo(Width) - 1)
    /\ MaxDuration \in Nat /\ MaxBackoff <= MaxDuration
    /\ MaxUnsigned \in Nat /\ MaxUnsigned >= 1000000
    /\ MaxInt \in Nat
    /\ MaxSeconds \in 86400..MaxInt

(* The results that are not a value.                                       *)
Invalid == -2

-----------------------------------------------------------------------------
(* RuntimeOptions and submission_backoff_delay.                            *)

(* A bug of submission_backoff_delay: the shift wraps at the width.        *)
FactorWraps(retry) == PowerOfTwo((retry - 1) % Width)

(* 1u32.checked_shl(retry - 1), saturated.                                 *)
Factor(retry) ==
    IF retry - 1 < Width THEN PowerOfTwo(retry - 1) ELSE PowerOfTwo(Width) - 1

(* The delay before retry number `retry`; 0 is the first attempt.          *)
BackoffDelay(retry, base) ==
    IF base = 0 \/ retry = 0 THEN 0
    ELSE Min({Min({base * Factor(retry), MaxDuration}), MaxBackoff})

-----------------------------------------------------------------------------
(* Parsing.                                                                *)

UnitSeconds == [s |-> 1, m |-> 60, h |-> 3600, d |-> 86400]

RawTexts ==
    [text : {"unset", "empty", "off", "junk", "number"}, n : Int,
     unit : DOMAIN UnitSeconds \cup {"bare", "other"}]
Unset == [text |-> "unset", n |-> 0, unit |-> "bare"]

(* str::parse to an unsigned integer of which max is the largest.          *)
ParseNumber(s, max) ==
    IF s.text = "number" /\ s.unit = "bare" /\ s.n \in 0..max THEN s.n
    ELSE Invalid

(* A bug of parse_duration: the multiplication wraps.                      *)
ParseDurationWraps(s) ==
    IF /\ s.text = "number" /\ s.unit \in DOMAIN UnitSeconds
       /\ s.n \in 0..MaxInt
    THEN (s.n * UnitSeconds[s.unit]) % (MaxSeconds + 1)
    ELSE Invalid

(* parse_duration: a unit is required; parse, checked_mul and try_seconds  *)
(* refuse what does not fit.                                               *)
ParseDuration(s) ==
    IF /\ s.text = "number" /\ s.unit \in DOMAIN UnitSeconds
       /\ s.n \in 0..MaxInt
       /\ s.n * UnitSeconds[s.unit] <= MaxInt
       /\ s.n * UnitSeconds[s.unit] <= MaxSeconds
    THEN s.n * UnitSeconds[s.unit]
    ELSE Invalid

OrDefault(s, n, unit) ==
    IF s.text = "unset" THEN [text |-> "number", n |-> n, unit |-> unit]
    ELSE s

(* parse_runtime_options: attempts are a u32 and at least 1.               *)
SubmissionAttempts(s) ==
    LET n == ParseNumber(OrDefault(s, 3, "bare"), PowerOfTwo(Width) - 1)
    IN  IF n = Invalid THEN Invalid ELSE Max({n, 1})
SubmissionBackoff(s) == ParseNumber(OrDefault(s, 100, "bare"), MaxUnsigned)

(* async_dispatch_capacity, nonempty_env: unset or empty is the default,   *)
(* zero an error.                                                          *)
DispatchCapacity(s) ==
    IF s.text \in {"unset", "empty"} THEN 1024
    ELSE IF ParseNumber(s, MaxUnsigned) = 0 THEN Invalid
    ELSE ParseNumber(s, MaxUnsigned)

(* parse_request_timeout: zero turns the timeout off.                      *)
RequestTimeout(s) ==
    LET n == ParseNumber(OrDefault(s, 30, "bare"), MaxUnsigned)
    IN  IF n = 0 THEN NoBound ELSE n

(* The words that turn a retention bound off.                              *)
TurnsOff(s) ==
    \/ s.text \in {"unset", "empty", "off"}
    \/ s.text = "number" /\ s.n = 0 /\ s.unit = "bare"

(* parse_bound_duration, parse_bound_number.                               *)
BoundDuration(s) == IF TurnsOff(s) THEN NoBound ELSE ParseDuration(s)
BoundNumber(s) ==
    IF TurnsOff(s) THEN NoBound ELSE ParseNumber(s, MaxUnsigned)

(* auto_retention_from_env: grace and count have defaults.                 *)
AutoRetention(grace, age, count, bytes) ==
    [grace |-> BoundDuration(OrDefault(grace, 24, "h")),
     maxAge |-> BoundDuration(age),
     maxCount |-> BoundNumber(OrDefault(count, 1000000, "bare")),
     maxBytes |-> BoundNumber(bytes)]

(* retention_interval_from_env: no word turns it off.                      *)
RetentionInterval(s) == ParseDuration(OrDefault(s, 5, "m"))
=============================================================================
