------------------------------ MODULE Decisions ------------------------------
(***************************************************************************)
(* The pure decisions of the program against declarative definitions:      *)
(* retention (Retention), settings and back-off (Settings), trigger        *)
(* configurations (Conditions) and event chains (Envelope).  A behaviour   *)
(* is one case: a log that is swept, and swept again later, a setting used *)
(* for one retry after another, a configuration, or a chain of events that *)
(* grows.                                                                  *)
(***************************************************************************)
EXTENDS Retention, Settings, Conditions, Envelope, FiniteSets

CONSTANTS
    MaxLen,         \* bound: records in a log
    MaxSize,        \* bound: serialized length of a record
    MaxTime,        \* bound: timestamps and ages
    Policies,       \* automatic retention policies
    RawSettings,    \* settings as they are written
    MaxRetry,       \* bound: retries of one submission
    Configurations, \* trigger configurations
    ChainIds,       \* the ids of the events of a chain, in their order
    Metadatas       \* metadata that callers may send

ASSUME DecisionsAssumption ==
    /\ MaxLen \in Nat /\ MaxSize \in Nat /\ MaxTime \in Nat /\ MaxRetry \in Nat
    /\ Policies \subseteq AutoPolicies
    /\ RawSettings \subseteq RawTexts
    /\ Configurations \subseteq
          Seq([name : Nat, priority : Int, enabled : BOOLEAN,
               condition : MatchSpecs])
    /\ \A entries \in Configurations :
          \A i \in DOMAIN entries : entries[i].name = i
    /\ ChainIds \in Seq(STRING \ {None}) \ {<<>>}
    /\ Metadatas \subseteq
          [trace : STRING, correlation : STRING, tenant : STRING, key : STRING,
           causation : STRING]

VARIABLES
    log,       \* the records before the sweep
    delivered, \* ids of delivered events
    policy,    \* the automatic retention policy
    now,       \* the time of the sweep
    kept,      \* the result of the sweep; the log itself before it ran
    setting,   \* one raw setting
    retry,     \* the retry that the back-off is for
    config,    \* a trigger configuration; an entry is named by its place
    chain      \* events of a chain: [event, cause], cause 0 for the first

sweepVars == <<log, delivered, policy, now, kept>>
vars == <<log, delivered, policy, now, kept, setting, retry, config, chain>>

(* Record i of a log has id i; timestamps need not follow append order,    *)
(* since an event takes its timestamp when it is created.                  *)
LogsOf(n) ==
    {s \in [1..n -> [id : 1..n, ts : 0..MaxTime, size : 1..MaxSize]] :
        \A i \in 1..n : s[i].id = i}

SweepCase ==
    /\ \E n \in 0..MaxLen : log \in LogsOf(n)
    /\ delivered \in {{}, {1}, {2, 3}}
    /\ policy \in Policies
NoSweepCase ==
    /\ log = <<>> /\ delivered = {}
    /\ policy = [grace |-> NoBound, maxAge |-> NoBound, maxCount |-> NoBound,
                 maxBytes |-> NoBound]

Init ==
    /\ \/ SweepCase /\ setting = Unset /\ config = <<>> /\ chain = <<>>
       \/ NoSweepCase /\ setting \in RawSettings /\ config = <<>>
             /\ chain = <<>>
       \/ NoSweepCase /\ setting = Unset /\ config \in Configurations
             /\ chain = <<>>
       \/ /\ NoSweepCase /\ setting = Unset /\ config = <<>>
          /\ \E e \in Originating(ChainIds[1], Metadatas) :
                chain = <<[event |-> e, cause |-> 0]>>
    /\ kept = log /\ now = MaxTime /\ retry = 0

Sweep ==
    /\ kept' = RetainEvents(kept, delivered, policy, now)
    /\ kept' # kept
    /\ UNCHANGED <<log, delivered, policy, now, setting, retry, config, chain>>

Later ==
    /\ log # <<>>
    /\ now = MaxTime
    /\ now' = MaxTime + 1
    /\ UNCHANGED <<log, delivered, policy, kept, setting, retry, config, chain>>

Retry ==
    /\ setting # Unset
    /\ retry < MaxRetry
    /\ retry' = retry + 1
    /\ UNCHANGED <<sweepVars, setting, config, chain>>

(* A job result of any event so far is emitted as a new event.             *)
Emit ==
    /\ chain # <<>> /\ Len(chain) < Len(ChainIds)
    /\ \E i \in 1..Len(chain) :
          chain' = Append(chain,
              [event |-> FollowUp(chain[i].event, ChainIds[Len(chain) + 1]),
               cause |-> i])
    /\ UNCHANGED <<sweepVars, setting, retry, config>>

Next == Sweep \/ Later \/ Retry \/ Emit

Spec == Init /\ [][Next]_vars

-----------------------------------------------------------------------------
(* Retention.                                                              *)

(* The serialized length of all records, summed from the newest.           *)
Total(s) ==
    LET sum[n \in 0..Len(s)] ==
            IF n = 0 THEN 0 ELSE sum[n - 1] + s[Len(s) + 1 - n].size
    IN  sum[Len(s)]
SuffixesOf(s) == {SubSeq(s, i, Len(s)) : i \in 1..(Len(s) + 1)}
FitsSizes(s, p) ==
    ~Exceeds(Len(s), p.maxCount) /\ ~Exceeds(Total(s), p.maxBytes)

(* result is the longest run of newest records of s that satisfies both    *)
(* size bounds.                                                            *)
IsLongestFitting(result, s, p) ==
    /\ result \in SuffixesOf(s)
    /\ FitsSizes(result, p)
    /\ \A u \in SuffixesOf(s) : FitsSizes(u, p) => Len(u) <= Len(result)

(* What one sweep keeps is the longest run of newest records that          *)
(* satisfies both size bounds, out of the records that no age bound        *)
(* removes (the comments of retain_events and apply_size_bounds).          *)
KeepsLongestFittingSuffix ==
    IsLongestFitting(
        RetainEvents(log, delivered, policy, now),
        Filter(log, {r \in ToSet(log) :
                       OutlivesAge(r, delivered, policy, now)}),
        policy)

(* An undelivered event is removed only by a hard bound that it, or the    *)
(* newer records with it, exceeds.                                         *)
UndeliveredNeedHardBound ==
    \A i \in 1..Len(log) :
        /\ log[i].id \notin delivered
        /\ \A j \in 1..Len(kept) : kept[j] # log[i]
        => \/ Exceeds(now - log[i].ts, policy.maxAge)
           \/ ~FitsSizes(SubSeq(log, i, Len(log)), policy)

-----------------------------------------------------------------------------
(* Settings.                                                               *)

(* The first delay is the base, and each retry doubles the delay before    *)
(* it, up to the cap, also past the width of the factor and where the      *)
(* product would overflow (submission_backoff_delay).                      *)
BackoffDoublesToCap ==
    LET base == SubmissionBackoff(setting)
    IN  base # Invalid =>
            /\ BackoffDelay(0, base) = 0
            /\ BackoffDelay(1, base) = Min({base, MaxBackoff})
            /\ retry > 0 =>
                  BackoffDelay(retry + 1, base) =
                      Min({2 * BackoffDelay(retry, base), MaxBackoff})

(* A value is refused, or is what s says.                                  *)
TakesNumber(value, s) ==
    value = Invalid \/ (s.text = "number" /\ s.unit = "bare" /\ value = s.n)
TakesDuration(value, s) ==
    \/ value = Invalid
    \/ /\ s.text = "number" /\ s.unit \in DOMAIN UnitSeconds
       /\ value = s.n * UnitSeconds[s.unit]

IsZero(s) == s.text = "number" /\ s.unit = "bare" /\ s.n = 0

(* What is set is taken as it is written ...                               *)
Exact(s) ==
    /\ \/ SubmissionAttempts(s) = 1 /\ IsZero(s)
       \/ TakesNumber(SubmissionAttempts(s), s)
    /\ TakesNumber(SubmissionBackoff(s), s)
    /\ s.text = "empty" \/ TakesNumber(DispatchCapacity(s), s)
    /\ \/ RequestTimeout(s) = NoBound /\ IsZero(s)
       \/ TakesNumber(RequestTimeout(s), s)
    /\ TakesDuration(RetentionInterval(s), s)

(* ... and is what its type can hold.                                      *)
Between(value, low, high) == value = Invalid \/ value \in low..high
InRange(s) ==
    /\ Between(SubmissionAttempts(s), 1, PowerOfTwo(Width) - 1)
    /\ Between(SubmissionBackoff(s), 0, MaxUnsigned)
    /\ DispatchCapacity(s) = 1024 \/ Between(DispatchCapacity(s), 1, MaxUnsigned)
    /\ RequestTimeout(s) = NoBound \/ Between(RequestTimeout(s), 1, MaxUnsigned)
    /\ Between(RetentionInterval(s), 0, MaxSeconds)

BoundsHonoured(s) ==
    /\ BoundNumber(s) = NoBound \/ TakesNumber(BoundNumber(s), s)
    /\ BoundDuration(s) = NoBound \/ TakesDuration(BoundDuration(s), s)
    /\ BoundNumber(s) = NoBound
          <=> s.text \in {"unset", "empty", "off"} \/ IsZero(s)
    /\ BoundDuration(s) = NoBound <=> BoundNumber(s) = NoBound
    /\ LET p == AutoRetention(Unset, s, Unset, s)
       IN  /\ p.grace = 86400 /\ p.maxCount = 1000000
           /\ Invalid \notin {p.grace, p.maxAge, p.maxCount, p.maxBytes}
                 => p \in AutoPolicies

Honoured(s) ==
    (s.text = "unset" \/ Exact(s)) /\ InRange(s) /\ BoundsHonoured(s)

(* Every setting is refused or taken exactly as it is written: nothing     *)
(* wraps at the width of an integer, at the product with a unit or at the  *)
(* longest duration, nothing unreadable is replaced by a default, and no   *)
(* bound is off unless "0", "off" or nothing was written for it; zero is   *)
(* one attempt and no timeout.  With nothing set, delivered events stay a  *)
(* day and the count is a million; a policy that is not refused is one     *)
(* that the stores take (the parse functions of main.rs).                  *)
SettingsHonoured == Honoured(setting)

(* What the comment of spawn_maintenance says of its task, that it runs    *)
(* until the process exits, needs an interval that is not zero:            *)
(* tokio::time::interval panics on one.                                    *)
MaintenanceRuns == RetentionInterval(setting) # 0

-----------------------------------------------------------------------------
(* Configurations.                                                         *)

(* An event fires the enabled triggers whose condition it matches, each    *)
(* once, by descending priority and in the order of the file where         *)
(* priorities are equal, though the registry is sorted again with every    *)
(* registration (TriggerRegistry::register, matching, parse_registry).     *)
FiresInOrder ==
    \A e \in Events :
        LET fired == Matching(ParseRegistry(config), e)
            due == {i \in DOMAIN config :
                      /\ config[i].enabled
                      /\ e \in BuildCondition(config[i].condition)}
        IN  /\ {r.name : r \in ToSet(fired)} = due
            /\ Len(fired) = Cardinality(due)
            /\ \A i, j \in 1..Len(fired) : i < j =>
                  \/ fired[i].priority > fired[j].priority
                  \/ /\ fired[i].priority = fired[j].priority
                     /\ fired[i].name < fired[j].name

-----------------------------------------------------------------------------
(* Chains.                                                                 *)

(* Every event of a chain carries the correlation, tenant and trace of the *)
(* event that started it, that event's id if it had no correlation; it     *)
(* names its direct cause, and no idempotency key is handed on, which      *)
(* would make it a duplicate of its cause (follow_up).                     *)
ChainKeepsRoot ==
    chain # <<>> =>
        LET root == chain[1].event
        IN  \A i \in 2..Len(chain) :
                LET m == chain[i].event.metadata
                IN  /\ m.correlation = IF root.metadata.correlation = None
                                       THEN root.id
                                       ELSE root.metadata.correlation
                    /\ m.tenant = root.metadata.tenant
                    /\ m.trace = root.metadata.trace
                    /\ m.key = None
                    /\ m.causation = chain[chain[i].cause].event.id
=============================================================================
