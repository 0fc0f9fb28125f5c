---------------------------- MODULE DeadTriggers ----------------------------
(***************************************************************************)
(* The life of dead-trigger records across processes: a server's handling  *)
(* and range replay record failed triggers, `dead-triggers retry` drains   *)
(* the queue and handles the drained events again, retention and `prune`   *)
(* remove records, and every process may die or fail half-way.             *)
(*                                                                         *)
(* The files are locked by the process that has them open, so there is one *)
(* process at a time.  A server runs two tasks: one that handles new       *)
(* events and one that replays for an operator.  A CLI command does one    *)
(* of them, or a retry, and exits.  Each process loads its registry when   *)
(* it starts, so the triggers may change between a failure and its retry.  *)
(*                                                                         *)
(* Abstracted: the retries of one submission (see Ingest) are one step     *)
(* that succeeds or fails; a queue operation is one step (see JsonlStore   *)
(* for its system calls), with the outcomes that matter to its records.    *)
(***************************************************************************)
EXTENDS Retention, Registry, FiniteSets

CONSTANTS
    Events,     \* event ids
    Stamp,      \* Stamp[e]: the timestamp of an event
    Type,       \* Type[e]: its event type
    Source,     \* Source[e]: its source
    Configs,    \* trigger configurations: sequences of registrations
    Ranges,     \* requested replays: [start, end, type, source]
    Policies,   \* automatic retention policies
    Times,      \* times of sweeps, and cutoffs of prunes
    None,       \* an unset filter
    Ingester, Operator, \* the two tasks
    MaxStarts,  \* bound: processes started
    MaxFailures \* bound: failing triggers and failing queue operations

Registrations == UNION {ToSet(c) : c \in Configs}
Names == {r.name : r \in Registrations}

ASSUME DeadTriggersAssumption ==
    /\ Ingester # Operator
    /\ \A c \in Configs : c \in Seq(ToSet(c))
    /\ Policies \subseteq AutoPolicies
    /\ Stamp \in [Events -> Int] /\ Times \subseteq Int
    /\ None \notin {Type[e] : e \in Events} \cup {Source[e] : e \in Events}
    /\ MaxStarts \in Nat /\ MaxFailures \in Nat

(* A trigger is known by its name; parse_registry leaves it to the author  *)
(* of a configuration to give each its own.                                *)
DistinctNames ==
    \A c \in Configs :
        \A i, j \in 1..Len(c) : c[i].name = c[j].name => i = j

VARIABLES
    log,       \* retained events, in append order
    queue,     \* dead-trigger records, in the order they were recorded
    process,   \* "none", "serve" or "cli"
    registry,  \* the running process's registrations
    task,      \* task[w]: the pass that w is in
    starts,
    failures,
    delivered, \* events marked delivered
    appended,  \* events ever appended (history)
    owed,      \* <<event, trigger>> recorded and neither submitted since, nor
               \* removed by retention, nor dropped by a registry (history)
    damaged    \* pairs that a broken-off retry pass, or a drain that failed
               \* after its truncation, took with it (history)

vars == <<log, queue, process, registry, task, starts, failures, delivered,
          appended, owed, damaged>>

Tasks == {Ingester, Operator}

Stored(e) == [id |-> e, ts |-> Stamp[e], size |-> 1]
Dead(e, t) == [id |-> e, ts |-> Stamp[e], size |-> 1, trigger |-> t]
Ids(records) == [i \in 1..Len(records) |-> records[i].id]
Pairs(q) == {<<r.id, r.trigger>> : r \in ToSet(q)}

NoReport == [drained |-> 0, events |-> 0, recovered |-> 0, stillFailed |-> 0]

(* todo begins with the event in hand, rest are its triggers not yet       *)
(* evaluated, nowFailed those that failed; drained is what a retry took.   *)
Idle == [kind |-> "idle", todo |-> <<>>, rest |-> <<>>, nowFailed |-> {},
         drained |-> <<>>, report |-> NoReport]

(* The names that the drained records say failed for event e.              *)
PreviouslyFailed(drained, e) ==
    {r.trigger : r \in {x \in ToSet(drained) : x.id = e}}

(* What a pass still answers for: drained pairs of events not yet done.    *)
Held(p) ==
    {x \in Pairs(p.drained) : Contains(p.todo, x[1])}

TypeOK ==
    /\ log \in Seq([id : Events, ts : Int, size : {1}])
    /\ queue \in Seq([id : Events, ts : Int, size : {1}, trigger : Names])
    /\ process \in {"none", "serve", "cli"}
    /\ \A w \in Tasks :
          /\ task[w].kind \in {"idle", "recover", "handle", "range", "retry"}
          /\ ToSet(task[w].todo) \subseteq Events
          /\ task[w].nowFailed \subseteq Names
          /\ task[w].kind = "idle" => task[w] = Idle
    /\ process = "none" => task = [w \in Tasks |-> Idle]
    /\ process = "cli" \/ task[Ingester].kind = "recover"
          => Idle \in {task[Ingester], task[Operator]}
    /\ starts \in 0..MaxStarts /\ failures \in 0..MaxFailures
    /\ delivered \subseteq appended /\ appended \subseteq Events
    /\ owed \cup damaged \subseteq Events \X Names

Init ==
    /\ log = <<>> /\ queue = <<>>
    /\ process = "none" /\ registry = <<>>
    /\ task = [w \in Tasks |-> Idle]
    /\ starts = 0 /\ failures = 0
    /\ delivered = {} /\ appended = {} /\ owed = {} /\ damaged = {}

(* matching(&event) is evaluated when the loop reaches an event.           *)
TriggersOfFirst(registrations, todo) ==
    IF todo = <<>> THEN <<>> ELSE Matching(registrations, Head(todo))

NewPass(kind, registrations, todo, drained) ==
    [Idle EXCEPT !.kind = kind, !.todo = todo,
                 !.rest = TriggersOfFirst(registrations, todo),
                 !.drained = drained,
                 !.report = [NoReport EXCEPT !.drained = Len(drained)]]

Begin(w, kind, registrations, todo, drained) ==
    task' = [task EXCEPT ![w] = NewPass(kind, registrations, todo, drained)]

-----------------------------------------------------------------------------
(* Processes.                                                              *)

(* A server first recovers: it handles the events that were stored and not *)
(* delivered, before maintenance and requests.                             *)
Start(kind, config) ==
    /\ process = "none" /\ starts < MaxStarts
    /\ process' = kind
    /\ registry' = LoadRegistry(config)
    /\ starts' = starts + 1
    /\ IF kind = "serve"
       THEN Begin(Ingester, "recover", registry',
                  Ids(Filter(log, {r \in ToSet(log) : r.id \notin delivered})), <<>>)
       ELSE UNCHANGED task
    /\ UNCHANGED <<log, queue, failures, delivered, appended, owed, damaged>>

(* The process goes on or exits; a process that exits forgets its registry *)
(* with the rest of its memory.                                            *)
Continue(p) ==
    /\ process' = p
    /\ registry' = IF p = "none" THEN <<>> ELSE registry

Serving == process = "serve" /\ task[Ingester].kind # "recover"

(* A bug of Crash: the passes of the dead process go on.                   *)
CrashKeepsTasks ==
    /\ process # "none"
    /\ process' = "none"
    /\ UNCHANGED <<log, queue, registry, task, starts, failures, delivered,
                   appended, owed, damaged>>

(* The process dies, or a server stops; its memory is gone.                *)
Crash ==
    /\ process # "none"
    /\ Continue("none")
    /\ task' = [w \in Tasks |-> Idle]
    /\ damaged' = damaged \cup (Held(task[Operator]) \ Pairs(queue))
    /\ UNCHANGED <<log, queue, starts, failures, delivered,
                   appended, owed>>

-----------------------------------------------------------------------------
(* Beginning a pass.                                                       *)

(* A server's two tasks run side by side; a command has one thing to do.   *)
MayBegin(w) ==
    /\ task[w] = Idle
    /\ Serving \/ (process = "cli" /\ \A v \in Tasks : task[v] = Idle)

(* A new event, of a request or of `inject`, is stored, then handled.      *)
(* `load-file` does what a series of injects does.                         *)
Handle(e) ==
    /\ MayBegin(Ingester)
    /\ e \notin appended
    /\ log' = Append(log, Stored(e))
    /\ appended' = appended \cup {e}
    /\ Begin(Ingester, "handle", registry, <<e>>, <<>>)
    /\ UNCHANGED <<queue, process, registry, starts, failures, delivered,
                   owed, damaged>>

(* ReplayFilter::matches within the half-open window.                      *)
InRange(f, e) ==
    /\ Stamp[e] >= f.start /\ Stamp[e] < f.end
    /\ f.type \in {None, Type[e]}
    /\ f.source \in {None, Source[e]}

(* preview_range: what a dry run shows and a replay handles.               *)
PreviewRange(f) == Ids(Filter(log, {r \in ToSet(log) : InRange(f, r.id)}))

ReplayRange(f) ==
    /\ MayBegin(Operator)
    /\ Begin(Operator, "range", registry, PreviewRange(f), <<>>)
    /\ UNCHANGED <<log, queue, process, registry, starts, failures, delivered,
                   appended, owed, damaged>>

(* The distinct events of the drained records, in order of first sight.    *)
FirstSeen(q) ==
    LET seen[n \in 0..Len(q)] ==
            IF n = 0 THEN <<>>
            ELSE IF Contains(seen[n - 1], q[n].id) THEN seen[n - 1]
            ELSE Append(seen[n - 1], q[n].id)
    IN  seen[Len(q)]

(* Two bugs of Order: every record counts as an event of its own, and an   *)
(* event is put in order only when it is met again.                        *)
EveryRecord(q) == Ids(q)
OnlyRepeated(q) ==
    Filter(FirstSeen(q), {e \in ToSet(Ids(q)) :
        \E i, j \in 1..Len(q) : i # j /\ q[i].id = e /\ q[j].id = e})

Order(q) == FirstSeen(q)

(* retry_dead_triggers drains the queue before it handles anything.        *)
RetryDeadTriggers ==
    /\ process = "cli" /\ MayBegin(Operator)
    /\ queue' = <<>>
    /\ Begin(Operator, "retry", registry, Order(queue), queue)
    /\ UNCHANGED <<log, process, registry, starts, failures, delivered,
                   appended, owed, damaged>>

(* The drain fails and the command exits: set_len failed and the queue is  *)
(* intact, or sync_all failed after it and the file is empty, while the    *)
(* records that were still in memory go with the process.                  *)
DrainFails ==
    /\ process = "cli" /\ MayBegin(Operator)
    /\ failures < MaxFailures
    /\ failures' = failures + 1
    /\ Continue("none")
    /\ \/ UNCHANGED <<queue, damaged>>
       \/ queue' = <<>> /\ damaged' = damaged \cup Pairs(queue)
    /\ UNCHANGED <<log, task, starts, delivered, appended, owed>>

-----------------------------------------------------------------------------
(* handle: the triggers of the event in hand, one by one.                  *)

InHand(w) == <<Head(task[w].todo), Head(task[w].rest).name>>

Submit(w) ==
    /\ task[w].rest # <<>>
    /\ task' = [task EXCEPT ![w].rest = Tail(@)]
    /\ owed' = owed \ {InHand(w)}
    /\ damaged' = damaged \ {InHand(w)}
    /\ UNCHANGED <<log, queue, process, registry, starts, failures, delivered,
                   appended>>

(* The binding rejects the event or the last attempt fails.                *)
Fail(w) ==
    /\ task[w].rest # <<>> /\ failures < MaxFailures
    /\ failures' = failures + 1
    /\ queue' = Append(queue, Dead(InHand(w)[1], InHand(w)[2]))
    /\ owed' = owed \cup {InHand(w)}
    /\ damaged' = damaged \ {InHand(w)}
    /\ task' = [task EXCEPT ![w].rest = Tail(@),
                            ![w].nowFailed = @ \cup {InHand(w)[2]}]
    /\ UNCHANGED <<log, process, registry, starts, delivered, appended>>

(* An error ends the pass: recording the failure fails too, or marking the *)
(* event delivered.  A CLI command and a recovering server exit with it.   *)
HandlingFails(w) ==
    /\ task[w].todo # <<>>
    /\ task[w].rest # <<>> \/ w = Ingester
    /\ failures < MaxFailures
    /\ failures' = failures + 1
    /\ damaged' = damaged \cup (Held(task[w]) \ Pairs(queue))
    /\ task' = [task EXCEPT ![w] = Idle]
    /\ Continue(IF Serving THEN process ELSE "none")
    /\ UNCHANGED <<log, queue, starts, delivered, appended, owed>>

(* The report after an event of which the triggers in before had failed    *)
(* and those in nowFailed fail now.                                        *)
Tally(report, before, nowFailed) ==
    [report EXCEPT !.events = @ + 1,
                   !.stillFailed = @ + Cardinality(before \cap nowFailed),
                   !.recovered = @ + Cardinality(before \ nowFailed)]

(* handle returns its report, and the event is delivered unless this is an *)
(* operator's pass, which marks nothing; a retry compares the names that   *)
(* failed before with those that failed now.                               *)
Account(w, nowFailed) ==
    LET p == task[w]
        e == Head(p.todo)
        before == PreviouslyFailed(p.drained, e)
        matched == {r.name : r \in ToSet(Matching(registry, e))}
    IN  /\ p.todo # <<>> /\ p.rest = <<>>
        /\ task' = [task EXCEPT ![w] =
               [p EXCEPT !.todo = Tail(@),
                         !.rest = TriggersOfFirst(registry, Tail(p.todo)),
                         !.nowFailed = nowFailed,
                         !.report = Tally(@, before, p.nowFailed)]]
        /\ delivered' = delivered \cup (IF w = Ingester THEN {e} ELSE {})
        /\ owed' = owed \ {<<e, t>> : t \in before \ matched}
        /\ UNCHANGED <<log, queue, process, registry, starts, failures,
                       appended, damaged>>

(* A bug of NextEvent: the failures of one event count for the next too.   *)
KeepFailures(w) == Account(w, task[w].nowFailed)

NextEvent(w) == Account(w, {})

(* A CLI command exits when its pass is done, a server goes on.            *)
Finish(w) ==
    /\ task[w].kind # "idle" /\ task[w].todo = <<>>
    /\ task' = [task EXCEPT ![w] = Idle]
    /\ Continue(IF process = "cli" THEN "none" ELSE process)
    /\ UNCHANGED <<log, queue, starts, failures, delivered, appended, owed,
                   damaged>>

(* The request timeout drops a server's handling or replay.                *)
Timeout(w) ==
    /\ Serving /\ task[w] # Idle
    /\ task' = [task EXCEPT ![w] = Idle]
    /\ UNCHANGED <<log, queue, process, registry, starts, failures, delivered,
                   appended, owed, damaged>>

-----------------------------------------------------------------------------
(* Removal of records.                                                     *)

Discard(q) ==
    /\ queue' = q
    /\ owed' = owed \ (Pairs(queue) \ Pairs(q))

(* One tick of the maintenance task: the event store, then the queue; an   *)
(* error ends the tick, after the first or before it.                      *)
Maintain(p, now) ==
    /\ Serving /\ ~IsUnbounded(p)
    /\ log' = RetainEvents(log, delivered, p, now)
    /\ \/ Discard(RetainDeadTriggers(queue, p, now))
       \/ UNCHANGED <<queue, owed>>
    /\ UNCHANGED <<process, registry, task, starts, failures, delivered,
                   appended, damaged>>

(* `triggerlane prune`: both files, with one policy.                       *)
Prune ==
    /\ process = "none"
    /\ \/ \E n \in 0..Len(queue) :
             /\ log' = KeepMostRecent(log, n)
             /\ Discard(KeepMostRecent(queue, n))
       \/ \E cutoff \in Times :
             /\ log' = KeepOlderThan(log, cutoff)
             /\ Discard(KeepOlderThan(queue, cutoff))
    /\ UNCHANGED <<process, registry, task, starts, failures, delivered,
                   appended, damaged>>

-----------------------------------------------------------------------------
Advance(w) ==
    Submit(w) \/ Fail(w) \/ HandlingFails(w) \/ NextEvent(w) \/ Finish(w)

Next ==
    \/ \E kind \in {"serve", "cli"}, config \in Configs : Start(kind, config)
    \/ Crash
    \/ \E e \in Events : Handle(e)
    \/ \E f \in Ranges : ReplayRange(f)
    \/ RetryDeadTriggers \/ DrainFails
    \/ \E w \in Tasks : Advance(w) \/ Timeout(w)
    \/ \E p \in Policies, now \in Times : Maintain(p, now)
    \/ Prune

Spec == Init /\ [][Next]_vars

-----------------------------------------------------------------------------
(* No dead trigger is forgotten: a recorded failure stays in the queue, or *)
(* in the hands of a running retry pass, until its trigger was submitted,  *)
(* its record was removed by retention, or a retry found that no           *)
(* registered trigger matches it any more.  There are two exceptions, and  *)
(* damaged holds exactly their pairs: a retry pass that is broken off, by  *)
(* a crash or by an error of the queue, loses the records of the events it *)
(* had not finished, since retry_dead_triggers drains the queue first; and *)
(* a drain that fails after its truncation loses them all.                 *)
NoneForgotten ==
    owed \ damaged \subseteq Pairs(queue) \cup Held(task[Operator])

(* A retry pass has handled its last event and is about to report.         *)
RetryDone == task[Operator].kind = "retry" /\ task[Operator].todo = <<>>

(* A retry handles each distinct event once, so what it leaves in the      *)
(* queue holds one record per event and trigger, whatever duplicates       *)
(* replays had left there (comment in retry_dead_triggers).                *)
RetryLeavesNoDuplicates == RetryDone => IsInjective(queue)

(* The report of a completed retry speaks of the queue it leaves: of the   *)
(* distinct pairs drained, still_failed counts those that are back in the  *)
(* queue and recovered the others; and where no pair was drained twice,    *)
(* the two counts partition the drained records.                           *)
Twice(q) ==
    \E i, j \in 1..Len(q) :
        i < j /\ q[i].id = q[j].id /\ q[i].trigger = q[j].trigger

RetryReportMatchesQueue ==
    RetryDone =>
        LET p == task[Operator]
            taken == Pairs(p.drained)
        IN  /\ p.report.stillFailed = Cardinality(taken \cap Pairs(queue))
            /\ p.report.recovered = Cardinality(taken \ Pairs(queue))
            /\ ~Twice(p.drained) =>
                  p.report.recovered + p.report.stillFailed = Len(p.drained)

(* What the documentation of the report says: recovered and still_failed   *)
(* partition the drained records.                                          *)
RetryReportPartitions ==
    RetryDone =>
        LET p == task[Operator]
        IN  p.report.recovered + p.report.stillFailed = p.report.drained
=============================================================================
