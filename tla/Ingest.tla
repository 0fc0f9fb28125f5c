------------------------------- MODULE Ingest -------------------------------
(***************************************************************************)
(* The ingest pipeline of `triggerlane serve`: EventIngest, the runtime's  *)
(* handle loop and the server's life cycle.                                *)
(*                                                                         *)
(* Every POST /events is a request r that carries one event with a fresh   *)
(* id, so a request also names its event.  Handling an event is a loop     *)
(* over its matched triggers with a broker call (an await) per attempt;    *)
(* the loop is run by a worker: the request itself (synchronous mode), the *)
(* background dispatcher (asynchronous mode), the start-up recovery, or an *)
(* operator's replay request.  All workers interleave, a request future    *)
(* may be dropped at an await by the request timeout, the process may      *)
(* crash between any two steps, and every store or broker call may fail.   *)
(*                                                                         *)
(* Abstractions: an append, a dead-trigger record and a delivery mark are  *)
(* each one atomic durable step (JsonlStore and EventStore open them up);  *)
(* the event log is a set, since its order is never observed here; the     *)
(* matched triggers of an event are the constant Matches, evaluated once   *)
(* by TriggerRegistry::matching.                                           *)
(***************************************************************************)
EXTENDS Naturals, Sequences, FiniteSets

CONSTANTS
    Requests,     \* the POST /events requests; r is also the id of its event
    Keys,         \* idempotency keys
    Triggers,     \* names of registered triggers
    Operators,    \* concurrent replay requests (POST /events/{id}/replay)
    Dispatcher,   \* the background dispatcher task
    Main,         \* the serve task, which runs start-up recovery
    None,         \* absence of a key or of an event
    Key,          \* Key[r]: the event's idempotency key, or None
    Matches,      \* Matches[r]: the matched trigger names, in registry order
    Broken,       \* triggers whose binding fails or whose lane is invalid
    Async,        \* TRUE when TRIGGERLANE_ASYNC_DISPATCH is enabled
    Capacity,     \* capacity of the dispatch channel
    MaxAttempts,  \* RuntimeOptions.max_submission_attempts, floored at 1
    MaxFaults,    \* bound: failing store and broker calls
    MaxStops      \* bound: crashes and graceful shutdowns

Workers == Requests \cup Operators \cup {Dispatcher, Main}

ASSUME IngestAssumption ==
    /\ Key \in [Requests -> Keys \cup {None}]
    /\ Matches \in [Requests -> Seq(Triggers)]
    /\ Broken \subseteq Triggers
    /\ None \notin Requests \cup Keys
    /\ Requests \cap Keys = {}
    /\ Requests \cap (Operators \cup {Dispatcher, Main}) = {}
    /\ Operators \cap {Dispatcher, Main} = {}
    /\ Dispatcher # Main
    /\ Async \in BOOLEAN
    /\ Capacity \in Nat \ {0}
    /\ MaxAttempts \in Nat \ {0}
    /\ MaxFaults \in Nat
    /\ MaxStops \in Nat

(* The triggers of an event are told apart by their names, which           *)
(* parse_registry leaves to the author of a configuration.                 *)
DistinctMatches ==
    \A e \in Requests : \A i, j \in 1..Len(Matches[e]) :
        Matches[e][i] = Matches[e][j] => i = j

VARIABLES
    proc,       \* life cycle of the server process
    pc,         \* pc[r]: where request r is, or how it was answered
    log,        \* retained events of the event store
    delivered,  \* ids marked delivered in the store
    retired,    \* events removed by retention (history)
    jobs,       \* the broker: state of the job of each unique key
    dead,       \* dead-trigger queue, as <<event, trigger>>
    chan,       \* the bounded dispatch channel
    work,       \* work[w]: the event worker w is handling, and how far
    pending,    \* events recover_undelivered has still to replay
    faults,     \* failing calls so far
    stops       \* process stops so far

vars == <<proc, pc, log, delivered, retired, jobs, dead, chan, work, pending,
          faults, stops>>

(* The stable identity of an event, and the unique key of a submission.    *)
Identity(e) == IF Key[e] = None THEN e ELSE Key[e]
UniqueKey(e, t) == <<Identity(e), t>>
UniqueKeys == (Requests \cup Keys) \X Triggers

InFlight == {"fresh", "handle", "send"}
Answers == {"accepted", "duplicate", "error", "timeout", "lost"}

Idle == [ev |-> None, next |-> 1, tries |-> 0]
Begin(e) == [ev |-> e, next |-> 1, tries |-> 0]

TypeOK ==
    /\ proc \in {"down", "recovering", "serving", "draining"}
    /\ pc \in [Requests -> {"new"} \cup InFlight \cup Answers]
    /\ log \subseteq Requests
    /\ delivered \subseteq Requests
    /\ retired \subseteq Requests
    /\ jobs \in [UniqueKeys -> {"none", "live", "done"}]
    /\ dead \subseteq Requests \X Triggers
    /\ chan \in Seq(Requests) /\ Len(chan) <= Capacity
    /\ work \in [Workers -> [ev : Requests \cup {None}, next : Nat \ {0},
                             tries : 0..MaxAttempts]]
    /\ pending \subseteq Requests
    /\ faults \in 0..MaxFaults
    /\ stops \in Nat

Init ==
    /\ proc = "down"
    /\ pc = [r \in Requests |-> "new"]
    /\ log = {} /\ delivered = {} /\ retired = {}
    /\ jobs = [k \in UniqueKeys |-> "none"]
    /\ dead = {}
    /\ chan = <<>>
    /\ work = [w \in Workers |-> Idle]
    /\ pending = {}
    /\ faults = 0 /\ stops = 0

Fault == faults < MaxFaults /\ faults' = faults + 1

-----------------------------------------------------------------------------
(* EventIngest::ingest and ::accept up to the append.  The look-up of the  *)
(* key and the append are two separate critical sections of the store.     *)

Retained(r) == Key[r] # None /\ \E e \in log : Key[e] = Key[r]

(* A request whose connection is open is still handled in the drain.       *)
Receive(r) ==
    /\ proc \in {"serving", "draining"}
    /\ pc[r] = "new"
    /\ pc' = [pc EXCEPT ![r] = IF Retained(r) THEN "duplicate" ELSE "fresh"]
    /\ UNCHANGED <<proc, log, delivered, retired, jobs, dead, chan, work,
                   pending, faults, stops>>

(* A bug of Store: the event is handed on without having been appended.    *)
StoreSkipped(r) ==
    /\ pc[r] = "fresh"
    /\ pc' = [pc EXCEPT ![r] = IF Async THEN "send" ELSE "handle"]
    /\ work' = IF Async THEN work ELSE [work EXCEPT ![r] = Begin(r)]
    /\ UNCHANGED <<proc, log, delivered, retired, jobs, dead, chan, pending,
                   faults, stops>>

Store(r) ==
    /\ pc[r] = "fresh"
    /\ log' = log \cup {r}
    /\ pc' = [pc EXCEPT ![r] = IF Async THEN "send" ELSE "handle"]
    /\ work' = IF Async THEN work ELSE [work EXCEPT ![r] = Begin(r)]
    /\ UNCHANGED <<proc, delivered, retired, jobs, dead, chan, pending,
                   faults, stops>>

(* A bug of StoreFails: the append's error is ignored and the request      *)
(* acknowledged.                                                           *)
StoreErrorIgnored(r) ==
    /\ pc[r] = "fresh"
    /\ Fault
    /\ pc' = [pc EXCEPT ![r] = "accepted"]
    /\ UNCHANGED <<proc, log, delivered, retired, jobs, dead, chan, work,
                   pending, stops>>

StoreFails(r) ==
    /\ pc[r] = "fresh"
    /\ Fault
    /\ pc' = [pc EXCEPT ![r] = "error"]
    /\ UNCHANGED <<proc, log, delivered, retired, jobs, dead, chan, work,
                   pending, stops>>

-----------------------------------------------------------------------------
(* Asynchronous mode: AcceptEventHandler waits for room in the channel,    *)
(* the dispatcher receives from it.                                        *)

(* A bug of Send: the channel is unbounded.                                *)
SendUnbounded(r) ==
    /\ pc[r] = "send"
    /\ chan' = Append(chan, r)
    /\ pc' = [pc EXCEPT ![r] = "accepted"]
    /\ UNCHANGED <<proc, log, delivered, retired, jobs, dead, work, pending,
                   faults, stops>>

Send(r) ==
    /\ pc[r] = "send"
    /\ Len(chan) < Capacity
    /\ chan' = Append(chan, r)
    /\ pc' = [pc EXCEPT ![r] = "accepted"]
    /\ UNCHANGED <<proc, log, delivered, retired, jobs, dead, work, pending,
                   faults, stops>>

(* The channel is closed: the dispatcher task has panicked, which counts   *)
(* as a fault.  The event is stored all the same.                          *)
SendFails(r) ==
    /\ pc[r] = "send"
    /\ Fault
    /\ pc' = [pc EXCEPT ![r] = "error"]
    /\ UNCHANGED <<proc, log, delivered, retired, jobs, dead, chan, work,
                   pending, stops>>

(* A bug of Dispatch: the event stays at the head of the channel.          *)
DispatchPeeks ==
    /\ chan # <<>>
    /\ work[Dispatcher].ev = None
    /\ work' = [work EXCEPT ![Dispatcher] = Begin(Head(chan))]
    /\ UNCHANGED <<proc, pc, log, delivered, retired, jobs, dead, chan,
                   pending, faults, stops>>

Dispatch ==
    /\ chan # <<>>
    /\ work[Dispatcher].ev = None
    /\ work' = [work EXCEPT ![Dispatcher] = Begin(Head(chan))]
    /\ chan' = Tail(chan)
    /\ UNCHANGED <<proc, pc, log, delivered, retired, jobs, dead, pending,
                   faults, stops>>

-----------------------------------------------------------------------------
(* TriggerRuntime::handle, one step per broker or store call.              *)

Handling(w) == work[w].ev # None
Matched(w) == Matches[work[w].ev]
AtTrigger(w) == Handling(w) /\ work[w].next <= Len(Matched(w))
Trigger(w) == Matched(w)[work[w].next]
Submitting(w) ==
    AtTrigger(w) /\ Trigger(w) \notin Broken /\ work[w].tries < MaxAttempts
Exhausted(w) ==
    AtTrigger(w) /\ (Trigger(w) \in Broken \/ work[w].tries = MaxAttempts)
Handled(w) == Handling(w) /\ work[w].next > Len(Matched(w))

(* The broker keeps at most one live job per unique key: enqueueing a live *)
(* key returns the existing job, enqueueing a finished one starts a new.   *)
Lands(w) ==
    jobs' = [jobs EXCEPT ![UniqueKey(work[w].ev, Trigger(w))] = "live"]

NextTrigger(w) ==
    work' = [work EXCEPT ![w] = [ev |-> @.ev, next |-> @.next + 1, tries |-> 0]]

NextAttempt(w) ==
    work' = [work EXCEPT ![w] =
               [ev |-> @.ev, next |-> @.next, tries |-> @.tries + 1]]

Enqueue(w) ==
    /\ Submitting(w)
    /\ Lands(w)
    /\ NextTrigger(w)
    /\ UNCHANGED <<proc, pc, log, delivered, retired, dead, chan, pending,
                   faults, stops>>

(* An enqueue that reports an error may or may not have reached the broker.*)
EnqueueFails(w) ==
    /\ Submitting(w)
    /\ Fault
    /\ Lands(w) \/ UNCHANGED jobs
    /\ NextAttempt(w)
    /\ UNCHANGED <<proc, pc, log, delivered, retired, dead, chan, pending,
                   stops>>

(* A bug of RecordDead: the loop stays at the trigger it dead-lettered.    *)
RecordDeadStays(w) ==
    /\ Exhausted(w)
    /\ dead' = dead \cup {<<work[w].ev, Trigger(w)>>}
    /\ UNCHANGED <<proc, pc, log, delivered, retired, jobs, chan, work,
                   pending, faults, stops>>

RecordDead(w) ==
    /\ Exhausted(w)
    /\ dead' = dead \cup {<<work[w].ev, Trigger(w)>>}
    /\ NextTrigger(w)
    /\ UNCHANGED <<proc, pc, log, delivered, retired, jobs, chan, pending,
                   faults, stops>>

(* handle or mark_delivered returned an error to worker w: the request is  *)
(* answered 500, the dispatcher only logs, recovery fails serve itself.    *)
Abort(w) ==
    /\ work' = [work EXCEPT ![w] = Idle]
    /\ pc' = IF w \in Requests THEN [pc EXCEPT ![w] = "error"] ELSE pc
    /\ proc' = IF w = Main THEN "down" ELSE proc
    /\ pending' = IF w = Main THEN {} ELSE pending
    /\ stops' = IF w = Main THEN stops + 1 ELSE stops

(* A bug of RecordDeadFails: the queue's write error is swallowed.         *)
RecordDeadErrorIgnored(w) ==
    /\ Exhausted(w)
    /\ Fault
    /\ NextTrigger(w)
    /\ UNCHANGED <<proc, pc, log, delivered, retired, jobs, dead, chan,
                   pending, stops>>

RecordDeadFails(w) ==
    /\ Exhausted(w)
    /\ Fault
    /\ Abort(w)
    /\ UNCHANGED <<log, delivered, retired, jobs, dead, chan>>

(* ingest, dispatch and recover_undelivered mark a handled event.          *)
MarkDelivered(w) ==
    /\ Handled(w)
    /\ w \notin Operators
    /\ delivered' = delivered \cup {work[w].ev}
    /\ work' = [work EXCEPT ![w] = Idle]
    /\ pc' = IF w \in Requests THEN [pc EXCEPT ![w] = "accepted"] ELSE pc
    /\ pending' = IF w = Main THEN pending \ {work[w].ev} ELSE pending
    /\ UNCHANGED <<proc, log, retired, jobs, dead, chan, faults, stops>>

MarkFails(w) ==
    /\ Handled(w)
    /\ w \notin Operators
    /\ Fault
    /\ Abort(w)
    /\ UNCHANGED <<log, delivered, retired, jobs, dead, chan>>

Step(w) ==
    \/ Enqueue(w) \/ EnqueueFails(w)
    \/ RecordDead(w) \/ RecordDeadFails(w)
    \/ MarkDelivered(w) \/ MarkFails(w)

-----------------------------------------------------------------------------
(* replay_by_id handles a retained event again and marks nothing.          *)

ReplayById(o, e) ==
    /\ proc \in {"serving", "draining"}
    /\ ~Handling(o)
    /\ e \in log
    /\ work' = [work EXCEPT ![o] = Begin(e)]
    /\ UNCHANGED <<proc, pc, log, delivered, retired, jobs, dead, chan,
                   pending, faults, stops>>

Replayed(o) ==
    /\ Handled(o)
    /\ work' = [work EXCEPT ![o] = Idle]
    /\ UNCHANGED <<proc, pc, log, delivered, retired, jobs, dead, chan,
                   pending, faults, stops>>

-----------------------------------------------------------------------------
(* The request timeout drops the handler future at an await: at a broker   *)
(* call, whose job may land all the same, or in a wait for channel room.   *)

TimeoutHandling(w) ==
    /\ Submitting(w)
    /\ Lands(w) \/ UNCHANGED jobs
    /\ work' = [work EXCEPT ![w] = Idle]
    /\ pc' = IF w \in Requests THEN [pc EXCEPT ![w] = "timeout"] ELSE pc
    /\ UNCHANGED <<proc, log, delivered, retired, dead, chan, pending, faults,
                   stops>>

TimeoutSending(r) ==
    /\ pc[r] = "send"
    /\ Len(chan) = Capacity
    /\ pc' = [pc EXCEPT ![r] = "timeout"]
    /\ UNCHANGED <<proc, log, delivered, retired, jobs, dead, chan, work,
                   pending, faults, stops>>

-----------------------------------------------------------------------------
(* Life cycle of the process.                                              *)

(* A bug of Start: the server comes up without looking for interrupted     *)
(* events.                                                                 *)
StartWithoutRecovery ==
    /\ proc = "down"
    /\ proc' = "recovering"
    /\ pending' = {}
    /\ UNCHANGED <<pc, log, delivered, retired, jobs, dead, chan, work, faults,
                   stops>>

Start ==
    /\ proc = "down"
    /\ proc' = "recovering"
    /\ pending' = log \ delivered
    /\ UNCHANGED <<pc, log, delivered, retired, jobs, dead, chan, work, faults,
                   stops>>

Recover(e) ==
    /\ proc = "recovering"
    /\ ~Handling(Main)
    /\ e \in pending
    /\ work' = [work EXCEPT ![Main] = Begin(e)]
    /\ UNCHANGED <<proc, pc, log, delivered, retired, jobs, dead, chan,
                   pending, faults, stops>>

(* A bug of Serve: traffic is taken while recovery still has work.         *)
ServeAtOnce ==
    /\ proc = "recovering"
    /\ proc' = "serving"
    /\ UNCHANGED <<pc, log, delivered, retired, jobs, dead, chan, work,
                   pending, faults, stops>>

Serve ==
    /\ proc = "recovering"
    /\ ~Handling(Main)
    /\ pending = {}
    /\ proc' = "serving"
    /\ UNCHANGED <<pc, log, delivered, retired, jobs, dead, chan, work,
                   pending, faults, stops>>

(* The volatile state dies with the process, and an unanswered request     *)
(* with its connection.                                                    *)
Stop ==
    /\ proc' = "down"
    /\ pc' = [r \in Requests |-> IF pc[r] \in InFlight THEN "lost" ELSE pc[r]]
    /\ chan' = <<>>
    /\ work' = [w \in Workers |-> Idle]
    /\ pending' = {}
    /\ stops' = stops + 1
    /\ UNCHANGED <<log, delivered, retired, jobs, dead, faults>>

Crash == proc # "down" /\ stops < MaxStops /\ Stop

Drain ==
    /\ proc = "serving"
    /\ stops < MaxStops
    /\ proc' = "draining"
    /\ UNCHANGED <<pc, log, delivered, retired, jobs, dead, chan, work,
                   pending, faults, stops>>

(* Graceful shutdown waits for the requests in flight, not for the channel *)
(* or the dispatcher.                                                      *)
Exit ==
    /\ proc = "draining"
    /\ \A r \in Requests : pc[r] \notin InFlight
    /\ \A o \in Operators : ~Handling(o)
    /\ Stop

-----------------------------------------------------------------------------
(* Automatic retention with the grace bound alone removes delivered events *)
(* (the maintenance task lives from the end of recovery on); a worklane    *)
(* worker finishes a job.                                                  *)

(* A bug of Retire: the grace bound is applied to undelivered events too.  *)
RetireUndelivered(e) ==
    /\ proc \in {"serving", "draining"}
    /\ e \in log
    /\ log' = log \ {e}
    /\ delivered' = delivered \ {e}
    /\ retired' = retired \cup {e}
    /\ UNCHANGED <<proc, pc, jobs, dead, chan, work, pending, faults, stops>>

Retire(e) ==
    /\ proc \in {"serving", "draining"}
    /\ e \in log \cap delivered
    /\ log' = log \ {e}
    /\ delivered' = delivered \ {e}
    /\ retired' = retired \cup {e}
    /\ UNCHANGED <<proc, pc, jobs, dead, chan, work, pending, faults, stops>>

Complete(k) ==
    /\ jobs[k] = "live"
    /\ jobs' = [jobs EXCEPT ![k] = "done"]
    /\ UNCHANGED <<proc, pc, log, delivered, retired, dead, chan, work,
                   pending, faults, stops>>

Next ==
    \/ \E r \in Requests :
          \/ Receive(r) \/ Store(r) \/ StoreFails(r) \/ Send(r)
          \/ SendFails(r) \/ TimeoutSending(r) \/ Recover(r) \/ Retire(r)
    \/ \E w \in Workers : Step(w)
    \/ \E w \in Requests \cup Operators : TimeoutHandling(w)
    \/ \E o \in Operators : Replayed(o) \/ \E e \in Requests : ReplayById(o, e)
    \/ Dispatch
    \/ Start \/ Serve \/ Crash \/ Drain \/ Exit
    \/ \E k \in UniqueKeys : Complete(k)

Spec == Init /\ [][Next]_vars

(* Tokio polls every ready task again, a store or broker call returns, and *)
(* the operator (or a supervisor) starts a stopped server again.  Clients, *)
(* operators, retention, workers, timeouts and crashes owe nothing.        *)
Fairness ==
    /\ \A r \in Requests :
          WF_vars(Store(r) \/ StoreFails(r)) /\ WF_vars(Send(r))
    /\ \A w \in Workers : WF_vars(Step(w))
    /\ \A o \in Operators : WF_vars(Replayed(o))
    /\ WF_vars(Dispatch)
    /\ WF_vars(Start) /\ WF_vars(Serve) /\ WF_vars(Exit)
    /\ WF_vars(\E e \in Requests : Recover(e))

FairSpec == Spec /\ Fairness

-----------------------------------------------------------------------------
(* Properties.                                                             *)

(* Worklane or the dead-trigger queue has trigger t's work for event e.    *)
Taken(e, t) == jobs[UniqueKey(e, t)] # "none" \/ <<e, t>> \in dead
AllTaken(e) == \A i \in 1..Len(Matches[e]) : Taken(e, Matches[e][i])

(* An event is marked delivered, and later retired, only after every       *)
(* trigger it matched was taken, whichever worker handled it and whatever  *)
(* failed, timed out or crashed on the way (EventIngest::ingest's comment  *)
(* on mark_delivered).                                                     *)
DeliveredMeansTaken == \A e \in delivered \cup retired : AllTaken(e)

(* No acknowledged event is lost: an accepted one is retained until it is  *)
(* delivered and retired, and a request answered "duplicate" has a stored  *)
(* or retired original with its key.                                       *)
AcknowledgedIsStored ==
    \A r \in Requests :
        /\ pc[r] = "accepted" => r \in log \cup retired
        /\ pc[r] = "duplicate" =>
              \E e \in log \cup retired : e # r /\ Key[e] = Key[r]

(* Persist-then-handle: a job at the broker or a dead-trigger record       *)
(* belongs to an event whose append succeeded first.                       *)
StoredBeforeSubmitted ==
    /\ \A k \in UniqueKeys :
          jobs[k] # "none" => \E e \in log \cup retired : Identity(e) = k[1]
    /\ \A d \in dead : d[1] \in log \cup retired

(* Once the server takes traffic, start-up recovery has delivered every    *)
(* stored event whose request was cut off by an earlier stop, and, unless  *)
(* a call failed, an accepted event still undelivered is in this process's *)
(* channel or in its dispatcher's hands.                                   *)
InHand(r) ==
    work[Dispatcher].ev = r \/ \E i \in 1..Len(chan) : chan[i] = r
RecoveredBeforeServing ==
    proc \in {"serving", "draining"} =>
        \A r \in log \ delivered :
            /\ pc[r] # "lost"
            /\ pc[r] = "accepted" /\ faults = 0 => InHand(r)

(* A synchronous 200 says the event's triggers were taken, not merely that *)
(* it was stored.                                                          *)
AnswerReportsHandling ==
    ~Async => \A r \in Requests : pc[r] = "accepted" => AllTaken(r)

(* A finished job is submitted again only by a redelivery: after a failed  *)
(* call, a stop, an operator's replay, or a second event with its key.     *)
RunsOnceUnlessRedelivered ==
    [][\A w \in Workers, k \in UniqueKeys :
          /\ jobs[k] = "done" /\ jobs'[k] = "live"
          /\ Handling(w) /\ work'[w] # work[w]
          => \/ faults > 0 \/ stops > 0 \/ Operators # {}
             \/ \E f \in log \cup retired :
                    f # work[w].ev /\ Identity(f) = k[1]]_vars

(* The pipeline implements at-least-once delivery as Delivery states it.   *)
Status ==
    [e \in Requests |->
        IF e \in log THEN IF e \in delivered THEN "delivered" ELSE "stored"
        ELSE IF e \in retired THEN "retired" ELSE "unknown"]
TakenPairs == {p \in Requests \X Triggers : Taken(p[1], p[2])}
Promise == INSTANCE Delivery WITH
    Events <- Requests,
    Ident <- [e \in Requests |-> Identity(e)],
    status <- Status,
    taken <- TakenPairs
ImplementsDelivery == Promise!Spec

(* Every request that is being processed is answered.                      *)
EveryRequestAnswered ==
    \A r \in Requests : pc[r] \in InFlight ~> pc[r] \in Answers

(* A stored event that is not in the hands of a running process is         *)
(* delivered after the next start, however the process went down.          *)
StoppedEventsDelivered ==
    \A r \in Requests : (r \in log /\ proc = "down") ~> r \in delivered

(* Without a failing call, an accepted event has all its triggers taken in *)
(* the end: by the dispatcher, or by recovery after a stop.                *)
AcceptedIsHandled ==
    \A r \in Requests : pc[r] = "accepted" /\ faults = 0 ~>
                            AllTaken(r) \/ faults > 0

(* The comment in AcceptEventHandler: a duplicate "is already stored (and  *)
(* was dispatched on its first accept)", so its original is handled.       *)
DuplicateWasDispatched ==
    \A r \in Requests : pc[r] = "duplicate" ~>
        \E e \in Requests : e # r /\ Key[e] = Key[r] /\ AllTaken(e)

(* Idempotent ingestion: no two retained events share a key.               *)
OneCopyPerKey ==
    \A e, f \in log : Key[e] # None /\ Key[e] = Key[f] => e = f
=============================================================================
