---------------------------- MODULE IngestProofs ----------------------------
(***************************************************************************)
(* Machine-checked proofs about Ingest, for any number of requests, keys,  *)
(* triggers, operators, attempts, faults and stops.                        *)
(***************************************************************************)
EXTENDS Ingest, TLAPS

(* The unique key that handle builds from an event and a trigger name is   *)
(* one the broker can hold.                                                *)
LEMMA UniqueKeyType ==
    ASSUME NEW e \in Requests, NEW t \in Triggers
    PROVE  Identity(e) \in Requests \cup Keys /\ UniqueKey(e, t) \in UniqueKeys
BY IngestAssumption DEF Identity, UniqueKey, UniqueKeys

(* A trigger that a worker is at is a registered trigger.                  *)
LEMMA AtTriggerType ==
    ASSUME TypeOK, NEW w \in Workers, AtTrigger(w)
    PROVE  /\ work[w].ev \in Requests
           /\ work[w].next \in 1..Len(Matches[work[w].ev])
           /\ Trigger(w) = Matches[work[w].ev][work[w].next]
           /\ Trigger(w) \in Triggers
           /\ UniqueKey(work[w].ev, Trigger(w)) \in UniqueKeys
<1>1. /\ work[w].ev \in Requests
      /\ work[w].next \in Nat \ {0}
  BY DEF TypeOK, AtTrigger, Handling
<1>2. Matches[work[w].ev] \in Seq(Triggers)
  BY <1>1, IngestAssumption
<1>3. work[w].next \in 1..Len(Matches[work[w].ev])
  BY <1>1, <1>2 DEF AtTrigger, Matched
<1>4. Trigger(w) = Matches[work[w].ev][work[w].next] /\ Trigger(w) \in Triggers
  BY <1>2, <1>3 DEF Trigger, Matched
<1>. QED  BY <1>1, <1>3, <1>4, UniqueKeyType

-----------------------------------------------------------------------------
(* Type correctness.                                                       *)

(* The server starts with well-typed state.                                *)
LEMMA InitTypeOK == Init => TypeOK
BY IngestAssumption DEF Init, TypeOK, Idle

(* Every broker or store call of the handle loop keeps the types.          *)
LEMMA StepTypeOK ==
    ASSUME TypeOK, NEW w \in Workers, Step(w) \/ TimeoutHandling(w)
    PROVE  TypeOK'
<1>0. work[w] \in [ev : Requests \cup {None}, next : Nat \ {0},
                   tries : 0..MaxAttempts]
  BY DEF TypeOK
<1>1. ASSUME Submitting(w), Lands(w)
      PROVE  jobs' \in [UniqueKeys -> {"none", "live", "done"}]
  BY <1>1, AtTriggerType DEF Submitting, Lands, TypeOK
<1>2. Idle \in [ev : Requests \cup {None}, next : Nat \ {0},
                tries : 0..MaxAttempts]
  BY IngestAssumption DEF Idle
<1>3. ASSUME NextTrigger(w)
      PROVE  work' \in [Workers -> [ev : Requests \cup {None},
                            next : Nat \ {0}, tries : 0..MaxAttempts]]
  BY <1>0, <1>3, IngestAssumption DEF NextTrigger, TypeOK
<1>4. CASE Enqueue(w)
  BY <1>1, <1>3, <1>4 DEF Enqueue, TypeOK
<1>5. CASE EnqueueFails(w)
  <2>1. work' \in [Workers -> [ev : Requests \cup {None}, next : Nat \ {0},
                               tries : 0..MaxAttempts]]
    BY <1>0, <1>5, IngestAssumption DEF EnqueueFails, NextAttempt,
         Submitting, TypeOK
  <2>2. jobs' \in [UniqueKeys -> {"none", "live", "done"}]
    BY <1>1, <1>5 DEF EnqueueFails, TypeOK
  <2>3. faults' \in 0..MaxFaults
    BY <1>5, IngestAssumption DEF EnqueueFails, Fault, TypeOK
  <2>. QED  BY <1>5, <2>1, <2>2, <2>3 DEF EnqueueFails, TypeOK
<1>6. CASE RecordDead(w)
  <2>1. <<work[w].ev, Trigger(w)>> \in Requests \X Triggers
    BY <1>6, AtTriggerType DEF RecordDead, Exhausted
  <2>. QED  BY <1>3, <1>6, <2>1 DEF RecordDead, TypeOK
<1>7. ASSUME Abort(w)
      PROVE  /\ work' \in [Workers -> [ev : Requests \cup {None},
                              next : Nat \ {0}, tries : 0..MaxAttempts]]
             /\ pc' \in [Requests -> {"new"} \cup InFlight \cup Answers]
             /\ proc' \in {"down", "recovering", "serving", "draining"}
             /\ pending' \subseteq Requests
             /\ stops' \in Nat
  BY <1>2, <1>7 DEF Abort, TypeOK, Answers
<1>8. ASSUME Fault
      PROVE  faults' \in 0..MaxFaults
  BY <1>8, IngestAssumption DEF Fault, TypeOK
<1>9. CASE RecordDeadFails(w)
  BY <1>7, <1>8, <1>9 DEF RecordDeadFails, TypeOK
<1>10. CASE MarkFails(w)
  BY <1>7, <1>8, <1>10 DEF MarkFails, TypeOK
<1>11. CASE MarkDelivered(w)
  <2>1. work[w].ev \in Requests
    BY <1>0, <1>11 DEF MarkDelivered, Handled, Handling
  <2>. QED  BY <1>2, <1>11, <2>1 DEF MarkDelivered, TypeOK, Answers
<1>12. CASE TimeoutHandling(w)
  BY <1>1, <1>2, <1>12 DEF TimeoutHandling, TypeOK, Answers
<1>. QED
  BY <1>4, <1>5, <1>6, <1>9, <1>10, <1>11, <1>12 DEF Step

(* So does every other step: requests, the bounded channel, recovery,      *)
(* retention, shutdown and crash.                                          *)
LEMMA NextTypeOK == TypeOK /\ [Next]_vars => TypeOK'
<1> SUFFICES ASSUME TypeOK, [Next]_vars PROVE TypeOK'
  OBVIOUS
<1>0. \A e \in Requests \cup {None} :
         /\ Begin(e) \in [ev : Requests \cup {None}, next : Nat \ {0},
                          tries : 0..MaxAttempts]
         /\ Idle \in [ev : Requests \cup {None}, next : Nat \ {0},
                      tries : 0..MaxAttempts]
  BY IngestAssumption DEF Begin, Idle
<1>1. ASSUME NEW r \in Requests,
             \/ Receive(r) \/ Store(r) \/ StoreFails(r) \/ SendFails(r)
             \/ Send(r)
             \/ TimeoutSending(r) \/ Recover(r) \/ Retire(r)
      PROVE  TypeOK'
  <2>1. CASE Receive(r)
    BY <2>1 DEF Receive, TypeOK, InFlight, Answers
  <2>2. CASE Store(r)
    BY <1>0, <2>2 DEF Store, TypeOK, InFlight
  <2>3. CASE StoreFails(r) \/ SendFails(r)
    <3>1. faults' \in 0..MaxFaults
      BY <2>3, IngestAssumption DEF StoreFails, SendFails, Fault, TypeOK
    <3>2. pc' = [pc EXCEPT ![r] = "error"]
      BY <2>3 DEF StoreFails, SendFails
    <3>3. UNCHANGED <<proc, log, delivered, retired, jobs, dead, chan, work,
                      pending, stops>>
      BY <2>3 DEF StoreFails, SendFails
    <3>. QED  BY <3>1, <3>2, <3>3 DEF TypeOK, Answers
  <2>4. CASE Send(r)
    <3>1. chan' \in Seq(Requests) /\ Len(chan') <= Capacity
      BY <2>4, IngestAssumption DEF Send, TypeOK
    <3>. QED  BY <2>4, <3>1 DEF Send, TypeOK, Answers
  <2>5. CASE TimeoutSending(r)
    BY <2>5 DEF TimeoutSending, TypeOK, Answers
  <2>6. CASE Recover(r)
    BY <1>0, <2>6 DEF Recover, TypeOK
  <2>7. CASE Retire(r)
    BY <2>7 DEF Retire, TypeOK
  <2>. QED  BY <1>1, <2>1, <2>2, <2>3, <2>4, <2>5, <2>6, <2>7
<1>2. ASSUME NEW w \in Workers, Step(w)
      PROVE  TypeOK'
  BY <1>2, StepTypeOK
<1>3. ASSUME NEW w \in Requests \cup Operators, TimeoutHandling(w)
      PROVE  TypeOK'
  BY <1>3, StepTypeOK DEF Workers
<1>4. ASSUME NEW o \in Operators, Replayed(o)
      PROVE  TypeOK'
  BY <1>0, <1>4 DEF Replayed, TypeOK
<1>5. ASSUME NEW o \in Operators, NEW e \in Requests, ReplayById(o, e)
      PROVE  TypeOK'
  BY <1>0, <1>5 DEF ReplayById, TypeOK
<1>6. CASE Dispatch
  <2>1. /\ Head(chan) \in Requests
        /\ Tail(chan) \in Seq(Requests)
        /\ Len(Tail(chan)) <= Capacity
    BY <1>6, IngestAssumption DEF Dispatch, TypeOK
  <2>. QED  BY <1>0, <1>6, <2>1 DEF Dispatch, TypeOK
<1>7. CASE Start
  BY <1>7 DEF Start, TypeOK
<1>8. CASE Serve
  BY <1>8 DEF Serve, TypeOK
<1>9. CASE Crash \/ Exit
  <2>1. Stop
    BY <1>9 DEF Crash, Exit
  <2>2. /\ pc' \in [Requests -> {"new"} \cup InFlight \cup Answers]
        /\ work' \in [Workers -> [ev : Requests \cup {None}, next : Nat \ {0},
                                  tries : 0..MaxAttempts]]
    BY <1>0, <2>1 DEF Stop, TypeOK, Answers
  <2>3. chan' \in Seq(Requests) /\ Len(chan') <= Capacity
    BY <2>1, IngestAssumption DEF Stop
  <2>. QED  BY <2>1, <2>2, <2>3 DEF Stop, TypeOK
<1>10. CASE Drain
  BY <1>10 DEF Drain, TypeOK
<1>11. ASSUME NEW k \in UniqueKeys, Complete(k)
       PROVE  TypeOK'
  BY <1>11 DEF Complete, TypeOK
<1>12. CASE UNCHANGED vars
  BY <1>12 DEF vars, TypeOK
<1>. QED
  BY <1>1, <1>2, <1>3, <1>4, <1>5, <1>6, <1>7, <1>8, <1>9, <1>10, <1>11,
     <1>12 DEF Next

(* Type correctness of the pipeline's state.                               *)
THEOREM TypeCorrect == Spec => []TypeOK
BY InitTypeOK, NextTypeOK, PTL DEF Spec

-----------------------------------------------------------------------------
(* The inductive invariant.  DeliveredMeansTaken is not inductive: a mark  *)
(* is right only because the worker that makes it has passed every trigger *)
(* of its event (WorkOK), for which the worker must have begun with a      *)
(* stored event, whether it took it from the request, the channel, the     *)
(* recovery list or the store (OwnEvent, QueuedOK, PcOK).  That only       *)
(* stored events are marked is what the refinement of Delivery needs.      *)

Known == log \cup retired

WorkOK ==
    \A w \in Workers : work[w].ev # None =>
        /\ work[w].ev \in Known
        /\ \A i \in 1..Len(Matches[work[w].ev]) :
              i < work[w].next => Taken(work[w].ev, Matches[work[w].ev][i])

OwnEvent == \A r \in Requests : work[r].ev \in {r, None}

QueuedOK ==
    /\ \A i \in 1..Len(chan) : chan[i] \in Known
    /\ pending \subseteq Known
    /\ delivered \subseteq Known

PcOK ==
    \A r \in Requests :
        /\ pc[r] \in {"new", "fresh"} => r \notin Known
        /\ pc[r] = "send" => Async /\ r \in Known

Inductive ==
    /\ TypeOK
    /\ WorkOK /\ OwnEvent /\ QueuedOK /\ PcOK
    /\ DeliveredMeansTaken
    /\ AcknowledgedIsStored
    /\ StoredBeforeSubmitted
    /\ AnswerReportsHandling

(* The inductive invariant holds before the first start.                   *)
LEMMA InitInductive == Init => Inductive
<1> SUFFICES ASSUME Init PROVE Inductive
  OBVIOUS
<1>1. TypeOK
  BY InitTypeOK
<1>2. WorkOK /\ OwnEvent
  BY DEF Init, WorkOK, OwnEvent, Idle, Workers
<1>3. QueuedOK /\ PcOK
  BY DEF Init, QueuedOK, PcOK, Known
<1>4. DeliveredMeansTaken /\ AcknowledgedIsStored /\ StoredBeforeSubmitted
  BY DEF Init, DeliveredMeansTaken, AcknowledgedIsStored,
         StoredBeforeSubmitted
<1>5. AnswerReportsHandling
  BY DEF Init, AnswerReportsHandling
<1>. QED  BY <1>1, <1>2, <1>3, <1>4, <1>5 DEF Inductive

(* No step forgets a stored event, a submission or a dead-letter record.   *)
LEMMA Monotone ==
    ASSUME TypeOK, [Next]_vars
    PROVE  /\ Known \subseteq Known'
           /\ \A e \in Requests, t \in Triggers : Taken(e, t) => Taken(e, t)'
<1>1. ASSUME NEW w \in Workers, Submitting(w), Lands(w)
      PROVE  \A k \in UniqueKeys : jobs[k] # "none" => jobs'[k] # "none"
  BY <1>1, AtTriggerType DEF Submitting, Lands, TypeOK
<1>2. /\ Known \subseteq Known'
      /\ dead \subseteq dead'
      /\ \A k \in UniqueKeys : jobs[k] # "none" => jobs'[k] # "none"
  <2>1. CASE \E r \in Requests :
                \/ Receive(r) \/ Store(r) \/ StoreFails(r) \/ SendFails(r)
                \/ Send(r)
                \/ TimeoutSending(r) \/ Recover(r) \/ Retire(r)
    BY <2>1 DEF Known, Receive, Store, StoreFails, SendFails, Send,
       TimeoutSending,
                Recover, Retire
  <2>2. ASSUME NEW w \in Workers, Step(w) PROVE <1>2!1 /\ <1>2!2 /\ <1>2!3
    BY <1>1, <2>2 DEF Known, Step, Enqueue, EnqueueFails, RecordDead,
                      RecordDeadFails, MarkDelivered, MarkFails
  <2>3. ASSUME NEW w \in Requests \cup Operators, TimeoutHandling(w)
        PROVE <1>2!1 /\ <1>2!2 /\ <1>2!3
    BY <1>1, <2>3 DEF Known, TimeoutHandling, Workers
  <2>4. ASSUME NEW k \in UniqueKeys, Complete(k)
        PROVE <1>2!1 /\ <1>2!2 /\ <1>2!3
    BY <2>4 DEF Known, Complete, TypeOK
  <2>5. CASE \/ Dispatch \/ Start \/ Serve \/ Crash \/ Drain \/ Exit
             \/ \E o \in Operators :
                   Replayed(o) \/ \E e \in Requests : ReplayById(o, e)
             \/ UNCHANGED vars
    BY <2>5 DEF Known, Dispatch, Start, Serve, Crash, Drain, Exit, Stop,
                Replayed, ReplayById, vars
  <2>. QED  BY <2>1, <2>2, <2>3, <2>4, <2>5 DEF Next
<1>. QED  BY <1>2, UniqueKeyType DEF Taken

(* Taken in the next state, for an event and a trigger of this state.      *)
TakenNext(e, t) == jobs'[UniqueKey(e, t)] # "none" \/ <<e, t>> \in dead'

(* What a step does to worker v: leave it, stop it, start it on a stored   *)
(* event, try again, or move past a trigger that is now taken.             *)
Resumes(v) == work'[v].ev = work[v].ev /\ work'[v].next = work[v].next
Begins(v) == \E e \in Known' : work'[v] = Begin(e) /\ (v \in Requests => e = v)
Advances(v) ==
    /\ AtTrigger(v)
    /\ work'[v].ev = work[v].ev
    /\ work'[v].next = work[v].next + 1
    /\ TakenNext(work[v].ev, Trigger(v))

Effect(v) == work'[v] = Idle \/ Resumes(v) \/ Begins(v) \/ Advances(v)

(* What one step can do to a worker: leave it, end its work, begin a       *)
(* stored event, or advance it past a trigger that was taken.              *)
LEMMA WorkerEffect ==
    ASSUME Inductive, Next, NEW v \in Workers
    PROVE  Effect(v)
<1>0. TypeOK
  BY DEF Inductive
<1>1. ASSUME NEW r \in Requests, Store(r) PROVE Effect(v)
  <2>1. CASE Async \/ v # r
    BY <1>0, <1>1, <2>1 DEF Effect, Store, TypeOK, Resumes
  <2>2. CASE ~Async /\ v = r
    <3>1. work'[v] = Begin(r)
      BY <1>0, <1>1, <2>2 DEF Store, TypeOK
    <3>. QED  BY <1>1, <2>2, <3>1 DEF Effect, Begins, Store, Known
  <2>. QED  BY <2>1, <2>2
<1>2. ASSUME NEW w \in Workers, Step(w) PROVE Effect(v)
  <2>1. CASE v # w
    BY <1>0, <1>2, <2>1 DEF Effect, Step, Enqueue, EnqueueFails, RecordDead,
       RecordDeadFails, MarkDelivered, MarkFails, NextTrigger, NextAttempt,
       Abort, TypeOK, Resumes
  <2>2. ASSUME v = w, NextTrigger(w)
        PROVE  work'[v].ev = work[v].ev /\ work'[v].next = work[v].next + 1
    BY <1>0, <2>2 DEF NextTrigger, TypeOK
  <2>3. CASE v = w /\ Enqueue(w)
    <3>1. AtTrigger(v)
      BY <2>3 DEF Enqueue, Submitting
    <3>2. TakenNext(work[v].ev, Trigger(v))
      BY <1>0, <2>3, <3>1, AtTriggerType DEF Enqueue, Lands, TypeOK, TakenNext
    <3>. QED  BY <2>2, <2>3, <3>1, <3>2 DEF Effect, Enqueue, Advances
  <2>4. CASE v = w /\ EnqueueFails(w)
    BY <1>0, <2>4 DEF Effect, EnqueueFails, NextAttempt, TypeOK, Resumes
  <2>5. CASE v = w /\ RecordDead(w)
    <3>1. AtTrigger(v) /\ TakenNext(work[v].ev, Trigger(v))
      BY <2>5 DEF RecordDead, Exhausted, TakenNext
    <3>. QED  BY <2>2, <2>5, <3>1 DEF Effect, RecordDead, Advances
  <2>6. CASE v = w /\ (\/ RecordDeadFails(w) \/ MarkDelivered(w)
                       \/ MarkFails(w))
    BY <1>0, <2>6 DEF Effect, RecordDeadFails, MarkDelivered, MarkFails, Abort,
                      TypeOK
  <2>. QED  BY <1>2, <2>1, <2>3, <2>4, <2>5, <2>6 DEF Step
<1>3. ASSUME NEW w \in Requests \cup Operators, TimeoutHandling(w) PROVE Effect(v)
  BY <1>0, <1>3 DEF Effect, TimeoutHandling, TypeOK, Resumes
<1>4. ASSUME NEW e \in Known, Known \subseteq Known',
             NEW u \in Workers \ Requests,
             work' = [work EXCEPT ![u] = Begin(e)]
      PROVE  Effect(v)
  BY <1>0, <1>4 DEF Effect, TypeOK, Begins, Resumes
<1>5. ASSUME NEW r \in Requests, Recover(r) PROVE Effect(v)
  <2>1. r \in Known /\ Known \subseteq Known'
    BY <1>5 DEF Recover, Inductive, QueuedOK, Known
  <2>. QED  BY <1>4, <1>5, <2>1, IngestAssumption DEF Recover, Workers
<1>6. ASSUME NEW o \in Operators, NEW e \in Requests, ReplayById(o, e)
      PROVE  Effect(v)
  <2>1. e \in Known /\ Known \subseteq Known'
    BY <1>6 DEF ReplayById, Known
  <2>. QED  BY <1>4, <1>6, <2>1, IngestAssumption DEF ReplayById, Workers
<1>7. CASE Dispatch
  <2>1. Head(chan) \in Known /\ Known \subseteq Known'
    BY <1>0, <1>7 DEF Dispatch, Inductive, QueuedOK, TypeOK, Known
  <2>2. Dispatcher \in Workers \ Requests
    BY IngestAssumption DEF Workers
  <2>3. work' = [work EXCEPT ![Dispatcher] = Begin(Head(chan))]
    BY <1>7 DEF Dispatch
  <2>. QED  BY <1>4, <2>1, <2>2, <2>3
<1>8. ASSUME NEW o \in Operators, Replayed(o) PROVE Effect(v)
  BY <1>0, <1>8 DEF Effect, Replayed, TypeOK, Resumes
<1>9. CASE Crash \/ Exit
  BY <1>9 DEF Effect, Crash, Exit, Stop
<1>10. CASE \/ \E r \in Requests :
                  \/ Receive(r) \/ StoreFails(r) \/ SendFails(r) \/ Send(r)
                  \/ TimeoutSending(r) \/ Retire(r)
            \/ Start \/ Serve \/ Drain
            \/ \E k \in UniqueKeys : Complete(k)
  BY <1>10 DEF Effect, Resumes, Receive, StoreFails, SendFails, Send,
     TimeoutSending,
               Retire, Start, Serve, Drain, Complete
<1>. QED
  BY <1>1, <1>2, <1>3, <1>5, <1>6, <1>7, <1>8, <1>9, <1>10 DEF Next

(* Every worker handles a stored event, and the triggers behind it in its  *)
(* loop were taken.                                                        *)
LEMMA WorkPreserved ==
    ASSUME Inductive, [Next]_vars PROVE WorkOK' /\ OwnEvent'
<1>1. TypeOK
  BY DEF Inductive
<1>2. CASE UNCHANGED vars
  BY <1>2 DEF vars, Inductive, WorkOK, OwnEvent, Known, Taken
<1>3. CASE Next
  <2>0. \A e \in Requests : \A i \in 1..Len(Matches[e]) :
           Matches[e][i] \in Triggers
    BY IngestAssumption
  <2>1. \A e \in Requests, t \in Triggers : Taken(e, t) => TakenNext(e, t)
    BY <1>1, Monotone DEF Taken, TakenNext
  <2>2. ASSUME NEW v \in Workers, work'[v].ev # None
        PROVE  /\ work'[v].ev \in Known'
               /\ \A i \in 1..Len(Matches[work'[v].ev]) :
                    i < work'[v].next =>
                       TakenNext(work'[v].ev, Matches[work'[v].ev][i])
    <3>1. work[v].next \in Nat \ {0}
      BY <1>1 DEF TypeOK
    <3>2. ASSUME work[v].ev # None
          PROVE  /\ work[v].ev \in Requests
                 /\ work[v].ev \in Known'
                 /\ \A i \in 1..Len(Matches[work[v].ev]) :
                      i < work[v].next =>
                         TakenNext(work[v].ev, Matches[work[v].ev][i])
      <4>1. work[v].ev \in Requests
        BY <1>1, <3>2 DEF TypeOK
      <4>. QED
        BY <1>1, <2>0, <2>1, <3>2, <4>1, Monotone DEF Inductive, WorkOK
    <3>3. CASE Resumes(v)
      BY <2>2, <3>2, <3>3 DEF Resumes
    <3>4. CASE work'[v] = Idle
      BY <2>2, <3>4 DEF Idle
    <3>5. CASE Begins(v)
      <4>1. PICK e \in Known' : work'[v] = Begin(e)
        BY <3>5 DEF Begins
      <4>2. work'[v].ev = e /\ work'[v].next = 1
        BY <4>1 DEF Begin
      <4>. QED  BY <4>2
    <3>6. CASE Advances(v)
      <4>1. /\ work'[v].ev = work[v].ev
            /\ work'[v].next = work[v].next + 1
            /\ AtTrigger(v)
            /\ TakenNext(work[v].ev, Matches[work[v].ev][work[v].next])
        BY <3>6 DEF Advances, Trigger, Matched
      <4>. QED  BY <2>2, <3>1, <3>2, <4>1
    <3>. QED  BY <1>3, <3>3, <3>4, <3>5, <3>6, WorkerEffect DEF Effect
  <2>3. ASSUME NEW r \in Requests PROVE work'[r].ev \in {r, None}
    <3>1. r \in Workers /\ work[r].ev \in {r, None}
      BY DEF Workers, Inductive, OwnEvent
    <3>2. /\ work'[r] = Idle => work'[r].ev = None
          /\ work'[r] = Begin(r) => work'[r].ev = r
      BY DEF Idle, Begin
    <3>. QED  BY <1>3, <3>1, <3>2, WorkerEffect
              DEF Effect, Resumes, Begins, Advances
  <2>4. WorkOK'
    BY <2>2 DEF WorkOK, Taken, TakenNext
  <2>5. OwnEvent'
    BY <2>3 DEF OwnEvent
  <2>. QED  BY <2>4, <2>5
<1>. QED  BY <1>2, <1>3

(* The dispatch channel, the recovery list and the delivery marks hold     *)
(* stored events only.                                                     *)
LEMMA QueuedPreserved ==
    ASSUME Inductive, [Next]_vars PROVE QueuedOK'
<1>0. TypeOK /\ Known \subseteq Known'
  BY Monotone DEF Inductive
<1>1. /\ \A i \in 1..Len(chan) : chan[i] \in Known'
      /\ pending \subseteq Known'
      /\ delivered \subseteq Known'
  BY <1>0 DEF Inductive, QueuedOK
<1>2. ASSUME NEW r \in Requests, Send(r) PROVE QueuedOK'
  <2>1. r \in Known'
    BY <1>0, <1>2 DEF Send, Inductive, PcOK
  <2>2. /\ chan' = Append(chan, r)
        /\ pending' = pending /\ delivered' = delivered
    BY <1>2 DEF Send
  <2>3. \A i \in 1..Len(chan') : chan'[i] \in Known'
    BY <1>0, <1>1, <2>1, <2>2 DEF TypeOK
  <2>. QED  BY <1>1, <2>2, <2>3 DEF QueuedOK
<1>3. CASE Dispatch
  <2>1. /\ chan \in Seq(Requests) /\ chan # <<>>
        /\ chan' = Tail(chan)
        /\ pending' = pending /\ delivered' = delivered
    BY <1>0, <1>3 DEF Dispatch, TypeOK
  <2>2. \A i \in 1..Len(chan') : chan'[i] \in Known'
    BY <1>1, <2>1
  <2>. QED  BY <1>1, <2>1, <2>2 DEF QueuedOK
<1>4. ASSUME NEW w \in Workers, Step(w) PROVE QueuedOK'
  <2>1. chan' = chan /\ pending' \subseteq pending
    BY <1>4 DEF Step, Enqueue, EnqueueFails, RecordDead, RecordDeadFails,
                MarkDelivered, MarkFails, Abort
  <2>2. CASE MarkDelivered(w)
    <3>1. work[w].ev \in Known'
      BY <1>0, <2>2 DEF MarkDelivered, Handled, Handling, Inductive, WorkOK
    <3>2. delivered' = delivered \cup {work[w].ev}
      BY <2>2 DEF MarkDelivered
    <3>. QED  BY <1>1, <2>1, <3>1, <3>2 DEF QueuedOK
  <2>3. CASE ~MarkDelivered(w)
    <3>1. delivered' = delivered
      BY <1>4, <2>3 DEF Step, Enqueue, EnqueueFails, RecordDead,
                        RecordDeadFails, MarkFails
    <3>. QED  BY <1>1, <2>1, <3>1 DEF QueuedOK
  <2>. QED  BY <2>2, <2>3
<1>5. CASE Crash \/ Exit
  <2>1. chan' = <<>> /\ pending' = {} /\ delivered' = delivered
    BY <1>5 DEF Crash, Exit, Stop
  <2>. QED  BY <1>1, <2>1 DEF QueuedOK
<1>6. CASE Start
  <2>1. /\ chan' = chan /\ delivered' = delivered
        /\ pending' \subseteq Known /\ Known' = Known
    BY <1>6 DEF Start, Known
  <2>. QED  BY <1>1, <2>1 DEF QueuedOK
<1>7. CASE UNCHANGED <<chan, pending>> /\ delivered' \subseteq delivered
  BY <1>1, <1>7 DEF QueuedOK
<1>8. CASE \/ \E r \in Requests :
                 \/ Receive(r) \/ Store(r) \/ StoreFails(r) \/ SendFails(r)
                 \/ TimeoutSending(r) \/ Recover(r) \/ Retire(r)
           \/ \E w \in Requests \cup Operators : TimeoutHandling(w)
           \/ \E o \in Operators :
                 Replayed(o) \/ \E e \in Requests : ReplayById(o, e)
           \/ Serve \/ Drain
           \/ \E k \in UniqueKeys : Complete(k)
           \/ UNCHANGED vars
  BY <1>7, <1>8 DEF Receive, Store, StoreFails, SendFails, TimeoutSending,
     Recover,
       Retire, TimeoutHandling, Replayed, ReplayById, Serve, Drain, Complete,
       vars
<1>. QED  BY <1>2, <1>3, <1>4, <1>5, <1>6, <1>8 DEF Next

(* Once all triggers of an event were taken, they stay taken.              *)
LEMMA AllTakenStable ==
    ASSUME TypeOK, [Next]_vars, NEW e \in Requests, AllTaken(e)
    PROVE  AllTaken(e)'
<1>1. \A i \in 1..Len(Matches[e]) : Matches[e][i] \in Triggers
  BY IngestAssumption
<1>. QED  BY <1>1, Monotone DEF AllTaken

(* A worker that handled its event has all of its triggers taken.          *)
LEMMA HandledTaken ==
    ASSUME Inductive, NEW w \in Workers, Handled(w)
    PROVE  work[w].ev \in Known /\ work[w].ev \in Requests
           /\ AllTaken(work[w].ev)
<1>1. work[w].ev \in Requests /\ work[w].next \in Nat
  BY DEF Inductive, TypeOK, Handled, Handling
<1>2. Len(Matches[work[w].ev]) \in Nat
  BY <1>1, IngestAssumption
<1>. QED  BY <1>1, <1>2
          DEF Inductive, WorkOK, Handled, Handling, Matched, AllTaken

(* mark_delivered comes after the last matched trigger, and retention      *)
(* removes only delivered events.                                          *)
LEMMA DeliveredPreserved ==
    ASSUME Inductive, [Next]_vars PROVE DeliveredMeansTaken'
<1>0. TypeOK
  BY DEF Inductive
<1>1. \A e \in delivered \cup retired : e \in Requests /\ AllTaken(e)'
  BY <1>0, AllTakenStable DEF Inductive, DeliveredMeansTaken, TypeOK
<1>2. ASSUME NEW w \in Workers, Step(w)
      PROVE  DeliveredMeansTaken'
  <2>1. CASE MarkDelivered(w)
    <3>1. AllTaken(work[w].ev) /\ work[w].ev \in Requests
      BY <2>1, HandledTaken DEF MarkDelivered
    <3>2. \A e \in {work[w].ev} : AllTaken(e)'
      BY <1>0, <3>1, AllTakenStable
    <3>. QED  BY <1>1, <2>1, <3>2 DEF MarkDelivered, DeliveredMeansTaken
  <2>2. CASE ~MarkDelivered(w)
    <3>1. delivered' = delivered /\ retired' = retired
      BY <1>2, <2>2 DEF Step, Enqueue, EnqueueFails, RecordDead,
                        RecordDeadFails, MarkFails
    <3>. QED  BY <1>1, <3>1 DEF DeliveredMeansTaken
  <2>. QED  BY <2>1, <2>2
<1>3. ASSUME delivered' \cup retired' \subseteq delivered \cup retired
      PROVE  DeliveredMeansTaken'
  BY <1>1, <1>3 DEF DeliveredMeansTaken
<1>4. CASE \/ \E r \in Requests :
                 \/ Receive(r) \/ Store(r) \/ StoreFails(r) \/ SendFails(r)
                 \/ Send(r)
                 \/ TimeoutSending(r) \/ Recover(r) \/ Retire(r)
           \/ \E w \in Requests \cup Operators : TimeoutHandling(w)
           \/ \E o \in Operators :
                 Replayed(o) \/ \E e \in Requests : ReplayById(o, e)
           \/ Dispatch \/ Start \/ Serve \/ Crash \/ Drain \/ Exit
           \/ \E k \in UniqueKeys : Complete(k)
           \/ UNCHANGED vars
  <2>1. delivered' \cup retired' \subseteq delivered \cup retired
    BY <1>4 DEF Receive, Store, StoreFails, SendFails, Send, TimeoutSending,
       Recover,
         Retire, TimeoutHandling, Replayed, ReplayById, Dispatch, Start,
         Serve, Crash, Drain, Exit, Stop, Complete, vars
  <2>. QED  BY <1>3, <2>1
<1>. QED  BY <1>2, <1>4 DEF Next

(* PcOK and AcknowledgedIsStored, for one request.                         *)
AnswerOK(q) ==
    /\ pc[q] \in {"new", "fresh"} => q \notin Known
    /\ pc[q] = "send" => Async /\ q \in Known
    /\ pc[q] = "accepted" => q \in Known
    /\ pc[q] = "duplicate" => \E e \in Known : e # q /\ Key[e] = Key[q]

(* An answer of ingest or accept keeps meaning that the event, or the      *)
(* original of a duplicate, was stored.                                    *)
LEMMA AnswerPreserved ==
    ASSUME Inductive, [Next]_vars PROVE PcOK' /\ AcknowledgedIsStored'
<1>0. TypeOK /\ \A q \in Requests : AnswerOK(q)
  BY DEF Inductive, PcOK, AcknowledgedIsStored, AnswerOK, Known
<1> SUFFICES ASSUME NEW q \in Requests PROVE AnswerOK(q)'
  BY DEF PcOK, AcknowledgedIsStored, AnswerOK, Known
<1>1. ASSUME Known' = Known,
             pc'[q] \in {pc[q], "error", "timeout", "lost"}
      PROVE  AnswerOK(q)'
  BY <1>0, <1>1 DEF AnswerOK
<1>2. ASSUME NEW r \in Requests, Receive(r) PROVE AnswerOK(q)'
  <2>1. CASE q # r
    BY <1>0, <1>1, <1>2, <2>1 DEF Receive, Known, TypeOK
  <2>2. CASE q = r /\ Retained(q)
    <3>1. pc'[q] = "duplicate" /\ Known' = Known /\ q \notin Known
      BY <1>0, <1>2, <2>2 DEF Receive, Known, TypeOK, AnswerOK
    <3>. QED  BY <2>2, <3>1 DEF AnswerOK, Retained, Known
  <2>3. CASE q = r /\ ~Retained(q)
    <3>1. pc'[q] = "fresh" /\ Known' = Known /\ q \notin Known
      BY <1>0, <1>2, <2>3 DEF Receive, Known, TypeOK, AnswerOK
    <3>. QED  BY <3>1 DEF AnswerOK
  <2>. QED  BY <2>1, <2>2, <2>3
<1>3. ASSUME NEW r \in Requests, Store(r) PROVE AnswerOK(q)'
  <2>1. Known' = Known \cup {r}
    BY <1>3 DEF Store, Known
  <2>2. CASE q # r
    <3>1. pc'[q] = pc[q]
      BY <1>0, <1>3, <2>2 DEF Store, TypeOK
    <3>. QED  BY <1>0, <2>1, <2>2, <3>1 DEF AnswerOK
  <2>3. CASE q = r
    <3>1. pc'[q] = IF Async THEN "send" ELSE "handle"
      BY <1>0, <1>3, <2>3 DEF Store, TypeOK
    <3>. QED  BY <2>1, <2>3, <3>1 DEF AnswerOK
  <2>. QED  BY <2>2, <2>3
<1>4. ASSUME NEW r \in Requests, Send(r) PROVE AnswerOK(q)'
  <2>1. Known' = Known
    BY <1>4 DEF Send, Known
  <2>2. CASE q # r
    BY <1>0, <1>1, <1>4, <2>1, <2>2 DEF Send, TypeOK
  <2>3. CASE q = r
    BY <1>0, <1>4, <2>1, <2>3 DEF Send, TypeOK, AnswerOK
  <2>. QED  BY <2>2, <2>3
<1>5. ASSUME NEW w \in Workers, Step(w) PROVE AnswerOK(q)'
  <2>1. Known' = Known
    BY <1>5 DEF Step, Enqueue, EnqueueFails, RecordDead, RecordDeadFails,
                MarkDelivered, MarkFails, Known
  <2>2. CASE MarkDelivered(w) /\ q = w
    <3>1. q \in Known
      BY <2>2, HandledTaken DEF MarkDelivered, Handled, Handling, Inductive,
                                OwnEvent
    <3>2. pc'[q] = "accepted"
      BY <1>0, <2>2 DEF MarkDelivered, TypeOK
    <3>. QED  BY <2>1, <3>1, <3>2 DEF AnswerOK
  <2>3. CASE ~(MarkDelivered(w) /\ q = w)
    <3>1. pc'[q] \in {pc[q], "error"}
      BY <1>0, <1>5, <2>3 DEF Step, Enqueue, EnqueueFails, RecordDead,
           RecordDeadFails, MarkDelivered, MarkFails, Abort, TypeOK
    <3>. QED  BY <1>1, <2>1, <3>1
  <2>. QED  BY <2>2, <2>3
<1>6. CASE Crash \/ Exit
  <2>1. Known' = Known /\ pc'[q] \in {pc[q], "lost"}
    BY <1>6 DEF Crash, Exit, Stop, Known
  <2>. QED  BY <1>1, <2>1
<1>7. CASE \/ \E r \in Requests :
                 \/ StoreFails(r) \/ SendFails(r) \/ TimeoutSending(r)
                 \/ Recover(r)
                 \/ Retire(r)
           \/ \E w \in Requests \cup Operators : TimeoutHandling(w)
           \/ \E o \in Operators :
                 Replayed(o) \/ \E e \in Requests : ReplayById(o, e)
           \/ Dispatch \/ Start \/ Serve \/ Drain
           \/ \E k \in UniqueKeys : Complete(k)
           \/ UNCHANGED vars
  <2>1. Known' = Known
    BY <1>7 DEF StoreFails, SendFails, TimeoutSending, Recover, Retire,
       TimeoutHandling,
         Replayed, ReplayById, Dispatch, Start, Serve, Drain, Complete, vars,
         Known
  <2>2. pc'[q] \in {pc[q], "error", "timeout"}
    BY <1>0, <1>7 DEF StoreFails, SendFails, TimeoutSending, Recover, Retire,
         TimeoutHandling, Replayed, ReplayById, Dispatch, Start, Serve, Drain,
         Complete, vars, TypeOK
  <2>. QED  BY <1>1, <2>1, <2>2
<1>. QED  BY <1>2, <1>3, <1>4, <1>5, <1>6, <1>7 DEF Next

(* Which steps answer a request "accepted".                                *)
LEMMA AcceptedBy ==
    ASSUME Inductive, Next, NEW q \in Requests,
           pc'[q] = "accepted", pc[q] # "accepted"
    PROVE  Send(q) \/ MarkDelivered(q)
<1>0. TypeOK
  BY DEF Inductive
<1>1. ASSUME NEW r \in Requests,
             \/ Receive(r) \/ Store(r) \/ StoreFails(r) \/ SendFails(r)
             \/ Send(r)
             \/ TimeoutSending(r) \/ Recover(r) \/ Retire(r)
      PROVE  Send(q)
  BY <1>0, <1>1 DEF Receive, Store, StoreFails, SendFails, Send,
     TimeoutSending, Recover,
                    Retire, TypeOK
<1>2. ASSUME NEW w \in Workers, Step(w) PROVE MarkDelivered(q)
  <2>1. MarkDelivered(w)
    BY <1>0, <1>2 DEF Step, Enqueue, EnqueueFails, RecordDead,
         RecordDeadFails, MarkFails, Abort, TypeOK
  <2>. QED  BY <1>0, <2>1 DEF MarkDelivered, TypeOK
<1>3. ~ \E w \in Requests \cup Operators : TimeoutHandling(w)
  BY <1>0 DEF TimeoutHandling, TypeOK
<1>4. ~ (Crash \/ Exit)
  BY DEF Crash, Exit, Stop
<1>5. ~ \/ \E o \in Operators :
              Replayed(o) \/ \E e \in Requests : ReplayById(o, e)
        \/ Dispatch \/ Start \/ Serve \/ Drain
        \/ \E k \in UniqueKeys : Complete(k)
  BY DEF Replayed, ReplayById, Dispatch, Start, Serve, Drain, Complete
<1>. QED  BY <1>1, <1>2, <1>3, <1>4, <1>5 DEF Next

(* In synchronous mode an accepted answer comes from mark_delivered, after *)
(* the handle loop.                                                        *)
LEMMA ReportPreserved ==
    ASSUME Inductive, [Next]_vars PROVE AnswerReportsHandling'
<1> SUFFICES ASSUME ~Async, NEW q \in Requests, pc'[q] = "accepted"
             PROVE  AllTaken(q)'
  BY DEF AnswerReportsHandling
<1>0. TypeOK
  BY DEF Inductive
<1>1. CASE pc[q] = "accepted"
  BY <1>0, <1>1, AllTakenStable DEF Inductive, AnswerReportsHandling
<1>2. CASE pc[q] # "accepted"
  <2>1. Next
    BY <1>2 DEF vars
  <2>2. MarkDelivered(q)
    BY <1>2, <2>1, AcceptedBy DEF Send, Inductive, PcOK
  <2>3. q \in Workers /\ work[q].ev = q
    BY <2>2 DEF Workers, MarkDelivered, Handled, Handling, Inductive, OwnEvent
  <2>4. AllTaken(q)
    BY <2>2, <2>3, HandledTaken DEF MarkDelivered
  <2>. QED  BY <1>0, <2>4, AllTakenStable
<1>. QED  BY <1>1, <1>2

(* A submission or a dead-trigger record is made only by a worker, for the *)
(* stored event it handles.                                                *)
LEMMA StoredPreserved ==
    ASSUME Inductive, [Next]_vars PROVE StoredBeforeSubmitted'
<1>0. TypeOK /\ Known \subseteq Known'
  BY Monotone DEF Inductive
<1>1. /\ \A k \in UniqueKeys :
            jobs[k] # "none" => \E e \in Known' : Identity(e) = k[1]
      /\ \A d \in dead : d[1] \in Known'
  BY <1>0 DEF Inductive, StoredBeforeSubmitted, Known
<1>2. ASSUME NEW w \in Workers, AtTrigger(w)
      PROVE  work[w].ev \in Known'
  BY <1>0, <1>2 DEF AtTrigger, Handling, Inductive, WorkOK
<1>3. ASSUME NEW w \in Workers, AtTrigger(w), Lands(w),
             NEW k \in UniqueKeys, jobs'[k] # "none"
      PROVE  \E e \in Known' : Identity(e) = k[1]
  <2>1. CASE k = UniqueKey(work[w].ev, Trigger(w))
    <3>1. k[1] = Identity(work[w].ev)
      BY <2>1 DEF UniqueKey
    <3>. QED  BY <1>2, <1>3, <3>1
  <2>2. CASE k # UniqueKey(work[w].ev, Trigger(w))
    <3>1. jobs'[k] = jobs[k]
      BY <1>0, <1>3, <2>2 DEF Lands, TypeOK
    <3>. QED  BY <1>1, <1>3, <3>1
  <2>. QED  BY <2>1, <2>2
<1>4. ASSUME dead' = dead,
             \/ \A k \in UniqueKeys : jobs'[k] # "none" => jobs[k] # "none"
             \/ \E w \in Workers : AtTrigger(w) /\ Lands(w)
      PROVE  StoredBeforeSubmitted'
  BY <1>1, <1>3, <1>4 DEF StoredBeforeSubmitted, Known
<1>5. ASSUME NEW w \in Workers, Step(w) \/ TimeoutHandling(w)
      PROVE  StoredBeforeSubmitted'
  <2>1. CASE RecordDead(w)
    <3>1. /\ jobs' = jobs
          /\ dead' = dead \cup {<<work[w].ev, Trigger(w)>>}
          /\ work[w].ev \in Known'
      BY <1>2, <2>1 DEF RecordDead, Exhausted
    <3>. QED  BY <1>1, <3>1 DEF StoredBeforeSubmitted, Known
  <2>2. CASE ~RecordDead(w)
    <3>1. /\ dead' = dead
          /\ jobs' = jobs \/ (AtTrigger(w) /\ Lands(w))
      BY <1>5, <2>2 DEF Step, Enqueue, EnqueueFails, RecordDeadFails,
           MarkDelivered, MarkFails, TimeoutHandling, Submitting
    <3>. QED  BY <1>4, <3>1
  <2>. QED  BY <2>1, <2>2
<1>6. ASSUME NEW k \in UniqueKeys, Complete(k) PROVE StoredBeforeSubmitted'
  BY <1>0, <1>4, <1>6 DEF Complete, TypeOK
<1>7. CASE \/ \E r \in Requests :
                 \/ Receive(r) \/ Store(r) \/ StoreFails(r) \/ SendFails(r)
                 \/ Send(r)
                 \/ TimeoutSending(r) \/ Recover(r) \/ Retire(r)
           \/ \E o \in Operators :
                 Replayed(o) \/ \E e \in Requests : ReplayById(o, e)
           \/ Dispatch \/ Start \/ Serve \/ Crash \/ Drain \/ Exit
           \/ UNCHANGED vars
  <2>1. jobs' = jobs /\ dead' = dead
    BY <1>7 DEF Receive, Store, StoreFails, SendFails, Send, TimeoutSending,
       Recover,
         Retire, Replayed, ReplayById, Dispatch, Start, Serve, Crash, Drain,
         Exit, Stop, vars
  <2>. QED  BY <1>4, <2>1
<1>8. ASSUME NEW w \in Requests \cup Operators, TimeoutHandling(w)
      PROVE  StoredBeforeSubmitted'
  BY <1>5, <1>8 DEF Workers
<1>. QED  BY <1>5, <1>6, <1>7, <1>8 DEF Next

(* Every step keeps the inductive invariant.                               *)
LEMMA NextInductive == Inductive /\ [Next]_vars => Inductive'
<1> SUFFICES ASSUME Inductive, [Next]_vars PROVE Inductive'
  OBVIOUS
<1>1. TypeOK'
  BY NextTypeOK DEF Inductive
<1>. QED
  BY <1>1, WorkPreserved, QueuedPreserved, AnswerPreserved,
     DeliveredPreserved, StoredPreserved, ReportPreserved DEF Inductive

(* The inductive invariant holds throughout; the safety properties of the  *)
(* pipeline are its conjuncts.                                             *)
THEOREM InductiveCorrect == Spec => []Inductive
BY InitInductive, NextInductive, PTL DEF Spec

(* An event is marked delivered or retired only after Worklane or the      *)
(* dead-trigger queue has taken each of its matched triggers.              *)
THEOREM DeliveryCorrect == Spec => []DeliveredMeansTaken
<1>1. Inductive => DeliveredMeansTaken
  BY DEF Inductive
<1>. QED  BY <1>1, InductiveCorrect, PTL

(* No acknowledged event is lost.                                          *)
THEOREM AcknowledgementCorrect == Spec => []AcknowledgedIsStored
<1>1. Inductive => AcknowledgedIsStored
  BY DEF Inductive
<1>. QED  BY <1>1, InductiveCorrect, PTL

(* Nothing is submitted or dead-lettered for an event not yet stored.      *)
THEOREM PersistThenHandle == Spec => []StoredBeforeSubmitted
<1>1. Inductive => StoredBeforeSubmitted
  BY DEF Inductive
<1>. QED  BY <1>1, InductiveCorrect, PTL

(* A synchronous 200 answer means that the event was handled.              *)
THEOREM SynchronousAnswerCorrect == Spec => []AnswerReportsHandling
<1>1. Inductive => AnswerReportsHandling
  BY DEF Inductive
<1>. QED  BY <1>1, InductiveCorrect, PTL

-----------------------------------------------------------------------------
(* Start-up recovery.  RecoveredBeforeServing is not inductive either: it  *)
(* is the start that makes it true, because a process that is down or      *)
(* recovering has no request, channel or dispatcher at work, its recovery  *)
(* list covers every undelivered event, and the serve task handles events  *)
(* in recovery only.                                                       *)

Quiet ==
    /\ chan = <<>>
    /\ \A r \in Requests : pc[r] \notin InFlight
    /\ \A w \in Workers : w # Main => work[w].ev = None

LifeOK ==
    /\ proc # "recovering" => work[Main].ev = None
    /\ proc \in {"down", "recovering"} => Quiet
    /\ proc = "recovering" => log \ delivered \subseteq pending
    /\ RecoveredBeforeServing

(* Before the first start nothing is at work and nothing is stored.        *)
LEMMA InitLife == Init => LifeOK
BY IngestAssumption DEF Init, LifeOK, Quiet, RecoveredBeforeServing, Idle,
   InFlight, Workers

(* A crash or an exit leaves a process that is down with nothing at work.  *)
LEMMA StopLife ==
    ASSUME Inductive, Crash \/ Exit PROVE LifeOK'
<1>1. Stop
  BY DEF Crash, Exit
<1>2. proc' = "down" /\ chan' = <<>> /\ \A w \in Workers : work'[w].ev = None
  BY <1>1 DEF Stop, Idle
<1>3. \A r \in Requests : pc'[r] \notin InFlight
  BY <1>1 DEF Stop, InFlight
<1>4. Main \in Workers
  BY DEF Workers
<1>. QED
  BY <1>2, <1>3, <1>4 DEF LifeOK, Quiet, RecoveredBeforeServing

(* Start lists the undelivered events, Recover begins one of them, Serve   *)
(* waits until none is left, Drain and Complete change nothing of this.    *)
LEMMA CycleLife ==
    ASSUME Inductive, LifeOK,
           \/ Start \/ Serve \/ Drain \/ UNCHANGED vars
           \/ \E e \in Requests : Recover(e)
           \/ \E k \in UniqueKeys : Complete(k)
    PROVE  LifeOK'
<1>0. TypeOK /\ Main \in Workers
  BY DEF Inductive, Workers
<1>1. CASE Start
  <2>1. /\ proc = "down" /\ proc' = "recovering" /\ pending' = log \ delivered
        /\ UNCHANGED <<pc, log, delivered, chan, work>>
    BY <1>1 DEF Start
  <2>. QED  BY <2>1 DEF LifeOK, Quiet, RecoveredBeforeServing
<1>2. CASE Serve
  <2>1. /\ proc = "recovering" /\ proc' = "serving" /\ pending = {}
        /\ work[Main].ev = None
        /\ UNCHANGED <<pc, log, delivered, chan, work, pending>>
    BY <1>2 DEF Serve, Handling
  <2>2. log' \ delivered' = {}
    BY <2>1 DEF LifeOK
  <2>. QED  BY <2>1, <2>2 DEF LifeOK, RecoveredBeforeServing
<1>3. CASE Drain
  <2>1. /\ proc = "serving" /\ proc' = "draining"
        /\ UNCHANGED <<pc, log, delivered, chan, work, faults>>
    BY <1>3 DEF Drain
  <2>. QED  BY <2>1 DEF LifeOK, RecoveredBeforeServing, InHand
<1>4. ASSUME NEW e \in Requests, Recover(e) PROVE LifeOK'
  <2>1. /\ proc = "recovering"
        /\ \A w \in Workers : w # Main => work'[w] = work[w]
        /\ UNCHANGED <<proc, pc, log, delivered, chan, pending>>
    BY <1>0, <1>4 DEF Recover, TypeOK
  <2>. QED  BY <2>1 DEF LifeOK, Quiet, RecoveredBeforeServing
<1>5. CASE UNCHANGED vars \/ \E k \in UniqueKeys : Complete(k)
  <2>1. UNCHANGED <<proc, pc, log, delivered, chan, work, pending, faults>>
    BY <1>5 DEF vars, Complete
  <2>. QED  BY <2>1 DEF LifeOK, Quiet, RecoveredBeforeServing, InHand
<1>. QED  BY <1>1, <1>2, <1>3, <1>4, <1>5

(* A request, a replay, the dispatcher and retention are at work only in a *)
(* process that serves or drains, which they leave so; none of them makes  *)
(* a request "lost", and whoever accepts an event has delivered it or put  *)
(* it into the channel.                                                    *)
LEMMA ServingLife ==
    ASSUME Inductive, LifeOK,
           proc \in {"serving", "draining"}, proc' = proc,
           work'[Main].ev = None, faults' = 0 => faults = 0,
           \A r \in log' \ delivered' :
              /\ r \in log \ delivered \/ pc'[r] \notin {"lost", "accepted"}
              /\ pc'[r] = "lost" => pc[r] = "lost"
              /\ pc'[r] = "accepted" /\ faults' = 0 =>
                    \/ pc[r] = "accepted" /\ (InHand(r) => InHand(r)')
                    \/ InHand(r)'
    PROVE  LifeOK'
<1>1. proc' \in {"serving", "draining"}
  OBVIOUS
<1>2. ASSUME NEW r \in log' \ delivered'
      PROVE  /\ pc'[r] # "lost"
             /\ pc'[r] = "accepted" /\ faults' = 0 => InHand(r)'
  BY DEF LifeOK, RecoveredBeforeServing
<1>3. RecoveredBeforeServing'
  BY <1>2 DEF RecoveredBeforeServing
<1>. QED  BY <1>1, <1>3 DEF LifeOK

(* The steps of a request, of retention and of a replay request.           *)
LEMMA RequestLife ==
    ASSUME Inductive, LifeOK,
           \/ \E r \in Requests :
                 \/ Receive(r) \/ Store(r) \/ StoreFails(r) \/ SendFails(r)
                 \/ Send(r)
                 \/ TimeoutSending(r) \/ Retire(r)
           \/ \E o \in Operators :
                 Replayed(o) \/ \E e \in Requests : ReplayById(o, e)
           \/ \E w \in Requests \cup Operators : TimeoutHandling(w)
    PROVE  LifeOK'
<1>0. TypeOK /\ OwnEvent
  BY DEF Inductive
<1>1. /\ proc \in {"serving", "draining"} /\ proc' = proc
      /\ faults' = 0 => faults = 0
  <2>1. ASSUME NEW r \in Requests, pc[r] \in InFlight
        PROVE  proc \in {"serving", "draining"}
    BY <1>0, <2>1 DEF LifeOK, Quiet, TypeOK
  <2>2. ASSUME NEW w \in Requests \cup Operators, Handling(w)
        PROVE  proc \in {"serving", "draining"}
    BY <1>0, <2>2, IngestAssumption DEF LifeOK, Quiet, TypeOK, Handling,
       Workers
  <2>3. proc \in {"serving", "draining"}
    BY <2>1, <2>2 DEF Receive, Store, StoreFails, SendFails, Send,
       TimeoutSending, Retire,
       Replayed, ReplayById, TimeoutHandling, InFlight, Handled, Submitting,
       AtTrigger
  <2>4. proc' = proc /\ (faults' = faults \/ faults' = faults + 1)
    BY DEF Receive, Store, StoreFails, SendFails, Send, TimeoutSending,
       Retire, Replayed,
       ReplayById, TimeoutHandling, Fault
  <2>. QED  BY <1>0, <2>3, <2>4 DEF TypeOK
<1>2. work'[Main] = work[Main] /\ work'[Dispatcher] = work[Dispatcher]
  <2>1. CASE work' = work
    BY <2>1
  <2>2. ASSUME NEW w \in Requests \cup Operators,
               \/ work' = [work EXCEPT ![w] = Idle]
               \/ \E e \in Requests : work' = [work EXCEPT ![w] = Begin(e)]
        PROVE  work'[Main] = work[Main] /\ work'[Dispatcher] = work[Dispatcher]
    <3>1. w # Main /\ w # Dispatcher
      BY IngestAssumption
    <3>. QED  BY <1>0, <2>2, <3>1 DEF TypeOK, Workers
  <2>. QED
    BY <2>1, <2>2 DEF Receive, Store, StoreFails, SendFails, Send,
       TimeoutSending,
       Retire, Replayed, ReplayById, TimeoutHandling
<1>3. work'[Main].ev = None
  BY <1>1, <1>2 DEF LifeOK
<1>4. ASSUME NEW q \in Requests
      PROVE  InHand(q) => InHand(q)'
  <2>1. CASE chan' = chan
    BY <1>2, <2>1 DEF InHand
  <2>2. ASSUME NEW r \in Requests, chan' = Append(chan, r)
        PROVE  InHand(q) => InHand(q)'
    <3>1. /\ Len(chan') = Len(chan) + 1 /\ Len(chan) \in Nat
          /\ \A i \in 1..Len(chan) : chan'[i] = chan[i]
      BY <1>0, <2>2 DEF TypeOK
    <3>. QED  BY <1>2, <3>1 DEF InHand
  <2>. QED
    BY <2>1, <2>2 DEF Receive, Store, StoreFails, SendFails, Send,
       TimeoutSending,
       Retire, Replayed, ReplayById, TimeoutHandling
<1>5. ASSUME NEW q \in log' \ delivered'
      PROVE  /\ q \in log \ delivered \/ pc'[q] \notin {"lost", "accepted"}
             /\ pc'[q] = "lost" => pc[q] = "lost"
             /\ pc'[q] = "accepted" /\ pc[q] # "accepted" => InHand(q)'
             /\ q \in Requests
  <2>1. ASSUME NEW r \in Requests, Store(r) PROVE <1>5!2
    BY <1>0, <1>5, <2>1 DEF Store, TypeOK
  <2>2. ASSUME NEW r \in Requests, Send(r) PROVE <1>5!2
    <3>1. chan'[Len(chan) + 1] = r /\ Len(chan') = Len(chan) + 1
          /\ Len(chan) \in Nat
      BY <1>0, <2>2 DEF Send, TypeOK
    <3>2. Len(chan) + 1 \in 1..Len(chan')
      BY <3>1
    <3>3. InHand(r)'
      BY <3>1, <3>2 DEF InHand
    <3>. QED  BY <1>0, <1>5, <2>2, <3>3 DEF Send, TypeOK
  <2>3. CASE \E r \in Requests :
                \/ Receive(r) \/ StoreFails(r) \/ SendFails(r)
                \/ TimeoutSending(r)
                \/ Retire(r)
    BY <1>0, <1>5, <2>3 DEF Receive, StoreFails, SendFails, TimeoutSending,
       Retire,
       TypeOK
  <2>4. CASE \/ \E o \in Operators :
                   Replayed(o) \/ \E e \in Requests : ReplayById(o, e)
             \/ \E w \in Requests \cup Operators : TimeoutHandling(w)
    BY <1>0, <1>5, <2>4 DEF Replayed, ReplayById, TimeoutHandling, TypeOK
  <2>. QED  BY <2>1, <2>2, <2>3, <2>4
<1>. QED  BY <1>1, <1>3, <1>4, <1>5, ServingLife

(* The dispatcher takes the head of the channel into its hands.            *)
LEMMA DispatchLife ==
    ASSUME Inductive, LifeOK, Dispatch PROVE LifeOK'
<1>0. TypeOK
  BY DEF Inductive
<1>1. /\ proc \in {"serving", "draining"} /\ proc' = proc /\ faults' = faults
      /\ UNCHANGED <<log, delivered, pc>>
  BY <1>0 DEF Dispatch, LifeOK, Quiet, TypeOK
<1>2. work'[Main] = work[Main] /\ work'[Dispatcher] = Begin(Head(chan))
  BY <1>0, IngestAssumption DEF Dispatch, TypeOK, Workers
<1>3. work'[Main].ev = None
  BY <1>1, <1>2 DEF LifeOK
<1>4. ASSUME NEW q \in Requests, InHand(q) PROVE InHand(q)'
  <2>1. work[Dispatcher].ev # q
    BY <1>4, IngestAssumption DEF Dispatch
  <2>2. PICK i \in 1..Len(chan) : chan[i] = q
    BY <1>4, <2>1 DEF InHand
  <2>3. CASE i = 1
    BY <1>0, <1>2, <2>2, <2>3 DEF InHand, Begin, TypeOK
  <2>4. CASE i # 1
    <3>1. i - 1 \in 1..Len(chan') /\ chan'[i - 1] = q
      BY <1>0, <2>2, <2>4 DEF Dispatch, TypeOK
    <3>. QED  BY <3>1 DEF InHand
  <2>. QED  BY <2>3, <2>4
<1>5. log \subseteq Requests
  BY <1>0 DEF TypeOK
<1>. QED  BY <1>1, <1>3, <1>4, <1>5, ServingLife

(* A step of the handle loop: of a request, an operator or the dispatcher  *)
(* in a serving process, of the serve task in recovery.                    *)
LEMMA StepLife ==
    ASSUME Inductive, LifeOK, NEW w \in Workers, Step(w) PROVE LifeOK'
<1>0. TypeOK /\ OwnEvent
  BY DEF Inductive
<1>1. Handling(w) /\ work[w].ev \in Requests
  BY <1>0 DEF Step, Enqueue, EnqueueFails, RecordDead, RecordDeadFails,
     MarkDelivered, MarkFails, Submitting, Exhausted, AtTrigger, Handled,
     Handling, TypeOK
<1>2. \A v \in Workers : v # w => work'[v] = work[v]
  BY <1>0 DEF Step, Enqueue, EnqueueFails, RecordDead, RecordDeadFails,
     MarkDelivered, MarkFails, NextTrigger, NextAttempt, Abort, TypeOK
<1>3. chan' = chan /\ log' = log
  BY DEF Step, Enqueue, EnqueueFails, RecordDead, RecordDeadFails,
     MarkDelivered, MarkFails
<1>4. faults' = 0 => faults = 0
  BY <1>0 DEF Step, Enqueue, EnqueueFails, RecordDead, RecordDeadFails,
     MarkDelivered, MarkFails, Fault, TypeOK
<1>5. Main \in Workers /\ Dispatcher \in Workers /\ Main \notin Requests
      /\ Dispatcher # Main /\ Dispatcher \notin Requests
  BY IngestAssumption DEF Workers
<1>6. CASE w = Main
  <2>1. proc = "recovering" /\ Quiet
    BY <1>1, <1>6 DEF LifeOK, Handling
  <2>2. pc' = pc
    BY <1>5, <1>6 DEF Step, Enqueue, EnqueueFails, RecordDead,
       RecordDeadFails, MarkDelivered, MarkFails, Abort
  <2>3. Quiet'
    BY <1>2, <1>3, <1>6, <2>1, <2>2 DEF Quiet
  <2>4. \/ proc' = "recovering" /\ log' \ delivered' \subseteq pending'
        \/ proc' = "down" /\ work'[Main] = Idle
    <3>1. CASE RecordDeadFails(w) \/ MarkFails(w)
      BY <1>0, <1>5, <1>6, <3>1 DEF RecordDeadFails, MarkFails, Abort, TypeOK
    <3>2. CASE MarkDelivered(w)
      BY <1>6, <2>1, <3>2 DEF MarkDelivered, LifeOK
    <3>3. CASE Enqueue(w) \/ EnqueueFails(w) \/ RecordDead(w)
      BY <2>1, <3>3 DEF Enqueue, EnqueueFails, RecordDead, LifeOK
    <3>. QED  BY <3>1, <3>2, <3>3 DEF Step
  <2>5. work'[Main] = Idle => work'[Main].ev = None
    BY DEF Idle
  <2>. QED  BY <2>3, <2>4, <2>5 DEF LifeOK, RecoveredBeforeServing
<1>7. CASE w # Main
  <2>1. proc \in {"serving", "draining"} /\ proc' = proc
    <3>1. proc \in {"serving", "draining"}
      BY <1>0, <1>1, <1>7 DEF LifeOK, Quiet, Handling, TypeOK
    <3>2. proc' = proc
      BY <1>7 DEF Step, Enqueue, EnqueueFails, RecordDead, RecordDeadFails,
         MarkDelivered, MarkFails, Abort
    <3>. QED  BY <3>1, <3>2
  <2>2. work'[Main].ev = None
    BY <1>2, <1>5, <1>7, <2>1 DEF LifeOK
  <2>3. ASSUME NEW q \in log' \ delivered'
        PROVE  /\ q \in log \ delivered
               /\ pc'[q] = "lost" => pc[q] = "lost"
               /\ pc'[q] = "accepted" => pc[q] = "accepted"
               /\ faults' = 0 => (InHand(q) => InHand(q)')
    <3>1. CASE Enqueue(w) \/ EnqueueFails(w) \/ RecordDead(w)
      <4>1. delivered' = delivered /\ pc' = pc
        BY <3>1 DEF Enqueue, EnqueueFails, RecordDead
      <4>2. work'[w].ev = work[w].ev
        BY <1>0, <3>1 DEF Enqueue, EnqueueFails, RecordDead, NextTrigger,
           NextAttempt, TypeOK
      <4>3. work'[Dispatcher].ev = work[Dispatcher].ev
        BY <1>2, <1>5, <4>2
      <4>. QED  BY <1>3, <2>3, <4>1, <4>3 DEF InHand
    <3>2. CASE RecordDeadFails(w) \/ MarkFails(w)
      <4>1. delivered' = delivered /\ faults' # 0
        BY <1>0, <3>2 DEF RecordDeadFails, MarkFails, Fault, TypeOK
      <4>2. pc'[q] \in {pc[q], "error"}
        BY <1>0, <1>3, <2>3, <3>2 DEF RecordDeadFails, MarkFails, Abort,
           TypeOK
      <4>. QED  BY <1>3, <2>3, <4>1, <4>2
    <3>3. CASE MarkDelivered(w)
      <4>1. delivered' = delivered \cup {work[w].ev} /\ q # work[w].ev
        BY <2>3, <3>3 DEF MarkDelivered
      <4>2. q # w
        BY <1>0, <1>1, <1>3, <2>3, <4>1 DEF OwnEvent, Handling, TypeOK
      <4>3. pc'[q] = pc[q]
        BY <1>0, <1>3, <2>3, <3>3, <4>2 DEF MarkDelivered, TypeOK
      <4>4. work'[Dispatcher].ev = q \/ work[Dispatcher].ev # q
        BY <1>2, <1>5, <4>1
      <4>. QED  BY <1>3, <2>3, <4>1, <4>3, <4>4 DEF InHand
    <3>. QED  BY <3>1, <3>2, <3>3 DEF Step
  <2>. QED  BY <1>4, <2>1, <2>2, <2>3, ServingLife
<1>. QED  BY <1>6, <1>7

(* Every step keeps it.                                                    *)
LEMMA NextLife == ASSUME Inductive, LifeOK, [Next]_vars PROVE LifeOK'
BY StopLife, CycleLife, RequestLife, DispatchLife, StepLife DEF Next

(* Once the server takes traffic, start-up recovery has delivered what an  *)
(* earlier stop cut off, and without a failing call an accepted event that *)
(* is undelivered is in the channel or with the dispatcher.                *)
THEOREM RecoveryFirst == Spec => []RecoveredBeforeServing
<1>1. Inductive /\ LifeOK /\ [Next]_vars => LifeOK'
  BY NextLife
<1>2. LifeOK => RecoveredBeforeServing
  BY DEF LifeOK
<1>. QED  BY <1>1, <1>2, InitLife, InductiveCorrect, PTL DEF Spec

-----------------------------------------------------------------------------
(* Redelivery.  A finished job is submitted again only if its event is     *)
(* handled again.  Without failing calls, stops and replays (Undisturbed)  *)
(* an event is in one place at a time: with its request, in the channel or *)
(* with one worker (Single), and the job of a trigger exists only once its *)
(* worker has passed that trigger, unless another event shares the key     *)
(* (Fresh).  Two triggers of one name would share a job within an event,   *)
(* which the registry does not rule out: DistinctMatches does.             *)

Undisturbed == faults = 0 /\ stops = 0 /\ Operators = {}
Alone(e) == \A f \in Known : Identity(f) = Identity(e) => f = e
Queued(e) == \E i \in 1..Len(chan) : chan[i] = e
Unsent(e) == pc[e] \in {"new", "fresh", "send"}
Waiting(e) == Unsent(e) \/ Queued(e)

Single ==
    /\ proc = "down" => log = {}
    /\ pending = {} /\ work[Main].ev = None
    /\ \A v, w \in Workers :
          work[v].ev # None /\ work[v].ev = work[w].ev => v = w
    /\ \A i, j \in 1..Len(chan) : chan[i] = chan[j] => i = j
    /\ \A e \in Requests : Waiting(e) => \A w \in Workers : work[w].ev # e
    /\ \A i \in 1..Len(chan) : ~Unsent(chan[i])

Fresh ==
    \A e \in Requests : \A i \in 1..Len(Matches[e]) :
        Alone(e) /\ jobs[UniqueKey(e, Matches[e][i])] # "none" =>
            /\ ~Waiting(e)
            /\ \A w \in Workers : work[w].ev = e => i < work[w].next

OnceOK == Undisturbed => Single /\ Fresh

(* The broker can hold a job for every trigger that an event matches.      *)
LEMMA MatchedKey ==
    ASSUME NEW e \in Requests, NEW i \in 1..Len(Matches[e])
    PROVE  UniqueKey(e, Matches[e][i]) \in UniqueKeys /\ i \in Nat
<1>1. Matches[e] \in Seq(Triggers)
  BY IngestAssumption
<1>2. Matches[e][i] \in Triggers /\ i \in Nat
  BY <1>1
<1>. QED  BY <1>2, UniqueKeyType

(* Before the first start nothing is stored, queued or submitted.          *)
LEMMA InitOnce == Init => OnceOK
<1> SUFFICES ASSUME Init PROVE Single /\ Fresh
  BY DEF OnceOK
<1>1. Main \in Workers /\ \A w \in Workers : work[w].ev = None
  BY DEF Init, Idle, Workers
<1>2. /\ log = {} /\ pending = {} /\ Len(chan) = 0
      /\ \A k \in UniqueKeys : jobs[k] = "none"
  BY DEF Init
<1>3. Single
  BY <1>1, <1>2, IngestAssumption DEF Single
<1>4. \A e \in Requests : \A i \in 1..Len(Matches[e]) :
         UniqueKey(e, Matches[e][i]) \in UniqueKeys
  BY MatchedKey
<1>5. Fresh
  BY <1>2, <1>4 DEF Fresh
<1>. QED  BY <1>3, <1>5

(* An event that shares its identity with no known event now did not       *)
(* before.                                                                 *)
LEMMA AloneBefore ==
    ASSUME Inductive, [Next]_vars, NEW e \in Requests, Alone(e)'
    PROVE  Alone(e)
<1>1. Known \subseteq Known'
  BY Monotone DEF Inductive
<1>. QED  BY <1>1 DEF Alone

(* Fresh outlives a step that lands no job if no event starts to wait, and *)
(* workers begin only waiting events and never go back.                    *)
LEMMA FreshKept ==
    ASSUME Inductive, [Next]_vars, Fresh,
           \A k \in UniqueKeys : jobs'[k] # "none" => jobs[k] # "none",
           \A e \in Requests : Waiting(e)' => Waiting(e),
           \A w \in Workers : work'[w].ev \in Requests =>
              \/ Waiting(work'[w].ev)
              \/ work'[w].ev = work[w].ev /\ work'[w].next >= work[w].next
    PROVE  Fresh'
<1> SUFFICES ASSUME NEW e \in Requests, NEW i \in 1..Len(Matches[e]),
                    Alone(e)', jobs'[UniqueKey(e, Matches[e][i])] # "none"
             PROVE  /\ ~Waiting(e)'
                    /\ \A w \in Workers : work'[w].ev = e => i < work'[w].next
  BY DEF Fresh
<1>1. UniqueKey(e, Matches[e][i]) \in UniqueKeys
  BY MatchedKey
<1>2. ~Waiting(e) /\ \A w \in Workers : work[w].ev = e => i < work[w].next
  BY <1>1, AloneBefore DEF Fresh
<1>3. ASSUME NEW w \in Workers, work'[w].ev = e PROVE i < work'[w].next
  <2>1. work[w].ev = e /\ work'[w].next >= work[w].next
    BY <1>2, <1>3
  <2>2. work[w].next \in Nat /\ work'[w].next \in Nat /\ i \in Nat
    BY NextTypeOK, MatchedKey DEF Inductive, TypeOK
  <2>. QED  BY <1>2, <2>1, <2>2
<1>. QED  BY <1>2, <1>3

(* A landing submission is the first one of its trigger and event, unless  *)
(* another known event has the same identity.                              *)
LEMMA FreshLands ==
    ASSUME DistinctMatches, Inductive, [Next]_vars, Single, Fresh,
           NEW v \in Workers, AtTrigger(v), Lands(v),
           \A w \in Workers : w # v => work'[w] = work[w],
           work'[v] = Idle \/ NextTrigger(v),
           \A e \in Requests : Waiting(e)' => Waiting(e)
    PROVE  Fresh'
<1> DEFINE x == work[v].ev
           n == work[v].next
<1>0. TypeOK
  BY DEF Inductive
<1>1. /\ x \in Requests /\ x \in Known /\ n \in 1..Len(Matches[x])
      /\ Trigger(v) = Matches[x][n] /\ Trigger(v) \in Triggers
      /\ UniqueKey(x, Trigger(v)) \in UniqueKeys
  BY <1>0, AtTriggerType DEF Inductive, WorkOK, AtTrigger, Handling
<1>2. \/ work'[v].ev = None
      \/ work'[v].ev = x /\ work'[v].next = n + 1
  BY <1>0 DEF Idle, NextTrigger, TypeOK
<1>3. \A w \in Workers : work[w].ev = x => w = v
  BY <1>1, IngestAssumption DEF Single
<1>4. n \in Nat /\ \A e \in Requests : 1..Len(Matches[e]) \subseteq Nat
  BY <1>1, IngestAssumption
<1>5. \A k \in UniqueKeys :
         jobs'[k] = IF k = UniqueKey(x, Trigger(v)) THEN "live" ELSE jobs[k]
  BY <1>0, <1>1 DEF Lands, TypeOK
<1>6. ~Waiting(x)
  BY <1>1 DEF Single
<1> SUFFICES ASSUME NEW e \in Requests, NEW i \in 1..Len(Matches[e]),
                    Alone(e)', jobs'[UniqueKey(e, Matches[e][i])] # "none"
             PROVE  /\ ~Waiting(e)'
                    /\ \A w \in Workers : work'[w].ev = e => i < work'[w].next
  BY DEF Fresh
<1>7. /\ Alone(e) /\ UniqueKey(e, Matches[e][i]) \in UniqueKeys
      /\ e # None
  BY AloneBefore, MatchedKey, IngestAssumption
<1> HIDE DEF x, n
<1>8. CASE jobs[UniqueKey(e, Matches[e][i])] # "none"
  <2>1. ~Waiting(e) /\ \A w \in Workers : work[w].ev = e => i < work[w].next
    BY <1>7, <1>8 DEF Fresh
  <2>2. ASSUME NEW w \in Workers, work'[w].ev = e PROVE i < work'[w].next
    <3>1. CASE w # v
      BY <2>1, <2>2, <3>1
    <3>2. CASE w = v
      <4>1. work[v].ev = e /\ work'[v].next = n + 1
        BY <1>2, <1>7, <2>2, <3>2 DEF x
      <4>2. i < n
        BY <2>1, <4>1 DEF n
      <4>. QED  BY <1>4, <3>2, <4>1, <4>2
    <3>. QED  BY <3>1, <3>2
  <2>. QED  BY <2>1, <2>2
<1>9. CASE UniqueKey(e, Matches[e][i]) = UniqueKey(x, Trigger(v))
  <2>1. Identity(e) = Identity(x) /\ Matches[e][i] = Matches[x][n]
    BY <1>1, <1>9 DEF UniqueKey
  <2>2. x = e
    BY <1>1, <1>7, <2>1 DEF Alone
  <2>3. i = n
    BY <1>1, <2>1, <2>2 DEF DistinctMatches
  <2>4. ASSUME NEW w \in Workers, work'[w].ev = e PROVE i < work'[w].next
    <3>1. w = v
      BY <1>3, <2>2, <2>4
    <3>2. work'[v].next = n + 1
      BY <1>2, <1>7, <2>4, <3>1
    <3>. QED  BY <1>4, <2>3, <3>1, <3>2
  <2>. QED  BY <1>6, <2>2, <2>4
<1>. QED  BY <1>5, <1>7, <1>8, <1>9

(* Single outlives a step that begins no event, sends none and starts no   *)
(* process.                                                                *)
LEMMA SingleKept ==
    ASSUME Inductive, Single,
           proc' = "down" => proc = "down" /\ log' = log,
           pending' = pending, chan' = chan,
           \A w \in Workers : work'[w].ev \in {None, work[w].ev},
           \A e \in Requests : Unsent(e)' => Unsent(e)
    PROVE  Single'
<1>1. Main \in Workers
  BY DEF Workers
<1>2. \A i \in 1..Len(chan) : chan[i] \in Requests
  BY DEF Inductive, TypeOK
<1>3. \A e \in Requests : Waiting(e)' => Waiting(e)
  BY DEF Waiting, Queued
<1>4. \A e \in Requests :
         Waiting(e)' => \A w \in Workers : work'[w].ev # e
  BY <1>3, IngestAssumption DEF Single
<1>5. \A v, w \in Workers :
         work'[v].ev # None /\ work'[v].ev = work'[w].ev => v = w
  BY DEF Single
<1>6. \A i \in 1..Len(chan') : ~Unsent(chan[i])'
  BY <1>2 DEF Single
<1>. QED  BY <1>1, <1>4, <1>5, <1>6 DEF Single

(* The steps of the handle loop.                                           *)
LEMMA StepOnce ==
    ASSUME DistinctMatches, Inductive, Single, Fresh, [Next]_vars,
           NEW v \in Workers, Step(v) \/ TimeoutHandling(v),
           faults' = faults, stops' = stops, faults = 0, v # Main
    PROVE  Single' /\ Fresh'
<1>0. TypeOK
  BY DEF Inductive
<1>1. \/ Enqueue(v) \/ RecordDead(v) \/ MarkDelivered(v) \/ TimeoutHandling(v)
  BY <1>0 DEF Step, EnqueueFails, RecordDeadFails, MarkFails, Fault, TypeOK
<1>2. /\ proc' = proc /\ log' = log /\ pending' = pending /\ chan' = chan
      /\ \A w \in Workers : w # v => work'[w] = work[w]
  BY <1>0, <1>1 DEF Enqueue, RecordDead, MarkDelivered, TimeoutHandling,
     NextTrigger, TypeOK
<1>3. \/ work'[v] = Idle
      \/ /\ NextTrigger(v) /\ work'[v].ev = work[v].ev
         /\ work'[v].next = work[v].next + 1
  BY <1>0, <1>1 DEF Enqueue, RecordDead, MarkDelivered, TimeoutHandling,
     NextTrigger, TypeOK
<1>4. \A e \in Requests : Unsent(e)' => Unsent(e)
  BY <1>0, <1>1 DEF Enqueue, RecordDead, MarkDelivered, TimeoutHandling,
     Unsent, TypeOK
<1>5. \A e \in Requests : Waiting(e)' => Waiting(e)
  BY <1>2, <1>4 DEF Waiting, Queued
<1>6. \A w \in Workers : work'[w].ev \in {None, work[w].ev}
  BY <1>2, <1>3 DEF Idle
<1>7. Single'
  BY <1>2, <1>4, <1>6, SingleKept
<1>8. CASE AtTrigger(v) /\ Lands(v)
  <2>1. work'[v] = Idle \/ NextTrigger(v)
    BY <1>3
  <2>. QED  BY <1>2, <1>5, <1>7, <1>8, <2>1, FreshLands
<1>9. CASE jobs' = jobs
  <2>1. \A w \in Workers : work[w].next \in Nat
    BY <1>0 DEF TypeOK
  <2>2. \A w \in Workers : work'[w].ev \in Requests =>
           work'[w].ev = work[w].ev /\ work'[w].next >= work[w].next
    <3>1. \A w \in Workers :
             w # v => work'[w] = work[w] /\ work[w].next >= work[w].next
      BY <1>2, <2>1
    <3>2. work'[v].ev \in Requests =>
             work'[v].ev = work[v].ev /\ work'[v].next >= work[v].next
      <4>1. Idle.ev \notin Requests
        BY IngestAssumption DEF Idle
      <4>2. work[v].next + 1 >= work[v].next
        BY <2>1
      <4>. QED  BY <1>3, <4>1, <4>2
    <3>. QED  BY <3>1, <3>2
  <2>. QED  BY <1>5, <1>7, <1>9, <2>2, FreshKept
<1>. QED
  BY <1>1, <1>7, <1>8, <1>9 DEF Enqueue, RecordDead, MarkDelivered,
     TimeoutHandling, Submitting

(* A request stores its event and hands it to itself or to the channel.    *)
LEMMA StoreOnce ==
    ASSUME Inductive, Single, Fresh, [Next]_vars, LifeOK,
           NEW r \in Requests, Store(r) \/ Send(r)
    PROVE  Single' /\ Fresh'
<1>0. TypeOK /\ r \in Workers /\ Main \in Workers /\ Main # r /\ r # None
  BY IngestAssumption DEF Inductive, Workers
<1>1. Unsent(r) /\ Waiting(r) /\ jobs' = jobs /\ pending' = pending
      /\ proc' = proc /\ proc # "down"
  BY <1>0 DEF Store, Send, Unsent, Waiting, LifeOK, Quiet, InFlight
<1>2. ~Queued(r) /\ \A w \in Workers : work[w].ev # r
  BY <1>1 DEF Single, Queued
<1>3. /\ \A q \in Requests : q # r => pc'[q] = pc[q]
      /\ \A w \in Workers : w # r => work'[w] = work[w]
      /\ work'[r] = work[r] \/ (~Async /\ work'[r] = Begin(r))
  <2>1. \A q \in Requests : q # r => pc'[q] = pc[q]
    BY <1>0 DEF Store, Send, TypeOK
  <2>2. work' = work \/ (~Async /\ work' = [work EXCEPT ![r] = Begin(r)])
    BY DEF Store, Send
  <2>. QED  BY <1>0, <2>1, <2>2 DEF TypeOK
<1>4. \A q \in Requests : q # r => (Unsent(q)' <=> Unsent(q))
  BY <1>3 DEF Unsent
<1>5. CASE Store(r)
  <2>1. chan' = chan /\ \A i \in 1..Len(chan) : chan[i] # r
    BY <1>2, <1>5 DEF Store, Queued
  <2>2. \A q \in Requests : q # r => (Waiting(q)' <=> Waiting(q))
    BY <1>4, <2>1 DEF Waiting, Queued
  <2>3. Waiting(r)' => work'[r] = work[r]
    <3>1. ~Async => pc'[r] = "handle"
      BY <1>0, <1>5 DEF Store, TypeOK
    <3>2. ~Queued(r)'
      BY <2>1 DEF Queued
    <3>. QED  BY <1>3, <3>1, <3>2 DEF Waiting, Unsent
  <2>4. \A w \in Workers :
           \/ work'[w] = work[w]
           \/ w = r /\ work'[w].ev = r /\ ~Waiting(r)'
    BY <1>3, <2>3 DEF Begin
  <2>5. \A v, w \in Workers :
           work'[v].ev # None /\ work'[v].ev = work'[w].ev => v = w
    BY <1>2, <2>4 DEF Single
  <2>6. \A e \in Requests : Waiting(e)' => \A w \in Workers : work'[w].ev # e
    BY <1>2, <2>2, <2>4 DEF Single
  <2>7. \A i \in 1..Len(chan') : ~Unsent(chan[i])'
    BY <1>0, <1>4, <2>1 DEF Single, TypeOK
  <2>8. Single'
    BY <1>0, <1>1, <1>3, <2>1, <2>5, <2>6, <2>7 DEF Single
  <2>9. \A w \in Workers : work[w].next \in Nat
    BY <1>0 DEF TypeOK
  <2>10. \A w \in Workers : work'[w].ev \in Requests =>
              \/ Waiting(work'[w].ev)
              \/ work'[w].ev = work[w].ev /\ work'[w].next >= work[w].next
    BY <1>1, <2>4, <2>9
  <2>11. \A e \in Requests : Waiting(e)' => Waiting(e)
    BY <1>1, <2>2
  <2>. QED  BY <1>1, <2>8, <2>10, <2>11, FreshKept
<1>6. CASE Send(r)
  <2>1. /\ work' = work /\ pc'[r] = "accepted"
        /\ Len(chan) \in Nat /\ Len(chan') = Len(chan) + 1
        /\ \A i \in 1..Len(chan) : chan'[i] = chan[i] /\ chan[i] \in Requests
        /\ chan'[Len(chan) + 1] = r
    BY <1>0, <1>6 DEF Send, TypeOK
  <2>2. \A i \in 1..Len(chan') : i \in 1..Len(chan) \/ i = Len(chan) + 1
    BY <2>1
  <2>3. \A i \in 1..Len(chan) : chan[i] # r
    BY <1>2 DEF Queued
  <2>4. \A i, j \in 1..Len(chan') : chan'[i] = chan'[j] => i = j
    BY <2>1, <2>2, <2>3 DEF Single
  <2>5. \A e \in Requests : Waiting(e)' => Waiting(e)
    BY <1>1, <1>4, <2>1, <2>2 DEF Waiting, Queued
  <2>6. ~Unsent(r)' /\ \A i \in 1..Len(chan) : ~Unsent(chan[i])'
    <3>1. \A i \in 1..Len(chan) : ~Unsent(chan[i])' <=> ~Unsent(chan[i])
      BY <1>4, <2>1, <2>3, <1>3 DEF Unsent, Send
    <3>. QED  BY <2>1, <3>1 DEF Single, Unsent
  <2>7. \A i \in 1..Len(chan') : pc'[chan'[i]] \notin {"new", "fresh", "send"}
    BY <2>1, <2>2, <2>3, <1>3 DEF Single, Unsent
  <2>8. Single'
    BY <1>1, <2>1, <2>4, <2>5, <2>7 DEF Single, Unsent
  <2>9. \A w \in Workers : work[w].next \in Nat
    BY <1>0 DEF TypeOK
  <2>10. \A w \in Workers : work'[w].next >= work[w].next
    BY <2>1, <2>9
  <2>. QED  BY <1>1, <2>1, <2>5, <2>8, <2>10, FreshKept
<1>. QED  BY <1>5, <1>6

(* The dispatcher takes an event out of the channel, where it was alone.   *)
LEMMA DispatchOnce ==
    ASSUME Inductive, Single, Fresh, [Next]_vars, Dispatch
    PROVE  Single' /\ Fresh'
<1>h. PICK h : h = Head(chan)
  OBVIOUS
<1>0. /\ TypeOK /\ Dispatcher \in Workers /\ Main \in Workers
      /\ Main # Dispatcher
  BY IngestAssumption DEF Inductive, Workers
<1>1. /\ UNCHANGED <<proc, log, pending, jobs, pc>>
      /\ work[Dispatcher].ev = None /\ work'[Dispatcher] = Begin(h)
      /\ \A w \in Workers : w # Dispatcher => work'[w] = work[w]
  BY <1>0, <1>h DEF Dispatch, TypeOK
<1>2. /\ Len(chan) \in Nat /\ Len(chan) >= 1 /\ h = chan[1] /\ h \in Requests
      /\ Len(chan') = Len(chan) - 1
      /\ \A i \in 1..Len(chan') : chan'[i] = chan[i + 1]
  BY <1>0, <1>h DEF Dispatch, TypeOK
<1>3. 1 \in 1..Len(chan) /\ \A i \in 1..Len(chan') : i + 1 \in 1..Len(chan)
  BY <1>2
<1>4. /\ \A i, j \in 1..Len(chan') : chan'[i] = chan'[j] => i = j
      /\ \A i \in 1..Len(chan') : chan'[i] # h /\ ~Unsent(chan[i + 1])
  <2>1. \A i \in 1..Len(chan') : i \in Nat
    BY <1>2
  <2>. QED  BY <1>2, <1>3, <2>1 DEF Single
<1>5. Waiting(h) /\ ~Unsent(h) /\ h # None
  BY <1>2, <1>3, IngestAssumption DEF Waiting, Queued, Single
<1>6. ~Waiting(h)' /\ \A e \in Requests : Waiting(e)' => Waiting(e)
  <2>1. \A e \in Requests : Unsent(e)' <=> Unsent(e)
    BY <1>1 DEF Unsent
  <2>2. ~Queued(h)'
    BY <1>4 DEF Queued
  <2>3. \A e \in Requests : Queued(e)' => Queued(e)
    BY <1>2, <1>3 DEF Queued
  <2>4. ~Unsent(h)'
    BY <1>2, <1>5, <2>1
  <2>. QED  BY <2>1, <2>2, <2>3, <2>4 DEF Waiting
<1>7. work'[Dispatcher].ev = h /\ \A w \in Workers : work[w].ev # h
  BY <1>1, <1>2, <1>5 DEF Begin, Single
<1>8. \A v, w \in Workers :
         work'[v].ev # None /\ work'[v].ev = work'[w].ev => v = w
  BY <1>1, <1>7 DEF Single
<1>9. \A e \in Requests : Waiting(e)' => \A w \in Workers : work'[w].ev # e
  <2> SUFFICES ASSUME NEW e \in Requests, Waiting(e)', NEW w \in Workers
               PROVE  work'[w].ev # e
    OBVIOUS
  <2>1. Waiting(e) /\ e # h
    BY <1>6
  <2>. QED  BY <1>1, <1>7, <2>1 DEF Single
<1>10. \A i \in 1..Len(chan') : pc'[chan'[i]] \notin {"new", "fresh", "send"}
  BY <1>1, <1>2, <1>4 DEF Unsent
<1>11. Single'
  BY <1>0, <1>1, <1>4, <1>8, <1>9, <1>10 DEF Single, Unsent
<1>12. \A w \in Workers : work[w].next \in Nat
  BY <1>0 DEF TypeOK
<1>13. \A w \in Workers : work'[w].ev \in Requests =>
          \/ Waiting(work'[w].ev)
          \/ work'[w].ev = work[w].ev /\ work'[w].next >= work[w].next
  BY <1>1, <1>5, <1>7, <1>12
<1>. QED  BY <1>1, <1>6, <1>11, <1>13, FreshKept

(* The steps that hand no event on: no worker changes.                     *)
LEMMA OtherOnce ==
    ASSUME Inductive, Single, Fresh, [Next]_vars,
           \/ \E r \in Requests : Receive(r) \/ TimeoutSending(r) \/ Retire(r)
           \/ Start \/ Serve \/ Drain
           \/ \E k \in UniqueKeys : Complete(k)
           \/ UNCHANGED vars
    PROVE  Single' /\ Fresh'
<1>0. TypeOK
  BY DEF Inductive
<1>1. work' = work /\ chan' = chan
  BY DEF Receive, TimeoutSending, Retire, Start, Serve, Drain, Complete, vars
<1>2. pending' = pending
  BY DEF Receive, TimeoutSending, Retire, Start, Serve, Drain, Complete, vars,
     Single
<1>3. proc' = "down" => proc = "down" /\ log' = log
  BY DEF Receive, TimeoutSending, Retire, Start, Serve, Drain, Complete, vars
<1>4. \A e \in Requests : Unsent(e)' => Unsent(e)
  BY <1>0 DEF Receive, TimeoutSending, Retire, Start, Serve, Drain, Complete,
     vars, Unsent, TypeOK
<1>5. \A k \in UniqueKeys : jobs'[k] # "none" => jobs[k] # "none"
  BY <1>0 DEF Receive, TimeoutSending, Retire, Start, Serve, Drain, Complete,
     vars, TypeOK
<1>6. \A e \in Requests : Waiting(e)' => Waiting(e)
  BY <1>1, <1>4 DEF Waiting, Queued
<1>7. \A w \in Workers : work'[w].next >= work[w].next
  BY <1>0, <1>1 DEF TypeOK
<1>. QED  BY <1>1, <1>2, <1>3, <1>4, <1>5, <1>6, <1>7, SingleKept, FreshKept

(* Every step keeps Single and Fresh as long as nothing disturbs.          *)
LEMMA NextOnce ==
    ASSUME DistinctMatches, Inductive, LifeOK, OnceOK, [Next]_vars
    PROVE  OnceOK'
<1> SUFFICES ASSUME faults' = 0, stops' = 0, Operators = {}
             PROVE  Single' /\ Fresh'
  BY DEF OnceOK, Undisturbed
<1>0. TypeOK
  BY DEF Inductive
<1>1. /\ faults' = faults \/ faults' = faults + 1
      /\ stops' = stops \/ stops' = stops + 1
  BY DEF Next, Receive, Store, StoreFails, SendFails, Send, TimeoutSending,
     Recover,
     Retire, Step, Enqueue, EnqueueFails, RecordDead, RecordDeadFails,
     MarkDelivered, MarkFails, Abort, Fault, TimeoutHandling, Replayed,
     ReplayById, Dispatch, Start, Serve, Crash, Drain, Exit, Stop, Complete,
     vars
<1>2. faults = 0 /\ stops = 0 /\ faults' = faults /\ stops' = stops
  BY <1>0, <1>1 DEF TypeOK
<1>3. Single /\ Fresh
  BY <1>2 DEF OnceOK, Undisturbed
<1>4. ASSUME NEW w \in Workers, Step(w) PROVE Single' /\ Fresh'
  <2>1. w # Main
    BY <1>3, <1>4 DEF Single, Step, Enqueue, EnqueueFails, RecordDead,
       RecordDeadFails, MarkDelivered, MarkFails, Submitting, Exhausted,
       Handled, AtTrigger, Handling
  <2>. QED  BY <1>2, <1>3, <1>4, <2>1, StepOnce
<1>5. ASSUME NEW w \in Requests \cup Operators, TimeoutHandling(w)
      PROVE  Single' /\ Fresh'
  <2>1. w \in Workers /\ w # Main
    BY IngestAssumption DEF Workers
  <2>. QED  BY <1>2, <1>3, <1>5, <2>1, StepOnce
<1>6. /\ ~ \E r \in Requests : StoreFails(r) \/ SendFails(r) \/ Recover(r)
      /\ ~ (Crash \/ Exit)
  BY <1>0, <1>2, <1>3 DEF StoreFails, SendFails, Fault, Recover, Single,
     Crash, Exit,
     Stop, TypeOK
<1>. QED
  BY <1>3, <1>4, <1>5, <1>6, StoreOnce, DispatchOnce, OtherOnce DEF Next

(* If the triggers that an event matches have distinct names, a finished   *)
(* job is submitted again only by a redelivery: after a failed call, a     *)
(* stop, an operator's replay, or a second event with its key.             *)
THEOREM RunsOnce ==
    ASSUME DistinctMatches PROVE Spec => RunsOnceUnlessRedelivered
<1>1. Inductive /\ LifeOK /\ [Next]_vars => LifeOK'
  BY NextLife
<1>2. Inductive /\ LifeOK /\ OnceOK /\ [Next]_vars => OnceOK'
  BY NextOnce
<1> DEFINE Again ==
      \A w \in Workers, k \in UniqueKeys :
          /\ jobs[k] = "done" /\ jobs'[k] = "live"
          /\ Handling(w) /\ work'[w] # work[w]
          => \/ faults > 0 \/ stops > 0 \/ Operators # {}
             \/ \E f \in log \cup retired :
                    f # work[w].ev /\ Identity(f) = k[1]
<1>3. Inductive /\ OnceOK /\ [Next]_vars => Again
  <2> SUFFICES ASSUME Inductive, OnceOK, [Next]_vars,
                      NEW w \in Workers, NEW k \in UniqueKeys,
                      jobs[k] = "done", jobs'[k] = "live",
                      Handling(w), work'[w] # work[w],
                      ~(faults > 0), ~(stops > 0), Operators = {}
               PROVE  \E f \in Known : f # work[w].ev /\ Identity(f) = k[1]
    BY DEF Known
  <2>0. TypeOK
    BY DEF Inductive
  <2>1. Fresh
    BY <2>0 DEF OnceOK, Undisturbed, TypeOK
  <2>2. AtTrigger(w) /\ Lands(w)
    <3>1. ASSUME NEW v \in Workers, Step(v) \/ TimeoutHandling(v)
          PROVE  AtTrigger(w) /\ Lands(w)
      <4>1. v = w
        BY <2>0, <3>1 DEF Step, Enqueue, EnqueueFails, RecordDead,
           RecordDeadFails, MarkDelivered, MarkFails, NextTrigger,
           NextAttempt, Abort, TimeoutHandling, TypeOK
      <4>2. jobs' # jobs
        OBVIOUS
      <4>. QED
        BY <3>1, <4>1, <4>2 DEF Step, Enqueue, EnqueueFails, RecordDead,
           RecordDeadFails, MarkDelivered, MarkFails, TimeoutHandling,
           Submitting
    <3>2. ~ \E j \in UniqueKeys : Complete(j)
      BY <2>0 DEF Complete, TypeOK
    <3>3. Requests \cup Operators \subseteq Workers
      BY DEF Workers
    <3>. QED
      BY <3>1, <3>2, <3>3 DEF Next, Receive, Store, StoreFails, SendFails,
         Send,
         TimeoutSending, Recover, Retire, Replayed, ReplayById, Dispatch,
         Start, Serve, Crash, Drain, Exit, Stop, vars
  <2>3. /\ work[w].ev \in Requests
        /\ work[w].next \in 1..Len(Matches[work[w].ev])
        /\ Trigger(w) = Matches[work[w].ev][work[w].next]
        /\ UniqueKey(work[w].ev, Trigger(w)) \in UniqueKeys
    BY <2>0, <2>2, AtTriggerType
  <2>4. k = UniqueKey(work[w].ev, Trigger(w))
    BY <2>0, <2>2, <2>3 DEF Lands, TypeOK
  <2>5. ~(work[w].next < work[w].next)
    BY <2>0 DEF TypeOK
  <2>6. ~Alone(work[w].ev)
    BY <2>1, <2>3, <2>4, <2>5 DEF Fresh
  <2>7. k[1] = Identity(work[w].ev)
    BY <2>4 DEF UniqueKey
  <2>. QED  BY <2>6, <2>7 DEF Alone
<1>4. [][Again]_vars <=> RunsOnceUnlessRedelivered
  BY DEF RunsOnceUnlessRedelivered
<1> HIDE DEF Again
<1>. QED
  BY <1>1, <1>2, <1>3, <1>4, InitLife, InitOnce, InductiveCorrect, PTL DEF Spec

-----------------------------------------------------------------------------
(* Ingest implements Delivery.                                             *)

(* Before the first start, no event is known and nothing was taken.        *)
LEMMA RefinesInit == Init => Promise!Init
<1> SUFFICES ASSUME Init PROVE Promise!Init
  OBVIOUS
<1>1. Status = [e \in Requests |-> "unknown"]
  BY DEF Init, Status
<1>2. TakenPairs = {}
  BY UniqueKeyType DEF Init, TakenPairs, Taken
<1>. QED  BY <1>1, <1>2 DEF Promise!Init

(* A submission that lands is taken for the events of the same identity.   *)
LEMMA LandsTakes ==
    ASSUME Inductive, NEW w \in Workers, AtTrigger(w), Lands(w), dead' = dead,
           UNCHANGED <<log, delivered, retired>>
    PROVE  Promise!Next
<1> DEFINE e == work[w].ev
           t == Trigger(w)
<1>1. /\ TypeOK /\ e \in Requests /\ t \in Triggers
      /\ UniqueKey(e, t) \in UniqueKeys
  BY AtTriggerType DEF Inductive
<1>2. e \in Known
  BY DEF Inductive, WorkOK, AtTrigger, Handling
<1>3. Status[e] # "unknown" /\ Status' = Status
  BY <1>1, <1>2 DEF Status, Known
<1> HIDE DEF e, t
<1>4. \A k \in UniqueKeys :
         jobs'[k] = IF k = UniqueKey(e, t) THEN "live" ELSE jobs[k]
  BY <1>1 DEF Lands, TypeOK, e, t
<1>5. \A f \in Requests, u \in Triggers :
         /\ UniqueKey(f, u) \in UniqueKeys
         /\ UniqueKey(f, u) = UniqueKey(e, t)
               <=> Identity(f) = Identity(e) /\ u = t
  BY <1>1, UniqueKeyType DEF UniqueKey
<1>6. \A f \in Requests, u \in Triggers :
         TakenNext(f, u) <=> \/ Taken(f, u)
                             \/ Identity(f) = Identity(e) /\ u = t
  BY <1>4, <1>5 DEF TakenNext, Taken
<1>7. TakenPairs' = {p \in Requests \X Triggers : TakenNext(p[1], p[2])}
  BY DEF TakenPairs, Taken, TakenNext
<1>8. TakenPairs' = TakenPairs \cup
         {<<f, t>> : f \in {f \in Requests :
             [x \in Requests |-> Identity(x)][f] =
             [x \in Requests |-> Identity(x)][e]}}
  <2> DEFINE Same == {f \in Requests :
                         [x \in Requests |-> Identity(x)][f] =
                         [x \in Requests |-> Identity(x)][e]}
  <2>1. \A f \in Requests : f \in Same <=> Identity(f) = Identity(e)
    BY <1>1
  <2> HIDE DEF Same
  <2>2. {<<f, t>> : f \in Same} = {p \in Requests \X Triggers :
                                      p[1] \in Same /\ p[2] = t}
    BY <1>1 DEF Same
  <2>3. \A p \in Requests \X Triggers :
           TakenNext(p[1], p[2]) <=>
              Taken(p[1], p[2]) \/ (p[1] \in Same /\ p[2] = t)
    BY <1>6, <2>1
  <2>4. TakenPairs = {p \in Requests \X Triggers : Taken(p[1], p[2])}
    BY DEF TakenPairs
  <2>5. TakenPairs' = TakenPairs \cup {<<f, t>> : f \in Same}
    BY <1>7, <2>2, <2>3, <2>4
  <2>. QED  BY <2>5 DEF Same
<1>9. Promise!Take(e, t)
  BY <1>3, <1>8 DEF Promise!Take
<1>. QED  BY <1>1, <1>9 DEF Promise!Next

(* Every step of the pipeline accepts, takes, delivers or retires one      *)
(* event for Delivery, or changes nothing it sees.                         *)
LEMMA RefinesNext ==
    ASSUME Inductive, [Next]_vars PROVE [Promise!Next]_(Promise!vars)
<1>0. TypeOK
  BY DEF Inductive
<1>1. ASSUME UNCHANGED <<log, delivered, retired, jobs, dead>>
      PROVE  UNCHANGED Promise!vars
  BY <1>1 DEF Promise!vars, Status, TakenPairs, Taken
<1>2. ASSUME NEW r \in Requests, Store(r) PROVE Promise!Next
  <2>1. r \notin Known /\ r \notin delivered
    BY <1>2 DEF Store, Inductive, PcOK, QueuedOK
  <2>2. Status[r] = "unknown" /\ Status' = [Status EXCEPT ![r] = "stored"]
    BY <1>2, <2>1 DEF Status, Store, Known
  <2>3. TakenPairs' = TakenPairs
    BY <1>2 DEF TakenPairs, Taken, Store
  <2>. QED  BY <2>2, <2>3 DEF Promise!Next, Promise!Accept
<1>3. ASSUME NEW e \in Requests, Retire(e) PROVE Promise!Next
  <2>1. Status[e] = "delivered" /\ Status' = [Status EXCEPT ![e] = "retired"]
    BY <1>3 DEF Status, Retire
  <2>2. TakenPairs' = TakenPairs
    BY <1>3 DEF TakenPairs, Taken, Retire
  <2>. QED  BY <2>1, <2>2 DEF Promise!Next, Promise!Retire
<1>4. ASSUME NEW w \in Workers, MarkDelivered(w)
      PROVE  [Promise!Next]_(Promise!vars)
  <2> DEFINE e == work[w].ev
  <2>1. e \in Requests /\ AllTaken(e)
    BY <1>4, HandledTaken DEF MarkDelivered
  <2>2. TakenPairs' = TakenPairs
    BY <1>4 DEF TakenPairs, Taken, MarkDelivered
  <2>3. CASE e \in log \ delivered
    <3>1. Status[e] = "stored" /\ Status' = [Status EXCEPT ![e] = "delivered"]
      BY <1>4, <2>1, <2>3 DEF Status, MarkDelivered
    <3>2. \A i \in 1..Len(Matches[e]) : <<e, Matches[e][i]>> \in TakenPairs
      BY <2>1, IngestAssumption DEF AllTaken, TakenPairs
    <3>. QED  BY <2>1, <2>2, <3>1, <3>2 DEF Promise!Next, Promise!Deliver
  <2>4. CASE e \notin log \ delivered
    <3>1. Status' = Status
      BY <1>4, <2>4 DEF Status, MarkDelivered
    <3>. QED  BY <2>2, <3>1 DEF Promise!vars
  <2>. QED  BY <2>3, <2>4
<1>5. ASSUME NEW w \in Workers, RecordDead(w) PROVE Promise!Next
  <2> DEFINE e == work[w].ev
             t == Trigger(w)
  <2>1. e \in Requests /\ t \in Triggers /\ e \in Known
    BY <1>0, <1>5, AtTriggerType
    DEF RecordDead, Exhausted, Inductive, WorkOK, AtTrigger, Handling
  <2>2. Status[e] # "unknown" /\ Status' = Status
    BY <1>5, <2>1 DEF Status, Known, RecordDead
  <2>3. TakenPairs' = TakenPairs \cup {<<e, t>>}
    BY <1>5, <2>1 DEF TakenPairs, Taken, RecordDead
  <2>4. Promise!Take(e, t)
    BY <2>2, <2>3 DEF Promise!Take
  <2>. QED  BY <2>1, <2>4 DEF Promise!Next
<1>6. ASSUME NEW w \in Workers, Step(w) \/ TimeoutHandling(w)
      PROVE  [Promise!Next]_(Promise!vars)
  <2>1. CASE ~MarkDelivered(w) /\ ~RecordDead(w)
    <3>1. /\ UNCHANGED <<log, delivered, retired, dead>>
          /\ jobs' = jobs \/ (AtTrigger(w) /\ Lands(w))
      BY <1>6, <2>1 DEF Step, Enqueue, EnqueueFails, RecordDeadFails,
           MarkFails, TimeoutHandling, Submitting
    <3>. QED  BY <1>1, <3>1, LandsTakes
  <2>. QED  BY <1>4, <1>5, <2>1
<1>7. ASSUME NEW k \in UniqueKeys, Complete(k) PROVE UNCHANGED Promise!vars
  <2>1. /\ \A j \in UniqueKeys : jobs'[j] # "none" <=> jobs[j] # "none"
        /\ UNCHANGED <<log, delivered, retired, dead>>
    BY <1>0, <1>7 DEF Complete, TypeOK
  <2>2. \A e \in Requests, t \in Triggers : TakenNext(e, t) <=> Taken(e, t)
    BY <2>1, UniqueKeyType DEF Taken, TakenNext
  <2>3. TakenPairs' = {p \in Requests \X Triggers : TakenNext(p[1], p[2])}
    BY DEF TakenPairs, Taken, TakenNext
  <2>4. TakenPairs' = TakenPairs
    BY <2>2, <2>3 DEF TakenPairs
  <2>. QED  BY <2>1, <2>4 DEF Promise!vars, Status
<1>8. CASE \/ \E r \in Requests :
                 \/ Receive(r) \/ StoreFails(r) \/ SendFails(r) \/ Send(r)
                 \/ TimeoutSending(r) \/ Recover(r)
           \/ \E o \in Operators :
                 Replayed(o) \/ \E e \in Requests : ReplayById(o, e)
           \/ Dispatch \/ Start \/ Serve \/ Crash \/ Drain \/ Exit
           \/ UNCHANGED vars
  BY <1>1, <1>8 DEF Receive, StoreFails, SendFails, Send, TimeoutSending,
     Recover,
       Replayed, ReplayById, Dispatch, Start, Serve, Crash, Drain, Exit, Stop,
       vars
<1>9. ASSUME NEW w \in Requests \cup Operators, TimeoutHandling(w)
      PROVE  [Promise!Next]_(Promise!vars)
  BY <1>6, <1>9 DEF Workers
<1>. QED  BY <1>2, <1>3, <1>6, <1>7, <1>8, <1>9 DEF Next

(* The pipeline implements Delivery: an event is stored, its triggers are  *)
(* taken one by one, it is delivered only when all were, and it is retired *)
(* only after that.                                                        *)
THEOREM RefinesDelivery == Spec => ImplementsDelivery
<1>1. Inductive /\ [Next]_vars => [Promise!Next]_(Promise!vars)
  BY RefinesNext
<1>. QED
  BY <1>1, RefinesInit, InductiveCorrect, PTL
  DEF Spec, ImplementsDelivery, Promise!Spec
=============================================================================
