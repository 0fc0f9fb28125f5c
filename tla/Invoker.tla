------------------------------ MODULE Invoker ------------------------------
(***************************************************************************)
(* The example worker of src/examples/invoker: several                     *)
(* ExternalInvokerRuntimes take jobs from one worklane lane, run each      *)
(* through an external invoker (an HTTP endpoint or a subprocess) under a  *)
(* deadline while a heartbeat extends the lease, and ack, retry or fail    *)
(* the job.  Time is discrete.  A broker call or a due timer that is still *)
(* waiting when the clock ticks is late: late ticks, failing broker calls  *)
(* and crashes are the faults, and are counted.                            *)
(*                                                                         *)
(* The broker is external: one holder per leased job, whose receipt turns  *)
(* stale when the lease runs out; a retry counts an attempt and returns    *)
(* the job after a delay; a job that fails is a dead letter.               *)
(***************************************************************************)
EXTENDS Integers, FiniteSets

CONSTANTS
    Workers,           \* runtimes, each in its process_once loop
    HttpWorkers,       \* those with an HttpInvoker, the others a subprocess
    Jobs,              \* jobs of the lane
    Configured,        \* jobs whose kind has an endpoint and a command
    Statuses,          \* HTTP statuses the endpoint may return
    ExitCodes,         \* exit codes the child may end with
    TerminalStatuses,  \* HttpEndpoint::terminal_status_codes
    TerminalExitCodes, \* SubprocessCommand::terminal_exit_codes
    MaxAttempts,       \* max_attempts of every job
    Lease,             \* reservation.lease, in ticks
    Deadline,          \* InvokerConfig::deadline, in ticks
    MaxFaults          \* bound: late ticks, failed broker calls, crashes

NoOne == "none"
NoReply == -9   \* transport, spawn, stdin or body error
Killed == -8    \* the child was ended by a signal: no exit code

ASSUME InvokerAssumption ==
    /\ NoOne \notin Workers \cup Jobs
    /\ HttpWorkers \subseteq Workers
    /\ Configured \subseteq Jobs
    /\ Statuses \subseteq 100..599
    /\ ExitCodes \subseteq 0..255
    /\ TerminalStatuses \subseteq 100..599
    /\ TerminalExitCodes \subseteq -1..255
    /\ MaxAttempts \in Nat \ {0}
    /\ Lease \in Nat \ {0, 1}
    /\ Deadline \in Nat
    /\ MaxFaults \in Nat

VARIABLES
    job,     \* the broker's record of each job
    worker,  \* where each runtime is in process_once
    runs,    \* invocations of each job since it was queued, up to MaxAttempts
    worked,  \* jobs whose external work was done, whatever was reported
    strays,  \* jobs with an abandoned child process that still runs
    faults   \* faults so far

vars == <<job, worker, runs, worked, strays, faults>>

Results == {"success", "retryable", "terminal"}
Verdicts == Results \cup {"timeout", "heartbeat"}

Idle == [at |-> "idle", job |-> NoOne, attempts |-> 0, beat |-> 0,
         beating |-> FALSE, deadline |-> 0, verdict |-> NoOne]
Queued == [state |-> "ready", attempts |-> 0, holder |-> NoOne, lease |-> 0,
           error |-> NoOne]

TypeOK ==
    /\ job \in [Jobs ->
          [state : {"ready", "leased", "delayed", "acked", "dead", "purged"},
           attempts : 0..(MaxAttempts - 1), holder : Workers \cup {NoOne},
           lease : 0..Lease, error : Verdicts \cup {NoOne}]]
    /\ worker \in [Workers ->
          [at : {"idle", "invoking", "extending", "resolving"},
           job : Jobs \cup {NoOne}, attempts : 0..(MaxAttempts - 1),
           beat : 0..Lease, beating : BOOLEAN, deadline : 0..Deadline,
           verdict : Verdicts \cup {NoOne}]]
    /\ runs \in [Jobs -> 0..MaxAttempts]
    /\ worked \subseteq Jobs
    /\ strays \subseteq Jobs
    /\ faults \in 0..MaxFaults

Init ==
    /\ job = [j \in Jobs |-> Queued]
    /\ worker = [w \in Workers |-> Idle]
    /\ runs = [j \in Jobs |-> 0]
    /\ worked = {}
    /\ strays = {}
    /\ faults = 0

Fault == faults < MaxFaults /\ faults' = faults + 1

-----------------------------------------------------------------------------
(* Taking a job.                                                           *)

(* A bug of heartbeat_delay: the heartbeat waits for the whole lease.      *)
HeartbeatAtExpiry == Lease

(* heartbeat_delay: half the lease, at least one tick.                     *)
HeartbeatDelay == IF Lease \div 2 = 0 THEN 1 ELSE Lease \div 2

(* process_once: a reservation starts run_bounded with its three timers.   *)
(* With no ready job it returns Idle.                                      *)
Reserve(w, j) ==
    /\ worker[w].at = "idle"
    /\ job[j].state = "ready"
    /\ job' = [job EXCEPT ![j].state = "leased", ![j].holder = w,
                          ![j].lease = Lease]
    /\ worker' = [worker EXCEPT ![w] =
          [Idle EXCEPT !.at = "invoking", !.job = j,
                       !.attempts = job[j].attempts, !.beat = HeartbeatDelay,
                       !.beating = TRUE, !.deadline = Deadline]]
    /\ runs' = [runs EXCEPT ![j] = IF @ = MaxAttempts THEN @ ELSE @ + 1]
    /\ UNCHANGED <<worked, strays, faults>>

-----------------------------------------------------------------------------
(* The invocation and its bounds.                                          *)

Succeeded(status) == status \in 200..299

(* HttpInvoker::invoke: the success test comes before the terminal list.   *)
HttpResult(reply) ==
    IF Succeeded(reply) THEN "success"
    ELSE IF reply \in TerminalStatuses THEN "terminal" ELSE "retryable"

(* A bug of SubprocessInvoker::invoke: a child without an exit code counts *)
(* as one that returned 0.                                                 *)
SubprocessKilledIsZero(reply) ==
    IF reply \in {0, Killed} THEN "success"
    ELSE IF reply \in TerminalExitCodes THEN "terminal" ELSE "retryable"

(* SubprocessInvoker::invoke: a killed child has code -1.                  *)
SubprocessResult(reply) ==
    LET code == IF reply = Killed THEN -1 ELSE reply
    IN  IF reply = 0 THEN "success"
        ELSE IF reply # NoReply /\ code \in TerminalExitCodes THEN "terminal"
        ELSE "retryable"

(* send_http_request and run_subprocess: what the endpoint or the child    *)
(* may report, an error included.                                          *)
Replies(w) ==
    {NoReply} \cup IF w \in HttpWorkers THEN Statuses
                   ELSE ExitCodes \cup {Killed}

(* A reply that says the work was done; any other leaves it open.          *)
Done(w, reply) == IF w \in HttpWorkers THEN Succeeded(reply) ELSE reply = 0

(* What happens to the child when its future is dropped or run_subprocess  *)
(* returns an error after the spawn (the write to stdin, the wait): it is  *)
(* not ended (no kill_on_drop), and may still run.                         *)
Abandon(w, j) ==
    strays' \in {strays} \cup IF w \in HttpWorkers THEN {} ELSE {strays \cup {j}}

Conclude(w, verdict) ==
    worker' = [worker EXCEPT ![w].at = "resolving", ![w].verdict = verdict]

(* The first select arm: the invocation returns.  A job whose kind has no  *)
(* endpoint or command fails at once, with nothing run.                    *)
InvocationEnds(w) ==
    LET j == worker[w].job
    IN  /\ worker[w].at = "invoking"
        /\ \/ /\ j \notin Configured
              /\ Conclude(w, "terminal")
              /\ UNCHANGED <<worked, strays>>
           \/ /\ j \in Configured
              /\ \E reply \in Replies(w) :
                    /\ Conclude(w, IF w \in HttpWorkers THEN HttpResult(reply)
                                   ELSE SubprocessResult(reply))
                    /\ worked' \in {worked \cup {j}} \cup
                                   IF Done(w, reply) THEN {} ELSE {worked}
                    /\ IF reply = NoReply THEN Abandon(w, j)
                       ELSE UNCHANGED strays
        /\ UNCHANGED <<job, runs, faults>>

(* A bug of run_bounded: the loop without heartbeat has no deadline arm.   *)
DeadlineFiresWhileBeating(w) ==
    LET j == worker[w].job
    IN  /\ worker[w].at = "invoking"
        /\ worker[w].deadline = 0
        /\ j \in Configured
        /\ worker[w].beating
        /\ Conclude(w, "timeout")
        /\ worked' \in {worked, worked \cup {j}}
        /\ Abandon(w, j)
        /\ UNCHANGED <<job, runs, faults>>

(* The second arm: the deadline ends the wait, not the work.  The future   *)
(* is dropped; a request may have been served, and a child may run on.  A  *)
(* kind that is not configured returns before any timer.                   *)
DeadlineFires(w) ==
    LET j == worker[w].job
    IN  /\ worker[w].at = "invoking"
        /\ worker[w].deadline = 0
        /\ j \in Configured
        /\ Conclude(w, "timeout")
        /\ worked' \in {worked, worked \cup {j}}
        /\ Abandon(w, j)
        /\ UNCHANGED <<job, runs, faults>>

(* An abandoned child ends, its work done or not.                          *)
StrayEnds(j) ==
    /\ j \in strays
    /\ strays' = strays \ {j}
    /\ worked' \in {worked, worked \cup {j}}
    /\ UNCHANGED <<job, worker, runs, faults>>

(* The third arm: the heartbeat calls extend, and the loop waits for it.   *)
HeartbeatFires(w) ==
    /\ worker[w].at = "invoking"
    /\ worker[w].beating
    /\ worker[w].beat = 0
    /\ worker' = [worker EXCEPT ![w].at = "extending"]
    /\ UNCHANGED <<job, runs, worked, strays, faults>>

(* A bug of run_bounded: the deadline is armed again by every heartbeat.   *)
ExtendRearmsDeadline(w) ==
    /\ worker[w].at = "extending"
    /\ job[worker[w].job].holder = w
    /\ job' = [job EXCEPT ![worker[w].job].lease = Lease]
    /\ worker' = [worker EXCEPT ![w].at = "invoking", ![w].beat = HeartbeatDelay,
                                ![w].deadline = Deadline]
    /\ UNCHANGED <<runs, worked, strays, faults>>

ExtendOk(w) ==
    /\ worker[w].at = "extending"
    /\ job[worker[w].job].holder = w
    /\ job' = [job EXCEPT ![worker[w].job].lease = Lease]
    /\ worker' = [worker EXCEPT ![w].at = "invoking",
                                ![w].beat = HeartbeatDelay]
    /\ UNCHANGED <<runs, worked, strays, faults>>

(* StaleReservation: the invocation goes on without a heartbeat.           *)
ExtendStale(w) ==
    /\ worker[w].at = "extending"
    /\ job[worker[w].job].holder # w
    /\ worker' = [worker EXCEPT ![w].at = "invoking", ![w].beating = FALSE]
    /\ UNCHANGED <<job, runs, worked, strays, faults>>

(* Any other error of extend ends the wait with HeartbeatFailed, and the   *)
(* invocation is abandoned.                                                *)
ExtendFails(w) ==
    LET j == worker[w].job
    IN  /\ worker[w].at = "extending"
        /\ Fault
        /\ Conclude(w, "heartbeat")
        /\ worked' \in {worked, worked \cup {j}}
        /\ Abandon(w, j)
        /\ UNCHANGED <<job, runs>>

-----------------------------------------------------------------------------
(* Resolving.                                                              *)

(* A bug of retry_or_fail: the attempt is counted twice.                   *)
GivesUpEarly(verdict, attempts) ==
    IF verdict = "success" THEN "ack"
    ELSE IF verdict \in {"terminal", "heartbeat"} THEN "fail"
    ELSE IF attempts + 2 < MaxAttempts THEN "retry" ELSE "fail"

(* A bug of retry_or_fail: one retry too many.                             *)
GivesUpLate(verdict, attempts) ==
    IF verdict = "success" THEN "ack"
    ELSE IF verdict \in {"terminal", "heartbeat"} THEN "fail"
    ELSE IF attempts + 1 <= MaxAttempts THEN "retry" ELSE "fail"

(* resolve and retry_or_fail: the broker call for a verdict, from the      *)
(* attempts the reservation carried.                                       *)
Resolution(verdict, attempts) ==
    IF verdict = "success" THEN "ack"
    ELSE IF verdict \in {"terminal", "heartbeat"} THEN "fail"
    ELSE IF attempts + 1 < MaxAttempts THEN "retry" ELSE "fail"

(* What ack, retry and fail make of the job in the broker.                 *)
Resolved(j, call, verdict) ==
    LET free == [job[j] EXCEPT !.holder = NoOne, !.lease = 0]
    IN  CASE call = "ack" -> [free EXCEPT !.state = "acked"]
          [] call = "retry" -> [free EXCEPT !.state = "delayed",
                                            !.attempts = @ + 1]
          [] call = "fail" -> [free EXCEPT !.state = "dead",
                                           !.error = verdict]

(* The call reaches the broker, which ignores a stale receipt.             *)
Lands(w) ==
    LET j == worker[w].job
        v == worker[w].verdict
    IN  job' = IF job[j].holder # w THEN job
               ELSE [job EXCEPT ![j] =
                        Resolved(j, Resolution(v, worker[w].attempts), v)]

(* resolve_ack, resolve_retry, resolve_fail: a stale receipt is an outcome *)
(* of its own (StaleResolution), not an error.                             *)
Resolve(w) ==
    /\ worker[w].at = "resolving"
    /\ Lands(w)
    /\ worker' = [worker EXCEPT ![w] = Idle]
    /\ UNCHANGED <<runs, worked, strays, faults>>

(* The call fails: process_once returns the error, and the job stays       *)
(* leased unless the call took effect all the same.                        *)
ResolveFails(w) ==
    /\ worker[w].at = "resolving"
    /\ Fault
    /\ Lands(w) \/ UNCHANGED job
    /\ worker' = [worker EXCEPT ![w] = Idle]
    /\ UNCHANGED <<runs, worked, strays>>

-----------------------------------------------------------------------------
(* The broker, the operator and the clock.                                 *)

(* The lease runs out: the job is ready again, and counts no attempt.      *)
Expire(j) ==
    /\ job[j].state = "leased"
    /\ job[j].lease = 0
    /\ job' = [job EXCEPT ![j].state = "ready", ![j].holder = NoOne]
    /\ UNCHANGED <<worker, runs, worked, strays, faults>>

DelayEnds(j) ==
    /\ job[j].state = "delayed"
    /\ job' = [job EXCEPT ![j].state = "ready"]
    /\ UNCHANGED <<worker, runs, worked, strays, faults>>

(* requeue_dead_letter: the broker starts the count of attempts again, or  *)
(* keeps it.                                                               *)
Requeue(j) ==
    /\ job[j].state = "dead"
    /\ \/ /\ job' = [job EXCEPT ![j] = Queued]
          /\ runs' = [runs EXCEPT ![j] = 0]
       \/ /\ job' = [job EXCEPT ![j] = [Queued EXCEPT
                                           !.attempts = job[j].attempts]]
          /\ UNCHANGED runs
    /\ UNCHANGED <<worker, worked, strays, faults>>

(* worklane-dlq purge: every dead letter of the lane.                      *)
Purge ==
    /\ \E j \in Jobs : job[j].state = "dead"
    /\ job' = [j \in Jobs |-> IF job[j].state = "dead"
                              THEN [job[j] EXCEPT !.state = "purged"]
                              ELSE job[j]]
    /\ UNCHANGED <<worker, runs, worked, strays, faults>>

(* A runtime's process ends, its invocation with it or abandoned.          *)
Crash(w) ==
    LET j == worker[w].job
    IN  /\ worker[w].at # "idle"
        /\ Fault
        /\ worker' = [worker EXCEPT ![w] = Idle]
        /\ IF worker[w].at = "resolving" \/ j \notin Configured
           THEN UNCHANGED <<worked, strays>>
           ELSE Abandon(w, j) /\ worked' \in {worked, worked \cup {j}}
        /\ UNCHANGED <<job, runs>>

Less(n) == IF n = 0 THEN 0 ELSE n - 1

Late(w) ==
    \/ worker[w].at \in {"extending", "resolving"}
    \/ /\ worker[w].at = "invoking"
       /\ \/ worker[w].job \notin Configured
          \/ worker[w].deadline = 0
          \/ worker[w].beating /\ worker[w].beat = 0

(* Leases and timers count down.                                           *)
Tick ==
    /\ job' = [j \in Jobs |-> [job[j] EXCEPT !.lease = Less(@)]]
    /\ worker' = [w \in Workers |->
          [worker[w] EXCEPT !.beat = Less(@), !.deadline = Less(@)]]
    /\ IF \E w \in Workers : Late(w) THEN Fault ELSE UNCHANGED faults
    /\ UNCHANGED <<runs, worked, strays>>

(* What a runtime does next once it has a job; a hanging endpoint or child *)
(* may never return.                                                       *)
Progress(w) ==
    \/ DeadlineFires(w) \/ HeartbeatFires(w)
    \/ ExtendOk(w) \/ ExtendStale(w)
    \/ Resolve(w)

Next ==
    \/ \E w \in Workers :
          \/ \E j \in Jobs : Reserve(w, j)
          \/ InvocationEnds(w)
          \/ Progress(w)
          \/ ExtendFails(w) \/ ResolveFails(w) \/ Crash(w)
    \/ \E j \in Jobs :
          StrayEnds(j) \/ Expire(j) \/ DelayEnds(j) \/ Requeue(j)
    \/ Purge
    \/ Tick

(* Fairness: the runtime polls its timers and awaits the broker, which     *)
(* answers; the clock runs, however busy the workers are; the broker       *)
(* releases expired and delayed jobs; a kind without endpoint returns at   *)
(* once.  Workers call process_once again and the broker passes over no    *)
(* ready job for ever.                                                     *)
Fairness ==
    /\ \A w \in Workers :
          /\ WF_vars(Progress(w))
          /\ WF_vars(worker[w].job \notin Configured /\ InvocationEnds(w))
    /\ \A j \in Jobs :
          /\ WF_vars(Expire(j) \/ DelayEnds(j))
          /\ SF_vars(\E w \in Workers : Reserve(w, j))
    /\ SF_vars(Tick)

Spec == Init /\ [][Next]_vars /\ Fairness

-----------------------------------------------------------------------------
(* As long as nothing fails and nothing is late, the heartbeat keeps the   *)
(* lease: no job that a runtime works on is handed to another one, however *)
(* long the invocation takes within its deadline (run_bounded).            *)
HeartbeatKeepsLease ==
    faults = 0 =>
        \A w \in Workers :
            worker[w].at # "idle" => job[worker[w].job].holder = w

(* A dead letter without a terminal reply or a failed heartbeat was        *)
(* invoked max_attempts times since it was queued: no lost lease, late     *)
(* answer or failed call makes the runtime give up early (retry_or_fail).  *)
DeadLetterJustified ==
    \A j \in Jobs :
        job[j].state = "dead" /\ job[j].error \in {"retryable", "timeout"}
            => runs[j] = MaxAttempts

(* A job is acknowledged only when its work was done (resolve).            *)
AckedWasDone == \A j \in Jobs : job[j].state = "acked" => j \in worked

(* Every job is settled in the end, acknowledged or a dead letter, though  *)
(* endpoints hang, leases expire and workers crash (process_reservation).  *)
EveryJobSettles ==
    \A j \in Jobs :
        job[j].state \in {"ready", "leased", "delayed"} ~>
            job[j].state \in {"acked", "dead"}

(* No invocation keeps its runtime for ever, also after the lease was lost *)
(* to another one (run_bounded).                                           *)
WorkersComeBack ==
    \A w \in Workers : worker[w].at # "idle" ~> worker[w].at = "idle"
=============================================================================
