--------------------------- MODULE InvokerProofs ---------------------------
(***************************************************************************)
(* Machine-checked proofs about Invoker, for any number of workers, jobs,  *)
(* attempts and faults, any lease of two ticks or more and any deadline.   *)
(***************************************************************************)
EXTENDS Invoker, TLAPS

JobRecords ==
    [state : {"ready", "leased", "delayed", "acked", "dead", "purged"},
     attempts : 0..(MaxAttempts - 1), holder : Workers \cup {NoOne},
     lease : 0..Lease, error : Verdicts \cup {NoOne}]

WorkerRecords ==
    [at : {"idle", "invoking", "extending", "resolving"},
     job : Jobs \cup {NoOne}, attempts : 0..(MaxAttempts - 1),
     beat : 0..Lease, beating : BOOLEAN, deadline : 0..Deadline,
     verdict : Verdicts \cup {NoOne}]

Busy(w) == worker[w].at # "idle"
Holds(w) == Busy(w) /\ job[worker[w].job].holder = w

(* The inductive invariant.  A busy runtime has a job, and one that still  *)
(* holds it carries the broker's count of attempts (WorkerOK).  The broker *)
(* knows a holder of exactly the leased jobs, and has counted no more      *)
(* attempts than there were invocations, one less while a job is leased    *)
(* (JobOK).  A runtime about to ack has seen its work done (SuccessOK).    *)
(* While nothing was late, a held lease outlasts the heartbeat that will   *)
(* extend it (LeaseOK).                                                    *)
WorkerOK ==
    \A w \in Workers : Busy(w) =>
        /\ worker[w].job \in Jobs
        /\ Holds(w) => worker[w].attempts = job[worker[w].job].attempts

JobOK ==
    \A j \in Jobs :
        /\ job[j].holder # NoOne <=> job[j].state = "leased"
        /\ job[j].attempts <= runs[j]
        /\ job[j].state = "leased" => job[j].attempts + 1 <= runs[j]

SuccessOK ==
    \A w \in Workers :
        worker[w].at = "resolving" =>
            /\ worker[w].verdict \in Verdicts
            /\ worker[w].verdict = "success" => worker[w].job \in worked

LeaseOK ==
    faults = 0 =>
        \A w \in Workers : Busy(w) =>
            /\ job[worker[w].job].holder = w
            /\ job[worker[w].job].lease > 0
            /\ worker[w].at # "resolving" => worker[w].beating
            /\ worker[w].at = "invoking" =>
                  job[worker[w].job].lease > worker[w].beat

Inductive ==
    /\ TypeOK
    /\ WorkerOK /\ JobOK /\ SuccessOK /\ LeaseOK
    /\ DeadLetterJustified
    /\ AckedWasDone

-----------------------------------------------------------------------------
(* Type correctness.                                                       *)

(* What the proofs use of the assumption on the constants.                 *)
LEMMA Bounds ==
    /\ MaxAttempts \in Nat /\ MaxAttempts >= 1
    /\ Lease \in Nat /\ Lease >= 2
    /\ Deadline \in Nat /\ MaxFaults \in Nat
    /\ NoOne \notin Workers /\ NoOne \notin Jobs
BY InvokerAssumption

(* The records the actions build are of the right type.                    *)
LEMMA RecordTypes ==
    /\ Idle \in WorkerRecords
    /\ Queued \in JobRecords
    /\ HeartbeatDelay \in 1..(Lease - 1)
    /\ \A n \in Nat : \A m \in 0..n : Less(m) \in 0..n
BY Bounds
   DEF Idle, Queued, WorkerRecords, JobRecords, HeartbeatDelay, Less

(* A reply is one of three results.                                        *)
LEMMA ResultTypes ==
    \A reply : HttpResult(reply) \in Results /\ SubprocessResult(reply) \in Results
BY DEF HttpResult, SubprocessResult, Results

(* What a broker call makes of a job.                                      *)
LEMMA ResolvedFacts ==
    ASSUME NEW j \in Jobs, job[j] \in JobRecords,
           NEW v \in Verdicts, NEW n \in 0..(MaxAttempts - 1),
           n = job[j].attempts
    PROVE  LET call == Resolution(v, n)
               r == Resolved(j, call, v)
           IN  /\ r \in JobRecords
               /\ r.holder = NoOne
               /\ \/ r.state = "acked" /\ v = "success" /\ r.attempts = n
                  \/ r.state = "delayed" /\ r.attempts = n + 1
                  \/ /\ r.state = "dead" /\ r.error = v /\ r.attempts = n
                     /\ v \in {"retryable", "timeout"} => n + 1 = MaxAttempts
<1>1. PICK free : free = [job[j] EXCEPT !.holder = NoOne, !.lease = 0]
  OBVIOUS
<1>2. /\ free \in JobRecords
      /\ free.holder = NoOne
      /\ free.attempts = n
  <2>1. free = [state |-> job[j].state, attempts |-> n, holder |-> NoOne,
                lease |-> 0, error |-> job[j].error]
    BY <1>1 DEF JobRecords
  <2>. QED  BY <2>1, Bounds DEF JobRecords
<1>3. ASSUME NEW r, r = [free EXCEPT !.state = "acked"], v = "success"
      PROVE  /\ r \in JobRecords /\ r.holder = NoOne
             /\ r.state = "acked" /\ r.attempts = n
  BY <1>2, <1>3 DEF JobRecords
<1>4. ASSUME NEW r, n + 1 < MaxAttempts,
             r = [free EXCEPT !.state = "delayed",
                              !.attempts = free.attempts + 1]
      PROVE  /\ r \in JobRecords /\ r.holder = NoOne
             /\ r.state = "delayed" /\ r.attempts = n + 1
  <2>1. r = [state |-> "delayed", attempts |-> n + 1, holder |-> NoOne,
             lease |-> free.lease, error |-> free.error]
    BY <1>2, <1>4 DEF JobRecords
  <2>2. n + 1 \in 0..(MaxAttempts - 1)
    BY <1>4, Bounds
  <2>. QED  BY <1>2, <2>1, <2>2 DEF JobRecords
<1>5. ASSUME NEW r, r = [free EXCEPT !.state = "dead", !.error = v]
      PROVE  /\ r \in JobRecords /\ r.holder = NoOne
             /\ r.state = "dead" /\ r.error = v /\ r.attempts = n
  <2>1. r = [state |-> "dead", attempts |-> n, holder |-> NoOne,
             lease |-> free.lease, error |-> v]
    BY <1>2, <1>5 DEF JobRecords
  <2>. QED  BY <1>2, <2>1 DEF JobRecords
<1>6. CASE v = "success"
  BY <1>1, <1>3, <1>6 DEF Resolution, Resolved
<1>7. CASE v # "success" /\ Resolution(v, n) = "retry"
  BY <1>1, <1>4, <1>7 DEF Resolution, Resolved
<1>8. CASE v # "success" /\ Resolution(v, n) = "fail"
  <2>1. v \in {"retryable", "timeout"} => n + 1 = MaxAttempts
    BY <1>8, Bounds DEF Resolution
  <2>. QED  BY <1>1, <1>5, <1>8, <2>1 DEF Resolved
<1>. QED  BY <1>6, <1>7, <1>8 DEF Resolution

-----------------------------------------------------------------------------
(* The inductive invariant is preserved.                                   *)

(* The invariant holds with all jobs queued and all runtimes idle.         *)
LEMMA InitInductive == Init => Inductive
<1> SUFFICES ASSUME Init PROVE Inductive
  OBVIOUS
<1>1. TypeOK
  BY RecordTypes, Bounds DEF Init, TypeOK, JobRecords, WorkerRecords
<1>2. WorkerOK /\ SuccessOK /\ LeaseOK
  BY DEF Init, WorkerOK, SuccessOK, LeaseOK, Busy, Idle
<1>3. JobOK /\ DeadLetterJustified /\ AckedWasDone
  BY DEF Init, JobOK, DeadLetterJustified, AckedWasDone, Queued
<1>. QED  BY <1>1, <1>2, <1>3 DEF Inductive

(* A step of one runtime that leaves the broker alone: it gives its job up *)
(* or goes on with it, and if it is about to ack, the work was done.       *)
LEMMA RuntimeStep ==
    ASSUME Inductive,
           NEW w \in Workers, NEW r \in WorkerRecords, Busy(w),
           worker' = [worker EXCEPT ![w] = r],
           UNCHANGED <<job, runs>>,
           worked \subseteq worked', worked' \subseteq Jobs,
           strays' \subseteq Jobs,
           faults' \in {faults, faults + 1}, faults' \in 0..MaxFaults,
           r.at # "idle" => /\ r.job = worker[w].job
                            /\ r.attempts = worker[w].attempts,
           r.at = "resolving" =>
               /\ r.verdict \in Verdicts
               /\ r.verdict = "success" => r.job \in worked',
           r.at = "invoking" => faults' # 0,
           r.at = "extending" => r.beating
    PROVE  Inductive'
<1>1. /\ worker'[w] = r
      /\ \A v \in Workers : v # w => worker'[v] = worker[v]
      /\ worker' \in [Workers -> WorkerRecords]
  BY DEF Inductive, TypeOK, WorkerRecords
<1>2. TypeOK'
  BY <1>1 DEF Inductive, TypeOK, WorkerRecords
<1>3. WorkerOK'
  BY <1>1 DEF Inductive, WorkerOK, Busy, Holds
<1>4. JobOK' /\ DeadLetterJustified' /\ AckedWasDone'
  BY DEF Inductive, JobOK, DeadLetterJustified, AckedWasDone
<1>5. SuccessOK'
  BY <1>1 DEF Inductive, SuccessOK
<1>6. LeaseOK'
  <2>1. SUFFICES ASSUME faults' = 0, NEW v \in Workers, Busy(v)'
                 PROVE  /\ job[worker'[v].job].holder = v
                        /\ job[worker'[v].job].lease > 0
                        /\ worker'[v].at # "resolving" => worker'[v].beating
                        /\ worker'[v].at = "invoking" =>
                              job[worker'[v].job].lease > worker'[v].beat
    BY DEF LeaseOK
  <2>2. faults = 0
    BY <2>1 DEF Inductive, TypeOK
  <2>3. r.at \in {"idle", "invoking", "extending", "resolving"}
    BY DEF WorkerRecords
  <2>. QED  BY <1>1, <2>1, <2>2, <2>3 DEF Inductive, LeaseOK, Busy
<1>. QED  BY <1>2, <1>3, <1>4, <1>5, <1>6 DEF Inductive

(* A step of the broker that gives a job free, or changes one that is      *)
(* free, with nobody working on it as long as nothing was late.            *)
LEMMA BrokerStep ==
    ASSUME Inductive,
           NEW j \in Jobs, NEW r \in JobRecords,
           job' = [job EXCEPT ![j] = r],
           UNCHANGED <<worker, worked, strays, faults>>,
           runs' \in [Jobs -> 0..MaxAttempts],
           \A i \in Jobs : i # j => runs'[i] = runs[i],
           job[j].holder = NoOne \/ job[j].lease = 0,
           r.holder = NoOne,
           r.state \in {"ready", "delayed", "purged"},
           r.attempts <= runs'[j]
    PROVE  Inductive'
<1>1. /\ job'[j] = r
      /\ \A i \in Jobs : i # j => job'[i] = job[i]
      /\ job' \in [Jobs -> JobRecords]
  BY DEF Inductive, TypeOK, JobRecords
<1>2. TypeOK'
  BY <1>1 DEF Inductive, TypeOK, JobRecords
<1>3. WorkerOK'
  BY <1>1, Bounds DEF Inductive, WorkerOK, Busy, Holds
<1>4. JobOK'
  BY <1>1, Bounds DEF Inductive, JobOK
<1>5. DeadLetterJustified' /\ AckedWasDone'
  BY <1>1 DEF Inductive, DeadLetterJustified, AckedWasDone
<1>6. SuccessOK'
  BY DEF Inductive, SuccessOK
<1>7. LeaseOK'
  <2>1. ASSUME faults = 0, NEW v \in Workers, Busy(v)
        PROVE  worker[v].job \in Jobs /\ worker[v].job # j
    BY <2>1, Bounds DEF Inductive, LeaseOK, WorkerOK
  <2>. QED  BY <1>1, <2>1 DEF Inductive, LeaseOK, Busy
<1>. QED  BY <1>2, <1>3, <1>4, <1>5, <1>6, <1>7 DEF Inductive

(* Taking a job.                                                           *)
LEMMA ReserveInductive ==
    ASSUME Inductive, NEW w \in Workers, NEW j \in Jobs, Reserve(w, j)
    PROVE  Inductive'
<1>1. /\ job'[j] = [state |-> "leased", attempts |-> job[j].attempts,
                    holder |-> w, lease |-> Lease, error |-> job[j].error]
      /\ \A i \in Jobs : i # j => job'[i] = job[i]
      /\ DOMAIN job' = Jobs
  <2>1. /\ job \in [Jobs -> JobRecords]
        /\ job' = [job EXCEPT ![j].state = "leased", ![j].holder = w,
                              ![j].lease = Lease]
    BY DEF Inductive, TypeOK, JobRecords, Reserve
  <2>2. \A i \in Jobs : i # j => job'[i] = job[i]
    BY <2>1
  <2>3. DOMAIN job' = Jobs
    BY <2>1
  <2>4. job'[j] = [state |-> "leased", attempts |-> job[j].attempts,
                   holder |-> w, lease |-> Lease, error |-> job[j].error]
    BY <2>1, ZenonT(40) DEF JobRecords
  <2>. QED  BY <2>2, <2>3, <2>4
<1>2. worker'[w] = [at |-> "invoking", job |-> j, attempts |-> job[j].attempts,
                    beat |-> HeartbeatDelay, beating |-> TRUE,
                    deadline |-> Deadline, verdict |-> NoOne]
  <2>1. PICK r : r = [Idle EXCEPT !.at = "invoking", !.job = j,
                          !.attempts = job[j].attempts,
                          !.beat = HeartbeatDelay, !.beating = TRUE,
                          !.deadline = Deadline]
    OBVIOUS
  <2>2. worker'[w] = r
    BY <2>1 DEF Inductive, TypeOK, Reserve
  <2>3. r = [at |-> "invoking", job |-> j, attempts |-> job[j].attempts,
             beat |-> HeartbeatDelay, beating |-> TRUE, deadline |-> Deadline,
             verdict |-> NoOne]
    BY <2>1 DEF Idle
  <2>. QED  BY <2>2, <2>3
<1>3. /\ \A v \in Workers : v # w => worker'[v] = worker[v]
      /\ DOMAIN worker' = Workers
  BY DEF Inductive, TypeOK, Reserve
<1>4. /\ job'[j] \in JobRecords
      /\ job[j].attempts \in 0..(MaxAttempts - 1)
  BY <1>1, Bounds DEF Inductive, TypeOK, JobRecords
<1>5. worker'[w] \in WorkerRecords
  BY <1>2, <1>4, RecordTypes, Bounds DEF WorkerRecords
<1>6. /\ runs' \in [Jobs -> 0..MaxAttempts]
      /\ job[j].attempts + 1 <= runs'[j]
      /\ \A i \in Jobs : i # j => runs'[i] = runs[i]
  BY <1>4, Bounds DEF Inductive, TypeOK, JobOK, Reserve
<1>7. job[j].holder = NoOne /\ worker[w].at = "idle" /\ job[j].state = "ready"
  BY DEF Inductive, JobOK, Reserve
<1>8. UNCHANGED <<worked, strays, faults>>
  BY DEF Reserve
<1>9. TypeOK'
  <2>1. job' \in [Jobs -> JobRecords]
    <3>1. \A i \in Jobs : job'[i] \in JobRecords
      BY <1>1, <1>4 DEF Inductive, TypeOK, JobRecords
    <3>2. job' = [i \in Jobs |-> job'[i]]
      BY DEF Reserve, Inductive, TypeOK
    <3>. QED  BY <3>1, <3>2
  <2>2. worker' \in [Workers -> WorkerRecords]
    <3>1. \A v \in Workers : worker'[v] \in WorkerRecords
      BY <1>3, <1>5 DEF Inductive, TypeOK, WorkerRecords
    <3>2. worker' = [v \in Workers |-> worker'[v]]
      BY DEF Reserve, Inductive, TypeOK
    <3>. QED  BY <3>1, <3>2
  <2>. QED  BY <1>6, <1>8, <2>1, <2>2 DEF Inductive, TypeOK, JobRecords,
                                        WorkerRecords
<1>10. WorkerOK'
  BY <1>1, <1>2, <1>3, <1>7, Bounds DEF Inductive, WorkerOK, Busy, Holds
<1>11. JobOK'
  BY <1>1, <1>4, <1>6, Bounds DEF Inductive, JobOK
<1>12. DeadLetterJustified' /\ AckedWasDone'
  BY <1>1, <1>6, <1>8 DEF Inductive, DeadLetterJustified, AckedWasDone
<1>13. SuccessOK'
  BY <1>2, <1>3, <1>8 DEF Inductive, SuccessOK
<1>14. LeaseOK'
  <2>1. ASSUME faults = 0, NEW v \in Workers, Busy(v)
        PROVE  v # w /\ worker[v].job \in Jobs /\ worker[v].job # j
    BY <2>1, <1>7, Bounds DEF Inductive, LeaseOK, WorkerOK, Busy
  <2>2. Lease > HeartbeatDelay /\ Lease > 0
    BY RecordTypes, Bounds
  <2>. QED  BY <1>1, <1>2, <1>3, <1>8, <2>1, <2>2
            DEF Inductive, LeaseOK, Busy
<1>. QED
  BY <1>9, <1>10, <1>11, <1>12, <1>13, <1>14 DEF Inductive

(* The wait ends with a verdict: the runtime keeps its job and attempts.   *)
LEMMA ConcludeFacts ==
    ASSUME TypeOK, NEW w \in Workers, NEW v \in Verdicts, Conclude(w, v)
    PROVE  \E r \in WorkerRecords :
               /\ worker' = [worker EXCEPT ![w] = r]
               /\ r.at = "resolving" /\ r.verdict = v
               /\ r.job = worker[w].job /\ r.attempts = worker[w].attempts
<1>1. worker \in [Workers -> WorkerRecords]
  BY DEF TypeOK, WorkerRecords
<1>2. worker' = [worker EXCEPT ![w].at = "resolving", ![w].verdict = v]
  BY DEF Conclude
<1>3. PICK r : r = [worker[w] EXCEPT !.at = "resolving", !.verdict = v]
  OBVIOUS
<1>4. r = [at |-> "resolving", job |-> worker[w].job,
           attempts |-> worker[w].attempts, beat |-> worker[w].beat,
           beating |-> worker[w].beating, deadline |-> worker[w].deadline,
           verdict |-> v]
  BY <1>1, <1>3 DEF WorkerRecords
<1>5. r \in WorkerRecords
  BY <1>1, <1>4 DEF WorkerRecords
<1>6. worker' = [worker EXCEPT ![w] = r]
  BY <1>1, <1>2, <1>3
<1>. QED  BY <1>4, <1>5, <1>6

(* A verdict that leaves the broker alone.                                 *)
LEMMA ConcludeInductive ==
    ASSUME Inductive, NEW w \in Workers, Busy(w),
           NEW v \in Verdicts, Conclude(w, v),
           UNCHANGED <<job, runs>>,
           worked \subseteq worked', worked' \subseteq Jobs,
           strays' \subseteq Jobs,
           faults' \in {faults, faults + 1}, faults' \in 0..MaxFaults,
           v = "success" => worker[w].job \in worked'
    PROVE  Inductive'
<1>1. TypeOK
  BY DEF Inductive
<1>2. PICK r \in WorkerRecords :
               /\ worker' = [worker EXCEPT ![w] = r]
               /\ r.at = "resolving" /\ r.verdict = v
               /\ r.job = worker[w].job /\ r.attempts = worker[w].attempts
  BY <1>1, ConcludeFacts
<1>. QED  BY <1>2, RuntimeStep

(* The invocation returns.                                                 *)
LEMMA InvocationEndsInductive ==
    ASSUME Inductive, NEW w \in Workers, InvocationEnds(w)
    PROVE  Inductive'
<1>. DEFINE j == worker[w].job
<1>1. /\ Busy(w)
      /\ UNCHANGED <<job, runs, faults>>
      /\ faults \in 0..MaxFaults /\ worked \subseteq Jobs
      /\ strays \subseteq Jobs
  BY DEF InvocationEnds, Busy, Inductive, TypeOK
<1>2. j \in Jobs
  BY <1>1 DEF Inductive, WorkerOK
<1>3. CASE /\ Conclude(w, "terminal")
           /\ UNCHANGED <<worked, strays>>
  BY <1>1, <1>3, ConcludeInductive DEF Verdicts, Results
<1>4. ASSUME NEW reply \in Replies(w),
             Conclude(w, IF w \in HttpWorkers THEN HttpResult(reply)
                         ELSE SubprocessResult(reply)),
             worked' \in {worked \cup {j}} \cup
                         IF Done(w, reply) THEN {} ELSE {worked},
             IF reply = NoReply THEN Abandon(w, j) ELSE UNCHANGED strays
      PROVE  Inductive'
  <2>. DEFINE v == IF w \in HttpWorkers THEN HttpResult(reply)
                   ELSE SubprocessResult(reply)
  <2>1. v \in Verdicts
    BY ResultTypes DEF Verdicts
  <2>2. v = "success" => Done(w, reply)
    BY DEF HttpResult, SubprocessResult, Done
  <2>3. /\ worked \subseteq worked' /\ worked' \subseteq Jobs
        /\ Done(w, reply) => j \in worked'
    BY <1>1, <1>2, <1>4
  <2>4. strays' \subseteq Jobs
    BY <1>1, <1>2, <1>4 DEF Abandon
  <2>5. Conclude(w, v)
    BY <1>4
  <2>. HIDE DEF v
  <2>. QED  BY <1>1, <2>1, <2>2, <2>3, <2>4, <2>5, ConcludeInductive
<1>. QED  BY <1>3, <1>4 DEF InvocationEnds

(* The deadline, or an extend that fails, ends the wait.                   *)
LEMMA AbandonInductive ==
    ASSUME Inductive, NEW w \in Workers, DeadlineFires(w) \/ ExtendFails(w)
    PROVE  Inductive'
<1>. DEFINE j == worker[w].job
<1>1. /\ Busy(w)
      /\ UNCHANGED <<job, runs>>
      /\ worked' \in {worked, worked \cup {j}}
      /\ Abandon(w, j)
      /\ UNCHANGED faults \/ Fault
  BY DEF DeadlineFires, ExtendFails, Busy
<1>2. /\ faults' \in {faults, faults + 1} /\ faults' \in 0..MaxFaults
  BY <1>1, Bounds DEF Fault, Inductive, TypeOK
<1>3. j \in Jobs
  BY <1>1 DEF Inductive, WorkerOK
<1>4. /\ worked \subseteq worked' /\ worked' \subseteq Jobs
      /\ strays' \subseteq Jobs
  BY <1>1, <1>3 DEF Abandon, Inductive, TypeOK
<1>5. Conclude(w, "timeout") \/ Conclude(w, "heartbeat")
  BY DEF DeadlineFires, ExtendFails
<1>. QED  BY <1>1, <1>2, <1>4, <1>5, ConcludeInductive DEF Verdicts

(* The runtime's process ends.                                             *)
LEMMA CrashInductive ==
    ASSUME Inductive, NEW w \in Workers, Crash(w)
    PROVE  Inductive'
<1>. DEFINE j == worker[w].job
<1>1. /\ Busy(w)
      /\ UNCHANGED <<job, runs>>
      /\ Fault
      /\ worker' = [worker EXCEPT ![w] = Idle]
      /\ worked' \in {worked, worked \cup {j}}
      /\ UNCHANGED strays \/ Abandon(w, j)
  BY DEF Crash, Busy
<1>2. /\ faults' \in {faults, faults + 1} /\ faults' \in 0..MaxFaults
  BY <1>1, Bounds DEF Fault, Inductive, TypeOK
<1>3. j \in Jobs
  BY <1>1 DEF Inductive, WorkerOK
<1>4. /\ worked \subseteq worked' /\ worked' \subseteq Jobs
      /\ strays' \subseteq Jobs
  BY <1>1, <1>3 DEF Abandon, Inductive, TypeOK
<1>5. Idle \in WorkerRecords /\ Idle.at = "idle"
  BY RecordTypes DEF Idle
<1>. QED  BY <1>1, <1>2, <1>4, <1>5, RuntimeStep

(* The heartbeat: its timer fires, or its extend finds the lease lost.     *)
LEMMA HeartbeatInductive ==
    ASSUME Inductive, NEW w \in Workers, HeartbeatFires(w) \/ ExtendStale(w)
    PROVE  Inductive'
<1>1. worker \in [Workers -> WorkerRecords]
  BY DEF Inductive, TypeOK, WorkerRecords
<1>2. /\ Busy(w) /\ UNCHANGED <<job, runs, worked, strays, faults>>
      /\ worked \subseteq Jobs /\ strays \subseteq Jobs
      /\ faults \in 0..MaxFaults
  BY DEF HeartbeatFires, ExtendStale, Busy, Inductive, TypeOK
<1>3. CASE HeartbeatFires(w)
  <2>1. PICK r : r = [worker[w] EXCEPT !.at = "extending"]
    OBVIOUS
  <2>2. /\ r \in WorkerRecords /\ r.at = "extending"
        /\ r.job = worker[w].job /\ r.attempts = worker[w].attempts
        /\ r.beating
    BY <1>1, <1>3, <2>1 DEF WorkerRecords, HeartbeatFires
  <2>3. worker' = [worker EXCEPT ![w] = r]
    BY <1>1, <1>3, <2>1 DEF HeartbeatFires
  <2>. QED  BY <1>2, <2>2, <2>3, RuntimeStep
<1>4. CASE ExtendStale(w)
  <2>1. PICK r : r = [worker[w] EXCEPT !.at = "invoking", !.beating = FALSE]
    OBVIOUS
  <2>2. r = [at |-> "invoking", job |-> worker[w].job,
             attempts |-> worker[w].attempts, beat |-> worker[w].beat,
             beating |-> FALSE, deadline |-> worker[w].deadline,
             verdict |-> worker[w].verdict]
    BY <1>1, <2>1 DEF WorkerRecords
  <2>3. r \in WorkerRecords
    BY <1>1, <2>2 DEF WorkerRecords
  <2>4. worker' = [worker EXCEPT ![w] = r]
    BY <1>1, <1>4, <2>1 DEF ExtendStale
  <2>5. faults # 0
    BY <1>2, <1>4 DEF ExtendStale, Inductive, LeaseOK
  <2>. QED  BY <1>2, <2>2, <2>3, <2>4, <2>5, RuntimeStep
<1>. QED  BY <1>3, <1>4

(* The heartbeat extends the lease.                                        *)
LEMMA ExtendOkInductive ==
    ASSUME Inductive, NEW w \in Workers, ExtendOk(w)
    PROVE  Inductive'
<1>. DEFINE j == worker[w].job
<1>1. /\ job \in [Jobs -> JobRecords] /\ worker \in [Workers -> WorkerRecords]
      /\ Busy(w) /\ j \in Jobs /\ job[j].holder = w
      /\ UNCHANGED <<runs, worked, strays, faults>>
  BY DEF Inductive, TypeOK, JobRecords, WorkerRecords, WorkerOK, ExtendOk, Busy
<1>2. PICK r : r = [job[j] EXCEPT !.lease = Lease]
  OBVIOUS
<1>3. /\ r \in JobRecords /\ r.state = job[j].state /\ r.holder = w
      /\ r.attempts = job[j].attempts /\ r.lease = Lease
      /\ r.error = job[j].error
  BY <1>1, <1>2, Bounds DEF JobRecords
<1>4. job' = [job EXCEPT ![j] = r]
  BY <1>1, <1>2 DEF ExtendOk
<1>5. PICK q : q = [worker[w] EXCEPT !.at = "invoking",
                                     !.beat = HeartbeatDelay]
  OBVIOUS
<1>6. q = [at |-> "invoking", job |-> j, attempts |-> worker[w].attempts,
           beat |-> HeartbeatDelay, beating |-> worker[w].beating,
           deadline |-> worker[w].deadline, verdict |-> worker[w].verdict]
  BY <1>1, <1>5 DEF WorkerRecords
<1>7. q \in WorkerRecords
  BY <1>1, <1>6, RecordTypes, Bounds DEF WorkerRecords
<1>8. worker' = [worker EXCEPT ![w] = q]
  BY <1>1, <1>5 DEF ExtendOk
<1>9. /\ job'[j] = r /\ \A i \in Jobs : i # j => job'[i] = job[i]
      /\ job' \in [Jobs -> JobRecords]
  BY <1>1, <1>3, <1>4
<1>10. /\ worker'[w] = q /\ \A v \in Workers : v # w => worker'[v] = worker[v]
       /\ worker' \in [Workers -> WorkerRecords]
  BY <1>1, <1>7, <1>8
<1>11. TypeOK'
  BY <1>1, <1>9, <1>10 DEF Inductive, TypeOK, JobRecords, WorkerRecords
<1>12. WorkerOK'
  BY <1>1, <1>3, <1>6, <1>9, <1>10 DEF Inductive, WorkerOK, Busy, Holds
<1>13. JobOK'
  BY <1>1, <1>3, <1>9 DEF Inductive, JobOK
<1>14. DeadLetterJustified' /\ AckedWasDone'
  BY <1>1, <1>3, <1>9 DEF Inductive, DeadLetterJustified, AckedWasDone
<1>15. SuccessOK'
  BY <1>1, <1>6, <1>10 DEF Inductive, SuccessOK
<1>16. LeaseOK'
  <2>1. faults = 0 => q.beating
    BY <1>1, <1>6 DEF Inductive, LeaseOK, ExtendOk
  <2>2. ASSUME faults = 0, NEW v \in Workers, v # w, Busy(v)
        PROVE  worker[v].job \in Jobs /\ worker[v].job # j
    BY <1>1, <2>2 DEF Inductive, LeaseOK, WorkerOK
  <2>3. Lease > HeartbeatDelay /\ Lease > 0
    BY RecordTypes, Bounds
  <2>4. SUFFICES ASSUME faults = 0, NEW v \in Workers, Busy(v)'
                 PROVE  /\ job'[worker'[v].job].holder = v
                        /\ job'[worker'[v].job].lease > 0
                        /\ worker'[v].at # "resolving" => worker'[v].beating
                        /\ worker'[v].at = "invoking" =>
                              job'[worker'[v].job].lease > worker'[v].beat
    BY <1>1 DEF LeaseOK
  <2>5. CASE v = w
    BY <1>3, <1>6, <1>9, <1>10, <2>1, <2>3, <2>4, <2>5
  <2>6. CASE v # w
    BY <1>9, <1>10, <2>2, <2>4, <2>6 DEF Inductive, LeaseOK, Busy
  <2>. QED  BY <2>5, <2>6
<1>. QED  BY <1>11, <1>12, <1>13, <1>14, <1>15, <1>16 DEF Inductive

(* The call that resolves a job lands, on a receipt that is still good or  *)
(* on a stale one, or fails without effect.                                *)
LEMMA ResolveInductive ==
    ASSUME Inductive, NEW w \in Workers, Resolve(w) \/ ResolveFails(w)
    PROVE  Inductive'
<1>0. PICK j, v, n : /\ j = worker[w].job /\ v = worker[w].verdict
                     /\ n = worker[w].attempts
  OBVIOUS
<1>1. /\ job \in [Jobs -> JobRecords] /\ worker \in [Workers -> WorkerRecords]
      /\ worker[w].at = "resolving" /\ Busy(w)
      /\ worker' = [worker EXCEPT ![w] = Idle]
      /\ UNCHANGED <<runs, worked, strays>>
      /\ UNCHANGED faults \/ Fault
      /\ Lands(w) \/ UNCHANGED job
  BY DEF Inductive, TypeOK, JobRecords, WorkerRecords, Resolve, ResolveFails,
         Busy
<1>2. /\ faults' \in {faults, faults + 1} /\ faults' \in 0..MaxFaults
      /\ faults' = 0 => faults = 0
  BY <1>1, Bounds DEF Fault, Inductive, TypeOK
<1>3. /\ j \in Jobs /\ v \in Verdicts
      /\ v = "success" => j \in worked
      /\ job[j].holder = w => n = job[j].attempts
  BY <1>0, <1>1 DEF Inductive, WorkerOK, SuccessOK, Holds
<1>4. /\ Idle \in WorkerRecords /\ Idle.at = "idle"
  BY RecordTypes DEF Idle
<1>5. /\ worker'[w] = Idle /\ \A u \in Workers : u # w => worker'[u] = worker[u]
      /\ worker' \in [Workers -> WorkerRecords]
  BY <1>1, <1>4
<1>6. CASE UNCHANGED job
  <2>1. worked \subseteq Jobs /\ strays \subseteq Jobs
    BY DEF Inductive, TypeOK
  <2>. QED  BY <1>1, <1>2, <1>4, <1>6, <2>1, RuntimeStep
<1>7. CASE job[j].holder = w /\ Lands(w)
  <2>1. /\ n \in 0..(MaxAttempts - 1) /\ job[j] \in JobRecords
        /\ n = job[j].attempts
    BY <1>1, <1>3, <1>7 DEF JobRecords
  <2>2. PICK r : r = Resolved(j, Resolution(v, n), v)
    OBVIOUS
  <2>3. /\ r \in JobRecords
        /\ r.holder = NoOne
        /\ \/ r.state = "acked" /\ v = "success" /\ r.attempts = n
           \/ r.state = "delayed" /\ r.attempts = n + 1
           \/ /\ r.state = "dead" /\ r.error = v /\ r.attempts = n
              /\ v \in {"retryable", "timeout"} => n + 1 = MaxAttempts
    BY <1>3, <2>1, <2>2, ResolvedFacts
  <2>4. job' = [job EXCEPT ![j] = r]
    BY <1>0, <1>7, <2>2 DEF Lands
  <2>5. /\ job'[j] = r /\ \A i \in Jobs : i # j => job'[i] = job[i]
        /\ job' \in [Jobs -> JobRecords]
    BY <1>1, <1>3, <2>3, <2>4
  <2>6. job[j].state = "leased" /\ n + 1 <= runs[j]
    BY <1>3, <1>7, <2>1, Bounds DEF Inductive, JobOK
  <2>7. TypeOK'
    BY <1>1, <1>2, <1>5, <2>5 DEF Inductive, TypeOK, JobRecords, WorkerRecords
  <2>8. WorkerOK'
    BY <1>4, <1>5, <2>3, <2>5, Bounds DEF Inductive, WorkerOK, Busy, Holds
  <2>9. JobOK'
    <3>1. r.attempts <= runs[j] /\ r.state # "leased"
      BY <1>3, <2>1, <2>3, <2>6, Bounds DEF Inductive, TypeOK
    <3>. QED  BY <1>1, <2>3, <2>5, <3>1 DEF Inductive, JobOK
  <2>10. DeadLetterJustified'
    <3>1. v \in {"retryable", "timeout"} /\ r.state = "dead"
             => runs[j] = MaxAttempts
      BY <1>3, <2>1, <2>3, <2>6, Bounds DEF Inductive, TypeOK
    <3>. QED  BY <1>1, <2>3, <2>5, <3>1 DEF Inductive, DeadLetterJustified
  <2>11. AckedWasDone'
    BY <1>1, <1>3, <2>3, <2>5 DEF Inductive, AckedWasDone
  <2>12. SuccessOK'
    BY <1>1, <1>4, <1>5 DEF Inductive, SuccessOK
  <2>13. LeaseOK'
    <3>1. ASSUME faults = 0, NEW u \in Workers, u # w, Busy(u)
          PROVE  worker[u].job \in Jobs /\ worker[u].job # j
      BY <1>7, <3>1 DEF Inductive, LeaseOK, WorkerOK
    <3>. QED  BY <1>2, <1>4, <1>5, <2>5, <3>1 DEF Inductive, LeaseOK, Busy
  <2>. QED  BY <2>7, <2>8, <2>9, <2>10, <2>11, <2>12, <2>13 DEF Inductive
<1>. QED  BY <1>0, <1>1, <1>6, <1>7 DEF Lands

(* A lease runs out, a delay ends, or a dead letter is queued again.       *)
LEMMA BrokerInductive ==
    ASSUME Inductive, NEW j \in Jobs, Expire(j) \/ DelayEnds(j) \/ Requeue(j)
    PROVE  Inductive'
<1>1. /\ job \in [Jobs -> JobRecords] /\ runs \in [Jobs -> 0..MaxAttempts]
      /\ UNCHANGED <<worker, worked, strays, faults>>
      /\ job[j].attempts <= runs[j]
  BY DEF Inductive, TypeOK, JobRecords, JobOK, Expire, DelayEnds, Requeue
<1>2. CASE Expire(j)
  <2>1. PICK r : r = [job[j] EXCEPT !.state = "ready", !.holder = NoOne]
    OBVIOUS
  <2>2. r = [state |-> "ready", attempts |-> job[j].attempts,
             holder |-> NoOne, lease |-> job[j].lease, error |-> job[j].error]
    BY <1>1, <2>1 DEF JobRecords
  <2>3. r \in JobRecords
    BY <1>1, <2>2 DEF JobRecords
  <2>4. job' = [job EXCEPT ![j] = r] /\ UNCHANGED runs /\ job[j].lease = 0
    BY <1>1, <1>2, <2>1 DEF Expire
  <2>. QED  BY <1>1, <2>2, <2>3, <2>4, BrokerStep
<1>3. CASE DelayEnds(j)
  <2>1. PICK r : r = [job[j] EXCEPT !.state = "ready"]
    OBVIOUS
  <2>2. job[j].holder = NoOne
    BY <1>3 DEF Inductive, JobOK, DelayEnds
  <2>3. /\ r \in JobRecords /\ r.state = "ready" /\ r.holder = NoOne
        /\ r.attempts = job[j].attempts
    BY <1>1, <2>1, <2>2 DEF JobRecords
  <2>4. job' = [job EXCEPT ![j] = r] /\ UNCHANGED runs
    BY <1>1, <1>3, <2>1 DEF DelayEnds
  <2>. QED  BY <1>1, <2>2, <2>3, <2>4, BrokerStep
<1>4. CASE Requeue(j)
  <2>1. job[j].holder = NoOne
    BY <1>4 DEF Inductive, JobOK, Requeue
  <2>2. CASE job' = [job EXCEPT ![j] = Queued] /\ runs' = [runs EXCEPT ![j] = 0]
    <3>1. /\ Queued \in JobRecords /\ Queued.state = "ready"
          /\ Queued.holder = NoOne /\ Queued.attempts = 0
      BY RecordTypes DEF Queued
    <3>2. /\ runs' \in [Jobs -> 0..MaxAttempts] /\ runs'[j] = 0
          /\ \A i \in Jobs : i # j => runs'[i] = runs[i]
      BY <1>1, <2>2, Bounds
    <3>3. /\ Queued.state \in {"ready", "delayed", "purged"}
          /\ Queued.attempts <= runs'[j]
      BY <3>1, <3>2
    <3>4. job' = [job EXCEPT ![j] = Queued]
      BY <2>2
    <3>. QED  BY <1>1, <2>1, <3>1, <3>2, <3>3, <3>4, BrokerStep
  <2>3. CASE /\ job' = [job EXCEPT ![j] = [Queued EXCEPT
                                              !.attempts = job[j].attempts]]
             /\ UNCHANGED runs
    <3>1. PICK r : r = [Queued EXCEPT !.attempts = job[j].attempts]
      OBVIOUS
    <3>2. r = [state |-> "ready", attempts |-> job[j].attempts,
               holder |-> NoOne, lease |-> 0, error |-> NoOne]
      BY <3>1 DEF Queued
    <3>3. /\ r \in JobRecords /\ r.state = "ready" /\ r.holder = NoOne
          /\ r.attempts = job[j].attempts
      BY <1>1, <3>2, Bounds DEF JobRecords
    <3>4. job' = [job EXCEPT ![j] = r]
      BY <2>3, <3>1
    <3>. QED  BY <1>1, <2>1, <2>3, <3>3, <3>4, BrokerStep
  <2>. QED  BY <1>4, <2>2, <2>3 DEF Requeue
<1>. QED  BY <1>2, <1>3, <1>4

(* The dead letters are purged.                                            *)
LEMMA PurgeInductive ==
    ASSUME Inductive, Purge
    PROVE  Inductive'
<1>1. /\ job \in [Jobs -> JobRecords]
      /\ UNCHANGED <<worker, runs, worked, strays, faults>>
  BY DEF Inductive, TypeOK, JobRecords, Purge
<1>2. ASSUME NEW j \in Jobs
      PROVE  /\ job'[j] \in JobRecords
             /\ job'[j].holder = job[j].holder /\ job'[j].lease = job[j].lease
             /\ job'[j].attempts = job[j].attempts
             /\ \/ job'[j].state = job[j].state /\ job'[j].error = job[j].error
                \/ job[j].state = "dead" /\ job'[j].state = "purged"
  <2>1. PICK r : r = [job[j] EXCEPT !.state = "purged"]
    OBVIOUS
  <2>2. /\ r \in JobRecords /\ r.state = "purged"
        /\ r.holder = job[j].holder /\ r.lease = job[j].lease
        /\ r.attempts = job[j].attempts
    BY <1>1, <2>1 DEF JobRecords
  <2>3. job'[j] = IF job[j].state = "dead" THEN r ELSE job[j]
    BY <2>1 DEF Purge
  <2>. QED  BY <1>1, <2>2, <2>3
<1>3. TypeOK'
  <2>1. job' \in [Jobs -> JobRecords]
    <3>1. job' = [j \in Jobs |-> job'[j]]
      BY DEF Purge
    <3>. QED  BY <1>2, <3>1
  <2>. QED  BY <1>1, <2>1 DEF Inductive, TypeOK, JobRecords
<1>4. WorkerOK'
  BY <1>1, <1>2 DEF Inductive, WorkerOK, Busy, Holds
<1>5. JobOK' /\ DeadLetterJustified' /\ AckedWasDone'
  BY <1>1, <1>2 DEF Inductive, JobOK, DeadLetterJustified, AckedWasDone
<1>6. SuccessOK'
  BY <1>1 DEF Inductive, SuccessOK
<1>7. LeaseOK'
  BY <1>1, <1>2 DEF Inductive, LeaseOK, WorkerOK, Busy
<1>. QED  BY <1>3, <1>4, <1>5, <1>6, <1>7 DEF Inductive

(* The clock ticks.  A lease of a runtime that is not late still has a     *)
(* tick left afterwards; one that is late is a fault.                      *)
LEMMA TickInductive ==
    ASSUME Inductive, Tick
    PROVE  Inductive'
<1>1. /\ job \in [Jobs -> JobRecords] /\ worker \in [Workers -> WorkerRecords]
      /\ UNCHANGED <<runs, worked, strays>>
  BY DEF Inductive, TypeOK, JobRecords, WorkerRecords, Tick
<1>2. ASSUME NEW j \in Jobs
      PROVE  /\ job'[j] \in JobRecords
             /\ job'[j].state = job[j].state /\ job'[j].error = job[j].error
             /\ job'[j].attempts = job[j].attempts
             /\ job'[j].holder = job[j].holder
             /\ job'[j].lease = Less(job[j].lease)
  <2>1. job'[j] = [job[j] EXCEPT !.lease = Less(job[j].lease)]
    BY DEF Tick
  <2>2. Less(job[j].lease) \in 0..Lease
    <3>1. job[j].lease \in 0..Lease
      BY <1>1 DEF JobRecords
    <3>. QED  BY <3>1, Bounds DEF Less
  <2>. QED  BY <1>1, <2>1, <2>2 DEF JobRecords
<1>3. ASSUME NEW w \in Workers
      PROVE  /\ worker'[w] \in WorkerRecords
             /\ worker'[w].at = worker[w].at /\ worker'[w].job = worker[w].job
             /\ worker'[w].attempts = worker[w].attempts
             /\ worker'[w].beat = Less(worker[w].beat)
             /\ worker'[w].beating = worker[w].beating
             /\ worker'[w].verdict = worker[w].verdict
  <2>1. PICK r : r = [worker[w] EXCEPT !.beat = Less(worker[w].beat),
                                       !.deadline = Less(worker[w].deadline)]
    OBVIOUS
  <2>2. worker'[w] = r
    BY <2>1 DEF Tick
  <2>3. /\ Less(worker[w].beat) \in 0..Lease
        /\ Less(worker[w].deadline) \in 0..Deadline
    BY <1>1, Bounds DEF WorkerRecords, Less
  <2>4. r = [at |-> worker[w].at, job |-> worker[w].job,
             attempts |-> worker[w].attempts, beat |-> Less(worker[w].beat),
             beating |-> worker[w].beating,
             deadline |-> Less(worker[w].deadline),
             verdict |-> worker[w].verdict]
    BY <1>1, <2>1 DEF WorkerRecords
  <2>5. r \in WorkerRecords
    BY <1>1, <2>3, <2>4 DEF WorkerRecords
  <2>. QED  BY <2>2, <2>4, <2>5
<1>4. (\E w \in Workers : Late(w)) => faults' # 0
  <2>1. (\E w \in Workers : Late(w)) => Fault
    BY DEF Tick
  <2>2. faults \in Nat
    BY Bounds DEF Inductive, TypeOK
  <2>. QED  BY <2>1, <2>2 DEF Fault
<1>5. UNCHANGED faults \/ Fault
  BY DEF Tick
<1>6. /\ faults' \in 0..MaxFaults
      /\ faults' = 0 => faults = 0
  BY <1>5, Bounds DEF Inductive, TypeOK, Fault
<1>7. TypeOK'
  <2>1. job' \in [Jobs -> JobRecords] /\ worker' \in [Workers -> WorkerRecords]
    <3>1. /\ job' = [j \in Jobs |-> job'[j]]
          /\ worker' = [w \in Workers |-> worker'[w]]
      BY DEF Tick
    <3>. QED  BY <1>2, <1>3, <3>1
  <2>. QED  BY <1>1, <1>6, <2>1 DEF Inductive, TypeOK, JobRecords, WorkerRecords
<1>8. WorkerOK'
  BY <1>2, <1>3 DEF Inductive, WorkerOK, Busy, Holds
<1>9. JobOK' /\ DeadLetterJustified' /\ AckedWasDone'
  BY <1>1, <1>2 DEF Inductive, JobOK, DeadLetterJustified, AckedWasDone
<1>10. SuccessOK'
  BY <1>1, <1>3 DEF Inductive, SuccessOK
<1>11. LeaseOK'
  <2>1. SUFFICES ASSUME faults' = 0, NEW w \in Workers, Busy(w)'
                 PROVE  /\ job'[worker'[w].job].holder = w
                        /\ job'[worker'[w].job].lease > 0
                        /\ worker'[w].at # "resolving" => worker'[w].beating
                        /\ worker'[w].at = "invoking" =>
                              job'[worker'[w].job].lease > worker'[w].beat
    BY DEF LeaseOK
  <2>2. faults = 0 /\ Busy(w)
    BY <1>3, <1>6, <2>1 DEF Busy
  <2>3. ~Late(w)
    BY <1>4, <2>1
  <2>4. worker[w].at = "invoking" /\ worker[w].beating /\ worker[w].beat # 0
    <3>1. worker[w].at \in {"idle", "invoking", "extending", "resolving"}
      BY <1>1 DEF WorkerRecords
    <3>. QED  BY <2>2, <2>3, <3>1 DEF Inductive, LeaseOK, Late, Busy
  <2>5. PICK j \in Jobs : j = worker[w].job
    BY <2>2 DEF Inductive, WorkerOK
  <2>6. job[j].holder = w /\ job[j].lease > worker[w].beat
    BY <2>2, <2>4, <2>5 DEF Inductive, LeaseOK
  <2>7. Less(job[j].lease) > Less(worker[w].beat) /\ Less(job[j].lease) > 0
    <3>1. job[j].lease \in Nat /\ worker[w].beat \in Nat
      BY <1>1, Bounds DEF JobRecords, WorkerRecords
    <3>. QED  BY <2>4, <2>6, <3>1 DEF Less
  <2>. QED  BY <1>2, <1>3, <2>4, <2>5, <2>6, <2>7
<1>. QED  BY <1>7, <1>8, <1>9, <1>10, <1>11 DEF Inductive

(* Every step preserves the inductive invariant.                           *)
LEMMA NextInductive == Inductive /\ [Next]_vars => Inductive'
<1> SUFFICES ASSUME Inductive, [Next]_vars PROVE Inductive'
  OBVIOUS
<1>1. ASSUME NEW w \in Workers,
             \/ \E j \in Jobs : Reserve(w, j)
             \/ InvocationEnds(w) \/ Progress(w)
             \/ ExtendFails(w) \/ ResolveFails(w) \/ Crash(w)
      PROVE  Inductive'
  BY <1>1, ReserveInductive, InvocationEndsInductive, AbandonInductive,
     CrashInductive, HeartbeatInductive, ExtendOkInductive, ResolveInductive
  DEF Progress
<1>2. ASSUME NEW j \in Jobs, StrayEnds(j)
      PROVE  Inductive'
  <2>1. /\ UNCHANGED <<job, worker, runs, faults>>
        /\ worked \subseteq worked' /\ worked' \subseteq Jobs
        /\ strays' \subseteq Jobs
    BY <1>2 DEF StrayEnds, Inductive, TypeOK
  <2>2. TypeOK' /\ SuccessOK' /\ AckedWasDone'
    BY <2>1 DEF Inductive, TypeOK, SuccessOK, AckedWasDone
  <2>3. WorkerOK' /\ JobOK' /\ LeaseOK' /\ DeadLetterJustified'
    BY <2>1 DEF Inductive, WorkerOK, JobOK, LeaseOK, DeadLetterJustified, Busy,
                Holds
  <2>. QED  BY <2>2, <2>3 DEF Inductive
<1>3. CASE UNCHANGED vars
  BY <1>3 DEF vars, Inductive, TypeOK, WorkerOK, JobOK, SuccessOK, LeaseOK,
              DeadLetterJustified, AckedWasDone, Busy, Holds
<1>. QED
  BY <1>1, <1>2, <1>3, BrokerInductive, PurgeInductive, TickInductive DEF Next

(* The inductive invariant holds throughout.                               *)
LEMMA AlwaysInductive == Spec => []Inductive
BY InitInductive, NextInductive, PTL DEF Spec

-----------------------------------------------------------------------------
(* The results.                                                            *)

(* Type correctness of the broker's and the runtimes' records.             *)
THEOREM TypeCorrect == Spec => []TypeOK
<1>1. Inductive => TypeOK
  BY DEF Inductive
<1>. QED  BY <1>1, AlwaysInductive, PTL

(* As long as no call failed and nothing was late, every runtime still     *)
(* holds the lease of the job it works on: a heartbeat at half the lease   *)
(* suffices for every lease of two ticks or more (run_bounded,             *)
(* heartbeat_delay).                                                       *)
THEOREM LeaseKept == Spec => []HeartbeatKeepsLease
<1>1. Inductive => HeartbeatKeepsLease
  BY DEF Inductive, LeaseOK, Busy, HeartbeatKeepsLease
<1>. QED  BY <1>1, AlwaysInductive, PTL

(* Lost leases, late answers, failing calls and crashes never make the     *)
(* runtimes give a job up before max_attempts invocations (retry_or_fail). *)
THEOREM NeverGivenUpEarly == Spec => []DeadLetterJustified
<1>1. Inductive => DeadLetterJustified
  BY DEF Inductive
<1>. QED  BY <1>1, AlwaysInductive, PTL

(* Whatever happened in between, a job is acknowledged only after its      *)
(* external work was done (resolve).                                       *)
THEOREM AckIsTruthful == Spec => []AckedWasDone
<1>1. Inductive => AckedWasDone
  BY DEF Inductive
<1>. QED  BY <1>1, AlwaysInductive, PTL
=============================================================================
