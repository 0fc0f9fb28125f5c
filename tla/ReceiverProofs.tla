--------------------------- MODULE ReceiverProofs ---------------------------
(***************************************************************************)
(* Proofs about Receiver, for every set of configurations and clients and  *)
(* every page limit: nothing is done or shown for a request without its    *)
(* credential, a refused request leaves no trace, and paging is faithful   *)
(* while events arrive and leave.                                          *)
(***************************************************************************)
EXTENDS Receiver, SequenceTheorems, TLAPS

Positions == {"none", "headers", "routing", "storing", "handling",
              "marking", "writing"}
Statuses == {0, 200, 202, 400, 401, 404, 408, 413, 500, 503}
Effects == {"post", "replay", "range"}

(* The requests when n events have been appended.                          *)
Requests(n) ==
    [at : Positions, route : Routes \cup {"none"}, credential : BOOLEAN,
     form : Forms, todo : SUBSET (1..n), status : Statuses,
     touched : BOOLEAN]

(* A request has the credential that the configuration demands ...         *)
Cleared(r) ==
    /\ (config.secret /\ r.route = "post") => r.credential
    /\ (config.token /\ r.route \in Reads) => r.credential

(* ... and its handler may have an effect.                                 *)
Checked(r) == r.form = "ok" /\ r.route \in Effects /\ Cleared(r)

(* Only a request that passed the checks of its route has a handler, and   *)
(* only a handler has an effect.                                           *)
RequestOK(r) ==
    /\ r.at \in {"none", "headers", "routing"} => ~r.touched /\ r.status = 0
    /\ r.at = "routing" => r.route \in Routes /\ r.form \in FormsOf(r.route)
    /\ r.at = "storing" => ~r.touched
    /\ r.at \in {"storing", "handling", "marking"} =>
          Checked(r) /\ r.status = 0
    /\ r.touched => Checked(r) /\ r.status \notin {400, 401, 404, 413}
    /\ r.status \in {200, 202, 404} => Cleared(r)

StoreOK ==
    /\ store \in Seq(1..appended)
    /\ \A i, j \in 1..Len(store) : i < j => store[i] < store[j]

(* What a walk has seen is below all that is past its offset; while it     *)
(* owes an event it has seen just the first events of the store, and owes  *)
(* only events past its offset.                                            *)
WalkOK ==
    /\ walk \in [seen : Seq(1..appended), owed : SUBSET (1..appended),
                 done : BOOLEAN]
    /\ \A i, j \in 1..Len(walk.seen) : i < j => walk.seen[i] < walk.seen[j]
    /\ \A i \in 1..Len(store), j \in 1..Len(walk.seen) :
          i > Len(walk.seen) => walk.seen[j] < store[i]
    /\ walk.owed # {} => \A i \in 1..Len(walk.seen) :
                            i <= Len(store) /\ store[i] = walk.seen[i]
    /\ \A e \in walk.owed :
          \E i \in 1..Len(store) : i > Len(walk.seen) /\ store[i] = e
    /\ walk.done => walk.owed = {}

Inductive ==
    /\ config \in Configs
    /\ phase \in {"serving", "draining", "stopped"}
    /\ ready \in BOOLEAN
    /\ appended \in 0..MaxEvents
    /\ StoreOK
    /\ req \in [Clients -> Requests(appended)]
    /\ \A c \in Clients : RequestOK(req[c])
    /\ WalkOK

-----------------------------------------------------------------------------
(* Requests.                                                               *)

(* A request that starts, or is given up, is the empty one.                *)
LEMMA EmptyRequest ==
    ASSUME NEW n \in Nat
    PROVE  NoRequest \in Requests(n) /\ RequestOK(NoRequest)
<1>1. NoRequest \in Requests(n)
  BY DEF NoRequest, Requests, Positions, Statuses, Forms
<1>2. RequestOK(NoRequest)
  BY DEF NoRequest, RequestOK
<1> QED
  BY <1>1, <1>2

(* Whatever a step does to one request, the rest of the invariant stays if *)
(* nothing else changes.                                                   *)
LEMMA OneRequest ==
    ASSUME Inductive, NEW c \in Clients, NEW r \in Requests(appended),
           RequestOK(r), req' = [req EXCEPT ![c] = r],
           UNCHANGED <<config, phase, ready, store, appended, walk>>
    PROVE  Inductive'
<1>1. req' \in [Clients -> Requests(appended')]
  BY DEF Inductive
<1>2. \A d \in Clients : RequestOK(req[d])'
  <2> SUFFICES ASSUME NEW d \in Clients PROVE RequestOK(req[d])'
    OBVIOUS
  <2>1. RequestOK(req'[d])
    BY DEF Inductive
  <2> QED
    BY <2>1 DEF RequestOK, Checked, Cleared
<1>3. StoreOK' /\ WalkOK'
  BY DEF Inductive, StoreOK, WalkOK
<1> QED
  BY <1>1, <1>2, <1>3 DEF Inductive

(* An answer keeps what the request was: its status is a refusal only if   *)
(* the request had no effect, and shows something only if the request had  *)
(* its credential.                                                         *)
LEMMA AnswerKeeps ==
    ASSUME Inductive, NEW c \in Clients, NEW status \in Statuses,
           req[c].touched => status \notin {400, 401, 404, 413},
           status \in {200, 202, 404} => Cleared(req[c]),
           Answer(c, status),
           UNCHANGED <<config, phase, ready, store, appended, walk>>
    PROVE  Inductive'
<1>1. PICK q : q = req[c]
  OBVIOUS
<1>2. q \in Requests(appended) /\ RequestOK(q)
  BY <1>1 DEF Inductive
<1>3. PICK r : r = [q EXCEPT !.at = "writing", !.status = status, !.todo = {}]
  OBVIOUS
<1>4. r = [at |-> "writing", route |-> q.route, credential |-> q.credential,
           form |-> q.form, todo |-> {}, status |-> status,
           touched |-> q.touched]
  BY <1>2, <1>3 DEF Requests
<1>5. r \in Requests(appended)
  BY <1>2, <1>4 DEF Requests, Positions
<1>6. RequestOK(r)
  <2>1. q.touched => Checked(q)
    BY <1>2 DEF RequestOK
  <2>2. q.touched => Checked(r)
    BY <1>4, <2>1 DEF Checked, Cleared
  <2>3. status \in {200, 202, 404} => Cleared(r)
    BY <1>1, <1>4 DEF Cleared
  <2> QED
    BY <1>1, <1>4, <2>2, <2>3 DEF RequestOK
<1>7. req' = [req EXCEPT ![c] = r]
  BY <1>1, <1>3 DEF Answer, Inductive
<1> QED
  BY <1>5, <1>6, <1>7, OneRequest

(* A request that was not refused had its credential, and is well formed   *)
(* where its handler may have an effect.                                   *)
LEMMA AdmittedIsClear ==
    ASSUME Inductive, NEW c \in Clients, NEW routes \in SUBSET Routes,
           Admitted(c, routes)
    PROVE  /\ req[c].at = "routing" /\ req[c].route \in routes
           /\ ~req[c].touched /\ req[c].status = 0
           /\ Cleared(req[c])
           /\ req[c].route \in Effects => Checked(req[c])
<1>1. PICK q : q = req[c]
  OBVIOUS
<1>2. /\ q \in Requests(appended) /\ q.at = "routing" /\ q.route \in routes
      /\ ~q.touched /\ q.status = 0
      /\ q.route \in Routes /\ q.form \in FormsOf(q.route)
      /\ Refusal(q.route, q.credential, q.form) = 0
  BY <1>1 DEF Inductive, Admitted, RequestOK
<1>3. /\ config.secret \in BOOLEAN /\ config.token \in BOOLEAN
      /\ q.credential \in BOOLEAN
  BY <1>2, ReceiverAssumption DEF Inductive, AllConfigs, Requests
<1>4. CASE q.route = "post"
  <2>1. /\ ~Unverified(q.credential)
        /\ q.form # "malformed" /\ q.form # "oversized"
    BY <1>2, <1>4 DEF Refusal, Reads, Probes
  <2>2. q.form = "ok"
    BY <1>2, <1>4, <2>1 DEF FormsOf, Probes
  <2>3. Cleared(q)
    BY <1>3, <1>4, <2>1 DEF Cleared, Unverified, Reads
  <2> QED
    BY <1>1, <1>2, <2>2, <2>3 DEF Checked
<1>5. CASE q.route \in Reads
  <2>1. ~Unauthorized(q.credential) /\ q.form # "malformed"
    BY <1>2, <1>5 DEF Refusal, Reads, Probes
  <2>2. q.form = "ok"
    BY <1>2, <1>5, <2>1 DEF FormsOf, Probes, Reads
  <2>3. Cleared(q)
    BY <1>3, <1>5, <2>1 DEF Cleared, Unauthorized, Reads
  <2> QED
    BY <1>1, <1>2, <2>2, <2>3 DEF Checked
<1>6. CASE q.route \in Probes
  <2>1. q.route \notin Effects /\ Cleared(q)
    BY <1>6 DEF Cleared, Probes, Reads, Effects
  <2> QED
    BY <1>1, <1>2, <2>1
<1> QED
  BY <1>2, <1>4, <1>5, <1>6 DEF Routes

(* A request of a route with an effect that was not refused has a handler, *)
(* which holds no events but those it was given.                           *)
LEMMA AdmitKeeps ==
    ASSUME Inductive, NEW c \in Clients, NEW at \in {"storing", "handling"},
           NEW todo \in SUBSET (1..appended), NEW routes \in SUBSET Effects,
           Admitted(c, routes),
           req' = [req EXCEPT ![c].at = at, ![c].todo = todo],
           UNCHANGED <<config, phase, ready, store, appended, walk>>
    PROVE  Inductive'
<1>1. PICK q : q = req[c]
  OBVIOUS
<1>2. q \in Requests(appended)
  BY <1>1 DEF Inductive
<1>3. ~q.touched /\ q.status = 0 /\ Checked(q)
  <2>1. routes \in SUBSET Routes
    BY DEF Effects, Routes, Reads
  <2>2. /\ req[c].route \in routes /\ ~req[c].touched /\ req[c].status = 0
        /\ req[c].route \in Effects => Checked(req[c])
    BY <2>1, AdmittedIsClear
  <2> QED
    BY <1>1, <2>2
<1>4. PICK r : r = [q EXCEPT !.at = at, !.todo = todo]
  OBVIOUS
<1>5. r = [at |-> at, route |-> q.route, credential |-> q.credential,
           form |-> q.form, todo |-> todo, status |-> q.status,
           touched |-> q.touched]
  BY <1>2, <1>4 DEF Requests
<1>6. r \in Requests(appended)
  BY <1>2, <1>5 DEF Requests, Positions
<1>7. RequestOK(r)
  <2>1. Checked(r)
    BY <1>3, <1>5 DEF Checked, Cleared
  <2> QED
    BY <1>3, <1>5, <2>1 DEF RequestOK
<1>8. req' = [req EXCEPT ![c] = r]
  BY <1>1, <1>4 DEF Inductive
<1> QED
  BY <1>6, <1>7, <1>8, OneRequest

(* A client begins, routes, finishes or gives up a request.                *)
LEMMA ClientKeeps ==
    ASSUME Inductive, NEW c \in Clients,
           Arrive(c) \/ Route(c) \/ Written(c) \/ Disconnect(c)
    PROVE  Inductive'
<1>1. appended \in Nat
  BY ReceiverAssumption DEF Inductive
<1>2. NoRequest \in Requests(appended) /\ RequestOK(NoRequest)
  BY <1>1, EmptyRequest
<1>3. PICK q : q = req[c]
  OBVIOUS
<1>4. q \in Requests(appended) /\ RequestOK(q)
  BY <1>3 DEF Inductive
<1>5. CASE Arrive(c)
  <2>1. PICK r : r = [q EXCEPT !.at = "headers"]
    OBVIOUS
  <2>2. r = [at |-> "headers", route |-> q.route, credential |-> q.credential,
             form |-> q.form, todo |-> q.todo, status |-> q.status,
             touched |-> q.touched]
    BY <1>4, <2>1 DEF Requests
  <2>3. r \in Requests(appended)
    BY <1>4, <2>2 DEF Requests, Positions
  <2>4. RequestOK(r)
    BY <1>3, <1>4, <1>5, <2>2 DEF RequestOK, Arrive
  <2>5. req' = [req EXCEPT ![c] = r]
    BY <1>3, <1>5, <2>1 DEF Arrive, Inductive
  <2> QED
    BY <1>5, <2>3, <2>4, <2>5, OneRequest DEF Arrive
<1>6. CASE Route(c)
  <2>1. PICK route \in Routes, credential \in BOOLEAN, form \in Forms :
          /\ form \in FormsOf(route)
          /\ req' = [req EXCEPT ![c].at = "routing", ![c].route = route,
                                ![c].credential = credential,
                                ![c].form = form]
    BY <1>6 DEF Route, Credentials, FormsOf, Forms
  <2>2. PICK r : r = [q EXCEPT !.at = "routing", !.route = route,
                               !.credential = credential, !.form = form]
    OBVIOUS
  <2>3. r = [at |-> "routing", route |-> route, credential |-> credential,
             form |-> form, todo |-> q.todo, status |-> q.status,
             touched |-> q.touched]
    BY <1>4, <2>2 DEF Requests
  <2>5. r \in Requests(appended)
    BY <1>4, <2>3 DEF Requests, Positions
  <2>6. ~q.touched /\ q.status = 0
    BY <1>3, <1>4, <1>6 DEF RequestOK, Route
  <2>7. RequestOK(r)
    BY <2>1, <2>3, <2>6 DEF RequestOK
  <2>8. req' = [req EXCEPT ![c] = r]
    BY <1>3, <2>1, <2>2 DEF Inductive
  <2> QED
    BY <1>6, <2>5, <2>7, <2>8, OneRequest DEF Route
<1>7. CASE Written(c) \/ Disconnect(c)
  BY <1>2, <1>7, OneRequest DEF Written, Disconnect
<1> QED
  BY <1>5, <1>6, <1>7

(* A request that is refused or only reads had no effect.                  *)
LEMMA RefusalKeeps ==
    ASSUME Inductive, NEW c \in Clients, Refuse(c) \/ AnswerRead(c)
    PROVE  Inductive'
<1>1. CASE Refuse(c)
  <2>1. /\ ~req[c].touched /\ req[c].route \in Routes
    BY <1>1 DEF Refuse, Inductive, RequestOK
  <2>2. PICK status :
           /\ status = Refusal(req[c].route, req[c].credential, req[c].form)
           /\ status # 0 /\ Answer(c, status)
    BY <1>1 DEF Refuse
  <2>3. status \in {400, 401, 413}
    BY <2>1, <2>2 DEF Refusal, Routes, Reads, Probes
  <2>4. status \in Statuses /\ status \notin {200, 202, 404}
    BY <2>3 DEF Statuses
  <2>5. UNCHANGED <<config, phase, ready, store, appended, walk>>
    BY <1>1 DEF Refuse
  <2> QED
    BY <2>1, <2>2, <2>4, <2>5, AnswerKeeps
<1>2. CASE AnswerRead(c)
  <2>1. PICK routes : routes = Probes \cup {"list"}
    OBVIOUS
  <2>2. routes \in SUBSET Routes /\ Admitted(c, routes)
    BY <1>2, <2>1 DEF AnswerRead, Routes, Reads, Probes
  <2>3. ~req[c].touched /\ Cleared(req[c])
    BY <2>2, AdmittedIsClear
  <2>4. ProbeStatus(req[c].route) \in Statuses
    BY DEF ProbeStatus, Statuses
  <2>5. /\ Answer(c, ProbeStatus(req[c].route))
        /\ UNCHANGED <<config, phase, ready, store, appended, walk>>
    BY <1>2 DEF AnswerRead
  <2> QED
    BY <2>3, <2>4, <2>5, AnswerKeeps
<1> QED
  BY <1>1, <1>2

(* The look-up of one event, found or not.                                 *)
LEMMA GetEventKeeps ==
    ASSUME Inductive, NEW c \in Clients, GetEvent(c)
    PROVE  Inductive'
<1>1. PICK routes : routes = {"get", "replay"}
  OBVIOUS
<1>2. routes \in SUBSET Routes /\ Admitted(c, routes)
  BY <1>1 DEF GetEvent, Routes, Reads
<1>3. ~req[c].touched /\ Cleared(req[c])
  BY <1>2, AdmittedIsClear
<1>4. UNCHANGED <<config, phase, ready, store, appended, walk>>
  BY DEF GetEvent
<1>5. CASE Answer(c, 404) \/ Answer(c, 200)
  <2>1. 404 \in Statuses /\ 200 \in Statuses
    BY DEF Statuses
  <2> QED
    BY <1>3, <1>4, <1>5, <2>1, AnswerKeeps
<1>6. CASE /\ req[c].route = "replay"
           /\ \E e \in ToSet(store) :
                 req' = [req EXCEPT ![c].at = "handling", ![c].todo = {e}]
  <2>1. PICK e \in ToSet(store) :
             req' = [req EXCEPT ![c].at = "handling", ![c].todo = {e}]
    BY <1>6
  <2>2. {e} \in SUBSET (1..appended)
    BY DEF Inductive, StoreOK, ToSet
  <2>3. "handling" \in {"storing", "handling"} /\ {"replay"} \in SUBSET Effects
    BY DEF Effects
  <2>4. Admitted(c, {"replay"})
    BY <1>2, <1>6 DEF Admitted
  <2> QED
    BY ONLY Inductive, <1>4, <2>1, <2>2, <2>3, <2>4, AdmitKeeps
<1> QED
  BY <1>5, <1>6 DEF GetEvent

(* An event or a range of events is accepted for handling.                 *)
LEMMA AcceptKeeps ==
    ASSUME Inductive, NEW c \in Clients, PostEvent(c) \/ ReplayRange(c)
    PROVE  Inductive'
<1>1. UNCHANGED <<config, phase, ready, store, appended, walk>>
  BY DEF PostEvent, ReplayRange
<1>2. CASE PostEvent(c)
  <2>1. PICK q : q = req[c]
    OBVIOUS
  <2>2. PICK todo : todo = q.todo
    OBVIOUS
  <2>3. q \in Requests(appended) /\ todo \in SUBSET (1..appended)
    BY <2>1, <2>2 DEF Inductive, Requests
  <2>4. req' = [req EXCEPT ![c].at = "storing", ![c].todo = todo]
    <3>1. [q EXCEPT !.at = "storing"]
            = [q EXCEPT !.at = "storing", !.todo = todo]
      BY <2>2, <2>3 DEF Requests
    <3>2. req' = [req EXCEPT ![c] = [q EXCEPT !.at = "storing"]]
      BY <1>2, <2>1 DEF PostEvent, Inductive
    <3>3. [req EXCEPT ![c].at = "storing", ![c].todo = todo]
            = [req EXCEPT ![c] = [q EXCEPT !.at = "storing", !.todo = todo]]
      BY <2>1 DEF Inductive
    <3> QED
      BY <3>1, <3>2, <3>3
  <2>5. "storing" \in {"storing", "handling"} /\ {"post"} \in SUBSET Effects
    BY DEF Effects
  <2>6. Admitted(c, {"post"})
    BY <1>2 DEF PostEvent
  <2> QED
    BY ONLY Inductive, <1>1, <2>3, <2>4, <2>5, <2>6, AdmitKeeps
<1>3. CASE ReplayRange(c)
  <2>1. PICK window \in SUBSET ToSet(store) :
           req' = [req EXCEPT ![c].at = "handling", ![c].todo = window]
    BY <1>3 DEF ReplayRange
  <2>2. window \in SUBSET (1..appended)
    BY DEF Inductive, StoreOK, ToSet
  <2>3. "handling" \in {"storing", "handling"} /\ {"range"} \in SUBSET Effects
    BY DEF Effects
  <2>4. Admitted(c, {"range"})
    BY <1>3 DEF ReplayRange
  <2> QED
    BY ONLY Inductive, <1>1, <2>1, <2>2, <2>3, <2>4, AdmitKeeps
<1> QED
  BY <1>2, <1>3

(* The position of a handler and what it has still to do change, and it    *)
(* may have an effect.                                                     *)
LEMMA HandlingKeeps ==
    ASSUME Inductive, NEW c \in Clients,
           NEW at \in {"handling", "marking"},
           NEW todo \in SUBSET (1..appended), NEW touched \in BOOLEAN,
           req[c].at \in {"handling", "marking"},
           req' = [req EXCEPT ![c].at = at, ![c].todo = todo,
                              ![c].touched = touched],
           UNCHANGED <<config, phase, ready, store, appended, walk>>
    PROVE  Inductive'
<1>1. PICK q : q = req[c]
  OBVIOUS
<1>2. q \in Requests(appended) /\ Checked(q) /\ q.status = 0
  BY <1>1 DEF Inductive, RequestOK
<1>3. PICK r : r = [q EXCEPT !.at = at, !.todo = todo, !.touched = touched]
  OBVIOUS
<1>4. r = [at |-> at, route |-> q.route, credential |-> q.credential,
           form |-> q.form, todo |-> todo, status |-> q.status,
           touched |-> touched]
  BY <1>2, <1>3 DEF Requests
<1>5. r \in Requests(appended)
  BY <1>2, <1>4 DEF Requests, Positions
<1>6. RequestOK(r)
  <2>1. Checked(r)
    BY <1>2, <1>4 DEF Checked, Cleared
  <2> QED
    BY <1>2, <1>4, <2>1 DEF RequestOK
<1>7. req' = [req EXCEPT ![c] = r]
  BY <1>1, <1>3 DEF Inductive
<1> QED
  BY <1>5, <1>6, <1>7, OneRequest

(* A handler submits, marks, ends, fails or is timed out.                  *)
LEMMA HandlerKeeps ==
    ASSUME Inductive, NEW c \in Clients,
           Submit(c) \/ Marked(c) \/ Handled(c) \/ HandlerFails(c)
              \/ Timeout(c)
    PROVE  Inductive'
<1>1. PICK q : q = req[c]
  OBVIOUS
<1>2. q \in Requests(appended) /\ RequestOK(q)
  BY <1>1 DEF Inductive
<1>3. {200, 202, 408, 500} \subseteq Statuses
  BY DEF Statuses
<1>4. CASE Submit(c)
  <2>1. PICK e \in q.todo, at \in {"handling", "marking"} :
           req' = [req EXCEPT ![c].at = at, ![c].todo = @ \ {e},
                              ![c].touched = TRUE]
    BY <1>1, <1>4 DEF Submit
  <2>2. PICK todo : todo = q.todo \ {e}
    OBVIOUS
  <2>3. todo \in SUBSET (1..appended)
    BY <1>2, <2>2 DEF Requests
  <2>4. req' = [req EXCEPT ![c].at = at, ![c].todo = todo,
                           ![c].touched = TRUE]
    <3>1. [q EXCEPT !.at = at].todo = q.todo
      BY <1>2 DEF Requests
    <3> QED
      BY <1>1, <2>1, <2>2, <3>1 DEF Inductive
  <2>5. req[c].at \in {"handling", "marking"} /\ TRUE \in BOOLEAN
    BY <1>4 DEF Submit
  <2>6. UNCHANGED <<config, phase, ready, store, appended, walk>>
    BY <1>4 DEF Submit
  <2> QED
    BY ONLY Inductive, <2>1, <2>3, <2>4, <2>5, <2>6, HandlingKeeps
<1>5. CASE Marked(c)
  <2>1. PICK todo, touched : todo = q.todo /\ touched = q.touched
    OBVIOUS
  <2>2. todo \in SUBSET (1..appended) /\ touched \in BOOLEAN
    BY <1>2, <2>1 DEF Requests
  <2>3. req' = [req EXCEPT ![c].at = "handling", ![c].todo = todo,
                           ![c].touched = touched]
    <3>1. [q EXCEPT !.at = "handling"]
            = [q EXCEPT !.at = "handling", !.todo = todo, !.touched = touched]
      BY <1>2, <2>1 DEF Requests
    <3>2. req' = [req EXCEPT ![c] = [q EXCEPT !.at = "handling"]]
      BY <1>1, <1>5 DEF Marked, Inductive
    <3>3. [req EXCEPT ![c].at = "handling", ![c].todo = todo,
                      ![c].touched = touched]
            = [req EXCEPT ![c] = [q EXCEPT !.at = "handling", !.todo = todo,
                                           !.touched = touched]]
      BY <1>1 DEF Inductive
    <3> QED
      BY <3>1, <3>2, <3>3
  <2>4. /\ req[c].at \in {"handling", "marking"}
        /\ "handling" \in {"handling", "marking"}
    BY <1>5 DEF Marked
  <2>5. UNCHANGED <<config, phase, ready, store, appended, walk>>
    BY <1>5 DEF Marked
  <2> QED
    BY ONLY Inductive, <2>2, <2>3, <2>4, <2>5, HandlingKeeps
<1>6. CASE Handled(c)
  <2>1. PICK status \in {200, 202} : Answer(c, status)
    BY <1>6 DEF Handled
  <2>2. Cleared(req[c])
    BY <1>1, <1>2, <1>6 DEF Handled, RequestOK, Checked
  <2> QED
    BY <1>3, <1>6, <2>1, <2>2, AnswerKeeps DEF Handled
<1>7. CASE HandlerFails(c)
  BY <1>3, <1>7, AnswerKeeps DEF HandlerFails
<1>8. CASE Timeout(c)
  BY <1>3, <1>8, AnswerKeeps DEF Timeout
<1> QED
  BY <1>4, <1>5, <1>6, <1>7, <1>8

-----------------------------------------------------------------------------
(* The store and a walk over it.                                           *)

(* An append adds the newest event, behind every event of the walk.        *)
LEMMA StoreEventKeeps ==
    ASSUME Inductive, NEW c \in Clients, StoreEvent(c)
    PROVE  Inductive'
<1>1. /\ appended \in Nat /\ appended' = appended + 1
      /\ appended' \in 0..MaxEvents
      /\ 1..appended \subseteq 1..appended' /\ appended' \in 1..appended'
  BY ReceiverAssumption DEF Inductive, StoreEvent
<1>2. /\ store \in Seq(1..appended) /\ store' = Append(store, appended')
      /\ Len(store) \in Nat
  BY DEF Inductive, StoreOK, StoreEvent
<1>3. /\ Len(store') = Len(store) + 1
      /\ store'[Len(store) + 1] = appended'
      /\ \A i \in 1..Len(store) : store'[i] = store[i] /\ store[i] \in 1..appended
  <2>1. \A i \in 1..Len(store) : store[i] \in 1..appended
    BY <1>2, ElementOfSeq
  <2>2. /\ Len(store') = Len(store) + 1
        /\ store'[Len(store) + 1] = appended'
        /\ \A i \in 1..Len(store) : store'[i] = store[i]
    BY <1>2
  <2> QED
    BY <2>1, <2>2
<1>4. StoreOK'
  <2>1. store' \in Seq(1..appended')
    <3>1. store \in Seq(1..appended')
      BY <1>1, <1>2
    <3> QED
      BY <1>1, <1>2, <3>1
  <2>2. ASSUME NEW i \in 1..Len(store'), NEW j \in 1..Len(store'), i < j
        PROVE  store'[i] < store'[j]
    <3>1. i \in 1..Len(store)
      BY <1>2, <1>3, <2>2
    <3>2. CASE j \in 1..Len(store)
      BY <1>3, <2>2, <3>1, <3>2 DEF Inductive, StoreOK
    <3>3. CASE j = Len(store) + 1
      BY <1>1, <1>3, <3>1, <3>3
    <3> QED
      BY <1>2, <1>3, <3>2, <3>3
  <2> QED
    BY <2>1, <2>2 DEF StoreOK
<1>5. WalkOK'
  <2>1. walk' = walk
    BY DEF StoreEvent
  <2>2. walk \in [seen : Seq(1..appended), owed : SUBSET (1..appended),
                  done : BOOLEAN]
    BY DEF Inductive, WalkOK
  <2>3. walk \in [seen : Seq(1..appended'), owed : SUBSET (1..appended'),
                  done : BOOLEAN]
    <3>1. walk.seen \in Seq(1..appended')
      BY <1>1, <2>2
    <3>2. walk.owed \in SUBSET (1..appended') /\ walk.done \in BOOLEAN
      BY <1>1, <2>2
    <3>3. walk = [seen |-> walk.seen, owed |-> walk.owed, done |-> walk.done]
      BY <2>2
    <3> QED
      BY <3>1, <3>2, <3>3
  <2>4. ASSUME NEW i \in 1..Len(store'), NEW j \in 1..Len(walk.seen),
               i > Len(walk.seen)
        PROVE  walk.seen[j] < store'[i]
    <3>1. walk.seen[j] \in 1..appended
      BY <2>2, ElementOfSeq
    <3>2. CASE i \in 1..Len(store)
      BY <1>3, <2>4, <3>2 DEF Inductive, WalkOK
    <3>3. CASE i = Len(store) + 1
      BY <1>1, <1>3, <3>1, <3>3
    <3> QED
      BY <1>2, <1>3, <3>2, <3>3
  <2>5. walk.owed # {} => \A i \in 1..Len(walk.seen) :
                            i <= Len(store') /\ store'[i] = walk.seen[i]
    <3> SUFFICES ASSUME walk.owed # {}, NEW i \in 1..Len(walk.seen)
                 PROVE  i <= Len(store') /\ store'[i] = walk.seen[i]
      OBVIOUS
    <3>1. i <= Len(store) /\ store[i] = walk.seen[i] /\ i \in Nat /\ i >= 1
      BY <2>2 DEF Inductive, WalkOK
    <3> QED
      BY <1>2, <1>3, <3>1
  <2>6. ASSUME NEW e \in walk.owed
        PROVE  \E i \in 1..Len(store') : i > Len(walk.seen) /\ store'[i] = e
    <3>1. PICK i \in 1..Len(store) : i > Len(walk.seen) /\ store[i] = e
      BY DEF Inductive, WalkOK
    <3> QED
      BY <1>2, <1>3, <3>1
  <2>7. /\ \A i, j \in 1..Len(walk.seen) : i < j => walk.seen[i] < walk.seen[j]
        /\ walk.done => walk.owed = {}
    BY DEF Inductive, WalkOK
  <2> QED
    BY <2>1, <2>3, <2>4, <2>5, <2>6, <2>7 DEF WalkOK
<1>6. PICK r : r = [req[c] EXCEPT !.at = "handling", !.touched = TRUE,
                       !.todo = IF config.async THEN {} ELSE {appended'}]
  OBVIOUS
<1>7. req' = [req EXCEPT ![c] = r]
  BY <1>6 DEF StoreEvent, Inductive
<1>8. PICK q : q = req[c]
  OBVIOUS
<1>9. q \in Requests(appended) /\ RequestOK(q) /\ q.at = "storing"
  BY <1>8 DEF Inductive, StoreEvent
<1>10. PICK todo : todo = IF config.async THEN {} ELSE {appended'}
  OBVIOUS
<1>11. r = [at |-> "handling", route |-> q.route, credential |-> q.credential,
            form |-> q.form, todo |-> todo, status |-> q.status,
            touched |-> TRUE]
  BY <1>6, <1>8, <1>9, <1>10 DEF Requests
<1>12. r \in Requests(appended')
  <2>1. todo \in SUBSET (1..appended')
    BY <1>1, <1>10
  <2> QED
    BY <1>9, <1>11, <2>1 DEF Requests, Positions
<1>13. RequestOK(r)
  BY <1>9, <1>11 DEF RequestOK, Checked, Cleared
<1>14. req' \in [Clients -> Requests(appended')]
  <2>1. Requests(appended) \subseteq Requests(appended')
    BY <1>1 DEF Requests
  <2> QED
    BY <1>7, <1>12, <2>1 DEF Inductive
<1>15. \A d \in Clients : RequestOK(req[d])'
  <2> SUFFICES ASSUME NEW d \in Clients PROVE RequestOK(req[d])'
    OBVIOUS
  <2>1. RequestOK(req'[d])
    BY <1>7, <1>13 DEF Inductive
  <2> QED
    BY <2>1 DEF RequestOK, Checked, Cleared, StoreEvent
<1> QED
  BY <1>1, <1>4, <1>5, <1>14, <1>15
     DEF Inductive, StoreEvent

(* What is left of a sequence without its element k.                       *)
LEMMA RemoveAtPlaces ==
    ASSUME NEW S, NEW s \in Seq(S), NEW k \in 1..Len(s)
    PROVE  /\ RemoveAt(s, k) \in Seq(S)
           /\ Len(RemoveAt(s, k)) = Len(s) - 1
           /\ \A i \in 1..(Len(s) - 1) :
                 RemoveAt(s, k)[i] = IF i < k THEN s[i] ELSE s[i + 1]
<1>1. Len(s) \in Nat /\ k \in Nat /\ 1 <= k /\ k <= Len(s)
  BY LenProperties
<1>2. PICK a : a = SubSeq(s, 1, k - 1)
  OBVIOUS
<1>3. PICK b : b = SubSeq(s, k + 1, Len(s))
  OBVIOUS
<1>4. \A i \in 1..Len(s) : s[i] \in S
  BY ElementOfSeq
<1>5. /\ a \in Seq(S) /\ Len(a) = k - 1
      /\ \A i \in 1..(k - 1) : a[i] = s[i]
  BY <1>1, <1>2, <1>4
<1>6. /\ b \in Seq(S) /\ Len(b) = Len(s) - k
      /\ \A i \in 1..(Len(s) - k) : b[i] = s[k + i]
  BY <1>1, <1>3, <1>4
<1>7. RemoveAt(s, k) = a \o b
  BY <1>2, <1>3 DEF RemoveAt
<1>8. /\ a \o b \in Seq(S) /\ Len(a \o b) = Len(a) + Len(b)
      /\ \A i \in 1..(Len(a) + Len(b)) :
            (a \o b)[i] = IF i <= Len(a) THEN a[i] ELSE b[i - Len(a)]
  BY <1>5, <1>6, ConcatProperties
<1>9. ASSUME NEW i \in 1..(Len(s) - 1)
      PROVE  (a \o b)[i] = IF i < k THEN s[i] ELSE s[i + 1]
  <2>1. i \in 1..(Len(a) + Len(b))
    BY <1>1, <1>5, <1>6
  <2>2. CASE i < k
    BY <1>1, <1>5, <1>8, <2>1, <2>2
  <2>3. CASE ~(i < k)
    <3>1. i - (k - 1) \in 1..(Len(s) - k) /\ k + (i - (k - 1)) = i + 1
      BY <1>1, <2>3
    <3>2. (a \o b)[i] = b[i - (k - 1)]
      BY <1>1, <1>5, <1>8, <2>1, <2>3
    <3> QED
      BY <1>6, <2>3, <3>1, <3>2
  <2> QED
    BY <2>2, <2>3
<1> QED
  BY <1>1, <1>5, <1>6, <1>7, <1>8, <1>9

(* An event that leaves: the walk is owed nothing more if it has seen it;  *)
(* if not, the event is past the offset, as long as anything is owed.      *)
LEMMA RetireKeeps ==
    ASSUME Inductive, Retire
    PROVE  Inductive'
<1>1. PICK k \in 1..Len(store) :
         /\ store' = RemoveAt(store, k)
         /\ walk' = [walk EXCEPT
               !.owed = IF Contains(walk.seen, store[k]) THEN {}
                        ELSE @ \ {store[k]}]
  BY DEF Retire
<1>2. /\ store \in Seq(1..appended) /\ Len(store) \in Nat
      /\ \A i, j \in 1..Len(store) : i < j => store[i] < store[j]
  BY DEF Inductive, StoreOK
<1>3. /\ store' \in Seq(1..appended) /\ Len(store') = Len(store) - 1
      /\ \A i \in 1..Len(store') :
            store'[i] = IF i < k THEN store[i] ELSE store[i + 1]
  <2>1. /\ RemoveAt(store, k) \in Seq(1..appended)
        /\ Len(RemoveAt(store, k)) = Len(store) - 1
        /\ \A i \in 1..(Len(store) - 1) :
              RemoveAt(store, k)[i] = IF i < k THEN store[i] ELSE store[i + 1]
    BY <1>2, RemoveAtPlaces
  <2> QED
    BY <1>1, <2>1
<1>4. StoreOK'
  <2>1. ASSUME NEW i \in 1..Len(store'), NEW j \in 1..Len(store'), i < j
        PROVE  store'[i] < store'[j]
    <3>1. /\ i \in 1..Len(store) /\ i + 1 \in 1..Len(store)
          /\ j \in 1..Len(store) /\ j + 1 \in 1..Len(store)
      BY <1>2, <1>3
    <3>2. PICK a \in 1..Len(store) : a = IF i < k THEN i ELSE i + 1
      BY <3>1
    <3>3. PICK b \in 1..Len(store) : b = IF j < k THEN j ELSE j + 1
      BY <3>1
    <3>4. a < b
      BY <1>2, <2>1, <3>1, <3>2, <3>3
    <3>5. store'[i] = store[a] /\ store'[j] = store[b]
      BY <1>3, <3>2, <3>3
    <3> QED
      BY <1>2, <3>4, <3>5
  <2> QED
    BY <1>3, <2>1 DEF StoreOK, Retire
<1>5. PICK owed : owed = IF Contains(walk.seen, store[k]) THEN {}
                         ELSE walk.owed \ {store[k]}
  OBVIOUS
<1>6. walk \in [seen : Seq(1..appended), owed : SUBSET (1..appended),
                done : BOOLEAN]
  BY DEF Inductive, WalkOK
<1>7. walk' = [seen |-> walk.seen, owed |-> owed, done |-> walk.done]
  BY <1>1, <1>5, <1>6
<1>8. owed \subseteq walk.owed
  BY <1>5
<1>9. walk.seen \in Seq(1..appended) /\ Len(walk.seen) \in Nat
  BY <1>6
<1>10. walk'.seen = walk.seen /\ walk'.owed = owed /\ walk'.done = walk.done
  BY <1>7
<1>11. ASSUME NEW i \in 1..Len(store'), NEW j \in 1..Len(walk.seen),
              i > Len(walk.seen)
       PROVE  walk.seen[j] < store'[i]
  <2>1. /\ i \in 1..Len(store) /\ i + 1 \in 1..Len(store)
        /\ i + 1 > Len(walk.seen)
    BY <1>2, <1>3, <1>9, <1>11
  <2>2. walk.seen[j] < store[i] /\ walk.seen[j] < store[i + 1]
    BY <1>11, <2>1 DEF Inductive, WalkOK
  <2> QED
    BY <1>3, <2>2
<1>12. ASSUME owed # {}
       PROVE  /\ k > Len(walk.seen)
              /\ \A i \in 1..Len(walk.seen) :
                    i <= Len(store') /\ store'[i] = walk.seen[i]
  <2>1. /\ ~Contains(walk.seen, store[k])
        /\ walk.owed # {}
    BY <1>5, <1>12
  <2>2. \A i \in 1..Len(walk.seen) :
           i <= Len(store) /\ store[i] = walk.seen[i]
    BY <2>1 DEF Inductive, WalkOK
  <2>3. k > Len(walk.seen)
    <3>1. SUFFICES ASSUME k <= Len(walk.seen) PROVE FALSE
      BY <1>2, <1>9
    <3>2. k \in 1..Len(walk.seen)
      BY <1>2, <1>9, <3>1
    <3> QED
      BY <2>1, <2>2, <3>2 DEF Contains
  <2>4. ASSUME NEW i \in 1..Len(walk.seen)
        PROVE  i <= Len(store') /\ store'[i] = walk.seen[i]
    <3>1. i < k /\ i \in 1..Len(store')
      BY <1>2, <1>3, <1>9, <2>3
    <3> QED
      BY <1>3, <2>2, <3>1
  <2> QED
    BY <2>3, <2>4
<1>13. ASSUME NEW e \in owed
       PROVE  \E i \in 1..Len(store') : i > Len(walk.seen) /\ store'[i] = e
  <2>1. k > Len(walk.seen) /\ e \in walk.owed /\ e # store[k]
    BY <1>5, <1>12
  <2>2. PICK i \in 1..Len(store) : i > Len(walk.seen) /\ store[i] = e
    BY <2>1 DEF Inductive, WalkOK
  <2>3. CASE i < k
    <3>1. i \in 1..Len(store')
      BY <1>2, <1>3, <2>3
    <3> QED
      BY <1>3, <2>2, <2>3, <3>1
  <2>4. CASE i > k
    <3>1. /\ i - 1 \in 1..Len(store') /\ i - 1 > Len(walk.seen)
          /\ ~(i - 1 < k) /\ (i - 1) + 1 = i
      BY <1>2, <1>3, <1>9, <2>1, <2>4
    <3>2. store'[i - 1] = e
      BY <1>3, <2>2, <3>1
    <3> QED
      BY <3>1, <3>2
  <2> QED
    BY <1>2, <2>1, <2>2, <2>3, <2>4
<1>14. walk' \in [seen : Seq(1..appended), owed : SUBSET (1..appended),
                  done : BOOLEAN]
  BY <1>6, <1>7, <1>8
<1>15. walk.done => owed = {}
  BY <1>8 DEF Inductive, WalkOK
<1>16. \A i, j \in 1..Len(walk.seen) : i < j => walk.seen[i] < walk.seen[j]
  BY DEF Inductive, WalkOK
<1>17. UNCHANGED <<config, phase, ready, appended, req>>
  BY DEF Retire
<1>18. WalkOK'
  BY <1>10, <1>11, <1>12, <1>13, <1>14, <1>15, <1>16, <1>17 DEF WalkOK
<1> QED
  BY <1>4, <1>17, <1>18
     DEF Inductive, RequestOK, Checked, Cleared

(* The number of events on a page.                                         *)
LEMMA PageSize ==
    ASSUME NEW limit \in Nat, NEW left \in Int
    PROVE  LET n == Min({limit, Max({0, left})})
           IN  /\ n \in Nat /\ n <= limit
               /\ n = 0 \/ n <= left
               /\ n < limit => n >= left
<1>1. PICK m : m = Max({0, left})
  OBVIOUS
<1>2. m = IF left > 0 THEN left ELSE 0
  <2>1. \E x \in {0, left} : \A y \in {0, left} : x >= y
    OBVIOUS
  <2>2. m \in {0, left} /\ \A y \in {0, left} : m >= y
    BY <1>1, <2>1 DEF Max
  <2> QED
    BY <2>2
<1>3. PICK n : n = Min({limit, m})
  OBVIOUS
<1>4. n \in {limit, m} /\ \A y \in {limit, m} : n =< y
  <2>1. m \in Nat
    BY <1>2
  <2>2. \E x \in {limit, m} : \A y \in {limit, m} : x =< y
    BY <2>1
  <2> QED
    BY <1>3, <2>2 DEF Min
<1> QED
  BY <1>1, <1>2, <1>3, <1>4

(* The next page goes on where the walk is: what it shows is above all     *)
(* that it has shown, and a short page leaves nothing owed.                *)
LEMMA NextPageKeeps ==
    ASSUME Inductive, NextPage
    PROVE  Inductive'
<1>1. /\ store \in Seq(1..appended) /\ Len(store) \in Nat
      /\ \A i, j \in 1..Len(store) : i < j => store[i] < store[j]
  BY DEF Inductive, StoreOK
<1>2. \A i \in 1..Len(store) : store[i] \in 1..appended
  BY <1>1, ElementOfSeq
<1>3. walk \in [seen : Seq(1..appended), owed : SUBSET (1..appended),
                done : BOOLEAN]
  BY DEF Inductive, WalkOK
<1>4. PICK seen : seen = walk.seen
  OBVIOUS
<1>5. PICK offset : offset = Len(seen)
  OBVIOUS
<1>6. seen \in Seq(1..appended) /\ offset \in Nat
  BY <1>3, <1>4, <1>5
<1>7. PICK n : n = Min({Limit, Max({0, Len(store) - offset})})
  OBVIOUS
<1>8. /\ n \in Nat /\ n <= Limit
      /\ n = 0 \/ n <= Len(store) - offset
      /\ n < Limit => n >= Len(store) - offset
  <2>1. Limit \in Nat /\ Len(store) - offset \in Int
    BY <1>1, <1>6, ReceiverAssumption
  <2> QED
    BY <1>7, <2>1, PageSize
<1>9. PICK page : page = [i \in 1..n |-> store[offset + i]]
  OBVIOUS
<1>10. \A i \in 1..n : offset + i \in 1..Len(store)
  BY <1>1, <1>6, <1>8
<1>11. /\ page \in Seq(1..appended) /\ Len(page) = n
       /\ \A i \in 1..n : page[i] = store[offset + i]
  BY <1>2, <1>8, <1>9, <1>10
<1>12. PICK owed : owed = (IF offset = 0 THEN ToSet(store) ELSE walk.owed)
                             \ ToSet(page)
  OBVIOUS
<1>13. walk' = [seen |-> seen \o page, owed |-> owed, done |-> n < Limit]
  <2>1. page = Page(offset)
    BY <1>7, <1>9 DEF Page
  <2> QED
    BY <1>4, <1>5, <1>11, <1>12, <2>1 DEF NextPage
<1>14. PICK new : new = seen \o page
  OBVIOUS
<1>15. /\ new \in Seq(1..appended) /\ Len(new) = offset + n
       /\ \A i \in 1..offset : new[i] = seen[i]
       /\ \A i \in 1..(offset + n) : i > offset => new[i] = store[i]
  <2>1. /\ new \in Seq(1..appended) /\ Len(new) = Len(seen) + Len(page)
        /\ \A i \in 1..(Len(seen) + Len(page)) :
              new[i] = IF i <= Len(seen) THEN seen[i]
                       ELSE page[i - Len(seen)]
    BY <1>6, <1>11, <1>14, ConcatProperties
  <2>2. \A i \in 1..(offset + n) :
          new[i] = IF i <= offset THEN seen[i] ELSE page[i - offset]
    BY <1>5, <1>11, <2>1
  <2>3. ASSUME NEW i \in 1..(offset + n), i > offset
        PROVE  new[i] = store[i]
    <3>1. i - offset \in 1..n /\ offset + (i - offset) = i /\ ~(i <= offset)
      BY <1>6, <1>8, <2>3
    <3> QED
      BY <1>11, <2>2, <3>1
  <2>4. ASSUME NEW i \in 1..offset
        PROVE  new[i] = seen[i]
    <3>1. i \in 1..(offset + n) /\ i <= offset
      BY <1>6, <1>8
    <3> QED
      BY <2>2, <3>1
  <2> QED
    BY <1>5, <1>11, <2>1, <2>3, <2>4
<1>16. \A i \in 1..Len(store), j \in 1..offset :
          i > offset => seen[j] < store[i]
  BY <1>4, <1>5 DEF Inductive, WalkOK
<1>17. \A i, j \in 1..offset : i < j => seen[i] < seen[j]
  BY <1>4, <1>5 DEF Inductive, WalkOK
<1>18. \A i \in 1..(offset + n) : i > offset => i \in 1..Len(store)
  BY <1>1, <1>6, <1>8
<1>19. ASSUME NEW i \in 1..(offset + n), NEW j \in 1..(offset + n), i < j
       PROVE  new[i] < new[j]
  <2>1. CASE j <= offset
    BY <1>6, <1>8, <1>15, <1>17, <1>19, <2>1
  <2>2. CASE i <= offset /\ j > offset
    <3>1. i \in 1..offset /\ j \in 1..Len(store)
      BY <1>6, <1>8, <1>18, <2>2
    <3> QED
      BY <1>15, <1>16, <2>2, <3>1
  <2>3. CASE i > offset
    BY <1>1, <1>6, <1>8, <1>15, <1>18, <1>19, <2>3
  <2> QED
    BY <1>6, <1>8, <1>19, <2>1, <2>2, <2>3
<1>20. ASSUME NEW i \in 1..Len(store), NEW j \in 1..(offset + n),
              i > offset + n
       PROVE  new[j] < store[i]
  <2>1. CASE j <= offset
    <3>1. j \in 1..offset /\ i > offset
      BY <1>6, <1>8, <1>20, <2>1
    <3> QED
      BY <1>15, <1>16, <3>1
  <2>2. CASE j > offset
    BY <1>1, <1>6, <1>8, <1>15, <1>18, <1>20, <2>2
  <2> QED
    BY <1>6, <1>8, <2>1, <2>2
<1>21. ASSUME owed # {}, NEW i \in 1..(offset + n)
       PROVE  i <= Len(store) /\ store[i] = new[i]
  <2>1. CASE i > offset
    BY <1>1, <1>15, <1>18, <2>1
  <2>2. CASE i <= offset
    <3>1. offset # 0 /\ i \in 1..offset
      BY <1>6, <1>8, <2>2
    <3>2. walk.owed # {}
      BY <1>12, <1>21, <3>1
    <3>3. i <= Len(store) /\ store[i] = seen[i]
      BY <1>4, <1>5, <3>1, <3>2 DEF Inductive, WalkOK
    <3> QED
      BY <1>15, <3>1, <3>3
  <2> QED
    BY <1>6, <1>8, <2>1, <2>2
<1>22. ASSUME NEW e \in owed
       PROVE  \E i \in 1..Len(store) : i > offset + n /\ store[i] = e
  <2>1. e \notin ToSet(page)
    BY <1>12
  <2>2. PICK i \in 1..Len(store) : i > offset /\ store[i] = e
    <3>1. CASE offset = 0
      <4>1. e \in ToSet(store)
        BY <1>12, <3>1
      <4> QED
        BY <1>1, <3>1, <4>1 DEF ToSet
    <3>2. CASE offset # 0
      <4>1. e \in walk.owed
        BY <1>12, <3>2
      <4> QED
        BY <1>4, <1>5, <4>1 DEF Inductive, WalkOK
    <3> QED
      BY <3>1, <3>2
  <2>3. i > offset + n
    <3>1. SUFFICES ASSUME i <= offset + n PROVE FALSE
      BY <1>1, <1>6, <1>8
    <3>2. i - offset \in 1..n /\ offset + (i - offset) = i
      BY <1>1, <1>6, <1>8, <2>2, <3>1
    <3>3. page[i - offset] = e /\ i - offset \in DOMAIN page
      BY <1>9, <2>2, <3>2
    <3> QED
      BY <2>1, <3>3 DEF ToSet
  <2> QED
    BY <2>2, <2>3
<1>23. n < Limit => owed = {}
  BY <1>1, <1>6, <1>8, <1>22
<1>24. owed \in SUBSET (1..appended)
  BY <1>2, <1>22
<1>25. /\ walk'.seen = new /\ walk'.owed = owed
       /\ walk'.done = (n < Limit)
  BY <1>13, <1>14
<1>26. walk' \in [seen : Seq(1..appended), owed : SUBSET (1..appended),
                  done : BOOLEAN]
  BY <1>13, <1>14, <1>15, <1>24
<1>27. UNCHANGED <<config, phase, ready, store, appended, req>>
  BY DEF NextPage
<1>28. WalkOK'
  <2>1. Len(new) = offset + n
    BY <1>15
  <2> QED
    BY <1>19, <1>20, <1>21, <1>22, <1>23, <1>25, <1>26, <1>27, <2>1
       DEF WalkOK
<1> QED
  BY <1>27, <1>28
     DEF Inductive, StoreOK, RequestOK, Checked, Cleared

-----------------------------------------------------------------------------
(* The whole of Receiver.                                                  *)

(* The inductive invariant holds before the first request.                 *)
LEMMA InitInductive == Init => Inductive
<1> SUFFICES ASSUME Init PROVE Inductive
  OBVIOUS
<1>1. appended = 0 /\ 0 \in 0..MaxEvents /\ 0 \in Nat
  BY ReceiverAssumption DEF Init
<1>2. NoRequest \in Requests(0) /\ RequestOK(NoRequest)
  BY EmptyRequest
<1>3. StoreOK
  BY DEF Init, StoreOK
<1>4. WalkOK
  BY DEF Init, WalkOK
<1>5. /\ req \in [Clients -> Requests(appended)]
      /\ \A c \in Clients : RequestOK(req[c])
  BY <1>1, <1>2 DEF Init
<1> QED
  BY <1>1, <1>3, <1>4, <1>5 DEF Init, Inductive

(* The shutdown, from the signal to the last connection.                   *)
LEMMA ShutdownKeeps ==
    ASSUME Inductive, Signal \/ StopAccepting \/ Stop
    PROVE  Inductive'
<1>1. UNCHANGED <<config, store, appended, req, walk>>
  BY DEF Signal, StopAccepting, Stop
<1>2. phase' \in {"serving", "draining", "stopped"} /\ ready' \in BOOLEAN
  BY Zenon DEF Signal, StopAccepting, Stop, Inductive
<1>3. StoreOK' /\ WalkOK'
  BY <1>1 DEF Inductive, StoreOK, WalkOK
<1>4. \A c \in Clients : RequestOK(req[c])'
  BY <1>1 DEF Inductive, RequestOK, Checked, Cleared
<1> QED
  BY <1>1, <1>2, <1>3, <1>4 DEF Inductive

(* Every step of a client, a handler or the server keeps it.               *)
LEMMA NextInductive == Inductive /\ [Next]_vars => Inductive'
<1> SUFFICES ASSUME Inductive, [Next]_vars PROVE Inductive'
  OBVIOUS
<1>1. ASSUME NEW c \in Clients, Serve(c) PROVE Inductive'
  <2>1. CASE Arrive(c) \/ Route(c) \/ Written(c) \/ Disconnect(c)
    BY <2>1, ClientKeeps
  <2>2. CASE Refuse(c) \/ AnswerRead(c)
    BY <2>2, RefusalKeeps
  <2>3. CASE GetEvent(c)
    BY <2>3, GetEventKeeps
  <2>4. CASE PostEvent(c) \/ ReplayRange(c)
    BY <2>4, AcceptKeeps
  <2>5. CASE StoreEvent(c)
    BY <2>5, StoreEventKeeps
  <2>6. CASE Submit(c) \/ Marked(c) \/ Handled(c) \/ HandlerFails(c)
             \/ Timeout(c)
    BY <2>6, HandlerKeeps
  <2> QED
    BY <1>1, <2>1, <2>2, <2>3, <2>4, <2>5, <2>6 DEF Serve
<1>2. CASE UNCHANGED vars
  BY <1>2 DEF vars, Inductive, StoreOK, WalkOK, RequestOK,
              Checked, Cleared
<1> QED
  BY <1>1, <1>2, NextPageKeeps, RetireKeeps, ShutdownKeeps DEF Next

(* The inductive invariant holds throughout.                               *)
LEMMA AlwaysInductive == Spec => []Inductive
<1> QED
  BY InitInductive, NextInductive, PTL DEF Spec

(* Receiver keeps its types, the store in append order among them.         *)
THEOREM TypeCorrect == Spec => []TypeOK
<1>1. Inductive => TypeOK
  <2> SUFFICES ASSUME Inductive PROVE TypeOK
    OBVIOUS
  <2>1. Requests(appended) =
          [at : {"none", "headers", "routing", "storing", "handling",
                 "marking", "writing"},
           route : Routes \cup {"none"}, credential : BOOLEAN, form : Forms,
           todo : SUBSET (1..appended), touched : BOOLEAN,
           status : {0, 200, 202, 400, 401, 404, 408, 413, 500, 503}]
    BY DEF Requests, Positions, Statuses
  <2> QED
    BY <2>1 DEF Inductive, TypeOK, StoreOK, WalkOK
<1> QED
  BY <1>1, AlwaysInductive, PTL

(* For all configurations and any number of clients: a request that stored *)
(* an event, submitted a job or was shown what the store holds had the     *)
(* credential that its route demands, and one with an effect was well      *)
(* formed and was not answered with a refusal.                             *)
THEOREM RefusalsLeaveNoTrace == Spec => []RefusedHasNoEffect
<1>1. Inductive => RefusedHasNoEffect
  BY DEF Inductive, RefusedHasNoEffect, RequestOK, Checked, Cleared
<1> QED
  BY <1>1, AlwaysInductive, PTL

(* For every page limit and any arrivals and removals between the pages:   *)
(* paging by offset shows events in order and none twice, and a finished   *)
(* walk has shown all that it owed.                                        *)
THEOREM PagingIsFaithful == Spec => []WalkIsFaithful
<1>1. Inductive => WalkIsFaithful
  BY DEF Inductive, WalkIsFaithful, WalkOK
<1> QED
  BY <1>1, AlwaysInductive, PTL
=============================================================================
