------------------------------ MODULE Receiver ------------------------------
(***************************************************************************)
(* The HTTP surface of `serve`: what each route checks before it has an    *)
(* effect, with which status it refuses, how clients page through the      *)
(* events, the request timeout, and the shutdown from the signal to the    *)
(* last connection.  An event is named by its place in append order.       *)
(*                                                                         *)
(* Ingest models what happens behind POST /events and replay in detail;    *)
(* here handling is the append and a submission per event, and what        *)
(* matters is where a request waits (for its client, for the broker or for *)
(* the dispatcher) and where its task is inside a store call that blocks.  *)
(* Events carry no idempotency key.                                        *)
(***************************************************************************)
EXTENDS Naturals, Sequences, SequencesExt

CONSTANTS
    Configs,    \* which settings are in use, of AllConfigs
    Clients,    \* clients, each with one request at a time
    MaxEvents,  \* bound: events appended
    Limit       \* limit of the pages a client asks for

AllConfigs ==
    [secret : BOOLEAN, token : BOOLEAN, timeout : BOOLEAN, async : BOOLEAN]

ASSUME ReceiverAssumption ==
    Configs \subseteq AllConfigs /\ MaxEvents \in Nat /\ Limit \in Nat \ {0}

VARIABLES
    config,   \* which of secret, token, timeout and async are set
    phase,    \* the accept loop
    ready,    \* the Readiness flag
    store,    \* retained events in append order
    appended, \* number of events ever appended
    req,      \* req[c]: the request of client c
    walk      \* a client that reads GET /events page by page

vars == <<config, phase, ready, store, appended, req, walk>>

(* "list" also stands for a dry run of range replay and, well formed, for  *)
(* GET /dead-triggers, "metrics" for /healthz: they pass the same checks   *)
(* and change nothing.                                                     *)
Reads == {"list", "get", "replay", "range"}
Probes == {"readyz", "metrics"}
Routes == {"post"} \cup Reads \cup Probes
Forms == {"ok", "malformed", "oversized"}

(* The body of a post may be too long or no JSON; the id, query or source  *)
(* of a read may not parse.                                                *)
FormsOf(route) ==
    {"ok"} \cup (IF route \in Probes THEN {} ELSE {"malformed"})
           \cup (IF route = "post" THEN {"oversized"} ELSE {})

(* The request on a client's connection: where it is, its route, whether   *)
(* it carries the credential asked for and what form it has, the events    *)
(* still to submit, the answer, and whether it stored an event, submitted  *)
(* a job or recorded a dead trigger (history).                             *)
NoRequest == [at |-> "none", route |-> "none", credential |-> FALSE,
              form |-> "ok", todo |-> {}, status |-> 0, touched |-> FALSE]

TypeOK ==
    /\ config \in Configs
    /\ phase \in {"serving", "draining", "stopped"}
    /\ ready \in BOOLEAN
    /\ appended \in 0..MaxEvents
    /\ store \in Seq(1..appended)
    /\ \A i, j \in 1..Len(store) : i < j => store[i] < store[j]
    /\ req \in [Clients ->
          [at : {"none", "headers", "routing", "storing", "handling",
                 "marking", "writing"},
           route : Routes \cup {"none"}, credential : BOOLEAN, form : Forms,
           todo : SUBSET (1..appended), touched : BOOLEAN,
           status : {0, 200, 202, 400, 401, 404, 408, 413, 500, 503}]]
    /\ walk.seen \in Seq(1..appended)
    /\ walk.owed \subseteq 1..appended
    /\ walk.done \in BOOLEAN

(* serve: an empty secret or token counts as unset, a zero timeout as off. *)
Init ==
    /\ config \in Configs
    /\ phase = "serving"
    /\ ready = TRUE
    /\ store = <<>>
    /\ appended = 0
    /\ req = [c \in Clients |-> NoRequest]
    /\ walk = [seen |-> <<>>, owed |-> {}, done |-> FALSE]

(* The handler awaits its client's body, the broker, or room in the        *)
(* dispatch channel.                                                       *)
Waiting(c) ==
    \/ req[c].at = "routing"
    \/ req[c].at = "handling" /\ (req[c].todo # {} \/ req[c].route = "post")

-----------------------------------------------------------------------------
(* Connections, routing and refusals.                                      *)

(* A client connects, or begins the next request of its connection ...     *)
Arrive(c) ==
    /\ phase = "serving"
    /\ req[c].at = "none"
    /\ req' = [req EXCEPT ![c].at = "headers"]
    /\ UNCHANGED <<config, phase, ready, store, appended, walk>>

(* ... and completes its headers, while the server drains too: this is     *)
(* when the layers and the route are called.  A credential that the        *)
(* configuration does not ask for makes no difference.                     *)
Credentials(route) ==
    IF (config.secret /\ route = "post") \/ (config.token /\ route \in Reads)
    THEN BOOLEAN ELSE {FALSE}
Route(c) ==
    /\ req[c].at = "headers"
    /\ \E route \in Routes :
       \E credential \in Credentials(route), form \in FormsOf(route) :
          req' = [req EXCEPT ![c].at = "routing", ![c].route = route,
                             ![c].credential = credential, ![c].form = form]
    /\ UNCHANGED <<config, phase, ready, store, appended, walk>>

(* The client has read the whole answer.                                   *)
Written(c) ==
    /\ req[c].at = "writing"
    /\ req' = [req EXCEPT ![c] = NoRequest]
    /\ UNCHANGED <<config, phase, ready, store, appended, walk>>

(* The client closes the connection: where the handler waits, its future   *)
(* is dropped as it stands.                                                *)
Disconnect(c) ==
    /\ req[c].at \in {"headers", "writing"} \/ Waiting(c)
    /\ req' = [req EXCEPT ![c] = NoRequest]
    /\ UNCHANGED <<config, phase, ready, store, appended, walk>>

(* The guards that the settings put in front of the routes.                *)
Unverified(credential) == config.secret /\ ~credential
Unauthorized(credential) == config.token /\ ~credential

(* A bug of read_router: the auth layer is added before the list route.    *)
RefusalMissesList(route, credential, form) ==
    CASE route = "post" ->
           IF form = "oversized" THEN 413
           ELSE IF Unverified(credential) THEN 401
           ELSE IF form = "malformed" THEN 400 ELSE 0
      [] route \in Reads ->
           IF Unauthorized(credential) /\ route # "list" THEN 401
           ELSE IF form = "malformed" THEN 400 ELSE 0
      [] route \in Probes -> 0

(* The status with which a request is refused before its handler runs, 0   *)
(* if it is not.  POST /events: body limit, signature, JSON.  Reads: the   *)
(* bearer token, then what they name.  Probes have no guard.               *)
Refusal(route, credential, form) ==
    CASE route = "post" ->
           IF form = "oversized" THEN 413
           ELSE IF Unverified(credential) THEN 401
           ELSE IF form = "malformed" THEN 400 ELSE 0
      [] route \in Reads ->
           IF Unauthorized(credential) THEN 401
           ELSE IF form = "malformed" THEN 400 ELSE 0
      [] route \in Probes -> 0

(* The answer is ready and is written to the client.                       *)
Answer(c, status) ==
    req' = [req EXCEPT ![c].at = "writing", ![c].status = status,
                       ![c].todo = {}]

Refuse(c) ==
    /\ req[c].at = "routing"
    /\ LET status == Refusal(req[c].route, req[c].credential, req[c].form)
       IN  status # 0 /\ Answer(c, status)
    /\ UNCHANGED <<config, phase, ready, store, appended, walk>>

(* The request is for one of routes and has passed their checks.           *)
Admitted(c, routes) ==
    /\ req[c].at = "routing"
    /\ req[c].route \in routes
    /\ Refusal(req[c].route, req[c].credential, req[c].form) = 0

-----------------------------------------------------------------------------
(* Reads.                                                                  *)

(* readyz_route is the only read that depends on the flag.                 *)
ProbeStatus(route) == IF route = "readyz" /\ ~ready THEN 503 ELSE 200

(* health_router, metrics_router, list_dead_triggers_route, a single       *)
(* list_events_route, a dry run of replay_range_route.                     *)
AnswerRead(c) ==
    /\ Admitted(c, Probes \cup {"list"})
    /\ Answer(c, ProbeStatus(req[c].route))
    /\ UNCHANGED <<config, phase, ready, store, appended, walk>>

(* get_event_route, and the look-up of replay_by_id_route.                 *)
GetEvent(c) ==
    /\ Admitted(c, {"get", "replay"})
    /\ \E e \in 1..MaxEvents :
          \/ e \notin ToSet(store) /\ Answer(c, 404)
          \/ /\ e \in ToSet(store) /\ req[c].route = "get"
             /\ Answer(c, 200)
          \/ /\ e \in ToSet(store) /\ req[c].route = "replay"
             /\ req' = [req EXCEPT ![c].at = "handling", ![c].todo = {e}]
    /\ UNCHANGED <<config, phase, ready, store, appended, walk>>

(* A bug of list_events_route: the newest events come first.               *)
NewestFirst(offset) ==
    [i \in 1..Min({Limit, Max({0, Len(store) - offset})}) |->
        store[Len(store) + 1 - offset - i]]

(* list_events_route: skip offset records, take at most Limit.             *)
Page(offset) ==
    [i \in 1..Min({Limit, Max({0, Len(store) - offset})}) |->
        store[offset + i]]

(* One more page of a client's walk, at the number of events it has seen;  *)
(* a short page is the last.  owed: what the walk has still to show.       *)
NextPage ==
    /\ phase = "serving"
    /\ ~walk.done
    /\ LET offset == Len(walk.seen)
           page == Page(offset)
       IN  walk' = [seen |-> walk.seen \o page,
                    owed |-> (IF offset = 0 THEN ToSet(store) ELSE walk.owed)
                                 \ ToSet(page),
                    done |-> Len(page) < Limit]
    /\ UNCHANGED <<config, phase, ready, store, appended, req>>

-----------------------------------------------------------------------------
(* POST /events and the replay routes.                                     *)

PostEvent(c) ==
    /\ Admitted(c, {"post"})
    /\ req' = [req EXCEPT ![c].at = "storing"]
    /\ UNCHANGED <<config, phase, ready, store, appended, walk>>

(* The append of ingest and accept returns.  Inline the event is then      *)
(* handled; an accepted event goes to the dispatcher, whose work is not    *)
(* the request's.                                                          *)
StoreEvent(c) ==
    /\ req[c].at = "storing"
    /\ appended < MaxEvents
    /\ appended' = appended + 1
    /\ store' = Append(store, appended')
    /\ req' = [req EXCEPT ![c].at = "handling", ![c].touched = TRUE,
                          ![c].todo = IF config.async THEN {} ELSE {appended'}]
    /\ UNCHANGED <<config, phase, ready, walk>>

(* replay_range takes the events of its window from the store.             *)
ReplayRange(c) ==
    /\ Admitted(c, {"range"})
    /\ \E window \in SUBSET ToSet(store) :
          req' = [req EXCEPT ![c].at = "handling", ![c].todo = window]
    /\ UNCHANGED <<config, phase, ready, store, appended, walk>>

(* The broker has answered for the triggers of one more event.  A failure  *)
(* is recorded, and an event handled inline marked delivered, in store     *)
(* calls that block.                                                       *)
Submit(c) ==
    /\ req[c].at = "handling"
    /\ \E e \in req[c].todo,
          at \in IF req[c].route = "post" THEN {"marking"}
                 ELSE {"handling", "marking"} :
          req' = [req EXCEPT ![c].at = at, ![c].todo = @ \ {e},
                             ![c].touched = TRUE]
    /\ UNCHANGED <<config, phase, ready, store, appended, walk>>

(* The store call returns and the next event is handled.                   *)
Marked(c) ==
    /\ req[c].at = "marking"
    /\ req[c].todo # {}
    /\ req' = [req EXCEPT ![c].at = "handling"]
    /\ UNCHANGED <<config, phase, ready, store, appended, walk>>

(* 202 for an event that was only accepted, 200 for one that was handled.  *)
Handled(c) ==
    /\ req[c].at \in {"handling", "marking"}
    /\ req[c].todo = {}
    /\ Answer(c, IF req[c].route = "post" /\ config.async THEN 202 ELSE 200)
    /\ UNCHANGED <<config, phase, ready, store, appended, walk>>

(* A store call returns an error, or the dispatch channel is closed.       *)
HandlerFails(c) ==
    /\ \/ req[c].at \in {"storing", "marking"}
       \/ req[c].at = "handling" /\ req[c].route = "post" /\ config.async
    /\ Answer(c, 500)
    /\ UNCHANGED <<config, phase, ready, store, appended, walk>>

(* A bug of with_request_timeout: only the events router is wrapped.       *)
TimeoutEventsOnly(c) ==
    /\ config.timeout
    /\ Waiting(c)
    /\ req[c].route = "post"
    /\ Answer(c, 408)
    /\ UNCHANGED <<config, phase, ready, store, appended, walk>>

(* with_request_timeout: the layer is around the whole app.  It runs from  *)
(* the end of the headers to the answer, and can only drop a handler that  *)
(* waits.                                                                  *)
Timeout(c) ==
    /\ config.timeout
    /\ Waiting(c)
    /\ Answer(c, 408)
    /\ UNCHANGED <<config, phase, ready, store, appended, walk>>

-----------------------------------------------------------------------------
(* Retention and shutdown.                                                 *)

(* A sweep removes an event, wherever it is in the log.  If the walk has   *)
(* shown it, the rest moves up past the offset and nothing more is owed.   *)
Retire ==
    /\ phase # "stopped"
    /\ \E k \in 1..Len(store) :
          /\ store' = RemoveAt(store, k)
          /\ walk' = [walk EXCEPT
                !.owed = IF Contains(walk.seen, store[k]) THEN {}
                         ELSE @ \ {store[k]}]
    /\ UNCHANGED <<config, phase, ready, appended, req>>

(* shutdown_signal: the flag changes inside the shutdown future, ...       *)
Signal ==
    /\ phase = "serving"
    /\ ready
    /\ ready' = FALSE
    /\ UNCHANGED <<config, phase, store, appended, req, walk>>

(* ... and the accept loop ends once that future has resolved.             *)
StopAccepting ==
    /\ phase = "serving"
    /\ ~ready
    /\ phase' = "draining"
    /\ UNCHANGED <<config, ready, store, appended, req, walk>>

(* with_graceful_shutdown returns when no connection has a request, be it  *)
(* one whose headers are not complete or whose answer is not read.         *)
Stop ==
    /\ phase = "draining"
    /\ \A c \in Clients : req[c].at = "none"
    /\ phase' = "stopped"
    /\ UNCHANGED <<config, ready, store, appended, req, walk>>

Serve(c) ==
    \/ Arrive(c) \/ Route(c) \/ Written(c) \/ Disconnect(c) \/ Refuse(c)
    \/ AnswerRead(c) \/ GetEvent(c)
    \/ PostEvent(c) \/ StoreEvent(c) \/ ReplayRange(c) \/ Submit(c)
    \/ Marked(c) \/ Handled(c) \/ HandlerFails(c) \/ Timeout(c)

Next ==
    \/ \E c \in Clients : Serve(c)
    \/ NextPage \/ Retire
    \/ Signal \/ StopAccepting \/ Stop

(* The task runs: a store call returns, or nothing is left to wait for.    *)
Runs(c) ==
    /\ ~Waiting(c)
    /\ StoreEvent(c) \/ Marked(c) \/ Handled(c) \/ HandlerFails(c)

(* The timer, the accept loop and a task that does not wait are fair, and  *)
(* a store call returns.  Nothing is assumed of clients, which may stall   *)
(* in their headers, in their body or over the answer, nor of the broker   *)
(* and the dispatcher, which may hang.                                     *)
Spec ==
    /\ Init /\ [][Next]_vars
    /\ WF_vars(StopAccepting) /\ WF_vars(Stop)
    /\ \A c \in Clients : WF_vars(Timeout(c)) /\ WF_vars(Runs(c))

-----------------------------------------------------------------------------
(* Whatever stored an event, submitted a job or showed whether an event    *)
(* exists came from a request with the credential that the configuration   *)
(* demands; and what had an effect was well formed and was not answered    *)
(* with a refusal: a refused request left no trace (post_events_route,     *)
(* require_read_auth, read_router, replay_to_http).                        *)
RefusedHasNoEffect ==
    \A c \in Clients :
        LET q == req[c]
        IN  /\ q.touched \/ q.status \in {200, 202, 404} =>
                  /\ config.secret /\ q.route = "post" => q.credential
                  /\ config.token /\ q.route \in Reads => q.credential
            /\ q.touched =>
                  q.form = "ok" /\ q.status \notin {400, 401, 404, 413}

(* Paging by offset shows events in append order and none twice, though    *)
(* events arrive and leave between the pages.  A finished walk has shown   *)
(* every event that was there when it began and did not leave, unless one  *)
(* that it had already shown left before its end (list_events_route).      *)
WalkIsFaithful ==
    /\ \A i, j \in 1..Len(walk.seen) : i < j => walk.seen[i] < walk.seen[j]
    /\ walk.done => walk.owed = {}

(* With a request timeout the shutdown ends though the broker and the      *)
(* dispatcher hang and clients stall in their bodies, provided that no     *)
(* client stalls forever in its headers or over its answer                 *)
(* (with_request_timeout, serve_ingest).                                   *)
ClientsGoOn ==
    \A c \in Clients : []<>(req[c].at \notin {"headers", "writing"})
Drains ==
    ClientsGoOn => (config.timeout /\ ~ready ~> phase = "stopped")

(* What the specification says of the request timeout: a slow or stalled   *)
(* client cannot hold a connection and its handling task open              *)
(* indefinitely.                                                           *)
StalledClientsAreCut ==
    \A c \in Clients :
        config.timeout /\ req[c].at # "none" ~> req[c].at = "none"
=============================================================================
