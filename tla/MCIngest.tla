------------------------------ MODULE MCIngest ------------------------------
(***************************************************************************)
(* Constants for the model-checking runs of Ingest.                        *)
(***************************************************************************)
EXTENDS Ingest, TLC

CONSTANTS r1, r2, r3, k1, good, bad

(* r1 and r2 are a request and its retry with the same idempotency key; r3 *)
(* has no key.  Trigger bad never binds, so it is always dead-lettered.    *)
PairKey == (r1 :> k1) @@ (r2 :> k1) @@ [r \in Requests |-> None]
BothTriggers ==
    [r \in Requests |-> IF r = r3 THEN <<good>> ELSE <<good, bad>>]
GoodTrigger == [r \in Requests |-> <<good>>]

(* Only the retry r3 shares the key of r2; r1 keeps the channel occupied.  *)
LateKey == (r2 :> k1) @@ (r3 :> k1) @@ [r \in Requests |-> None]

(* The matches above name each trigger of an event once.                   *)
ASSUME MCIngestAssumption == DistinctMatches
=============================================================================
