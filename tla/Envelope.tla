------------------------------ MODULE Envelope ------------------------------
(***************************************************************************)
(* Event envelopes: how follow-up events carry a chain on.  An envelope is *)
(* [id, metadata]; its id is fresh each time.  Source, type and payload    *)
(* are passed through and left out.                                        *)
(***************************************************************************)
EXTENDS Naturals

None == "none"

(* EventEnvelope::new.                                                     *)
NewEnvelope(id) ==
    [id |-> id,
     metadata |-> [trace |-> None, correlation |-> None, tenant |-> None,
                   key |-> None, causation |-> None]]

WithMetadata(event, metadata) == [event EXCEPT !.metadata = metadata]

(* A bug of follow_up: every follow-up starts a chain of its own.          *)
FollowUpRestarts(cause, id) ==
    WithMetadata(NewEnvelope(id),
        [trace |-> cause.metadata.trace,
         correlation |-> cause.id,
         tenant |-> cause.metadata.tenant, key |-> None,
         causation |-> cause.id])

FollowUp(cause, id) ==
    WithMetadata(NewEnvelope(id),
        [trace |-> cause.metadata.trace,
         correlation |-> IF cause.metadata.correlation = None THEN cause.id
                         ELSE cause.metadata.correlation,
         tenant |-> cause.metadata.tenant, key |-> None,
         causation |-> cause.id])

(* The events that may start a chain: POST /events and an events file take *)
(* metadata from their caller, the other sources give none.                *)
Originating(id, metadatas) ==
    {NewEnvelope(id)} \cup {WithMetadata(NewEnvelope(id), m) : m \in metadatas}
=============================================================================
