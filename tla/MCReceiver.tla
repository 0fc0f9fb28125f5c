----------------------------- MODULE MCReceiver -----------------------------
(***************************************************************************)
(* Settings for the run of Receiver: each of the two guards without the    *)
(* other, each mode of ingestion, and a request timeout.                   *)
(***************************************************************************)
EXTENDS Receiver

Setting(s, t, timed, a) ==
    [secret |-> s, token |-> t, timeout |-> timed, async |-> a]

TwoConfigs ==
    {Setting(TRUE, FALSE, TRUE, TRUE), Setting(FALSE, TRUE, TRUE, FALSE)}
=============================================================================
