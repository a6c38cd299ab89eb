---------------------------- MODULE MCEcbResend ----------------------------
(***************************************************************************)
(* Small instances of EcbResend: the thread inside cloud_resp_set sends    *)
(* SET frames, the main thread a frame for a gesture or a factory test.    *)
(***************************************************************************)
EXTENDS EcbResend

BothThreads == {"main", "set"}
TwoRequests == {"speed", "gesture"}
Senders2 == [r \in TwoRequests |-> IF r = "gesture" THEN "main" ELSE "set"]
=============================================================================
