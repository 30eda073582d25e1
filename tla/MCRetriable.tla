----------------------------- MODULE MCRetriable -----------------------------
(* Instances of Retriable for TLC.                                         *)
EXTENDS Retriable, TLC

(* Success, refusal, each status the policy treats, and the errors.        *)
AllAnswers == {200, 404, 400, 429, 500, 502, 503, ConnError, FatalError}

(* The default policy with its limits scaled down: connection errors 5,    *)
(* rate limit 3, unavailable and gateway 10, total 10.                     *)
ScaledPolicy == (0 :> 1) @@ (429 :> 0) @@ (503 :> 2) @@ (502 :> 2)
=============================================================================
