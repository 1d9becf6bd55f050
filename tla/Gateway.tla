------------------------------- MODULE Gateway -------------------------------
(* What a request passes before it reaches a route: who it is from, ApiKeys, *)
(* and how often its caller may ask, RateLimits.  The two share no state and  *)
(* their processes move independently.                                       *)
EXTENDS ApiKeys, RateLimits

GatewaySpec == AkInit /\ RtInit /\ [][AkNext]_akVars /\ [][RtNext]_rtVars

(* What lets a request in is no older than the caches say, and no window    *)
(* admits more than its limit, over retries, restarts and replicas.          *)
GatewayHolds == AnswersAreRecent /\ ExpiredSoonRefused /\ WindowsHold
=============================================================================
