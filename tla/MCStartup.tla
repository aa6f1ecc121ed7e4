----------------------------- MODULE MCStartup -----------------------------
(* A rolling deployment: two replicas of the new binary, with both           *)
(* migrations, and one of the old binary, with the first; or, in the         *)
(* behaviours that begin with a request, the rate limiter.  The two have no  *)
(* state in common, so that one stands still while the other runs.           *)
EXTENDS Startup, RateLimiter

Rolling == [r \in Replicas |-> IF r = "old" THEN 1 ELSE 2]

ServiceInit == Init /\ LimiterInit
ServiceNext == \/ Next /\ LimiterInit /\ UNCHANGED limiterVars
               \/ LimiterNext /\ Init /\ UNCHANGED vars
ServiceSpec == /\ ServiceInit /\ [][ServiceNext]_<<vars, limiterVars>>
               /\ (\A r \in Replicas : WF_vars(Step(r))) /\ WF_vars(EndSession)
=============================================================================
