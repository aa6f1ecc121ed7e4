------------------------------ MODULE MCResolve ------------------------------
(* The snapshot cache under faults; or, in the behaviours that begin with a  *)
(* visit or a change of its link, three visits of one browser on top of what *)
(* the caches promise.  The two have no state in common, so that one stands  *)
(* still while the other runs.                                               *)
EXTENDS MCSnapshotCache, Resolve

Routes  == <<"page", "page", "api">>
Viewers == <<"guest", "guest", "guest">>

ServiceInit == Init /\ ResolveInit
ServiceNext == \/ Next /\ ResolveInit /\ UNCHANGED resolveVars
               \/ ResolveNext /\ Init /\ UNCHANGED vars
ServiceSpec == ServiceInit /\ [][ServiceNext]_<<vars, resolveVars>>
=============================================================================
