---------------------------- MODULE LinkRegistry ----------------------------
(***************************************************************************)
(* What creating a share link promises (create.go:10-11): one step, at     *)
(* some moment of the request, that gives the resource's live link, or a   *)
(* new one under a code that no link, live or deleted, has ever had.       *)
(***************************************************************************)
CONSTANTS Requests, Resources, Codes,
          ReqRes,              \* the resource a request shares
          None                 \* no link, no answer

VARIABLES resOf,               \* resOf[c]: the resource of the link with code c
          live,                \* codes of the links not deleted
          answer               \* answer[q]: None, or the link and whether it is new

registryVars == <<resOf, live, answer>>

RegistryInit == /\ resOf = [c \in Codes |-> None]
                /\ live = {}
                /\ answer = [q \in Requests |-> None]

Answer(q, c, new) == /\ answer[q] = None
                     /\ answer' = [answer EXCEPT ![q] = [code |-> c, created |-> new]]

GetLive(q, c) == /\ c \in live /\ resOf[c] = ReqRes[q]
                 /\ Answer(q, c, FALSE)
                 /\ UNCHANGED <<resOf, live>>

Mint(r, c) == /\ resOf[c] = None
              /\ \A d \in live : resOf[d] # r
              /\ resOf' = [resOf EXCEPT ![c] = r]
              /\ live' = live \cup {c}

MintNew(q, c)  == Mint(ReqRes[q], c) /\ Answer(q, c, TRUE)

(* The link is there, and the requester does not hear of it. *)
MintLost(q, c) == Mint(ReqRes[q], c) /\ answer[q] = None /\ UNCHANGED answer

Drop(c) == /\ c \in live
           /\ live' = live \ {c}
           /\ UNCHANGED <<resOf, answer>>

RegistryNext == \/ \E q \in Requests, c \in Codes : GetLive(q, c) \/ MintNew(q, c) \/ MintLost(q, c)
                \/ \E c \in Codes : Drop(c)

RegistrySpec == RegistryInit /\ [][RegistryNext]_registryVars
=============================================================================
