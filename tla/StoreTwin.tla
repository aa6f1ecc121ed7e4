------------------------------ MODULE StoreTwin ------------------------------
(***************************************************************************)
(* The double that the tests of Create use for PostgreSQL                  *)
(* (adapter/memstore): the same calls in the same order go to both, and    *)
(* the double should answer as the database does.                          *)
(***************************************************************************)
EXTENDS ShareCreate

CONSTANTS
  Ids, IdOf,   \* IdOf[r]: the id of a resource, without its type
  Nobody       \* user 0, what a Go map gives for a key it does not have

VARIABLES
  links,   \* LinkRepository: links[c], the link stored under a code
  ended,   \*                 codes of the links with a DeletedAt
  marked   \* ContentReader: the ids marked as deleted

(* An id is the primary key of submissions: it has one type and one author,  *)
(* who is a user.                                                            *)
ASSUME TwinAssumption ==
  /\ None \notin [res : Resources, owner : Users]
  /\ IdOf \in [Resources -> Ids]
  /\ \A r, s \in Resources :
       IdOf[r] = IdOf[s] /\ OwnerOf[r] # None /\ OwnerOf[s] # None => r = s
  /\ Nobody \in Users /\ \A r \in Resources : OwnerOf[r] # Nobody

memVars == <<links, ended, marked>>

TwinInit == /\ Init
            /\ links = [c \in Codes |-> None] /\ ended = {}
            /\ marked = {}

-----------------------------------------------------------------------------
Stored(c) == links[c] # None

(* FindByResource: any of them, the order of a map is random. *)
Sharing_Deleted(r) == {c \in Codes : Stored(c) /\ links[c].res = r}   \* mutant
Sharing(r) == {c \in Codes : Stored(c) /\ links[c].res = r /\ c \notin ended}

Owned(c, u) == Stored(c) /\ links[c].owner = u /\ c \notin ended

InsertErr(c, r) == IF Stored(c) THEN "duplicate"
                   ELSE IF Sharing(r) # {} THEN "shared" ELSE "none"

MemInsert(c, r, u) ==
  /\ links' = IF InsertErr(c, r) = "none" THEN [links EXCEPT ![c] = [res |-> r, owner |-> u]]
              ELSE links
  /\ UNCHANGED <<ended, marked>>

MemSoftDelete(c, u) == /\ ended' = IF Owned(c, u) THEN ended \cup {c} ELSE ended
                       /\ UNCHANGED <<links, marked>>

MarkDeleted(id) == marked' = marked \cup {id} /\ UNCHANGED <<links, ended>>

(* IsOwner does not look at the type, and an id that is not in the map       *)
(* belongs to user 0.                                                        *)
AuthorsOf(id) == {OwnerOf[s] : s \in {r \in Resources : IdOf[r] = id}} \ {None}
OwnerIn(id)   == IF AuthorsOf(id) = {} THEN {Nobody} ELSE AuthorsOf(id)
IsOwner(r, u) == u \in OwnerIn(IdOf[r]) /\ IdOf[r] \notin marked

TwinNext ==
  \/ \E q \in Requests : /\ CheckOwner(q) \/ Find(q) \/ Refind(q) \/ Exhausted(q) \/ DbErr(q)
                         /\ UNCHANGED memVars
  \/ \E q \in Requests, c \in Codes : Insert(q, c) /\ MemInsert(c, ReqRes[q], ReqUser[q])
  \/ \E c \in Codes : DeleteLink(c) /\ MemSoftDelete(c, ownerOf[c])
  \/ \E r \in Resources : DeleteSubmission(r) /\ MarkDeleted(IdOf[r])

TwinSpec == TwinInit /\ [][TwinNext]_<<vars, memVars>>
TwinFairSpec == TwinSpec /\ \A q \in Requests : WF_vars(Step(q))

-----------------------------------------------------------------------------
(* memstore.go:1, a use case is tested without PostgreSQL: after any calls   *)
(* the double answers each call on a link as the statements and the unique   *)
(* indexes of the database do.  It lets everyone share whom the database     *)
(* lets; but it lets the author of a submission share it under any type, and *)
(* user 0 share an id that no submission has, and the database neither.      *)
DbIsOwner(r, u) == r \in posted /\ OwnerOf[r] = u
OtherType(r, u) == \E s \in posted : s # r /\ IdOf[s] = IdOf[r] /\ OwnerOf[s] = u
NoSuchId(r)     == \A s \in Resources : IdOf[s] = IdOf[r] => OwnerOf[s] = None

TwinAgrees ==
  /\ \A c \in Codes : /\ Stored(c) <=> CodeTaken(c)
                      /\ Stored(c) => links[c] = [res |-> resOf[c], owner |-> ownerOf[c]]
  /\ \A r \in Resources : Sharing(r) = Shared(r)
  /\ \A c \in Codes, u \in Users : Owned(c, u) <=> c \in live /\ ownerOf[c] = u
  /\ \A r \in Resources, u \in Users :
       IsOwner(r, u) <=> DbIsOwner(r, u) \/ OtherType(r, u) \/ (u = Nobody /\ NoSuchId(r))
=============================================================================
