------------------------------ MODULE ViewStats ------------------------------
(***************************************************************************)
(* The statistics of a link: Stats of usecase/share/manage.go reads        *)
(* view_count from the row and then, by Pending of view_counter.go, the    *)
(* counter in Redis, while the view counter moves views from one to the    *)
(* other.  What a read sees of each view is a number, so that the answer   *)
(* tells which view it counts twice.                                       *)
(***************************************************************************)
EXTENDS ViewCounter

CONSTANT NoLink
ASSUME StatsAssumption == NoLink \notin Links

VARIABLES asked,   \* the link of a Stats request between its two reads
          part,    \* what the first read found of each view
          total,   \* the last answer
          \* history
          late     \* views queued by handlers that outlived Shutdown

statsVars == <<asked, part, total>>
Zero      == [v \in Views |-> 0]

StatsTypeOK == /\ asked \in Links \cup {NoLink}
               /\ part \in [Views -> Nat] /\ total \in [Views -> Nat]
               /\ late \subseteq Views

RowOf(l)     == [v \in Views |-> IF LinkOf[v] = l THEN written[v] ELSE 0]
PendingOf(l) == [v \in Views |-> IF LinkOf[v] = l /\ v \in inRedis THEN 1 ELSE 0]

Part_Swapped(n, l) == IF n = 1 THEN PendingOf(l) ELSE RowOf(l)   \* mutant
Part(n, l) == IF n = 1 THEN RowOf(l) ELSE PendingOf(l)

ReadFirst(l) ==
  /\ asked = NoLink
  /\ asked' = l
  /\ part' = Part(1, l) /\ total' = Zero

ReadSecond ==
  /\ asked # NoLink
  /\ total' = [v \in Views |-> part[v] + Part(2, asked)[v]]
  /\ asked' = NoLink /\ part' = Zero

(* The request fails, and shows nothing. *)
StatsErr ==
  /\ May("redisErr") /\ asked # NoLink
  /\ asked' = NoLink /\ part' = Zero /\ UNCHANGED total

QueuedLate == {v \in tracked' \ tracked : \E i \in Instances : phase[i] # "serving" /\ Queued(i, v)'}

StatsInit == Init /\ asked = NoLink /\ part = Zero /\ total = Zero /\ late = {}
StatsStep == (\E l \in Links : ReadFirst(l)) \/ ReadSecond \/ StatsErr
StatsNext == \/ Next /\ late' = late \cup QueuedLate /\ UNCHANGED statsVars
             \/ StatsStep /\ UNCHANGED <<vars, late>>

StatsSpec     == StatsInit /\ [][StatsNext]_<<vars, statsVars, late>>
StatsFairSpec == StatsSpec /\ Fairness

-----------------------------------------------------------------------------
(* manage.go:39: the total of written and waiting views does not count a     *)
(* view more often than view_count and the counter do at that time, though a *)
(* flush may move it between the reads.                                      *)
StatsNotAhead ==
  [][asked # NoLink /\ total' # total =>
       \A v \in Views : total'[v] <= written[v] + (IF v \in inRedis THEN 1 ELSE 0)
    ]_<<vars, statsVars, late>>

(* main.go:148, "the buffer is drained": whatever is left in the channel when *)
(* the final flush starts, and lost with the process, came from a handler     *)
(* that outlived the deadline of Shutdown; nothing of what was queued before. *)
LeftIsLate ==
  \A i \in Instances : phase[i] \in {"final", "stopped"} =>
    \A k \in 1..Len(events[i]) : events[i][k] \in late
=============================================================================
