--------------------------- MODULE CheckpointTurns ---------------------------
(***************************************************************************)
(* Which due checkpoints are acquired next (learning.py 2129-2306).        *)
(*                                                                         *)
(* Each call may spend a small budget.  Three turns go to Policy routes,   *)
(* the fourth to Discovery; a lane with nothing left gives its turn away.  *)
(* Inside a lane the routes near the end of their window come first, then  *)
(* those not served yet, then those served longest ago.  The call runs     *)
(* under the event lock; between calls routes come due, become urgent, are *)
(* answered or run out.  Clocks are left open: any due route may become    *)
(* urgent or leave.  What the selection samples for diagnostics is left    *)
(* out.                                                                    *)
(***************************************************************************)
EXTENDS Integers

CONSTANTS
    PolicyRoutes,       \* mints with a pending Policy episode
    DiscoveryRoutes,    \* mints with a pending observation; one in both is a Policy fetch
    Budget,             \* limit: routes per call
    MaxCalls            \* bound: calls

ASSUME TurnsAssumption == Budget \in Nat

Routes == PolicyRoutes \cup DiscoveryRoutes

VARIABLES
    dueRoutes, urgent,  \* routes due on this channel, and those near the end of their window
    served,             \* _checkpoint_served: <<m, n>> when m's last turn is not after n's
    turn,               \* _checkpoint_turn modulo 4
    queue, left,        \* the routes and the budget this call has left
    calls,
    passed,             \* history: per due route, lane mates served without urgency since
    repeated,           \* history: a lane mate was served twice while a route waited
    streak              \* history: <<lane, turns in a row it took from the other>>

turnVars == <<dueRoutes, urgent, served, turn, queue, left, calls, passed, repeated, streak>>

\* One fetch in the Policy lane serves both clocks (learning.py 2248-2252).
LaneOf(m) == IF m \in PolicyRoutes THEN "policy" ELSE "discovery"
Lane(l) == {m \in queue : LaneOf(m) = l}
Other(l) == IF l = "policy" THEN "discovery" ELSE "policy"

TurnsInit ==
    /\ dueRoutes = {} /\ urgent = {} /\ served = {} /\ turn = 0
    /\ queue = {} /\ left = 0 /\ calls = 0
    /\ passed = [m \in Routes |-> {}] /\ repeated = FALSE /\ streak = <<"policy", 0>>

Idling == left = 0 \/ queue = {}

RouteDue(m) ==
    /\ Idling /\ m \notin dueRoutes
    /\ dueRoutes' = dueRoutes \cup {m}
    /\ passed' = [n \in Routes |-> IF n = m THEN {} ELSE passed[n] \ {m}]
    /\ UNCHANGED <<urgent, served, turn, queue, left, calls, repeated, streak>>

RouteUrgent(m) ==
    /\ Idling /\ m \in dueRoutes \ urgent
    /\ urgent' = urgent \cup {m}
    /\ UNCHANGED <<dueRoutes, served, turn, queue, left, calls, passed, repeated, streak>>

RouteLeaves(m) ==
    /\ Idling /\ m \in dueRoutes
    /\ dueRoutes' = dueRoutes \ {m} /\ urgent' = urgent \ {m}
    /\ UNCHANGED <<served, turn, queue, left, calls, passed, repeated, streak>>

\* Mutant: every call forgets who was served.
ForgetsServed == {}

WasServed(m) == <<m, m>> \in served

\* The turns of routes that are no longer due are dropped (learning.py 2253-2257).
StillServed == served \cap (dueRoutes \X dueRoutes)

CallBegins ==
    /\ Idling /\ calls < MaxCalls /\ calls' = calls + 1
    /\ queue' = dueRoutes /\ left' = Budget /\ served' = StillServed
    /\ UNCHANGED <<dueRoutes, urgent, turn, passed, repeated, streak>>

\* The order inside a lane (learning.py 2258-2272); ties are left open.
Before(m, n) ==
    LET longer == WasServed(n) /\ (WasServed(m) => <<n, m>> \notin served)
    IN  \/ m \in urgent /\ n \notin urgent
        \/ (m \in urgent <=> n \in urgent) /\ longer

\* Mutant: Policy always goes first.
AlwaysPolicy == IF Lane("policy") # {} THEN "policy" ELSE "discovery"

\* The lane whose turn it is (learning.py 2275-2281).
LaneTurn ==
    LET preferred == IF turn = 3 THEN "discovery" ELSE "policy"
    IN  IF Lane(preferred) # {} THEN preferred ELSE Other(preferred)

\* One pick (learning.py 2274-2285).
PickNext ==
    /\ ~Idling
    /\ \E m \in Lane(LaneTurn) :
        /\ \A n \in Lane(LaneTurn) : ~Before(n, m)
        /\ queue' = queue \ {m} /\ left' = left - 1
        /\ served' = {p \in served : m \notin {p[1], p[2]}}
                         \cup {<<n, m>> : n \in {n \in Routes : WasServed(n)} \cup {m}}
        /\ LET mates == {n \in dueRoutes \ (urgent \cup {m}) : LaneOf(n) = LaneOf(m)}
           IN  /\ passed' = [n \in Routes |-> IF n = m THEN {}
                                              ELSE IF n \in mates /\ m \notin urgent
                                              THEN passed[n] \cup {m} ELSE passed[n]]
               /\ repeated' = (repeated \/ (m \notin urgent /\ \E n \in mates : m \in passed[n]))
        /\ streak' = IF Lane(Other(LaneTurn)) = {} THEN <<LaneTurn, 0>>
                     ELSE IF streak[1] = LaneTurn THEN <<LaneTurn, streak[2] + 1>>
                     ELSE <<LaneTurn, 1>>
    /\ turn' = (turn + 1) % 4
    /\ UNCHANGED <<dueRoutes, urgent, calls>>

TurnsNext ==
    \/ \E m \in Routes : RouteDue(m) \/ RouteUrgent(m) \/ RouteLeaves(m)
    \/ CallBegins \/ PickNext

TurnsSpec == TurnsInit /\ [][TurnsNext]_turnVars

-----------------------------------------------------------------------------
(* Properties *)

\* The variables have the types the code gives them.
TurnsTypeOK ==
    /\ urgent \subseteq dueRoutes /\ dueRoutes \subseteq Routes /\ queue \subseteq Routes
    /\ turn \in 0..3 /\ left \in 0..Budget /\ served \subseteq Routes \X Routes
    /\ \A m, n \in Routes : (m # n /\ WasServed(m) /\ WasServed(n)) =>
          (<<m, n>> \in served <=> <<n, m>> \notin served)

\* A failed route goes behind the ones that wait: while a route is due and not urgent, no
\* lane mate that stays due is taken a second time without urgency, over any number of calls
\* (learning.py 2145-2147, 2253-2272).
TurnsRotate == ~repeated

\* Neither lane starves the other: with both waiting, Policy takes at most three turns in
\* a row and Discovery one, wherever the calls' budgets end (learning.py 2274-2285).
LanesShare ==
    streak[2] <= IF streak[1] = "policy" THEN 3 ELSE 1

\* Over any number of calls neither a failing route nor a lane starves the others
\* (learning.py 2129-2306).
TurnsAreFair ==
    /\ TurnsTypeOK
    /\ TurnsRotate
    /\ LanesShare
=============================================================================
