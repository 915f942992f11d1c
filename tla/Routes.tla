------------------------------- MODULE Routes -------------------------------
(***************************************************************************)
(* The order a collector is told to visit the stops in: the nearest stop    *)
(* first, then passes over the route that turn a stretch around whenever    *)
(* that makes it shorter, until a pass improves nothing.  A suggested batch *)
(* is the beginning of such a route.  One turn of a loop of the code is one *)
(* step here.                                                               *)
(*                                                                          *)
(* The code compares and adds great-circle distances; here stops lie on a   *)
(* grid, and the distance is the number of steps between two of them.  A    *)
(* stop is known by its place in the caller's list.                         *)
(***************************************************************************)
EXTENDS Integers, Sequences, FiniteSets, SequencesExt, FiniteSetsExt

CONSTANTS
  Width,       \* the stops lie on a grid: its columns,
  Height,      \* and its rows
  MaxStops,    \* bound: stops of a route
  MaxCluster,  \* maxStops: stops of a batch
  MaxLeg       \* maxLegKm: the way from one stop of a batch to the next

ASSUME RouteAssumption == {Width, Height} \subseteq Nat \ {0} /\ {MaxStops, MaxCluster, MaxLeg} \subseteq Nat

VARIABLES
  given,    \* where the stops are, as the caller lists them
  stage,    \* "idle", "nearest", "reversing" or "planned"
  ahead,    \* remaining of nearestNeighbour: stops not taken yet
  greedy,   \* its ordered: the nearest stop first
  ordered,  \* best of twoOptImprove, and then the route
  sweep,    \* the pass, its stretch from i to k, and improvedThisPass
  batch     \* the suggested batch

routeVars == <<given, stage, ahead, greedy, ordered, sweep, batch>>

Points == (1..Width) \X (1..Height)
Origin  == <<1, 1>>

MaxPasses == 20   \* MAX_TWO_OPT_PASSES

\* haversineKm.
Apart(a, b) ==
  LET Steps(x, y) == IF x < y THEN y - x ELSE x - y
  IN Steps(a[1], b[1]) + Steps(a[2], b[2])

\* The i-th leg of a route over these stops.
Leg(stops, route, i) == Apart(IF i = 1 THEN Origin ELSE stops[route[i - 1]], stops[route[i]])

\* routeLengthKm: all steps of all legs.
RouteLength(stops, route) ==
  Cardinality({step \in (DOMAIN route) \X (1..(Width + Height)) :
                 step[2] <= Leg(stops, route, step[1])})

\* The stretch from i to k, turned around.
Reversal(route, i, k) ==
  SubSeq(route, 1, i - 1) \o Reverse(SubSeq(route, i, k)) \o SubSeq(route, k + 1, Len(route))

Shorter(r, route) == RouteLength(given, r) < RouteLength(given, route)

FirstStretch_KeepsFirst(n) == [pass |-> n, i |-> 2, k |-> 3, improved |-> FALSE]

FirstStretch(n) == [pass |-> n, i |-> 1, k |-> 2, improved |-> FALSE]

\* buildCluster: up to the first leg that is too long, or the limit of stops.
BuildCluster(stops, route) ==
  LET cut == {i \in DOMAIN route : i > MaxCluster \/ (i > 1 /\ Leg(stops, route, i) > MaxLeg)}
  IN IF cut = {} THEN route ELSE SubSeq(route, 1, Min(cut) - 1)

-----------------------------------------------------------------------------
RouteInit ==
  /\ given = << >> /\ stage = "idle" /\ ahead = {}
  /\ greedy = << >> /\ ordered = << >> /\ batch = << >>
  /\ sweep = FirstStretch(1)

\* getCollectorRoute and findSuggestedBatch, for the stops they found.
RouteAsked(stops) ==
  /\ stage = "idle"
  /\ given' = stops
  /\ ahead' = DOMAIN stops
  /\ stage' = "nearest"
  /\ UNCHANGED <<greedy, ordered, sweep, batch>>

\* nearestNeighbour: of two stops at the same distance, the one listed first.
NearestTaken(s) ==
  /\ stage = "nearest" /\ s \in ahead
  /\ LET Away(t) == Apart(IF greedy = << >> THEN Origin ELSE given[Last(greedy)], given[t])
     IN \A t \in ahead : Away(s) < Away(t) \/ (Away(s) = Away(t) /\ s <= t)
  /\ greedy' = Append(greedy, s)
  /\ ahead' = ahead \ {s}
  /\ UNCHANGED <<given, stage, ordered, sweep, batch>>

RoutePlanned(route) == stage' = "planned" /\ batch' = BuildCluster(given, route)

\* twoOptImprove begins, and is over when there are fewer than three stops.
GreedyDone ==
  /\ stage = "nearest" /\ ahead = {}
  /\ ordered' = greedy
  /\ sweep' = FirstStretch(1)
  /\ IF Len(greedy) < 3 THEN RoutePlanned(greedy)
                        ELSE stage' = "reversing" /\ UNCHANGED batch
  /\ UNCHANGED <<given, ahead, greedy>>

LastStretch == sweep.i = Len(ordered) - 1 /\ sweep.k = Len(ordered)

NextStretch(improved) ==
  IF sweep.k < Len(ordered)
  THEN [sweep EXCEPT !.k = @ + 1, !.improved = improved]
  ELSE [sweep EXCEPT !.i = @ + 1, !.k = sweep.i + 2, !.improved = improved]

\* A stretch is tried, and the pass goes on from the better route; after its last
\* stretch there is another pass if this one improved anything.
StretchTried ==
  LET r        == Reversal(ordered, sweep.i, sweep.k)
      improved == sweep.improved \/ Shorter(r, ordered)
  IN /\ stage = "reversing"
     /\ ordered' = IF Shorter(r, ordered) THEN r ELSE ordered
     /\ CASE ~LastStretch ->
               sweep' = NextStretch(improved) /\ UNCHANGED <<stage, batch>>
          [] LastStretch /\ improved /\ sweep.pass < MaxPasses ->
               sweep' = FirstStretch(sweep.pass + 1) /\ UNCHANGED <<stage, batch>>
          [] LastStretch /\ ~(improved /\ sweep.pass < MaxPasses) ->
               sweep' = [sweep EXCEPT !.improved = improved] /\ RoutePlanned(ordered')
     /\ UNCHANGED <<given, ahead, greedy>>

RouteNext ==
  \/ \E stops \in UNION {[1..n -> Points] : n \in 1..MaxStops} : RouteAsked(stops)
  \/ \E s \in ahead : NearestTaken(s)
  \/ GreedyDone
  \/ StretchTried

RouteSpec == RouteInit /\ [][RouteNext]_routeVars

-----------------------------------------------------------------------------
(* Properties.                                                              *)

RouteTypeOK ==
  LET Stops == DOMAIN given
  IN /\ given \in Seq(Points) /\ Len(given) <= MaxStops
     /\ stage \in {"idle", "nearest", "reversing", "planned"}
     /\ ahead \subseteq Stops
     /\ {greedy, ordered, batch} \subseteq Seq(Stops)
     /\ sweep \in [pass : 1..MaxPasses, i : Nat, k : Nat, improved : BOOLEAN]

\* The stops from i to k in the opposite order, by their positions.
Turned(route, i, k) ==
  [j \in DOMAIN route |-> IF j \in i..k THEN route[i + k - j] ELSE route[j]]

\* The route has every stop of the caller once and no other, and is not longer
\* than going to the nearest stop each time; the batch is its longest beginning
\* within the limits.
RouteIsWhole ==
  stage = "planned" =>
    /\ IsInjective(ordered) /\ Range(ordered) = DOMAIN given
    /\ RouteLength(given, ordered) <= RouteLength(given, greedy)
    /\ IsPrefix(batch, ordered)
    /\ \A n \in DOMAIN ordered :
         (n <= Len(batch)) <=> /\ n <= MaxCluster
                               /\ \A i \in 2..n : Leg(given, ordered, i) <= MaxLeg

\* The last pass was one that improved nothing, not the MAX_TWO_OPT_PASSES-th.
PassesEnd == stage = "planned" => ~sweep.improved

(* A planned route is whole, its passes came to an end before their limit, since *)
(* only a real improvement counts and no stretch is turned back and forth, and   *)
(* no stretch of it is better turned around (routeOptimizer.js:54-149, 170-198). *)
RouteIsSettled ==
  /\ RouteIsWhole /\ PassesEnd
  /\ stage = "planned" => \A i, k \in DOMAIN ordered :
       i < k => RouteLength(given, ordered) <= RouteLength(given, Turned(ordered, i, k))

(* A route is never longer than the stops in the order they were given, as the   *)
(* comment on savedKm and a test say (routeOptimizer.js:139-142,                 *)
(* route-optimizer.test.js:83).  Refuted: the nearest stop is a bad beginning    *)
(* that no reversal mends.                                                       *)
NeverLongerThanGiven ==
  stage = "planned" =>
    RouteLength(given, ordered) <= RouteLength(given, [i \in DOMAIN given |-> i])
=============================================================================
