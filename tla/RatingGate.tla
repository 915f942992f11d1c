----------------------------- MODULE RatingGate -----------------------------
(***************************************************************************)
(* Ratings of one collector and the gate on them: submitRating writes the   *)
(* rating, reads the collector, works out the average from all ratings, and *)
(* writes average, count and, when the average is too low, the suspension.  *)
(* Each of these is an await; an admin may lift the suspension meanwhile.   *)
(***************************************************************************)
EXTENDS Handlers, Integers, FiniteSets

CONSTANTS
  Jobs,        \* completed pickups of the collector, each rated once
  Scores,      \* scores a requester may give
  MinRatings,  \* MIN_RATINGS_FOR_GATE
  Threshold    \* SUSPENSION_THRESHOLD, in tenths

ASSUME RatingAssumption ==
  /\ Scores \subseteq 1..5
  /\ MinRatings \in Nat \ {0} /\ Threshold \in Nat

VARIABLES
  ratings,     \* the Rating documents: score given for each job, 0 if none
  rated,       \* the collector's rating (in tenths), ratingCount and suspension
  excused      \* history: an admin lifted a suspension, or the server stopped

gateVars == <<ratings, rated, excused, slots>>

GateInit ==
  /\ ratings = [j \in Jobs |-> 0]
  /\ rated = [rating |-> 0, count |-> 0, suspended |-> FALSE]
  /\ excused = FALSE
  /\ slots = AllIdle

-----------------------------------------------------------------------------
Given == {j \in Jobs : ratings[j] # 0}

\* A score is so many points of five.
SumOfScores(given, js) ==
  Cardinality({point \in js \X (1..5) : point[2] <= given[point[1]]})

\* Math.round(avg * 10): tenths, halves up.
AverageOf(js) ==
  IF js = {} THEN 0
  ELSE LET n == Cardinality(js)
       IN (20 * SumOfScores(ratings, js) + n) \div (2 * n)

BadlyRated(average, count) == count >= MinRatings /\ average < Threshold

\* The pickup is completed and not yet rated by this user; Rating.create under
\* the unique {pickup, fromUser} index.
RatingCreated(s, j, score) ==
  /\ ratings[j] = 0
  /\ ratings' = [ratings EXCEPT ![j] = score]
  /\ Starts(s, [op |-> "find", job |-> j])
  /\ UNCHANGED <<rated, excused>>

\* User.findById.
TargetFound(s) ==
  /\ At(s, "find")
  /\ Goes(s, [op |-> "average", job |-> slots[s].job, suspended |-> rated.suspended,
              rating |-> rated.rating, count |-> rated.count])
  /\ UNCHANGED <<ratings, rated, excused>>

Aggregate_Incremental(s) ==
  [count |-> slots[s].count + 1,
   rating |-> (slots[s].rating * slots[s].count + 10 * ratings[slots[s].job])
                \div (slots[s].count + 1)]

\* Average and count of every Rating document there is now.
Aggregate(s) == [count |-> Cardinality(Given), rating |-> AverageOf(Given)]

RatingsAggregated(s) ==
  /\ At(s, "average")
  /\ LET new == Aggregate(s)
     IN Goes(s, [op |-> "rate", rating |-> new.rating, count |-> new.count,
                 suspend |-> ~slots[s].suspended /\ BadlyRated(new.rating, new.count)])
  /\ UNCHANGED <<ratings, rated, excused>>

\* User.findByIdAndUpdate.
RatingApplied(s) ==
  /\ At(s, "rate")
  /\ rated' = [rating |-> slots[s].rating, count |-> slots[s].count,
               suspended |-> rated.suspended \/ slots[s].suspend]
  /\ Ends(s)
  /\ UNCHANGED <<ratings, excused>>

\* reinstateCollector.
CollectorReinstated ==
  /\ rated.suspended
  /\ rated' = [rated EXCEPT !.suspended = FALSE]
  /\ excused' = TRUE
  /\ UNCHANGED <<ratings, slots>>

\* A rating is kept; what was to follow it is left to the next rating.
GateServerStops ==
  /\ Restarts
  /\ excused' = TRUE
  /\ UNCHANGED <<ratings, rated>>

GateNext ==
  \/ \E s \in Slots :
       \/ \E j \in Jobs, score \in Scores : RatingCreated(s, j, score)
       \/ TargetFound(s) \/ RatingsAggregated(s) \/ RatingApplied(s)
  \/ CollectorReinstated
  \/ GateServerStops

GateSpec == GateInit /\ [][GateNext]_gateVars

-----------------------------------------------------------------------------
(* Properties.                                                              *)

GateTypeOK ==
  /\ ratings \in [Jobs -> Scores \cup {0}]
  /\ rated \in [rating : Nat, count : Nat, suspended : BOOLEAN]
  /\ excused \in BOOLEAN
  /\ slots \in [Slots -> {Idle}
       \cup [op : {"find"}, job : Jobs]
       \cup [op : {"average"}, job : Jobs, suspended : BOOLEAN, rating : Nat, count : Nat]
       \cup [op : {"rate"}, rating : Nat, count : Nat, suspend : BOOLEAN]]

\* However the submissions overlap, once all of them are done a collector whose
\* ratings are below the gate is suspended, unless an admin lifted it or the
\* server stopped half-way: no rating is lost to the gate.
GateCatchesAll ==
  slots = AllIdle /\ ~excused /\ BadlyRated(AverageOf(Given), Cardinality(Given))
    => rated.suspended

\* The rating and the count on a profile belong together: they are of one set of
\* ratings, all of which were given, though not always of the latest ones.
OfSomeRatings(rating, count) ==
  \E js \in SUBSET Given : count = Cardinality(js) /\ rating = AverageOf(js)

\* However the aggregations and the writes that follow them interleave, nobody is
\* shown an average of other ratings than are counted, or of ratings nobody gave
\* (ratingController.js:50-63, "can never drift").
RatingIsOfItsCount == OfSomeRatings(rated.rating, rated.count)
=============================================================================
