-------------------------------- MODULE CfBoard --------------------------------
(***************************************************************************)
(* The cost factor of a path from what was measured on it (cost_factor.py) *)
(* and the board that ranks paths by it (cf_dashboard.py,                  *)
(* CFDashboardState), which adds costs up as the router does.  The seven   *)
(* measures are parts of Whole, the weights hundredths, so that sums are   *)
(* exact where the code rounds; the pages that show the board and the      *)
(* timings of its benchmarks are left out.                                 *)
(***************************************************************************)
EXTENDS Bgp8

CONSTANTS
  PathIds,
  Measured,         \* add_path's arguments: [parts, hops, distance, rtt]
  Whole,            \* the measure 1.0
  BoardIntrazones,  \* values given to the constructor or to the setter
  NoPath

Measures == {"rtt", "packet_loss", "congestion", "stability", "capacity", "economic", "geographic"}

ASSUME CfBoardAssumption ==
  /\ Whole \in Nat \ {0}
  /\ BoardIntrazones \subseteq Int
  /\ \A m \in Measured : /\ m.parts \in [Measures -> 0 .. Whole]
                         /\ m.hops \in Seq(0 .. MaxCf)
                         /\ m.distance \in Nat /\ m.rtt \in Nat

BoardEntry == [parts : [Measures -> 0 .. Whole], distance : Nat, rtt : Nat, hops : Seq(Nat)]

ASSUME NoPathAssumption == NoPath \notin BoardEntry

VARIABLES
  paths,            \* _paths: id -> PathEntry, or NoPath
  order,            \* the ids in the order of the dictionary
  internal,         \* _intrazone_cf
  timed             \* _benchmarks is not None

boardVars == <<paths, order, internal, timed>>

--------------------------------------------------------------------------------
(* CFComponents refuses a measure outside 0 .. Whole; so does the assumption. *)
Weight ==
  [rtt |-> 25, packet_loss |-> 20, congestion |-> 10, stability |-> 10, capacity |-> 15,
   economic |-> 5, geographic |-> 15]

Weighted(parts) ==
  Weight.rtt * parts.rtt + Weight.packet_loss * parts.packet_loss
    + Weight.congestion * parts.congestion + Weight.stability * parts.stability
    + Weight.capacity * parts.capacity + Weight.economic * parts.economic
    + Weight.geographic * parts.geographic

ComputeCf(parts) == (Weighted(parts) * MaxCf) \div (100 * Whole)

(* A path that is faster there and back than light in fibre, 200 km in a    *)
(* millisecond; of no distance nothing is known.                            *)
IsAnomaly(e) == e.distance > 0 /\ 200 * e.rtt < 2 * e.distance

(* Without hops the path counts as one.                                     *)
PathEntry(m) ==
  [parts |-> m.parts, distance |-> m.distance, rtt |-> m.rtt,
   hops |-> IF m.hops = << >> THEN <<ComputeCf(m.parts)>> ELSE m.hops]

Accumulated(id) == Accumulate(paths[id].hops)

BoardTotal(id) == Saturated(Accumulated(id) + internal)

--------------------------------------------------------------------------------
(* ranked_paths is a stable sort of the dictionary.                         *)
Before(i, j) ==
  \/ BoardTotal(order[i]) < BoardTotal(order[j])
  \/ BoardTotal(order[i]) = BoardTotal(order[j]) /\ i < j

RankedPaths ==
  [n \in DOMAIN order |->
     order[CHOOSE i \in DOMAIN order :
             Cardinality({j \in DOMAIN order : Before(j, i)}) = n - 1]]

(* min: the first of the paths with the least total.                        *)
BestPath ==
  LET least == {i \in DOMAIN order : \A j \in DOMAIN order :
                  BoardTotal(order[i]) <= BoardTotal(order[j])}
  IN  order[CHOOSE i \in least : \A j \in least : i <= j]

(* select_best_path of the accumulated cost factors alone.                  *)
SelectBestPath ==
  LET least == {i \in DOMAIN order : \A j \in DOMAIN order :
                  Accumulated(order[i]) <= Accumulated(order[j])}
  IN  order[CHOOSE i \in least : \A j \in least : i <= j]

(* Their places on the board.                                               *)
Anomalies == {i \in DOMAIN order : IsAnomaly(paths[order[i]])}

Summary ==
  [paths |-> Len(order), best |-> IF order = << >> THEN NoPath ELSE BestPath,
   anomalies |-> Cardinality(Anomalies), benchmarks_run |-> timed]

--------------------------------------------------------------------------------
(* The constructor takes intrazone_cf as it is given; the setter clamps.    *)
BoardInit ==
  /\ paths = [id \in PathIds |-> NoPath] /\ order = << >>
  /\ internal \in BoardIntrazones
  /\ timed = FALSE

(* An id that is on the board keeps its place.                              *)
AddPath(id, m) ==
  /\ paths' = [paths EXCEPT ![id] = PathEntry(m)]
  /\ order' = IF paths[id] = NoPath THEN Append(order, id) ELSE order
  /\ UNCHANGED <<internal, timed>>

PlaceOf(id) == CHOOSE i \in DOMAIN order : order[i] = id

RemovePath(id) ==
  /\ paths[id] # NoPath
  /\ paths' = [paths EXCEPT ![id] = NoPath]
  /\ order' = RemoveAt(order, PlaceOf(id))
  /\ UNCHANGED <<internal, timed>>

SetBoardIntrazone(value) ==
  /\ internal' = IF value < 0 THEN 0 ELSE Saturated(value)
  /\ UNCHANGED <<paths, order, timed>>

RunBenchmarks == timed' = TRUE /\ UNCHANGED <<paths, order, internal>>

(* clear keeps the cost inside the zone.                                     *)
ClearBoard ==
  /\ paths' = [id \in PathIds |-> NoPath] /\ order' = << >> /\ timed' = FALSE
  /\ UNCHANGED internal

BoardNext ==
  \/ \E id \in PathIds, m \in Measured : AddPath(id, m)
  \/ \E id \in PathIds : RemovePath(id)
  \/ \E value \in BoardIntrazones : SetBoardIntrazone(value)
  \/ RunBenchmarks
  \/ ClearBoard

BoardSpec == BoardInit /\ [][BoardNext]_boardVars

--------------------------------------------------------------------------------
(* The board and the rest of the code agree on what is best: its best path   *)
(* is the first of its ranking and - unless sums saturate - the one that the *)
(* accumulated cost factors alone select, whatever the zone adds; and a path *)
(* measured as one that is nowhere worse than another ranks before it or was *)
(* added after a tie.  Every path too fast for its distance is counted.       *)
NoWorse(e, f) == \A m \in Measures : e.parts[m] <= f.parts[m]

AsMeasured(e) == e.hops = <<ComputeCf(e.parts)>>

BoardRanksByCost ==
  /\ Summary.anomalies =
       Cardinality({id \in PathIds : paths[id] # NoPath /\ IsAnomaly(paths[id])})
  /\ order # << >> =>
    /\ RankedPaths[1] = Summary.best
    /\ BoardTotal(BestPath) = MaxCf \/ BestPath = SelectBestPath
    /\ \A i, j \in DOMAIN order :
         /\ NoWorse(paths[order[i]], paths[order[j]])
         /\ AsMeasured(paths[order[i]]) /\ AsMeasured(paths[order[j]])
         => Before(i, j) \/ (j < i /\ BoardTotal(order[i]) = BoardTotal(order[j])) \/ i = j

(* What a zone adds to every path decides nothing, for a router and on the   *)
(* board, where the best path is the one the ranking and the measures say.   *)
CostsNeutral == NeutralUntilSaturated /\ BoardRanksByCost
================================================================================
