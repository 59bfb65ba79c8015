---------------------------------- MODULE Bgp8 ----------------------------------
(***************************************************************************)
(* BGP8 path selection (bgp8_selection.py, class BGP8PathSelector) over    *)
(* saturating cost factors (cost_factor.py).  A router keeps, per prefix,  *)
(* a list of every path it was told of and picks one whenever asked.       *)
(* Distances and measured round trips only flag a path and are left out,   *)
(* as are the peers, which no decision looks at.                           *)
(*                                                                         *)
(* The list is kept as a function of arrival numbers: a later entry has a  *)
(* higher number, and dropping entries leaves the order of the others.     *)
(***************************************************************************)
EXTENDS Integers, SequencesExt

CONSTANTS
  RibPrefixes,
  LocalAsn,
  Adverts,          \* [prefix, origin, path, length]: BGP8Advertisement
  HopCosts,         \* hop_cfs: a cost factor for each hop
  IntrazoneValues,  \* values the operator sets as intrazone_cf
  MaxCf,            \* 0xFFFFFFFF
  MaxArrivals       \* bound: advertisements accepted in all

ASSUME Bgp8Assumption ==
  /\ MaxCf \in Nat
  /\ IntrazoneValues \subseteq Int
  /\ HopCosts \subseteq Seq(0 .. MaxCf)
  /\ \A adv \in Adverts : /\ adv.prefix \in RibPrefixes
                          /\ adv.origin \in Nat
                          /\ adv.path \in Seq(Nat)
                          /\ adv.length \in Nat

VARIABLES
  rib,              \* _rib: prefix -> list of PathCandidate (absent: empty)
  arrivals,         \* history: advertisements accepted so far
  intrazone         \* _intrazone_cf

bgpVars == <<rib, arrivals, intrazone>>

Candidate == [adv : Adverts, hops : HopCosts]

NoPaths == << >>

BgpTypeOK ==
  /\ rib \in [RibPrefixes -> UNION {[D -> Candidate] : D \in SUBSET (1 .. arrivals)}]
  /\ arrivals \in Nat
  /\ intrazone \in 0 .. MaxCf

Known(p) == DOMAIN rib[p] # {}                  \* known_prefixes

BgpInit == rib = [p \in RibPrefixes |-> NoPaths] /\ arrivals = 0 /\ intrazone = 0

--------------------------------------------------------------------------------
(* accumulate_cf and cf_total: additions that stop at MaxCf.                *)
Wrapped(n) == n % (MaxCf + 1)                    \* fault: 32 bits without saturation
Saturated(n) == IF n > MaxCf THEN MaxCf ELSE n

Accumulate(hops) == FoldLeft(LAMBDA total, cf : Saturated(total + cf), 0, hops)

AccumulatedCf(c) == Accumulate(c.hops)

Total(c, internal) == Saturated(AccumulatedCf(c) + internal)

PathLength(c) == Len(c.adv.path)

ValidPrefix(adv) == adv.length <= 16

(* select: sorted by total cost, length of the path and origin, each only   *)
(* between equals of the one before; the sort is stable.                    *)
Least(S, Measure(_)) == {i \in S : \A j \in S : Measure(i) <= Measure(j)}

Cheapest(paths, internal) ==
  Least({i \in DOMAIN paths : ValidPrefix(paths[i].adv)},
        LAMBDA i : Total(paths[i], internal))
Shortest(paths, internal) ==
  Least(Cheapest(paths, internal), LAMBDA i : PathLength(paths[i]))
Lowest(paths, internal) ==
  Least(Shortest(paths, internal), LAMBDA i : paths[i].adv.origin)

Select(paths, internal) == paths[Min(Lowest(paths, internal))]

--------------------------------------------------------------------------------
(* receive_advertisement: refused when too specific or when this router is  *)
(* already on the path; otherwise added behind what is there.               *)
Accepted(adv) == ValidPrefix(adv) /\ \A i \in DOMAIN adv.path : adv.path[i] # LocalAsn

WithoutOrigin(paths, origin) ==
  Restrict(paths, {i \in DOMAIN paths : paths[i].adv.origin # origin})

Arrived(paths, adv, hops) ==
  [i \in DOMAIN paths \cup {arrivals + 1} |->
     IF i = arrivals + 1 THEN [adv |-> adv, hops |-> hops] ELSE paths[i]]

ReceiveInPlace(adv, hops) ==                     \* fault: replaces the origin's entries
  /\ Accepted(adv)
  /\ rib' = [rib EXCEPT ![adv.prefix] = Arrived(WithoutOrigin(@, adv.origin), adv, hops)]
  /\ arrivals' = arrivals + 1
  /\ UNCHANGED intrazone
ReceiveAdvertisement(adv, hops) ==
  /\ Accepted(adv)
  /\ rib' = [rib EXCEPT ![adv.prefix] = Arrived(@, adv, hops)]
  /\ arrivals' = arrivals + 1
  /\ UNCHANGED intrazone

(* withdraw: every candidate of the origin, whichever way it came.          *)
Withdraw(p, origin) ==
  /\ \E i \in DOMAIN rib[p] : rib[p][i].adv.origin = origin
  /\ rib' = [rib EXCEPT ![p] = WithoutOrigin(@, origin)]
  /\ UNCHANGED <<arrivals, intrazone>>

(* The setter of intrazone_cf clamps.                                       *)
SetIntrazone(value) ==
  /\ intrazone' = IF value < 0 THEN 0 ELSE IF value > MaxCf THEN MaxCf ELSE value
  /\ UNCHANGED <<rib, arrivals>>

BgpClear == rib' = [p \in RibPrefixes |-> NoPaths] /\ UNCHANGED <<arrivals, intrazone>>

BgpNext ==
  \/ \E adv \in Adverts, hops \in HopCosts :
       /\ arrivals < MaxArrivals
       /\ ReceiveAdvertisement(adv, hops)
  \/ \E p \in RibPrefixes, adv \in Adverts : Withdraw(p, adv.origin)
  \/ \E value \in IntrazoneValues : SetIntrazone(value)
  \/ BgpClear

BgpSpec == BgpInit /\ [][BgpNext]_bgpVars

--------------------------------------------------------------------------------
Better(c, d, internal) ==      \* c comes before d in the order of selection
  \/ Total(c, internal) < Total(d, internal)
  \/ /\ Total(c, internal) = Total(d, internal)
     /\ \/ PathLength(c) < PathLength(d)
        \/ PathLength(c) = PathLength(d) /\ c.adv.origin < d.adv.origin

(* A router leaves the path it chose only for a better one, or when nothing  *)
(* of that path's origin is left.  In particular news of other paths, a path *)
(* heard of twice and withdrawals of other origins never make it worse off.  *)
OnlyWithdrawalWorsens ==
  [][\A p \in RibPrefixes :
       (Known(p) /\ intrazone' = intrazone) =>
         LET chosen == Select(rib[p], intrazone)
         IN  \/ \A i \in DOMAIN rib'[p] : rib'[p][i].adv.origin # chosen.adv.origin
             \/ Select(rib'[p], intrazone) = chosen
             \/ Better(Select(rib'[p], intrazone), chosen, intrazone)]_bgpVars

(* The cost inside the zone is the same on every path, so it does not change *)
(* the choice - until sums saturate.                                         *)
NeutralUntilSaturated ==
  \A p \in RibPrefixes :
    Known(p) =>
      \/ Total(Select(rib[p], intrazone), intrazone) = MaxCf
      \/ Select(rib[p], intrazone) = Select(rib[p], 0)

(* tests/test_bgp8_selection.py:252 says of intrazone_cf that it "doesn't    *)
(* change relative order (adds equally)".  Where sums saturate it does.      *)
IntrazoneNeutral ==
  \A p \in RibPrefixes :
    Known(p) => Select(rib[p], intrazone) = Select(rib[p], 0)
================================================================================
