------------------------------- MODULE RouteTable -------------------------------
(***************************************************************************)
(* Route tables (route.py).  A table is a sequence of routes in the order  *)
(* they were added.  Prefixes and hosts are compared as written: four      *)
(* numbers.                                                                *)
(***************************************************************************)
EXTENDS Integers, Sequences, FiniteSetsExt

CONSTANT NoRoute

Zero == <<0, 0, 0, 0>>

Hits(routes, dest) == {i \in DOMAIN routes : routes[i].dest = dest}

First(routes, dest) ==
  IF Hits(routes, dest) = {} THEN NoRoute ELSE routes[Min(Hits(routes, dest))]

OrElse(route, other) == IF route # NoRoute THEN route ELSE other

AddRoute(routes, route) == Append(routes, route)

RouteRemoved(routes, dest) == SelectSeq(routes, LAMBDA r : r.dest # dest)

FindRoute(routes, prefix) == OrElse(First(routes, prefix), First(routes, Zero))

(* The host itself, then its /24, /16 and /8, then the default route.       *)
Masked(host, len) == [i \in 1 .. 4 |-> IF i <= len THEN host[i] ELSE 0]

Tier2Lookup(routes, host) ==
  OrElse(First(routes, host),
    OrElse(First(routes, Masked(host, 3)),
      OrElse(First(routes, Masked(host, 2)),
        OrElse(First(routes, Masked(host, 1)), First(routes, Zero)))))

TwoTierFindRoute(tier1, tier2, address) ==
  IF address.prefix = Zero
  THEN Tier2Lookup(tier2, address.host)
  ELSE OrElse(FindRoute(tier1, address.prefix), Tier2Lookup(tier2, address.host))
================================================================================
