------------------------------- MODULE Traceroute8 -------------------------------
(***************************************************************************)
(* traceroute (traceroute8.py): for each time to live the path is walked   *)
(* anew from the first router, and where the walk ends makes a hop or an   *)
(* error.  One step is one probe.                                          *)
(***************************************************************************)
EXTENDS Integers, Sequences, Functions, FiniteSetsExt

CONSTANTS
  RouterOrder,    \* the routers, in the order they were added
  RouterAddress,  \* of each router: [prefix, host]
  RouteChoices,   \* tables of all routers: of each, prefix or "*" to a name
  StartTtls,      \* first times to live asked for
  MaxHops,        \* probes at most (30)
  Nowhere,        \* an address of no router
  NoRouter

Known == Range(RouterOrder)

TraceEnds == Range(RouterAddress)

ASSUME Traceroute8Assumption ==
  /\ RouterOrder \in Seq(Known) /\ Len(RouterOrder) >= 4 /\ IsInjective(RouterOrder)
  /\ DOMAIN RouterAddress = Known /\ NoRouter \notin Known
  /\ \A r \in Known : RouterAddress[r].prefix # Nowhere.prefix
  /\ StartTtls \subseteq Nat /\ MaxHops \in Nat \ {0}

VARIABLES routesOf, source, target, ttl, startTtl, hops, ended

traceVars == <<routesOf, source, target, ttl, startTtl, hops, ended>>

(* The router asked first: the source itself, one of its prefix, one with a   *)
(* default route, any.                                                        *)
FirstOfRouters(S) == RouterOrder[Min({i \in DOMAIN RouterOrder : RouterOrder[i] \in S})]

FindRouterFor(addr) ==
  LET exact == {r \in Known : RouterAddress[r] = addr}
      near == {r \in Known : RouterAddress[r].prefix = addr.prefix}
      defaulted == {r \in Known : "*" \in DOMAIN routesOf[r]}
  IN IF exact # {} THEN FirstOfRouters(exact)
     ELSE IF near # {} THEN FirstOfRouters(near)
     ELSE IF defaulted # {} THEN FirstOfRouters(defaulted)
     ELSE RouterOrder[1]

Lookup(r, dst) ==
  IF dst.prefix \in DOMAIN routesOf[r] THEN routesOf[r][dst.prefix]
  ELSE IF "*" \in DOMAIN routesOf[r] THEN routesOf[r]["*"] ELSE NoRouter

At(r) == RouterAddress[r] = target

(* A walk of n steps: where it stands, what it has passed, and why it ended   *)
(* early, if it did.                                                          *)
Step(w) ==
  IF w.end # "on" THEN w
  ELSE IF w.at \in w.passed THEN [w EXCEPT !.end = "loop"]
  ELSE IF w.at \notin Known THEN [w EXCEPT !.end = "unknown"]
  ELSE IF At(w.at) THEN [w EXCEPT !.end = "reached"]
  ELSE IF Lookup(w.at, target) = NoRouter THEN [w EXCEPT !.end = "unreachable"]
  ELSE [w EXCEPT !.at = Lookup(w.at, target), !.passed = @ \union {w.at}]

(* Fault: one router fewer is walked.                                         *)
WalkShort(n) ==
  LET walk[k \in 0 .. n] ==
        IF k <= 1 THEN [at |-> FindRouterFor(source), passed |-> {}, end |-> "on"]
        ELSE Step(walk[k - 1])
  IN walk[n]

Walk(n) ==
  LET walk[k \in 0 .. n] ==
        IF k = 0 THEN [at |-> FindRouterFor(source), passed |-> {}, end |-> "on"]
        ELSE Step(walk[k - 1])
  IN walk[n]

(* What the probe that walked its time to live says.                          *)
Arrived(w) ==
  IF w.end # "on" THEN w
  ELSE IF w.at \notin Known THEN [w EXCEPT !.end = "unknown"]
  ELSE IF At(w.at) THEN [w EXCEPT !.end = "reached"] ELSE w

(* Loops and unknown routers end the trace without a hop.                     *)
Answered(w) == w.end \in {"on", "reached", "unreachable"}

Probe ==
  /\ ended = "no" /\ ttl < startTtl + MaxHops
  /\ LET w == Arrived(Walk(ttl))
     IN /\ hops' = IF Answered(w) THEN Append(hops, [ttl |-> ttl, router |-> w.at]) ELSE hops
        /\ ended' = IF w.end = "on" THEN "no" ELSE w.end
  /\ ttl' = ttl + 1
  /\ UNCHANGED <<routesOf, source, target, startTtl>>

GiveUp ==
  /\ ended = "no" /\ ttl = startTtl + MaxHops
  /\ ended' = "not reached"
  /\ UNCHANGED <<routesOf, source, target, ttl, startTtl, hops>>

--------------------------------------------------------------------------------
(* The topologies that come with the program, whose routers are the first of *)
(* RouterOrder.  The others of Known are on none of their ways.              *)
Router(k) == RouterOrder[k + 1]
Default(k) == [p \in {"*"} |-> Router(k)]
NoRoutes == [p \in {} |-> NoRouter]

Laid(table, from, to) ==
  [routes |-> [r \in Known |->
                 LET mine == {k \in DOMAIN table : Router(k) = r}
                 IN IF mine = {} THEN NoRoutes ELSE table[CHOOSE k \in mine : TRUE]],
   source |-> from, target |-> to]

BuildLinear(n) ==
  Laid([k \in 0 .. n - 2 |-> Default(k + 1)],
       RouterAddress[Router(0)], RouterAddress[Router(n - 1)])

BuildDiamond ==
  Laid([k \in 0 .. 2 |-> IF k = 0 THEN Default(1) ELSE Default(3)],
       RouterAddress[Router(0)], RouterAddress[Router(3)])

BuildLoop ==
  Laid([k \in 0 .. 2 |-> IF k = 1 THEN Default(2) ELSE Default(1)],
       RouterAddress[Router(0)], Nowhere)

BuildMultiPath ==
  LET there == RouterAddress[Router(3)].prefix
      special == [p \in {there, "*"} |-> IF p = there THEN Router(2) ELSE Router(1)]
  IN Laid([k \in 0 .. 2 |-> IF k = 0 THEN special ELSE Default(3)],
          RouterAddress[Router(0)], RouterAddress[Router(3)])

Built == {BuildLinear(n) : n \in 1 .. Len(RouterOrder)} \union {BuildDiamond, BuildLoop, BuildMultiPath}

TraceInit ==
  /\ \/ routesOf \in RouteChoices /\ source \in TraceEnds /\ target \in TraceEnds
     \/ \E t \in Built : routesOf = t.routes /\ source = t.source /\ target = t.target
  /\ startTtl \in StartTtls /\ ttl = startTtl
  /\ hops = << >> /\ ended = "no"

TraceNext == Probe \/ GiveUp

TraceSpec == TraceInit /\ [][TraceNext]_traceVars

(* ------------------------------------------------------------------------ *)
(* Reference: the way packets to the target take.  OnWay[k] is the router     *)
(* after k hops, NoRouter beyond the way's end.                               *)
OnWay[k \in 0 .. Len(RouterOrder) + startTtl + MaxHops] ==
  IF k = 0 THEN FindRouterFor(source)
  ELSE LET r == OnWay[k - 1]
       IN IF r \notin Known \/ At(r) THEN NoRouter ELSE Lookup(r, target)

(* The target lies on the way.                                                *)
Leads == \E k \in 0 .. Len(RouterOrder) : OnWay[k] \in Known /\ At(OnWay[k])

(* A trace tells the way: each hop is the router that many hops out - or,     *)
(* as the last hop, the end of the way if that comes earlier -, no router is  *)
(* left out, a trace says "reached" only at the target, and it misses a       *)
(* target on the way only by having too few probes.                           *)
TraceTellsPath ==
  /\ \A i \in DOMAIN hops :
       \/ hops[i].router = OnWay[startTtl + i - 1]
       \/ i = Len(hops) /\ ended \in {"reached", "unreachable"}
          /\ \E k \in 0 .. startTtl + i - 1 :
               OnWay[k] = hops[i].router /\ (ended = "unreachable" => OnWay[k + 1] = NoRouter)
  /\ (ended = "reached") = (hops # << >> /\ At(hops[Len(hops)].router))
  /\ Leads => ended \in {"no", "reached", "not reached"}
  /\ ended = "not reached" => \A k \in 0 .. ttl - 1 : OnWay[k] \notin Known \/ ~At(OnWay[k])

(* The topologies are as they are drawn, given enough probes: a chain is     *)
(* passed in order, the diamond by its upper router, the one with a route for *)
(* the target's prefix by the lower, and the loop is noticed when it closes.  *)
OnTopology(t) == routesOf = t.routes /\ source = t.source /\ target = t.target

Passes(way) ==
  /\ \A i \in DOMAIN hops : hops[i].router = Router(way[Min({startTtl + i, Len(way)})])
  /\ ended \in {"no", "reached"} \/ (ended = "not reached" /\ ttl < Len(way))

BuiltAsDrawn ==
  /\ \A n \in 1 .. Len(RouterOrder) : OnTopology(BuildLinear(n)) => Passes([i \in 1 .. n |-> i - 1])
  /\ OnTopology(BuildDiamond) => Passes(<<0, 1, 3>>)
  /\ OnTopology(BuildMultiPath) => Passes(<<0, 2, 3>>)
  /\ OnTopology(BuildLoop) =>
       /\ \A i \in DOMAIN hops : hops[i].ttl <= 3
       /\ ended \in {"no", "loop", "not reached"}
       /\ (ended = "loop") = (ttl > 4 /\ ttl > startTtl)

(* A trace tells the way, also on the topologies that come with the program,  *)
(* whose routers have addresses of their own.                                 *)
TracesTell == TraceTellsPath /\ (IsInjective(RouterAddress) => BuiltAsDrawn)
================================================================================
