-------------------------------- MODULE MCTraffic --------------------------------
(* Traffic control and telemetry.  Shaper, flow collector, log collectors     *)
(* and the two rate limiters see the same packets but share nothing, so each  *)
(* behaviour works on one of them (focus).  A behaviour of the shaper either  *)
(* has rates, sizes and a clock under one policy, or more packets of one size *)
(* and weights under all of them.                                             *)
EXTENDS Qos, NetFlow8, NetLog8, RateLimits

CONSTANT MaxPoliced   \* bound: packets offered where they may be policed

VARIABLE focus

vars == <<shaperVars, flowVars, logVars, limitVars, limiterVars, focus>>

(* CS6 and best effort; 1 is no class.                                       *)
MCClassOrder == <<48, 0>>

MCOptions ==
  {[rate |-> 1, burst |-> 2, weight |-> 1, limit |-> 2],
   [rate |-> 2, burst |-> 0, weight |-> 0, limit |-> 2],
   [rate |-> 0, burst |-> 0, weight |-> 3, limit |-> 4]}

(* A routine entry and an urgent one; rules with and without conditions.     *)
MCLogKinds == {Info("dhcp8"), SecAlert("acl8")}
MCAlertRules ==
  {[severity |-> 6, events |-> {}, facilities |-> {}],
   [severity |-> 1, events |-> {"SEC-ALERT"}, facilities |-> {}],
   [severity |-> 6, events |-> {"INFO"}, facilities |-> {"acl8"}]}
(* Two flows of one protocol.                                                *)
MCProtocolOf == [key \in Keys |-> 6]
MCPerSecond == [c \in LimitedClasses |-> 2]
MCPerMinute == [c \in LimitedClasses |-> 3]

Policing ==
  /\ ShaperNext
  /\ offered' <= MaxPoliced
  /\ \A c \in Classes : config'[c].weight <= 1

Scheduling ==
  /\ ShaperNext
  /\ time' = 0
  /\ offered' # offered => verdict'.size = 1
  /\ \A c \in Classes : config'[c].rate = 0

(* What a behaviour does not work on is in one fixed state.                  *)
LimiterIdle == lastRefill = 0 /\ LimiterInit

MCInit ==
  /\ ShaperInit /\ FlowInit /\ LogInit /\ LimitInit
  /\ focus \in {"policing", "scheduling", "flows", "logs", "windows", "limiter"}
  /\ focus # "scheduling" => policy = "FIFO"
  /\ IF focus = "limiter" THEN LimiterInit ELSE LimiterIdle

MCNext ==
  /\ \/ /\ focus \in {"policing", "scheduling"}
        /\ IF focus = "policing" THEN Policing ELSE Scheduling
        /\ UNCHANGED <<flowVars, logVars, limitVars, limiterVars>>
     \/ /\ focus = "flows" /\ FlowNext
        /\ UNCHANGED <<shaperVars, logVars, limitVars, limiterVars>>
     \/ /\ focus = "logs" /\ LogNext
        /\ UNCHANGED <<shaperVars, flowVars, limitVars, limiterVars>>
     \/ /\ focus = "windows" /\ LimitNext
        /\ UNCHANGED <<shaperVars, flowVars, logVars, limiterVars>>
     \/ /\ focus = "limiter" /\ LimiterNext
        /\ UNCHANGED <<shaperVars, flowVars, logVars, limitVars>>
  /\ UNCHANGED focus

MCSpec == MCInit /\ [][MCNext]_vars

(* Who watches the traffic accounts for all of it, once: the flow records    *)
(* for every packet (netflow8.py), the log collectors for every message      *)
(* (netlog8_proto.py) and the clients for every entry they made (netlog8.py), *)
(* whatever was exported, dropped or cleared meanwhile.                      *)
ObserversAccount == RecordsTellTraffic /\ CollectorsAccount /\ ClientsAccount
================================================================================
