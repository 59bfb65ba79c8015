--------------------------------- MODULE NetFlow8 ---------------------------------
(***************************************************************************)
(* The flow collector (netflow8.py, class FlowCollector).  Packets of a    *)
(* flow are counted in its entry of _flows; an exporter turns entries that *)
(* are idle or old into records, and the next packet starts a new entry.   *)
(* TOS, TTLs and totals are left out.                                      *)
(***************************************************************************)
EXTENDS Integers, SequencesExt

CONSTANTS
  Keys,
  ProtocolOf,       \* the protocol in a key
  Octets,           \* sizes of packets, header included
  ActiveTimeout, IdleTimeout,
  NoFlow,
  MaxNow,           \* bound: the last moment
  MaxObserved       \* bound: packets in all

Flow == [packets : Nat, octets : Nat, first : Nat, last : Nat]

ASSUME NetFlowAssumption ==
  /\ Octets \subseteq Nat
  /\ ActiveTimeout \in Nat /\ IdleTimeout \in Nat
  /\ NoFlow \notin Flow

VARIABLES
  flows,            \* _flows: key -> entry, or NoFlow
  exported,         \* _exported: key -> records, oldest first
  now,              \* the clock
  observed          \* history: key -> packets, as [at, size]

flowVars == <<flows, exported, now, observed>>

(* update, on an entry that is there or on a fresh one.                     *)
Updated(flow, size) ==
  [packets |-> flow.packets + 1,
   octets |-> flow.octets + size,
   first |-> IF flow.packets = 0 THEN now ELSE flow.first,
   last |-> now]

Fresh == [packets |-> 0, octets |-> 0, first |-> 0, last |-> 0]

Observe(key, size) ==
  /\ flows' = [flows EXCEPT ![key] = Updated(IF @ = NoFlow THEN Fresh ELSE @, size)]
  /\ observed' = [observed EXCEPT ![key] = Append(@, [at |-> now, size |-> size])]
  /\ UNCHANGED <<exported, now>>

Active == {key \in Keys : flows[key] # NoFlow}

Expired ==
  {key \in Active : \/ now - flows[key].last > IdleTimeout
                    \/ now - flows[key].first > ActiveTimeout}

Without(S) == [key \in Keys |-> IF key \in S THEN NoFlow ELSE flows[key]]

ExportedWith(S) ==
  [key \in Keys |-> IF key \in S THEN Append(exported[key], flows[key]) ELSE exported[key]]

ExportedKeeping ==                               \* fault: entry left in the table
  /\ exported' = ExportedWith(Expired)
  /\ UNCHANGED <<flows, now, observed>>
ExportExpired ==
  /\ exported' = ExportedWith(Expired)
  /\ flows' = Without(Expired)
  /\ UNCHANGED <<now, observed>>

ExportAll ==
  /\ exported' = ExportedWith(Active)
  /\ flows' = [key \in Keys |-> NoFlow]
  /\ UNCHANGED <<now, observed>>

FlowInit ==
  /\ flows = [key \in Keys |-> NoFlow]
  /\ exported = [key \in Keys |-> << >>]
  /\ observed = [key \in Keys |-> << >>]
  /\ now = 0

FlowClear ==
  /\ flows' = [key \in Keys |-> NoFlow]
  /\ exported' = [key \in Keys |-> << >>]
  /\ observed' = [key \in Keys |-> << >>]
  /\ UNCHANGED now

FlowTick == now < MaxNow /\ now' = now + 1 /\ UNCHANGED <<flows, exported, observed>>

FlowNext ==
  \/ \E key \in Keys, size \in Octets :
       /\ FoldFunction(LAMBDA packets, n : n + Len(packets), 0, observed) < MaxObserved
       /\ Observe(key, size)
  \/ ExportExpired
  \/ ExportAll
  \/ FlowClear
  \/ FlowTick

FlowSpec == FlowInit /\ [][FlowNext]_flowVars

--------------------------------------------------------------------------------
Records(key) ==
  IF flows[key] = NoFlow THEN exported[key] ELSE Append(exported[key], flows[key])

SumOf(numbers) ==
  LET sum[n \in 0 .. Len(numbers)] == IF n = 0 THEN 0 ELSE sum[n - 1] + numbers[n]
  IN  sum[Len(numbers)]

PacketsOf(records) == SumOf([i \in DOMAIN records |-> records[i].packets])

OctetsOf(packets) == SumOf([i \in DOMAIN packets |-> packets[i].size])

(* Of one flow.                                                              *)
RecordsEachFlow ==
  \A key \in Keys :
    LET records == Records(key)
        From(i) == PacketsOf(SubSeq(records, 1, i - 1)) + 1
        To(i) == PacketsOf(SubSeq(records, 1, i))
    IN  /\ PacketsOf(records) = Len(observed[key])
        /\ \A i \in DOMAIN records :
             /\ From(i) <= To(i)
             /\ records[i].first = observed[key][From(i)].at
             /\ records[i].last = observed[key][To(i)].at
             /\ records[i].octets = OctetsOf(SubSeq(observed[key], From(i), To(i)))

OfProtocol(p) == {key \in Keys : ProtocolOf[key] = p}

(* The packets of a protocol in entries and records.                         *)
ProtocolBreakdown ==
  [p \in {ProtocolOf[key] : key \in Keys} |->
     SumFunctionOnSet([key \in Keys |-> PacketsOf(Records(key))], OfProtocol(p))]

(* The records of a flow and its entry, in order, tell its packets one after *)
(* another: none lost, none twice, each record with the octets of its own    *)
(* packets and the times of the first and the last of them - wherever the    *)
(* timeouts and exports cut the flow; and the breakdown counts the packets   *)
(* seen of each protocol.                                                    *)
RecordsTellTraffic ==
  /\ \A p \in DOMAIN ProtocolBreakdown :
       ProtocolBreakdown[p] =
         SumFunctionOnSet([key \in Keys |-> Len(observed[key])], OfProtocol(p))
  /\ RecordsEachFlow
================================================================================
