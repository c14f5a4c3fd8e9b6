--------------------------- MODULE SwapCycleProofs ---------------------------
(***************************************************************************)
(* The network under gem5's clock implements the network without one, so   *)
(* that what is proved of SwapNetwork holds of SwapCycle.                  *)
(***************************************************************************)
EXTENDS SwapCycle, PacketProofs, MarkProofs, FiniteSetTheorems

-----------------------------------------------------------------------------
(* Packets and marks, with any scheduling.                                 *)

\* No packet is lost or duplicated.  It waits at its source, is one
\* flit somewhere in the network, or has been delivered, whatever the
\* routers, links, interfaces and swaps do.
THEOREM PacketCorrect == Spec => []PacketConserved
<1>1. PacketInv => PacketConserved
  <2> SUFFICES ASSUME PacketInv, NEW p \in Packets
               PROVE  Cardinality({s \in Sites : s[4] = p}) =
                        IF p \in pending \cup delivered THEN 0 ELSE 1
    BY Zenon DEF PacketConserved, PacketInv, Transport!OnePlace
  <2> DEFINE S == {s \in Sites : s[4] = p}
  <2>1. TypeOK /\ VcInv
    BY Zenon DEF PacketInv, StructInv
  <2>2. CASE p \in pending \cup delivered
    <3>1. ASSUME NEW x \in S PROVE FALSE
      <4>1. PICK c \in Channels, v \in VCs : SiteOf(x, c, v)
        BY Zenon, <2>1, SiteHasVc
      <4>2. Carries(c, v, p)
        BY Zenon, <4>1, SiteCarries
      <4> QED
        BY Zenon, <2>2, <4>2, CarriedInLane
    <3>2. S = {}
      BY Zenon, <3>1
    <3> QED
      BY Zenon, <2>2, <3>2, FS_EmptySet
  <2>3. CASE p \notin pending \cup delivered
    <3>1. PICK s \in Slots : p \in holds[s]
      BY Zenon, <2>3 DEF PacketInv, Transport!OnePlace
    <3>2. Carries(s[1], s[2], p) /\ s[1] \in Channels /\ s[2] \in VCs
      BY Zenon, <3>1, HoldsAt
    <3>3. PICK x \in S : TRUE
      BY Zenon, <3>2, CarriedAtSite
    <3>4. ASSUME NEW y \in S PROVE y = x
      <4>1. PICK c \in Channels, v \in VCs : SiteOf(x, c, v)
        BY Zenon, <2>1, SiteHasVc
      <4>2. PICK d \in Channels, w \in VCs : SiteOf(y, d, w)
        BY Zenon, <2>1, SiteHasVc
      <4>3. Carries(c, v, p) /\ Carries(d, w, p)
        BY Zenon, <4>1, <4>2, SiteCarries
      <4>4. <<c, v>> \in Slots /\ <<d, w>> \in Slots /\ p \in holds[<<c, v>>] /\ p \in holds[<<d, w>>]
        BY Zenon, <4>3, HoldsAt
      <4>5. <<c, v>> = <<d, w>>
        BY Zenon, <4>4 DEF PacketInv, Transport!OnePlace
      <4> QED
        BY Zenon, <2>1, <4>1, <4>2, <4>5, OneSite
    <3>5. S = {x}
      BY Zenon, <3>3, <3>4
    <3> QED
      BY Zenon, <2>3, <3>5, FS_Singleton
  <2> QED
    BY Zenon, <2>2, <2>3
<1> QED
  BY <1>1, PacketSpec, PTL

\* With is_swap in use, a router's bit says whether it holds a flit
\* that a swap moved forward, and it holds at most one: no exchange, departure
\* or bail_out leaves a bit without its flit or a flit without its bit.
THEOREM IsSwapCorrect == Spec => []IsSwapMatchesRouted
BY MarksHold, VnetCorrect, PTL

-----------------------------------------------------------------------------
(* The clock implements the network.                                       *)

\* The interfaces and the end of the cycle take steps of SwapNetwork.
LEMMA NodeImplements ==
  ASSUME NEW n \in Nodes, ServeNode(n) \/ UnstallNode(n) \/ SendNode(n)
  PROVE  Next
<1>1. NodeNext(n)
  BY Zenon DEF ServeNode, UnstallNode, SendNode, NodeNext
<1> QED
  BY Zenon, <1>1 DEF Next

LEMMA RouterImplements ==
  ASSUME NEW r \in Routers, StartRouter(r) \/ ContinueRouter(r)
  PROVE  Next
<1>1. is_myTurn(r) \in BOOLEAN
  BY Zenon DEF is_myTurn
<1>2. RouterNext(r)
  BY Zenon, <1>1 DEF StartRouter, ContinueRouter, RouterNext
<1> QED
  BY Zenon, <1>2 DEF Next

LEMMA TickImplements == Tick => [Next]_vars
<1> SUFFICES ASSUME Tick PROVE [Next]_vars
  BY Zenon
<1> DEFINE S == {c \in Channels : agedq[c] > 0}
           T == {c \in Channels : agedc[c] > 0}
<1>1. CASE UNCHANGED vars
  BY Zenon, <1>1
<1>2. CASE NetworkLink_wakeup(S, T)
  <2>1. /\ S \in SUBSET {c \in Channels : outq[c] # <<>>}
        /\ T \in SUBSET {c \in Channels : credq[c] # <<>>}
    BY Zenon, <1>2 DEF NetworkLink_wakeup
  <2> HIDE DEF S, T
  <2>2. LinkNext
    BY Zenon, <1>2, <2>1 DEF LinkNext
  <2> QED
    BY Zenon, <2>2 DEF Next
<1>3. (S \cup T = {} /\ UNCHANGED vars) \/ NetworkLink_wakeup(S, T)
  BY Zenon DEF Tick
<1> QED
  BY Zenon, <1>1, <1>2, <1>3

\* Every behaviour of the clocked network (event order within a cycle, link
\* latency, TDM turns of Router::is_myTurn) is one of SwapNetwork.
THEOREM CycleImplementsNetwork == CSpec => Spec
<1>1. CInit => Init
  BY Zenon DEF CInit
<1>2. [CNext]_cvars => [Next]_vars
  <2> SUFFICES ASSUME [CNext]_cvars PROVE [Next]_vars
    BY Zenon
  <2>1. CASE CNext
    BY Zenon, <2>1, NodeImplements, RouterImplements, TickImplements DEF CNext
  <2>2. CASE UNCHANGED cvars
    BY Zenon, <2>2 DEF cvars
  <2> QED
    BY Zenon, <2>1, <2>2
<1> QED
  BY <1>1, <1>2, PTL DEF CSpec, Spec

\* Flow control and packets under the clock: a VC is in one hand, an arriving
\* flit finds its VC idle, a valid swap pointer names a flit, and no packet is
\* lost, duplicated or moved to another vnet, in every mesh and for every TDM
\* period.
THEOREM CycleSafe ==
  CSpec => []( /\ VcExclusive /\ ArrivalFindsIdleVc /\ SwapPtrPointsToFlit
               /\ PacketConserved /\ FlitKeepsVnet /\ IsSwapMatchesRouted )
BY CycleImplementsNetwork, VcExclusiveCorrect, ArrivalCorrect, PtrCorrect,
   PacketCorrect, VnetCorrect, IsSwapCorrect, PTL

-----------------------------------------------------------------------------
(* The clock.                                                              *)

\* Router r will wake in this cycle, or is about to serve its links.
Due(r) == r \in todo \/ (active = r /\ stage = "units")

\* Only the end of a cycle takes from a queue, so that what was old enough
\* for its link is still there; and who has something on a link is due.
ClockInv ==
  /\ ClockTypeOK
  /\ \A c \in Channels :
       /\ agedq[c] <= Len(outq[c]) /\ agedc[c] <= Len(credq[c])
       /\ Len(link[c]) <= 1 /\ Len(credlink[c]) <= 1
       /\ link[c] # <<>> /\ Dst[c] \in Routers => Due(Dst[c])
       /\ credlink[c] # <<>> /\ Src[c] \in Routers => Due(Src[c])

LEMMA PeriodFacts == Period \in Nat \ {0}
<1>1. Cardinality(Routers) \in Nat /\ Cardinality(Routers) # 0
  BY Zenon, ClockAssumption, FS_CardinalityType, FS_EmptySet
<1> QED
  BY <1>1, ClockAssumption DEF Period

LEMMA LeqFacts ==
  /\ \A m \in Nat : m <= m /\ m <= m + 1
  /\ \A m \in {0, 1} : m <= 1
OBVIOUS

LEMMA EmptyQueue ==
  /\ Len(<<>>) = 0
  /\ \A S : \A e \in S : Len(Append(<<>>, e)) = 1
OBVIOUS

LEMMA QueueLen ==
  ASSUME NEW S, NEW s \in Seq(S)
  PROVE  /\ Len(s) \in Nat
         /\ \A e \in S : Len(Append(s, e)) = Len(s) + 1
         /\ s # <<>> => Len(Tail(s)) = Len(s) - 1 /\ (Len(s) <= 1 => Tail(s) = <<>>)
<1>1. Len(s) \in Nat /\ \A e \in S : Len(Append(s, e)) = Len(s) + 1
  OBVIOUS
<1>2. ASSUME s # <<>> PROVE Len(Tail(s)) = Len(s) - 1 /\ (Len(s) <= 1 => Tail(s) = <<>>)
  <2>1. Len(s) \in Nat \ {0} /\ Tail(s) \in Seq(S) /\ Len(Tail(s)) = Len(s) - 1
    BY <1>2
  <2>2. Len(Tail(s)) = 0 => Tail(s) = <<>>
    <3> DEFINE t == Tail(s)
    <3>1. t \in Seq(S)
      BY Zenon, <2>1
    <3> HIDE DEF t
    <3>2. Len(t) = 0 => t = <<>>
      BY <3>1
    <3> QED
      BY Zenon, <3>2 DEF t
  <2> QED
    BY <2>1, <2>2
<1> QED
  BY Zenon, <1>1, <1>2

\* What a step within a cycle does to the queues.
Within(c) ==
  /\ Len(outq[c]) <= Len(outq'[c]) /\ Len(credq[c]) <= Len(credq'[c])
  /\ Len(link'[c]) <= Len(link[c]) /\ Len(credlink'[c]) <= Len(credlink[c])
  /\ link'[c] # <<>> /\ Dst[c] \in Routers => Due(Dst[c])'
  /\ credlink'[c] # <<>> /\ Src[c] \in Routers => Due(Src[c])'

LEMMA ClockWithin ==
  ASSUME TypeOK, TypeOK', ClockInv, UNCHANGED <<slot, agedq, agedc>>, todo' \subseteq Routers,
         linksRead' \in BOOLEAN,
         \A c \in Channels : Within(c)
  PROVE  ClockInv'
<1>1. ClockTypeOK'
  BY Zenon DEF ClockInv, ClockTypeOK
<1>2. ASSUME NEW c \in Channels
      PROVE  /\ agedq'[c] <= Len(outq'[c]) /\ agedc'[c] <= Len(credq'[c])
             /\ Len(link'[c]) <= 1 /\ Len(credlink'[c]) <= 1
  <2>1. /\ outq[c] \in Seq(Flit) /\ outq'[c] \in Seq(Flit)
        /\ credq[c] \in Seq(Credit) /\ credq'[c] \in Seq(Credit)
        /\ link[c] \in Seq(Flit) /\ link'[c] \in Seq(Flit)
        /\ credlink[c] \in Seq(Credit) /\ credlink'[c] \in Seq(Credit)
    BY Zenon DEF TypeOK
  <2>2. /\ Len(outq[c]) \in Nat /\ Len(outq'[c]) \in Nat
        /\ Len(credq[c]) \in Nat /\ Len(credq'[c]) \in Nat
        /\ Len(link[c]) \in Nat /\ Len(link'[c]) \in Nat
        /\ Len(credlink[c]) \in Nat /\ Len(credlink'[c]) \in Nat
    BY Zenon, <2>1, QueueLen
  <2>3. agedq[c] \in Nat /\ agedc[c] \in Nat /\ agedq'[c] = agedq[c] /\ agedc'[c] = agedc[c]
    BY Zenon DEF ClockInv, ClockTypeOK
  <2>4. /\ agedq[c] <= Len(outq[c]) /\ agedc[c] <= Len(credq[c])
        /\ Len(link[c]) <= 1 /\ Len(credlink[c]) <= 1
    BY Zenon DEF ClockInv
  <2>5. /\ Len(outq[c]) <= Len(outq'[c]) /\ Len(credq[c]) <= Len(credq'[c])
        /\ Len(link'[c]) <= Len(link[c]) /\ Len(credlink'[c]) <= Len(credlink[c])
    BY Zenon DEF Within
  <2> QED
    BY SMTT(30), <2>2, <2>3, <2>4, <2>5
<1> QED
  BY Zenon, <1>1, <1>2 DEF ClockInv, Within

\* A step that leaves the queues and the run of the routers alone.
LEMMA ClockQuiet ==
  ASSUME TypeOK, TypeOK', ClockInv, UNCHANGED <<slot, agedq, agedc>>, todo' \subseteq Routers,
         linksRead' \in BOOLEAN,
         UNCHANGED <<outq, link, credq, credlink>>, \A r \in Routers : Due(r) => Due(r)'
  PROVE  ClockInv'
<1>1. ASSUME NEW c \in Channels PROVE Within(c)
  <2>1. outq[c] \in Seq(Flit) /\ credq[c] \in Seq(Credit) /\ link[c] \in Seq(Flit) /\ credlink[c] \in Seq(Credit)
    BY Zenon DEF TypeOK
  <2>2. Len(outq[c]) \in Nat /\ Len(credq[c]) \in Nat /\ Len(link[c]) \in Nat /\ Len(credlink[c]) \in Nat
    BY Zenon, <2>1, QueueLen
  <2>3. /\ Len(outq[c]) <= Len(outq'[c]) /\ Len(credq[c]) <= Len(credq'[c])
        /\ Len(link'[c]) <= Len(link[c]) /\ Len(credlink'[c]) <= Len(credlink[c])
    BY <2>2
  <2> QED
    BY Zenon, <2>3 DEF Within, ClockInv
<1> QED
  BY Zenon, <1>1, ClockWithin

\* An interface appends to its queues and takes from its links.
LEMMA ClockNode ==
  ASSUME TypeOK, TypeOK', ClockInv, UNCHANGED clockVars, UNCHANGED runVars,
         linksRead' \in BOOLEAN,
         \A c \in Channels :
           /\ outq'[c] = outq[c] \/ \E f \in Flit : outq'[c] = Append(outq[c], f)
           /\ credq'[c] = credq[c] \/ \E k \in Credit : credq'[c] = Append(credq[c], k)
           /\ link'[c] = link[c] \/ (link[c] # <<>> /\ link'[c] = Tail(link[c]))
           /\ credlink'[c] = credlink[c] \/ (credlink[c] # <<>> /\ credlink'[c] = Tail(credlink[c]))
  PROVE  ClockInv'
<1>1. \A r : Due(r)' <=> Due(r)
  BY Zenon DEF Due, clockVars, runVars
<1>2. ASSUME NEW c \in Channels PROVE Within(c)
  <2>1. outq[c] \in Seq(Flit) /\ credq[c] \in Seq(Credit) /\ link[c] \in Seq(Flit) /\ credlink[c] \in Seq(Credit)
    BY Zenon DEF TypeOK
  <2>2. Len(outq[c]) <= Len(outq'[c])
    <3>1. /\ Len(outq[c]) \in Nat
          /\ \A f \in Flit : Len(Append(outq[c], f)) = Len(outq[c]) + 1
      BY Zenon, <2>1, QueueLen
    <3> QED
      BY Zenon, <3>1, LeqFacts
  <2>3. Len(credq[c]) <= Len(credq'[c])
    <3>1. /\ Len(credq[c]) \in Nat
          /\ \A k \in Credit : Len(Append(credq[c], k)) = Len(credq[c]) + 1
      BY Zenon, <2>1, QueueLen
    <3> QED
      BY Zenon, <3>1, LeqFacts
  <2>4. Len(link'[c]) <= Len(link[c]) /\ (link'[c] # <<>> => link[c] # <<>>)
    <3>1. Len(link[c]) \in Nat /\ (link[c] # <<>> => Len(Tail(link[c])) = Len(link[c]) - 1)
      BY Zenon, <2>1, QueueLen
    <3>2. CASE link'[c] = link[c]
      BY <3>1, <3>2
    <3>3. CASE link[c] # <<>> /\ link'[c] = Tail(link[c])
      BY <3>1, <3>3
    <3> QED
      BY Zenon, <3>2, <3>3
  <2>5. Len(credlink'[c]) <= Len(credlink[c]) /\ (credlink'[c] # <<>> => credlink[c] # <<>>)
    <3>1. Len(credlink[c]) \in Nat /\ (credlink[c] # <<>> => Len(Tail(credlink[c])) = Len(credlink[c]) - 1)
      BY Zenon, <2>1, QueueLen
    <3>2. CASE credlink'[c] = credlink[c]
      BY <3>1, <3>2
    <3>3. CASE credlink[c] # <<>> /\ credlink'[c] = Tail(credlink[c])
      BY <3>1, <3>3
    <3> QED
      BY Zenon, <3>2, <3>3
  <2> QED
    BY Zenon, <1>1, <2>2, <2>3, <2>4, <2>5 DEF Within, ClockInv
<1>3. todo' \subseteq Routers
  BY Zenon DEF ClockInv, ClockTypeOK, clockVars
<1> QED
  BY Zenon, <1>2, <1>3, ClockWithin DEF clockVars

\* The credit of a VC and a flit of the network have their types.
LEMMA NodeQueues ==
  ASSUME TypeOK, NEW n \in Nodes, NodeNext(n), NEW c \in Channels
  PROVE  /\ outq'[c] = outq[c] \/ \E f \in Flit : outq'[c] = Append(outq[c], f)
         /\ credq'[c] = credq[c] \/ \E k \in Credit : credq'[c] = Append(credq[c], k)
         /\ link'[c] = link[c] \/ (link[c] # <<>> /\ link'[c] = Tail(link[c]))
         /\ credlink'[c] = credlink[c] \/ (credlink[c] # <<>> /\ credlink'[c] = Tail(credlink[c]))
         /\ UNCHANGED runVars
<1>1. CASE NI_send(n)
  <2>1. PICK p \in pending, d \in Out(n), v \in VCs :
          outq' = [outq EXCEPT ![d] =
            Append(@, [pkt |-> p, vc |-> v, out |-> NoLink, routed |-> FALSE])]
    BY Zenon, <1>1 DEF NI_send, IdleVcs
  <2> DEFINE f == [pkt |-> p, vc |-> v, out |-> NoLink, routed |-> FALSE]
  <2>2. f \in Flit
    BY Zenon DEF TypeOK, Flit
  <2> HIDE DEF f
  <2>3. outq'[c] = outq[c] \/ outq'[c] = Append(outq[c], f)
    BY Zenon, <2>1 DEF TypeOK, f
  <2> QED
    BY Zenon, <1>1, <2>2, <2>3 DEF NI_send, downVars
<1>2. CASE NI_receive(n)
  <2>1. PICK d \in Channels :
          /\ link[d] # <<>> /\ link' = [link EXCEPT ![d] = Tail(@)]
          /\ credq' = [credq EXCEPT ![d] = Append(@, [vc |-> Head(link[d]).vc, free |-> TRUE])]
    BY Zenon, <1>2, LinkEnds DEF NI_receive, Deliver
  <2>2. [vc |-> Head(link[d]).vc, free |-> TRUE] \in Credit
    <3>1. Head(link[d]) \in Flit
      BY Zenon, <2>1, NonEmptySeq DEF TypeOK
    <3> QED
      BY Zenon, <3>1 DEF Flit, Credit
  <2>3. link'[c] = link[c] \/ (link[c] # <<>> /\ link'[c] = Tail(link[c]))
    BY Zenon, <2>1 DEF TypeOK
  <2>4. credq'[c] = credq[c] \/ credq'[c] = Append(credq[c], [vc |-> Head(link[d]).vc, free |-> TRUE])
    BY Zenon, <2>1 DEF TypeOK
  <2> QED
    BY Zenon, <1>2, <2>2, <2>3, <2>4 DEF NI_receive, upVars
<1>3. CASE NI_stall(n)
  <2>1. PICK d \in Channels : link[d] # <<>> /\ link' = [link EXCEPT ![d] = Tail(@)]
    BY Zenon, <1>3, LinkEnds DEF NI_stall
  <2>2. link'[c] = link[c] \/ (link[c] # <<>> /\ link'[c] = Tail(link[c]))
    BY Zenon, <2>1 DEF TypeOK
  <2> QED
    BY Zenon, <1>3, <2>2 DEF NI_stall, upVars, downVars
<1>4. CASE checkStallQueue(n)
  <2>1. PICK d \in In(n), f \in stalled[n] :
          credq' = [credq EXCEPT ![d] = Append(@, [vc |-> f.vc, free |-> TRUE])]
    BY Zenon, <1>4 DEF checkStallQueue, Deliver
  <2>2. [vc |-> f.vc, free |-> TRUE] \in Credit
    BY DEF TypeOK, Flit, Credit
  <2>3. credq'[c] = credq[c] \/ credq'[c] = Append(credq[c], [vc |-> f.vc, free |-> TRUE])
    BY Zenon, <2>1 DEF TypeOK
  <2> QED
    BY Zenon, <1>4, <2>2, <2>3 DEF checkStallQueue, upVars
<1>5. CASE NI_credit(n)
  <2>1. PICK d \in Out(n) : credlink[d] # <<>> /\ credlink' = [credlink EXCEPT ![d] = Tail(@)]
    BY Zenon, <1>5 DEF NI_credit
  <2>2. credlink'[c] = credlink[c] \/ (credlink[c] # <<>> /\ credlink'[c] = Tail(credlink[c]))
    BY Zenon, <2>1 DEF TypeOK
  <2> QED
    BY Zenon, <1>5, <2>2 DEF NI_credit, downVars
<1> QED
  BY Zenon, <1>1, <1>2, <1>3, <1>4, <1>5 DEF NodeNext

LEMMA ClockStart ==
  ASSUME TypeOK, TypeOK', ClockInv, NEW r \in Routers, StartRouter(r), linksRead' \in BOOLEAN
  PROVE  ClockInv'
<1>1. /\ active = NoRouter /\ active' = r /\ stage' = "units" /\ todo' = todo \ {r}
      /\ UNCHANGED <<outq, link, credq, credlink>> /\ UNCHANGED <<slot, agedq, agedc>>
  BY Zenon DEF StartRouter, wakeup_noSwap, wakeup_declined, wakeup_swap, BeginWakeup, Idle, upVars
<1>2. \A x \in Routers : Due(x) => Due(x)'
  BY Zenon, <1>1, TopologyAssumption DEF Due
<1>3. todo' \subseteq Routers
  BY Zenon, <1>1 DEF ClockInv, ClockTypeOK
<1> QED
  BY Zenon, <1>1, <1>2, <1>3, ClockQuiet

LEMMA ClockUnits ==
  ASSUME TypeOK, TypeOK', ClockInv, NEW r \in Routers, Units(r), UNCHANGED clockVars,
         linksRead' \in BOOLEAN
  PROVE  ClockInv'
<1>1. /\ link' = [c \in Channels |-> IF c \in Arrivals(r) THEN Tail(link[c]) ELSE link[c]]
      /\ credlink' = [c \in Channels |-> IF c \in Out(r) /\ credlink[c] # <<>>
                                         THEN Tail(credlink[c]) ELSE credlink[c]]
      /\ active = r /\ outq' = outq /\ credq' = credq
  BY Zenon DEF Units, InputUnit_wakeup, OutputUnit_wakeup
<1>2. \A x \in Routers : x # r /\ Due(x) => Due(x)'
  BY Zenon, <1>1 DEF Due, clockVars
<1>3. ASSUME NEW c \in Channels PROVE Within(c)
  <2>1. outq[c] \in Seq(Flit) /\ credq[c] \in Seq(Credit) /\ link[c] \in Seq(Flit) /\ credlink[c] \in Seq(Credit)
    BY Zenon DEF TypeOK
  <2>2. Len(outq[c]) \in Nat /\ Len(credq[c]) \in Nat /\ Len(link[c]) \in Nat /\ Len(credlink[c]) \in Nat
    BY Zenon, <2>1, QueueLen
  <2>3. Len(link[c]) <= 1 /\ Len(credlink[c]) <= 1
    BY Zenon DEF ClockInv
  <2>4. /\ link[c] # <<>> => Tail(link[c]) = <<>> /\ Len(Tail(link[c])) = Len(link[c]) - 1
        /\ credlink[c] # <<>> => Tail(credlink[c]) = <<>> /\ Len(Tail(credlink[c])) = Len(credlink[c]) - 1
    BY Zenon, <2>1, <2>3, QueueLen
  <2>5. Len(link'[c]) <= Len(link[c]) /\ (Dst[c] = r => link'[c] = <<>>) /\ (link'[c] # <<>> => link[c] # <<>>)
    <3>1. CASE c \in Arrivals(r)
      BY <1>1, <2>2, <2>4, <3>1 DEF Arrivals
    <3>2. CASE c \notin Arrivals(r)
      <4>1. link'[c] = link[c]
        BY Zenon, <1>1, <3>2
      <4>2. Dst[c] = r => link[c] = <<>>
        BY Zenon, <3>2, LinkEnds DEF Arrivals
      <4> QED
        BY <2>2, <4>1, <4>2
    <3> QED
      BY Zenon, <3>1, <3>2
  <2>6. /\ Len(credlink'[c]) <= Len(credlink[c]) /\ (Src[c] = r => credlink'[c] = <<>>)
        /\ (credlink'[c] # <<>> => credlink[c] # <<>>)
    <3>1. CASE c \in Out(r) /\ credlink[c] # <<>>
      BY <1>1, <2>2, <2>4, <3>1
    <3>2. CASE ~(c \in Out(r) /\ credlink[c] # <<>>)
      <4>1. credlink'[c] = credlink[c]
        BY Zenon, <1>1, <3>2
      <4>2. Src[c] = r => credlink[c] = <<>>
        BY Zenon, <3>2, LinkEnds
      <4> QED
        BY <2>2, <4>1, <4>2
    <3> QED
      BY Zenon, <3>1, <3>2
  <2>7. Len(outq[c]) <= Len(outq'[c]) /\ Len(credq[c]) <= Len(credq'[c])
    BY <1>1, <2>2
  <2> QED
    BY Zenon, <1>2, <2>5, <2>6, <2>7 DEF Within, ClockInv
<1>4. todo' \subseteq Routers
  BY Zenon DEF ClockInv, ClockTypeOK, clockVars
<1> QED
  BY Zenon, <1>3, <1>4, ClockWithin DEF clockVars

LEMMA ClockGrant ==
  ASSUME StructInv, TypeOK', ClockInv, NEW r \in Routers, NEW k \in 0 .. NumOut(r) - 1,
         arbitrate_outports(r, k), UNCHANGED clockVars, linksRead' \in BOOLEAN
  PROVE  ClockInv'
<1> DEFINE o == OutPorts[r][k]
<1>1. PICK c \in Requesters(r, k) :
        \E w \in select_free_vc(o, VnetOf(winner[c])) : Grant(r, c, winner[c], o, w)
  BY Zenon DEF arbitrate_outports
<1>2. PICK w \in select_free_vc(o, VnetOf(winner[c])) :
        /\ outq' = [outq EXCEPT ![o] = Append(@, Departing(Head(vcs[c][winner[c]]), w))]
        /\ credq' = [credq EXCEPT ![c] = Append(@, [vc |-> winner[c], free |-> TRUE])]
  BY Zenon, <1>1 DEF Grant
<1> DEFINE e == Departing(Head(vcs[c][winner[c]]), w)
           q == [vc |-> winner[c], free |-> TRUE]
<1>3. TypeOK
  BY Zenon DEF StructInv
<1>4. c \in Channels /\ winner[c] \in VCs /\ vcs[c][winner[c]] # <<>> /\ w \in VCs
  <2>1. c \in Channels /\ winner[c] # -1
    BY Zenon, LinkEnds DEF Requesters
  <2>2. winner[c] \in VCs /\ vcs[c][winner[c]] # <<>>
    BY Zenon, <1>3, <2>1 DEF StructInv, WinnerInv, TypeOK
  <2>3. w \in VCs
    BY Zenon DEF select_free_vc, IdleVcs
  <2> QED
    BY Zenon, <2>1, <2>2, <2>3
<1>5. e \in Flit /\ q \in Credit
  <2>2. vcs[c][winner[c]] \in Seq(Flit)
    <3>1. vcs \in [Channels -> [VCs -> Seq(Flit)]]
      BY Zenon, <1>3 DEF TypeOK
    <3> QED
      BY Zenon, <1>4, <3>1
  <2>1. Head(vcs[c][winner[c]]) \in Flit
    BY Zenon, <1>4, <2>2, NonEmptySeq
  <2> QED
    BY Zenon, <1>4, <2>1, DepartingFlit DEF Credit
<1>6. UNCHANGED <<active, stage, link, credlink>>
  BY Zenon DEF arbitrate_outports
<1> HIDE DEF e, q
<1>7. ASSUME NEW d \in Channels PROVE Within(d)
  <2>1. outq[d] \in Seq(Flit) /\ credq[d] \in Seq(Credit) /\ link[d] \in Seq(Flit) /\ credlink[d] \in Seq(Credit)
    BY Zenon, <1>3 DEF TypeOK
  <2>2. outq'[d] = outq[d] \/ outq'[d] = Append(outq[d], e)
    BY Zenon, <1>2, <1>3 DEF TypeOK, e
  <2>3. credq'[d] = credq[d] \/ credq'[d] = Append(credq[d], q)
    BY Zenon, <1>2, <1>3 DEF TypeOK, q
  <2>4. /\ Len(outq[d]) \in Nat /\ Len(Append(outq[d], e)) = Len(outq[d]) + 1
        /\ Len(credq[d]) \in Nat /\ Len(Append(credq[d], q)) = Len(credq[d]) + 1
        /\ Len(link[d]) \in Nat /\ Len(credlink[d]) \in Nat
    BY Zenon, <1>5, <2>1, QueueLen
  <2>5. /\ Len(outq[d]) <= Len(outq'[d]) /\ Len(credq[d]) <= Len(credq'[d])
        /\ Len(link'[d]) <= Len(link[d]) /\ Len(credlink'[d]) <= Len(credlink[d])
    BY Zenon, <1>6, <2>2, <2>3, <2>4, LeqFacts
  <2> QED
    BY Zenon, <1>6, <2>5 DEF Within, ClockInv, Due, clockVars
<1>8. todo' \subseteq Routers
  BY Zenon DEF ClockInv, ClockTypeOK, clockVars
<1> QED
  BY Zenon, <1>3, <1>7, <1>8, ClockWithin DEF clockVars

\* At the end of a cycle the links are empty: their consumers have all woken.
LEMMA LinksEmpty ==
  ASSUME ClockInv, Tick, NEW c \in Channels
  PROVE  link[c] = <<>> /\ credlink[c] = <<>>
<1>1. todo = {} /\ active = NoRouter /\ NodesServed
  BY Zenon DEF Tick, Idle
<1>2. \A r \in Routers : ~Due(r)
  BY Zenon, <1>1, TopologyAssumption DEF Due
<1>3. Src[c] \in Routers \cup Nodes /\ Dst[c] \in Routers \cup Nodes
  BY Zenon, LinkEnds
<1>4. Dst[c] \in Nodes => link[c] = <<>>
  BY Zenon, <1>1, LinkEnds DEF NodesServed, Served
<1>5. Src[c] \in Nodes => credlink[c] = <<>>
  BY Zenon, <1>1, LinkEnds DEF NodesServed, Served
<1> QED
  BY Zenon, <1>2, <1>3, <1>4, <1>5 DEF ClockInv

LEMMA ClockTick ==
  ASSUME TypeOK, TypeOK', ClockInv, Tick, linksRead' \in BOOLEAN
  PROVE  ClockInv'
<1>1. /\ slot' = (slot + 1) % Period
      /\ agedq' = [c \in Channels |-> Len(outq'[c])]
      /\ agedc' = [c \in Channels |-> Len(credq'[c])]
      /\ todo' = {r \in Routers : HasWork(r)'}
  BY Zenon DEF Tick
<1>2. ASSUME NEW c \in Channels
      PROVE  /\ outq'[c] \in Seq(Flit) /\ credq'[c] \in Seq(Credit)
             /\ Len(outq'[c]) \in Nat /\ Len(credq'[c]) \in Nat
  <2>1. outq'[c] \in Seq(Flit) /\ credq'[c] \in Seq(Credit)
    BY Zenon DEF TypeOK
  <2> QED
    BY Zenon, <2>1, QueueLen
<1>3. ClockTypeOK'
  <2>1. slot' \in 0 .. Period - 1
    <3>1. slot \in Nat /\ Period \in Nat \ {0}
      BY PeriodFacts DEF ClockInv, ClockTypeOK
    <3> QED
      BY <1>1, <3>1
  <2> QED
    BY Zenon, <1>1, <1>2, <2>1 DEF ClockTypeOK
<1>4. ASSUME NEW c \in Channels PROVE Len(link'[c]) <= 1 /\ Len(credlink'[c]) <= 1
  <2>1. link[c] = <<>> /\ credlink[c] = <<>>
    BY Zenon, LinksEmpty
  <2>2. PICK S, T : UNCHANGED vars \/ NetworkLink_wakeup(S, T)
    BY Zenon DEF Tick
  <2>3. CASE UNCHANGED vars
    <3>1. link'[c] = <<>> /\ credlink'[c] = <<>>
      BY Zenon, <2>1, <2>3 DEF vars
    <3> QED
      BY <3>1
  <2>4. CASE NetworkLink_wakeup(S, T)
    <3>1. /\ link'[c] = <<>> \/ (c \in S /\ link'[c] = Append(<<>>, Head(outq[c])))
          /\ credlink'[c] = <<>> \/ (c \in T /\ credlink'[c] = Append(<<>>, Head(credq[c])))
      BY Zenon, <2>1, <2>4 DEF NetworkLink_wakeup, Moved
    <3>2. c \in S => Head(outq[c]) \in Flit
      BY Zenon, <2>4, NonEmptySeq DEF NetworkLink_wakeup, TypeOK
    <3>3. c \in T => Head(credq[c]) \in Credit
      BY Zenon, <2>4, NonEmptySeq DEF NetworkLink_wakeup, TypeOK
    <3>4. Len(link'[c]) \in {0, 1} /\ Len(credlink'[c]) \in {0, 1}
      BY Zenon, <3>1, <3>2, <3>3, EmptyQueue
    <3> QED
      BY Zenon, <3>4, LeqFacts
  <2> QED
    BY Zenon, <2>2, <2>3, <2>4
<1>5. ASSUME NEW c \in Channels
      PROVE  /\ link'[c] # <<>> /\ Dst[c] \in Routers => Dst[c] \in todo'
             /\ credlink'[c] # <<>> /\ Src[c] \in Routers => Src[c] \in todo'
  BY Zenon, <1>1, LinkEnds DEF HasWork
<1>6. \A c \in Channels : agedq'[c] <= Len(outq'[c]) /\ agedc'[c] <= Len(credq'[c])
  BY <1>1, <1>2
<1> QED
  BY Zenon, <1>3, <1>4, <1>5, <1>6 DEF ClockInv, Due

LEMMA ClockStep == StructInv /\ TypeOK' /\ ClockInv /\ [CNext]_cvars => ClockInv'
<1> SUFFICES ASSUME StructInv, TypeOK', ClockInv, [CNext]_cvars PROVE ClockInv'
  BY Zenon
<1>1. TypeOK
  BY Zenon DEF StructInv
<1>2. todo \subseteq Routers /\ linksRead' \in BOOLEAN
  BY Zenon DEF ClockInv, ClockTypeOK, CNext, ServeNode, UnstallNode, SendNode, StartRouter,
               ContinueRouter, Tick, cvars
<1>3. ASSUME NEW n \in Nodes, ServeNode(n) \/ UnstallNode(n) \/ SendNode(n) PROVE ClockInv'
  <2>1. NodeNext(n) /\ UNCHANGED clockVars
    BY Zenon, <1>3 DEF ServeNode, UnstallNode, SendNode, NodeNext
  <2>2. UNCHANGED runVars
    BY Zenon, <2>1 DEF NodeNext, NI_send, NI_receive, NI_stall, checkStallQueue, NI_credit
  <2> QED
    BY Zenon, <1>1, <1>2, <2>1, <2>2, NodeQueues, ClockNode
<1>4. ASSUME NEW r \in Routers, StartRouter(r) PROVE ClockInv'
  BY Zenon, <1>1, <1>2, <1>4, ClockStart
<1>5. ASSUME NEW r \in Routers, ContinueRouter(r) PROVE ClockInv'
  <2>1. UNCHANGED clockVars
    BY Zenon, <1>5 DEF ContinueRouter
  <2>2. CASE Units(r)
    BY Zenon, <1>1, <1>2, <2>1, <2>2, ClockUnits
  <2>3. CASE \E k \in 0 .. NumOut(r) - 1 : arbitrate_outports(r, k)
    BY Zenon, <1>2, <2>1, <2>3, ClockGrant
  <2>4. CASE arbitrate_inports(r) \/ clear_request_vector(r)
    <3>1. stage # "units" /\ UNCHANGED <<outq, link, credq, credlink>>
      BY Zenon, <2>4 DEF arbitrate_inports, clear_request_vector, upVars, downVars
    <3>2. \A x \in Routers : Due(x) => Due(x)'
      BY Zenon, <2>1, <3>1 DEF Due, clockVars
    <3> QED
      BY Zenon, <1>1, <1>2, <2>1, <3>1, <3>2, ClockQuiet DEF clockVars
  <2> QED
    BY Zenon, <1>5, <2>2, <2>3, <2>4 DEF ContinueRouter
<1>6. CASE Tick
  BY Zenon, <1>1, <1>2, <1>6, ClockTick
<1>7. CASE UNCHANGED cvars
  <2>1. UNCHANGED <<outq, link, credq, credlink, active, stage, slot, todo, agedq, agedc>>
    BY Zenon, <1>7 DEF cvars, vars, clockVars, upVars, downVars, runVars
  <2>2. \A x \in Routers : Due(x) => Due(x)'
    BY Zenon, <2>1 DEF Due
  <2> QED
    BY Zenon, <1>1, <1>2, <2>1, <2>2, ClockQuiet
<1> QED
  BY Zenon, <1>3, <1>4, <1>5, <1>6, <1>7 DEF CNext

\* Under gem5's clock every consumer of a link wakes in the cycle in
\* which the link delivers, so that no link ever holds two flits or credits,
\* although InputUnit::wakeup and OutputUnit::wakeup take only one.
THEOREM ClockCorrect == CSpec => [](ClockTypeOK /\ LinkDrained)
<1>1. CInit => ClockInv
  <2> SUFFICES ASSUME CInit PROVE ClockInv
    BY Zenon
  <2>1. Period \in Nat \ {0}
    BY Zenon, PeriodFacts
  <2>2. slot = 0 /\ todo = {} /\ agedq = [c \in Channels |-> 0] /\ agedc = [c \in Channels |-> 0]
    BY Zenon DEF CInit
  <2>3. ClockTypeOK
    <3>1. slot \in 0 .. Period - 1 /\ 0 \in Nat
      BY <2>1, <2>2
    <3>2. linksRead = FALSE
      BY Zenon DEF CInit
    <3> QED
      BY Zenon, <2>2, <3>1, <3>2 DEF ClockTypeOK
  <2>4. \A c \in Channels : outq[c] = <<>> /\ credq[c] = <<>> /\ link[c] = <<>> /\ credlink[c] = <<>>
    BY Zenon DEF CInit, Init
  <2> QED
    BY SMTT(30), <2>2, <2>3, <2>4 DEF ClockInv
<1>2. ClockInv => ClockTypeOK /\ LinkDrained
  BY Zenon DEF ClockInv, LinkDrained
<1>3. CSpec => []StructInv /\ []TypeOK
  BY CycleImplementsNetwork, VcSpec, TypeCorrect, PTL
<1> QED
  BY <1>1, <1>2, <1>3, ClockStep, PTL DEF CSpec

\* The clock's own state keeps its types: the slot of the TDM schedule, the
\* routers still to wake and the ages of the queues stay within bounds.
THEOREM ClockTypeCorrect == CSpec => []ClockTypeOK
BY ClockCorrect, PTL

=============================================================================
