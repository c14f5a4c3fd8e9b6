------------------------------ MODULE SwapCycle ------------------------------
(***************************************************************************)
(* SwapNetwork under gem5's clock.  Each scheduled router wakes once in a  *)
(* cycle, in any order, and then the interfaces wake: an interface and a   *)
(* router share no state within a cycle, so one order stands for all.  An  *)
(* interface sends and unstalls before it reads its links, so that a VC    *)
(* freed by a credit is used in the next cycle at the earliest.            *)
(* The end of the cycle moves the links: a flit or credit written in cycle *)
(* t is taken by its link in cycle t + 1 and can be consumed in t + 2      *)
(* (router and link latency 1).  It is router r's turn to swap in the      *)
(* cycles t with t % (tdm * #routers) = r.                                 *)
(***************************************************************************)
EXTENDS SwapNetwork

CONSTANTS
  Tdm,          \* the value of the enum m_whenToSwap
  Backlogged,   \* every message waits in its interface from the start
  StallNodes    \* interfaces whose protocol buffer can be full

ASSUME ClockAssumption ==
  /\ Tdm \in Nat \ {0}
  /\ Routers \cup Nodes \subseteq Nat
  /\ IsFiniteSet(Routers) /\ Routers # {}
  /\ Backlogged \in BOOLEAN
  /\ StallNodes \subseteq Nodes

Period == Tdm * Cardinality(Routers)

VARIABLES
  slot,     \* curCycle() % Period
  todo,     \* routers that are scheduled in this cycle and have not run
  agedq,    \* [c]: flits in outq[c] that were written in an earlier cycle
  agedc,    \* [c]: credits in credq[c] that were written in an earlier cycle
  linksRead \* the interfaces have come to their input links in this cycle

clockVars == <<slot, todo, agedq, agedc>>
cvars == <<vars, clockVars, linksRead>>

CInit ==
  /\ Init
  /\ slot = 0
  /\ todo = {}
  /\ agedq = [c \in Channels |-> 0]
  /\ agedc = [c \in Channels |-> 0]
  /\ linksRead = FALSE

is_myTurn(r) == slot = r

StartRouter(r) ==
  /\ r \in todo
  /\ \/ wakeup_noSwap(r, is_myTurn(r))
     \/ is_myTurn(r) /\ wakeup_declined(r)
     \/ is_myTurn(r) /\ wakeup_swap(r)
  /\ todo' = todo \ {r}
  /\ UNCHANGED <<slot, agedq, agedc, linksRead>>

ContinueRouter(r) ==
  /\ \/ Units(r)
     \/ arbitrate_inports(r)
     \/ \E k \in 0 .. NumOut(r) - 1 : arbitrate_outports(r, k)
     \/ clear_request_vector(r)
  /\ UNCHANGED <<clockVars, linksRead>>

\* scheduleOutputLink sends at most one flit in a cycle.
CanSend(n) ==
  \E p \in pending, c \in Out(n) :
    /\ PktSrc[p] = n
    /\ IdleVcs(c, InjVnet(p)) # {}
    /\ Len(outq[c]) = agedq[c]

\* With Backlogged an interface that can send does so before it goes on.
SendsDone == Backlogged /\ ~linksRead => \A n \in Nodes : ~CanSend(n)

SendNode(n) ==
  /\ todo = {} /\ ~linksRead
  /\ CanSend(n)
  /\ Backlogged => \A m \in Nodes : m < n => ~CanSend(m)
  /\ NI_send(n)
  /\ UNCHANGED <<clockVars, linksRead>>

UnstallNode_callbackLost(n) ==
  /\ Cardinality(stalled[n]) > 1
  /\ todo = {} /\ ~linksRead
  /\ checkStallQueue(n)
  /\ UNCHANGED <<clockVars, linksRead>>

\* The protocol has made room for a stalled flit.
UnstallNode(n) ==
  /\ todo = {} /\ ~linksRead
  /\ checkStallQueue(n)
  /\ UNCHANGED <<clockVars, linksRead>>

\* The interfaces have consumed what the links brought in this cycle.  They
\* share no state, so one order of their handlers stands for all.
Served(n) ==
  (\A c \in In(n) : link[c] = <<>>) /\ (\A c \in Out(n) : credlink[c] = <<>>)
NodesServed == \A n \in Nodes : Served(n)

ServeNode(n) ==
  /\ todo = {} /\ SendsDone
  /\ \A m \in Nodes : m < n => Served(m)
  /\ NI_receive(n) \/ (n \in StallNodes /\ NI_stall(n)) \/ NI_credit(n)
  /\ linksRead' = TRUE
  /\ UNCHANGED clockVars

Tick_noWrap ==
  /\ Idle
  /\ todo = {}
  /\ NodesServed
  /\ SendsDone
  /\ LET S == {c \in Channels : agedq[c] > 0}
         T == {c \in Channels : agedc[c] > 0}
     IN  IF S \cup T = {} THEN UNCHANGED vars ELSE NetworkLink_wakeup(S, T)
  /\ slot' = slot + 1
  /\ agedq' = [c \in Channels |-> Len(outq'[c])]
  /\ agedc' = [c \in Channels |-> Len(credq'[c])]
  /\ todo' = {r \in Routers : HasWork(r)'}
  /\ linksRead' = FALSE

Tick ==
  /\ Idle
  /\ todo = {}
  /\ NodesServed
  /\ SendsDone
  /\ LET S == {c \in Channels : agedq[c] > 0}
         T == {c \in Channels : agedc[c] > 0}
     IN  IF S \cup T = {} THEN UNCHANGED vars ELSE NetworkLink_wakeup(S, T)
  /\ slot' = (slot + 1) % Period
  /\ agedq' = [c \in Channels |-> Len(outq'[c])]
  /\ agedc' = [c \in Channels |-> Len(credq'[c])]
  /\ todo' = {r \in Routers : HasWork(r)'}
  /\ linksRead' = FALSE

CNext ==
  \/ \E n \in Nodes : ServeNode(n) \/ UnstallNode(n) \/ SendNode(n)
  \/ \E r \in Routers : StartRouter(r) \/ ContinueRouter(r)
  \/ Tick

CSpec == CInit /\ [][CNext]_cvars

\* gem5's event queue always reaches the next event and the next cycle, and
\* the protocol empties its buffers again and again.
Fairness == WF_cvars(CNext) /\ \A n \in StallNodes : SF_cvars(UnstallNode(n))
FairCSpec == CSpec /\ Fairness

-----------------------------------------------------------------------------
\* The clock variables have their types.
ClockTypeOK ==
  /\ slot \in 0 .. Period - 1
  /\ todo \subseteq Routers
  /\ agedq \in [Channels -> Nat]
  /\ agedc \in [Channels -> Nat]
  /\ linksRead \in BOOLEAN

\* InputUnit::wakeup, OutputUnit::wakeup and the interfaces take one flit or
\* credit from a link when they wake: that is enough, since whoever a link
\* delivers to wakes in the same cycle, and no second item catches up.
LinkDrained == \A c \in Channels : Len(link[c]) <= 1 /\ Len(credlink[c]) <= 1

\* "make guarantteed forward progress of the flit" (GarnetNetwork::doSwap):
\* with SWAP a packet that has entered the network is eventually delivered.
EventuallyDelivered == \A p \in Packets : p \notin pending ~> p \in delivered

=============================================================================
