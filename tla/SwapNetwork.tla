----------------------------- MODULE SwapNetwork -----------------------------
(***************************************************************************)
(* The garnet2.0 network with SWAP: routers (Router, InputUnit,            *)
(* OutputUnit, SwitchAllocator, CrossbarSwitch), the network and credit    *)
(* links between them (NetworkLink, CreditLink) and, at the edge, the      *)
(* network interfaces.                                                     *)
(*                                                                         *)
(* A channel is one unidirectional link with everything that belongs to    *)
(* it: the OutVcStates and out-queue at its source, the link buffer, the   *)
(* VirtualChannels of the input unit at its destination, and the credit    *)
(* queue and credit link that run the other way.  The input units of       *)
(* router r are the channels c with Dst[c] = r, its output units those     *)
(* with Src[c] = r.                                                        *)
(*                                                                         *)
(* Event handlers run to completion in gem5, so while a router is inside   *)
(* Router::wakeup() (active # NoRouter) nothing else moves.  Between       *)
(* handlers this module fixes no order and no time: any router with work   *)
(* may wake, any subset of the links may move, and it may or may not be a  *)
(* router's turn to swap.  SwapCycle adds the clock.                       *)
(***************************************************************************)
EXTENDS Integers, Sequences, FiniteSets

CONSTANTS
  Routers, Nodes,         \* routers and network interfaces
  Channels, Src, Dst,     \* links, with source and destination
  InPorts, OutPorts,      \* m_input_unit and m_output_unit of each router
  NumVnets, VcsPerVnet,   \* m_virtual_networks, m_vcs_per_vnet
  MaxCredit,              \* buffers per VC
  OutportCompute(_,_,_),  \* outports RoutingUnit may return: router, node, free VCs
  Packets, PktSrc, PktDst, PktVnet,
  Interswap,              \* isEnableInterswap()
  NoIsSwap,               \* m_no_is_swap = 1
  DisableLocal,           \* m_whichToSwap = DISABLE_LOCAL_SWAP_
  OccupancySwap,          \* m_occupancy_swap, in percent
  InjSingleVnet,          \* m_inj_single_vnet = 1
  BailoutRouters,         \* routers whose turn can fall on a cycle % 1000 = 0
  NoRouter, NoLink

InLinks  == [x \in Routers \cup Nodes |-> {c \in Channels : Dst[c] = x}]
OutLinks == [x \in Routers \cup Nodes |-> {c \in Channels : Src[c] = x}]
In(x)  == InLinks[x]
Out(x) == OutLinks[x]

NumIn(r)  == Cardinality(DOMAIN InPorts[r])
NumOut(r) == Cardinality(DOMAIN OutPorts[r])
NumVcs    == NumVnets * VcsPerVnet
VCs       == 0 .. NumVcs - 1
VnetOf(v) == v \div VcsPerVnet

\* Port direction "Local": the link leads from or to a network interface.
IsLocal(c) == Src[c] \in Nodes \/ Dst[c] \in Nodes

ASSUME TopologyAssumption ==
  /\ Routers \cap Nodes = {}
  /\ NoRouter \notin Routers \cup Nodes
  /\ NoLink \notin Channels
  /\ Src \in [Channels -> Routers \cup Nodes]
  /\ Dst \in [Channels -> Routers \cup Nodes]
  /\ \A c \in Channels : Src[c] # Dst[c] /\ (Src[c] \in Routers \/ Dst[c] \in Routers)
  /\ \A n \in Nodes : \E c, d \in Channels : Src[c] = n /\ Dst[d] = n
  /\ \A n \in Nodes : \A c, d \in Channels :
       (Src[c] = n /\ Src[d] = n) \/ (Dst[c] = n /\ Dst[d] = n) => c = d
  /\ \A r \in Routers :
       /\ NumIn(r) \in Nat \ {0}
       /\ NumOut(r) \in Nat \ {0}
       /\ InPorts[r]  \in [0 .. NumIn(r) - 1 -> In(r)]
       /\ OutPorts[r] \in [0 .. NumOut(r) - 1 -> Out(r)]
       /\ \A c \in In(r)  : \E i \in DOMAIN InPorts[r]  : InPorts[r][i] = c
       /\ \A c \in Out(r) : \E i \in DOMAIN OutPorts[r] : OutPorts[r][i] = c

ASSUME ParameterAssumption ==
  /\ NumVnets \in Nat \ {0}
  /\ VcsPerVnet \in Nat \ {0}
  /\ MaxCredit \in Nat \ {0}
  /\ PktSrc \in [Packets -> Nodes]
  /\ PktDst \in [Packets -> Nodes]
  /\ PktVnet \in [Packets -> 0 .. NumVnets - 1]
  /\ Interswap \in BOOLEAN
  /\ NoIsSwap \in BOOLEAN
  /\ DisableLocal \in BOOLEAN
  /\ OccupancySwap \in Nat
  /\ InjSingleVnet \in BOOLEAN
  /\ BailoutRouters \subseteq Routers

\* The GarnetNetwork constructor turns is_swap off for several vnets.
ASSUME IsSwapNeedsSingleVnet == ~InjSingleVnet => NoIsSwap

\* Routes stay on the router's own outports, and a flit is sent out of a
\* "Local" port only at its destination.
ASSUME RouteAssumption ==
  \A r \in Routers, n \in Nodes :
    \A free \in [Out(r) -> SUBSET (0 .. VcsPerVnet - 1)] :
      \A o \in OutportCompute(r, n, free) :
        o \in Out(r) /\ (Dst[o] \in Nodes => Dst[o] = n)

-----------------------------------------------------------------------------
VARIABLES
  outvc,      \* [c][v]: OutVcState of the upstream end, [state, credit]
  outq,       \* [c]: flits in m_out_buffer (or the interface's out queue)
  link,       \* [c]: flits in the link buffer, ready to be consumed
  vcstate,    \* [c][v]: state of the input VC
  vcs,        \* [c][v]: flits in the input VC
  credq,      \* [c]: creditQueue of the downstream end
  credlink,   \* [c]: credits in the credit link, ready to be consumed
  swap_ptr,   \* [r]: the swap pointer
  is_swap,    \* [r]: the router holds a flit that a swap moved forward
  winner,     \* [c]: m_vc_winners, the VC input unit c requests with, or -1
  active,     \* router inside Router::wakeup(), or NoRouter
  stage,      \* its next part: "units", "sa1", "sa2"; or "idle"
  port,       \* next outport of SA-II
  stalled,    \* [n]: flits in the interface's m_stall_queue
  pending,    \* packets the interfaces have not sent yet
  delivered,  \* packets handed to their destination
  aborted     \* an assert of the code has failed

upVars   == <<outvc, outq>>
downVars == <<vcstate, vcs, credq>>
swapVars == <<swap_ptr, is_swap>>
runVars  == <<active, stage, port, winner>>
niVars   == <<stalled, pending, delivered>>
vars == <<upVars, link, downVars, credlink, swapVars, runVars, niVars, aborted>>

Flit == [pkt : Packets, vc : VCs, out : Channels \cup {NoLink}, routed : BOOLEAN]
Credit == [vc : VCs, free : BOOLEAN]
NoPtr == [valid |-> FALSE, inport |-> -1, vcid |-> -1]
SwapPtr == [valid : BOOLEAN, inport : Int, vcid : Int]

Init ==
  /\ outvc    = [c \in Channels |-> [v \in VCs |-> [state |-> "IDLE", credit |-> MaxCredit]]]
  /\ outq     = [c \in Channels |-> <<>>]
  /\ link     = [c \in Channels |-> <<>>]
  /\ vcstate  = [c \in Channels |-> [v \in VCs |-> "IDLE"]]
  /\ vcs      = [c \in Channels |-> [v \in VCs |-> <<>>]]
  /\ credq    = [c \in Channels |-> <<>>]
  /\ credlink = [c \in Channels |-> <<>>]
  /\ swap_ptr = [r \in Routers |-> NoPtr]
  /\ is_swap  = [r \in Routers |-> FALSE]
  /\ winner   = [c \in Channels |-> -1]
  /\ active = NoRouter
  /\ stage = "idle"
  /\ port = 0
  /\ stalled = [n \in Nodes |-> {}]
  /\ pending = Packets
  /\ delivered = {}
  /\ aborted = FALSE

-----------------------------------------------------------------------------
(***************************************************************************)
(* The swap pointer.  buf stands for the VC buffers, so that the operators *)
(* can be applied to the contents before or after a change.  movSwapPtr    *)
(* and scanBases return the set of pointers the code can end with, which   *)
(* has one element.                                                        *)
(***************************************************************************)
PtrVc(r, p) == InPorts[r][p.inport]

\* The order in which nested loops over <<port, vc>> visit their pairs.
Precedes(x, y) == x[1] < y[1] \/ (x[1] = y[1] /\ x[2] < y[2])
First(S) == {x \in S : \A y \in S : y = x \/ Precedes(x, y)}

\* movSwapPtr visits the inports after p.inport cyclically, p.inport last.
\* Its vcid counter is not reset between ports and grows by NumVcs at each,
\* and a value past the last VC is replaced by 0.
ProbedPort(r, p, a) == (p.inport + a) % NumIn(r)
Skipped(r, i) == DisableLocal /\ IsLocal(InPorts[r][i])
ProbedBefore(r, p, a) == {b \in 1 .. a - 1 : ~Skipped(r, ProbedPort(r, p, b))}
ProbedVc(r, p, a, j) ==
  IF ProbedBefore(r, p, a) = {} /\ p.vcid + j < NumVcs THEN p.vcid + j ELSE 0

Hits(r, p, buf) ==
  {x \in (1 .. NumIn(r)) \X VCs :
     LET i == ProbedPort(r, p, x[1])
     IN  ~Skipped(r, i) /\ buf[InPorts[r][i]][ProbedVc(r, p, x[1], x[2])] # <<>>}

movSwapPtr(r, p, buf) ==
  LET hits == Hits(r, p, buf)
  IN  IF hits = {} THEN {NoPtr}
      ELSE {[valid |-> TRUE, inport |-> ProbedPort(r, p, x[1]),
             vcid |-> ProbedVc(r, p, x[1], x[2])] : x \in First(hits)}

\* InputUnit::makeSwapPtrValid for a flit f of inport i.
makeSwapPtrValid(r, p, i, f) ==
  IF p.valid \/ IsLocal(InPorts[r][i]) \/ IsLocal(f.out) THEN p
  ELSE [valid |-> TRUE, inport |-> i, vcid |-> f.vc]

\* Router::wakeup looks for a flit in the first VC of each vnet and stops at
\* the first one it finds, whether or not that flit makes the pointer valid.
Bases(r, buf) ==
  {x \in (0 .. NumIn(r) - 1) \X (0 .. NumVnets - 1) :
     /\ ~IsLocal(InPorts[r][x[1]])
     /\ buf[InPorts[r][x[1]]][x[2] * VcsPerVnet] # <<>>}

scanBases(r, p, buf) ==
  IF p.valid \/ Bases(r, buf) = {} THEN {p}
  ELSE {makeSwapPtrValid(r, p, x[1], Head(buf[InPorts[r][x[1]]][x[2] * VcsPerVnet])) :
          x \in First(Bases(r, buf))}

\* get_numFreeVC counts vnet 0 only.
VacantVcs(c) == {v \in 0 .. VcsPerVnet - 1 : vcs[c][v] = <<>>}
get_numFreeVC(c) == Cardinality(VacantVcs(c))
FreeVcs(r) == [o \in Out(r) |-> VacantVcs(o)]
Routes(r, f) == OutportCompute(r, PktDst[f.pkt], FreeVcs(r))

outportNotLocal(r, p) ==
  /\ OccupancySwap > 0 =>
       (VcsPerVnet - get_numFreeVC(PtrVc(r, p))) * 100 >= OccupancySwap * VcsPerVnet
  /\ vcs[PtrVc(r, p)][p.vcid] # <<>>
  /\ ~IsLocal(Head(vcs[PtrVc(r, p)][p.vcid]).out)

-----------------------------------------------------------------------------
(***************************************************************************)
(* Router::wakeup(), first part: the pointer is made valid if possible,    *)
(* and on the router's turn a valid pointer makes it try a swap and then   *)
(* moves on.  turn is the result of is_myTurn().                           *)
(***************************************************************************)
Idle == active = NoRouter /\ ~aborted

HasWork_buffered(r) ==
  \/ \E c \in In(r)  : \E v \in VCs : vcs[c][v] # <<>>
  \/ \E c \in Out(r) : credlink[c] # <<>>

\* What schedules a router: a flit or a credit on a link, or a waiting flit.
HasWork(r) ==
  \/ \E c \in In(r)  : link[c] # <<>> \/ \E v \in VCs : vcs[c][v] # <<>>
  \/ \E c \in Out(r) : credlink[c] # <<>>

BeginWakeup(r) ==
  /\ Idle
  /\ HasWork(r)
  /\ active' = r
  /\ stage' = "units"
  /\ UNCHANGED <<port, winner, upVars, link, vcstate, credq, credlink, niVars>>

ValidatedPtr(r) ==
  IF Interswap THEN scanBases(r, swap_ptr[r], vcs) ELSE {swap_ptr[r]}

\* Not this router's turn, or there is nothing to swap.
wakeup_noSwap(r, turn) ==
  /\ BeginWakeup(r)
  /\ \E p \in ValidatedPtr(r) :
       /\ turn => ~Interswap \/ ~p.valid
       /\ swap_ptr' = [swap_ptr EXCEPT ![r] = p]
  /\ UNCHANGED <<vcs, is_swap, aborted>>

\* The pointed VC may not start a swap; the pointer moves on.
wakeup_declined(r) ==
  /\ Interswap
  /\ BeginWakeup(r)
  /\ \E p \in ValidatedPtr(r) :
       /\ p.valid
       /\ ~outportNotLocal(r, p)
       /\ \E q \in movSwapPtr(r, p, vcs) : swap_ptr' = [swap_ptr EXCEPT ![r] = q]
  /\ UNCHANGED <<vcs, is_swap, aborted>>

\* The effective body of chk_deadlck_symptm is cycle % 1000 = 0.
chk_deadlck_symptm(r) == IF ~NoIsSwap /\ r \in BailoutRouters THEN BOOLEAN ELSE {FALSE}

\* bail_out asserts that every VC of vnet 0 behind link o is occupied, then
\* clears is_swap and routedSwap in the two routers.
BailoutAssert(o) == \A v \in 0 .. VcsPerVnet - 1 : vcs[o][v] # <<>>
OnTop(f, s) == <<f>> \o Tail(s)
ClearRouted(R) ==
  [c \in Channels |-> [v \in VCs |->
     IF Dst[c] \in R /\ v < VcsPerVnet /\ vcs[c][v] # <<>>
     THEN OnTop([Head(vcs[c][v]) EXCEPT !.routed = FALSE], vcs[c][v])
     ELSE vcs[c][v]]]
ClearIsSwap_skipped(R) == is_swap
ClearIsSwap(R) == [r \in Routers |-> is_swap[r] /\ r \notin R]

downstreamFlit_ejecting(o, v, buf, sw) ==
  /\ swap_ptr[Dst[o]].valid
  /\ NoIsSwap \/ ~sw[Dst[o]]
  /\ buf[o][v] # <<>>

downstreamFlit_needsIsSwap(o, v, buf, sw) ==
  /\ ~NoIsSwap /\ ~sw[Dst[o]]
  /\ downstreamFlit_ejecting(o, v, buf, sw)
  /\ ~IsLocal(Head(buf[o][v]).out)

\* GarnetNetwork::doSwap and Router::doSwap: the downstream router gives the
\* flit in the same VC, unless that flit is about to be ejected.
downstreamFlit(o, v, buf, sw) ==
  /\ swap_ptr[Dst[o]].valid
  /\ NoIsSwap \/ ~sw[Dst[o]]
  /\ buf[o][v] # <<>>
  /\ ~IsLocal(Head(buf[o][v]).out)

doSwap_enqueue_notRouted(f, v, out, s) == OnTop([f EXCEPT !.vc = v], s)

\* doSwap_enqueue: the flit is routed again and put on top of VC v.
doSwap_enqueue(f, v, out, s) == OnTop([f EXCEPT !.out = out, !.vc = v], s)

exchange_lost(r, c, v, buf, sw) ==
  \E out0 \in Routes(Dst[Head(buf[c][v]).out], Head(buf[c][v])) :
    /\ vcs' = [buf EXCEPT
         ![Head(buf[c][v]).out][v] = doSwap_enqueue(Head(buf[c][v]), v, out0, @),
         ![c][v] = Tail(@)]
    /\ is_swap' = sw

exchange_copied(r, c, v, buf, sw) ==
  \E out0 \in Routes(Dst[Head(buf[c][v]).out], Head(buf[c][v])) :
    /\ vcs' = [buf EXCEPT
         ![Head(buf[c][v]).out][v] = doSwap_enqueue(Head(buf[c][v]), v, out0, @)]
    /\ is_swap' = sw

exchange_unmarked(r, c, v, buf, sw) ==
  LET f0 == Head(buf[c][v])
      f1 == Head(buf[f0.out][v])
  IN  \E out0 \in Routes(Dst[f0.out], f0), out1 \in Routes(r, f1) :
        /\ vcs' = [buf EXCEPT
             ![f0.out][v] = doSwap_enqueue([f0 EXCEPT !.routed = TRUE], v, out0, @),
             ![c][v] = doSwap_enqueue(f1, v, out1, @)]
        /\ is_swap' = [sw EXCEPT ![r] = @ /\ ~f0.routed]

\* Exchange the flit f0 of VC <<c, v>> of router r with the downstream flit.
exchange(r, c, v, buf, sw) ==
  LET f0 == Head(buf[c][v])
      o  == f0.out
      f1 == Head(buf[o][v])
  IN  \E out0 \in Routes(Dst[o], f0), out1 \in Routes(r, f1) :
        /\ vcs' = [buf EXCEPT
             ![o][v] = doSwap_enqueue([f0 EXCEPT !.routed = TRUE], v, out0, @),
             ![c][v] = doSwap_enqueue(f1, v, out1, @)]
        /\ is_swap' = [sw EXCEPT ![Dst[o]] = @ \/ ~NoIsSwap,
                                 ![r] = @ /\ ~f0.routed]

\* A swap is tried, after the bail-out if the cycle asks for it.  If the assert
\* of bail_out fails the simulator stops in the middle of the handler.
wakeup_swap(r) ==
  /\ Interswap
  /\ BeginWakeup(r)
  /\ \E p \in ValidatedPtr(r), chk \in chk_deadlck_symptm(r) :
       LET c   == PtrVc(r, p)
           o   == Head(vcs[c][p.vcid]).out
           buf == IF chk THEN ClearRouted({r, Dst[o]}) ELSE vcs
           sw  == IF chk THEN ClearIsSwap({r, Dst[o]}) ELSE is_swap
       IN  /\ p.valid
           /\ outportNotLocal(r, p)
           /\ IF chk /\ ~BailoutAssert(o)
              THEN /\ aborted' = TRUE
                   /\ swap_ptr' = [swap_ptr EXCEPT ![r] = p]
                   /\ UNCHANGED <<vcs, is_swap>>
              ELSE /\ IF downstreamFlit(o, p.vcid, buf, sw)
                      THEN exchange(r, c, p.vcid, buf, sw)
                      ELSE vcs' = buf /\ is_swap' = sw
                   /\ \E q \in movSwapPtr(r, p, vcs') : swap_ptr' = [swap_ptr EXCEPT ![r] = q]
                   /\ UNCHANGED aborted

-----------------------------------------------------------------------------
(***************************************************************************)
(* Router::wakeup(), second part: the input units, then the output units.  *)
(* Each consumes at most one item from its link, and they share nothing    *)
(* but the swap pointer, which the first eligible inport takes.            *)
(***************************************************************************)
Arrivals(r) == {c \in In(r) : link[c] # <<>>}
RoutedHead(c, out) == [Head(link[c]) EXCEPT !.out = out]

\* The pointer after makeSwapPtrValid for each arrival in inport order.
PtrAfterArrivals(r, rt) ==
  LET eligible == {i \in 0 .. NumIn(r) - 1 :
                     /\ InPorts[r][i] \in Arrivals(r)
                     /\ ~IsLocal(InPorts[r][i])
                     /\ ~IsLocal(rt[InPorts[r][i]])}
  IN  IF swap_ptr[r].valid \/ eligible = {} THEN {swap_ptr[r]}
      ELSE {makeSwapPtrValid(r, swap_ptr[r], i,
              RoutedHead(InPorts[r][i], rt[InPorts[r][i]])) :
              i \in {j \in eligible : \A k \in eligible : j <= k}}

InputUnit_wakeup(r) ==
  \E rt \in [Arrivals(r) -> Out(r)] :
    /\ \A c \in Arrivals(r) : rt[c] \in Routes(r, Head(link[c]))
    /\ link' = [c \in Channels |->
         IF c \in Arrivals(r) THEN Tail(link[c]) ELSE link[c]]
    /\ vcstate' = [c \in Channels |->
         IF c \in Arrivals(r)
         THEN [vcstate[c] EXCEPT ![Head(link[c]).vc] = "ACTIVE"] ELSE vcstate[c]]
    /\ vcs' = [c \in Channels |->
         IF c \in Arrivals(r)
         THEN [vcs[c] EXCEPT ![Head(link[c]).vc] = Append(@, RoutedHead(c, rt[c]))]
         ELSE vcs[c]]
    /\ \E q \in PtrAfterArrivals(r, rt) : swap_ptr' = [swap_ptr EXCEPT ![r] = q]

CreditedVc_notCounted(o, k) == [o EXCEPT !.state = IF k.free THEN "IDLE" ELSE @]
CreditedVc_notFreed(o, k) == [o EXCEPT !.credit = @ + 1]

\* increment_credit, and the VC is idle again if the credit says so.
CreditedVc(o, k) ==
  [state |-> IF k.free THEN "IDLE" ELSE o.state, credit |-> o.credit + 1]

OutputUnit_wakeup(r) ==
  LET credited == {c \in Out(r) : credlink[c] # <<>>}
  IN  /\ outvc' = [c \in Channels |->
           IF c \in credited
           THEN [outvc[c] EXCEPT ![Head(credlink[c]).vc] = CreditedVc(@, Head(credlink[c]))]
           ELSE outvc[c]]
      /\ credlink' = [c \in Channels |->
           IF c \in credited THEN Tail(credlink[c]) ELSE credlink[c]]

Units(r) ==
  /\ active = r /\ stage = "units" /\ ~aborted
  /\ InputUnit_wakeup(r)
  /\ OutputUnit_wakeup(r)
  /\ stage' = "sa1"
  /\ UNCHANGED <<active, port, winner, outq, credq, is_swap, niVars, aborted>>

-----------------------------------------------------------------------------
(***************************************************************************)
(* Router::wakeup(), last part: switch allocation and traversal.  Which    *)
(* requester the round robin pointers favour is left open.                 *)
(***************************************************************************)
IdleVcs_anyVnet(o, vnet) == {w \in VCs : outvc[o][w].state = "IDLE"}

IdleVcs(o, vnet) == {w \in VCs : VnetOf(w) = vnet /\ outvc[o][w].state = "IDLE"}

send_allowed(c, v) ==
  vcs[c][v] # <<>> /\ IdleVcs(Head(vcs[c][v]).out, VnetOf(v)) # {}

\* SA-I: every inport with a sendable flit requests with one of them.
arbitrate_inports(r) ==
  /\ active = r /\ stage = "sa1"
  /\ \E w \in [In(r) -> VCs \cup {-1}] :
       /\ \A c \in In(r) : IF \E v \in VCs : send_allowed(c, v)
                           THEN w[c] # -1 /\ send_allowed(c, w[c])
                           ELSE w[c] = -1
       /\ winner' = [c \in Channels |-> IF c \in In(r) THEN w[c] ELSE winner[c]]
  /\ stage' = "sa2"
  /\ port' = 0
  /\ UNCHANGED <<active, upVars, link, downVars, credlink, swapVars, niVars, aborted>>

Requesters(r, k) ==
  {c \in In(r) : winner[c] # -1 /\ Head(vcs[c][winner[c]]).out = OutPorts[r][k]}

select_free_vc_beyond(o, vnet) == {w + 1 : w \in IdleVcs(o, vnet)}

select_free_vc(o, vnet) == {w \in IdleVcs(o, vnet) : \A x \in IdleVcs(o, vnet) : w <= x}

PtrAfterDeparture_stays(r, c, v, buf) == {swap_ptr[r]}

\* The pointer after the flit of VC <<c, v>> has left through the switch.
PtrAfterDeparture(r, c, v, buf) ==
  LET p == swap_ptr[r]
  IN  IF Interswap /\ p.inport \in DOMAIN InPorts[r] /\ PtrVc(r, p) = c /\ p.vcid = v
      THEN movSwapPtr(r, p, buf) ELSE {p}

set_idle_skipped(c, v) == vcstate

\* set_vc_idle of the input VC a flit has left.
set_idle(c, v) == [vcstate EXCEPT ![c][v] = "IDLE"]

\* The flit as it leaves: it takes its VC downstream, and the mark of a swap
\* is cleared with the bit of its router.
Departing(f, w) == [f EXCEPT !.vc = w, !.routed = @ /\ ~Interswap]
IsSwapAfterDeparture(r, f) == [is_swap EXCEPT ![r] = @ /\ ~(Interswap /\ f.routed)]

\* Inport c wins outport o: the flit of its winning VC v leaves, takes VC w
\* downstream and crosses the switch, and a credit goes back.
Grant(r, c, v, o, w) ==
  /\ vcs' = [vcs EXCEPT ![c][v] = Tail(@)]
  /\ vcstate' = set_idle(c, v)
  /\ credq' = [credq EXCEPT ![c] = Append(@, [vc |-> v, free |-> TRUE])]
  /\ outvc' = [outvc EXCEPT ![o][w] = [state |-> "ACTIVE", credit |-> @.credit - 1]]
  /\ outq' = [outq EXCEPT ![o] = Append(@, Departing(Head(vcs[c][v]), w))]
  /\ is_swap' = IsSwapAfterDeparture(r, Head(vcs[c][v]))
  /\ \E q \in PtrAfterDeparture(r, c, v, vcs') : swap_ptr' = [swap_ptr EXCEPT ![r] = q]
  /\ winner' = [winner EXCEPT ![c] = -1]

\* SA-II for the next requested outport k.
arbitrate_outports(r, k) ==
  /\ active = r /\ stage = "sa2"
  /\ k >= port
  /\ \A j \in port .. k - 1 : Requesters(r, j) = {}
  /\ \E c \in Requesters(r, k) :
       \E w \in select_free_vc(OutPorts[r][k], VnetOf(winner[c])) :
         Grant(r, c, winner[c], OutPorts[r][k], w)
  /\ port' = k + 1
  /\ UNCHANGED <<active, stage, link, credlink, niVars, aborted>>

\* No outport is left; the requests are cleared and the handler returns.
clear_request_vector(r) ==
  /\ active = r /\ stage = "sa2"
  /\ \A j \in port .. NumOut(r) - 1 : Requesters(r, j) = {}
  /\ winner' = [c \in Channels |-> IF c \in In(r) THEN -1 ELSE winner[c]]
  /\ active' = NoRouter
  /\ stage' = "idle"
  /\ port' = 0
  /\ UNCHANGED <<upVars, link, downVars, credlink, swapVars, niVars, aborted>>

-----------------------------------------------------------------------------
(***************************************************************************)
(* The links.  NetworkLink::wakeup takes one flit from the source queue    *)
(* into the link buffer, from where the consumer takes it; a CreditLink is *)
(* a NetworkLink that runs backwards.  Any set of links may move at once.  *)
(***************************************************************************)
Moved(src, dst, S) == [c \in Channels |-> IF c \in S THEN Append(dst[c], Head(src[c])) ELSE dst[c]]
Popped(src, S) == [c \in Channels |-> IF c \in S THEN Tail(src[c]) ELSE src[c]]

NetworkLink_wakeup(S, T) ==
  /\ Idle
  /\ S \cup T # {}
  /\ \A c \in S : outq[c] # <<>>
  /\ \A c \in T : credq[c] # <<>>
  /\ link' = Moved(outq, link, S)
  /\ outq' = Popped(outq, S)
  /\ credlink' = Moved(credq, credlink, T)
  /\ credq' = Popped(credq, T)
  /\ UNCHANGED <<outvc, vcstate, vcs, swapVars, runVars, niVars, aborted>>

-----------------------------------------------------------------------------
(***************************************************************************)
(* The network interfaces, reduced to what the network sees of them.       *)
(***************************************************************************)
InjVnet(p) == IF InjSingleVnet THEN 0 ELSE PktVnet[p]

\* flitisizeMessage, calculateVC and scheduleOutputLink: a packet of one
\* flit takes an idle VC of the injection link.
NI_send(n) ==
  /\ Idle
  /\ \E p \in pending, c \in Out(n) : \E v \in IdleVcs(c, InjVnet(p)) :
       /\ PktSrc[p] = n
       /\ pending' = pending \ {p}
       /\ outvc' = [outvc EXCEPT ![c][v] = [state |-> "ACTIVE", credit |-> @.credit - 1]]
       /\ outq' = [outq EXCEPT ![c] =
            Append(@, [pkt |-> p, vc |-> v, out |-> NoLink, routed |-> FALSE])]
  /\ UNCHANGED <<link, downVars, credlink, swapVars, runVars, stalled, delivered, aborted>>

\* A flit is handed to the protocol, and a credit that frees its VC sent.
Deliver(c, f) ==
  /\ delivered' = delivered \cup {f.pkt}
  /\ credq' = [credq EXCEPT ![c] = Append(@, [vc |-> f.vc, free |-> TRUE])]

NI_receive(n) ==
  /\ Idle
  /\ \E c \in In(n) :
       /\ link[c] # <<>>
       /\ link' = [link EXCEPT ![c] = Tail(@)]
       /\ Deliver(c, Head(link[c]))
  /\ UNCHANGED <<upVars, vcstate, vcs, credlink, swapVars, runVars, stalled, pending, aborted>>

NI_stall_credited(n) ==
  /\ Idle
  /\ \E c \in In(n) :
       /\ link[c] # <<>>
       /\ link' = [link EXCEPT ![c] = Tail(@)]
       /\ stalled' = [stalled EXCEPT ![n] = @ \cup {Head(link[c])}]
       /\ credq' = [credq EXCEPT ![c] = Append(@, [vc |-> Head(link[c]).vc, free |-> TRUE])]
  /\ UNCHANGED <<upVars, vcstate, vcs, credlink, swapVars, runVars, pending, delivered, aborted>>

\* The protocol buffer has no room: the flit waits in m_stall_queue.
NI_stall(n) ==
  /\ Idle
  /\ \E c \in In(n) :
       /\ link[c] # <<>>
       /\ link' = [link EXCEPT ![c] = Tail(@)]
       /\ stalled' = [stalled EXCEPT ![n] = @ \cup {Head(link[c])}]
  /\ UNCHANGED <<upVars, downVars, credlink, swapVars, runVars, pending, delivered, aborted>>

checkStallQueue(n) ==
  /\ Idle
  /\ \E c \in In(n), f \in stalled[n] :
       /\ stalled' = [stalled EXCEPT ![n] = @ \ {f}]
       /\ Deliver(c, f)
  /\ UNCHANGED <<upVars, link, vcstate, vcs, credlink, swapVars, runVars, pending, aborted>>

NI_credit(n) ==
  /\ Idle
  /\ \E c \in Out(n) :
       /\ credlink[c] # <<>>
       /\ credlink' = [credlink EXCEPT ![c] = Tail(@)]
       /\ outvc' = [outvc EXCEPT ![c][Head(credlink[c]).vc] = CreditedVc(@, Head(credlink[c]))]
  /\ UNCHANGED <<outq, link, downVars, swapVars, runVars, niVars, aborted>>

-----------------------------------------------------------------------------
RouterNext(r) ==
  \/ \E turn \in BOOLEAN : wakeup_noSwap(r, turn)
  \/ wakeup_declined(r)
  \/ wakeup_swap(r)
  \/ Units(r)
  \/ arbitrate_inports(r)
  \/ \E k \in 0 .. NumOut(r) - 1 : arbitrate_outports(r, k)
  \/ clear_request_vector(r)

LinkNext ==
  \E S \in SUBSET {c \in Channels : outq[c] # <<>>},
     T \in SUBSET {c \in Channels : credq[c] # <<>>} : NetworkLink_wakeup(S, T)

NodeNext(n) == NI_send(n) \/ NI_receive(n) \/ NI_stall(n) \/ checkStallQueue(n) \/ NI_credit(n)

Next == (\E r \in Routers : RouterNext(r)) \/ LinkNext \/ (\E n \in Nodes : NodeNext(n))

Spec == Init /\ [][Next]_vars

-----------------------------------------------------------------------------
(***************************************************************************)
(* Properties                                                              *)
(***************************************************************************)

\* Every variable has its type.
TypeOK ==
  /\ outvc \in [Channels -> [VCs -> [state : {"IDLE", "ACTIVE"}, credit : Int]]]
  /\ outq \in [Channels -> Seq(Flit)]
  /\ link \in [Channels -> Seq(Flit)]
  /\ vcstate \in [Channels -> [VCs -> {"IDLE", "ACTIVE"}]]
  /\ vcs \in [Channels -> [VCs -> Seq(Flit)]]
  /\ credq \in [Channels -> Seq(Credit)]
  /\ credlink \in [Channels -> Seq(Credit)]
  /\ swap_ptr \in [Routers -> SwapPtr]
  /\ is_swap \in [Routers -> BOOLEAN]
  /\ winner \in [Channels -> VCs \cup {-1}]
  /\ active \in Routers \cup {NoRouter}
  /\ stage \in {"idle", "units", "sa1", "sa2"}
  /\ port \in Nat
  /\ stalled \in [Nodes -> SUBSET Flit]
  /\ pending \subseteq Packets
  /\ delivered \subseteq Packets
  /\ aborted \in BOOLEAN

\* The flits of link c in the m_stall_queue of its interface.
Stalled(c) == IF Dst[c] \in Nodes THEN stalled[Dst[c]] ELSE {}

\* Where the right to use VC v of link c can be.
Holders == {"idle", "outq", "link", "vc", "stalled", "credq", "credlink"}
InSeq(s, v) == \E i \in DOMAIN s : s[i].vc = v
Holds(h, c, v) ==
  CASE h = "idle"     -> outvc[c][v].state = "IDLE"
    [] h = "outq"     -> InSeq(outq[c], v)
    [] h = "link"     -> InSeq(link[c], v)
    [] h = "vc"       -> vcs[c][v] # <<>>
    [] h = "stalled"  -> Dst[c] \in Nodes /\ \E f \in stalled[Dst[c]] : f.vc = v
    [] h = "credq"    -> InSeq(credq[c], v)
    [] h = "credlink" -> InSeq(credlink[c], v)
DistinctVcs(s) == \A i, j \in DOMAIN s : s[i].vc = s[j].vc => i = j

\* Every VC of every link is in exactly one hand: free at the upstream router,
\* or its only flit is on the way, buffered or stalled, or its credit is on
\* the way back.  Swaps, which move flits past the credit protocol, keep this.
VcExclusive ==
  \A c \in Channels :
    /\ \A v \in VCs : LET hands == {h \in Holders : Holds(h, c, v)}
                      IN  \E h \in Holders : hands = {h}
    /\ \A v \in VCs : Len(vcs[c][v]) <= 1
    /\ DistinctVcs(outq[c]) /\ DistinctVcs(link[c])
    /\ DistinctVcs(credq[c]) /\ DistinctVcs(credlink[c])
    /\ Dst[c] \in Nodes => \A f, g \in stalled[Dst[c]] : f.vc = g.vc => f = g

\* assert(m_vcs[vc]->get_state() == IDLE_) in InputUnit::wakeup: a flit on a
\* link always finds the VC its sender chose idle, swaps notwithstanding.
ArrivalFindsIdleVc ==
  \A c \in Channels : \A i \in DOMAIN link[c] :
    Dst[c] \in Routers => vcstate[c][link[c][i].vc] = "IDLE"

\* The asserts of OutVcState: a credit count stays within 0 .. MaxCredit, and
\* it is full exactly when the VC is idle.
CreditsMatchState ==
  \A c \in Channels, v \in VCs :
    outvc[c][v].credit = IF outvc[c][v].state = "IDLE" THEN MaxCredit ELSE MaxCredit - 1

\* The places that hold a flit, with the packet they hold.
Sites ==
  (UNION {{<<"outq", c, i, outq[c][i].pkt>> : i \in DOMAIN outq[c]} : c \in Channels}) \cup
  (UNION {{<<"link", c, i, link[c][i].pkt>> : i \in DOMAIN link[c]} : c \in Channels}) \cup
  (UNION {{<<"vc", c, <<v, i>>, vcs[c][v][i].pkt>> : i \in DOMAIN vcs[c][v]} : c \in Channels, v \in VCs}) \cup
  (UNION {{<<"stalled", n, f, f.pkt>> : f \in stalled[n]} : n \in Nodes})

\* No packet is lost or duplicated: it waits at its source, is one flit
\* somewhere in the network, or has been delivered.
PacketConserved ==
  LET S == Sites
  IN  /\ pending \cap delivered = {}
      /\ \A p \in Packets :
           Cardinality({s \in S : s[4] = p}) =
             IF p \in pending \cup delivered THEN 0 ELSE 1

\* The asserts of movSwapPtr and Router::wakeup: a valid pointer points to an
\* occupied VC, of a non-local inport when local swaps are off, whatever
\* arrived, left or was swapped meanwhile; an invalid one is -1, -1.
PointsToFlit(r, p, buf) ==
  IF p.valid
  THEN /\ p.inport \in 0 .. NumIn(r) - 1
       /\ p.vcid \in VCs
       /\ ~Skipped(r, p.inport)
       /\ buf[PtrVc(r, p)][p.vcid] # <<>>
  ELSE p = NoPtr
SwapPtrPointsToFlit ==
  Interswap => \A r \in Routers : PointsToFlit(r, swap_ptr[r], vcs)

\* assert(vcid == flit_t->get_vc()) in doSwap, and the sanity checks on
\* outports: a buffered flit names the VC and an outport of the router it is
\* in, and goes to a local port only at its destination.
InPlace(f, c, v) ==
  /\ f.vc = v
  /\ Dst[c] \in Routers
  /\ f.out \in Out(Dst[c])
  /\ IsLocal(f.out) => Dst[f.out] = PktDst[f.pkt]
FlitMatchesPlace ==
  \A c \in Channels, v \in VCs : \A i \in DOMAIN vcs[c][v] : InPlace(vcs[c][v][i], c, v)

\* vcid / m_vc_per_vnet is the vnet throughout: whatever VCs a packet passes
\* or is swapped into, it stays in the virtual network it was injected on.
InVnet(f) == VnetOf(f.vc) = InjVnet(f.pkt)
FlitKeepsVnet ==
  \A c \in Channels :
    /\ \A i \in DOMAIN outq[c] : InVnet(outq[c][i])
    /\ \A i \in DOMAIN link[c] : InVnet(link[c][i])
    /\ \A v \in VCs : \A i \in DOMAIN vcs[c][v] : InVnet(vcs[c][v][i])

\* The asserts on is_swap: with is_swap in use, the bit is set exactly when
\* the router holds a flit with routedSwap set, and it holds at most one.
RoutedIn(r) ==
  {x \in In(r) \X VCs : vcs[x[1]][x[2]] # <<>> /\ Head(vcs[x[1]][x[2]]).routed}
IsSwapMatchesRouted ==
  ~NoIsSwap => \A r \in Routers :
    /\ is_swap[r] <=> RoutedIn(r) # {}
    /\ \A x, y \in RoutedIn(r) : x = y

\* "do not return the flit whoes outport is Local" (Router::doSwap): a flit
\* that has reached its destination router leaves its VC only to be ejected.
ArrivedFlitIsEjected ==
  [][\A c \in Channels, v \in VCs :
       vcs[c][v] # <<>> /\ IsLocal(Head(vcs[c][v]).out) =>
         \/ vcs'[c][v] # <<>> /\ Head(vcs'[c][v]).pkt = Head(vcs[c][v]).pkt
         \/ \E o \in Out(Dst[c]) : Dst[o] = PktDst[Head(vcs[c][v]).pkt]
              /\ outq'[o] # outq[o]]_vars

\* bail_out (GarnetNetwork.cc:621-623): when it is called, all VCs of the
\* downstream inport are occupied.
BailoutFindsFullInport == ~aborted

\* movSwapPtr reports "no non-vacant inport present in the current router"
\* when it invalidates the pointer.
PtrOffOnlyWhenVacant ==
  [][\A r \in Routers : swap_ptr[r].valid /\ ~swap_ptr'[r].valid =>
       \A c \in In(r), v \in VCs : IsLocal(c) \/ vcs'[c][v] = <<>>]_vars

=============================================================================
