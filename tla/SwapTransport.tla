---------------------------- MODULE SwapTransport ----------------------------
(***************************************************************************)
(* SwapNetwork as an implementation of PacketTransport.  The slot <<c, v>> *)
(* holds the packet whose flit has VC v of link c: it is in the out-queue  *)
(* of the link or on it with that VC in its header, in the VC's buffer, or *)
(* at the interface in m_stall_queue.                                      *)
(***************************************************************************)
EXTENDS SwapNetwork

PktIn(s, v, p) == \E i \in DOMAIN s : s[i].vc = v /\ s[i].pkt = p
PktBuffered(s, p) == \E i \in DOMAIN s : s[i].pkt = p
PktStalled(st, v, p) == \E f \in st : f.vc = v /\ f.pkt = p

\* The channel with out-queue oq, link buffer lk, input VCs vc and stalled
\* flits st carries packet p in VC v.
CarriesIn(oq, lk, vc, st, v, p) ==
  PktIn(oq, v, p) \/ PktIn(lk, v, p) \/ PktBuffered(vc[v], p) \/ PktStalled(st, v, p)
Carries(c, v, p) == CarriesIn(outq[c], link[c], vcs[c], Stalled(c), v, p)

Slots == Channels \X VCs
holds == [s \in Slots |-> {p \in Packets : Carries(s[1], s[2], p)}]

\* From the input unit of a router to one of its outports.
Hops == {x \in Slots \X Slots : Dst[x[1][1]] \in Routers /\ Dst[x[1][1]] = Src[x[2][1]]}

\* A packet keeps its virtual network, and comes to no interface but its own.
Lane == [p \in Packets |-> {s \in Slots : /\ VnetOf(s[2]) = InjVnet(p)
                                          /\ Dst[s[1]] \in Nodes => Dst[s[1]] = PktDst[p]}]
Entry == [p \in Packets |-> {s \in Slots : Src[s[1]] = PktSrc[p]}]
Exit  == [p \in Packets |-> {s \in Slots : Dst[s[1]] = PktDst[p]}]

Transport == INSTANCE PacketTransport

\* Whatever routers, links, interfaces and swaps do, packets are transported:
\* each handler is one step of PacketTransport or invisible to it.  So a swap
\* moves two packets in opposite directions between VCs of the same number,
\* one flit that leaves the switch appears in one free VC one hop on, and a
\* packet is handed to the interface it was sent to and to no other.
TransportsPackets == Transport!TSpec

=============================================================================
