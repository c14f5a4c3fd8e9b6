------------------------------ MODULE RouteWalk ------------------------------
(***************************************************************************)
(* Packets on their way through a mesh.  At each router                    *)
(* RoutingUnit::outportCompute picks the direction, for any number of free *)
(* VCs around, and the link takes the packet to the next router.           *)
(*                                                                         *)
(* A behaviour follows one packet through an empty network, or, when       *)
(* chained, a chain of packets through a full one without swaps: each      *)
(* holds the buffer behind a link and waits for the one behind the next    *)
(* link on its way, which the next packet of the chain holds.  A chain     *)
(* that comes back to its first link is one whose packets never move.      *)
(***************************************************************************)
EXTENDS MeshRouting

CONSTANTS MaxFree,   \* free VCs per inport, which the adaptive algorithms read
          Chained    \* the routing algorithms whose chains are followed

ASSUME RouteWalkAssumption == MaxFree \in Nat /\ Chained \subseteq Algorithms

VARIABLES
  algorithm,  \* the routing algorithm of the network
  chained,    \* a chain of packets is followed
  dest,       \* dest_router of the packet, the last of the chain
  at,         \* the router it is in
  link,       \* the link it came by; none before the first hop
  first,      \* the first link
  closed      \* a packet has come to wait for the first link

vars == <<algorithm, chained, dest, at, link, first, closed>>

NoMeshLink == [src |-> -1, outport |-> "Local", dst |-> -1, inport |-> "Local"]
Free == [Directions -> 0 .. MaxFree]

Init ==
  /\ algorithm \in Algorithms
  /\ chained \in {b \in BOOLEAN : b => algorithm \in Chained}
  /\ dest \in MeshRouters
  /\ at \in MeshRouters
  /\ link = NoMeshLink
  /\ first = NoMeshLink
  /\ closed = FALSE

Hop ==
  /\ at # dest /\ ~closed
  /\ \E free \in Free : \E d \in outportCompute(algorithm, at, dest, free) :
       /\ at' = get_downstreamId(d, at)
       /\ link' = MeshLink(at, d, at', get_downstreamDirn(d))
  /\ first' = IF first = NoMeshLink THEN link' ELSE first
  /\ closed' = (chained /\ link' = first)
  /\ UNCHANGED <<algorithm, chained, dest>>

\* The buffer behind the link is held by another packet, with a destination
\* that may have taken it there.
NextInChain ==
  /\ chained /\ link # NoMeshLink /\ ~closed
  /\ \E other \in MeshRouters \ {dest, link.src} :
       /\ \E free \in Free : link.outport \in outportCompute(algorithm, link.src, other, free)
       /\ dest' = other
  /\ UNCHANGED <<algorithm, chained, at, link, first, closed>>

Arrived == at = dest /\ UNCHANGED vars

Next == Hop \/ NextInChain \/ Arrived

\* A packet in an empty network is always granted the switch.
Spec == Init /\ [][Next]_vars /\ WF_vars(Hop)

-----------------------------------------------------------------------------
\* m_outports_dirn2idx[outport_dirn] finds a port, and get_downstreamId and
\* get_downstreamDirn, which the swap relies on, name the router and the
\* inport at the other end of the link that Mesh_XY.py attached to it.
OutportLeadsDownstream == link # NoMeshLink => link \in MeshLinks

\* The hops left from router id to router dst.
Hops(id, dst) == XHops(id, dst) + YHops(id, dst)

\* Whatever the algorithm, the random numbers and the occupancy it reads, a
\* hop brings the packet one hop closer to its destination.
HopBringsCloser == [][at' # at => Hops(at', dest) = Hops(at, dest) - 1]_vars

\* Every routing algorithm brings the packet to its destination, whatever the
\* random numbers and the occupancy it reads on the way.
ReachesDestination == chained \/ <>(at = dest)

\* The table that Topology::createLinks computes by relaxation offers, in
\* every router and for every destination, exactly the directions that bring
\* the packet one hop closer: all of them, since Mesh_XY.py weighs its links
\* equally.
TableOffersEveryShortestHop ==
  at # dest => lookupRoutingTable(at, dest) = outportComputeRandom(at, dest)

\* "XY routing is enforced (using link weights) to guarantee deadlock freedom"
\* (Mesh_XY.py:38-39): no packets wait for each other in a cycle.
NoCyclicWait == ~closed

=============================================================================
