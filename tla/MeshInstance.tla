---------------------------- MODULE MeshInstance -----------------------------
(***************************************************************************)
(* Values for the topology constants of SwapNetwork: the mesh of           *)
(* Mesh_XY.py with one network interface per router.  Interface i, at      *)
(* router i, has the number N + i where N is the number of routers, and a  *)
(* channel is the pair of its ends.                                        *)
(***************************************************************************)
EXTENDS MeshRouting, Sequences, FiniteSets

CONSTANTS Algorithm

NumRouters == NumRows * NumCols
MeshNodes == NumRouters .. 2 * NumRouters - 1
NodeOf(r) == r + NumRouters
RouterOf(n) == n - NumRouters

MeshChannels ==
  {<<l.src, l.dst>> : l \in MeshLinks} \cup
  {<<r, NodeOf(r)>> : r \in MeshRouters} \cup {<<NodeOf(r), r>> : r \in MeshRouters}
MeshSrc == [c \in MeshChannels |-> c[1]]
MeshDst == [c \in MeshChannels |-> c[2]]

\* Topology::createLinks adds the links of the interfaces before those of
\* the mesh, and the latter by the number of the router at the other end.
PortRank(x) == IF x \in MeshNodes THEN -1 ELSE x
Ports(S, End(_)) ==
  [i \in 0 .. Cardinality(S) - 1 |->
     CHOOSE c \in S : Cardinality({d \in S : PortRank(End(d)) < PortRank(End(c))}) = i]
MeshInPorts ==
  LET End(c) == c[1]
  IN  [r \in MeshRouters |-> Ports({c \in MeshChannels : c[2] = r}, End)]
MeshOutPorts ==
  LET End(c) == c[2]
  IN  [r \in MeshRouters |-> Ports({c \in MeshChannels : c[1] = r}, End)]

MeshDirs == [r \in MeshRouters |-> {l.outport : l \in {m \in MeshLinks : m.src = r}}]
MeshOutportCompute(r, n, free) ==
  LET freeOf == [d \in MeshDirs[r] |-> Cardinality(free[<<r, get_downstreamId(d, r)>>])]
  IN  IF RouterOf(n) = r THEN {<<r, n>>}
      ELSE {<<r, get_downstreamId(d, r)>> : d \in outportCompute(Algorithm, r, RouterOf(n), freeOf)}

\* TLC evaluates a definition that a .cfg substitutes for a constant again at
\* every use, but keeps the value of a definition that one refers to.
MCRouters == MeshRouters
MCNodes == MeshNodes
MCChannels == MeshChannels
MCSrc == MeshSrc
MCDst == MeshDst
MCInPorts == MeshInPorts
MCOutPorts == MeshOutPorts

\* Hops left for a flit in router r that goes to interface n.
Distance(r, n) == XHops(r, RouterOf(n)) + YHops(r, RouterOf(n))

=============================================================================
