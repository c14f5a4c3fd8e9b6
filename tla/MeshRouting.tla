----------------------------- MODULE MeshRouting -----------------------------
(***************************************************************************)
(* The routing algorithms of RoutingUnit on the topology that Mesh_XY.py   *)
(* builds, and the functions of GarnetNetwork that find the router         *)
(* downstream of an output port.  Router ids count row by row from the     *)
(* south-west corner.                                                      *)
(*                                                                         *)
(* An algorithm is the set of directions it may return: one where it is    *)
(* deterministic, two where it draws a random number.  free gives the free *)
(* VCs of the inport behind each direction, which the adaptive algorithms  *)
(* read.                                                                   *)
(***************************************************************************)
EXTENDS Integers, FiniteSetsExt

CONSTANTS NumRows, NumCols

ASSUME MeshAssumption == NumRows \in Nat \ {0} /\ NumCols \in Nat \ {0}

MeshRouters == 0 .. NumRows * NumCols - 1
Directions == {"East", "West", "North", "South"}

XPos(id) == id % NumCols
YPos(id) == id \div NumCols
AbsDiff(a, b) == IF a >= b THEN a - b ELSE b - a
XHops(id, dest) == AbsDiff(XPos(id), XPos(dest))
YHops(id, dest) == AbsDiff(YPos(id), YPos(dest))

\* The links Mesh_XY.makeTopology creates.
MeshLink(src, outport, dst, inport) ==
  [src |-> src, outport |-> outport, dst |-> dst, inport |-> inport]
MeshLinks ==
  LET id(row, col) == col + row * NumCols
      Rows == 0 .. NumRows - 1
      Cols == 0 .. NumCols - 1
  IN  {MeshLink(id(row, col), "East", id(row, col + 1), "West") :
         row \in Rows, col \in 0 .. NumCols - 2} \cup
      {MeshLink(id(row, col + 1), "West", id(row, col), "East") :
         row \in Rows, col \in 0 .. NumCols - 2} \cup
      {MeshLink(id(row, col), "North", id(row + 1, col), "South") :
         row \in 0 .. NumRows - 2, col \in Cols} \cup
      {MeshLink(id(row + 1, col), "South", id(row, col), "North") :
         row \in 0 .. NumRows - 2, col \in Cols}

get_downstreamId_byRows(outport_dir, id) ==
  CASE outport_dir = "East"  -> id + 1
    [] outport_dir = "West"  -> id - 1
    [] outport_dir = "North" -> id + NumRows
    [] outport_dir = "South" -> id - NumRows

get_downstreamId(outport_dir, id) ==
  CASE outport_dir = "East"  -> id + 1
    [] outport_dir = "West"  -> id - 1
    [] outport_dir = "North" -> id + NumCols
    [] outport_dir = "South" -> id - NumCols

get_downstreamDirn(outport_dir) ==
  CASE outport_dir = "East"  -> "West"
    [] outport_dir = "West"  -> "East"
    [] outport_dir = "North" -> "South"
    [] outport_dir = "South" -> "North"

\* The direction along each axis, meaningful when there are hops along it.
XDir(id, dest) == IF XPos(dest) >= XPos(id) THEN "East" ELSE "West"
YDir(id, dest) == IF YPos(dest) >= YPos(id) THEN "North" ELSE "South"

outportComputeXY(id, dest) ==
  IF XHops(id, dest) > 0 THEN {XDir(id, dest)} ELSE {YDir(id, dest)}

outportComputeRandom_unproductive(id, dest) ==
  {l.outport : l \in {m \in MeshLinks : m.src = id}}

outportComputeRandom(id, dest) ==
  {d \in {XDir(id, dest)} : XHops(id, dest) > 0} \cup
  {d \in {YDir(id, dest)} : YHops(id, dest) > 0}

\* Of two directions the one with more free VCs, either if they are equal.
MoreFree(D, free) == {d \in D : \A e \in D : free[d] >= free[e]}

outportComputeAdaptRand_unproductive(id, dest, free) ==
  MoreFree({l.outport : l \in {m \in MeshLinks : m.src = id}}, free)

outportComputeAdaptRand(id, dest, free) ==
  MoreFree(outportComputeRandom(id, dest), free)

outportComputeWestFirst_westOptional(id, dest) == outportComputeRandom(id, dest)

outportComputeWestFirst(id, dest) ==
  IF "West" \in outportComputeRandom(id, dest) THEN {"West"}
  ELSE outportComputeRandom(id, dest)

outportComputeAdaptWestFirst(id, dest, free) ==
  MoreFree(outportComputeWestFirst(id, dest), free)

\* Mesh_XY.py gives every link weight 1.
LinkWeight(outport_dir) == 1

\* The weight matrix of Topology::createLinks, between the routers only: the
\* link of an interface adds the same to all paths that lead to it.
INFINITE_LATENCY == 10000
topology_weights ==
  LET between(i, j) == {l \in MeshLinks : l.src = i /\ l.dst = j}
      weight(i, j) == IF i = j THEN 0
                      ELSE IF between(i, j) = {} THEN INFINITE_LATENCY
                      ELSE Min({LinkWeight(l.outport) : l \in between(i, j)})
  IN  [i \in MeshRouters |-> [j \in MeshRouters |-> weight(i, j)]]

\* A pass over all entries.  The code updates the matrix in place, which
\* reaches the same fixed point in fewer passes.
RelaxAll(current_dist) ==
  LET minimum(i, j) == Min({current_dist[i][k] + current_dist[k][j] : k \in MeshRouters})
  IN  [i \in MeshRouters |-> [j \in MeshRouters |-> minimum(i, j)]]

\* The distances after n passes.
extend_shortest_path[n \in Nat] ==
  IF n = 0 THEN topology_weights ELSE RelaxAll(extend_shortest_path[n - 1])

shortest_path_unextended == topology_weights

\* The pass is repeated until nothing changes; as many passes as there are
\* routers are more than enough.
shortest_path ==
  LET change(n) == extend_shortest_path[n + 1] # extend_shortest_path[n]
  IN  extend_shortest_path[CHOOSE n \in 0 .. NumRows * NumCols : ~change(n)]

link_is_shortest_path_to_node(l, dest) ==
  topology_weights[l.src][l.dst] + shortest_path[l.dst][dest] = shortest_path[l.src][dest]

\* The links on a shortest path, of those the ones of least weight, and of
\* those any one.
lookupRoutingTable(id, dest) ==
  LET candidates == {l.outport : l \in {m \in MeshLinks : m.src = id /\ link_is_shortest_path_to_node(m, dest)}}
  IN  {d \in candidates : \A e \in candidates : LinkWeight(d) <= LinkWeight(e)}

Algorithms == {"TABLE", "XY", "RANDOM", "ADAPT_RAND", "WestFirst", "ADAPT_WestFirst"}

\* outportCompute for a destination other than the router itself.
outportCompute(algorithm, id, dest, free) ==
  CASE algorithm = "TABLE"           -> lookupRoutingTable(id, dest)
    [] algorithm = "XY"              -> outportComputeXY(id, dest)
    [] algorithm = "RANDOM"          -> outportComputeRandom(id, dest)
    [] algorithm = "ADAPT_RAND"      -> outportComputeAdaptRand(id, dest, free)
    [] algorithm = "WestFirst"       -> outportComputeWestFirst(id, dest)
    [] algorithm = "ADAPT_WestFirst" -> outportComputeAdaptWestFirst(id, dest, free)

=============================================================================
