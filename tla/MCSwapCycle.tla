----------------------------- MODULE MCSwapCycle -----------------------------
(***************************************************************************)
(* Small meshes for SwapCycle.  A packet <<i, s, d>> goes from the         *)
(* interface of router s to that of router d; i tells packets apart and    *)
(* chooses their virtual network.                                          *)
(***************************************************************************)
EXTENDS SwapCycle, SwapTransport, MeshInstance, FiniteSetsExt

MCPktSrc == [p \in Packets |-> NodeOf(p[2])]
MCPktDst == [p \in Packets |-> NodeOf(p[3])]
MCPktVnet == [p \in Packets |-> p[1] % NumVnets]

\* Diagonal packets between the corners of a 2x2 mesh: with RANDOM routing
\* their first hops can close a cycle.
RingFlows == {<<0, 0, 3>>, <<1, 1, 2>>, <<2, 3, 0>>, <<3, 2, 1>>}
\* Two packets from each router of a 1x4 mesh to the last: the routers fill up.
HotSpotFlows == {<<2 * r + i, r, 3>> : r \in 0 .. 2, i \in {0, 1}}
\* Packets that share the way 5, 4, 3, 0 through a 2x3 mesh.
DetourFlows ==
  {<<0, 3, 0>>, <<1, 3, 0>>, <<2, 4, 0>>, <<3, 4, 0>>, <<4, 5, 0>>, <<5, 5, 0>>, <<6, 1, 0>>}
\* Packets that meet in router 2 of a 1x4 mesh: those of one vnet stay there,
\* those of the other pass.
CrossFlows == {<<0, 1, 2>>, <<2, 0, 2>>, <<4, 0, 2>>, <<1, 1, 3>>, <<3, 0, 3>>, <<5, 1, 3>>}

\* The routers whose turn falls on a cycle that 1000 divides.
MCBailoutRouters == {r \in MeshRouters : \E k \in 0 .. Period - 1 : (1000 * k) % Period = r}

-----------------------------------------------------------------------------
\* The hops a flit has left once it is at the end of channel c.
HopsLeft(c, p) == IF MeshDst[c] \in MeshRouters THEN Distance(MeshDst[c], PktDst[p]) ELSE 0
RemainingHops ==
  LET Left(s) == IF s[1] = "stalled" THEN 0 ELSE HopsLeft(s[2], s[4])
      Start(p) == Distance(RouterOf(PktSrc[p]), PktDst[p])
  IN  MapThenSumSet(Left, Sites) + MapThenSumSet(Start, pending)

\* "make guarantteed forward progress of the flit" (GarnetNetwork::doSwap): the
\* hops that a swap costs the downstream flit are made up for by the flit it
\* moves forward, so that no step increases the hops left in the network.
HopsNeverGrow == [][RemainingHops' <= RemainingHops]_vars

=============================================================================
