# SWAP in garnet2.0: a TLA+ model

This directory holds TLA+ specifications of the on-chip network simulator in
`src/gem5/src/mem/ruby/network/garnet2.0`, with the SWAP extension (Synchronized
Weaving of Adjacent Packets): routers with credit-based flow control that may
exchange a blocked packet with the one in front of it, and so need no routing
restriction against deadlock. The modules state what the code promises and
asserts, TLC checks it on small meshes, and TLAPS proves nearly all of the safety
properties for every topology and size.

File names below without a path are in `garnet2.0/`.

## 1. The system

| Part | State | Operations | Talks to |
|---|---|---|---|
| `Router` | `swap_ptr` (valid, inport, vcid), `is_swap` | `wakeup`: validate the pointer, swap in its turn, input units, output units, switch allocation, crossbar | the neighbour it swaps with, directly |
| `InputUnit`, `VirtualChannel`, `flitBuffer` | VC states and flits, credit queue | `wakeup` (arrival, route, pointer), `makeSwapPtrValid`, `increment_credit` | link upstream |
| `OutputUnit`, `OutVcState` | state and credit count of each VC downstream, out buffer | `wakeup` (credits), `has_free_vc`, `select_free_vc` | link downstream |
| `SwitchAllocator` | requests, winners, round robin pointers | SA-I, SA-II, VC allocation, clearing `is_swap`, moving the pointer, `check_for_wakeup` | input and output units |
| `CrossbarSwitch` | switch buffers | traversal | output units |
| `NetworkLink`, `CreditLink` | link buffer | `wakeup` moves one item | both ends |
| `GarnetNetwork` | the routers | `doSwap`, `bail_out`, `chk_deadlck_symptm`, `get_downstreamId` | routers |
| `RoutingUnit` | routing table | six algorithms | reads the neighbours' free VCs |
| `NetworkInterface` | out VC states, out queues, stall queue, round robin pointers | split multicasts, inject, eject, stall, unstall, credits, reschedule | protocol buffers |
| `MessageBuffer` | messages, sizes as the producer sees them, dequeue callback | enqueue, dequeue | interface and protocol controller |
| `Consumer` | cycles in which a component is scheduled | one wakeup for each such cycle | event queue |
| `Mesh_XY.py`, `Topology.cc` | | links, weights, port order, shortest paths | |

A router's turn comes in the cycles `t` with `t % (tdm * #routers) = id`
(`Router::is_myTurn`). In its turn it takes the flit its pointer names, follows
the flit's outport to the next router and asks that router for the flit in the
same VC of the inport behind the link. If it gets one, the two change places and
both are routed again. No credit and no VC state changes. `is_swap`
(unless `no_is_swap`) marks a router that has been given a flit by a swap, and
`routedSwap` marks that flit; such a router takes part in no further swap as the
downstream one until the flit has moved on. The pointer then moves on.

What makes it hard:

- A swap reaches into another router past the credit protocol, at any point
  between a flit's arrival, its departure and the return of its credit.
- `is_swap`/`routedSwap` are set and cleared in five places, and `swap_ptr` in
  four, with asserts in between that rely on all of them.
- Progress is a global argument: a swap sends a packet back.
- Handlers of one cycle run in any order, and adaptive routing reads the
  neighbours' buffers between them.
- A router or an interface runs only in the cycles that somebody scheduled it
  for; one call too few and a packet waits for ever.

## 2. The modules

| Module | Content |
|---|---|
| `SwapNetwork` | routers, links and interfaces on any topology, without a clock |
| `SwapCycle` | the same actions under gem5's clock and the TDM turns |
| `MeshRouting` | routing algorithms, mesh links, `get_downstreamId` |
| `MeshInstance` | the mesh as values for the topology constants of `SwapNetwork` |
| `RouteWalk` | one packet routed through a mesh, or a chain of packets that wait for each other in a full one |
| `SwitchAllocator` | the switch allocator of one router in full, with pipeline stages and scheduled wakeups |
| `SwitchContract` | what a router promises of its switch; `SwitchAllocator` implements it |
| `MessageBuffer` | a protocol buffer as operators on its state |
| `NetworkInterface` | one network interface in full, with its message buffers |
| `MCSwapCycle`, `MCSwitchAllocator`, `MCNetworkInterface` | packets, messages and instances for TLC |
| `PacketTransport` | what the network promises of packets: slots, hops, exchanges |
| `SwapTransport` | `SwapNetwork` as an implementation of `PacketTransport` |
| `SwapNetworkProofs` | proofs: sequences, topology and pointer; types, flits in place, swap pointer |
| `SwapNetworkVcProofs` | proofs: flow control, with one lemma for each effect on a channel |
| `PacketProofs` | proofs: packets are transported, none leaves its vnet |
| `MarkProofs` | proofs: the marks of swaps, ejection |
| `SwapCycleProofs` | proofs: packets are conserved; `SwapCycle` implements `SwapNetwork`; the clock |
| `SwitchAllocatorProofs` | proofs: the allocator keeps its contract, takes turns and loses no wakeup |
| `NetworkInterfaceProofs` | proofs: the books of an interface, in both directions |
| `RoutingProofs` | proofs: the algorithms and the routing table in every mesh |

The network is modelled twice over at different depths. `SwapNetwork` and
`SwapCycle` have all routers, links and interfaces, with arbiter and interface by
their effect; `SwitchAllocator` and `NetworkInterface` have one of each in full,
in surroundings that may do anything the other components can.

### SwapNetwork

State is indexed by *channel*: one unidirectional link together with the
`OutVcState`s and out buffer at its source (`outvc`, `outq`), the link buffer
(`link`), the VCs at its destination (`vcstate`, `vcs`), and the credit queue
and credit link that run the other way (`credq`, `credlink`). `swap_ptr` and
`is_swap` are per router. `Router::wakeup` is long, so it is split where it calls
its parts, and `active`, `stage` and `port` hold how far it has come. While a
router is active nothing else moves, since a gem5 event handler is not
interrupted.

| Action | Code |
|---|---|
| `wakeup_noSwap`, `wakeup_declined`, `wakeup_swap` | first part of `Router::wakeup`: not its turn or no valid pointer; the pointed flit may not start a swap; a swap is tried (with the bail-out, whose failed assert stops the program, `GarnetNetwork::doSwap` and `doSwap_enqueue`) |
| `Units` | the input units in order, then the output units |
| `arbitrate_inports` | SA-I |
| `arbitrate_outports` | one grant of SA-II with its crossbar traversal |
| `clear_request_vector` | end of SA and of the handler |
| `NetworkLink_wakeup` | links and credit links |
| `NI_send`, `NI_receive`, `NI_stall`, `checkStallQueue`, `NI_credit` | `NetworkInterface::wakeup` by effect |

Abstractions, with their reasons:

- *Round robin pointers* of SA-I, SA-II are left open: any requester may win.
  Every property proved or checked thus holds for any arbiter. `SwitchAllocator`
  has the pointers.
- *Crossbar*: traversal is part of the grant. Both run in one `Router::wakeup`,
  and nothing reads the switch buffers between them.
- *The ordered-vnet check* in `send_allowed` is left out: it compares
  `get_outport` of VCs, which nobody sets (the call in `InputUnit::wakeup` is
  commented out), so it never applies.
- *Routing* is a constant operator that gives the set of outports the algorithm
  may return for the free VCs it reads. A swap reads the buffers before the
  exchange; counts of free VCs are the same at each of the two route
  computations, because both VCs stay occupied.
- *Bail-out*: `chk_deadlck_symptm` tests `cycle % 1000 == 0`. `BailoutRouters`
  are the routers whose turn can fall on such a cycle, and there the test may
  come out either way. `MCBailoutRouters` computes them from the period.
- *Occupancy threshold*: exact arithmetic in place of floating point.
- *Packets* have one flit. `InputUnit::wakeup` asserts this.
- *Interfaces*: a packet waits, is sent in any idle VC of its vnet, and is
  delivered or stalled. Whether the protocol buffer has room is a free choice.
  `NetworkInterface` has the queues and the buffer.

### SwapCycle

In a cycle every router with work wakes once, in any order, then the interfaces
wake, and `Tick` moves the links. An interface goes through
`NetworkInterface::wakeup` in its order: it sends at most one flit (`SendNode`),
unstalls (`UnstallNode`), and reads its flit and credit links (`ServeNode`), after
which `linksRead` keeps it from sending, so that a VC freed by a credit is used in the
next cycle at the earliest. Interfaces and routers share no state within a cycle, so
their order does not matter. Items written in cycle `t` are moved in `t+1` and consumed in
`t+2` (`agedq`, `agedc` count the ones written before the present cycle): router
and link latency 1, the defaults. With `Backlogged` an interface sends whenever it
can, which fills the network fastest; `StallNodes` are the interfaces whose
protocol buffer may be full. Unstalling may happen several times in a cycle, once
in the code, which only adds behaviours.

### SwitchAllocator and SwitchContract

One `Router::wakeup` is three steps: `wakeup_units` (arrivals and credits, for any
that the links may bring), `arbitrate_inports` and `arbitrate_outports` (with VC
allocation, `clear_request_vector` and `check_for_wakeup`). The outports of SA-II
are served in one step: an inport asks for one outport only, so they share
nothing. `wakeups` holds the cycles, counted from now, that the router is scheduled
for, `ran` that it has run in this one (`Consumer` merges requests for a cycle). A
flit carries the cycles it has to wait before SA (`PipeStages - 1` at arrival).
`Exchange` is a swap, made by this router or by a neighbour: the flit that comes
brings its own remaining wait, and nobody is scheduled. `get_outport` is -1, as
in the code. `enqueued` holds the pairs of occupied VCs of the ordered vnets of which
the first has the earlier `m_enqueue_time`; it follows VCs and not flits, as the field
does across a swap.

`SwitchContract` has neither pointers nor requests nor wakeups: once in a cycle the
router serves its flits; if any can go some do, at most one for each inport and
outport, each into an idle VC of its vnet; and a cycle ends unserved only if no
flit could go. `KeepsContract` is its specification, with the VCs for `held` and
"has run and is done" for `served`.

### NetworkInterface and MessageBuffer

| Action | Code |
|---|---|
| `MessageArrives` | the next message becomes ready, and its buffer schedules the interface |
| `wakeup` | start of `NetworkInterface::wakeup`, with the flit and the credit that the links bring |
| `flitisizeMessage` | one destination of the first message of a vnet, with `calculateVC`; with no VC free the rest of the message stays |
| `SendAndUnstall` | `scheduleOutputLink`, `checkReschedule`, `checkStallQueue` |
| `consumeLinks` | flit link, credit link, scheduling of the outgoing credits |
| `CreditLink_wakeup` | one credit to the router |
| `Controller_dequeue` | a protocol controller pops a message, and the callback runs |
| `Tick` | the next cycle |

The steps of one wakeup follow each other without interruption (`stage`); the
controller and the credit link run before or after it in the same cycle.
`ejecting` is what the router knows: the VCs towards this node it may not use yet.
Messages enter the model in the cycle they become ready in. The controller pops up to
`PopsPerCycle` messages of a buffer in a cycle, a choice of the protocol.

### MeshRouting and RouteWalk

An algorithm of `RoutingUnit` is the set of directions it may return: one where
it is deterministic, two where it draws a random number or finds equal free
counts. The routing table comes from the weights of `Mesh_XY.py` through the
relaxation of `Topology::extend_shortest_path`. `extend_shortest_path[n]` is the matrix
after `n` passes. The code relaxes one entry after the other in place, the model all at
once; both stop when nothing changes, at the shortest distances. `RouteWalk` follows one packet, or a chain of packets, each
waiting for the buffer the next one holds, and looks for a chain that closes.

## 3. Properties

| Property | Statement |
|---|---|
| `VcExclusive` | each VC of each link is in exactly one hand: idle upstream, or its one flit is queued, on the link, buffered or stalled, or its credit is on its way back |
| `ArrivalFindsIdleVc` | `assert(m_vcs[vc]->get_state() == IDLE_)` in `InputUnit::wakeup` |
| `CreditsMatchState` | the credit count is full when the VC is idle and one less when it is active |
| `PacketConserved` | a packet waits at its source, is one flit somewhere, or has been delivered |
| `SwapPtrPointsToFlit` | a valid pointer names an occupied VC of an inport that may swap |
| `FlitMatchesPlace` | a buffered flit names its VC and an outport of its router, a Local one only at its destination |
| `FlitKeepsVnet` | a packet stays in its virtual network |
| `IsSwapMatchesRouted` | `is_swap` is set exactly when the router holds a flit with `routedSwap`, and it holds at most one |
| `ArrivedFlitIsEjected` | a flit at its destination router leaves it only to be ejected |
| `HopsNeverGrow` | no step increases the hops left in the network: the hop a swap costs one packet is made good by the other |
| `TransportsPackets` | `SwapNetwork` implements `PacketTransport`: every handler sends or delivers one packet, moves one a hop into an empty VC, exchanges two that are a hop apart, or moves none |
| `LinkDrained` | under the clock no link holds two flits or two credits, so that taking one in a wakeup is enough |
| `EventuallyDelivered` | a packet that has entered the network is delivered |
| `OutportLeadsDownstream` | the chosen direction has a link, and `get_downstreamId` and `get_downstreamDirn` agree with it |
| `HopBringsCloser` | every hop of every algorithm brings the packet one hop closer, whatever free VCs it reads |
| `ReachesDestination` | every algorithm brings the packet to its destination |
| `TableOffersEveryShortestHop` | the table that relaxation computes offers exactly the hops that bring a packet closer |
| `NoCyclicWait` | packets do not wait for each other in a cycle |
| `NoFlitOversleeps` | for every flit in a router, the router is scheduled for the cycle in which its wait ends or in time before it |
| `InportsTakeTurns`, `VcsTakeTurns` | who asks and is passed over is strictly nearer to the pointer next time |
| `KeepsContract` | `SwitchAllocator` implements `SwitchContract` |
| `EachDestinationOnce` | across retries, each destination of a multicast is in one place: with the message, in one flit, or sent |
| `SentInOrder` | in an ordered vnet the interface sends no message before an earlier one to the same destination |
| `StallBookkeeping` | `m_stall_count` counts the stall queue, and the callback is set exactly while it holds a flit of the vnet |
| `EjectVcAccounted` | a VC the router holds for the interface is owed exactly one credit |
| `EveryDestinationServed` | every message is sent to all its destinations |
| `EjectVcFreed` | the router gets back every VC it used towards the interface |
| `BailoutFindsFullInport`, `PtrOffOnlyWhenVacant`, `PtToPtOrder` | claims of comments and messages that the code does not keep, see section 5 |

`TypeOK`, `ClockTypeOK`, `AllocTypeOK` and `InterfaceTypeOK` are the type
invariants; `AllocTypeOK` also says that of two VCs of an ordered vnet one has the
earlier enqueue time, and `InterfaceTypeOK` that no message buffer holds more than its
size.

The round robin properties bound how often an inport can lose an outport in a row
(`NumInports - 1` times), and a VC the choice of its inport, while each goes on asking.
The two bounds do not add up to one for a flit: the pointer of SA-I moves on when a
request is made, so a VC whose request loses in SA-II may find another VC of its
inport asking when the outport's pointer favours the inport.

**Fairness.**

- `FairCSpec` assumes `WF(CNext)`: the event queue always reaches the next event
  and the next cycle. That is all the delivery of packets rests on, apart from
  stalls: a choice the model leaves open (order of routers, winner of an
  arbitration, random direction) is never assumed to be fair. Where an interface may
  stall, strong fairness of `UnstallNode` says that every stalled flit is unstalled
  in the end. It stands for `EjectVcFreed`, which `interface` shows when one vnet
  ejects and the controller leaves a message in the buffer, and which
  `interface_stall` shows to fail when two vnets eject (section 5). In `stalls` the
  packets for the stalling interface are all of one vnet.
- `NetworkInterface` assumes weak fairness of `Step`, what is scheduled and time
  itself, and strong fairness of the surroundings: the controller pops messages
  that are ready, and the router returns credits. New messages and arriving flits
  are never assumed, so that no property rests on a wakeup by chance.
- `RouteWalk` assumes weak fairness of `Hop`, a packet alone in the network.
- `SwitchAllocator` has safety properties only; that a ready flit is never left
  without a wakeup is stated as the invariant `NoFlitOversleeps`.

## 4. Runs

| Run | Instance | Shows |
|---|---|---|
| `ring` | 2x2, RANDOM, 4 diagonal packets, 1 VC | the packets can block each other in a ring; SWAP resolves every such state |
| `hotspot` | 1x4, 6 packets to the last router, `is_swap` in use, threshold 50%, swaps from the Local inports allowed | types, marks in step, pointer, delivery |
| `stalls` | 1x4, 2 vnets of 1 VC, 6 crossing packets, the interface of router 2 may stall | flow control with stalled flits, packets keep their vnet, arrived packets are not swapped away, delivery |
| `bailout` | 2x3, XY, 7 packets, bail-out possible | marks in step across bail-outs |
| `route_walk` | 3x4, all algorithms, all pairs; chains for XY, WestFirst, ADAPT_WestFirst | routing and table are right, and these three are deadlock-free without swaps |
| `allocator` | 2 inports, 2 outports, 2 vnets of 1 VC, 2 stages, swaps | round robin, wakeups, contract |
| `interface` | 1 ordered vnet of 3 VCs, 2 multicasts to 2 destinations, arrivals in 2 VCs, buffer of 2 slots | sending, stalling and credits |
| `bailout_assert` | as `bailout` | violation, section 5 |
| `ptr_off` | 1x4, 2 VCs | violation, section 5 |
| `wait_chain_table` | 2x2, TABLE | violation, section 5 |
| `overtaking` | as `allocator`, 1 ordered vnet of 2 VCs, no swaps | violation, section 5 |
| `interface_stall` | 2 vnets of 1 VC, flits in both, buffers of 2 slots | violation, section 5 |

The bounds: one VC per vnet makes deadlock easiest, and a 2x2 mesh has the
shortest ring of links in a mesh. RANDOM routing may take every direction that
ADAPT_RAND may, so `ring` covers the adaptive algorithm as well. On a line of
four routers packets to one end fill the buffers on their way; two VCs, in `stalls`
one for each of two vnets, are the fewest on which the pointer walk differs from a
walk over inports. The 2x3 mesh is large enough for a bail-out to meet marks in
both routers. `MaxCredit` is 1, as every packet has one flit. With two VCs in one vnet
these few packets never block each other long enough to swap, so that such swaps
rest on the proofs. In `allocator` the flits of the first inport go anywhere and
those of the second meet them at outport 0, so that requests collide in both
stages; two stages are the least in which a flit waits, and the most for which a
swapped flit is sure of its wakeup. In `interface` two multicasts need four VCs and have three, so the
second stops half way; two slots are the fewest with which a pop leaves a message
behind for the next callback.
Deadlock checking is off in the bail-out runs only, where a failed assert stops the
program. Elsewhere time goes on, or an arrived packet stays, and TLC checks for deadlock.

`EventuallyDelivered` fails for `ring` when a swap can never complete, and
`NoCyclicWait` when West is not taken first, so the instances do contain the
deadlocks that SWAP or the turn restrictions resolve. `PROJECT.json` lists one
such change of the code for every property.

## 5. Where the code and its comments disagree

- `bailout_assert`: `chk_deadlck_symptm` returns true in every cycle divisible by
  1000 (the code behind the return that examines the network is unreachable), so
  `bail_out` also runs when the inport downstream has a vacant VC. Its assert at
  `GarnetNetwork.cc:645-647` then fails. It needs `no_is_swap = 0` and a turn that
  falls on such a cycle.
- `ptr_off`: `movSwapPtr` counts `vcid` on from one inport to the next and turns
  every value past the last VC into 0, so that with several VCs it may switch the
  pointer off ("There's no non-vacant inport present") while flits wait. This does
  not harm progress in a deadlock, where all inports in question are full and VC 0
  of each is found.
- `wait_chain_table`: `Mesh_XY.py` says that link weights enforce XY routing, and
  comments on the vertical links say weight 2, but all links have weight 1. The default
  table routing then has cyclic waits.
- `overtaking`: `send_allowed` should hold back a flit of an ordered vnet while an
  earlier one in the same inport asks for the same outport. It compares the
  outports of VCs, a field that stays -1 because the call that sets it is commented
  out in `InputUnit.cc:139`, so the check never applies and the round robin may let
  the later flit go first.
- `interface_stall`: an interface passes on at most one flit in a cycle, so a flit
  that comes in the cycle in which one of another vnet is unstalled is stalled, even
  if its own message buffer is empty. The callback is then set on a buffer from which
  nothing will be dequeued, and the flit, its VC and what queues behind it wait until
  something else happens to wake the interface. The same follows, with one vnet, if
  the controller pops the last message of a buffer in the cycle in which a flit is
  stalled on it and before the interface runs: the buffer hides the pop until the
  next cycle, and the callback is set too late. TLC finds a behaviour of 11
  states for it when `interface.cfg` is given a buffer of one slot (`m_max_size = 1`) and
  no messages to send, and one of 17 when instead the controller may take both messages
  of the buffer in a cycle (`PopsPerCycle = 2`). Both cases need finite buffers; the default size 0
  stands for infinite ones, which never stall.

## 6. Proofs

A run shows a property on one small instance; the theorems state it for every value of
the constants that satisfies the named assumptions of the modules. TLC evaluates these
assumptions on the instances it runs.

**The network**, for every topology, number of VCs and vnets, set of packets, routing
function and configuration (`TopologyAssumption`, `ParameterAssumption`,
`IsSwapNeedsSingleVnet`, `RouteAssumption`; with the clock also `ClockAssumption`):

| Theorem | Property |
|---|---|
| `SwapNetworkProofs!TypeCorrect` | `TypeOK` |
| `SwapNetworkProofs!PlaceCorrect` | `FlitMatchesPlace` |
| `SwapNetworkProofs!PtrCorrect` | `SwapPtrPointsToFlit` |
| `SwapNetworkVcProofs!VcExclusiveCorrect` | `VcExclusive` |
| `SwapNetworkVcProofs!ArrivalCorrect` | `ArrivalFindsIdleVc` |
| `SwapNetworkVcProofs!CreditsCorrect` | `CreditsMatchState` |
| `PacketProofs!TransportCorrect` | `TransportsPackets` |
| `PacketProofs!VnetCorrect` | `FlitKeepsVnet` |
| `MarkProofs!EjectCorrect` | `ArrivedFlitIsEjected` |
| `SwapCycleProofs!PacketCorrect` | `PacketConserved` |
| `SwapCycleProofs!IsSwapCorrect` | `IsSwapMatchesRouted` |
| `SwapCycleProofs!CycleImplementsNetwork` | `CSpec => Spec` |
| `SwapCycleProofs!CycleSafe` | flow control, pointer, packets, vnets and marks under the clock |
| `SwapCycleProofs!ClockCorrect`, `ClockTypeCorrect` | `LinkDrained`, `ClockTypeOK` |

*Structure.* `StructInv` is `TypeOK`, `FlitMatchesPlace`, `SwapPtrPointsToFlit` and
`WinnerInv`. None is inductive alone: the pointer
operators return an occupied VC only if flits carry the number of their VC
(`scanBases` takes it from the flit), a swap finds its neighbour through the
outport of the flit, and a grant in SA-II pops a VC that is occupied only because
winners are (`WinnerInv`: while a router is in SA-II, the winner of an inport is
an occupied VC of it).

*Flow control.* `VcInv` says of every channel that each of its VCs has exactly one
holder, counted over the seven places of `Holders`, with the queues free of
duplicates, every credit under way a freeing one, the VC state in step with the buffer,
and the credit count in step with the state. It is stated on the values of one channel
(`ChanGood`), so that one lemma per effect on a channel (`ChanSend`, `ChanLink`,
`ChanArrive`, `ChanDepart`, `ChanCredit`, ...) serves all actions with that effect. A swap
(`ChanSwap`) changes which flit is in a VC, never whether there is one, which is why it
may bypass the credits.

*Packets.* The refinement mapping of `SwapTransport` puts a packet into the slot `<<c, v>>`
whose VC its flit has, wherever the flit is between the queue before the link and the
stall queue behind it. By `VcInv` a slot then holds one packet at most. One lemma for each
effect on a channel (`CarrySend`, `CarryLink`, ...) says what the channel carries
afterwards, and one for each handler (`TransportSend`, `TransportGrant`, `TransportSwap`,
...) which step of `PacketTransport` it makes: a link, an arrival and a stall make none, a
grant is a `Move` into a VC that is empty because it was idle upstream, a swap is an
`Exchange`. The abstract invariant `OnePlace` follows from the abstract steps, and
`FlitKeepsVnet` and `PacketConserved` from it: the place of a packet in a slot is a
single site, since the holders of a VC exclude each other (`OneSite`).

*Marks and ejection.* `MarkInv` strengthens `IsSwapMatchesRouted` with what makes it
inductive: no flit in a queue or on a link is marked (a departure clears the mark, so that
none arrives), and without swaps no flit is. The bits and the marks are compared for a
whole buffer assignment (`MarksMatch(buf, sw)`), because a bail-out clears marks and bits
before the exchange of the same step sets them again. `ArrivedFlitIsEjected` follows from
`StructInv` alone: a swap takes neither a flit that leads to a Local port nor one that
lies in front of it and does.

*The clock.* `SwapNetwork` lets handlers run in any order, links take any time
and a router try a swap in any wakeup; `SwapCycle` only restricts when its actions
happen. `CycleImplementsNetwork` proves this step by step, so that the invariants
proved without a clock hold with it, for every period. Conversely flow control
depends on no timing and no TDM. `ClockInv` adds what only the clock ensures: a queue is
never shorter than the number of its items old enough for the link, and whoever has
something on a link is due in this cycle (`Due`), so that the links are empty when the
cycle ends and `Tick` puts at most one item on each. TLC runs the clocked specification
only, since without a clock nothing is ever delivered for certain and the states are many
more.

**The allocator**, for any number of ports, vnets and VCs and any set of turns
(`AllocatorAssumption`, `FlitAssumption`), for any router latency without swaps and
latencies up to 2 with them (`SwapLatency`):

| Theorem | Property |
|---|---|
| `SwitchAllocatorProofs!ContractKept` | `KeepsContract`: the allocator implements `SwitchContract` |
| `SwitchAllocatorProofs!NoneOversleeps` | `NoFlitOversleeps` |
| `SwitchAllocatorProofs!InportTurns` | `InportsTakeTurns` |
| `SwitchAllocatorProofs!VcTurns` | `VcsTakeTurns` |
| `SwitchAllocatorProofs!AllocTypeCorrect` | `AllocTypeOK` |

`AllocInv` is types, `Requests`, `Alarms` and `Awake`. `Requests` says
that between SA-I and SA-II an inport asks with a candidate, for the one outport its
flit is routed to, and does ask if it has a candidate: this makes grants of different
outports independent and gives each winner its idle VC. `Alarms` names, for every flit
in the router, the cycle the router is scheduled for on its account. It is stronger than
`NoFlitOversleeps`, and needs two forms. With up to two stages the alarm is the
next wakeup whatever the wait, which a swap cannot disturb. With more stages it is the
end of the wait, scheduled at arrival, and a swap would bring in a flit that has no alarm
here. That is why `SwapLatency` is a hypothesis of the theorems: with swaps and a router
latency of 3 or more a swapped flit can be left without a wakeup until another flit or a
credit arrives. The default latency is 1.
The turns follow from one lemma on the pointers, `PassedOverAdvances`. The existence of
the first candidate from a pointer on (`FirstFromCorrect`) rests on the well-foundedness
of the natural numbers. The refinement is proved step by step (`ReceiveStep`, `ServeStep`,
`CycleStep`); `AllocInv` is needed for `ServeStep`, and `Alarms` for `CycleStep`: a cycle
that ends unserved has no flit that could have gone. `AllocTypeOK` needs two facts more:
a router that has run is not scheduled for the same cycle again (`Schedule`), and the
enqueue times stay comparable as VCs fill and empty (`EnqueueTimes`).

**The interface**, for any number of vnets, VCs, messages and destinations, any buffer
size and any flits that come to the node (`InterfaceAssumption`):

| Theorem | Property |
|---|---|
| `NetworkInterfaceProofs!InterfaceTypeCorrect` | `InterfaceTypeOK` |
| `NetworkInterfaceProofs!DestinationsCorrect` | `EachDestinationOnce` |
| `NetworkInterfaceProofs!OrderCorrect` | `SentInOrder` |
| `NetworkInterfaceProofs!StallCorrect` | `StallBookkeeping` |
| `NetworkInterfaceProofs!EjectVcCorrect` | `EjectVcAccounted` |

The two directions touch different variables and have an invariant each. `EjectInv` says
that a VC the router holds belongs to one flit on the link or in the stall queue, or to one
credit (`EjectOwners`), and that a buffer never looks emptier to the interface than it is
(`BufferSound`), which is why it is not overfilled although its size is read a cycle late.
`SendInv` has the life of an output VC (`OutVcs`), the place of every destination
(`StartInv`, `DestInv`) and, for the order, `AgeOrder`: of two flits of a vnet the one of
the later message is younger. Ages are compared strictly in `scheduleOutputLink`, so this
rests on `Fresh`: in one cycle a vnet has flits made from one message only.

**Routing**, for every number of rows and columns (`MeshAssumption`,
`RouteWalkAssumption`):

| Theorem | Property |
|---|---|
| `RoutingProofs!OutportCorrect` | `OutportLeadsDownstream` |
| `RoutingProofs!TableCorrect` | `TableOffersEveryShortestHop`, if `MeshFits` |
| `RoutingProofs!HopsCorrect` | `HopBringsCloser`, if `MeshFits` |
| `RoutingProofs!NoCycle` | `NoCyclicWait`, if `WestFirstOnly` |
| `RoutingProofs!MeshRoutes` | the routes of `MeshInstance` have the form `RouteAssumption` asks for |

Routers are placed by row and column (`XPos`, `YPos`), so that a link changes one
coordinate by one and the distance is the sum of the differences. `ExactUpTo(n, D)` says
that a matrix of distances is never too short and exact for pairs up to `n` hops apart.
`n` grows with every pass, and a pass that changes nothing has reached all distances. Both the existence of the recursive function and
this induction are proved from the least counterexample (`LeastExists`). `MeshFits` asks
that the longest path be no longer than `INFINITE_LATENCY`, the weight that
`Topology::createLinks` gives to a pair of routers without a link: beyond it the table
would take a missing link for a short way. `WestFirstOnly` says that chains are formed
with XY and the West-first algorithms only; with the others there are cycles
(`wait_chain_table`). The proof orders the links (`Precedes`): first all ways west, from
east to west, then the others, column by column. A packet waits for a later link than it
holds, so that a chain never comes back to its first link (`ChainInv`).

**Only model-checked:**

- `EventuallyDelivered`, `ReachesDestination`, `EveryDestinationServed` and `EjectVcFreed`:
  liveness under fairness is outside the prover's reach. `HopBringsCloser`, which is
  proved, is the measure behind `ReachesDestination`.
- `HopsNeverGrow`: a sum over all places of the network, taken with a fold over a set. What
  such a fold computes for every set is an induction with an operator as its parameter,
  which the prover cannot instantiate.
- `TopologyAssumption` and the other assumptions for a mesh are evaluated by TLC in the
  instances only; of `RouteAssumption` `MeshRoutes` proves the form for every mesh.

## 7. Not modelled

- *Packets of several flits.* `InputUnit::wakeup` asserts that every flit is a
  `HEAD_TAIL_`, and `flitisizeMessage` sets the number of flits to 1.
- *Router latency above 1 in the whole network.* `SwapCycle` has latency 1;
  `SwitchAllocator` has any, for one router.
- *Link latency above 1 under the clock.* `SwapNetwork` lets a link take any time.
- *The panic for a VC that stays busy* (`calculateVC`), a watchdog that counts cycles up to
  a threshold of 50000 and stops the simulation.
- *The stall map, recycling and random delays of `MessageBuffer`*, which serve the
  protocol controllers; the network uses none of them.
- *Statistics, debug scans, `functionalWrite`*, which change no
  state of the network that a handler reads.
- *The fault model*, a table of probabilities that changes no flit, *the parameter
  objects* `GarnetLink` and the like, and the rest of gem5.
- *Message queues of the interfaces in the whole network.* `SwapNetwork` has interfaces by their
  effect. One interface in full has some 86,000 states already, and several of them
  together with the routers would multiply.
