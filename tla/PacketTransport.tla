--------------------------- MODULE PacketTransport ---------------------------
(***************************************************************************)
(* What the network promises of packets, without routers, credits, links   *)
(* or clocks.  A slot is the right to one VC of one link, and holds at     *)
(* most one packet.  A packet enters in a slot of its source, moves hop by *)
(* hop into empty slots, changes places with the packet one hop ahead of   *)
(* it, and leaves from a slot of its destination.                          *)
(***************************************************************************)
CONSTANTS
  Packets, Slots,
  Hops,          \* pairs of slots: the second is one hop after the first
  Lane,          \* [p]: the slots packet p may be in
  Entry, Exit    \* [p]: the slots by which packet p comes in and leaves

VARIABLES
  holds,         \* [s]: the packets in slot s
  pending,       \* packets that have not been sent
  delivered      \* packets that have reached their destination

tvars == <<holds, pending, delivered>>

TInit ==
  /\ holds = [s \in Slots |-> {}]
  /\ pending = Packets
  /\ delivered = {}

Send(p, s) ==
  /\ p \in pending
  /\ holds[s] = {}
  /\ s \in Entry[p] \cap Lane[p]
  /\ holds' = [holds EXCEPT ![s] = {p}]
  /\ pending' = pending \ {p}
  /\ UNCHANGED delivered

Move(p, s, t) ==
  /\ holds[s] = {p} /\ holds[t] = {}
  /\ <<s, t>> \in Hops /\ t \in Lane[p]
  /\ holds' = [holds EXCEPT ![s] = {}, ![t] = {p}]
  /\ UNCHANGED <<pending, delivered>>

Exchange(p, q, s, t) ==
  /\ holds[s] = {p} /\ holds[t] = {q}
  /\ <<s, t>> \in Hops /\ t \in Lane[p] /\ s \in Lane[q]
  /\ holds' = [holds EXCEPT ![s] = {q}, ![t] = {p}]
  /\ UNCHANGED <<pending, delivered>>

Deliver(p, s) ==
  /\ holds[s] = {p}
  /\ s \in Exit[p]
  /\ holds' = [holds EXCEPT ![s] = {}]
  /\ delivered' = delivered \cup {p}
  /\ UNCHANGED pending

TNext ==
  \E s \in Slots :
    \/ \E p \in pending : Send(p, s)
    \/ \E p \in holds[s] :
         \/ Deliver(p, s)
         \/ \E t \in Slots : Move(p, s, t) \/ \E q \in holds[t] : Exchange(p, q, s, t)

TSpec == TInit /\ [][TNext]_tvars

\* No packet is lost, duplicated or led astray: it waits to be sent, has been
\* delivered, or is in one slot, of its own lane.
OnePlace ==
  /\ \A s \in Slots : \A p \in holds[s] : s \in Lane[p] /\ p \notin pending \cup delivered
  /\ \A s, t \in Slots : \A p \in holds[s] \cap holds[t] : s = t
  /\ \A p \in Packets : p \in pending \cup delivered \/ \E s \in Slots : p \in holds[s]
  /\ pending \cap delivered = {}

=============================================================================
