-------------------------- MODULE MCNetworkInterface -------------------------
(***************************************************************************)
(* A small network interface for TLC: two multicasts over three VCs, so    *)
(* that the second runs out of VCs between its destinations.               *)
(***************************************************************************)
EXTENDS NetworkInterface

MCMsgVnet == <<0, 0>>
MCMsgDests == <<{0, 1}, {0, 1}>>
MCArrivals == [vc : {0, 1}, vnet : {0}]

\* Flits of two vnets, and no messages to send.
MCTwoVnets == {[vc |-> 0, vnet |-> 0], [vc |-> 1, vnet |-> 1]}

MCNoMessages == <<>>

=============================================================================
