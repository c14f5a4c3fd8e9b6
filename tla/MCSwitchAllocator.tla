-------------------------- MODULE MCSwitchAllocator --------------------------
(***************************************************************************)
(* A router with two inports.  The flits of the first go to any outport    *)
(* from any VC; those of the second use VC 0 and go to outport 0, where    *)
(* they meet the others.                                                   *)
(***************************************************************************)
EXTENDS SwitchAllocator

MCTurns ==
  [i \in Inports |-> [v \in VCs |-> IF i = 0 THEN Outports ELSE IF v = 0 THEN {0} ELSE {}]]

=============================================================================
