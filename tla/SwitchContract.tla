--------------------------- MODULE SwitchContract ----------------------------
(***************************************************************************)
(* What a router promises of its switch, without pointers, requests or     *)
(* wakeups.  It serves its flits once in a cycle, and no cycle passes      *)
(* unserved while a flit can be sent.  When some flit can be sent, some    *)
(* are: at most one from an inport and one to an outport, each into an     *)
(* idle VC of its own vnet, and none before its waiting time is over.      *)
(***************************************************************************)
EXTENDS Integers

CONSTANTS NumInports, NumOutports, NumVnets, VcsPerVnet, PipeStages, NoFlit

VARIABLES
  held,      \* [i][v]: the flit in VC v of inport i, or NoFlit
  outvc,     \* [o][w]: state of VC w behind outport o
  served     \* the router has served its flits in this cycle

Inports == 0 .. NumInports - 1
Outports == 0 .. NumOutports - 1
VCs == 0 .. NumVnets * VcsPerVnet - 1
Flit == [outport : Outports, wait : 0 .. PipeStages - 1]

switchVars == <<held, outvc, served>>

Init ==
  /\ held = [i \in Inports |-> [v \in VCs |-> NoFlit]]
  /\ outvc = [o \in Outports |-> [w \in VCs |-> "IDLE"]]
  /\ served = FALSE

\* Flits come into vacant VCs, and VCs behind the outports fall idle.
Receive ==
  /\ held' \in [Inports -> [VCs -> Flit \cup {NoFlit}]]
  /\ \A i \in Inports, v \in VCs : held[i][v] # NoFlit => held'[i][v] = held[i][v]
  /\ outvc' \in [Outports -> [VCs -> {"IDLE", "ACTIVE"}]]
  /\ \A o \in Outports, w \in VCs : outvc[o][w] = "IDLE" => outvc'[o][w] = "IDLE"
  /\ UNCHANGED served

\* A swap with a neighbour puts one flit in the place of another.
Replace ==
  /\ \E i \in Inports, v \in VCs, f \in Flit :
       /\ held[i][v] # NoFlit
       /\ held' = [held EXCEPT ![i][v] = f]
  /\ UNCHANGED <<outvc, served>>

SameVnet(v, w) == v \div VcsPerVnet = w \div VcsPerVnet
IdleFor(o, v) == {w \in VCs : SameVnet(v, w) /\ outvc[o][w] = "IDLE"}
CanGo(i, v) ==
  held[i][v] # NoFlit /\ held[i][v].wait = 0 /\ IdleFor(held[i][v].outport, v) # {}
Sendable == {s \in Inports \X VCs : CanGo(s[1], s[2])}

\* The flits that leave in this step, and the VCs that are taken.
Leaves(i, v) == held[i][v] # NoFlit /\ held'[i][v] = NoFlit
Taken(o, w) == outvc[o][w] = "IDLE" /\ outvc'[o][w] = "ACTIVE"

Serve ==
  /\ ~served
  /\ served' = TRUE
  /\ held' \in [Inports -> [VCs -> Flit \cup {NoFlit}]]
  /\ outvc' \in [Outports -> [VCs -> {"IDLE", "ACTIVE"}]]
  /\ \A i \in Inports, v \in VCs : held'[i][v] # held[i][v] => Leaves(i, v)
  /\ \A o \in Outports, w \in VCs : outvc'[o][w] # outvc[o][w] => Taken(o, w)
  /\ \A i \in Inports, v \in VCs : Leaves(i, v) =>
       /\ CanGo(i, v)
       /\ \E w \in IdleFor(held[i][v].outport, v) : Taken(held[i][v].outport, w)
       /\ \A j \in Inports, w \in VCs : Leaves(j, w) /\ <<j, w>> # <<i, v>> =>
            j # i /\ held[j][w].outport # held[i][v].outport
  /\ \A o \in Outports, w \in VCs : Taken(o, w) =>
       /\ \E i \in Inports, v \in VCs : Leaves(i, v) /\ held[i][v].outport = o
       /\ \A x \in VCs : Taken(o, x) => x = w
  /\ Sendable # {} => \E i \in Inports, v \in VCs : Leaves(i, v)

Aged(f) == IF f # NoFlit /\ f.wait > 0 THEN [f EXCEPT !.wait = @ - 1] ELSE f

NextCycle ==
  /\ served \/ Sendable = {}
  /\ held' = [i \in Inports |-> [v \in VCs |-> Aged(held[i][v])]]
  /\ served' = FALSE
  /\ UNCHANGED outvc

Next == Receive \/ Replace \/ Serve \/ NextCycle

Spec == Init /\ [][Next]_switchVars

=============================================================================
