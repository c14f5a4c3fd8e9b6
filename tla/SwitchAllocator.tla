--------------------------- MODULE SwitchAllocator ---------------------------
(***************************************************************************)
(* The switch allocator of one router in full: its round robin pointers,   *)
(* its request vector, the order in which flits came, the waiting time of  *)
(* a router with several pipeline stages, and the wakeups that the links,  *)
(* InputUnit and check_for_wakeup schedule.  The neighbours are free:      *)
(* flits come into vacant VCs, credits come back for VCs in use, and swaps *)
(* put one flit in the place of another.  Times are relative to the        *)
(* current cycle.                                                          *)
(***************************************************************************)
EXTENDS Integers

CONSTANTS
  NumInports, NumOutports, NumVnets, VcsPerVnet,
  PipeStages,    \* router latency
  OrderedVnets,  \* the vnets with isVNetOrdered
  Turns,         \* [i][v]: the outports that flits in VC v of inport i are routed to
  Interswap,     \* isEnableInterswap()
  NoFlit, NoVc

ASSUME AllocatorAssumption ==
  /\ {NumInports, NumOutports, NumVnets, VcsPerVnet, PipeStages} \subseteq Nat \ {0}
  /\ NoVc \notin Nat

Inports == 0 .. NumInports - 1
Outports == 0 .. NumOutports - 1
NumVcs == NumVnets * VcsPerVnet
VCs == 0 .. NumVcs - 1
Flit == [outport : Outports, wait : 0 .. PipeStages - 1]

ASSUME FlitAssumption ==
  /\ NoFlit \notin Flit
  /\ Turns \in [Inports -> [VCs -> SUBSET Outports]]
  /\ Interswap \in BOOLEAN

VARIABLES
  vcs,                 \* [i][v]: flit in VC v of inport i with the cycles until SA
  enqueued,            \* [i]: pairs of VCs, the one with the earlier m_enqueue_time first
  outvc,               \* [o][w]: state of OutVcState w of outport o
  m_round_robin_invc,
  m_round_robin_inport,
  winner,              \* [o][i]: m_vc_winners where m_port_requests holds, else NoVc
  wakeups,             \* cycles from now in which the router is scheduled
  ran,                 \* it has been awake in this cycle
  stage                \* where wakeup() stands: asleep, sa1, sa2

rrVars == <<m_round_robin_invc, m_round_robin_inport>>
vars == <<vcs, enqueued, outvc, rrVars, winner, wakeups, ran, stage>>

NoRequests == [o \in Outports |-> [i \in Inports |-> NoVc]]

Init ==
  /\ vcs = [i \in Inports |-> [v \in VCs |-> NoFlit]]
  /\ enqueued = [i \in Inports |-> {}]
  /\ outvc = [o \in Outports |-> [w \in VCs |-> "IDLE"]]
  /\ m_round_robin_invc = [i \in Inports |-> 0]
  /\ m_round_robin_inport = [o \in Outports |-> 0]
  /\ winner = NoRequests
  /\ wakeups = {}
  /\ ran = FALSE
  /\ stage = "asleep"

-----------------------------------------------------------------------------
\* doSwap of this router or of a neighbour: the flit brings its stage along,
\* and nobody is scheduled.
Exchange(i, v, f) ==
  /\ Interswap
  /\ stage = "asleep"
  /\ vcs[i][v] # NoFlit
  /\ f.outport \in Turns[i][v]
  /\ vcs' = [vcs EXCEPT ![i][v] = f]
  /\ UNCHANGED <<enqueued, outvc, rrVars, winner, wakeups, ran, stage>>

-----------------------------------------------------------------------------
get_vnet(v) == v \div VcsPerVnet
Arrival == [vc : VCs, outport : Outports] \cup {NoFlit}

\* The VCs whose m_enqueue_time send_allowed may read.
OrderedVcs(i) == {v \in VCs : vcs[i][v] # NoFlit /\ get_vnet(v) \in OrderedVnets}

\* The input and output units read their links: came[i] is the flit on the
\* link of inport i, freed[o] the VC of the credit for outport o.  A link that
\* brings something has the router scheduled for the cycle, and a flit that
\* has to wait has it scheduled for the end of its wait.
wakeup_units(came, freed) ==
  LET new == {i \in Inports : came[i] # NoFlit}
  IN  /\ stage = "asleep" /\ ~ran
      /\ 0 \in wakeups \/ new # {} \/ \E o \in Outports : freed[o] # NoVc
      /\ \A i \in new : vcs[i][came[i].vc] = NoFlit /\ came[i].outport \in Turns[i][came[i].vc]
      /\ \A o \in Outports : freed[o] # NoVc => outvc[o][freed[o]] = "ACTIVE"
      /\ vcs' = [i \in Inports |-> [v \in VCs |->
                   IF i \in new /\ v = came[i].vc
                   THEN [outport |-> came[i].outport, wait |-> PipeStages - 1]
                   ELSE vcs[i][v]]]
      /\ enqueued' = [i \in Inports |->
                        IF i \in new /\ get_vnet(came[i].vc) \in OrderedVnets
                        THEN enqueued[i] \cup (OrderedVcs(i) \X {came[i].vc})
                        ELSE enqueued[i]]
      /\ outvc' = [o \in Outports |-> [w \in VCs |->
                     IF w = freed[o] THEN "IDLE" ELSE outvc[o][w]]]
      /\ wakeups' = (wakeups \ {0}) \cup
                      (IF new = {} \/ PipeStages = 1 THEN {} ELSE {PipeStages - 1})
      /\ ran' = TRUE
      /\ stage' = "sa1"
      /\ UNCHANGED <<rrVars, winner>>

need_stage(i, v, t) == vcs[i][v] # NoFlit /\ vcs[i][v].wait <= t
IdleVcs(o, vnet) == {w \in VCs : get_vnet(w) = vnet /\ outvc[o][w] = "IDLE"}
has_free_vc(o, vnet) == IdleVcs(o, vnet) # {}

\* The outport field of the VC.  grant_outport, which would set it, is never
\* called: the outport is kept in the flit.
get_outport(i, v) == -1

EarlierVcs(i, v) == {w \in VCs : <<w, v>> \in enqueued[i]}

send_allowed(i, v, o) ==
  /\ has_free_vc(o, get_vnet(v))
  /\ get_vnet(v) \in OrderedVnets =>
       ~\E w \in EarlierVcs(i, v) :
          get_vnet(w) = get_vnet(v) /\ need_stage(i, w, 0) /\ get_outport(i, w) = o

\* The VCs of inport i that SA-I may choose.
Candidates(i) ==
  {v \in VCs : need_stage(i, v, 0) /\ send_allowed(i, v, vcs[i][v].outport)}

\* Places from p on to x, going round n of them.
Around(p, x, n) == IF x >= p THEN x - p ELSE x - p + n
FirstFrom(p, S, n) == CHOOSE x \in S : \A y \in S : Around(p, x, n) <= Around(p, y, n)
Advance_noWrap(p, n) == p + 1

Advance(p, n) == IF p + 1 >= n THEN 0 ELSE p + 1

LowestOf(S) == CHOOSE x \in S : \A y \in S : x <= y

Chosen_lowest(i) == LowestOf(Candidates(i))

\* The VC that inport i asks for the switch with.
Chosen(i) == FirstFrom(m_round_robin_invc[i], Candidates(i), NumVcs)

arbitrate_inports ==
  LET asking == {i \in Inports : Candidates(i) # {}}
      pick == [i \in asking |-> Chosen(i)]
  IN  /\ stage = "sa1"
      /\ winner' = [o \in Outports |-> [i \in Inports |->
                      IF i \in asking /\ vcs[i][pick[i]].outport = o THEN pick[i] ELSE winner[o][i]]]
      /\ m_round_robin_invc' = [i \in Inports |->
           IF i \in asking THEN Advance(m_round_robin_invc[i], NumVcs) ELSE m_round_robin_invc[i]]
      /\ stage' = "sa2"
      /\ UNCHANGED <<vcs, enqueued, outvc, m_round_robin_inport, wakeups, ran>>

Requesters(o) == {i \in Inports : winner[o][i] # NoVc}
select_free_vc(o, vnet) == LowestOf(IdleVcs(o, vnet))

Requested == {o \in Outports : Requesters(o) # {}}

Granted_lowest(o) == LowestOf(Requesters(o))

Granted(o) == FirstFrom(m_round_robin_inport[o], Requesters(o), NumInports)

Allocated_notActive(o, w) == FALSE

\* VC v of inport i wins the switch and, behind its outport, VC w.
Wins(i, v) == \E o \in Requested : i = Granted(o) /\ v = winner[o][i]
Allocated(o, w) ==
  o \in Requested /\ w = select_free_vc(o, get_vnet(winner[o][Granted(o)]))

clear_request_vector == winner' = NoRequests

check_for_wakeup_now ==
  wakeups' = wakeups \cup
    (IF \E i \in Inports, v \in VCs : need_stage(i, v, 0) /\ ~Wins(i, v) THEN {1} ELSE {})

\* need_stage(SA_, nextCycle) for the flits that stay.
check_for_wakeup ==
  wakeups' = wakeups \cup
    (IF \E i \in Inports, v \in VCs : need_stage(i, v, 1) /\ ~Wins(i, v) THEN {1} ELSE {})

\* SA-II and the rest of wakeup().  The outports share no state: an inport has
\* asked for one of them only.
arbitrate_outports ==
  /\ stage = "sa2"
  /\ vcs' = [i \in Inports |-> [v \in VCs |-> IF Wins(i, v) THEN NoFlit ELSE vcs[i][v]]]
  /\ enqueued' = [i \in Inports |-> {p \in enqueued[i] : ~Wins(i, p[1]) /\ ~Wins(i, p[2])}]
  /\ outvc' = [o \in Outports |-> [w \in VCs |->
                 IF Allocated(o, w) THEN "ACTIVE" ELSE outvc[o][w]]]
  /\ m_round_robin_inport' = [o \in Outports |->
       IF o \in Requested THEN Advance(m_round_robin_inport[o], NumInports)
       ELSE m_round_robin_inport[o]]
  /\ clear_request_vector
  /\ check_for_wakeup
  /\ stage' = "asleep"
  /\ UNCHANGED <<m_round_robin_invc, ran>>

-----------------------------------------------------------------------------
Aged(f) == IF f # NoFlit /\ f.wait > 0 THEN [f EXCEPT !.wait = @ - 1] ELSE f

Tick ==
  /\ stage = "asleep"
  /\ ran \/ 0 \notin wakeups
  /\ vcs' = [i \in Inports |-> [v \in VCs |-> Aged(vcs[i][v])]]
  /\ wakeups' = {t - 1 : t \in wakeups}
  /\ ran' = FALSE
  /\ UNCHANGED <<enqueued, outvc, rrVars, winner, stage>>

Wakeup ==
  \/ \E came \in [Inports -> Arrival], freed \in [Outports -> VCs \cup {NoVc}] :
       wakeup_units(came, freed)
  \/ arbitrate_inports
  \/ arbitrate_outports

Next ==
  \/ Wakeup
  \/ Tick
  \/ \E i \in Inports, v \in VCs, f \in Flit : Exchange(i, v, f)

Spec == Init /\ [][Next]_vars

-----------------------------------------------------------------------------
\* Every variable has its type; the enqueue times order the flits of ordered
\* vnets in an inport, and the pipeline bounds how far ahead the router is
\* scheduled.
AllocTypeOK ==
  /\ vcs \in [Inports -> [VCs -> Flit \cup {NoFlit}]]
  /\ \A i \in Inports :
       /\ enqueued[i] \subseteq OrderedVcs(i) \X OrderedVcs(i)
       /\ \A v, w \in OrderedVcs(i) :
            v # w <=> (<<v, w>> \in enqueued[i] <=> <<w, v>> \notin enqueued[i])
  /\ outvc \in [Outports -> [VCs -> {"IDLE", "ACTIVE"}]]
  /\ m_round_robin_invc \in [Inports -> VCs]
  /\ m_round_robin_inport \in [Outports -> Inports]
  /\ winner \in [Outports -> [Inports -> VCs \cup {NoVc}]]
  /\ wakeups \subseteq 0 .. PipeStages
  /\ ran \in BOOLEAN
  /\ stage \in {"asleep", "sa1", "sa2"}

\* "Wakeup the router next cycle to perform SA again if there are flits ready"
\* (SwitchAllocator.cc:413-414) and "Wakeup the router in that cycle to perform
\* SA" (InputUnit.cc:170): while a flit is ready the router is scheduled, and for
\* one that waits it is scheduled in the cycle the wait ends or in the cycle
\* before, when check_for_wakeup will see it.
NoFlitOversleeps ==
  stage = "asleep" =>
    \A i \in Inports, v \in VCs : vcs[i][v] # NoFlit =>
      LET wait == vcs[i][v].wait
      IN  \E t \in wakeups : t \in {wait - 1, wait} \/ (wait = 0 /\ ran /\ t = 1)

\* "as the winner for this output port in a round robin manner" (arbitrate_outports):
\* an inport that asks for an outport and loses is nearer to the pointer at
\* the next grant, so it can lose NumInports - 1 times in a row at most.
InportsTakeTurns ==
  [][\A o \in Outports : \A i \in Requesters(o) :
       stage = "sa2" /\ vcs'[i][winner[o][i]] # NoFlit =>
         Around(m_round_robin_inport'[o], i, NumInports) <
           Around(m_round_robin_inport[o], i, NumInports)]_vars

\* "selects one in a round robin manner" (arbitrate_inports): a VC that is fit
\* when its inport chooses another is nearer to the pointer at the next choice.
VcsTakeTurns ==
  [][\A i \in Inports : \A v \in Candidates(i) :
       stage = "sa1" /\ (\A o \in Outports : winner'[o][i] # v) =>
         Around(m_round_robin_invc'[i], v, NumVcs) <
           Around(m_round_robin_invc[i], v, NumVcs)]_vars

\* "there should be no other flit in this input port within an ordered vnet
\* that arrived before this flit and is requesting the same output port"
\* (send_allowed): no flit of an ordered vnet overtakes one that came before it.
PtToPtOrder ==
  [][\A i \in Inports, v \in VCs :
       vcs[i][v] # NoFlit /\ vcs'[i][v] = NoFlit /\ get_vnet(v) \in OrderedVnets =>
         ~\E w \in EarlierVcs(i, v) :
            /\ get_vnet(w) = get_vnet(v)
            /\ need_stage(i, w, 0)
            /\ vcs[i][w].outport = vcs[i][v].outport]_vars

\* The allocator keeps the promises of SwitchContract: no cycle in which a
\* flit could go passes without one that goes, at most one for each port, and
\* each finds the idle VC that the assert in vc_allocate demands.
Contract == INSTANCE SwitchContract WITH held <- vcs, served <- ran /\ stage = "asleep"
KeepsContract == Contract!Spec

=============================================================================
