------------------------ MODULE SwitchAllocatorProofs ------------------------
(***************************************************************************)
(* The switch allocator keeps the contract of SwitchContract and takes     *)
(* turns, for any number of ports, vnets and VCs.  With swaps the router   *)
(* latency must be at most 2: an exchanged flit schedules nobody.          *)
(***************************************************************************)
EXTENDS SwitchAllocator, WellFoundedInduction, TLAPS

\* Every nonempty set of natural numbers has a least element.
LEMMA LeastExists ==
  ASSUME NEW S \in SUBSET Nat, S # {}
  PROVE  \E x \in S : \A y \in S : x <= y
<1> DEFINE R == OpToRel(<, Nat)
<1>1. PICK x \in S : \A y \in S : ~(<<y, x>> \in R)
  BY Zenon, NatLessThanWellFounded, WFMin
<1>2. \A y \in S : y < x => <<y, x>> \in R
  BY DEF OpToRel
<1> HIDE DEF R
<1>3. \A y \in S : ~(y < x)
  BY Zenon, <1>1, <1>2
<1> QED
  BY <1>3

LEMMA Sizes ==
  /\ NumInports \in Nat \ {0} /\ NumOutports \in Nat \ {0} /\ PipeStages \in Nat \ {0}
  /\ NumVcs \in Nat \ {0}
BY AllocatorAssumption DEF NumVcs

\* The round robin loops find an element when there is one: the one with the
\* fewest steps from the pointer.
LEMMA FirstFromCorrect ==
  ASSUME NEW n \in Nat \ {0}, NEW p \in 0 .. n - 1, NEW S \in SUBSET (0 .. n - 1), S # {}
  PROVE  /\ FirstFrom(p, S, n) \in S
         /\ \A y \in S : Around(p, FirstFrom(p, S, n), n) <= Around(p, y, n)
<1> DEFINE D == {Around(p, x, n) : x \in S}
<1>1. \A x \in S : Around(p, x, n) \in Nat
  BY DEF Around
<1>2. PICK d \in D : \A e \in D : d <= e
  <2>1. D \in SUBSET Nat /\ D # {}
    BY Zenon, <1>1
  <2> QED
    BY Zenon, <2>1, LeastExists
<1>3. \E x \in S : \A y \in S : Around(p, x, n) <= Around(p, y, n)
  BY <1>2
<1> QED
  BY Zenon, <1>3 DEF FirstFrom

\* An element that is passed over comes one place nearer to the pointer.
LEMMA PassedOverAdvances ==
  ASSUME NEW n \in Nat \ {0}, NEW p \in 0 .. n - 1, NEW S \in SUBSET (0 .. n - 1),
         NEW x \in S, x # FirstFrom(p, S, n)
  PROVE  Around(Advance(p, n), x, n) < Around(p, x, n)
<1>1. /\ FirstFrom(p, S, n) \in 0 .. n - 1
      /\ Around(p, FirstFrom(p, S, n), n) <= Around(p, x, n)
  BY Zenon, FirstFromCorrect
<1>2. x # p
  BY <1>1 DEF Around
<1> QED
  BY <1>2 DEF Around, Advance

LEMMA LowestOfCorrect ==
  ASSUME NEW S \in SUBSET Nat, S # {}
  PROVE  LowestOf(S) \in S
BY Zenon, LeastExists DEF LowestOf

-----------------------------------------------------------------------------
\* The inductive invariant.
AllocTypes ==
  /\ vcs \in [Inports -> [VCs -> Flit \cup {NoFlit}]]
  /\ outvc \in [Outports -> [VCs -> {"IDLE", "ACTIVE"}]]
  /\ m_round_robin_invc \in [Inports -> VCs]
  /\ m_round_robin_inport \in [Outports -> Inports]
  /\ winner \in [Outports -> [Inports -> VCs \cup {NoVc}]]
  /\ wakeups \subseteq Int
  /\ ran \in BOOLEAN
  /\ stage \in {"asleep", "sa1", "sa2"}

\* Between SA-I and SA-II an inport that has a candidate asks with one, and
\* asks only for the outport its flit is routed to.
InportAsks(i) ==
  /\ \A o \in Outports : winner[o][i] # NoVc =>
       winner[o][i] \in Candidates(i) /\ vcs[i][winner[o][i]].outport = o
  /\ \A o, p \in Outports : winner[o][i] # NoVc /\ winner[p][i] # NoVc => o = p
  /\ Candidates(i) # {} => \E o \in Outports : winner[o][i] # NoVc
Requests ==
  /\ stage # "sa2" => winner = NoRequests
  /\ stage = "sa2" => \A i \in Inports : InportAsks(i)

\* The cycle for which the router is scheduled on account of a flit that has
\* to wait for w cycles.
AlarmFor(hasRun, w) ==
  IF PipeStages <= 2 THEN IF hasRun THEN 1 ELSE 0 ELSE IF hasRun /\ w = 0 THEN 1 ELSE w
Alarms ==
  \A i \in Inports, v \in VCs : vcs[i][v] # NoFlit =>
    /\ stage = "asleep" => AlarmFor(ran, vcs[i][v].wait) \in wakeups
    /\ PipeStages > 2 /\ vcs[i][v].wait > 1 => vcs[i][v].wait \in wakeups
Awake == stage # "asleep" => ran

AllocInv == AllocTypes /\ Requests /\ Alarms /\ Awake

\* With swaps, flits wait at most one cycle.
SwapLatency == Interswap => PipeStages <= 2

-----------------------------------------------------------------------------
LEMMA FlitFields ==
  ASSUME AllocTypes, NEW i \in Inports, NEW v \in VCs, vcs[i][v] # NoFlit
  PROVE  /\ vcs[i][v] \in Flit
         /\ vcs[i][v].outport \in Outports
         /\ vcs[i][v].wait \in 0 .. PipeStages - 1
BY DEF AllocTypes, Flit

\* The check of ordered vnets in send_allowed never applies, so a flit is a
\* candidate when it is ready and a VC behind its outport is idle.
LEMMA CandidateIff ==
  ASSUME AllocTypes, NEW i \in Inports, NEW v \in VCs
  PROVE  v \in Candidates(i) <=>
           /\ vcs[i][v] # NoFlit
           /\ vcs[i][v].wait = 0
           /\ IdleVcs(vcs[i][v].outport, get_vnet(v)) # {}
<1>1. CASE vcs[i][v] = NoFlit
  BY <1>1 DEF Candidates, need_stage
<1>2. CASE vcs[i][v] # NoFlit
  <2>1. vcs[i][v].wait \in Nat /\ vcs[i][v].outport # -1
    BY <1>2, FlitFields, Sizes DEF Outports
  <2>2. send_allowed(i, v, vcs[i][v].outport) <=> IdleVcs(vcs[i][v].outport, get_vnet(v)) # {}
    BY <2>1 DEF send_allowed, has_free_vc, get_outport
  <2> QED
    BY <1>2, <2>1, <2>2 DEF Candidates, need_stage
<1> QED
  BY <1>1, <1>2

LEMMA InitInv == Init => AllocInv
<1> SUFFICES ASSUME Init PROVE AllocInv
  OBVIOUS
<1> USE DEF Init
<1>1. AllocTypes
  <2>1. 0 \in VCs /\ 0 \in Inports
    BY Sizes DEF VCs, Inports
  <2> QED
    BY Zenon, <2>1 DEF AllocTypes, NoRequests
<1>2. Requests /\ Awake
  BY DEF Requests, Awake
<1>3. Alarms
  BY DEF Alarms
<1> QED
  BY <1>1, <1>2, <1>3 DEF AllocInv

LEMMA ExchangeInv ==
  ASSUME AllocInv, SwapLatency, NEW i \in Inports, NEW v \in VCs, NEW f \in Flit,
         Exchange(i, v, f)
  PROVE  AllocInv'
<1> USE DEF AllocInv, Exchange, rrVars
<1>1. AllocTypes'
  BY DEF AllocTypes
<1>2. Requests' /\ Awake'
  BY DEF Requests, Awake
<1>3. Alarms'
  <2>1. PipeStages <= 2 /\ ~(PipeStages > 2)
    BY Sizes DEF SwapLatency
  <2>2. \A j \in Inports, w \in VCs : vcs'[j][w] # NoFlit => vcs[j][w] # NoFlit
    BY DEF AllocTypes
  <2> QED
    BY <2>1, <2>2 DEF Alarms, AlarmFor
<1> QED
  BY <1>1, <1>2, <1>3

LEMMA UnitsInv ==
  ASSUME AllocInv, NEW came \in [Inports -> Arrival], NEW freed \in [Outports -> VCs \cup {NoVc}],
         wakeup_units(came, freed)
  PROVE  AllocInv'
<1> USE DEF AllocInv, wakeup_units, rrVars
<1>1. AllocTypes'
  <2>1. \A i \in Inports : came[i] # NoFlit =>
          [outport |-> came[i].outport, wait |-> PipeStages - 1] \in Flit
    BY Sizes DEF Arrival, Flit
  <2>2. vcs' \in [Inports -> [VCs -> Flit \cup {NoFlit}]]
    BY <2>1 DEF AllocTypes
  <2>3. outvc' \in [Outports -> [VCs -> {"IDLE", "ACTIVE"}]]
    BY DEF AllocTypes
  <2>4. wakeups' \subseteq Int
    BY Sizes DEF AllocTypes
  <2> QED
    BY <2>2, <2>3, <2>4 DEF AllocTypes
<1>2. Requests' /\ Awake'
  BY DEF Requests, Awake
<1>3. Alarms'
  <2> SUFFICES ASSUME NEW i \in Inports, NEW v \in VCs, vcs'[i][v] # NoFlit,
                      PipeStages > 2, vcs'[i][v].wait > 1
               PROVE  vcs'[i][v].wait \in wakeups'
    BY DEF Alarms
  <2>1. CASE came[i] # NoFlit /\ v = came[i].vc
    BY <2>1, Sizes
  <2>2. CASE ~(came[i] # NoFlit /\ v = came[i].vc)
    BY <2>2 DEF Alarms
  <2> QED
    BY <2>1, <2>2
<1> QED
  BY <1>1, <1>2, <1>3

\* The choice of SA-I.
LEMMA ChosenCorrect ==
  ASSUME AllocTypes, NEW i \in Inports, Candidates(i) # {}
  PROVE  Chosen(i) \in Candidates(i)
<1>1. Candidates(i) \in SUBSET (0 .. NumVcs - 1)
  BY DEF Candidates, VCs
<1>2. m_round_robin_invc[i] \in 0 .. NumVcs - 1
  BY DEF AllocTypes, VCs
<1> QED
  BY <1>1, <1>2, Sizes, FirstFromCorrect DEF Chosen

LEMMA AdvanceType ==
  ASSUME NEW n \in Nat \ {0}, NEW p \in 0 .. n - 1
  PROVE  Advance(p, n) \in 0 .. n - 1
BY DEF Advance

LEMMA InportsInv ==
  ASSUME AllocInv, arbitrate_inports
  PROVE  AllocInv'
<1> USE DEF AllocInv
<1> DEFINE asking == {i \in Inports : Candidates(i) # {}}
           Asks(i, o) == i \in asking /\ vcs[i][Chosen(i)].outport = o
<1>1. \A i \in asking : Chosen(i) \in Candidates(i) /\ Chosen(i) \in VCs
  BY ChosenCorrect DEF Candidates
<1>2. \A o \in Outports, i \in Inports : winner'[o][i] = IF Asks(i, o) THEN Chosen(i) ELSE NoVc
  BY DEF arbitrate_inports, Requests, NoRequests
<1>3. AllocTypes'
  <2>1. winner' \in [Outports -> [Inports -> VCs \cup {NoVc}]]
    <3>1. winner' = [o \in Outports |-> [i \in Inports |-> winner'[o][i]]]
      BY DEF arbitrate_inports
    <3>2. \A o \in Outports, i \in Inports : winner'[o][i] \in VCs \cup {NoVc}
      BY <1>1, <1>2
    <3> QED
      BY <3>1, <3>2
  <2>2. m_round_robin_invc' \in [Inports -> VCs]
    <3>1. \A i \in Inports : Advance(m_round_robin_invc[i], NumVcs) \in VCs
      BY AdvanceType, Sizes DEF AllocTypes, VCs
    <3> QED
      BY <3>1 DEF arbitrate_inports, AllocTypes
  <2> QED
    BY Zenon, <2>1, <2>2 DEF AllocTypes, arbitrate_inports
<1>4. Requests'
  <2>1. \A i \in Inports : Candidates(i)' = Candidates(i)
    <3>1. vcs' = vcs /\ outvc' = outvc /\ enqueued' = enqueued
      BY DEF arbitrate_inports
    <3>2. \A i \in Inports, v \in VCs : EarlierVcs(i, v)' = EarlierVcs(i, v)
      BY <3>1 DEF EarlierVcs
    <3>3. \A o : \A i \in Inports, v \in VCs : send_allowed(i, v, o)' <=> send_allowed(i, v, o)
      BY <3>1, <3>2 DEF send_allowed, need_stage, has_free_vc, IdleVcs, get_outport
    <3> QED
      BY <3>1, <3>3 DEF Candidates, need_stage
  <2>2. ASSUME NEW i \in Inports PROVE InportAsks(i)'
    <3>1. \A o \in Outports : winner'[o][i] # NoVc => Asks(i, o)
      BY <1>2
    <3>2. \A o \in Outports : Asks(i, o) => winner'[o][i] = Chosen(i) /\ winner'[o][i] # NoVc
      BY <1>1, <1>2, AllocatorAssumption, Sizes DEF VCs
    <3>3. \A o \in Outports : winner'[o][i] # NoVc =>
            winner'[o][i] \in Candidates(i)' /\ vcs'[i][winner'[o][i]].outport = o
      BY Zenon, <3>1, <3>2, <1>1, <2>1 DEF arbitrate_inports
    <3>4. \A o, p \in Outports : winner'[o][i] # NoVc /\ winner'[p][i] # NoVc => o = p
      BY <3>1
    <3>5. Candidates(i)' # {} => \E o \in Outports : winner'[o][i] # NoVc
      <4> SUFFICES ASSUME Candidates(i) # {} PROVE \E o \in Outports : winner'[o][i] # NoVc
        BY <2>1
      <4>1. vcs[i][Chosen(i)].outport \in Outports
        BY <1>1, CandidateIff, FlitFields
      <4> QED
        BY <4>1, <3>2
    <3> QED
      BY <3>3, <3>4, <3>5 DEF InportAsks
  <2> QED
    BY <2>2 DEF Requests, arbitrate_inports
<1>5. Alarms' /\ Awake'
  BY DEF arbitrate_inports, Alarms, Awake
<1> QED
  BY <1>3, <1>4, <1>5

\* The choice of SA-II: an inport that asks, and an idle VC for its flit.
LEMMA GrantedCorrect ==
  ASSUME AllocTypes, NEW o \in Requested
  PROVE  /\ Granted(o) \in Inports
         /\ winner[o][Granted(o)] # NoVc
         /\ winner[o][Granted(o)] \in VCs
<1>1. Requesters(o) \in SUBSET (0 .. NumInports - 1) /\ Requesters(o) # {}
  BY DEF Requested, Requesters, Inports
<1>2. m_round_robin_inport[o] \in 0 .. NumInports - 1
  BY DEF AllocTypes, Inports, Requested
<1>3. Granted(o) \in Requesters(o)
  BY <1>1, <1>2, Sizes, FirstFromCorrect DEF Granted
<1> QED
  BY <1>3 DEF Requesters, Requested, AllocTypes

LEMMA OutportsInv ==
  ASSUME AllocInv, arbitrate_outports
  PROVE  AllocInv'
<1> USE DEF AllocInv, arbitrate_outports
<1>1. AllocTypes'
  <2>1. vcs' \in [Inports -> [VCs -> Flit \cup {NoFlit}]]
    BY DEF AllocTypes
  <2>2. outvc' \in [Outports -> [VCs -> {"IDLE", "ACTIVE"}]]
    BY DEF AllocTypes
  <2>3. m_round_robin_inport' \in [Outports -> Inports]
    <3>1. \A o \in Outports : Advance(m_round_robin_inport[o], NumInports) \in Inports
      BY AdvanceType, Sizes DEF AllocTypes, Inports
    <3> QED
      BY <3>1 DEF AllocTypes
  <2>4. winner' \in [Outports -> [Inports -> VCs \cup {NoVc}]]
    BY DEF clear_request_vector, NoRequests
  <2>5. wakeups' \subseteq Int
    BY DEF AllocTypes, check_for_wakeup
  <2> QED
    BY <2>1, <2>2, <2>3, <2>4, <2>5 DEF AllocTypes
<1>2. Requests' /\ Awake'
  BY DEF Requests, Awake, clear_request_vector
<1>3. Alarms'
  <2> SUFFICES ASSUME NEW i \in Inports, NEW v \in VCs, vcs'[i][v] # NoFlit
               PROVE  /\ AlarmFor(ran', vcs'[i][v].wait) \in wakeups'
                      /\ PipeStages > 2 /\ vcs'[i][v].wait > 1 => vcs'[i][v].wait \in wakeups'
    BY DEF Alarms
  <2>1. ~Wins(i, v) /\ vcs'[i][v] = vcs[i][v] /\ ran' /\ wakeups \subseteq wakeups'
    BY DEF Awake, check_for_wakeup
  <2>2. vcs[i][v].wait \in 0 .. PipeStages - 1
    BY <2>1, FlitFields
  <2>3. vcs[i][v].wait <= 1 => 1 \in wakeups'
    BY <2>1 DEF check_for_wakeup, need_stage
  <2>4. PipeStages > 2 /\ vcs[i][v].wait > 1 => vcs[i][v].wait \in wakeups'
    BY <2>1 DEF Alarms
  <2>5. AlarmFor(ran', vcs[i][v].wait) \in wakeups'
    <3>1. AlarmFor(ran', vcs[i][v].wait) =
            IF PipeStages <= 2 \/ vcs[i][v].wait = 0 THEN 1 ELSE vcs[i][v].wait
      BY <2>1, Zenon DEF AlarmFor
    <3> HIDE DEF arbitrate_outports, AllocInv
    <3>2. CASE vcs[i][v].wait <= 1
      BY <3>1, <3>2, <2>2, <2>3, Sizes
    <3>3. CASE vcs[i][v].wait > 1
      BY <3>1, <3>3, <2>2, <2>4, Sizes
    <3> QED
      BY <3>2, <3>3, <2>2
  <2> QED
    BY Zenon, <2>1, <2>4, <2>5
<1> QED
  BY <1>1, <1>2, <1>3

LEMMA AgedFlit ==
  ASSUME AllocTypes, NEW i \in Inports, NEW v \in VCs
  PROVE  /\ Aged(vcs[i][v]) \in Flit \cup {NoFlit}
         /\ Aged(vcs[i][v]) # NoFlit =>
              /\ vcs[i][v] # NoFlit
              /\ Aged(vcs[i][v]).wait = IF vcs[i][v].wait = 0 THEN 0 ELSE vcs[i][v].wait - 1
<1>1. CASE vcs[i][v] = NoFlit
  BY <1>1 DEF Aged
<1>2. CASE vcs[i][v] # NoFlit
  <2>1. vcs[i][v] \in Flit /\ vcs[i][v].wait \in 0 .. PipeStages - 1
    BY <1>2, FlitFields
  <2> QED
    BY <1>2, <2>1, FlitAssumption, Sizes DEF Aged, Flit
<1> QED
  BY <1>1, <1>2

LEMMA TickInv ==
  ASSUME AllocInv, Tick
  PROVE  AllocInv'
<1> USE DEF AllocInv, Tick, rrVars
<1>1. AllocTypes'
  <2>1. vcs' \in [Inports -> [VCs -> Flit \cup {NoFlit}]]
    BY AgedFlit
  <2>2. wakeups' \subseteq Int
    <3>1. wakeups' = {t - 1 : t \in wakeups}
      OBVIOUS
    <3>2. wakeups \subseteq Int
      BY DEF AllocTypes
    <3> HIDE DEF AllocInv, Tick, rrVars
    <3>3. \A t \in wakeups : t - 1 \in Int
      BY <3>2
    <3> QED
      BY <3>1, <3>3
  <2> QED
    BY Zenon, <2>1, <2>2 DEF AllocTypes
<1>2. Requests' /\ Awake'
  BY DEF Requests, Awake
<1>3. Alarms'
  <2> SUFFICES ASSUME NEW i \in Inports, NEW v \in VCs, vcs'[i][v] # NoFlit
               PROVE  /\ AlarmFor(ran', vcs'[i][v].wait) \in wakeups'
                      /\ PipeStages > 2 /\ vcs'[i][v].wait > 1 => vcs'[i][v].wait \in wakeups'
    BY DEF Alarms
  <2>1. /\ vcs[i][v] # NoFlit
        /\ vcs'[i][v].wait = IF vcs[i][v].wait = 0 THEN 0 ELSE vcs[i][v].wait - 1
    BY AgedFlit
  <2>2. vcs[i][v].wait \in 0 .. PipeStages - 1
    BY <2>1, FlitFields
  <2>3. AlarmFor(ran, vcs[i][v].wait) \in wakeups
    BY <2>1 DEF Alarms
  <2>4. \A t \in wakeups : t - 1 \in wakeups'
    OBVIOUS
  <2>5. AlarmFor(ran, vcs[i][v].wait) \in Int /\ ~ran' /\ (ran \/ 0 \notin wakeups)
    BY Zenon, <2>3 DEF AllocTypes
  <2>6. AlarmFor(ran', vcs'[i][v].wait) = AlarmFor(ran, vcs[i][v].wait) - 1
    BY <2>1, <2>2, <2>3, <2>5, Sizes DEF AlarmFor
  <2>7. PipeStages > 2 => AlarmFor(ran', vcs'[i][v].wait) = vcs'[i][v].wait
    BY <2>5, Sizes DEF AlarmFor
  <2> QED
    BY <2>3, <2>4, <2>6, <2>7
<1> QED
  BY <1>1, <1>2, <1>3

LEMMA StepInv ==
  ASSUME AllocInv, SwapLatency, [Next]_vars
  PROVE  AllocInv'
<1>1. CASE Wakeup
  BY <1>1, UnitsInv, InportsInv, OutportsInv DEF Wakeup
<1>2. CASE Tick
  BY <1>2, TickInv
<1>3. CASE \E i \in Inports, v \in VCs, f \in Flit : Exchange(i, v, f)
  BY <1>3, ExchangeInv
<1>4. CASE UNCHANGED vars
  <2> USE <1>4 DEF vars, rrVars
  <2>1. AllocTypes' /\ Alarms' /\ Awake'
    BY DEF AllocInv, AllocTypes, Alarms, Awake
  <2>2. Requests'
    <3>1. \A i \in Inports : Candidates(i)' = Candidates(i)
      BY DEF Candidates, need_stage, send_allowed, has_free_vc, IdleVcs, EarlierVcs, get_outport
    <3> QED
      BY <3>1 DEF AllocInv, Requests, InportAsks
  <2> QED
    BY <2>1, <2>2 DEF AllocInv
<1> QED
  BY <1>1, <1>2, <1>3, <1>4 DEF Next

\* The invariant holds in every behaviour.
THEOREM InvCorrect == SwapLatency /\ Spec => []AllocInv
<1>1. SwapLatency /\ AllocInv /\ [Next]_vars => AllocInv'
  BY StepInv
<1>2. SwapLatency => SwapLatency'
  BY DEF SwapLatency
<1> QED
  BY InitInv, <1>1, <1>2, PTL DEF Spec

-----------------------------------------------------------------------------
\* Every step is a step of SwitchContract.
LEMMA SameSets ==
  /\ Contract!Inports = Inports /\ Contract!Outports = Outports
  /\ Contract!VCs = VCs /\ Contract!Flit = Flit
BY DEF Contract!Inports, Inports, Contract!Outports, Outports, Contract!VCs, VCs, NumVcs,
       Contract!Flit, Flit

LEMMA SameIdle ==
  ASSUME NEW o, NEW v
  PROVE  Contract!IdleFor(o, v) = IdleVcs(o, get_vnet(v))
BY SameSets DEF Contract!IdleFor, Contract!SameVnet, IdleVcs, get_vnet

LEMMA SameCandidates ==
  ASSUME AllocTypes, NEW i \in Inports, NEW v \in VCs
  PROVE  Contract!CanGo(i, v) <=> v \in Candidates(i)
BY SMTT(40), CandidateIff, SameIdle DEF Contract!CanGo

LEMMA ReceiveStep ==
  ASSUME AllocInv, AllocInv', NEW came, NEW freed, wakeup_units(came, freed)
  PROVE  Contract!Receive
<1> USE SameSets DEF wakeup_units
<1>1. /\ vcs' \in [Inports -> [VCs -> Flit \cup {NoFlit}]]
      /\ outvc' \in [Outports -> [VCs -> {"IDLE", "ACTIVE"}]]
  BY DEF AllocInv, AllocTypes
<1>2. \A i \in Inports, v \in VCs : vcs[i][v] # NoFlit => vcs'[i][v] = vcs[i][v]
  OBVIOUS
<1>3. \A o \in Outports, w \in VCs : outvc[o][w] = "IDLE" => outvc'[o][w] = "IDLE"
  OBVIOUS
<1>4. (ran /\ stage = "asleep")' = (ran /\ stage = "asleep")
  OBVIOUS
<1> QED
  BY Zenon, <1>1, <1>2, <1>3, <1>4 DEF Contract!Receive

LEMMA CycleStep ==
  ASSUME AllocInv, Tick
  PROVE  Contract!NextCycle
<1> USE DEF Tick
<1>1. ran \/ Contract!Sendable = {}
  <2> SUFFICES ASSUME ~ran, NEW i \in Inports, NEW v \in VCs, Contract!CanGo(i, v)
               PROVE  FALSE
    BY SameSets DEF Contract!Sendable
  <2>1. vcs[i][v] # NoFlit /\ vcs[i][v].wait = 0
    BY DEF Contract!CanGo
  <2>2. AlarmFor(ran, vcs[i][v].wait) \in wakeups
    BY <2>1 DEF AllocInv, Alarms
  <2> QED
    BY <2>1, <2>2 DEF AlarmFor
<1>2. vcs' = [i \in Inports |-> [v \in VCs |-> Contract!Aged(vcs[i][v])]]
  BY DEF Aged, Contract!Aged
<1> QED
  BY <1>1, <1>2, SameSets DEF Contract!NextCycle

\* The flits that leave are those that win, and the VCs that are taken those
\* allocated to them.
LEMMA WinnersLeave ==
  ASSUME AllocInv, arbitrate_outports, NEW i \in Inports, NEW v \in VCs
  PROVE  /\ Wins(i, v) => v \in Candidates(i)
         /\ Contract!Leaves(i, v) <=> Wins(i, v)
<1>1. ASSUME Wins(i, v) PROVE v \in Candidates(i)
  <2>1. PICK o \in Requested : i = Granted(o) /\ v = winner[o][i]
    BY <1>1 DEF Wins
  <2> QED
    BY <2>1, GrantedCorrect DEF AllocInv, Requests, InportAsks, arbitrate_outports, Requested
<1>2. Wins(i, v) => vcs[i][v] # NoFlit
  BY <1>1, CandidateIff DEF AllocInv
<1>3. vcs'[i][v] = IF Wins(i, v) THEN NoFlit ELSE vcs[i][v]
  BY DEF arbitrate_outports
<1> QED
  BY SMTT(40), <1>1, <1>2, <1>3 DEF Contract!Leaves

LEMMA WinnerOfOutport ==
  ASSUME AllocInv, arbitrate_outports, NEW o \in Requested
  PROVE  LET i == Granted(o)
             v == winner[o][i]
             w == select_free_vc(o, get_vnet(v))
         IN  /\ i \in Inports /\ v \in VCs
             /\ Wins(i, v)
             /\ vcs[i][v].outport = o
             /\ w \in IdleVcs(o, get_vnet(v))
<1> DEFINE i == Granted(o)
           v == winner[o][i]
<1>1. i \in Inports /\ v \in VCs /\ v # NoVc /\ o \in Outports
  BY GrantedCorrect DEF AllocInv, Requested
<1>2. Wins(i, v)
  BY SMTT(40) DEF Wins
<1>3. v \in Candidates(i) /\ vcs[i][v].outport = o
  BY <1>1 DEF AllocInv, Requests, InportAsks, arbitrate_outports
<1>4. IdleVcs(o, get_vnet(v)) # {}
  BY <1>1, <1>3, CandidateIff DEF AllocInv
<1>5. IdleVcs(o, get_vnet(v)) \in SUBSET Nat
  BY Sizes DEF IdleVcs, VCs
<1>6. select_free_vc(o, get_vnet(v)) \in IdleVcs(o, get_vnet(v))
  BY SMTT(40), <1>4, <1>5, LowestOfCorrect DEF select_free_vc
<1> QED
  BY <1>1, <1>2, <1>3, <1>6

LEMMA ServeStep ==
  ASSUME AllocInv, AllocInv', arbitrate_outports
  PROVE  Contract!Serve
<1> USE SameSets
<1>1. ~(ran /\ stage = "asleep") /\ (ran /\ stage = "asleep")' = TRUE
  BY DEF arbitrate_outports, AllocInv, AllocTypes, Awake
<1>2. /\ vcs' \in [Inports -> [VCs -> Flit \cup {NoFlit}]]
      /\ outvc' \in [Outports -> [VCs -> {"IDLE", "ACTIVE"}]]
  BY SMTT(40) DEF AllocInv, AllocTypes
<1>3. \A i \in Inports, v \in VCs : vcs'[i][v] # vcs[i][v] => Contract!Leaves(i, v)
  BY SMTT(40), WinnersLeave DEF arbitrate_outports
<1>4. \A o \in Outports, w \in VCs :
        outvc'[o][w] = IF Allocated(o, w) THEN "ACTIVE" ELSE outvc[o][w]
  BY DEF arbitrate_outports
<1>5. \A o \in Outports, w \in VCs : Allocated(o, w) => outvc[o][w] = "IDLE"
  BY WinnerOfOutport DEF Allocated, IdleVcs
<1>6. \A o \in Outports, w \in VCs : Contract!Taken(o, w) <=> Allocated(o, w)
  BY <1>4, <1>5 DEF Contract!Taken
<1>7. \A o \in Outports, w \in VCs : outvc'[o][w] # outvc[o][w] => Contract!Taken(o, w)
  BY <1>4, <1>6
<1>8. ASSUME NEW i \in Inports, NEW v \in VCs, Contract!Leaves(i, v)
      PROVE  /\ Contract!CanGo(i, v)
             /\ \E w \in Contract!IdleFor(vcs[i][v].outport, v) :
                  Contract!Taken(vcs[i][v].outport, w)
             /\ \A j \in Inports, w \in VCs : Contract!Leaves(j, w) /\ <<j, w>> # <<i, v>> =>
                  j # i /\ vcs[j][w].outport # vcs[i][v].outport
  <2>1. Wins(i, v) /\ v \in Candidates(i)
    BY <1>8, WinnersLeave
  <2>2. PICK o \in Requested : i = Granted(o) /\ v = winner[o][i]
    BY SMTT(40), <2>1 DEF Wins
  <2>3. o \in Outports /\ vcs[i][v].outport = o
        /\ select_free_vc(o, get_vnet(v)) \in IdleVcs(o, get_vnet(v))
    BY <2>2, WinnerOfOutport DEF Requested
  <2>4. Contract!CanGo(i, v)
    BY <2>1, SameCandidates DEF AllocInv
  <2>5. \E w \in Contract!IdleFor(o, v) : Contract!Taken(o, w)
    <3>1. select_free_vc(o, get_vnet(v)) \in VCs /\ Allocated(o, select_free_vc(o, get_vnet(v)))
      BY <2>2, <2>3 DEF Allocated, IdleVcs
    <3> QED
      BY <3>1, <2>3, <1>6, SameIdle
  <2>6. ASSUME NEW j \in Inports, NEW w \in VCs, Contract!Leaves(j, w), <<j, w>> # <<i, v>>
        PROVE  j # i /\ vcs[j][w].outport # vcs[i][v].outport
    <3>1. PICK p \in Requested : j = Granted(p) /\ w = winner[p][j]
      BY SMTT(40), <2>6, WinnersLeave DEF Wins
    <3>2. p \in Outports /\ vcs[j][w].outport = p /\ winner[p][j] # NoVc
      BY <3>1, WinnerOfOutport, GrantedCorrect DEF Requested, AllocInv
    <3>3. p # o
      BY SMTT(40), <2>2, <2>6, <3>1
    <3>4. j # i
      <4>1. winner[o][i] # NoVc
        BY SMTT(40), <2>2, GrantedCorrect DEF AllocInv
      <4>2. InportAsks(i)
        BY SMTT(40) DEF AllocInv, Requests, arbitrate_outports
      <4> QED
        BY <4>1, <4>2, <2>3, <3>2, <3>3 DEF InportAsks
    <3> QED
      BY <2>3, <3>2, <3>3, <3>4
  <2> QED
    BY <2>3, <2>4, <2>5, <2>6
<1>9. ASSUME NEW o \in Outports, NEW w \in VCs, Contract!Taken(o, w)
      PROVE  /\ \E i \in Inports, v \in VCs : Contract!Leaves(i, v) /\ vcs[i][v].outport = o
             /\ \A x \in VCs : Contract!Taken(o, x) => x = w
  BY SMTT(40), <1>6, <1>9, WinnerOfOutport, WinnersLeave DEF Allocated
<1>10. Contract!Sendable # {} => \E i \in Inports, v \in VCs : Contract!Leaves(i, v)
  <2> SUFFICES ASSUME NEW i \in Inports, NEW v \in VCs, Contract!CanGo(i, v)
               PROVE  \E j \in Inports, w \in VCs : Contract!Leaves(j, w)
    BY SMTT(40) DEF Contract!Sendable
  <2>1. PICK o \in Outports : winner[o][i] # NoVc
    BY SameCandidates DEF AllocInv, Requests, InportAsks, arbitrate_outports
  <2>2. o \in Requested
    BY <2>1 DEF Requested, Requesters
  <2> QED
    BY <2>2, WinnerOfOutport, WinnersLeave
<1> QED
  BY <1>1, <1>2, <1>3, <1>7, <1>8, <1>9, <1>10 DEF Contract!Serve

LEMMA ContractStep ==
  ASSUME AllocInv, AllocInv', [Next]_vars
  PROVE  [Contract!Next]_Contract!switchVars
<1>1. CASE \E came \in [Inports -> Arrival], freed \in [Outports -> VCs \cup {NoVc}] :
             wakeup_units(came, freed)
  BY <1>1, ReceiveStep DEF Contract!Next
<1>2. CASE arbitrate_inports
  BY <1>2 DEF arbitrate_inports, Contract!switchVars
<1>3. CASE arbitrate_outports
  BY <1>3, ServeStep DEF Contract!Next
<1>4. CASE Tick
  BY <1>4, CycleStep DEF Contract!Next
<1>5. CASE \E i \in Inports, v \in VCs, f \in Flit : Exchange(i, v, f)
  <2>1. PICK i \in Inports, v \in VCs, f \in Flit : Exchange(i, v, f)
    BY <1>5
  <2>2. vcs[i][v] # NoFlit /\ vcs' = [vcs EXCEPT ![i][v] = f]
    BY <2>1 DEF Exchange
  <2>3. UNCHANGED <<outvc, ran, stage>>
    BY <2>1 DEF Exchange
  <2>4. Contract!Replace
    BY Zenon, <2>2, <2>3, SameSets DEF Contract!Replace
  <2> QED
    BY <2>4 DEF Contract!Next
<1>6. CASE UNCHANGED vars
  BY <1>6 DEF vars, Contract!switchVars
<1> QED
  BY <1>1, <1>2, <1>3, <1>4, <1>5, <1>6 DEF Next, Wakeup

\* SA-I, SA-II, VC allocation and the wakeups that are scheduled together keep
\* the promises of SwitchContract: in every cycle in which a flit can be sent
\* one is sent, at most one from an inport and one to an outport, each into an
\* idle VC of its vnet.
THEOREM ContractKept == SwapLatency /\ Spec => KeepsContract
<1>1. Init => Contract!Init
  BY SameSets DEF Init, Contract!Init
<1>2. AllocInv /\ AllocInv' /\ [Next]_vars => [Contract!Next]_Contract!switchVars
  BY ContractStep
<1> QED
  BY <1>1, <1>2, InvCorrect, PTL DEF Spec, KeepsContract, Contract!Spec

\* check_for_wakeup and InputUnit::wakeup between them never leave a flit in
\* the router without a wakeup in time.
THEOREM NoneOversleeps == SwapLatency /\ Spec => []NoFlitOversleeps
<1>1. AllocInv => NoFlitOversleeps
  <2> SUFFICES ASSUME AllocInv, stage = "asleep", NEW i \in Inports, NEW v \in VCs,
                      vcs[i][v] # NoFlit
               PROVE  \E t \in wakeups : \/ t \in {vcs[i][v].wait - 1, vcs[i][v].wait}
                                         \/ vcs[i][v].wait = 0 /\ ran /\ t = 1
    BY DEF NoFlitOversleeps
  <2>1. AlarmFor(ran, vcs[i][v].wait) \in wakeups
    BY DEF AllocInv, Alarms
  <2>2. vcs[i][v].wait \in 0 .. PipeStages - 1
    BY FlitFields DEF AllocInv
  <2> QED
    BY <2>1, <2>2, Sizes DEF AlarmFor
<1> QED
  BY <1>1, InvCorrect, PTL

\* In SA-II an inport that loses comes nearer to the round robin pointer of
\* the outport it asks for.
THEOREM InportTurns == SwapLatency /\ Spec => InportsTakeTurns
<1> DEFINE Turn ==
      \A o \in Outports : \A i \in Requesters(o) :
        stage = "sa2" /\ vcs'[i][winner[o][i]] # NoFlit =>
          Around(m_round_robin_inport'[o], i, NumInports) <
            Around(m_round_robin_inport[o], i, NumInports)
<1>1. AllocInv /\ [Next]_vars => [Turn]_vars
  <2> SUFFICES ASSUME AllocInv, Next, NEW o \in Outports, NEW i \in Requesters(o),
                      stage = "sa2", vcs'[i][winner[o][i]] # NoFlit
               PROVE  Around(m_round_robin_inport'[o], i, NumInports) <
                        Around(m_round_robin_inport[o], i, NumInports)
    BY SMTT(40)
  <2>1. arbitrate_outports
    BY DEF Next, Wakeup, wakeup_units, arbitrate_inports, Tick, Exchange
  <2>2. i \in Inports /\ winner[o][i] \in VCs /\ o \in Requested
    BY SMTT(40) DEF Requesters, Requested, AllocInv, AllocTypes
  <2>3. i # Granted(o)
    BY Zenon, <2>1, <2>2 DEF arbitrate_outports, Wins
  <2>4. m_round_robin_inport'[o] = Advance(m_round_robin_inport[o], NumInports)
    BY <2>1, <2>2 DEF arbitrate_outports
  <2>5. m_round_robin_inport[o] \in 0 .. NumInports - 1
    BY DEF AllocInv, AllocTypes, Inports
  <2>6. Requesters(o) \in SUBSET (0 .. NumInports - 1)
    BY DEF Requesters, Inports
  <2> QED
    BY <2>3, <2>4, <2>5, <2>6, Sizes, PassedOverAdvances DEF Granted
<1> QED
  BY <1>1, InvCorrect, PTL DEF Spec, InportsTakeTurns

\* In SA-I a VC that is fit and not chosen comes nearer to the round robin
\* pointer of its inport.
THEOREM VcTurns == SwapLatency /\ Spec => VcsTakeTurns
<1> DEFINE Turn ==
      \A i \in Inports : \A v \in Candidates(i) :
        stage = "sa1" /\ (\A o \in Outports : winner'[o][i] # v) =>
          Around(m_round_robin_invc'[i], v, NumVcs) < Around(m_round_robin_invc[i], v, NumVcs)
<1>1. AllocInv /\ [Next]_vars => [Turn]_vars
  <2> SUFFICES ASSUME AllocInv, Next, NEW i \in Inports, NEW v \in Candidates(i),
                      stage = "sa1", \A o \in Outports : winner'[o][i] # v
               PROVE  Around(m_round_robin_invc'[i], v, NumVcs) <
                        Around(m_round_robin_invc[i], v, NumVcs)
    BY SMTT(40)
  <2>1. arbitrate_inports
    BY SMTT(40) DEF Next, Wakeup, wakeup_units, arbitrate_outports, Tick, Exchange
  <2>2. v # Chosen(i)
    <3>1. v \in VCs
      BY DEF Candidates
    <3>2. vcs[i][v].outport \in Outports
      BY <3>1, CandidateIff, FlitFields DEF AllocInv
    <3> QED
      BY Zenon, <2>1, <3>2 DEF arbitrate_inports
  <2>3. m_round_robin_invc'[i] = Advance(m_round_robin_invc[i], NumVcs)
    BY <2>1 DEF arbitrate_inports
  <2>4. m_round_robin_invc[i] \in 0 .. NumVcs - 1
    BY DEF AllocInv, AllocTypes, VCs
  <2>5. Candidates(i) \in SUBSET (0 .. NumVcs - 1)
    BY DEF Candidates, VCs
  <2> QED
    BY <2>2, <2>3, <2>4, <2>5, Sizes, PassedOverAdvances DEF Chosen
<1> QED
  BY <1>1, InvCorrect, PTL DEF Spec, VcsTakeTurns

-----------------------------------------------------------------------------
\* What the types of the schedule and of the enqueue times rest on: a router
\* that has run is not scheduled again for the same cycle.
Schedule ==
  /\ wakeups \subseteq 0 .. PipeStages
  /\ ran => 0 \notin wakeups

InOrder(i) ==
  /\ enqueued[i] \subseteq OrderedVcs(i) \X OrderedVcs(i)
  /\ \A v, w \in OrderedVcs(i) :
       v # w <=> (<<v, w>> \in enqueued[i] <=> <<w, v>> \notin enqueued[i])
EnqueueTimes == \A i \in Inports : InOrder(i)

LEMMA ScheduleStep ==
  ASSUME AllocInv, Schedule, [Next]_vars
  PROVE  Schedule'
<1>1. ASSUME NEW came, NEW freed, wakeup_units(came, freed) PROVE Schedule'
  <2>1. PipeStages # 1 => PipeStages - 1 \in 0 .. PipeStages /\ PipeStages - 1 # 0
    BY Sizes
  <2> QED
    BY <1>1, <2>1 DEF wakeup_units, Schedule
<1>2. CASE arbitrate_inports
  BY <1>2 DEF arbitrate_inports, Schedule
<1>3. CASE arbitrate_outports
  BY SMTT(30), <1>3, Sizes DEF arbitrate_outports, check_for_wakeup, Schedule
<1>4. CASE Tick
  <2>1. /\ wakeups \subseteq 0 .. PipeStages /\ 0 \notin wakeups
        /\ wakeups' = {t - 1 : t \in wakeups} /\ ran' = FALSE
    BY <1>4 DEF Tick, Schedule
  <2>2. \A t \in wakeups : t - 1 \in 0 .. PipeStages
    BY <2>1, Sizes
  <2> QED
    BY <2>1, <2>2 DEF Schedule
<1>5. ASSUME NEW i, NEW v, NEW f, Exchange(i, v, f) PROVE Schedule'
  BY <1>5 DEF Exchange, Schedule
<1>6. CASE UNCHANGED vars
  BY <1>6 DEF vars, Schedule
<1> QED
  BY <1>1, <1>2, <1>3, <1>4, <1>5, <1>6 DEF Next, Wakeup

\* The flits of an inport keep their order while others come and go.
LEMMA OrderGrows ==
  ASSUME NEW A, NEW E, E \subseteq A \X A,
         \A v, w \in A : v # w <=> (<<v, w>> \in E <=> <<w, v>> \notin E),
         NEW x, x \notin A
  PROVE  /\ E \cup (A \X {x}) \subseteq (A \cup {x}) \X (A \cup {x})
         /\ \A v, w \in A \cup {x} :
              v # w <=> (<<v, w>> \in E \cup (A \X {x}) <=> <<w, v>> \notin E \cup (A \X {x}))
<1> DEFINE F == E \cup (A \X {x})
<1>1. F \subseteq (A \cup {x}) \X (A \cup {x})
  OBVIOUS
<1>2. \A v, w \in A : <<v, w>> \in F <=> <<v, w>> \in E
  OBVIOUS
<1>3. \A v \in A : <<v, x>> \in F /\ <<x, v>> \notin F /\ v # x
  OBVIOUS
<1>4. <<x, x>> \notin F
  OBVIOUS
<1> HIDE DEF F
<1>5. ASSUME NEW v \in A \cup {x}, NEW w \in A \cup {x}
      PROVE  v # w <=> (<<v, w>> \in F <=> <<w, v>> \notin F)
  BY <1>2, <1>3, <1>4
<1> QED
  BY <1>1, <1>5 DEF F

LEMMA OrderShrinks ==
  ASSUME NEW A, NEW E, E \subseteq A \X A,
         \A v, w \in A : v # w <=> (<<v, w>> \in E <=> <<w, v>> \notin E),
         NEW B, B \subseteq A
  PROVE  LET F == {p \in E : p[1] \in B /\ p[2] \in B}
         IN  /\ F \subseteq B \X B
             /\ \A v, w \in B : v # w <=> (<<v, w>> \in F <=> <<w, v>> \notin F)
OBVIOUS

LEMMA OrderStep ==
  ASSUME AllocInv, EnqueueTimes, [Next]_vars
  PROVE  EnqueueTimes'
<1> SUFFICES ASSUME NEW i \in Inports PROVE InOrder(i)'
  BY DEF EnqueueTimes
<1>1. InOrder(i)
  BY DEF EnqueueTimes
<1>2. ASSUME OrderedVcs(i)' = OrderedVcs(i), enqueued'[i] = enqueued[i] PROVE InOrder(i)'
  BY <1>1, <1>2 DEF InOrder
<1>3. ASSUME NEW came \in [Inports -> Arrival], NEW freed, wakeup_units(came, freed)
      PROVE  InOrder(i)'
  <2>1. CASE came[i] = NoFlit
    <3>1. \A v \in VCs : vcs'[i][v] = vcs[i][v]
      BY <1>3, <2>1 DEF wakeup_units
    <3>2. enqueued'[i] = enqueued[i]
      BY <1>3, <2>1 DEF wakeup_units
    <3> QED
      BY <1>2, <3>1, <3>2 DEF OrderedVcs
  <2>2. CASE came[i] # NoFlit
    <3> DEFINE x == came[i].vc
               g == [outport |-> came[i].outport, wait |-> PipeStages - 1]
    <3>1. x \in VCs /\ g \in Flit
      BY <2>2, Sizes DEF Arrival, Flit
    <3>2. g # NoFlit
      BY <3>1, FlitAssumption
    <3>3. vcs[i][x] = NoFlit /\ \A v \in VCs : vcs'[i][v] = IF v = x THEN g ELSE vcs[i][v]
      BY <1>3, <2>2 DEF wakeup_units
    <3>4. enqueued'[i] = IF get_vnet(x) \in OrderedVnets
                         THEN enqueued[i] \cup (OrderedVcs(i) \X {x}) ELSE enqueued[i]
      BY <1>3, <2>2 DEF wakeup_units
    <3> HIDE DEF x, g
    <3>5. x \notin OrderedVcs(i)
      BY <3>3 DEF OrderedVcs
    <3>6. OrderedVcs(i)' = IF get_vnet(x) \in OrderedVnets
                           THEN OrderedVcs(i) \cup {x} ELSE OrderedVcs(i)
      BY <3>1, <3>2, <3>3 DEF OrderedVcs
    <3>7. CASE get_vnet(x) \in OrderedVnets
      BY <1>1, <3>4, <3>5, <3>6, <3>7, OrderGrows DEF InOrder
    <3>8. CASE get_vnet(x) \notin OrderedVnets
      BY <1>2, <3>4, <3>6, <3>8
    <3> QED
      BY <3>7, <3>8
  <2> QED
    BY <2>1, <2>2
<1>4. CASE arbitrate_inports
  BY <1>2, <1>4 DEF arbitrate_inports, OrderedVcs
<1>5. CASE arbitrate_outports
  <2> DEFINE B == {v \in OrderedVcs(i) : ~Wins(i, v)}
             F == {p \in enqueued[i] : p[1] \in B /\ p[2] \in B}
  <2>1. \A v \in VCs : vcs'[i][v] = IF Wins(i, v) THEN NoFlit ELSE vcs[i][v]
    BY <1>5 DEF arbitrate_outports
  <2>2. OrderedVcs(i)' = B
    BY <2>1 DEF OrderedVcs
  <2>3. enqueued'[i] = {p \in enqueued[i] : ~Wins(i, p[1]) /\ ~Wins(i, p[2])}
    BY <1>5 DEF arbitrate_outports
  <2>4. enqueued'[i] = F
    BY <1>1, <2>3 DEF InOrder
  <2>5. /\ F \subseteq B \X B
        /\ \A v, w \in B : v # w <=> (<<v, w>> \in F <=> <<w, v>> \notin F)
    BY <1>1, OrderShrinks DEF InOrder
  <2> HIDE DEF B, F
  <2> QED
    BY <2>2, <2>4, <2>5 DEF InOrder
<1>6. CASE Tick
  <2>1. \A v \in VCs : vcs'[i][v] = Aged(vcs[i][v])
    BY <1>6 DEF Tick
  <2>2. \A v \in VCs : vcs'[i][v] = NoFlit <=> vcs[i][v] = NoFlit
    <3> SUFFICES ASSUME NEW v \in VCs PROVE Aged(vcs[i][v]) = NoFlit <=> vcs[i][v] = NoFlit
      BY <2>1
    <3>1. vcs[i][v] # NoFlit => vcs[i][v] \in Flit
      BY FlitFields DEF AllocInv
    <3> QED
      BY <3>1, FlitAssumption, Sizes DEF Aged, Flit
  <2>3. OrderedVcs(i)' = OrderedVcs(i)
    BY <2>2 DEF OrderedVcs
  <2> QED
    BY <1>2, <1>6, <2>3 DEF Tick
<1>7. ASSUME NEW j \in Inports, NEW u \in VCs, NEW f \in Flit, Exchange(j, u, f) PROVE InOrder(i)'
  <2>1. \A v \in VCs : vcs'[i][v] = NoFlit <=> vcs[i][v] = NoFlit
    BY <1>7, FlitAssumption DEF Exchange, AllocInv, AllocTypes
  <2>2. OrderedVcs(i)' = OrderedVcs(i)
    BY <2>1 DEF OrderedVcs
  <2> QED
    BY <1>2, <1>7, <2>2 DEF Exchange
<1>8. CASE UNCHANGED vars
  BY <1>2, <1>8 DEF vars, OrderedVcs
<1> QED
  BY <1>3, <1>4, <1>5, <1>6, <1>7, <1>8 DEF Next, Wakeup

\* The variables of the allocator keep their types: the round robin pointers
\* stay within their vectors, the enqueue times order the flits of ordered
\* vnets, and no wakeup is further ahead than the pipeline is long.
THEOREM AllocTypeCorrect == SwapLatency /\ Spec => []AllocTypeOK
<1>1. Init => Schedule /\ EnqueueTimes
  BY DEF Init, Schedule, EnqueueTimes, InOrder, OrderedVcs
<1>2. AllocInv /\ Schedule /\ EnqueueTimes /\ [Next]_vars => Schedule' /\ EnqueueTimes'
  BY ScheduleStep, OrderStep
<1>3. AllocInv /\ Schedule /\ EnqueueTimes => AllocTypeOK
  BY DEF AllocInv, AllocTypes, Schedule, EnqueueTimes, InOrder, AllocTypeOK
<1> QED
  BY <1>1, <1>2, <1>3, InvCorrect, PTL DEF Spec

=============================================================================
