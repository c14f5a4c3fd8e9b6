-------------------------- MODULE NetworkInterface ---------------------------
(***************************************************************************)
(* One network interface with the message buffers around it.  wakeup() is  *)
(* taken apart into the steps it makes one after the other: messages into  *)
(* flits, one flit to the output link, one stalled flit out of the stall   *)
(* queue, then the flit and the credit on the input links.  Nothing runs   *)
(* in between, but the controller that pops the outgoing buffers may run   *)
(* before or after it in the same cycle, and so may the credit link.       *)
(* A message is in the model from the cycle it becomes ready in.           *)
(***************************************************************************)
EXTENDS MessageBuffer, Integers, Sequences, FiniteSets

CONSTANTS
  NumVnets, VcsPerVnet,
  OrderedVnets,      \* the vnets with isVNetOrdered
  InjSingleVnet,     \* m_inj_single_vnet
  BuffersPerVc,
  Arrivals,          \* bound: [vc, vnet] of the flits that come to this node
  PopsPerCycle,      \* what the controller takes from a buffer in a cycle
  NumMessages,       \* bound: the messages 1 .. NumMessages come to be sent
  MsgVnet, MsgDests, \* [m]: the vnet and the destinations of message m
  None

Vnets == 0 .. NumVnets - 1
NumVcs == NumVnets * VcsPerVnet
VCs == 0 .. NumVcs - 1
Messages == 1 .. NumMessages
get_vnet(vc) == vc \div VcsPerVnet
VcsOf(vnet) == {vc \in VCs : get_vnet(vc) = vnet}

ASSUME InterfaceAssumption ==
  /\ {NumVnets, VcsPerVnet, BuffersPerVc, PopsPerCycle} \subseteq Nat \ {0}
  /\ NumMessages \in Nat /\ m_max_size \in Nat
  /\ OrderedVnets \subseteq Vnets /\ Arrivals \subseteq [vc : VCs, vnet : Vnets]
  /\ InjSingleVnet \in BOOLEAN
  /\ MsgVnet \in [Messages -> Vnets]
  /\ \A m \in Messages : MsgDests[m] \in (SUBSET Nat) \ {{}}
  /\ None \notin Arrivals /\ None \notin VCs

VARIABLES
  inNode,            \* [vnet]: messages that wait, each with the destinations left
  came,              \* number of messages that have come
  m_vc_allocator,
  m_ni_out_vcs,      \* [vc]: flits, each with the cycles since it was enqueued
  m_out_vc_state,    \* [vc]: state and credit
  m_vc_round_robin,
  sent,              \* <<m, d>>: message m is on its way to destination d
  m_stall_queue, m_stall_count,
  outNode,           \* [vnet]: the message buffer to the controller
  outCreditQueue,
  ejecting,          \* VCs towards this node that the router holds for a flit
  link_flit, link_credit,    \* what the input links bring in this cycle
  wakeups, creditWakeups,    \* cycles from now in which NI and credit link run
  ran,
  messageEnqueuedThisCycle,
  stage              \* where wakeup() stands: asleep, <vnet>, output, links

sendVars == <<inNode, came, m_vc_allocator, m_ni_out_vcs, m_out_vc_state,
              m_vc_round_robin, sent>>
ejectVars == <<m_stall_queue, m_stall_count, outNode, outCreditQueue, ejecting>>
linkVars == <<link_flit, link_credit>>
vars == <<sendVars, ejectVars, linkVars, wakeups, creditWakeups, ran,
          messageEnqueuedThisCycle, stage>>

Asleep == NumVnets
Output == NumVnets + 1
Links == NumVnets + 2

Init ==
  /\ inNode = [vnet \in Vnets |-> <<>>]
  /\ came = 0
  /\ m_vc_allocator = [vnet \in Vnets |-> 0]
  /\ m_ni_out_vcs = [vc \in VCs |-> <<>>]
  /\ m_out_vc_state = [vc \in VCs |-> [state |-> "IDLE", credit |-> BuffersPerVc]]
  /\ m_vc_round_robin = 0
  /\ sent = {}
  /\ m_stall_queue = <<>>
  /\ m_stall_count = [vnet \in Vnets |-> 0]
  /\ outNode = [vnet \in Vnets |-> EmptyBuffer]
  /\ outCreditQueue = <<>>
  /\ ejecting = {}
  /\ link_flit = None /\ link_credit = None
  /\ wakeups = {} /\ creditWakeups = {}
  /\ ran = FALSE
  /\ messageEnqueuedThisCycle = FALSE
  /\ stage = Asleep

-----------------------------------------------------------------------------
Min(S) == CHOOSE x \in S : \A y \in S : x <= y

\* Queue q without its element i.
erase(q, i) == [k \in 1 .. Len(q) - 1 |-> q[IF k < i THEN k ELSE k + 1]]

\* The first element of S from p on, going round n places.
Around(p, x, n) == (x - p + n) % n
FirstFrom(p, S, n) == CHOOSE x \in S : \A y \in S : Around(p, x, n) <= Around(p, y, n)

\* The vnet that calculateVC looks at for a message of vnet.
InjVnet(vnet) == IF InjSingleVnet THEN 0 ELSE vnet

VnetFrom_after(node, k) ==
  LET waiting == {vnet \in Vnets : vnet > k /\ node[vnet] # <<>>}
  IN  IF waiting = {} THEN Output ELSE Min(waiting)

\* The first vnet from k on with a message ready, if any.
VnetFrom(node, k) ==
  LET waiting == {vnet \in Vnets : vnet >= k /\ node[vnet] # <<>>}
  IN  IF waiting = {} THEN Output ELSE Min(waiting)

\* The next message becomes ready in this cycle, for which the buffer it waits in
\* has the NI scheduled.
MessageArrives ==
  LET message == came + 1
  IN  /\ stage = Asleep /\ ~ran
      /\ came < NumMessages
      /\ inNode' = [inNode EXCEPT ![MsgVnet[message]] =
                      Append(@, [msg |-> message, dests |-> MsgDests[message]])]
      /\ came' = message
      /\ wakeups' = wakeups \cup {0}
      /\ UNCHANGED <<m_vc_allocator, m_ni_out_vcs, m_out_vc_state, m_vc_round_robin, sent,
                     ejectVars, linkVars, creditWakeups, ran, messageEnqueuedThisCycle, stage>>

\* wakeup() begins: the input links bring flit f and the credit for VC c.  A
\* link that brings something has the NI scheduled.
wakeup(f, c) ==
  /\ stage = Asleep /\ ~ran
  /\ 0 \in wakeups \/ f # None \/ c # None
  /\ f # None => f.vc \notin ejecting /\ get_vnet(f.vc) = InjVnet(f.vnet)
  /\ c # None => m_out_vc_state[c].state = "ACTIVE" /\ m_ni_out_vcs[c] = <<>>
  /\ link_flit' = f /\ link_credit' = c
  /\ ejecting' = IF f = None THEN ejecting ELSE ejecting \cup {f.vc}
  /\ wakeups' = wakeups \ {0}
  /\ ran' = TRUE
  /\ stage' = VnetFrom(inNode, 0)
  /\ UNCHANGED <<sendVars, m_stall_queue, m_stall_count, outNode, outCreditQueue,
                 creditWakeups, messageEnqueuedThisCycle>>

\* The VCs of vnet that calculateVC finds free, as offsets in the vnet.
FreeOffsets(vnet) ==
  {k \in 0 .. VcsPerVnet - 1 : m_out_vc_state[vnet * VcsPerVnet + k].state = "IDLE"}

removeNetDest_skipped(dests, dest) == dests

removeNetDest(dests, dest) == dests \ {dest}

\* One round of the loop in flitisizeMessage: a VC for one destination of the
\* first message.  Without one the message stays, with the destinations left.
flitisizeMessage ==
  LET vnet == stage
      v == InjVnet(vnet)
      message == Head(inNode[vnet])
      dest == Min(message.dests)
      rest == removeNetDest(message.dests, dest)
      k == FirstFrom(m_vc_allocator[v], FreeOffsets(v), VcsPerVnet)
      vc == v * VcsPerVnet + k
  IN  /\ stage \in Vnets
      /\ \/ /\ FreeOffsets(v) = {}
            /\ stage' = VnetFrom(inNode, vnet + 1)
            /\ UNCHANGED <<inNode, m_vc_allocator, m_ni_out_vcs, m_out_vc_state>>
         \/ /\ FreeOffsets(v) # {}
            /\ m_vc_allocator' = [m_vc_allocator EXCEPT ![v] = (k + 1) % VcsPerVnet]
            /\ m_ni_out_vcs' = [m_ni_out_vcs EXCEPT ![vc] =
                                  Append(@, [msg |-> message.msg, dest |-> dest, age |-> 0])]
            /\ m_out_vc_state' = [m_out_vc_state EXCEPT ![vc].state = "ACTIVE"]
            /\ IF rest = {}
               THEN /\ inNode' = [inNode EXCEPT ![vnet] = Tail(@)]
                    /\ stage' = VnetFrom(inNode, vnet + 1)
               ELSE /\ inNode' = [inNode EXCEPT ![vnet][1].dests = rest]
                    /\ UNCHANGED stage
      /\ UNCHANGED <<came, m_vc_round_robin, sent, ejectVars, linkVars, wakeups,
                     creditWakeups, ran, messageEnqueuedThisCycle>>

has_credit(vc) == m_out_vc_state[vc].credit > 0

is_candidate_vc_anyAge(vc) == m_ni_out_vcs[vc] # <<>> /\ has_credit(vc)

\* The flit at the head of VC vc may go to the output link.
is_candidate_vc(vc) ==
  /\ m_ni_out_vcs[vc] # <<>>
  /\ has_credit(vc)
  /\ get_vnet(vc) \in OrderedVnets =>
       ~\E t_vc \in VcsOf(get_vnet(vc)) :
          m_ni_out_vcs[t_vc] # <<>> /\ Head(m_ni_out_vcs[t_vc]).age > Head(m_ni_out_vcs[vc]).age

scheduleOutputLink ==
  LET ready == {vc \in VCs : is_candidate_vc(vc)}
      next == (m_vc_round_robin + 1) % NumVcs
      vc == FirstFrom(next, ready, NumVcs)
      flit == Head(m_ni_out_vcs[vc])
  IN  /\ m_vc_round_robin' = next
      /\ IF ready = {}
         THEN UNCHANGED <<m_ni_out_vcs, m_out_vc_state, sent>>
         ELSE /\ m_out_vc_state' = [m_out_vc_state EXCEPT ![vc].credit = @ - 1]
              /\ m_ni_out_vcs' = [m_ni_out_vcs EXCEPT ![vc] = Tail(@)]
              /\ sent' = sent \cup {<<flit.msg, flit.dest>>}

\* The NI is scheduled for the next cycle when anything is left to send.
checkReschedule ==
  wakeups' = wakeups \cup
    (IF \/ \E vnet \in Vnets : inNode[vnet] # <<>>
        \/ \E vc \in VCs : m_ni_out_vcs'[vc] # <<>>
     THEN {1} ELSE {})

sendCredit_skipped(vc) == UNCHANGED outCreditQueue

sendCredit(vc) == outCreditQueue' = Append(outCreditQueue, vc)

\* The places in the stall queue whose flit finds a slot.
Unstallable ==
  {k \in DOMAIN m_stall_queue : areNSlotsAvailable(outNode[m_stall_queue[k].vnet], 1)}

AfterUnstall_always(buffer, count) == unregisterDequeueCallback(buffer)

\* The callback goes with the last stalled flit of the vnet.
AfterUnstall(buffer, count) == IF count = 0 THEN unregisterDequeueCallback(buffer) ELSE buffer

\* At most one stalled flit goes to its message buffer.
checkStallQueue ==
  LET k == Min(Unstallable)
      flit == m_stall_queue[k]
      vnet == flit.vnet
  IN  \/ /\ Unstallable = {}
         /\ UNCHANGED <<m_stall_queue, m_stall_count, outNode, outCreditQueue,
                        messageEnqueuedThisCycle>>
      \/ /\ Unstallable # {}
         /\ m_stall_queue' = erase(m_stall_queue, k)
         /\ m_stall_count' = [m_stall_count EXCEPT ![vnet] = @ - 1]
         /\ outNode' = [outNode EXCEPT ![vnet] = AfterUnstall(enqueue(@), m_stall_count'[vnet])]
         /\ sendCredit(flit.vc)
         /\ messageEnqueuedThisCycle' = TRUE

\* The part of wakeup() between the messages and the input links.
SendAndUnstall ==
  /\ stage = Output
  /\ scheduleOutputLink
  /\ checkReschedule
  /\ checkStallQueue
  /\ stage' = Links
  /\ UNCHANGED <<inNode, came, m_vc_allocator, ejecting, linkVars, creditWakeups, ran>>

\* The flit on the input link goes to its message buffer, or to the stall queue.
consumeFlit(flit) ==
  LET vnet == flit.vnet
  IN  \/ /\ ~messageEnqueuedThisCycle /\ areNSlotsAvailable(outNode[vnet], 1)
         /\ outNode' = [outNode EXCEPT ![vnet] = enqueue(@)]
         /\ sendCredit(flit.vc)
         /\ UNCHANGED <<m_stall_queue, m_stall_count>>
      \/ /\ messageEnqueuedThisCycle \/ ~areNSlotsAvailable(outNode[vnet], 1)
         /\ m_stall_queue' = Append(m_stall_queue, flit)
         /\ m_stall_count' = [m_stall_count EXCEPT ![vnet] = @ + 1]
         /\ outNode' = [outNode EXCEPT ![vnet] = registerDequeueCallback(@)]
         /\ UNCHANGED outCreditQueue

\* The rest of wakeup(): both input links, then the credit link is scheduled
\* while credits wait for it.
consumeLinks ==
  /\ stage = Links
  /\ IF link_flit = None
     THEN UNCHANGED <<m_stall_queue, m_stall_count, outNode, outCreditQueue>>
     ELSE consumeFlit(link_flit)
  /\ m_out_vc_state' = IF link_credit = None THEN m_out_vc_state
                       ELSE [m_out_vc_state EXCEPT ![link_credit] =
                               [state |-> "IDLE", credit |-> @.credit + 1]]
  /\ creditWakeups' = IF outCreditQueue' = <<>> THEN creditWakeups ELSE creditWakeups \cup {1}
  /\ link_flit' = None /\ link_credit' = None
  /\ messageEnqueuedThisCycle' = FALSE
  /\ stage' = Asleep
  /\ UNCHANGED <<inNode, came, m_vc_allocator, m_ni_out_vcs, m_vc_round_robin, sent,
                 ejecting, wakeups, ran>>

-----------------------------------------------------------------------------
\* The credit link takes one credit to the router, which may use the VC again.
CreditLink_wakeup ==
  /\ stage = Asleep
  /\ 0 \in creditWakeups
  /\ creditWakeups' = creditWakeups \ {0}
  /\ IF outCreditQueue = <<>>
     THEN UNCHANGED <<outCreditQueue, ejecting>>
     ELSE /\ outCreditQueue' = Tail(outCreditQueue)
          /\ ejecting' = ejecting \ {Head(outCreditQueue)}
  /\ UNCHANGED <<sendVars, m_stall_queue, m_stall_count, outNode, linkVars, wakeups, ran,
                 messageEnqueuedThisCycle, stage>>

dequeueCallback_lost(buffer) == {}

\* The cycles that a pop has the NI scheduled for.
dequeueCallback(buffer) == IF buffer.callback THEN {1} ELSE {}

\* The controller pops a message.
Controller_dequeue(vnet) ==
  /\ stage = Asleep
  /\ isReady(outNode[vnet])
  /\ outNode[vnet].popped < PopsPerCycle
  /\ outNode' = [outNode EXCEPT ![vnet] = dequeue(@)]
  /\ wakeups' = wakeups \cup dequeueCallback(outNode[vnet])
  /\ UNCHANGED <<sendVars, m_stall_queue, m_stall_count, outCreditQueue, ejecting, linkVars,
                 creditWakeups, ran, messageEnqueuedThisCycle, stage>>

Tick ==
  /\ stage = Asleep
  /\ ran \/ 0 \notin wakeups
  /\ 0 \notin creditWakeups
  /\ m_ni_out_vcs' = [vc \in VCs |-> [k \in DOMAIN m_ni_out_vcs[vc] |->
                        [m_ni_out_vcs[vc][k] EXCEPT !.age = @ + 1]]]
  /\ outNode' = [vnet \in Vnets |-> NextCycle(outNode[vnet])]
  /\ wakeups' = {t - 1 : t \in wakeups}
  /\ creditWakeups' = {t - 1 : t \in creditWakeups}
  /\ ran' = FALSE
  /\ UNCHANGED <<inNode, came, m_vc_allocator, m_out_vc_state, m_vc_round_robin, sent,
                 m_stall_queue, m_stall_count, outCreditQueue, ejecting, linkVars,
                 messageEnqueuedThisCycle, stage>>

ArrivingFlit == Arrivals \cup {None}

\* What runs because it is scheduled, and time.
Step ==
  \/ wakeup(None, None)
  \/ flitisizeMessage
  \/ SendAndUnstall
  \/ consumeLinks
  \/ CreditLink_wakeup
  \/ Tick

CreditReturns == \E f \in ArrivingFlit, c \in VCs : wakeup(f, c)

Next ==
  \/ Step
  \/ CreditReturns
  \/ MessageArrives
  \/ \E f \in Arrivals : wakeup(f, None)
  \/ \E vnet \in Vnets : Controller_dequeue(vnet)

\* gem5 runs every event that is scheduled, and time goes on.  The controller
\* pops what is ready, and the router forwards what it was sent.  Nobody has
\* to send anything.
Spec ==
  /\ Init /\ [][Next]_vars
  /\ WF_vars(Step)
  /\ \A vnet \in {f.vnet : f \in Arrivals} : SF_vars(Controller_dequeue(vnet))
  /\ SF_vars(CreditReturns)

-----------------------------------------------------------------------------
\* Every variable has its type; no message buffer holds more than its size.
InterfaceTypeOK ==
  /\ \A vnet \in Vnets : \A k \in DOMAIN inNode[vnet] :
       inNode[vnet][k].msg \in 1 .. came /\ inNode[vnet][k].dests # {}
  /\ came \in 0 .. NumMessages
  /\ m_vc_allocator \in [Vnets -> 0 .. VcsPerVnet - 1]
  /\ m_out_vc_state \in [VCs -> [state : {"IDLE", "ACTIVE"}, credit : 0 .. BuffersPerVc]]
  /\ m_vc_round_robin \in VCs
  /\ \A vnet \in Vnets : m_max_size = 0 \/ outNode[vnet].heap \in 0 .. m_max_size
  /\ ejecting \subseteq VCs
  /\ wakeups \subseteq {0, 1} /\ creditWakeups \subseteq {0, 1}
  /\ ran \in BOOLEAN /\ messageEnqueuedThisCycle \in BOOLEAN
  /\ stage \in 0 .. Links

\* "loop to convert all multicast messages into unicast messages" (flitisizeMessage):
\* across the retries for want of a VC, every destination of a message that
\* has come is in exactly one place: still with the message, in one flit that
\* waits in an output VC, or sent.
EachDestinationOnce ==
  \A m \in 1 .. came : \A d \in MsgDests[m] :
    LET waiting == {vnet \in Vnets : \E k \in DOMAIN inNode[vnet] :
                      inNode[vnet][k].msg = m /\ d \in inNode[vnet][k].dests}
        flits == UNION {{vc} \X {k \in DOMAIN m_ni_out_vcs[vc] :
                                   m_ni_out_vcs[vc][k].msg = m /\ m_ni_out_vcs[vc][k].dest = d} :
                          vc \in VCs}
    IN  Cardinality(waiting) + Cardinality(flits) + Cardinality(sent \cap {<<m, d>>}) = 1

\* What m_ni_out_vcs_enqueue_time is kept for (scheduleOutputLink): in an ordered
\* vnet no message is sent to a destination before an earlier one.
SentInOrder ==
  \A m, n \in Messages : \A d \in MsgDests[m] \cap MsgDests[n] :
    m < n /\ MsgVnet[m] = MsgVnet[n] /\ InjVnet(MsgVnet[m]) \in OrderedVnets =>
      (<<n, d>> \in sent => <<m, d>> \in sent)

\* "If there are no more stalled messages for this vnet, the callback on it's
\* MessageBuffer is not needed" (checkStallQueue): m_stall_count is what the stall
\* queue holds, and the callback is set while it holds a flit of the vnet.
StallBookkeeping ==
  \A vnet \in Vnets :
    LET stalled == {k \in DOMAIN m_stall_queue : m_stall_queue[k].vnet = vnet}
    IN  /\ m_stall_count[vnet] = Cardinality(stalled)
        /\ outNode[vnet].callback <=> stalled # {}

\* Every VC that the router holds for this node is owed exactly one credit: by
\* the flit on the link, by a stalled flit or by a credit on its way.
EjectVcAccounted ==
  \A vc \in VCs :
    LET stalled == {k \in DOMAIN m_stall_queue : m_stall_queue[k].vc = vc}
        credits == {k \in DOMAIN outCreditQueue : outCreditQueue[k] = vc}
        linked == IF link_flit # None /\ link_flit.vc = vc THEN 1 ELSE 0
    IN  Cardinality(stalled) + Cardinality(credits) + linked = (IF vc \in ejecting THEN 1 ELSE 0)

\* "picks that up, flitisizes it into a number of flits" (wakeup): every message is sent
\* to all its destinations.  checkReschedule has to keep the NI awake.
EveryDestinationServed ==
  \A m \in Messages : came >= m ~> \A d \in MsgDests[m] : <<m, d>> \in sent

\* "Place tail flit in stall queue and set up a callback for when protocol buffer
\* is dequeued. [...] flit pointer deletion will occur upon unstall"
\* (NetworkInterface.cc:240-242): no flit that comes to this node stalls for
\* ever, and the router gets its VC back.
EjectVcFreed ==
  \A f \in Arrivals : f.vc \in ejecting ~> f.vc \notin ejecting

=============================================================================
