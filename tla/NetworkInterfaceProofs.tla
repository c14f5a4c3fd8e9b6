----------------------- MODULE NetworkInterfaceProofs ------------------------
(***************************************************************************)
(* The network interface keeps its books, for any number of vnets, VCs,    *)
(* messages and destinations, any buffer size and any flits that come to   *)
(* the node.  The two halves of wakeup() touch different variables: what   *)
(* it receives is accounted for by EjectInv, what it sends by SendInv.     *)
(***************************************************************************)
EXTENDS NetworkInterface, FiniteSetTheorems, TLAPS

-----------------------------------------------------------------------------
\* The inductive invariant.  When wakeup() is not running, it has left nothing
\* half done; while it runs, the NI is not scheduled for this cycle again.
Control ==
  /\ stage \in 0 .. Links
  /\ ran \in BOOLEAN /\ messageEnqueuedThisCycle \in BOOLEAN
  /\ wakeups \subseteq {0, 1} /\ creditWakeups \subseteq {0, 1}
  /\ ran => 0 \notin wakeups
  /\ stage # Asleep => ran
  /\ stage = Asleep => link_flit = None /\ link_credit = None

Buffer == [heap : Nat, enqueued : Nat, popped : Nat, start : Nat, callback : BOOLEAN]

EjectTypes ==
  /\ m_stall_queue \in Seq(Arrivals)
  /\ m_stall_count \in [Vnets -> Nat]
  /\ outNode \in [Vnets -> Buffer]
  /\ outCreditQueue \in Seq(VCs)
  /\ ejecting \subseteq VCs
  /\ link_flit \in ArrivingFlit

\* A buffer never looks emptier to the NI than it is.
BufferSound(b) ==
  /\ b.popped > 0 => b.heap <= b.start + b.enqueued
  /\ m_max_size = 0 \/ b.heap <= m_max_size

\* The VCs that are held are held by one flit or credit each.
OwnedOnce(q, credits, f, held) ==
  /\ \A j, k \in DOMAIN q : q[j].vc = q[k].vc => j = k
  /\ \A j, k \in DOMAIN credits : credits[j] = credits[k] => j = k
  /\ \A j \in DOMAIN q, k \in DOMAIN credits : q[j].vc # credits[k]
  /\ f # None => /\ \A j \in DOMAIN q : q[j].vc # f.vc
                 /\ \A k \in DOMAIN credits : credits[k] # f.vc
  /\ \A vc \in VCs : vc \in held <=>
       \/ \E j \in DOMAIN q : q[j].vc = vc
       \/ \E k \in DOMAIN credits : credits[k] = vc
       \/ f # None /\ f.vc = vc
EjectOwners == OwnedOnce(m_stall_queue, outCreditQueue, link_flit, ejecting)

EjectBooks ==
  /\ EjectTypes
  /\ \A vnet \in Vnets : BufferSound(outNode[vnet])
  /\ StallBookkeeping
  /\ EjectOwners
EjectInv == Control /\ EjectBooks

Waiting == [msg : Messages, dests : SUBSET Nat]
OutFlit == [msg : Messages, dest : Nat, age : Nat]

SendTypes ==
  /\ came \in 0 .. NumMessages
  /\ inNode \in [Vnets -> Seq(Waiting)]
  /\ m_vc_allocator \in [Vnets -> 0 .. VcsPerVnet - 1]
  /\ m_ni_out_vcs \in [VCs -> Seq(OutFlit)]
  /\ m_out_vc_state \in [VCs -> [state : {"IDLE", "ACTIVE"}, credit : 0 .. BuffersPerVc]]
  /\ m_vc_round_robin \in VCs
  /\ sent \subseteq Messages \X Nat
  /\ link_credit \in VCs \cup {None}

\* An output VC is idle with all its credits, or it is active for one flit,
\* which waits for the link or owes a credit.
OutVcs ==
  /\ \A vc \in VCs :
       \/ /\ m_out_vc_state[vc] = [state |-> "IDLE", credit |-> BuffersPerVc]
          /\ m_ni_out_vcs[vc] = <<>>
       \/ /\ m_out_vc_state[vc] = [state |-> "ACTIVE", credit |-> BuffersPerVc]
          /\ Len(m_ni_out_vcs[vc]) = 1
       \/ /\ m_out_vc_state[vc] = [state |-> "ACTIVE", credit |-> BuffersPerVc - 1]
          /\ m_ni_out_vcs[vc] = <<>>
  /\ link_credit # None =>
       m_out_vc_state[link_credit].state = "ACTIVE" /\ m_ni_out_vcs[link_credit] = <<>>

Queued(vc) == m_ni_out_vcs[vc] # <<>>
FlitOf(vc) == m_ni_out_vcs[vc][1]

\* The messages of a vnet wait in the order in which they came.
WaitOrder ==
  /\ \A vnet \in Vnets : \A k \in DOMAIN inNode[vnet] :
       /\ inNode[vnet][k].msg <= came
       /\ MsgVnet[inNode[vnet][k].msg] = vnet
       /\ inNode[vnet][k].dests # {}
       /\ inNode[vnet][k].dests \subseteq MsgDests[inNode[vnet][k].msg]
  /\ \A vnet \in Vnets : \A j, k \in DOMAIN inNode[vnet] :
       j < k => inNode[vnet][j].msg < inNode[vnet][k].msg

\* A message is turned into flits only when those before it in its vnet are.
Started(m, d) ==
  <<m, d>> \in sent \/ \E vc \in VCs : Queued(vc) /\ FlitOf(vc).msg = m /\ FlitOf(vc).dest = d
StartInv ==
  \A m \in Messages, d \in Nat : Started(m, d) =>
    /\ m <= came /\ d \in MsgDests[m]
    /\ \A k \in DOMAIN inNode[MsgVnet[m]] :
         /\ m <= inNode[MsgVnet[m]][k].msg
         /\ inNode[MsgVnet[m]][k].msg = m => d \notin inNode[MsgVnet[m]][k].dests

\* Every destination is somewhere, and in one output VC or sent.
DestInv ==
  /\ \A m \in 1 .. came : \A d \in MsgDests[m] :
       \/ Started(m, d)
       \/ \E k \in DOMAIN inNode[MsgVnet[m]] :
            inNode[MsgVnet[m]][k].msg = m /\ d \in inNode[MsgVnet[m]][k].dests
  /\ \A v, w \in VCs :
       Queued(v) /\ Queued(w) /\ FlitOf(v).msg = FlitOf(w).msg /\ FlitOf(v).dest = FlitOf(w).dest
         => v = w
  /\ \A v \in VCs : Queued(v) => <<FlitOf(v).msg, FlitOf(v).dest>> \notin sent

\* The later the message, the younger are its flits.
AgeOrder ==
  /\ \A v \in VCs : Queued(v) => get_vnet(v) = InjVnet(MsgVnet[FlitOf(v).msg])
  /\ \A v, w \in VCs :
       Queued(v) /\ Queued(w) /\ MsgVnet[FlitOf(v).msg] = MsgVnet[FlitOf(w).msg]
         /\ FlitOf(v).msg < FlitOf(w).msg => FlitOf(v).age > FlitOf(w).age

\* In each cycle a vnet has one message turned into flits: of those made in this
\* cycle, none is of a vnet that wakeup() has not come to, and in the vnet it is
\* at, all are of the first message.
Fresh ==
  /\ stage \in Vnets => inNode[stage] # <<>>
  /\ \A v \in VCs : Queued(v) /\ FlitOf(v).age = 0 =>
       /\ ran
       /\ stage \in Vnets => \/ MsgVnet[FlitOf(v).msg] < stage
                             \/ /\ MsgVnet[FlitOf(v).msg] = stage
                                /\ FlitOf(v).msg = inNode[stage][1].msg

SendOrder == WaitOrder /\ StartInv /\ DestInv /\ AgeOrder /\ SentInOrder
SendInv == Control /\ SendTypes /\ OutVcs /\ SendOrder /\ Fresh

-----------------------------------------------------------------------------
LEMMA Sizes ==
  /\ NumVnets \in Nat \ {0} /\ VcsPerVnet \in Nat \ {0} /\ BuffersPerVc \in Nat \ {0}
  /\ NumVcs \in Nat \ {0} /\ m_max_size \in Nat
BY InterfaceAssumption DEF NumVcs

\* The places at which wakeup() can stand are all different.
LEMMA Stages ==
  /\ Asleep \notin Vnets /\ Output \notin Vnets /\ Links \notin Vnets
  /\ Asleep # Output /\ Asleep # Links /\ Output # Links
  /\ Vnets \cup {Asleep, Output, Links} = 0 .. Links
BY Sizes DEF Vnets, Asleep, Output, Links

\* Every nonempty set of natural numbers has a least element.
LEMMA LeastExists ==
  ASSUME NEW S \in SUBSET Nat, S # {}
  PROVE  \E x \in S : \A y \in S : x <= y
<1> DEFINE R == OpToRel(<, Nat)
<1>1. PICK x \in S : \A y \in S : ~(<<y, x>> \in R)
  BY Zenon, NatLessThanWellFounded, WFMin
<1>2. \A y \in S : y < x => <<y, x>> \in R
  BY DEF OpToRel
<1> HIDE DEF R
<1>3. \A y \in S : ~(y < x)
  BY Zenon, <1>1, <1>2
<1> QED
  BY <1>3

LEMMA MinCorrect ==
  ASSUME NEW S \in SUBSET Nat, S # {}
  PROVE  Min(S) \in S
BY Zenon, LeastExists DEF Min

\* The loop over the vnets stops at one with a message, or goes on to the output.
LEMMA VnetFromCorrect ==
  ASSUME NEW node, NEW k \in Nat
  PROVE  /\ VnetFrom(node, k) \in Vnets \cup {Output}
         /\ VnetFrom(node, k) \in Vnets =>
              VnetFrom(node, k) >= k /\ node[VnetFrom(node, k)] # <<>>
<1> DEFINE S == {vnet \in Vnets : vnet >= k /\ node[vnet] # <<>>}
<1>1. CASE S = {}
  BY <1>1, Stages DEF VnetFrom
<1>2. CASE S # {}
  <2>1. Min(S) \in S
    <3>1. S \in SUBSET Nat
      BY Sizes DEF Vnets
    <3> HIDE DEF S
    <3> QED
      BY Zenon, <1>2, <3>1, MinCorrect
  <2>2. VnetFrom(node, k) = Min(S)
    BY Zenon, <1>2 DEF VnetFrom
  <2> HIDE DEF VnetFrom
  <2> QED
    BY Zenon, <2>1, <2>2
<1> QED
  BY <1>1, <1>2

LEMMA ControlStep ==
  ASSUME Control, [Next]_vars
  PROVE  Control'
<1> USE DEF Control
<1>1. CASE MessageArrives
  BY <1>1, Stages DEF MessageArrives, linkVars
<1>2. ASSUME NEW f, NEW c, wakeup(f, c) PROVE Control'
  <2>1. VnetFrom(inNode, 0) \in Vnets \cup {Output}
    BY Zenon, VnetFromCorrect, 0 \in Nat
  <2> QED
    BY <1>2, <2>1, Stages DEF wakeup
<1>3. CASE flitisizeMessage
  <2>1. stage \in Vnets /\ stage \in Nat
    BY <1>3, Sizes DEF flitisizeMessage, Vnets
  <2>2. VnetFrom(inNode, stage + 1) \in Vnets \cup {Output}
    BY <2>1, VnetFromCorrect
  <2>3. stage' = stage \/ stage' = VnetFrom(inNode, stage + 1)
    BY Zenon, <1>3 DEF flitisizeMessage
  <2>4. stage' \in Vnets \cup {Output}
    BY Zenon, <2>1, <2>2, <2>3
  <2> QED
    BY <1>3, <2>1, <2>4, Stages DEF flitisizeMessage, linkVars
<1>4. CASE SendAndUnstall
  <2>1. messageEnqueuedThisCycle' \in BOOLEAN
    BY Zenon, <1>4 DEF SendAndUnstall, checkStallQueue
  <2>2. wakeups' \subseteq {0, 1} /\ (0 \notin wakeups => 0 \notin wakeups')
    BY <1>4 DEF SendAndUnstall, checkReschedule
  <2> QED
    BY <1>4, <2>1, <2>2, Stages DEF SendAndUnstall, linkVars
<1>5. CASE consumeLinks
  BY <1>5, Stages DEF consumeLinks
<1>6. CASE CreditLink_wakeup
  BY <1>6 DEF CreditLink_wakeup, linkVars
<1>7. ASSUME NEW vnet \in Vnets, Controller_dequeue(vnet) PROVE Control'
  BY <1>7 DEF Controller_dequeue, linkVars, dequeueCallback
<1>8. CASE Tick
  <2>1. wakeups \subseteq {1} /\ creditWakeups \subseteq {1}
    BY <1>8 DEF Tick
  <2>2. wakeups' = {t - 1 : t \in wakeups} /\ creditWakeups' = {t - 1 : t \in creditWakeups}
    BY <1>8 DEF Tick
  <2>3. wakeups' \subseteq {0} /\ creditWakeups' \subseteq {0}
    BY <2>1, <2>2
  <2>4. ran' = FALSE /\ UNCHANGED <<linkVars, messageEnqueuedThisCycle, stage>> /\ stage = Asleep
    BY <1>8 DEF Tick
  <2> QED
    BY <2>3, <2>4 DEF linkVars
<1>9. CASE UNCHANGED vars
  BY <1>9 DEF vars, linkVars
<1> QED
  BY Zenon, <1>1, <1>2, <1>3, <1>4, <1>5, <1>6, <1>7, <1>8, <1>9 DEF Next, Step, CreditReturns

-----------------------------------------------------------------------------
\* Counting the flits of a vnet in the stall queue.
Places(q, vnet) == {k \in DOMAIN q : q[k].vnet = vnet}

LEMMA PlacesFinite ==
  ASSUME NEW q \in Seq(Arrivals), NEW vnet
  PROVE  IsFiniteSet(Places(q, vnet)) /\ Cardinality(Places(q, vnet)) \in Nat
<1>1. IsFiniteSet(1 .. Len(q))
  BY FS_Interval
<1>2. Places(q, vnet) \in SUBSET (1 .. Len(q))
  BY DEF Places
<1> QED
  BY Zenon, <1>1, <1>2, FS_Subset, FS_CardinalityType

LEMMA PlacesAppend ==
  ASSUME NEW q \in Seq(Arrivals), NEW f \in Arrivals, NEW vnet
  PROVE  /\ Places(Append(q, f), vnet) =
              Places(q, vnet) \cup (IF f.vnet = vnet THEN {Len(q) + 1} ELSE {})
         /\ Cardinality(Places(Append(q, f), vnet)) =
              Cardinality(Places(q, vnet)) + (IF f.vnet = vnet THEN 1 ELSE 0)
<1>1. Places(Append(q, f), vnet) =
        Places(q, vnet) \cup (IF f.vnet = vnet THEN {Len(q) + 1} ELSE {})
  BY DEF Places
<1>2. Len(q) + 1 \notin Places(q, vnet)
  BY DEF Places
<1>3. Cardinality(Places(q, vnet) \cup {Len(q) + 1}) = Cardinality(Places(q, vnet)) + 1
  BY Zenon, <1>2, FS_AddElement, PlacesFinite
<1>4. CASE f.vnet = vnet
  BY Zenon, <1>1, <1>3, <1>4
<1>5. CASE f.vnet # vnet
  <2>1. Places(Append(q, f), vnet) = Places(q, vnet)
    BY <1>1, <1>5
  <2> QED
    BY <1>1, <2>1, <1>5, PlacesFinite
<1> QED
  BY Zenon, <1>4, <1>5

LEMMA EraseCorrect ==
  ASSUME NEW S, NEW q \in Seq(S), NEW i \in 1 .. Len(q)
  PROVE  /\ erase(q, i) \in Seq(S)
         /\ Len(erase(q, i)) = Len(q) - 1
         /\ \A k \in 1 .. Len(q) - 1 : erase(q, i)[k] = q[IF k < i THEN k ELSE k + 1]
BY DEF erase

LEMMA PlacesRemove ==
  ASSUME NEW q \in Seq(Arrivals), NEW i \in 1 .. Len(q), NEW vnet
  PROVE  Cardinality(Places(erase(q, i), vnet)) =
           Cardinality(Places(q, vnet)) - (IF q[i].vnet = vnet THEN 1 ELSE 0)
<1> DEFINE r == erase(q, i)
           S == Places(q, vnet) \ {i}
           T == Places(r, vnet)
           g == [k \in S |-> IF k < i THEN k ELSE k - 1]
<1>1. /\ r \in Seq(Arrivals) /\ Len(r) = Len(q) - 1
      /\ \A k \in 1 .. Len(q) - 1 : r[k] = q[IF k < i THEN k ELSE k + 1]
  BY Zenon, EraseCorrect
<1>2. DOMAIN q = 1 .. Len(q) /\ DOMAIN r = 1 .. Len(q) - 1 /\ Len(q) \in Nat
  BY <1>1
<1> HIDE DEF r
<1>3. \A k \in S : k \in 1 .. Len(q) /\ k # i /\ q[k].vnet = vnet
  BY <1>2 DEF Places
<1>4. g \in [S -> T]
  <2> SUFFICES ASSUME NEW k \in S PROVE (IF k < i THEN k ELSE k - 1) \in T
    BY Zenon
  <2> DEFINE l == IF k < i THEN k ELSE k - 1
  <2>1. l \in 1 .. Len(q) - 1 /\ (IF l < i THEN l ELSE l + 1) = k
    BY <1>2, <1>3
  <2> HIDE DEF l
  <2>2. r[l] = q[k]
    BY Zenon, <1>1, <2>1
  <2>3. r[l].vnet = vnet
    BY Zenon, <1>3, <2>2
  <2>4. l \in T
    BY Zenon, <1>2, <2>1, <2>3 DEF Places
  <2> QED
    BY Zenon, <2>4 DEF l
<1>5. \A j, k \in S : g[j] = g[k] => j = k
  BY <1>3
<1>6. \A l \in T : \E k \in S : g[k] = l
  <2> SUFFICES ASSUME NEW l \in T PROVE \E k \in S : g[k] = l
    OBVIOUS
  <2>1. l \in 1 .. Len(q) - 1 /\ r[l].vnet = vnet
    BY <1>2 DEF Places
  <2>2. (IF l < i THEN l ELSE l + 1) \in S
    BY <1>1, <1>2, <2>1 DEF Places
  <2>3. g[IF l < i THEN l ELSE l + 1] = l
    BY <2>1, <2>2
  <2> QED
    BY Zenon, <2>2, <2>3
<1>7. ExistsBijection(S, T)
  <2> HIDE DEF S, T, g
  <2> QED
    BY Zenon, <1>4, <1>5, <1>6 DEF ExistsBijection, Bijection, Injection, Surjection, IsInjective
<1>8. IsFiniteSet(Places(q, vnet)) /\ Cardinality(Places(q, vnet)) \in Nat
  BY PlacesFinite
<1>9. /\ IsFiniteSet(S)
      /\ Cardinality(S) = IF i \in Places(q, vnet) THEN Cardinality(Places(q, vnet)) - 1
                          ELSE Cardinality(Places(q, vnet))
  BY Zenon, <1>8, FS_RemoveElement
<1>10. Cardinality(T) = Cardinality(S)
  BY Zenon, <1>7, <1>9, FS_Bijection
<1>11. i \in Places(q, vnet) <=> q[i].vnet = vnet
  BY <1>2 DEF Places
<1> HIDE DEF S, T, g
<1>12. Cardinality(T) = Cardinality(Places(q, vnet)) - (IF q[i].vnet = vnet THEN 1 ELSE 0)
  BY <1>8, <1>9, <1>10, <1>11
<1> QED
  BY Zenon, <1>12 DEF T, r

-----------------------------------------------------------------------------
LEMMA ArrivalFields ==
  ASSUME NEW f \in Arrivals
  PROVE  f.vc \in VCs /\ f.vnet \in Vnets /\ f # None
BY InterfaceAssumption

LEMMA QueueAppend ==
  ASSUME NEW S, NEW q \in Seq(S), NEW x \in S
  PROVE  /\ Append(q, x) \in Seq(S)
         /\ DOMAIN Append(q, x) = DOMAIN q \cup {Len(q) + 1}
         /\ Len(q) + 1 \notin DOMAIN q
         /\ Append(q, x)[Len(q) + 1] = x
         /\ \A k \in DOMAIN q : Append(q, x)[k] = q[k]
OBVIOUS

LEMMA QueueRemove ==
  ASSUME NEW S, NEW q \in Seq(S), NEW i \in DOMAIN q
  PROVE  /\ erase(q, i) \in Seq(S)
         /\ \A k \in DOMAIN erase(q, i) :
              \E l \in DOMAIN q \ {i} : erase(q, i)[k] = q[l] /\ l = IF k < i THEN k ELSE k + 1
         /\ \A l \in DOMAIN q \ {i} : \E k \in DOMAIN erase(q, i) : erase(q, i)[k] = q[l]
<1> DEFINE r == erase(q, i)
<1>1. i \in 1 .. Len(q) /\ Len(q) \in Nat /\ DOMAIN q = 1 .. Len(q)
  OBVIOUS
<1>2. /\ r \in Seq(S) /\ Len(r) = Len(q) - 1
      /\ \A k \in 1 .. Len(q) - 1 : r[k] = q[IF k < i THEN k ELSE k + 1]
  BY Zenon, <1>1, EraseCorrect
<1> HIDE DEF r
<1>3. DOMAIN r = 1 .. Len(q) - 1
  BY <1>2
<1>4. ASSUME NEW k \in DOMAIN r
      PROVE  \E l \in DOMAIN q \ {i} : r[k] = q[l] /\ l = IF k < i THEN k ELSE k + 1
  <2>1. (IF k < i THEN k ELSE k + 1) \in DOMAIN q \ {i}
    BY <1>1, <1>3
  <2> QED
    BY Zenon, <1>2, <1>3, <2>1
<1>5. ASSUME NEW l \in DOMAIN q \ {i}
      PROVE  \E k \in DOMAIN r : r[k] = q[l]
  <2> DEFINE k == IF l < i THEN l ELSE l - 1
  <2>1. k \in DOMAIN r /\ (IF k < i THEN k ELSE k + 1) = l
    BY <1>1, <1>3
  <2> HIDE DEF k
  <2> QED
    BY Zenon, <1>2, <1>3, <2>1
<1> QED
  BY Zenon, <1>2, <1>4, <1>5 DEF r

\* A stalled flit becomes a credit.
LEMMA OwnedUnstall ==
  ASSUME NEW q \in Seq(Arrivals), NEW credits \in Seq(VCs), NEW f, NEW held,
         OwnedOnce(q, credits, f, held), NEW i \in DOMAIN q
  PROVE  OwnedOnce(erase(q, i), Append(credits, q[i].vc), f, held)
<1> DEFINE r == erase(q, i)
           x == q[i].vc
           c == Append(credits, x)
           n == Len(credits) + 1
<1>1. q[i] \in Arrivals /\ x \in VCs
  BY ArrivalFields
<1>2. /\ DOMAIN c = DOMAIN credits \cup {n} /\ n \notin DOMAIN credits
      /\ c[n] = x /\ \A k \in DOMAIN credits : c[k] = credits[k]
  BY <1>1, QueueAppend
<1>3. /\ \A k \in DOMAIN r : \E l \in DOMAIN q \ {i} : r[k] = q[l] /\ l = IF k < i THEN k ELSE k + 1
      /\ \A l \in DOMAIN q \ {i} : \E k \in DOMAIN r : r[k] = q[l]
      /\ r \in Seq(Arrivals)
  BY QueueRemove
<1>4. DOMAIN r \subseteq Nat /\ i \in Nat
  BY <1>3
<1> HIDE DEF r, c, n
<1>o. /\ \A j, k \in DOMAIN q : q[j].vc = q[k].vc => j = k
      /\ \A j, k \in DOMAIN credits : credits[j] = credits[k] => j = k
      /\ \A j \in DOMAIN q, k \in DOMAIN credits : q[j].vc # credits[k]
      /\ f # None => /\ \A j \in DOMAIN q : q[j].vc # f.vc
                     /\ \A k \in DOMAIN credits : credits[k] # f.vc
  BY Zenon DEF OwnedOnce
<1>5. \A j, k \in DOMAIN r : r[j].vc = r[k].vc => j = k
  <2> SUFFICES ASSUME NEW j \in DOMAIN r, NEW k \in DOMAIN r, r[j].vc = r[k].vc PROVE j = k
    OBVIOUS
  <2>1. (IF j < i THEN j ELSE j + 1) = (IF k < i THEN k ELSE k + 1)
    <3>1. PICK l \in DOMAIN q : r[j] = q[l] /\ l = IF j < i THEN j ELSE j + 1
      BY Zenon, <1>3
    <3>2. PICK m \in DOMAIN q : r[k] = q[m] /\ m = IF k < i THEN k ELSE k + 1
      BY Zenon, <1>3
    <3> QED
      BY Zenon, <1>o, <3>1, <3>2
  <2> QED
    BY <1>4, <2>1
<1>6. \A j \in DOMAIN r : r[j].vc # x
  BY Zenon, <1>3, <1>o
<1>7. \A j, k \in DOMAIN c : c[j] = c[k] => j = k
  BY <1>2, <1>o
<1>8. \A j \in DOMAIN r, k \in DOMAIN c : r[j].vc # c[k]
  <2> SUFFICES ASSUME NEW j \in DOMAIN r, NEW k \in DOMAIN c PROVE r[j].vc # c[k]
    OBVIOUS
  <2>1. PICK l \in DOMAIN q : r[j] = q[l]
    BY Zenon, <1>3
  <2>2. k \in DOMAIN credits => r[j].vc # c[k]
    BY ZenonT(40), <1>2, <1>o, <2>1
  <2> QED
    BY Zenon, <1>2, <1>6, <2>2
<1>9. f # None => /\ \A j \in DOMAIN r : r[j].vc # f.vc
                  /\ \A k \in DOMAIN c : c[k] # f.vc
  <2> SUFFICES ASSUME f # None
               PROVE  /\ \A j \in DOMAIN r : r[j].vc # f.vc
                      /\ \A k \in DOMAIN c : c[k] # f.vc
    OBVIOUS
  <2>1. /\ \A j \in DOMAIN q : q[j].vc # f.vc
        /\ \A k \in DOMAIN credits : credits[k] # f.vc
    BY Zenon, <1>o
  <2>2. x # f.vc
    BY Zenon, <2>1
  <2>3. \A j \in DOMAIN r : r[j].vc # f.vc
    BY Zenon, <1>3, <2>1
  <2> QED
    BY Zenon, <1>2, <2>1, <2>2, <2>3
<1>10. ASSUME NEW vc \in VCs
       PROVE  vc \in held <=> \/ \E j \in DOMAIN r : r[j].vc = vc
                              \/ \E k \in DOMAIN c : c[k] = vc
                              \/ f # None /\ f.vc = vc
  <2>1. (\E j \in DOMAIN q : q[j].vc = vc) <=> x = vc \/ \E j \in DOMAIN r : r[j].vc = vc
    BY Zenon, <1>3
  <2>2. (\E k \in DOMAIN c : c[k] = vc) <=> x = vc \/ \E k \in DOMAIN credits : credits[k] = vc
    BY Zenon, <1>2
  <2> QED
    BY Zenon, <2>1, <2>2 DEF OwnedOnce
<1>11. OwnedOnce(r, c, f, held)
  BY Zenon, <1>5, <1>7, <1>8, <1>9, <1>10 DEF OwnedOnce
<1> QED
  BY Zenon, <1>11 DEF r, c

\* A flit comes on the link, in a VC that is free.
LEMMA OwnedArrive ==
  ASSUME NEW q \in Seq(Arrivals), NEW credits \in Seq(VCs), NEW held,
         OwnedOnce(q, credits, None, held), NEW f \in Arrivals, f.vc \notin held
  PROVE  OwnedOnce(q, credits, f, held \cup {f.vc})
<1>1. f.vc \in VCs /\ f # None
  BY ArrivalFields
<1>2. /\ \A j \in DOMAIN q : q[j].vc # f.vc
      /\ \A k \in DOMAIN credits : credits[k] # f.vc
  BY Zenon, <1>1 DEF OwnedOnce
<1>3. \A vc \in VCs : vc \in held \cup {f.vc} <=>
        \/ \E j \in DOMAIN q : q[j].vc = vc
        \/ \E k \in DOMAIN credits : credits[k] = vc
        \/ f # None /\ f.vc = vc
  BY Zenon, <1>1 DEF OwnedOnce
<1> QED
  BY Zenon, <1>2, <1>3 DEF OwnedOnce

\* The flit on the link becomes a credit.
LEMMA OwnedConsume ==
  ASSUME NEW q \in Seq(Arrivals), NEW credits \in Seq(VCs), NEW held, NEW f \in Arrivals,
         OwnedOnce(q, credits, f, held)
  PROVE  OwnedOnce(q, Append(credits, f.vc), None, held)
<1> DEFINE c == Append(credits, f.vc)
           n == Len(credits) + 1
<1>1. f.vc \in VCs /\ f # None
  BY ArrivalFields
<1>2. /\ DOMAIN c = DOMAIN credits \cup {n} /\ n \notin DOMAIN credits
      /\ c[n] = f.vc /\ \A k \in DOMAIN credits : c[k] = credits[k]
  BY <1>1, QueueAppend
<1> HIDE DEF c, n
<1>3. /\ \A j, k \in DOMAIN q : q[j].vc = q[k].vc => j = k
      /\ \A j, k \in DOMAIN credits : credits[j] = credits[k] => j = k
      /\ \A j \in DOMAIN q, k \in DOMAIN credits : q[j].vc # credits[k]
      /\ \A j \in DOMAIN q : q[j].vc # f.vc
      /\ \A k \in DOMAIN credits : credits[k] # f.vc
  BY Zenon, <1>1 DEF OwnedOnce
<1>4. \A j, k \in DOMAIN c : c[j] = c[k] => j = k
  BY <1>2, <1>3
<1>5. \A j \in DOMAIN q, k \in DOMAIN c : q[j].vc # c[k]
  BY Zenon, <1>2, <1>3
<1>6. ASSUME NEW vc \in VCs
      PROVE  vc \in held <=> \/ \E j \in DOMAIN q : q[j].vc = vc
                             \/ \E k \in DOMAIN c : c[k] = vc
  <2>1. (\E k \in DOMAIN c : c[k] = vc) <=> f.vc = vc \/ \E k \in DOMAIN credits : credits[k] = vc
    BY Zenon, <1>2
  <2> QED
    BY Zenon, <1>1, <2>1 DEF OwnedOnce
<1>7. OwnedOnce(q, c, None, held)
  BY Zenon, <1>3, <1>4, <1>5, <1>6 DEF OwnedOnce
<1> QED
  BY Zenon, <1>7 DEF c

\* The flit on the link becomes a stalled one.
LEMMA OwnedStall ==
  ASSUME NEW q \in Seq(Arrivals), NEW credits \in Seq(VCs), NEW held, NEW f \in Arrivals,
         OwnedOnce(q, credits, f, held)
  PROVE  OwnedOnce(Append(q, f), credits, None, held)
<1> DEFINE r == Append(q, f)
           n == Len(q) + 1
<1>1. f.vc \in VCs /\ f # None
  BY ArrivalFields
<1>2. /\ DOMAIN r = DOMAIN q \cup {n} /\ n \notin DOMAIN q
      /\ r[n] = f /\ \A k \in DOMAIN q : r[k] = q[k]
  BY <1>1, QueueAppend
<1> HIDE DEF r, n
<1>3. /\ \A j, k \in DOMAIN q : q[j].vc = q[k].vc => j = k
      /\ \A j, k \in DOMAIN credits : credits[j] = credits[k] => j = k
      /\ \A j \in DOMAIN q, k \in DOMAIN credits : q[j].vc # credits[k]
      /\ \A j \in DOMAIN q : q[j].vc # f.vc
      /\ \A k \in DOMAIN credits : credits[k] # f.vc
  BY Zenon, <1>1 DEF OwnedOnce
<1>4. \A j, k \in DOMAIN r : r[j].vc = r[k].vc => j = k
  BY <1>2, <1>3
<1>5. \A j \in DOMAIN r, k \in DOMAIN credits : r[j].vc # credits[k]
  BY Zenon, <1>2, <1>3
<1>6. ASSUME NEW vc \in VCs
      PROVE  vc \in held <=> \/ \E j \in DOMAIN r : r[j].vc = vc
                             \/ \E k \in DOMAIN credits : credits[k] = vc
  <2>1. (\E k \in DOMAIN r : r[k].vc = vc) <=> f.vc = vc \/ \E k \in DOMAIN q : q[k].vc = vc
    BY Zenon, <1>2
  <2> QED
    BY Zenon, <1>1, <2>1 DEF OwnedOnce
<1>7. OwnedOnce(r, credits, None, held)
  BY Zenon, <1>3, <1>4, <1>5, <1>6 DEF OwnedOnce
<1> QED
  BY Zenon, <1>7 DEF r

\* A credit leaves for the router, which has its VC back.
LEMMA OwnedReturn ==
  ASSUME NEW q \in Seq(Arrivals), NEW credits \in Seq(VCs), NEW f, NEW held,
         OwnedOnce(q, credits, f, held), credits # <<>>
  PROVE  OwnedOnce(q, Tail(credits), f, held \ {Head(credits)})
<1> DEFINE c == Tail(credits)
           x == Head(credits)
<1>1. /\ c \in Seq(VCs) /\ x = credits[1] /\ 1 \in DOMAIN credits
      /\ \A k \in DOMAIN c : k + 1 \in DOMAIN credits /\ c[k] = credits[k + 1] /\ k \in Nat \ {0}
      /\ \A l \in DOMAIN credits : l # 1 => l - 1 \in DOMAIN c /\ c[l - 1] = credits[l]
  OBVIOUS
<1> HIDE DEF c, x
<1>2. /\ \A j, k \in DOMAIN q : q[j].vc = q[k].vc => j = k
      /\ \A j, k \in DOMAIN credits : credits[j] = credits[k] => j = k
      /\ \A j \in DOMAIN q, k \in DOMAIN credits : q[j].vc # credits[k]
      /\ f # None => /\ \A j \in DOMAIN q : q[j].vc # f.vc
                     /\ \A k \in DOMAIN credits : credits[k] # f.vc
  BY Zenon DEF OwnedOnce
<1>3. \A j, k \in DOMAIN c : c[j] = c[k] => j = k
  BY <1>1, <1>2
<1>4. \A k \in DOMAIN c : c[k] # x
  BY <1>1, <1>2
<1>5. \A j \in DOMAIN q : q[j].vc # x
  BY Zenon, <1>1, <1>2
<1>6. ASSUME NEW vc \in VCs
      PROVE  vc \in held \ {x} <=> \/ \E j \in DOMAIN q : q[j].vc = vc
                                   \/ \E k \in DOMAIN c : c[k] = vc
                                   \/ f # None /\ f.vc = vc
  <2>1. (\E k \in DOMAIN credits : credits[k] = vc) <=> x = vc \/ \E k \in DOMAIN c : c[k] = vc
    BY Zenon, <1>1
  <2>2. f # None => f.vc # x
    BY Zenon, <1>1, <1>2
  <2>3. vc \in held <=> \/ \E j \in DOMAIN q : q[j].vc = vc
                        \/ \E k \in DOMAIN credits : credits[k] = vc
                        \/ f # None /\ f.vc = vc
    BY Zenon DEF OwnedOnce
  <2> QED
    BY Zenon, <1>4, <1>5, <2>1, <2>2, <2>3
<1>7. /\ \A j \in DOMAIN q, k \in DOMAIN c : q[j].vc # c[k]
      /\ f # None => \A k \in DOMAIN c : c[k] # f.vc
  BY <1>1, <1>2
<1>8. OwnedOnce(q, c, f, held \ {x})
  BY Zenon, <1>2, <1>3, <1>6, <1>7 DEF OwnedOnce
<1> QED
  BY Zenon, <1>8 DEF c, x

-----------------------------------------------------------------------------
\* What the NI and the controller do to a message buffer.
LEMMA BufferEnqueue ==
  ASSUME NEW b \in Buffer, BufferSound(b), areNSlotsAvailable(b, 1)
  PROVE  /\ enqueue(b) \in Buffer /\ BufferSound(enqueue(b))
         /\ enqueue(b).callback = b.callback
<1>1. enqueue(b) \in Buffer /\ enqueue(b).callback = b.callback
  <2>1. b.heap + 1 \in Nat /\ b.enqueued + 1 \in Nat
    BY DEF Buffer
  <2> QED
    BY Zenon, <2>1 DEF Buffer, enqueue
<1>2. /\ enqueue(b).heap = b.heap + 1 /\ enqueue(b).enqueued = b.enqueued + 1
      /\ enqueue(b).popped = b.popped /\ enqueue(b).start = b.start
  BY DEF Buffer, enqueue
<1>3. {b.heap, b.enqueued, b.popped, b.start} \subseteq Nat
  BY DEF Buffer
<1> QED
  BY <1>1, <1>2, <1>3, Sizes DEF BufferSound, areNSlotsAvailable, current_size

LEMMA BufferDequeue ==
  ASSUME NEW b \in Buffer, BufferSound(b), isReady(b)
  PROVE  /\ dequeue(b) \in Buffer /\ BufferSound(dequeue(b))
         /\ dequeue(b).callback = b.callback
<1>1. b.heap - 1 \in Nat /\ {b.heap, b.enqueued, b.popped, b.start} \subseteq Nat
  BY DEF Buffer, isReady
<1>2. dequeue(b) \in Buffer /\ dequeue(b).callback = b.callback
  <2>1. b.popped + 1 \in Nat /\ (IF b.popped = 0 THEN b.heap ELSE b.start) \in Nat
    BY <1>1
  <2> QED
    BY Zenon, <1>1, <2>1 DEF Buffer, dequeue
<1>3. /\ dequeue(b).heap = b.heap - 1 /\ dequeue(b).enqueued = b.enqueued
      /\ dequeue(b).start = IF b.popped = 0 THEN b.heap ELSE b.start
  BY DEF Buffer, dequeue
<1> QED
  BY <1>1, <1>2, <1>3, Sizes DEF BufferSound

LEMMA BufferNextCycle ==
  ASSUME NEW b \in Buffer, BufferSound(b)
  PROVE  /\ NextCycle(b) \in Buffer /\ BufferSound(NextCycle(b))
         /\ NextCycle(b).callback = b.callback
<1>1. NextCycle(b) \in Buffer /\ NextCycle(b).callback = b.callback
  BY DEF Buffer, NextCycle
<1>2. NextCycle(b).heap = b.heap /\ NextCycle(b).popped = 0
  BY DEF Buffer, NextCycle
<1> QED
  BY <1>1, <1>2 DEF BufferSound

LEMMA BufferCallbacks ==
  ASSUME NEW b \in Buffer, BufferSound(b)
  PROVE  /\ registerDequeueCallback(b) \in Buffer /\ BufferSound(registerDequeueCallback(b))
         /\ registerDequeueCallback(b).callback = TRUE
         /\ unregisterDequeueCallback(b) \in Buffer /\ BufferSound(unregisterDequeueCallback(b))
         /\ unregisterDequeueCallback(b).callback = FALSE
BY Sizes DEF Buffer, BufferSound, registerDequeueCallback, unregisterDequeueCallback

\* The same books in terms of Places.
LEMMA BookkeepingIff ==
  StallBookkeeping <=>
    \A vnet \in Vnets : /\ m_stall_count[vnet] = Cardinality(Places(m_stall_queue, vnet))
                        /\ outNode[vnet].callback <=> Places(m_stall_queue, vnet) # {}
BY Zenon DEF StallBookkeeping, Places

LEMMA EjectFrame ==
  ASSUME EjectBooks, UNCHANGED <<ejectVars, link_flit>>
  PROVE  EjectBooks'
<1>1. /\ m_stall_queue' = m_stall_queue /\ m_stall_count' = m_stall_count
      /\ outNode' = outNode /\ outCreditQueue' = outCreditQueue
      /\ ejecting' = ejecting /\ link_flit' = link_flit
  BY DEF ejectVars
<1>2. EjectTypes'
  BY Zenon, <1>1 DEF EjectBooks, EjectTypes
<1>3. \A vnet \in Vnets : BufferSound(outNode'[vnet])
  BY Zenon, <1>1 DEF EjectBooks
<1>4. StallBookkeeping'
  BY Zenon, <1>1 DEF EjectBooks, StallBookkeeping
<1>5. EjectOwners'
  BY Zenon, <1>1 DEF EjectBooks, EjectOwners
<1> QED
  BY Zenon, <1>2, <1>3, <1>4, <1>5 DEF EjectBooks, BufferSound

LEMMA BookkeepingStep ==
  ASSUME m_stall_queue' \in Seq(Arrivals), m_stall_count' \in [Vnets -> Int],
         \A vnet \in Vnets : m_stall_count'[vnet] = Cardinality(Places(m_stall_queue', vnet)),
         \A vnet \in Vnets : outNode'[vnet].callback <=> Places(m_stall_queue', vnet) # {}
  PROVE  StallBookkeeping' /\ m_stall_count' \in [Vnets -> Nat]
<1>1. StallBookkeeping'
  BY Zenon DEF StallBookkeeping, Places
<1>2. \A vnet \in Vnets : m_stall_count'[vnet] \in Nat
  BY Zenon, PlacesFinite
<1> QED
  BY <1>1, <1>2

-----------------------------------------------------------------------------
\* Every step keeps the books of what is received.
LEMMA EjectArrive ==
  ASSUME EjectInv, NEW f \in ArrivingFlit, NEW c, wakeup(f, c)
  PROVE  EjectBooks'
<1> USE DEF EjectInv, EjectBooks
<1>1. /\ link_flit = None /\ link_flit' = f
      /\ f # None => f.vc \notin ejecting
      /\ ejecting' = IF f = None THEN ejecting ELSE ejecting \cup {f.vc}
      /\ m_stall_queue' = m_stall_queue /\ m_stall_count' = m_stall_count
      /\ outNode' = outNode /\ outCreditQueue' = outCreditQueue
  BY DEF wakeup, Control
<1>2. f # None => f \in Arrivals /\ f.vc \in VCs
  BY ArrivalFields DEF ArrivingFlit
<1>3. EjectTypes'
  <2>1. ejecting' \subseteq VCs
    BY <1>1, <1>2 DEF EjectTypes
  <2> QED
    BY Zenon, <1>1, <2>1 DEF EjectTypes
<1>4. \A vnet \in Vnets : BufferSound(outNode'[vnet])
  BY Zenon, <1>1
<1>5. StallBookkeeping'
  BY Zenon, <1>1 DEF StallBookkeeping
<1>6. EjectOwners'
  <2>1. OwnedOnce(m_stall_queue, outCreditQueue, None, ejecting)
    BY Zenon, <1>1 DEF EjectOwners
  <2>2. CASE f = None
    BY Zenon, <1>1, <2>1, <2>2 DEF EjectOwners
  <2>3. CASE f # None
    <3>1. OwnedOnce(m_stall_queue, outCreditQueue, f, ejecting \cup {f.vc})
      BY Zenon, <1>1, <1>2, <2>1, <2>3, OwnedArrive DEF EjectTypes
    <3> QED
      BY Zenon, <1>1, <2>3, <3>1 DEF EjectOwners
  <2> QED
    BY Zenon, <2>2, <2>3
<1> QED
  BY Zenon, <1>3, <1>4, <1>5, <1>6 DEF BufferSound

\* One vnet's buffer changes.
LEMMA OneBuffer ==
  ASSUME outNode \in [Vnets -> Buffer], \A vnet \in Vnets : BufferSound(outNode[vnet]),
         NEW v \in Vnets, NEW b \in Buffer, BufferSound(b), outNode' = [outNode EXCEPT ![v] = b]
  PROVE  outNode' \in [Vnets -> Buffer] /\ \A vnet \in Vnets : BufferSound(outNode'[vnet])
BY Zenon

LEMMA EjectUnstall ==
  ASSUME EjectInv, checkStallQueue, link_flit' = link_flit, ejecting' = ejecting
  PROVE  EjectBooks'
<1> USE DEF EjectInv, EjectBooks
<1>1. CASE Unstallable = {}
  <2>1. UNCHANGED <<m_stall_queue, m_stall_count, outNode, outCreditQueue>>
    BY Zenon, <1>1 DEF checkStallQueue
  <2> QED
    BY <2>1, EjectFrame DEF ejectVars
<1>2. CASE Unstallable # {}
  <2> DEFINE k == Min(Unstallable)
             f == m_stall_queue[k]
             v == f.vnet
             q == erase(m_stall_queue, k)
             b == AfterUnstall(enqueue(outNode[v]), m_stall_count[v] - 1)
  <2>1. k \in Unstallable
    <3>1. Unstallable \in SUBSET Nat
      BY DEF Unstallable, EjectTypes
    <3> QED
      BY Zenon, <1>2, <3>1, MinCorrect
  <2>2. k \in DOMAIN m_stall_queue /\ areNSlotsAvailable(outNode[v], 1)
    BY Zenon, <2>1 DEF Unstallable
  <2>3. f \in Arrivals /\ v \in Vnets /\ f.vc \in VCs
    BY <2>2, ArrivalFields DEF EjectTypes
  <2>4. /\ m_stall_queue' = q
        /\ m_stall_count' = [m_stall_count EXCEPT ![v] = @ - 1]
        /\ outNode' = [outNode EXCEPT ![v] = AfterUnstall(enqueue(@), m_stall_count'[v])]
        /\ outCreditQueue' = Append(outCreditQueue, f.vc)
    BY Zenon, <1>2 DEF checkStallQueue, sendCredit
  <2>5. m_stall_count'[v] = m_stall_count[v] - 1 /\ outNode' = [outNode EXCEPT ![v] = b]
    <3>1. m_stall_count'[v] = m_stall_count[v] - 1
      BY Zenon, <2>3, <2>4 DEF EjectTypes
    <3> QED
      BY Zenon, <2>4, <3>1
  <2> HIDE DEF k, b, q
  <2>6. q \in Seq(Arrivals)
    BY Zenon, <2>2, QueueRemove DEF EjectTypes, q
  <2>7. /\ m_stall_count[v] = Cardinality(Places(m_stall_queue, v))
        /\ outNode[v].callback <=> Places(m_stall_queue, v) # {}
    BY Zenon, <2>3, BookkeepingIff
  <2>8. \A vnet \in Vnets : Cardinality(Places(q, vnet)) =
          Cardinality(Places(m_stall_queue, vnet)) + (IF vnet = v THEN -1 ELSE 0)
    <3> SUFFICES ASSUME NEW vnet \in Vnets
                 PROVE  Cardinality(Places(q, vnet)) =
                          Cardinality(Places(m_stall_queue, vnet)) + (IF vnet = v THEN -1 ELSE 0)
      OBVIOUS
    <3>1. Cardinality(Places(q, vnet)) =
            Cardinality(Places(m_stall_queue, vnet)) - (IF f.vnet = vnet THEN 1 ELSE 0)
      BY <2>2, PlacesRemove DEF EjectTypes, q
    <3>2. Cardinality(Places(m_stall_queue, vnet)) \in Nat
      BY Zenon, PlacesFinite DEF EjectTypes
    <3> QED
      BY <3>1, <3>2
  <2>9. \A vnet \in Vnets :
          /\ Places(q, vnet) # {} <=> Cardinality(Places(q, vnet)) # 0
          /\ Places(m_stall_queue, vnet) # {} <=> Cardinality(Places(m_stall_queue, vnet)) # 0
          /\ Cardinality(Places(m_stall_queue, vnet)) \in Nat
    BY Zenon, <2>6, PlacesFinite, FS_EmptySet DEF EjectTypes
  <2>10. \A vnet \in Vnets \ {v} : Places(q, vnet) # {} <=> Places(m_stall_queue, vnet) # {}
    BY <2>8, <2>9
  <2>11. m_stall_count[v] # 0
    <3>1. k \in Places(m_stall_queue, v)
      BY Zenon, <2>2 DEF Places
    <3> QED
      BY Zenon, <2>3, <2>7, <2>9, <3>1
  <2>12. /\ enqueue(outNode[v]) \in Buffer /\ BufferSound(enqueue(outNode[v]))
         /\ enqueue(outNode[v]).callback = outNode[v].callback
    BY Zenon, <2>2, <2>3, BufferEnqueue DEF EjectTypes
  <2>13. b \in Buffer /\ BufferSound(b) /\ (b.callback <=> m_stall_count[v] - 1 # 0)
    <3>1. outNode[v].callback
      BY Zenon, <2>3, <2>7, <2>9, <2>11
    <3> QED
      BY Zenon, <2>12, <3>1, BufferCallbacks DEF AfterUnstall, b
  <2>14. b.callback <=> Places(q, v) # {}
    <3>1. m_stall_count[v] - 1 = Cardinality(Places(q, v))
      BY <2>3, <2>7, <2>8, <2>9
    <3> QED
      BY Zenon, <2>3, <2>9, <2>13, <3>1
  <2>16. StallBookkeeping' /\ m_stall_count' \in [Vnets -> Nat]
    <3>1. m_stall_count' \in [Vnets -> Int]
      BY <2>3, <2>4 DEF EjectTypes
    <3>2. \A vnet \in Vnets : m_stall_count[vnet] = Cardinality(Places(m_stall_queue, vnet))
      BY Zenon, BookkeepingIff
    <3>3. \A vnet \in Vnets : m_stall_count'[vnet] = Cardinality(Places(q, vnet))
      BY <2>3, <2>4, <2>8, <2>9, <3>2 DEF EjectTypes
    <3>4. \A vnet \in Vnets : outNode'[vnet].callback <=> Places(q, vnet) # {}
      <4>1. \A vnet \in Vnets \ {v} : outNode'[vnet] = outNode[vnet]
        BY Zenon, <2>5 DEF EjectTypes
      <4>2. outNode'[v] = b
        BY Zenon, <2>3, <2>5 DEF EjectTypes
      <4>3. \A vnet \in Vnets : outNode[vnet].callback <=> Places(m_stall_queue, vnet) # {}
        BY Zenon, BookkeepingIff
      <4> QED
        BY Zenon, <2>10, <2>14, <4>1, <4>2, <4>3
    <3> QED
      BY Zenon, <2>4, <2>6, <3>1, <3>3, <3>4, BookkeepingStep
  <2>17. EjectOwners'
    <3>1. OwnedOnce(q, Append(outCreditQueue, f.vc), link_flit, ejecting)
      BY Zenon, <2>2, OwnedUnstall DEF EjectTypes, EjectOwners, q
    <3> QED
      BY Zenon, <2>4, <3>1 DEF EjectOwners
  <2>18. outNode' \in [Vnets -> Buffer] /\ \A vnet \in Vnets : BufferSound(outNode'[vnet])
    BY Zenon, <2>3, <2>5, <2>13, OneBuffer DEF EjectTypes
  <2>19. outCreditQueue' \in Seq(VCs)
    BY Zenon, <2>3, <2>4, QueueAppend DEF EjectTypes
  <2>20. EjectTypes'
    BY Zenon, <2>4, <2>6, <2>16, <2>18, <2>19 DEF EjectTypes
  <2> QED
    BY Zenon, <2>16, <2>17, <2>18, <2>20 DEF BufferSound
<1> QED
  BY Zenon, <1>1, <1>2

LEMMA EjectConsume ==
  ASSUME EjectInv, NEW f \in Arrivals, link_flit = f, consumeFlit(f),
         link_flit' = None, ejecting' = ejecting
  PROVE  EjectBooks'
<1> USE DEF EjectInv, EjectBooks
<1> DEFINE v == f.vnet
<1>1. v \in Vnets /\ f.vc \in VCs /\ None \in ArrivingFlit
  BY ArrivalFields DEF ArrivingFlit
<1>2. OwnedOnce(m_stall_queue, outCreditQueue, f, ejecting)
  BY Zenon DEF EjectOwners
<1>3. CASE ~messageEnqueuedThisCycle /\ areNSlotsAvailable(outNode[v], 1)
  <2>1. /\ outNode' = [outNode EXCEPT ![v] = enqueue(outNode[v])]
        /\ outCreditQueue' = Append(outCreditQueue, f.vc)
        /\ m_stall_queue' = m_stall_queue /\ m_stall_count' = m_stall_count
    BY Zenon, <1>3 DEF consumeFlit, sendCredit
  <2>2. /\ enqueue(outNode[v]) \in Buffer /\ BufferSound(enqueue(outNode[v]))
        /\ enqueue(outNode[v]).callback = outNode[v].callback
    BY Zenon, <1>1, <1>3, BufferEnqueue DEF EjectTypes
  <2>3. outNode' \in [Vnets -> Buffer] /\ \A vnet \in Vnets : BufferSound(outNode'[vnet])
    BY Zenon, <1>1, <2>1, <2>2, OneBuffer DEF EjectTypes
  <2>4. \A vnet \in Vnets : outNode'[vnet].callback = outNode[vnet].callback
    BY Zenon, <1>1, <2>1, <2>2 DEF EjectTypes
  <2>5. StallBookkeeping'
    BY Zenon, <2>1, <2>4 DEF StallBookkeeping
  <2>6. EjectOwners'
    <3>1. OwnedOnce(m_stall_queue, Append(outCreditQueue, f.vc), None, ejecting)
      BY Zenon, <1>2, OwnedConsume DEF EjectTypes
    <3> QED
      BY Zenon, <2>1, <3>1 DEF EjectOwners
  <2>7. outCreditQueue' \in Seq(VCs)
    BY Zenon, <1>1, <2>1, QueueAppend DEF EjectTypes
  <2>8. EjectTypes'
    BY Zenon, <1>1, <2>1, <2>3, <2>7 DEF EjectTypes
  <2> QED
    BY Zenon, <2>3, <2>5, <2>6, <2>8 DEF BufferSound
<1>4. CASE messageEnqueuedThisCycle \/ ~areNSlotsAvailable(outNode[v], 1)
  <2> DEFINE q == Append(m_stall_queue, f)
             b == registerDequeueCallback(outNode[v])
  <2>1. /\ outNode' = [outNode EXCEPT ![v] = b]
        /\ outCreditQueue' = outCreditQueue
        /\ m_stall_queue' = q
        /\ m_stall_count' = [m_stall_count EXCEPT ![v] = m_stall_count[v] + 1]
    BY Zenon, <1>4 DEF consumeFlit
  <2>2. b \in Buffer /\ BufferSound(b) /\ b.callback = TRUE
    BY Zenon, <1>1, BufferCallbacks DEF EjectTypes
  <2>3. q \in Seq(Arrivals)
    BY Zenon, QueueAppend DEF EjectTypes
  <2>4. \A vnet \in Vnets :
          /\ Places(q, vnet) =
               Places(m_stall_queue, vnet) \cup (IF f.vnet = vnet THEN {Len(m_stall_queue) + 1} ELSE {})
          /\ Cardinality(Places(q, vnet)) =
               Cardinality(Places(m_stall_queue, vnet)) + (IF f.vnet = vnet THEN 1 ELSE 0)
    BY PlacesAppend DEF EjectTypes
  <2> HIDE DEF q, b
  <2>5. \A vnet \in Vnets \ {v} : Places(q, vnet) = Places(m_stall_queue, vnet)
    BY <2>4
  <2>6. Places(q, v) # {}
    BY <1>1, <2>4
  <2>7. StallBookkeeping' /\ m_stall_count' \in [Vnets -> Nat]
    <3>1. m_stall_count' \in [Vnets -> Int]
      BY <1>1, <2>1 DEF EjectTypes
    <3>2. \A vnet \in Vnets : /\ m_stall_count[vnet] = Cardinality(Places(m_stall_queue, vnet))
                              /\ m_stall_count[vnet] \in Nat
      BY Zenon, BookkeepingIff DEF EjectTypes
    <3>3. \A vnet \in Vnets : m_stall_count'[vnet] = Cardinality(Places(q, vnet))
      BY <1>1, <2>1, <2>4, <3>2 DEF EjectTypes
    <3>4. \A vnet \in Vnets : outNode'[vnet].callback <=> Places(q, vnet) # {}
      <4>1. \A vnet \in Vnets \ {v} : outNode'[vnet] = outNode[vnet]
        BY Zenon, <2>1 DEF EjectTypes
      <4>2. outNode'[v] = b
        BY Zenon, <1>1, <2>1 DEF EjectTypes
      <4>3. \A vnet \in Vnets : outNode[vnet].callback <=> Places(m_stall_queue, vnet) # {}
        BY Zenon, BookkeepingIff
      <4> QED
        BY Zenon, <2>2, <2>5, <2>6, <4>1, <4>2, <4>3
    <3> QED
      BY Zenon, <2>1, <2>3, <3>1, <3>3, <3>4, BookkeepingStep
  <2>8. outNode' \in [Vnets -> Buffer] /\ \A vnet \in Vnets : BufferSound(outNode'[vnet])
    BY Zenon, <1>1, <2>1, <2>2, OneBuffer DEF EjectTypes
  <2>9. EjectOwners'
    <3>1. OwnedOnce(q, outCreditQueue, None, ejecting)
      BY Zenon, <1>2, OwnedStall DEF EjectTypes, q
    <3> QED
      BY Zenon, <2>1, <3>1 DEF EjectOwners
  <2>10. EjectTypes'
    BY Zenon, <1>1, <2>1, <2>3, <2>7, <2>8 DEF EjectTypes
  <2> QED
    BY Zenon, <2>7, <2>8, <2>9, <2>10 DEF BufferSound
<1> QED
  BY Zenon, <1>3, <1>4 DEF consumeFlit

\* The buffers change, but neither their callbacks nor anything else.
LEMMA EjectBuffers ==
  ASSUME EjectBooks, outNode' \in [Vnets -> Buffer],
         \A vnet \in Vnets : BufferSound(outNode'[vnet]),
         \A vnet \in Vnets : outNode'[vnet].callback = outNode[vnet].callback,
         UNCHANGED <<m_stall_queue, m_stall_count, outCreditQueue, ejecting, link_flit>>
  PROVE  EjectBooks'
<1>1. /\ m_stall_queue' = m_stall_queue /\ m_stall_count' = m_stall_count
      /\ outCreditQueue' = outCreditQueue /\ ejecting' = ejecting /\ link_flit' = link_flit
  OBVIOUS
<1>2. EjectTypes'
  BY Zenon, <1>1 DEF EjectBooks, EjectTypes
<1>3. StallBookkeeping'
  BY ZenonT(40), <1>1 DEF EjectBooks, StallBookkeeping
<1>4. EjectOwners'
  BY Zenon, <1>1 DEF EjectBooks, EjectOwners
<1> QED
  BY Zenon, <1>2, <1>3, <1>4 DEF EjectBooks, BufferSound

LEMMA EjectCredit ==
  ASSUME EjectInv, CreditLink_wakeup
  PROVE  EjectBooks'
<1> USE DEF EjectInv, EjectBooks
<1>1. /\ m_stall_queue' = m_stall_queue /\ m_stall_count' = m_stall_count
      /\ outNode' = outNode /\ link_flit' = link_flit
  BY DEF CreditLink_wakeup, linkVars
<1>2. CASE outCreditQueue = <<>>
  <2>1. UNCHANGED <<outCreditQueue, ejecting>>
    BY Zenon, <1>2 DEF CreditLink_wakeup
  <2> QED
    BY <1>1, <2>1, EjectFrame DEF ejectVars
<1>3. CASE outCreditQueue # <<>>
  <2>1. /\ outCreditQueue' = Tail(outCreditQueue)
        /\ ejecting' = ejecting \ {Head(outCreditQueue)}
    BY Zenon, <1>3 DEF CreditLink_wakeup
  <2>2. EjectTypes'
    <3>1. Tail(outCreditQueue) \in Seq(VCs)
      BY <1>3 DEF EjectTypes
    <3>2. ejecting' \subseteq VCs
      BY Zenon, <2>1 DEF EjectTypes
    <3> QED
      BY Zenon, <1>1, <2>1, <3>1, <3>2 DEF EjectTypes
  <2>3. EjectOwners'
    <3>1. OwnedOnce(m_stall_queue, Tail(outCreditQueue), link_flit, ejecting \ {Head(outCreditQueue)})
      BY Zenon, <1>3, OwnedReturn DEF EjectTypes, EjectOwners
    <3> QED
      BY Zenon, <1>1, <2>1, <3>1 DEF EjectOwners
  <2>4. StallBookkeeping' /\ \A vnet \in Vnets : BufferSound(outNode'[vnet])
    BY Zenon, <1>1 DEF StallBookkeeping
  <2> QED
    BY Zenon, <2>2, <2>3, <2>4 DEF BufferSound
<1> QED
  BY Zenon, <1>2, <1>3

LEMMA EjectStep ==
  ASSUME EjectInv, [Next]_vars
  PROVE  EjectInv'
<1>1. Control'
  BY Zenon, ControlStep DEF EjectInv
<1>2. EjectBooks
  BY DEF EjectInv
<1>3. CASE MessageArrives
  <2>1. UNCHANGED <<ejectVars, link_flit>>
    BY <1>3 DEF MessageArrives, linkVars
  <2> QED
    BY Zenon, <1>1, <1>2, <2>1, EjectFrame DEF EjectInv
<1>4. ASSUME NEW f \in ArrivingFlit, NEW c, wakeup(f, c) PROVE EjectInv'
  BY Zenon, <1>1, <1>4, EjectArrive DEF EjectInv
<1>5. CASE flitisizeMessage
  <2>1. UNCHANGED <<ejectVars, link_flit>>
    BY <1>5 DEF flitisizeMessage, linkVars
  <2> QED
    BY Zenon, <1>1, <1>2, <2>1, EjectFrame DEF EjectInv
<1>6. CASE SendAndUnstall
  <2>1. checkStallQueue /\ link_flit' = link_flit /\ ejecting' = ejecting
    BY <1>6 DEF SendAndUnstall, linkVars
  <2> QED
    BY Zenon, <1>1, <2>1, EjectUnstall DEF EjectInv
<1>7. CASE consumeLinks
  <2>1. link_flit' = None /\ ejecting' = ejecting /\ link_flit \in ArrivingFlit
    BY <1>2, <1>7 DEF consumeLinks, EjectBooks, EjectTypes
  <2>2. CASE link_flit = None
    <3>1. UNCHANGED <<m_stall_queue, m_stall_count, outNode, outCreditQueue>>
      BY Zenon, <1>7, <2>2 DEF consumeLinks
    <3>2. UNCHANGED <<ejectVars, link_flit>>
      BY <2>1, <2>2, <3>1 DEF ejectVars
    <3> QED
      BY Zenon, <1>1, <1>2, <3>2, EjectFrame DEF EjectInv
  <2>3. CASE link_flit # None
    <3>1. consumeFlit(link_flit) /\ link_flit \in Arrivals
      BY Zenon, <1>7, <2>1, <2>3 DEF consumeLinks, ArrivingFlit
    <3> QED
      BY Zenon, <1>1, <2>1, <3>1, EjectConsume DEF EjectInv
  <2> QED
    BY Zenon, <2>2, <2>3
<1>8. CASE CreditLink_wakeup
  BY Zenon, <1>1, <1>8, EjectCredit DEF EjectInv
<1>9. ASSUME NEW vnet \in Vnets, Controller_dequeue(vnet) PROVE EjectInv'
  <2>1. /\ isReady(outNode[vnet]) /\ outNode' = [outNode EXCEPT ![vnet] = dequeue(outNode[vnet])]
        /\ UNCHANGED <<m_stall_queue, m_stall_count, outCreditQueue, ejecting, link_flit>>
    BY <1>9 DEF Controller_dequeue, linkVars
  <2>2. outNode[vnet] \in Buffer /\ BufferSound(outNode[vnet]) /\ outNode \in [Vnets -> Buffer]
    BY Zenon, <1>2 DEF EjectBooks, EjectTypes
  <2>3. /\ dequeue(outNode[vnet]) \in Buffer /\ BufferSound(dequeue(outNode[vnet]))
        /\ dequeue(outNode[vnet]).callback = outNode[vnet].callback
    BY Zenon, <2>1, <2>2, BufferDequeue
  <2>4. outNode' \in [Vnets -> Buffer] /\ \A w \in Vnets : BufferSound(outNode'[w])
    BY Zenon, <1>2, <2>1, <2>2, <2>3, OneBuffer DEF EjectBooks
  <2>5. \A w \in Vnets : outNode'[w].callback = outNode[w].callback
    BY Zenon, <2>1, <2>2, <2>3
  <2> QED
    BY Zenon, <1>1, <1>2, <2>1, <2>4, <2>5, EjectBuffers DEF EjectInv
<1>10. CASE Tick
  <2>1. /\ outNode' = [vnet \in Vnets |-> NextCycle(outNode[vnet])]
        /\ UNCHANGED <<m_stall_queue, m_stall_count, outCreditQueue, ejecting, link_flit>>
    BY <1>10 DEF Tick, linkVars
  <2>2. \A w \in Vnets : outNode[w] \in Buffer /\ BufferSound(outNode[w])
    BY Zenon, <1>2 DEF EjectBooks, EjectTypes
  <2>3. \A w \in Vnets : /\ NextCycle(outNode[w]) \in Buffer /\ BufferSound(NextCycle(outNode[w]))
                         /\ NextCycle(outNode[w]).callback = outNode[w].callback
    BY Zenon, <2>2, BufferNextCycle
  <2>4. /\ outNode' \in [Vnets -> Buffer] /\ \A w \in Vnets : BufferSound(outNode'[w])
        /\ \A w \in Vnets : outNode'[w].callback = outNode[w].callback
    BY Zenon, <2>1, <2>3
  <2> QED
    BY Zenon, <1>1, <1>2, <2>1, <2>4, EjectBuffers DEF EjectInv
<1>11. CASE UNCHANGED vars
  <2>1. UNCHANGED <<ejectVars, link_flit>>
    BY <1>11 DEF vars, linkVars
  <2> QED
    BY Zenon, <1>1, <1>2, <2>1, EjectFrame DEF EjectInv
<1> QED
  <2>1. None \in ArrivingFlit /\ Arrivals \subseteq ArrivingFlit
    BY DEF ArrivingFlit
  <2> QED
    BY Zenon, <2>1, <1>3, <1>4, <1>5, <1>6, <1>7, <1>8, <1>9, <1>10, <1>11
    DEF Next, Step, CreditReturns

LEMMA EjectInit == Init => EjectInv
<1> SUFFICES ASSUME Init PROVE EjectInv
  OBVIOUS
<1> USE DEF Init
<1>1. Control
  BY Stages DEF Control
<1>2. EmptyBuffer \in Buffer /\ BufferSound(EmptyBuffer) /\ EmptyBuffer.callback = FALSE
  BY Sizes DEF EmptyBuffer, Buffer, BufferSound
<1>3. EjectTypes
  BY <1>2 DEF EjectTypes, ArrivingFlit
<1>4. \A vnet \in Vnets : BufferSound(outNode[vnet])
  BY Zenon, <1>2
<1>5. StallBookkeeping
  <2>1. \A vnet : Places(<<>>, vnet) = {}
    BY DEF Places
  <2>2. \A vnet \in Vnets : /\ m_stall_count[vnet] = Cardinality(Places(m_stall_queue, vnet))
                            /\ outNode[vnet].callback <=> Places(m_stall_queue, vnet) # {}
    BY Zenon, <1>2, <2>1, FS_EmptySet
  <2> QED
    BY Zenon, <2>2, BookkeepingIff
<1>6. EjectOwners
  BY DEF EjectOwners, OwnedOnce
<1> QED
  BY Zenon, <1>1, <1>3, <1>4, <1>5, <1>6 DEF EjectInv, EjectBooks

LEMMA EjectSpec == Spec => []EjectInv
<1>1. EjectInv /\ [Next]_vars => EjectInv'
  BY EjectStep
<1> QED
  BY <1>1, EjectInit, PTL DEF Spec

\* The stall queue and its callbacks keep step (checkStallQueue, NetworkInterface::wakeup):
\* whatever the order of arrivals, pops and wakeups, m_stall_count is the number of stalled
\* flits of the vnet, and the callback is set exactly while there are any.
THEOREM StallCorrect == Spec => []StallBookkeeping
<1>1. EjectInv => StallBookkeeping
  BY DEF EjectInv, EjectBooks
<1> QED
  BY <1>1, EjectSpec, PTL

\* A VC that the router holds for this node is owed exactly one credit: none is returned
\* twice, and none is lost while its flit stalls.
THEOREM EjectVcCorrect == Spec => []EjectVcAccounted
<1>1. EjectInv => EjectVcAccounted
  <2> SUFFICES ASSUME EjectInv, NEW vc \in VCs
               PROVE  LET stalled == {k \in DOMAIN m_stall_queue : m_stall_queue[k].vc = vc}
                          credits == {k \in DOMAIN outCreditQueue : outCreditQueue[k] = vc}
                          linked == IF link_flit # None /\ link_flit.vc = vc THEN 1 ELSE 0
                      IN  Cardinality(stalled) + Cardinality(credits) + linked =
                            (IF vc \in ejecting THEN 1 ELSE 0)
    BY DEF EjectVcAccounted
  <2> DEFINE stalled == {k \in DOMAIN m_stall_queue : m_stall_queue[k].vc = vc}
             credits == {k \in DOMAIN outCreditQueue : outCreditQueue[k] = vc}
  <2>1. OwnedOnce(m_stall_queue, outCreditQueue, link_flit, ejecting)
    BY DEF EjectInv, EjectBooks, EjectOwners
  <2>2. stalled = {} \/ \E j : stalled = {j}
    <3>1. \A j, k \in stalled : j = k
      BY Zenon, <2>1 DEF OwnedOnce
    <3> HIDE DEF stalled
    <3> QED
      BY <3>1
  <2>3. credits = {} \/ \E j : credits = {j}
    <3>1. \A j, k \in credits : j = k
      BY Zenon, <2>1 DEF OwnedOnce
    <3> HIDE DEF credits
    <3> QED
      BY <3>1
  <2>4. /\ stalled = {} \/ credits = {}
        /\ link_flit # None /\ link_flit.vc = vc => stalled = {} /\ credits = {}
        /\ vc \in ejecting <=>
             stalled # {} \/ credits # {} \/ (link_flit # None /\ link_flit.vc = vc)
    <3>1. stalled # {} <=> \E j \in DOMAIN m_stall_queue : m_stall_queue[j].vc = vc
      BY Zenon
    <3>2. credits # {} <=> \E k \in DOMAIN outCreditQueue : outCreditQueue[k] = vc
      BY Zenon
    <3>3. vc \in ejecting <=>
             stalled # {} \/ credits # {} \/ (link_flit # None /\ link_flit.vc = vc)
      BY Zenon, <2>1, <3>1, <3>2 DEF OwnedOnce
    <3>4. stalled = {} \/ credits = {}
      BY Zenon, <2>1, <3>1, <3>2 DEF OwnedOnce
    <3>5. link_flit # None /\ link_flit.vc = vc => stalled = {} /\ credits = {}
      BY Zenon, <2>1, <3>1, <3>2 DEF OwnedOnce
    <3> QED
      BY Zenon, <3>3, <3>4, <3>5
  <2> HIDE DEF stalled, credits
  <2>5. Cardinality(stalled) = IF stalled = {} THEN 0 ELSE 1
    BY Zenon, <2>2, FS_EmptySet, FS_Singleton
  <2>6. Cardinality(credits) = IF credits = {} THEN 0 ELSE 1
    BY Zenon, <2>3, FS_EmptySet, FS_Singleton
  <2>7. Cardinality(stalled) + Cardinality(credits)
          + (IF link_flit # None /\ link_flit.vc = vc THEN 1 ELSE 0) = (IF vc \in ejecting THEN 1 ELSE 0)
    BY <2>4, <2>5, <2>6
  <2> QED
    BY Zenon, <2>7 DEF stalled, credits
<1> QED
  BY <1>1, EjectSpec, PTL

-----------------------------------------------------------------------------
\* The VCs of a vnet are the VcsPerVnet ones from vnet * VcsPerVnet on.
LEMMA VcOfVnet ==
  ASSUME NEW v \in Vnets, NEW k \in 0 .. VcsPerVnet - 1
  PROVE  v * VcsPerVnet + k \in VCs /\ get_vnet(v * VcsPerVnet + k) = v
<1> DEFINE W == VcsPerVnet
           x == v * W + k
           d == x \div W
<1>1. W \in Nat \ {0} /\ v \in Nat /\ v <= NumVnets - 1 /\ NumVnets \in Nat
  BY Sizes DEF Vnets
<1>2. v * W \in Nat /\ v * W <= (NumVnets - 1) * W /\ (NumVnets - 1) * W = NumVnets * W - W
  <2>1. NumVnets - 1 - v \in Nat
    BY <1>1
  <2>2. (NumVnets - 1 - v) * W \in Nat
    BY <1>1, <2>1
  <2>3. (NumVnets - 1 - v) * W = NumVnets * W - W - v * W
    BY <1>1
  <2> QED
    BY <1>1, <2>2, <2>3
<1>3. x \in VCs
  BY <1>1, <1>2 DEF VCs, NumVcs
<1>4. x \in Nat /\ d \in Int /\ W * d <= x /\ x < W * d + W
  BY <1>1, <1>2
<1>5. d = v
  <2>1. (d - v) * W = W * d - v * W
    BY <1>1, <1>4
  <2>2. (d - v) * W < W /\ -W < (d - v) * W
    BY <1>1, <1>2, <1>4, <2>1
  <2>3. CASE d - v >= 1
    <3>1. (d - v - 1) * W >= 0
      BY <1>1, <1>4, <2>3
    <3>2. (d - v - 1) * W = (d - v) * W - W
      BY <1>1, <1>4
    <3> QED
      BY <1>1, <2>2, <3>1, <3>2, <1>4
  <2>4. CASE d - v <= -1
    <3>1. (v - d - 1) * W >= 0
      BY <1>1, <1>4, <2>4
    <3>2. (v - d - 1) * W = 0 - (d - v) * W - W
      BY <1>1, <1>4
    <3> QED
      BY <1>1, <2>2, <3>1, <3>2, <1>4
  <2> QED
    BY <1>1, <1>4, <2>3, <2>4
<1> QED
  BY <1>3, <1>5 DEF get_vnet

LEMMA FirstFromCorrect ==
  ASSUME NEW n \in Nat \ {0}, NEW p \in 0 .. n - 1, NEW S \in SUBSET (0 .. n - 1), S # {}
  PROVE  FirstFrom(p, S, n) \in S
<1> DEFINE D == {Around(p, x, n) : x \in S}
<1>1. \A x \in S : Around(p, x, n) \in Nat
  BY DEF Around
<1>2. PICK d \in D : \A e \in D : d <= e
  <2>1. D \in SUBSET Nat /\ D # {}
    BY Zenon, <1>1
  <2> QED
    BY Zenon, <2>1, LeastExists
<1>3. \E x \in S : \A y \in S : Around(p, x, n) <= Around(p, y, n)
  BY <1>2
<1> QED
  BY Zenon, <1>3 DEF FirstFrom

LEMMA MessageFacts ==
  ASSUME NEW m \in Messages
  PROVE  /\ m \in Nat /\ MsgVnet[m] \in Vnets /\ InjVnet(MsgVnet[m]) \in Vnets
         /\ MsgDests[m] \subseteq Nat /\ MsgDests[m] # {}
BY InterfaceAssumption, Sizes DEF Messages, InjVnet, Vnets

LEMMA EmptySequence ==
  ASSUME NEW S
  PROVE  <<>> \in Seq(S) /\ Len(<<>>) = 0 /\ \A s \in Seq(S) : Len(s) = 0 => s = <<>>
OBVIOUS

LEMMA OneElement ==
  ASSUME NEW S, NEW s \in Seq(S), Len(s) = 1
  PROVE  DOMAIN s = {1} /\ s[1] \in S /\ Head(s) = s[1] /\ Tail(s) = <<>>
<1>1. DOMAIN s = {1} /\ s[1] \in S /\ Head(s) = s[1]
  OBVIOUS
<1>2. Tail(s) \in Seq(S) /\ Len(Tail(s)) = 0
  OBVIOUS
<1> QED
  BY Zenon, <1>1, <1>2, EmptySequence

\* A VC that holds a flit holds one.
LEMMA QueuedFacts ==
  ASSUME SendTypes, OutVcs, NEW vc \in VCs, Queued(vc)
  PROVE  /\ DOMAIN m_ni_out_vcs[vc] = {1} /\ FlitOf(vc) \in OutFlit
         /\ FlitOf(vc) = Head(m_ni_out_vcs[vc]) /\ Tail(m_ni_out_vcs[vc]) = <<>>
         /\ m_out_vc_state[vc] = [state |-> "ACTIVE", credit |-> BuffersPerVc]
<1>1. m_ni_out_vcs[vc] \in Seq(OutFlit)
  BY DEF SendTypes
<1>2. Len(m_ni_out_vcs[vc]) = 1 /\ m_out_vc_state[vc] = [state |-> "ACTIVE", credit |-> BuffersPerVc]
  BY Zenon DEF OutVcs, Queued
<1> QED
  BY Zenon, <1>1, <1>2, OneElement DEF FlitOf

-----------------------------------------------------------------------------
\* Every step keeps the books of what is sent.
LEMMA SendOrderFrame ==
  ASSUME SendOrder, UNCHANGED <<inNode, came, m_ni_out_vcs, sent>>
  PROVE  SendOrder'
<1>1. inNode' = inNode /\ came' = came /\ m_ni_out_vcs' = m_ni_out_vcs /\ sent' = sent
  OBVIOUS
<1> USE DEF SendOrder, Queued, FlitOf
<1>2. WaitOrder'
  BY <1>1 DEF WaitOrder
<1>3. StartInv'
  BY Zenon, <1>1 DEF StartInv, Started
<1>4. DestInv'
  BY <1>1 DEF DestInv, Started
<1>5. AgeOrder'
  BY Zenon, <1>1 DEF AgeOrder
<1>6. SentInOrder'
  BY Zenon, <1>1 DEF SentInOrder
<1> QED
  BY Zenon, <1>2, <1>3, <1>4, <1>5, <1>6

LEMMA SendFrame ==
  ASSUME SendInv, UNCHANGED <<sendVars, link_credit, ran, stage>>
  PROVE  SendTypes' /\ OutVcs' /\ SendOrder' /\ Fresh'
<1>1. /\ inNode' = inNode /\ came' = came /\ m_vc_allocator' = m_vc_allocator
      /\ m_ni_out_vcs' = m_ni_out_vcs /\ m_out_vc_state' = m_out_vc_state
      /\ m_vc_round_robin' = m_vc_round_robin /\ sent' = sent
      /\ link_credit' = link_credit /\ ran' = ran /\ stage' = stage
  BY DEF sendVars
<1>2. SendTypes'
  BY Zenon, <1>1 DEF SendInv, SendTypes
<1>3. OutVcs'
  BY Zenon, <1>1 DEF SendInv, OutVcs
<1>4. Fresh'
  BY <1>1 DEF SendInv, Fresh, Queued, FlitOf
<1>5. SendOrder'
  BY <1>1, SendOrderFrame DEF SendInv
<1> QED
  BY Zenon, <1>2, <1>3, <1>4, <1>5

LEMMA SendWakeup ==
  ASSUME SendInv, NEW f, NEW c \in VCs \cup {None}, wakeup(f, c)
  PROVE  SendTypes' /\ OutVcs' /\ SendOrder' /\ Fresh'
<1>1. /\ inNode' = inNode /\ came' = came /\ m_vc_allocator' = m_vc_allocator
      /\ m_ni_out_vcs' = m_ni_out_vcs /\ m_out_vc_state' = m_out_vc_state
      /\ m_vc_round_robin' = m_vc_round_robin /\ sent' = sent
      /\ link_credit' = c /\ ~ran /\ stage' = VnetFrom(inNode, 0)
      /\ c # None => m_out_vc_state[c].state = "ACTIVE" /\ m_ni_out_vcs[c] = <<>>
  BY DEF wakeup, sendVars
<1>2. SendTypes'
  BY Zenon, <1>1 DEF SendInv, SendTypes
<1>3. OutVcs'
  BY Zenon, <1>1 DEF SendInv, OutVcs
<1>4. Fresh'
  <2>1. stage' \in Vnets => inNode[stage'] # <<>>
    BY Zenon, <1>1, VnetFromCorrect, 0 \in Nat
  <2> QED
    BY Zenon, <1>1, <2>1 DEF SendInv, Fresh, Queued, FlitOf
<1>5. SendOrder'
  BY <1>1, SendOrderFrame DEF SendInv
<1> QED
  BY Zenon, <1>2, <1>3, <1>4, <1>5

LEMMA SendCredit ==
  ASSUME SendInv, consumeLinks
  PROVE  SendTypes' /\ OutVcs' /\ SendOrder' /\ Fresh'
<1>1. /\ inNode' = inNode /\ came' = came /\ m_vc_allocator' = m_vc_allocator
      /\ m_ni_out_vcs' = m_ni_out_vcs /\ m_vc_round_robin' = m_vc_round_robin /\ sent' = sent
      /\ link_credit' = None /\ ran' = ran /\ stage' = Asleep
      /\ m_out_vc_state' = IF link_credit = None THEN m_out_vc_state
                           ELSE [m_out_vc_state EXCEPT ![link_credit] =
                                   [state |-> "IDLE", credit |-> @.credit + 1]]
  BY DEF consumeLinks
<1>2. CASE link_credit = None
  <2>1. m_out_vc_state' = m_out_vc_state
    BY Zenon, <1>1, <1>2
  <2>2. SendTypes' /\ OutVcs'
    BY Zenon, <1>1, <1>2, <2>1 DEF SendInv, SendTypes, OutVcs
  <2> QED
    <3>1. Fresh'
      BY Zenon, <1>1, Stages DEF SendInv, Fresh, Queued, FlitOf
    <3>2. SendOrder'
      BY <1>1, SendOrderFrame DEF SendInv
    <3> QED
      BY Zenon, <2>2, <3>1, <3>2
<1>3. CASE link_credit # None
  <2> DEFINE c == link_credit
  <2>1. /\ c \in VCs /\ m_out_vc_state[c].state = "ACTIVE" /\ m_ni_out_vcs[c] = <<>>
        /\ m_out_vc_state \in [VCs -> [state : {"IDLE", "ACTIVE"}, credit : 0 .. BuffersPerVc]]
    BY Zenon, <1>3 DEF SendInv, SendTypes, OutVcs
  <2>2. m_out_vc_state[c] = [state |-> "ACTIVE", credit |-> BuffersPerVc - 1]
    <3>1. m_out_vc_state[c] # [state |-> "IDLE", credit |-> BuffersPerVc]
      BY <2>1
    <3>2. Len(m_ni_out_vcs[c]) # 1
      BY <2>1
    <3> QED
      BY Zenon, <2>1, <3>1, <3>2 DEF SendInv, OutVcs
  <2>3. m_out_vc_state' =
          [m_out_vc_state EXCEPT ![c] = [state |-> "IDLE", credit |-> BuffersPerVc]]
    <3>1. m_out_vc_state[c].credit + 1 = BuffersPerVc
      BY <2>2, Sizes
    <3> QED
      BY Zenon, <1>1, <1>3, <3>1
  <2>4. SendTypes'
    <3>1. [state |-> "IDLE", credit |-> BuffersPerVc]
            \in [state : {"IDLE", "ACTIVE"}, credit : 0 .. BuffersPerVc]
      BY Sizes
    <3>2. m_out_vc_state' \in [VCs -> [state : {"IDLE", "ACTIVE"}, credit : 0 .. BuffersPerVc]]
      BY Zenon, <2>1, <2>3, <3>1
    <3> QED
      BY Zenon, <1>1, <3>2 DEF SendInv, SendTypes
  <2>5. OutVcs'
    BY Zenon, <1>1, <2>1, <2>3 DEF SendInv, OutVcs
  <2>6. Fresh'
    BY Zenon, <1>1, Stages DEF SendInv, Fresh, Queued, FlitOf
  <2>7. SendOrder'
    BY <1>1, SendOrderFrame DEF SendInv
  <2> QED
    BY Zenon, <2>4, <2>5, <2>6, <2>7
<1> QED
  BY Zenon, <1>2, <1>3

LEMMA SendArrive ==
  ASSUME SendInv, MessageArrives
  PROVE  SendTypes' /\ OutVcs' /\ SendOrder' /\ Fresh'
<1> DEFINE n == came + 1
           v == MsgVnet[n]
           new == [msg |-> n, dests |-> MsgDests[n]]
           last == Len(inNode[v]) + 1
<1>1. /\ came < NumMessages /\ came' = n /\ stage = Asleep /\ stage' = stage /\ ran' = ran
      /\ inNode' = [inNode EXCEPT ![v] = Append(inNode[v], new)]
      /\ m_vc_allocator' = m_vc_allocator /\ m_ni_out_vcs' = m_ni_out_vcs
      /\ m_out_vc_state' = m_out_vc_state /\ m_vc_round_robin' = m_vc_round_robin
      /\ sent' = sent /\ link_credit' = link_credit
  BY DEF MessageArrives, linkVars
<1>2. came \in Nat /\ n \in Messages /\ n \in Nat /\ n \in 0 .. NumMessages
  BY <1>1, InterfaceAssumption DEF SendInv, SendTypes, Messages
<1>3. v \in Vnets /\ MsgDests[n] \subseteq Nat /\ MsgDests[n] # {}
  BY Zenon, <1>2, MessageFacts
<1>4. new \in Waiting /\ new.msg = n /\ new.dests = MsgDests[n]
  BY <1>2, <1>3 DEF Waiting
<1>5. inNode \in [Vnets -> Seq(Waiting)] /\ inNode[v] \in Seq(Waiting)
  BY Zenon, <1>3 DEF SendInv, SendTypes
<1>6. /\ Append(inNode[v], new) \in Seq(Waiting)
      /\ DOMAIN Append(inNode[v], new) = DOMAIN inNode[v] \cup {last}
      /\ Append(inNode[v], new)[last] = new
      /\ \A k \in DOMAIN inNode[v] : Append(inNode[v], new)[k] = inNode[v][k]
  BY <1>4, <1>5, QueueAppend
<1>7. ~(last < last) /\ \A k \in DOMAIN inNode[v] : k < last /\ ~(last < k)
  BY <1>5
<1> HIDE DEF n, v, new, last
<1>8. \A u \in Vnets : \A k \in DOMAIN inNode'[u] :
        \/ k \in DOMAIN inNode[u] /\ inNode'[u][k] = inNode[u][k]
        \/ u = v /\ k = last /\ inNode'[u][k] = new
  BY Zenon, <1>1, <1>3, <1>5, <1>6
<1>9. \A u \in Vnets : \A k \in DOMAIN inNode[u] :
        k \in DOMAIN inNode'[u] /\ inNode'[u][k] = inNode[u][k]
  BY Zenon, <1>1, <1>3, <1>5, <1>6
<1>10. last \in DOMAIN inNode'[v] /\ inNode'[v][last] = new
  BY Zenon, <1>1, <1>3, <1>5, <1>6
<1>11. SendTypes'
  <2>1. inNode' \in [Vnets -> Seq(Waiting)]
    BY Zenon, <1>1, <1>5, <1>6
  <2> QED
    BY Zenon, <1>1, <1>2, <2>1 DEF SendInv, SendTypes
<1>12. OutVcs'
  BY Zenon, <1>1 DEF SendInv, OutVcs
<1>13. \A u \in Vnets : \A k \in DOMAIN inNode[u] :
         /\ inNode[u][k].msg < n /\ inNode[u][k].msg <= n
         /\ MsgVnet[inNode[u][k].msg] = u
         /\ inNode[u][k].dests # {}
         /\ inNode[u][k].dests \subseteq MsgDests[inNode[u][k].msg]
  <2> SUFFICES ASSUME NEW u \in Vnets, NEW k \in DOMAIN inNode[u]
               PROVE  inNode[u][k].msg < n /\ inNode[u][k].msg <= n
    BY Zenon DEF SendInv, SendOrder, WaitOrder
  <2>1. inNode[u][k].msg <= came
    BY Zenon DEF SendInv, SendOrder, WaitOrder
  <2>2. inNode[u][k].msg \in Nat
    <3>1. inNode[u][k] \in Waiting
      BY <1>5
    <3> QED
      BY <3>1 DEF Waiting, Messages
  <2> QED
    BY <1>2, <2>1, <2>2 DEF n
<1>14. n <= n /\ \A m \in Nat : m <= came => m <= n
  BY <1>2 DEF n
<1>15. WaitOrder'
  <2>1. \A u \in Vnets : \A k \in DOMAIN inNode'[u] :
          /\ inNode'[u][k].msg <= n
          /\ MsgVnet[inNode'[u][k].msg] = u
          /\ inNode'[u][k].dests # {}
          /\ inNode'[u][k].dests \subseteq MsgDests[inNode'[u][k].msg]
    <3> SUFFICES ASSUME NEW u \in Vnets, NEW k \in DOMAIN inNode'[u]
                 PROVE  /\ inNode'[u][k].msg <= n
                        /\ MsgVnet[inNode'[u][k].msg] = u
                        /\ inNode'[u][k].dests # {}
                        /\ inNode'[u][k].dests \subseteq MsgDests[inNode'[u][k].msg]
      OBVIOUS
    <3>1. CASE k \in DOMAIN inNode[u] /\ inNode'[u][k] = inNode[u][k]
      BY <1>13, <3>1
    <3>2. CASE u = v /\ k = last /\ inNode'[u][k] = new
      <4>1. MsgVnet[n] = v
        BY DEF v
      <4> QED
        BY Zenon, <1>3, <1>4, <1>14, <3>2, <4>1
    <3> QED
      BY Zenon, <1>8, <3>1, <3>2
  <2>2. \A u \in Vnets : \A j, k \in DOMAIN inNode'[u] :
          j < k => inNode'[u][j].msg < inNode'[u][k].msg
    <3> SUFFICES ASSUME NEW u \in Vnets, NEW j \in DOMAIN inNode'[u], NEW k \in DOMAIN inNode'[u],
                        j < k
                 PROVE  inNode'[u][j].msg < inNode'[u][k].msg
      OBVIOUS
    <3>1. CASE j \in DOMAIN inNode[u] /\ inNode'[u][j] = inNode[u][j]
      <4>1. CASE k \in DOMAIN inNode[u] /\ inNode'[u][k] = inNode[u][k]
        BY Zenon, <3>1, <4>1 DEF SendInv, SendOrder, WaitOrder
      <4>2. CASE inNode'[u][k] = new
        BY Zenon, <1>4, <1>13, <3>1, <4>2
      <4> QED
        BY Zenon, <1>8, <4>1, <4>2
    <3>2. CASE u = v /\ j = last
      <4>1. k \in DOMAIN inNode[v] \/ k = last
        BY Zenon, <1>8, <3>2
      <4> QED
        BY Zenon, <1>7, <3>2, <4>1
    <3> QED
      BY Zenon, <1>8, <3>1, <3>2
  <2> QED
    BY SMTT(30), <1>1, <2>1, <2>2 DEF WaitOrder
<1>16. \A m, d : Started(m, d)' <=> Started(m, d)
  BY Zenon, <1>1 DEF Started, Queued, FlitOf
<1>17. StartInv'
  <2> SUFFICES ASSUME NEW m \in Messages, NEW d \in Nat, Started(m, d)
               PROVE  /\ m <= n /\ d \in MsgDests[m]
                      /\ \A k \in DOMAIN inNode'[MsgVnet[m]] :
                           /\ m <= inNode'[MsgVnet[m]][k].msg
                           /\ inNode'[MsgVnet[m]][k].msg = m => d \notin inNode'[MsgVnet[m]][k].dests
    BY Zenon, <1>1, <1>16 DEF StartInv
  <2>1. /\ m <= came /\ d \in MsgDests[m]
        /\ \A k \in DOMAIN inNode[MsgVnet[m]] :
             /\ m <= inNode[MsgVnet[m]][k].msg
             /\ inNode[MsgVnet[m]][k].msg = m => d \notin inNode[MsgVnet[m]][k].dests
    BY Zenon DEF SendInv, SendOrder, StartInv
  <2>2. m <= n /\ m # n /\ MsgVnet[m] \in Vnets
    BY <1>2, <2>1, MessageFacts DEF n
  <2> QED
    BY Zenon, <1>4, <1>8, <2>1, <2>2
<1>18. DestInv'
  <2>1. ASSUME NEW m \in 1 .. n, NEW d \in MsgDests[m]
        PROVE  \/ Started(m, d)
               \/ \E k \in DOMAIN inNode'[MsgVnet[m]] :
                    inNode'[MsgVnet[m]][k].msg = m /\ d \in inNode'[MsgVnet[m]][k].dests
    <3>1. CASE m = n
      BY Zenon, <1>4, <1>10, <3>1 DEF v
    <3>2. CASE m # n
      <4>1. m \in 1 .. came /\ m \in Messages
        <5>1. NumMessages \in Nat
          BY InterfaceAssumption
        <5> QED
          BY <1>1, <1>2, <3>2, <5>1 DEF n, Messages
      <4>2. MsgVnet[m] \in Vnets
        BY Zenon, <4>1, MessageFacts
      <4>3. \/ Started(m, d)
            \/ \E k \in DOMAIN inNode[MsgVnet[m]] :
                 inNode[MsgVnet[m]][k].msg = m /\ d \in inNode[MsgVnet[m]][k].dests
        BY Zenon, <4>1 DEF SendInv, SendOrder, DestInv
      <4> QED
        BY <1>9, <4>2, <4>3
    <3> QED
      BY Zenon, <3>1, <3>2
  <2>2. /\ \A u, w \in VCs :
             Queued(u)' /\ Queued(w)' /\ FlitOf(u).msg' = FlitOf(w).msg'
                  /\ FlitOf(u).dest' = FlitOf(w).dest' => u = w
        /\ \A u \in VCs : Queued(u)' => <<FlitOf(u).msg', FlitOf(u).dest'>> \notin sent'
    BY <1>1 DEF SendInv, SendOrder, DestInv, Queued, FlitOf
  <2> QED
    BY <1>1, <1>16, <2>1, <2>2 DEF DestInv
<1>19. AgeOrder' /\ SentInOrder'
  BY <1>1 DEF SendInv, SendOrder, AgeOrder, SentInOrder, Queued, FlitOf
<1>20. Fresh'
  BY Zenon, <1>1, Stages DEF SendInv, Fresh, Queued, FlitOf
<1> QED
  BY Zenon, <1>11, <1>12, <1>15, <1>17, <1>18, <1>19, <1>20 DEF SendOrder

LEMMA AgedFlits ==
  ASSUME NEW s \in Seq(OutFlit)
  PROVE  LET t == [k \in DOMAIN s |-> [s[k] EXCEPT !.age = @ + 1]]
         IN  /\ t \in Seq(OutFlit) /\ Len(t) = Len(s) /\ (t = <<>> <=> s = <<>>)
             /\ s # <<>> => /\ t[1].msg = s[1].msg /\ t[1].dest = s[1].dest
                            /\ t[1].age = s[1].age + 1 /\ t[1].age # 0
<1> DEFINE t == [k \in DOMAIN s |-> [s[k] EXCEPT !.age = @ + 1]]
<1>1. \A k \in DOMAIN s : [s[k] EXCEPT !.age = @ + 1] \in OutFlit
  <2> SUFFICES ASSUME NEW k \in DOMAIN s PROVE [s[k] EXCEPT !.age = @ + 1] \in OutFlit
    OBVIOUS
  <2>1. s[k] \in OutFlit
    OBVIOUS
  <2> QED
    BY <2>1 DEF OutFlit
<1>2. DOMAIN s = 1 .. Len(s) /\ Len(s) \in Nat
  OBVIOUS
<1>3. t \in [1 .. Len(s) -> OutFlit]
  BY Zenon, <1>1, <1>2
<1>4. t \in Seq(OutFlit) /\ Len(t) = Len(s)
  <2> HIDE DEF t
  <2> QED
    BY <1>2, <1>3
<1>5. t = <<>> <=> s = <<>>
  BY Zenon, <1>4, EmptySequence
<1>6. ASSUME s # <<>>
      PROVE  /\ t[1].msg = s[1].msg /\ t[1].dest = s[1].dest
             /\ t[1].age = s[1].age + 1 /\ t[1].age # 0
  <2>1. 1 \in DOMAIN s /\ s[1] \in OutFlit
    BY <1>6
  <2>2. t[1] = [s[1] EXCEPT !.age = @ + 1]
    BY <2>1
  <2> QED
    BY <2>1, <2>2 DEF OutFlit
<1> QED
  BY Zenon, <1>4, <1>5, <1>6

LEMMA SendTick ==
  ASSUME SendInv, Tick
  PROVE  SendTypes' /\ OutVcs' /\ SendOrder' /\ Fresh'
<1>1. /\ stage = Asleep /\ stage' = stage
      /\ inNode' = inNode /\ came' = came /\ m_vc_allocator' = m_vc_allocator
      /\ m_out_vc_state' = m_out_vc_state /\ m_vc_round_robin' = m_vc_round_robin
      /\ sent' = sent /\ link_credit' = link_credit
      /\ m_ni_out_vcs' = [vc \in VCs |-> [k \in DOMAIN m_ni_out_vcs[vc] |->
                            [m_ni_out_vcs[vc][k] EXCEPT !.age = @ + 1]]]
  BY DEF Tick, linkVars
<1>2. ASSUME NEW vc \in VCs
      PROVE  /\ m_ni_out_vcs'[vc] \in Seq(OutFlit)
             /\ Len(m_ni_out_vcs'[vc]) = Len(m_ni_out_vcs[vc])
             /\ m_ni_out_vcs'[vc] = <<>> <=> m_ni_out_vcs[vc] = <<>>
             /\ m_ni_out_vcs[vc] # <<>> =>
                  /\ m_ni_out_vcs'[vc][1].msg = m_ni_out_vcs[vc][1].msg
                  /\ m_ni_out_vcs'[vc][1].dest = m_ni_out_vcs[vc][1].dest
                  /\ m_ni_out_vcs'[vc][1].age = m_ni_out_vcs[vc][1].age + 1
                  /\ m_ni_out_vcs'[vc][1].age # 0
  <2>1. m_ni_out_vcs[vc] \in Seq(OutFlit)
    BY DEF SendInv, SendTypes
  <2>2. m_ni_out_vcs'[vc] = [k \in DOMAIN m_ni_out_vcs[vc] |->
                               [m_ni_out_vcs[vc][k] EXCEPT !.age = @ + 1]]
    BY Zenon, <1>1
  <2> QED
    BY Zenon, <2>1, <2>2, AgedFlits
<1>3. SendTypes'
  <2>1. m_ni_out_vcs' \in [VCs -> Seq(OutFlit)]
    BY Zenon, <1>1, <1>2
  <2> QED
    BY Zenon, <1>1, <2>1 DEF SendInv, SendTypes
<1>4. OutVcs'
  <2>1. link_credit # None => link_credit \in VCs
    BY Zenon DEF SendInv, SendTypes
  <2> QED
    BY ZenonT(40), <1>1, <1>2, <2>1 DEF SendInv, OutVcs
<1>5. \A vc \in VCs : /\ Queued(vc)' <=> Queued(vc)
                      /\ Queued(vc) => /\ FlitOf(vc).msg' = FlitOf(vc).msg
                                       /\ FlitOf(vc).dest' = FlitOf(vc).dest
                                       /\ FlitOf(vc).age' = FlitOf(vc).age + 1
                                       /\ FlitOf(vc).age' # 0
                                       /\ FlitOf(vc).age \in Nat
  <2>1. \A vc \in VCs : Queued(vc) => FlitOf(vc) \in OutFlit
    BY Zenon, QueuedFacts DEF SendInv
  <2>2. \A vc \in VCs : Queued(vc) => FlitOf(vc).age \in Nat
    BY <2>1 DEF OutFlit
  <2> QED
    BY Zenon, <1>2, <2>2 DEF Queued, FlitOf
<1>6. WaitOrder' /\ SentInOrder'
  BY <1>1 DEF SendInv, SendOrder, WaitOrder, SentInOrder
<1>7. \A m, d : Started(m, d)' <=> Started(m, d)
  BY Zenon, <1>1, <1>5 DEF Started
<1>8. StartInv'
  BY Zenon, <1>1, <1>7 DEF SendInv, SendOrder, StartInv
<1>9. DestInv'
  <2>1. /\ \A u, w \in VCs :
             Queued(u)' /\ Queued(w)' /\ FlitOf(u).msg' = FlitOf(w).msg'
                  /\ FlitOf(u).dest' = FlitOf(w).dest' => u = w
        /\ \A u \in VCs : Queued(u)' => <<FlitOf(u).msg', FlitOf(u).dest'>> \notin sent
    BY <1>5 DEF SendInv, SendOrder, DestInv
  <2>2. \A m \in 1 .. came : \A d \in MsgDests[m] :
          \/ Started(m, d)
          \/ \E k \in DOMAIN inNode[MsgVnet[m]] :
               inNode[MsgVnet[m]][k].msg = m /\ d \in inNode[MsgVnet[m]][k].dests
    BY Zenon DEF SendInv, SendOrder, DestInv
  <2> QED
    BY <1>1, <1>7, <2>1, <2>2 DEF DestInv
<1>10. AgeOrder'
  BY SMTT(30), <1>5 DEF SendInv, SendOrder, AgeOrder
<1>11. Fresh'
  BY Zenon, <1>1, <1>5, Stages DEF Fresh
<1> QED
  BY Zenon, <1>3, <1>4, <1>6, <1>8, <1>9, <1>10, <1>11 DEF SendOrder

\* The flit that goes to the output link is the oldest of its ordered vnet, so
\* no earlier message to its destination waits.
LEMMA SendOutput ==
  ASSUME SendInv, SendAndUnstall
  PROVE  SendTypes' /\ OutVcs' /\ SendOrder' /\ Fresh'
<1> DEFINE ready == {vc \in VCs : is_candidate_vc(vc)}
           next == (m_vc_round_robin + 1) % NumVcs
           first == FirstFrom(next, ready, NumVcs)
<1>1. /\ stage' = Links /\ ran' = ran /\ inNode' = inNode /\ came' = came
      /\ m_vc_allocator' = m_vc_allocator /\ link_credit' = link_credit
      /\ m_vc_round_robin' = next
  BY DEF SendAndUnstall, scheduleOutputLink, linkVars
<1>2. next \in 0 .. NumVcs - 1 /\ next \in VCs
  BY Sizes DEF SendInv, SendTypes, VCs
<1> HIDE DEF next
<1>3. CASE ready = {}
  <2>1. UNCHANGED <<m_ni_out_vcs, m_out_vc_state, sent>>
    BY Zenon, <1>3 DEF SendAndUnstall, scheduleOutputLink, next
  <2>2. /\ m_ni_out_vcs' = m_ni_out_vcs /\ m_out_vc_state' = m_out_vc_state /\ sent' = sent
    BY <2>1
  <2>3. SendTypes'
    BY Zenon, <1>1, <1>2, <2>2 DEF SendInv, SendTypes
  <2>4. OutVcs'
    BY Zenon, <1>1, <2>2 DEF SendInv, OutVcs
  <2>5. SendOrder'
    BY <1>1, <2>2, SendOrderFrame DEF SendInv
  <2>6. Fresh'
    BY Zenon, <1>1, <2>2, Stages DEF SendInv, Fresh, Queued, FlitOf
  <2> QED
    BY Zenon, <2>3, <2>4, <2>5, <2>6
<1>4. CASE ready # {}
  <2>1. PICK vc \in VCs : vc = first /\ vc \in ready
    <3>1. ready \in SUBSET (0 .. NumVcs - 1) /\ NumVcs \in Nat \ {0}
      BY Sizes DEF VCs
    <3>2. ready \subseteq VCs
      OBVIOUS
    <3> HIDE DEF ready
    <3> QED
      BY Zenon, <1>2, <1>4, <3>1, <3>2, FirstFromCorrect
  <2>2. /\ m_out_vc_state' = [m_out_vc_state EXCEPT ![vc].credit = @ - 1]
        /\ m_ni_out_vcs' = [m_ni_out_vcs EXCEPT ![vc] = Tail(@)]
        /\ sent' = sent \cup {<<Head(m_ni_out_vcs[vc]).msg, Head(m_ni_out_vcs[vc]).dest>>}
    BY Zenon, <1>4, <2>1 DEF SendAndUnstall, scheduleOutputLink, next
  <2> HIDE DEF first
  <2>3. vc \in VCs /\ is_candidate_vc(vc) /\ Queued(vc)
    BY Zenon, <2>1 DEF is_candidate_vc, Queued
  <2> HIDE DEF ready
  <2> DEFINE n == FlitOf(vc).msg
             e == FlitOf(vc).dest
  <2>4. /\ FlitOf(vc) \in OutFlit /\ FlitOf(vc) = Head(m_ni_out_vcs[vc])
        /\ Tail(m_ni_out_vcs[vc]) = <<>>
        /\ m_out_vc_state[vc] = [state |-> "ACTIVE", credit |-> BuffersPerVc]
    BY Zenon, <2>3, QueuedFacts DEF SendInv
  <2>5. n \in Messages /\ n \in Nat /\ e \in Nat
    BY <2>4 DEF OutFlit, Messages
  <2>6. /\ m_out_vc_state' =
             [m_out_vc_state EXCEPT ![vc] = [state |-> "ACTIVE", credit |-> BuffersPerVc - 1]]
        /\ m_ni_out_vcs' = [m_ni_out_vcs EXCEPT ![vc] = <<>>]
        /\ sent' = sent \cup {<<n, e>>}
    <3>1. [m_out_vc_state[vc] EXCEPT !.credit = @ - 1] =
            [state |-> "ACTIVE", credit |-> BuffersPerVc - 1]
      BY <2>4
    <3>2. m_out_vc_state' =
            [m_out_vc_state EXCEPT ![vc] = [m_out_vc_state[vc] EXCEPT !.credit = @ - 1]]
      BY <2>2, <2>3 DEF SendInv, SendTypes
    <3> QED
      BY Zenon, <2>2, <2>4, <3>1, <3>2
  <2>7. SendTypes'
    <3>1. [state |-> "ACTIVE", credit |-> BuffersPerVc - 1]
            \in [state : {"IDLE", "ACTIVE"}, credit : 0 .. BuffersPerVc]
      BY Sizes
    <3>2. m_out_vc_state' \in [VCs -> [state : {"IDLE", "ACTIVE"}, credit : 0 .. BuffersPerVc]]
      BY Zenon, <2>3, <2>6, <3>1 DEF SendInv, SendTypes
    <3>3. m_ni_out_vcs' \in [VCs -> Seq(OutFlit)]
      BY Zenon, <2>3, <2>6, EmptySequence DEF SendInv, SendTypes
    <3>4. sent' \subseteq Messages \X Nat
      BY <2>5, <2>6 DEF SendInv, SendTypes
    <3> QED
      BY Zenon, <1>1, <1>2, <3>2, <3>3, <3>4 DEF SendInv, SendTypes
  <2>8. OutVcs'
    <3>1. \A w \in VCs : w # vc => /\ m_out_vc_state'[w] = m_out_vc_state[w]
                                   /\ m_ni_out_vcs'[w] = m_ni_out_vcs[w]
      BY Zenon, <2>6 DEF SendInv, SendTypes
    <3>2. /\ m_out_vc_state'[vc] = [state |-> "ACTIVE", credit |-> BuffersPerVc - 1]
          /\ m_ni_out_vcs'[vc] = <<>>
      BY Zenon, <2>3, <2>6 DEF SendInv, SendTypes
    <3>3. link_credit # None => link_credit \in VCs /\ link_credit # vc
      BY Zenon, <2>3 DEF SendInv, SendTypes, OutVcs, Queued
    <3> QED
      BY Zenon, <1>1, <3>1, <3>2, <3>3 DEF SendInv, OutVcs
  <2>9. /\ ~Queued(vc)'
        /\ \A w \in VCs : w # vc => (Queued(w)' <=> Queued(w)) /\ FlitOf(w)' = FlitOf(w)
    BY Zenon, <2>3, <2>6 DEF SendInv, SendTypes, Queued, FlitOf
  <2>10. \A m, d : Started(m, d)' <=> Started(m, d)
    <3> SUFFICES ASSUME NEW m, NEW d PROVE Started(m, d)' <=> Started(m, d)
      OBVIOUS
    <3>1. <<m, d>> \in sent' <=> <<m, d>> \in sent \/ (m = n /\ d = e)
      BY Zenon, <2>6
    <3>2. (\E w \in VCs : Queued(w) /\ FlitOf(w).msg = m /\ FlitOf(w).dest = d) <=>
            \/ m = n /\ d = e
            \/ \E w \in VCs : Queued(w)' /\ FlitOf(w).msg' = m /\ FlitOf(w).dest' = d
      <4>1. ASSUME NEW w \in VCs, Queued(w), FlitOf(w).msg = m, FlitOf(w).dest = d
            PROVE  \/ m = n /\ d = e
                   \/ \E x \in VCs : Queued(x)' /\ FlitOf(x).msg' = m /\ FlitOf(x).dest' = d
        BY Zenon, <2>9, <4>1
      <4>2. ASSUME NEW w \in VCs, Queued(w)', FlitOf(w).msg' = m, FlitOf(w).dest' = d
            PROVE  \E x \in VCs : Queued(x) /\ FlitOf(x).msg = m /\ FlitOf(x).dest = d
        BY Zenon, <2>9, <4>2
      <4> QED
        BY Zenon, <2>3, <4>1, <4>2
    <3> QED
      BY Zenon, <3>1, <3>2 DEF Started
  <2>11. WaitOrder'
    BY <1>1 DEF SendInv, SendOrder, WaitOrder
  <2>12. StartInv'
    BY Zenon, <1>1, <2>10 DEF SendInv, SendOrder, StartInv
  <2>13. DestInv'
    <3>1. \A u, w \in VCs :
             Queued(u)' /\ Queued(w)' /\ FlitOf(u).msg' = FlitOf(w).msg'
                  /\ FlitOf(u).dest' = FlitOf(w).dest' => u = w
      BY <2>9 DEF SendInv, SendOrder, DestInv
    <3>2. ASSUME NEW u \in VCs, Queued(u)'
          PROVE  <<FlitOf(u).msg', FlitOf(u).dest'>> \notin sent'
      <4>1. u # vc /\ Queued(u) /\ FlitOf(u)' = FlitOf(u)
        BY Zenon, <2>9, <3>2
      <4>2. <<FlitOf(u).msg, FlitOf(u).dest>> \notin sent
        BY Zenon, <4>1 DEF SendInv, SendOrder, DestInv
      <4>3. ~(FlitOf(u).msg = n /\ FlitOf(u).dest = e)
        BY Zenon, <2>3, <4>1 DEF SendInv, SendOrder, DestInv
      <4> QED
        BY <2>6, <4>1, <4>2, <4>3
    <3>3. \A m \in 1 .. came : \A d \in MsgDests[m] :
            \/ Started(m, d)
            \/ \E k \in DOMAIN inNode[MsgVnet[m]] :
                 inNode[MsgVnet[m]][k].msg = m /\ d \in inNode[MsgVnet[m]][k].dests
      BY Zenon DEF SendInv, SendOrder, DestInv
    <3> QED
      BY <1>1, <2>10, <3>1, <3>2, <3>3 DEF DestInv
  <2>14. AgeOrder'
    BY <2>9 DEF SendInv, SendOrder, AgeOrder
  <2>15. Fresh'
    BY Zenon, <1>1, <2>9, Stages DEF SendInv, Fresh
  <2>16. SentInOrder'
    <3> SUFFICES ASSUME NEW m \in Messages, NEW d \in MsgDests[m] \cap MsgDests[n],
                        m < n, MsgVnet[m] = MsgVnet[n], InjVnet(MsgVnet[m]) \in OrderedVnets,
                        d = e
                 PROVE  <<m, d>> \in sent
      BY <2>6 DEF SendInv, SendOrder, SentInOrder
    <3>1. Started(n, e)
      BY Zenon, <2>3 DEF Started
    <3>2. n <= came /\ \A k \in DOMAIN inNode[MsgVnet[n]] : n <= inNode[MsgVnet[n]][k].msg
      BY Zenon, <2>5, <3>1 DEF SendInv, SendOrder, StartInv
    <3>3. m \in 1 .. came /\ ~(n <= m)
      BY SMTT(30), <2>5, <3>2 DEF Messages, SendInv, SendTypes
    <3>4. Started(m, d)
      <4>1. \/ Started(m, d)
            \/ \E k \in DOMAIN inNode[MsgVnet[m]] :
                 inNode[MsgVnet[m]][k].msg = m /\ d \in inNode[MsgVnet[m]][k].dests
        BY Zenon, <3>3 DEF SendInv, SendOrder, DestInv
      <4> QED
        BY Zenon, <3>2, <3>3, <4>1
    <3>5. SUFFICES ASSUME NEW w \in VCs, Queued(w), FlitOf(w).msg = m, FlitOf(w).dest = d
                   PROVE  FALSE
      BY Zenon, <3>4 DEF Started
    <3>6. FlitOf(w).age > FlitOf(vc).age
      BY Zenon, <2>3, <3>5 DEF SendInv, SendOrder, AgeOrder
    <3>7. /\ get_vnet(w) = InjVnet(MsgVnet[m]) /\ get_vnet(vc) = InjVnet(MsgVnet[n])
      BY Zenon, <2>3, <3>5 DEF SendInv, SendOrder, AgeOrder
    <3>8. get_vnet(vc) \in OrderedVnets /\ w \in VcsOf(get_vnet(vc))
      BY Zenon, <3>7 DEF VcsOf
    <3>9. FlitOf(w) = Head(m_ni_out_vcs[w]) /\ FlitOf(vc) = Head(m_ni_out_vcs[vc])
      BY Zenon, <2>3, <3>5, QueuedFacts DEF SendInv
    <3> QED
      BY Zenon, <2>3, <3>5, <3>6, <3>8, <3>9 DEF is_candidate_vc, Queued
  <2> QED
    BY Zenon, <2>7, <2>8, <2>11, <2>12, <2>13, <2>14, <2>15, <2>16 DEF SendOrder
<1> QED
  BY Zenon, <1>3, <1>4

\* What is left of a vnet's queue when the first message is sent to destination d.
Served(q, d) ==
  IF q[1].dests \ {d} = {} THEN Tail(q) ELSE [q EXCEPT ![1].dests = q[1].dests \ {d}]

LEMMA ServedFacts ==
  ASSUME NEW q \in Seq(Waiting), q # <<>>, NEW d \in q[1].dests,
         \A k \in DOMAIN q : q[k].dests # {}
  PROVE  /\ Served(q, d) \in Seq(Waiting)
         /\ \E o \in {0, 1} : \A k \in DOMAIN Served(q, d) :
              /\ k + o \in DOMAIN q
              /\ Served(q, d)[k].msg = q[k + o].msg
              /\ Served(q, d)[k].dests \subseteq q[k + o].dests
              /\ Served(q, d)[k].dests # {}
              /\ k + o = 1 => d \notin Served(q, d)[k].dests
         /\ \A k \in DOMAIN q : \A x \in q[k].dests :
              \/ k = 1 /\ x = d
              \/ \E j \in DOMAIN Served(q, d) :
                   Served(q, d)[j].msg = q[k].msg /\ x \in Served(q, d)[j].dests
         /\ q[1].dests \ {d} # {} => Served(q, d) # <<>> /\ Served(q, d)[1].msg = q[1].msg
<1> DEFINE rest == q[1].dests \ {d}
<1>1. 1 \in DOMAIN q /\ DOMAIN q = 1 .. Len(q) /\ Len(q) \in Nat \ {0}
  OBVIOUS
<1>2. CASE rest = {}
  <2> DEFINE t == Tail(q)
  <2>1. Served(q, d) = t
    BY Zenon, <1>2 DEF Served
  <2>2. /\ t \in Seq(Waiting) /\ Len(t) = Len(q) - 1 /\ DOMAIN t = 1 .. Len(q) - 1
        /\ \A k \in 1 .. Len(q) - 1 : t[k] = q[k + 1]
    OBVIOUS
  <2> HIDE DEF t
  <2>3. \A k \in DOMAIN t : k + 1 \in DOMAIN q /\ t[k] = q[k + 1] /\ k + 1 # 1
    BY <1>1, <2>2
  <2>4. \A k \in DOMAIN q : k # 1 => k - 1 \in DOMAIN t /\ t[k - 1] = q[k]
    BY <1>1, <2>2
  <2>5. \A x \in q[1].dests : x = d
    BY Zenon, <1>2
  <2>6. \A k \in DOMAIN t :
          /\ k + 1 \in DOMAIN q
          /\ t[k].msg = q[k + 1].msg
          /\ t[k].dests \subseteq q[k + 1].dests
          /\ t[k].dests # {}
          /\ k + 1 = 1 => d \notin t[k].dests
    BY Zenon, <2>3
  <2>7. \A k \in DOMAIN q : \A x \in q[k].dests :
          \/ k = 1 /\ x = d
          \/ \E j \in DOMAIN t : t[j].msg = q[k].msg /\ x \in t[j].dests
    BY Zenon, <2>4, <2>5
  <2> QED
    BY Zenon, <1>2, <2>1, <2>2, <2>6, <2>7
<1>3. CASE rest # {}
  <2> DEFINE t == [q EXCEPT ![1].dests = rest]
  <2>1. Served(q, d) = t
    BY Zenon, <1>3 DEF Served
  <2>2. q[1] \in Waiting /\ rest \subseteq Nat
    <3>1. q[1] \in Waiting
      BY <1>1
    <3>2. q[1].dests \subseteq Nat
      BY <3>1 DEF Waiting
    <3> QED
      BY Zenon, <3>1, <3>2
  <2>3. [q[1] EXCEPT !.dests = rest] \in Waiting
    BY <2>2 DEF Waiting
  <2>4. /\ [q[1] EXCEPT !.dests = rest].msg = q[1].msg
        /\ [q[1] EXCEPT !.dests = rest].dests = rest
    BY <2>2 DEF Waiting
  <2>5. t = [q EXCEPT ![1] = [q[1] EXCEPT !.dests = rest]]
    OBVIOUS
  <2> HIDE DEF t, rest
  <2>6. t \in Seq(Waiting) /\ DOMAIN t = DOMAIN q /\ t # <<>>
    BY <1>1, <2>3, <2>5
  <2>7. t[1].msg = q[1].msg /\ t[1].dests = rest /\ \A k \in DOMAIN q : k # 1 => t[k] = q[k]
    BY Zenon, <1>1, <2>4, <2>5
  <2>8. rest \subseteq q[1].dests /\ d \notin rest /\ \A x \in q[1].dests : x = d \/ x \in rest
    BY DEF rest
  <2>9. \A k \in DOMAIN q : k + 0 = k
    BY <1>1
  <2>10. \A k \in DOMAIN t :
           /\ k + 0 \in DOMAIN q
           /\ t[k].msg = q[k + 0].msg
           /\ t[k].dests \subseteq q[k + 0].dests
           /\ t[k].dests # {}
           /\ k + 0 = 1 => d \notin t[k].dests
    <3> SUFFICES ASSUME NEW k \in DOMAIN t
                 PROVE  /\ t[k].msg = q[k].msg
                        /\ t[k].dests \subseteq q[k].dests
                        /\ t[k].dests # {}
                        /\ k = 1 => d \notin t[k].dests
      BY Zenon, <2>6, <2>9
    <3>1. CASE k = 1
      BY <1>3, <2>7, <2>8, <3>1
    <3>2. CASE k # 1
      BY Zenon, <2>6, <2>7, <3>2
    <3> QED
      BY Zenon, <3>1, <3>2
  <2>11. \A k \in DOMAIN q : \A x \in q[k].dests :
           \/ k = 1 /\ x = d
           \/ \E j \in DOMAIN t : t[j].msg = q[k].msg /\ x \in t[j].dests
    BY Zenon, <2>6, <2>7, <2>8
  <2> QED
    BY Zenon, <1>3, <2>1, <2>6, <2>7, <2>10, <2>11 DEF rest
<1> QED
  BY Zenon, <1>2, <1>3

\* The first message of the vnet loses one destination to a flit in an idle VC.
LEMMA SendFlitisize ==
  ASSUME SendInv, flitisizeMessage
  PROVE  SendTypes' /\ OutVcs' /\ SendOrder' /\ Fresh'
<1>1. PICK vnet \in Vnets : vnet = stage
  BY Zenon DEF flitisizeMessage
<1> DEFINE v == InjVnet(vnet)
           q == inNode[vnet]
<1>2. /\ vnet \in Nat /\ v \in Vnets
      /\ came' = came /\ m_vc_round_robin' = m_vc_round_robin /\ sent' = sent
      /\ link_credit' = link_credit /\ ran' = ran
  BY SMTT(30), Sizes DEF flitisizeMessage, linkVars, Vnets, InjVnet
<1>3. q \in Seq(Waiting) /\ q # <<>>
  BY Zenon, <1>1 DEF SendInv, SendTypes, Fresh
<1>4. 1 \in DOMAIN q /\ q[1] \in Waiting /\ q[1] = Head(q)
  BY <1>3
<1>5. VnetFrom(inNode, vnet + 1) \in Vnets =>
        VnetFrom(inNode, vnet + 1) > vnet /\ inNode[VnetFrom(inNode, vnet + 1)] # <<>>
  <2>1. vnet + 1 \in Nat
    BY <1>2
  <2>2. VnetFrom(inNode, vnet + 1) \in Vnets =>
          VnetFrom(inNode, vnet + 1) >= vnet + 1 /\ inNode[VnetFrom(inNode, vnet + 1)] # <<>>
    BY Zenon, <2>1, VnetFromCorrect
  <2>3. \A u \in Vnets : u >= vnet + 1 => u > vnet
    BY <1>2, Sizes DEF Vnets
  <2> QED
    BY Zenon, <2>2, <2>3
<1>6. ran
  BY Zenon, <1>1, Stages DEF SendInv, Control
<1>7. CASE FreeOffsets(v) = {}
  <2>1. /\ stage' = VnetFrom(inNode, vnet + 1)
        /\ inNode' = inNode /\ m_vc_allocator' = m_vc_allocator
        /\ m_ni_out_vcs' = m_ni_out_vcs /\ m_out_vc_state' = m_out_vc_state
    BY Zenon, <1>1, <1>7 DEF flitisizeMessage
  <2>2. SendTypes'
    BY Zenon, <1>2, <2>1 DEF SendInv, SendTypes
  <2>3. OutVcs'
    BY Zenon, <1>2, <2>1 DEF SendInv, OutVcs
  <2>4. SendOrder'
    BY <1>2, <2>1, SendOrderFrame DEF SendInv
  <2>5. Fresh'
    <3>1. ASSUME NEW w \in VCs, Queued(w), FlitOf(w).age = 0, stage' \in Vnets
          PROVE  MsgVnet[FlitOf(w).msg] < stage'
      <4>1. MsgVnet[FlitOf(w).msg] < vnet \/ MsgVnet[FlitOf(w).msg] = vnet
        BY Zenon, <1>1, <3>1 DEF SendInv, Fresh
      <4>2. MsgVnet[FlitOf(w).msg] \in Vnets
        <5>1. FlitOf(w) \in OutFlit
          BY Zenon, <3>1, QueuedFacts DEF SendInv
        <5>2. FlitOf(w).msg \in Messages
          BY <5>1 DEF OutFlit
        <5> QED
          BY Zenon, <5>2, MessageFacts
      <4>3. stage' > vnet
        BY Zenon, <1>5, <2>1, <3>1
      <4> QED
        BY <1>2, <3>1, <4>1, <4>2, <4>3, Sizes DEF Vnets
    <3>2. stage' \in Vnets => inNode'[stage'] # <<>>
      BY Zenon, <1>5, <2>1
    <3>3. \A w \in VCs : (Queued(w)' <=> Queued(w)) /\ FlitOf(w)' = FlitOf(w)
      BY Zenon, <2>1 DEF Queued, FlitOf
    <3>4. ran'
      BY Zenon, <1>2, <1>6
    <3> QED
      BY Zenon, <3>1, <3>2, <3>3, <3>4 DEF Fresh
  <2> QED
    BY Zenon, <2>2, <2>3, <2>4, <2>5
<1>8. CASE FreeOffsets(v) # {}
  <2>1. PICK d \in Nat : d = Min(q[1].dests) /\ d \in q[1].dests
    <3>1. q[1].dests \in SUBSET Nat
      BY <1>4 DEF Waiting
    <3>2. q[1].dests # {}
      BY Zenon, <1>4 DEF SendInv, SendOrder, WaitOrder
    <3> QED
      BY Zenon, <3>1, <3>2, MinCorrect
  <2>2. PICK m \in Messages : m = q[1].msg
    BY <1>4 DEF Waiting
  <2>3. PICK k \in 0 .. VcsPerVnet - 1 :
          k = FirstFrom(m_vc_allocator[v], FreeOffsets(v), VcsPerVnet) /\ k \in FreeOffsets(v)
    <3>1. FreeOffsets(v) \in SUBSET (0 .. VcsPerVnet - 1) /\ VcsPerVnet \in Nat \ {0}
      BY Sizes DEF FreeOffsets
    <3>2. m_vc_allocator[v] \in 0 .. VcsPerVnet - 1
      BY Zenon, <1>2 DEF SendInv, SendTypes
    <3> QED
      BY Zenon, <1>8, <3>1, <3>2, FirstFromCorrect
  <2>4. PICK vc \in VCs : vc = v * VcsPerVnet + k
    BY Zenon, <1>2, VcOfVnet
  <2>5. get_vnet(vc) = v
    BY Zenon, <1>2, <2>4, VcOfVnet
  <2> DEFINE new == [msg |-> m, dest |-> d, age |-> 0]
             rest == q[1].dests \ {d}
             t == Served(q, d)
  <2>6. /\ m_vc_allocator' = [m_vc_allocator EXCEPT ![v] = (k + 1) % VcsPerVnet]
        /\ m_ni_out_vcs' = [m_ni_out_vcs EXCEPT ![vc] = Append(m_ni_out_vcs[vc], new)]
        /\ m_out_vc_state' = [m_out_vc_state EXCEPT ![vc].state = "ACTIVE"]
        /\ rest = {} => /\ inNode' = [inNode EXCEPT ![vnet] = Tail(q)]
                        /\ stage' = VnetFrom(inNode, vnet + 1)
        /\ rest # {} => /\ inNode' = [inNode EXCEPT ![vnet][1].dests = rest]
                        /\ stage' = vnet
    BY Zenon, <1>1, <1>4, <1>8, <2>1, <2>2, <2>3, <2>4 DEF flitisizeMessage, removeNetDest
  <2>7. inNode' = [inNode EXCEPT ![vnet] = t]
    <3>1. CASE rest = {}
      BY Zenon, <2>6, <3>1 DEF Served
    <3>2. CASE rest # {}
      <4>1. t = [q EXCEPT ![1].dests = rest]
        BY Zenon, <3>2 DEF Served
      <4>2. inNode' = [inNode EXCEPT ![vnet][1].dests = rest]
        BY Zenon, <2>6, <3>2
      <4> HIDE DEF t, rest
      <4> QED
        BY <4>1, <4>2 DEF SendInv, SendTypes
    <3> QED
      BY Zenon, <3>1, <3>2
  <2>8. m_ni_out_vcs[vc] = <<>> /\ m_out_vc_state[vc] = [state |-> "IDLE", credit |-> BuffersPerVc]
    <3>1. m_out_vc_state[vc].state = "IDLE"
      BY Zenon, <2>3, <2>4 DEF FreeOffsets
    <3>2. \A c : m_out_vc_state[vc] # [state |-> "ACTIVE", credit |-> c]
      BY <3>1
    <3> QED
      BY Zenon, <3>2 DEF SendInv, OutVcs
  <2>9. /\ m_ni_out_vcs' = [m_ni_out_vcs EXCEPT ![vc] = <<new>>]
        /\ m_out_vc_state' =
             [m_out_vc_state EXCEPT ![vc] = [state |-> "ACTIVE", credit |-> BuffersPerVc]]
    <3>1. Append(<<>>, new) = <<new>>
      OBVIOUS
    <3>2. [m_out_vc_state[vc] EXCEPT !.state = "ACTIVE"] =
            [state |-> "ACTIVE", credit |-> BuffersPerVc]
      BY <2>8
    <3>3. m_out_vc_state' =
            [m_out_vc_state EXCEPT ![vc] = [m_out_vc_state[vc] EXCEPT !.state = "ACTIVE"]]
      BY <2>6 DEF SendInv, SendTypes
    <3> QED
      BY Zenon, <2>6, <2>8, <3>1, <3>2, <3>3
  <2>10. /\ new \in OutFlit /\ new.msg = m /\ new.dest = d /\ new.age = 0
         /\ <<new>> \in Seq(OutFlit) /\ Len(<<new>>) = 1 /\ <<new>> # <<>> /\ <<new>>[1] = new
    <3>1. new \in OutFlit /\ new.msg = m /\ new.dest = d /\ new.age = 0
      BY DEF OutFlit
    <3> HIDE DEF new
    <3> QED
      BY <3>1
  <2> HIDE DEF new
  <2>11. /\ ~Queued(vc) /\ Queued(vc)' /\ FlitOf(vc)' = new
         /\ \A w \in VCs : w # vc => (Queued(w)' <=> Queued(w)) /\ FlitOf(w)' = FlitOf(w)
    BY Zenon, <2>8, <2>9, <2>10 DEF SendInv, SendTypes, Queued, FlitOf
  <2>12. /\ \A j \in DOMAIN q : q[j].dests # {} /\ q[j].msg <= came /\ MsgVnet[q[j].msg] = vnet
                                /\ q[j].dests \subseteq MsgDests[q[j].msg]
         /\ \A i, j \in DOMAIN q : i < j => q[i].msg < q[j].msg
    BY Zenon DEF SendInv, SendOrder, WaitOrder
  <2>13. /\ t \in Seq(Waiting)
         /\ \E o \in {0, 1} : \A j \in DOMAIN t :
              /\ j + o \in DOMAIN q
              /\ t[j].msg = q[j + o].msg
              /\ t[j].dests \subseteq q[j + o].dests
              /\ t[j].dests # {}
              /\ j + o = 1 => d \notin t[j].dests
         /\ \A j \in DOMAIN q : \A x \in q[j].dests :
              \/ j = 1 /\ x = d
              \/ \E i \in DOMAIN t : t[i].msg = q[j].msg /\ x \in t[i].dests
         /\ rest # {} => t # <<>> /\ t[1].msg = q[1].msg
    <3>1. \A j \in DOMAIN q : q[j].dests # {}
      BY Zenon, <2>12
    <3>5. d \in q[1].dests
      BY Zenon, <2>1
    <3>2. /\ t \in Seq(Waiting)
          /\ rest # {} => t # <<>> /\ t[1].msg = q[1].msg
      BY <1>3, <3>1, <3>5, ServedFacts
    <3>3. \E o \in {0, 1} : \A j \in DOMAIN t :
            /\ j + o \in DOMAIN q
            /\ t[j].msg = q[j + o].msg
            /\ t[j].dests \subseteq q[j + o].dests
            /\ t[j].dests # {}
            /\ j + o = 1 => d \notin t[j].dests
      BY <1>3, <3>1, <3>5, ServedFacts
    <3>6. \A j \in DOMAIN q : \A x \in q[j].dests :
            \/ j = 1 /\ x = d
            \/ \E i \in DOMAIN t : t[i].msg = q[j].msg /\ x \in t[i].dests
      BY <1>3, <3>1, <3>5, ServedFacts
    <3> QED
      BY Zenon, <3>2, <3>3, <3>6
  <2> HIDE DEF t, rest
  <2>14. PICK o \in {0, 1} : \A j \in DOMAIN t :
           /\ j + o \in DOMAIN q
           /\ t[j].msg = q[j + o].msg
           /\ t[j].dests \subseteq q[j + o].dests
           /\ t[j].dests # {}
           /\ j + o = 1 => d \notin t[j].dests
    BY Zenon, <2>13
  <2>15. inNode'[vnet] = t /\ \A u \in Vnets : u # vnet => inNode'[u] = inNode[u]
    BY Zenon, <2>7 DEF SendInv, SendTypes
  <2>16. \A j \in DOMAIN q : m <= q[j].msg /\ (q[j].msg = m => j = 1)
    <3> SUFFICES ASSUME NEW j \in DOMAIN q PROVE m <= q[j].msg /\ (q[j].msg = m => j = 1)
      OBVIOUS
    <3>1. CASE j = 1
      BY <2>2, <3>1 DEF Messages
    <3>2. CASE j # 1
      <4>1. 1 < j /\ q[j] \in Waiting
        BY <1>3, <3>2
      <4>2. m < q[j].msg
        BY Zenon, <1>4, <2>2, <2>12, <4>1
      <4>3. q[j].msg \in Nat /\ m \in Nat
        BY <4>1 DEF Waiting, Messages
      <4> QED
        BY <4>2, <4>3
    <3> QED
      BY Zenon, <3>1, <3>2
  <2>17. m <= came /\ d \in MsgDests[m] /\ MsgVnet[m] = vnet
    BY Zenon, <1>4, <2>1, <2>2, <2>12
  <2>18. \A j \in DOMAIN t : m <= t[j].msg /\ (t[j].msg = m => d \notin t[j].dests)
    BY Zenon, <2>14, <2>16
  <2>19. SendTypes'
    <3>1. m_vc_allocator' \in [Vnets -> 0 .. VcsPerVnet - 1]
      <4>1. (k + 1) % VcsPerVnet \in 0 .. VcsPerVnet - 1
        BY Sizes
      <4> QED
        BY Zenon, <1>2, <2>6, <4>1 DEF SendInv, SendTypes
    <3>2. m_ni_out_vcs' \in [VCs -> Seq(OutFlit)]
      BY Zenon, <2>9, <2>10 DEF SendInv, SendTypes
    <3>3. m_out_vc_state' \in [VCs -> [state : {"IDLE", "ACTIVE"}, credit : 0 .. BuffersPerVc]]
      <4>1. [state |-> "ACTIVE", credit |-> BuffersPerVc]
              \in [state : {"IDLE", "ACTIVE"}, credit : 0 .. BuffersPerVc]
        BY Sizes
      <4> QED
        BY Zenon, <2>9, <4>1 DEF SendInv, SendTypes
    <3>4. inNode' \in [Vnets -> Seq(Waiting)]
      BY Zenon, <2>7, <2>13 DEF SendInv, SendTypes
    <3> QED
      BY Zenon, <1>2, <3>1, <3>2, <3>3, <3>4 DEF SendInv, SendTypes
  <2>20. OutVcs'
    <3>1. \A w \in VCs : w # vc => /\ m_out_vc_state'[w] = m_out_vc_state[w]
                                   /\ m_ni_out_vcs'[w] = m_ni_out_vcs[w]
      BY Zenon, <2>9 DEF SendInv, SendTypes
    <3>2. /\ m_out_vc_state'[vc] = [state |-> "ACTIVE", credit |-> BuffersPerVc]
          /\ Len(m_ni_out_vcs'[vc]) = 1
      BY Zenon, <2>9, <2>10 DEF SendInv, SendTypes
    <3>3. link_credit # None => link_credit \in VCs /\ link_credit # vc
      <4>1. m_out_vc_state[vc].state # "ACTIVE"
        BY <2>8
      <4> QED
        BY Zenon, <4>1 DEF SendInv, SendTypes, OutVcs
    <3> QED
      BY Zenon, <1>2, <3>1, <3>2, <3>3 DEF SendInv, OutVcs
  <2>21. WaitOrder'
    <3>1. \A u \in Vnets : \A j \in DOMAIN inNode'[u] :
            /\ inNode'[u][j].msg <= came
            /\ MsgVnet[inNode'[u][j].msg] = u
            /\ inNode'[u][j].dests # {}
            /\ inNode'[u][j].dests \subseteq MsgDests[inNode'[u][j].msg]
      <4>1. \A j \in DOMAIN t : /\ t[j].msg <= came /\ MsgVnet[t[j].msg] = vnet
                                /\ t[j].dests # {} /\ t[j].dests \subseteq MsgDests[t[j].msg]
        BY ZenonT(40), <2>12, <2>14
      <4> QED
        BY SMTT(30), <2>15, <4>1 DEF SendInv, SendOrder, WaitOrder
    <3>2. \A u \in Vnets : \A i, j \in DOMAIN inNode'[u] :
            i < j => inNode'[u][i].msg < inNode'[u][j].msg
      <4>1. \A i, j \in DOMAIN t : i < j => t[i].msg < t[j].msg
        <5>1. \A i, j \in DOMAIN t : i < j => i + o < j + o
          BY SMTT(30), <2>13, <2>14
        <5> QED
          BY Zenon, <2>12, <2>14, <5>1
      <4> QED
        BY <2>15, <4>1 DEF SendInv, SendOrder, WaitOrder
    <3> QED
      BY <1>2, <3>1, <3>2 DEF WaitOrder
  <2>22. \A n, e : Started(n, e)' <=> Started(n, e) \/ (n = m /\ e = d)
    BY Zenon, <1>2, <2>10, <2>11 DEF Started
  <2>23. StartInv'
    <3> SUFFICES ASSUME NEW n \in Messages, NEW e \in Nat, Started(n, e) \/ (n = m /\ e = d)
                 PROVE  /\ n <= came /\ e \in MsgDests[n]
                        /\ \A j \in DOMAIN inNode'[MsgVnet[n]] :
                             /\ n <= inNode'[MsgVnet[n]][j].msg
                             /\ inNode'[MsgVnet[n]][j].msg = n => e \notin inNode'[MsgVnet[n]][j].dests
      BY Zenon, <1>2, <2>22 DEF StartInv
    <3>1. CASE n = m /\ e = d
      BY Zenon, <2>15, <2>17, <2>18, <3>1
    <3>2. CASE Started(n, e)
      <4>1. /\ n <= came /\ e \in MsgDests[n]
            /\ \A j \in DOMAIN inNode[MsgVnet[n]] :
                 /\ n <= inNode[MsgVnet[n]][j].msg
                 /\ inNode[MsgVnet[n]][j].msg = n => e \notin inNode[MsgVnet[n]][j].dests
        BY Zenon, <3>2 DEF SendInv, SendOrder, StartInv
      <4>2. MsgVnet[n] \in Vnets
        BY Zenon, MessageFacts
      <4>3. CASE MsgVnet[n] = vnet
        <5>1. \A j \in DOMAIN t : n <= t[j].msg /\ (t[j].msg = n => e \notin t[j].dests)
          BY Zenon, <2>14, <4>1, <4>3
        <5> QED
          BY Zenon, <2>15, <4>1, <4>3, <5>1
      <4>4. CASE MsgVnet[n] # vnet
        BY Zenon, <2>15, <4>1, <4>2, <4>4
      <4> QED
        BY Zenon, <4>3, <4>4
    <3> QED
      BY Zenon, <3>1, <3>2
  <2>24. ~Started(m, d)
    BY Zenon, <1>4, <2>1, <2>2, <2>17 DEF SendInv, SendOrder, StartInv
  <2>25. DestInv'
    <3>1. ASSUME NEW n \in 1 .. came, NEW e \in MsgDests[n]
          PROVE  \/ Started(n, e)'
                 \/ \E j \in DOMAIN inNode'[MsgVnet[n]] :
                      inNode'[MsgVnet[n]][j].msg = n /\ e \in inNode'[MsgVnet[n]][j].dests
      <4>1. \/ Started(n, e)
            \/ \E j \in DOMAIN inNode[MsgVnet[n]] :
                 inNode[MsgVnet[n]][j].msg = n /\ e \in inNode[MsgVnet[n]][j].dests
        BY Zenon DEF SendInv, SendOrder, DestInv
      <4>2. CASE Started(n, e)
        BY Zenon, <2>22, <4>2
      <4>3. ASSUME NEW j \in DOMAIN inNode[MsgVnet[n]],
                   inNode[MsgVnet[n]][j].msg = n, e \in inNode[MsgVnet[n]][j].dests
            PROVE  \/ Started(n, e)'
                   \/ \E i \in DOMAIN inNode'[MsgVnet[n]] :
                        inNode'[MsgVnet[n]][i].msg = n /\ e \in inNode'[MsgVnet[n]][i].dests
        <5>1. MsgVnet[n] \in Vnets
          <6>1. n \in Messages
            BY SMTT(30), InterfaceAssumption DEF SendInv, SendTypes, Messages
          <6> QED
            BY Zenon, <6>1, MessageFacts
        <5>2. CASE MsgVnet[n] # vnet
          BY Zenon, <2>15, <4>3, <5>1, <5>2
        <5>3. CASE MsgVnet[n] = vnet
          <6>1. CASE j = 1 /\ e = d
            BY Zenon, <2>2, <2>22, <4>3, <5>3, <6>1
          <6>2. CASE \E i \in DOMAIN t : t[i].msg = q[j].msg /\ e \in t[i].dests
            BY Zenon, <2>15, <4>3, <5>3, <6>2
          <6> QED
            BY ZenonT(40), <2>13, <4>3, <5>3, <6>1, <6>2
        <5> QED
          BY Zenon, <5>2, <5>3
      <4> QED
        BY Zenon, <4>1, <4>2, <4>3
    <3>2. ASSUME NEW u \in VCs, NEW w \in VCs, Queued(u)', Queued(w)',
                 FlitOf(u).msg' = FlitOf(w).msg', FlitOf(u).dest' = FlitOf(w).dest'
          PROVE  u = w
      <4>1. CASE u # vc /\ w # vc
        BY Zenon, <2>11, <3>2, <4>1 DEF SendInv, SendOrder, DestInv
      <4>2. \A x \in VCs : x # vc /\ Queued(x) => ~(FlitOf(x).msg = m /\ FlitOf(x).dest = d)
        BY Zenon, <2>24 DEF Started
      <4> QED
        BY Zenon, <2>10, <2>11, <3>2, <4>1, <4>2
    <3>3. ASSUME NEW u \in VCs, Queued(u)'
          PROVE  <<FlitOf(u).msg', FlitOf(u).dest'>> \notin sent
      <4>1. CASE u = vc
        BY Zenon, <2>10, <2>11, <2>24, <4>1 DEF Started
      <4>2. CASE u # vc
        BY Zenon, <2>11, <3>3, <4>2 DEF SendInv, SendOrder, DestInv
      <4> QED
        BY Zenon, <4>1, <4>2
    <3> QED
      BY <1>2, <3>1, <3>2, <3>3 DEF DestInv
  <2>26. \A w \in VCs : Queued(w) /\ w # vc =>
           FlitOf(w) \in OutFlit /\ FlitOf(w).msg \in Messages /\ FlitOf(w).age \in Nat
    <3>1. \A w \in VCs : Queued(w) => FlitOf(w) \in OutFlit
      BY Zenon, QueuedFacts DEF SendInv
    <3> QED
      BY <3>1 DEF OutFlit
  <2>27. AgeOrder'
    <3>1. \A w \in VCs : Queued(w)' => get_vnet(w) = InjVnet(MsgVnet[FlitOf(w).msg'])
      BY Zenon, <2>5, <2>10, <2>11, <2>17 DEF SendInv, SendOrder, AgeOrder
    <3>2. ASSUME NEW u \in VCs, NEW w \in VCs, Queued(u)', Queued(w)',
                 MsgVnet[FlitOf(u).msg'] = MsgVnet[FlitOf(w).msg'], FlitOf(u).msg' < FlitOf(w).msg'
          PROVE  FlitOf(u).age' > FlitOf(w).age'
      <4>1. CASE u # vc /\ w # vc
        BY Zenon, <2>11, <3>2, <4>1 DEF SendInv, SendOrder, AgeOrder
      <4>2. CASE u = vc
        <5>1. m < FlitOf(w).msg'
          BY Zenon, <2>10, <2>11, <3>2, <4>2
        <5>2. w # vc
          BY <2>10, <2>11, <5>1 DEF Messages
        <5>3. Queued(w) /\ FlitOf(w)' = FlitOf(w) /\ MsgVnet[FlitOf(w).msg] = vnet
          BY Zenon, <2>10, <2>11, <2>17, <3>2, <4>2, <5>2
        <5>4. FlitOf(w).msg \in Messages /\ FlitOf(w).dest \in Nat
          BY <2>26, <5>2, <5>3 DEF OutFlit
        <5>5. Started(FlitOf(w).msg, FlitOf(w).dest)
          BY Zenon, <5>3 DEF Started
        <5>6. FlitOf(w).msg <= m
          BY Zenon, <1>4, <2>2, <5>3, <5>4, <5>5 DEF SendInv, SendOrder, StartInv
        <5> QED
          BY <5>1, <5>3, <5>4, <5>6 DEF Messages
      <4>3. CASE w = vc /\ u # vc
        <5>1. Queued(u) /\ FlitOf(u)' = FlitOf(u) /\ FlitOf(u).msg < m
              /\ MsgVnet[FlitOf(u).msg] = vnet
          BY Zenon, <2>10, <2>11, <2>17, <3>2, <4>3
        <5>2. FlitOf(u).msg \in Messages /\ FlitOf(u).age \in Nat
          BY Zenon, <2>26, <4>3, <5>1
        <5>3. FlitOf(u).msg # m /\ ~(vnet < vnet)
          BY <1>2, <5>1, <5>2 DEF Messages
        <5>4. FlitOf(u).age # 0
          BY Zenon, <1>1, <2>2, <5>1, <5>3 DEF SendInv, Fresh
        <5>5. FlitOf(u).age > 0
          BY <5>2, <5>4
        <5> QED
          BY Zenon, <2>10, <2>11, <4>3, <5>1, <5>5
      <4> QED
        BY Zenon, <4>1, <4>2, <4>3
    <3> QED
      BY Zenon, <3>1, <3>2 DEF AgeOrder
  <2>28. Fresh'
    <3>1. \A w \in VCs : Queued(w)' /\ FlitOf(w).age' = 0 =>
            /\ MsgVnet[FlitOf(w).msg'] \in Vnets
            /\ \/ MsgVnet[FlitOf(w).msg'] < vnet
               \/ MsgVnet[FlitOf(w).msg'] = vnet /\ FlitOf(w).msg' = m
      <4> SUFFICES ASSUME NEW w \in VCs, Queued(w)', FlitOf(w).age' = 0
                   PROVE  /\ MsgVnet[FlitOf(w).msg'] \in Vnets
                          /\ \/ MsgVnet[FlitOf(w).msg'] < vnet
                             \/ MsgVnet[FlitOf(w).msg'] = vnet /\ FlitOf(w).msg' = m
        OBVIOUS
      <4>1. CASE w = vc
        BY Zenon, <2>10, <2>11, <2>17, <4>1
      <4>2. CASE w # vc
        <5>1. Queued(w) /\ FlitOf(w)' = FlitOf(w)
          BY Zenon, <2>11, <4>2
        <5>2. MsgVnet[FlitOf(w).msg] \in Vnets
          BY Zenon, <2>26, <4>2, <5>1, MessageFacts
        <5> QED
          BY Zenon, <1>1, <2>2, <5>1, <5>2 DEF SendInv, Fresh
      <4> QED
        BY Zenon, <4>1, <4>2
    <3>2. ran'
      BY Zenon, <1>2, <1>6
    <3>3. CASE rest # {}
      <4>1. stage' = vnet /\ inNode'[vnet] # <<>> /\ inNode'[vnet][1].msg = m
        BY Zenon, <2>2, <2>6, <2>13, <2>15, <3>3
      <4> QED
        BY Zenon, <3>1, <3>2, <4>1 DEF Fresh
    <3>4. CASE rest = {}
      <4>1. stage' = VnetFrom(inNode, vnet + 1)
        BY Zenon, <2>6, <3>4
      <4>2. stage' \in Vnets => stage' > vnet /\ inNode[stage'] # <<>>
        BY Zenon, <1>5, <4>1
      <4>3. stage' \in Vnets => inNode'[stage'] # <<>>
        <5>1. stage' \in Vnets => stage' # vnet
          BY <1>2, <4>2
        <5> QED
          BY Zenon, <2>15, <4>2, <5>1
      <4>4. stage' \in Vnets => \A w \in Vnets : w < vnet \/ w = vnet => w < stage'
        BY <4>2, Sizes DEF Vnets
      <4> QED
        BY Zenon, <3>1, <3>2, <4>3, <4>4 DEF Fresh
    <3> QED
      BY Zenon, <3>3, <3>4
  <2>29. SentInOrder'
    BY Zenon, <1>2 DEF SendInv, SendOrder, SentInOrder
  <2> QED
    BY Zenon, <2>19, <2>20, <2>21, <2>23, <2>25, <2>27, <2>28, <2>29 DEF SendOrder
<1> QED
  BY Zenon, <1>7, <1>8

LEMMA SendStep ==
  ASSUME SendInv, [Next]_vars
  PROVE  SendInv'
<1>1. Control'
  BY Zenon, ControlStep DEF SendInv
<1>2. SUFFICES SendTypes' /\ OutVcs' /\ SendOrder' /\ Fresh'
  BY Zenon, <1>1 DEF SendInv
<1>3. ASSUME NEW f, NEW c \in VCs \cup {None}, wakeup(f, c)
      PROVE  SendTypes' /\ OutVcs' /\ SendOrder' /\ Fresh'
  BY Zenon, <1>3, SendWakeup
<1>4. CASE UNCHANGED <<sendVars, link_credit, ran, stage>>
  BY Zenon, <1>4, SendFrame
<1>5. CASE CreditLink_wakeup
  <2>1. UNCHANGED <<sendVars, link_credit, ran, stage>>
    BY <1>5 DEF CreditLink_wakeup, linkVars
  <2> QED
    BY Zenon, <1>4, <2>1
<1>6. ASSUME NEW vnet \in Vnets, Controller_dequeue(vnet)
      PROVE  SendTypes' /\ OutVcs' /\ SendOrder' /\ Fresh'
  <2>1. UNCHANGED <<sendVars, link_credit, ran, stage>>
    BY <1>6 DEF Controller_dequeue, linkVars
  <2> QED
    BY Zenon, <1>4, <2>1
<1>7. CASE UNCHANGED vars
  <2>1. UNCHANGED <<sendVars, link_credit, ran, stage>>
    BY <1>7 DEF vars, linkVars
  <2> QED
    BY Zenon, <1>4, <2>1
<1> QED
  <2>1. None \in VCs \cup {None} /\ VCs \subseteq VCs \cup {None}
    OBVIOUS
  <2> QED
    BY Zenon, <2>1, <1>3, <1>5, <1>6, <1>7, SendArrive, SendFlitisize, SendOutput, SendCredit, SendTick
    DEF Next, Step, CreditReturns

LEMMA SendInit == Init => SendInv
<1> SUFFICES ASSUME Init PROVE SendInv
  OBVIOUS
<1> USE DEF Init
<1>1. Control
  BY Stages DEF Control
<1>2. SendTypes
  <2>1. 0 \in VCs /\ 0 \in 0 .. VcsPerVnet - 1 /\ 0 \in 0 .. NumMessages
    BY Sizes, InterfaceAssumption DEF VCs
  <2>2. [state |-> "IDLE", credit |-> BuffersPerVc]
          \in [state : {"IDLE", "ACTIVE"}, credit : 0 .. BuffersPerVc]
    BY Sizes
  <2> QED
    BY Zenon, <2>1, <2>2, EmptySequence DEF SendTypes
<1>3. \A vc \in VCs : ~Queued(vc)
  BY Zenon DEF Queued
<1>4. \A vnet \in Vnets : inNode[vnet] = <<>> /\ DOMAIN inNode[vnet] = {}
  OBVIOUS
<1>5. \A m, d : ~Started(m, d)
  BY Zenon, <1>3 DEF Started
<1>6. OutVcs
  BY Zenon DEF OutVcs
<1>7. WaitOrder
  BY Zenon, <1>4 DEF WaitOrder
<1>8. StartInv
  BY Zenon, <1>5 DEF StartInv
<1>9. DestInv
  <2>1. 1 .. came = {}
    OBVIOUS
  <2> QED
    BY Zenon, <1>3, <2>1 DEF DestInv
<1>10. AgeOrder /\ SentInOrder
  BY Zenon, <1>3 DEF AgeOrder, SentInOrder
<1>11. Fresh
  BY Zenon, <1>3, Stages DEF Fresh
<1> QED
  BY Zenon, <1>1, <1>2, <1>6, <1>7, <1>8, <1>9, <1>10, <1>11 DEF SendInv, SendOrder

LEMMA SendSpec == Spec => []SendInv
<1>1. SendInv /\ [Next]_vars => SendInv'
  BY SendStep
<1> QED
  BY <1>1, SendInit, PTL DEF Spec

\* Every variable of the interface keeps its type, and no message buffer is filled beyond its
\* size: what areNSlotsAvailable says of a buffer is still true when wakeup() enqueues.
THEOREM InterfaceTypeCorrect == Spec => []InterfaceTypeOK
<1>1. EjectInv /\ SendInv => InterfaceTypeOK
  <2> SUFFICES ASSUME EjectInv, SendInv PROVE InterfaceTypeOK
    OBVIOUS
  <2>1. ASSUME NEW vnet \in Vnets, NEW k \in DOMAIN inNode[vnet]
        PROVE  inNode[vnet][k].msg \in 1 .. came /\ inNode[vnet][k].dests # {}
    <3>1. inNode[vnet][k].msg <= came /\ inNode[vnet][k].dests # {}
      BY Zenon DEF SendInv, SendOrder, WaitOrder
    <3>2. inNode[vnet] \in Seq(Waiting) /\ came \in Nat
      BY InterfaceAssumption DEF SendInv, SendTypes
    <3>3. inNode[vnet][k] \in Waiting
      BY <3>2
    <3>4. inNode[vnet][k].msg \in 1 .. NumMessages
      BY <3>3 DEF Waiting, Messages
    <3> QED
      BY <3>1, <3>2, <3>4
  <2>2. ASSUME NEW vnet \in Vnets
        PROVE  m_max_size = 0 \/ outNode[vnet].heap \in 0 .. m_max_size
    <3>1. outNode[vnet] \in Buffer /\ BufferSound(outNode[vnet])
      BY Zenon DEF EjectInv, EjectBooks, EjectTypes
    <3> QED
      BY <3>1, Sizes DEF Buffer, BufferSound
  <2> QED
    BY Zenon, <2>1, <2>2 DEF InterfaceTypeOK, EjectInv, EjectBooks, EjectTypes, SendInv, Control, SendTypes
<1> QED
  BY <1>1, EjectSpec, SendSpec, PTL

\* A multicast message is turned into one flit for each of its destinations, whatever cycles it
\* takes to find the VCs for them: each destination is still with the message, in one output
\* VC, or sent, and in one of these places only.
THEOREM DestinationsCorrect == Spec => []EachDestinationOnce
<1>1. SendInv => EachDestinationOnce
  <2> SUFFICES ASSUME SendInv, NEW m \in 1 .. came, NEW d \in MsgDests[m]
               PROVE  LET waiting == {vnet \in Vnets : \E k \in DOMAIN inNode[vnet] :
                                        inNode[vnet][k].msg = m /\ d \in inNode[vnet][k].dests}
                          flits == UNION {{vc} \X {k \in DOMAIN m_ni_out_vcs[vc] :
                                             /\ m_ni_out_vcs[vc][k].msg = m
                                             /\ m_ni_out_vcs[vc][k].dest = d} : vc \in VCs}
                      IN  Cardinality(waiting) + Cardinality(flits)
                            + Cardinality(sent \cap {<<m, d>>}) = 1
    BY DEF EachDestinationOnce
  <2> DEFINE waiting == {vnet \in Vnets : \E k \in DOMAIN inNode[vnet] :
                           inNode[vnet][k].msg = m /\ d \in inNode[vnet][k].dests}
             places(vc) == {k \in DOMAIN m_ni_out_vcs[vc] :
                              m_ni_out_vcs[vc][k].msg = m /\ m_ni_out_vcs[vc][k].dest = d}
             flits == UNION {{vc} \X places(vc) : vc \in VCs}
             done == sent \cap {<<m, d>>}
             held(vc) == Queued(vc) /\ FlitOf(vc).msg = m /\ FlitOf(vc).dest = d
  <2>1. m \in Messages /\ d \in Nat /\ MsgVnet[m] \in Vnets
    <3>1. m \in Messages
      BY SMTT(30), InterfaceAssumption DEF SendInv, SendTypes, Messages
    <3> QED
      BY Zenon, <3>1, MessageFacts
  <2>2. \A vnet \in waiting : vnet = MsgVnet[m]
    <3>1. \A vnet \in Vnets : \A k \in DOMAIN inNode[vnet] : MsgVnet[inNode[vnet][k].msg] = vnet
      BY Zenon DEF SendInv, SendOrder, WaitOrder
    <3> QED
      BY Zenon, <3>1
  <2>3. waiting # {} <=> \E k \in DOMAIN inNode[MsgVnet[m]] :
                            inNode[MsgVnet[m]][k].msg = m /\ d \in inNode[MsgVnet[m]][k].dests
    BY Zenon, <2>1, <2>2
  <2>4. \A vc \in VCs : places(vc) = IF held(vc) THEN {1} ELSE {}
    <3> SUFFICES ASSUME NEW vc \in VCs PROVE places(vc) = IF held(vc) THEN {1} ELSE {}
      OBVIOUS
    <3>1. CASE Queued(vc)
      <4>1. DOMAIN m_ni_out_vcs[vc] = {1}
        BY Zenon, <3>1, QueuedFacts DEF SendInv
      <4> QED
        BY <3>1, <4>1 DEF FlitOf
    <3>2. CASE ~Queued(vc)
      BY <3>2 DEF Queued
    <3> QED
      BY Zenon, <3>1, <3>2
  <2> HIDE DEF places
  <2>5. \A x : x \in flits <=> \E vc \in VCs : held(vc) /\ x = <<vc, 1>>
    <3>1. \A x : x \in flits <=> \E vc \in VCs : \E k \in places(vc) : x = <<vc, k>>
      OBVIOUS
    <3> HIDE DEF flits
    <3>2. \A vc \in VCs : \A k : k \in places(vc) <=> held(vc) /\ k = 1
      BY Zenon, <2>4
    <3> HIDE DEF held
    <3>3. ASSUME NEW x, x \in flits PROVE \E vc \in VCs : held(vc) /\ x = <<vc, 1>>
      <4>1. PICK vc \in VCs : \E k \in places(vc) : x = <<vc, k>>
        BY Zenon, <3>1, <3>3
      <4>3. PICK k \in places(vc) : x = <<vc, k>>
        BY Zenon, <4>1
      <4>2. held(vc) /\ k = 1
        BY <3>2, <4>3
      <4> QED
        BY Zenon, <4>2, <4>3
    <3>4. ASSUME NEW vc \in VCs, held(vc) PROVE <<vc, 1>> \in flits
      BY Zenon, <3>1, <3>2, <3>4
    <3> QED
      BY Zenon, <3>3, <3>4
  <2> HIDE DEF flits
  <2>6. \A v, w \in VCs : held(v) /\ held(w) => v = w
    BY Zenon DEF SendInv, SendOrder, DestInv
  <2>7. Started(m, d) <=> done # {} \/ flits # {}
    <3>1. done # {} <=> <<m, d>> \in sent
      OBVIOUS
    <3>2. flits # {} <=> \E vc \in VCs : held(vc)
      BY Zenon, <2>5
    <3> QED
      BY Zenon, <3>1, <3>2 DEF Started
  <2>8. done = {} \/ flits = {}
    <3>1. done # {} => <<m, d>> \in sent
      OBVIOUS
    <3> QED
      BY Zenon, <2>5, <3>1 DEF SendInv, SendOrder, DestInv
  <2>9. waiting # {} <=> ~Started(m, d)
    BY Zenon, <2>1, <2>3 DEF SendInv, SendOrder, StartInv, DestInv
  <2>10. Cardinality(waiting) = IF waiting = {} THEN 0 ELSE 1
    <3>1. waiting # {} => waiting = {MsgVnet[m]}
      BY Zenon, <2>2
    <3> HIDE DEF waiting
    <3> QED
      BY Zenon, <3>1, FS_EmptySet, FS_Singleton
  <2>11. Cardinality(flits) = IF flits = {} THEN 0 ELSE 1
    <3>1. ASSUME NEW vc \in VCs, held(vc) PROVE flits = {<<vc, 1>>}
      BY Zenon, <2>5, <2>6, <3>1
    <3>2. flits = {} \/ \E x : flits = {x}
      BY Zenon, <2>5, <3>1
    <3> QED
      BY Zenon, <3>2, FS_EmptySet, FS_Singleton
  <2>12. Cardinality(done) = IF done = {} THEN 0 ELSE 1
    <3>1. done = {} \/ done = {<<m, d>>}
      OBVIOUS
    <3> HIDE DEF done
    <3> QED
      BY Zenon, <3>1, FS_EmptySet, FS_Singleton
  <2> HIDE DEF waiting, done, held
  <2>13. Cardinality(waiting) + Cardinality(flits) + Cardinality(done) = 1
    BY <2>7, <2>8, <2>9, <2>10, <2>11, <2>12
  <2> QED
    BY Zenon, <2>13 DEF waiting, flits, places, done
<1> QED
  BY <1>1, SendSpec, PTL

\* In an ordered vnet the flits of two messages to the same destination leave in the order in
\* which the messages came, even though they wait in different VCs: comparing the enqueue times
\* in scheduleOutputLink is enough.
THEOREM OrderCorrect == Spec => []SentInOrder
<1>1. SendInv => SentInOrder
  BY DEF SendInv, SendOrder
<1> QED
  BY <1>1, SendSpec, PTL

=============================================================================
