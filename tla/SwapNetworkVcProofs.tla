------------------------ MODULE SwapNetworkVcProofs -------------------------
(***************************************************************************)
(* Proof that the virtual channels of SwapNetwork are used exclusively:    *)
(* a VC of a link is always in exactly one hand, although swaps move flits *)
(* without credits.  ChanGood says so of the state of one channel.  There  *)
(* is one lemma for each way in which the handlers change a channel, and   *)
(* each action is a few of these changes on a few channels.                *)
(***************************************************************************)
EXTENDS SwapNetworkProofs

AllFree(s) == \A i \in DOMAIN s : s[i].free = TRUE
InSet(st, v) == \E f \in st : f.vc = v
DistinctIn(st) == \A f, g \in st : f.vc = g.vc => f = g

\* Exactly one of seven.
OneOf(a, b, c, d, e, f, g) ==
  /\ a \/ b \/ c \/ d \/ e \/ f \/ g
  /\ a => ~b /\ ~c /\ ~d /\ ~e /\ ~f /\ ~g
  /\ b => ~c /\ ~d /\ ~e /\ ~f /\ ~g
  /\ c => ~d /\ ~e /\ ~f /\ ~g
  /\ d => ~e /\ ~f /\ ~g
  /\ e => ~f /\ ~g
  /\ f => ~g

\* The state of one channel: ov = outvc[c], oq = outq[c], lk = link[c],
\* vst = vcstate[c], vc = vcs[c], cq = credq[c], cl = credlink[c], and st the
\* flits stalled in the interface at its end, if it ends in one.
ChanType(ov, oq, lk, vst, vc, cq, cl, st) ==
  /\ ov \in [VCs -> [state : {"IDLE", "ACTIVE"}, credit : Int]]
  /\ oq \in Seq(Flit)
  /\ lk \in Seq(Flit)
  /\ vst \in [VCs -> {"IDLE", "ACTIVE"}]
  /\ vc \in [VCs -> Seq(Flit)]
  /\ cq \in Seq(Credit)
  /\ cl \in Seq(Credit)
  /\ st \subseteq Flit

VcGood(v, ov, oq, lk, vst, vc, cq, cl, st) ==
  /\ OneOf(ov[v].state = "IDLE", InSeq(oq, v), InSeq(lk, v), vc[v] # <<>>,
           InSet(st, v), InSeq(cq, v), InSeq(cl, v))
  /\ Len(vc[v]) <= 1
  /\ vst[v] = "ACTIVE" <=> vc[v] # <<>>
  /\ ov[v].credit = IF ov[v].state = "IDLE" THEN MaxCredit ELSE MaxCredit - 1

ChanGood(ov, oq, lk, vst, vc, cq, cl, st) ==
  /\ \A v \in VCs : VcGood(v, ov, oq, lk, vst, vc, cq, cl, st)
  /\ DistinctVcs(oq) /\ DistinctVcs(lk) /\ DistinctVcs(cq) /\ DistinctVcs(cl)
  /\ DistinctIn(st)
  /\ AllFree(cq) /\ AllFree(cl)

-----------------------------------------------------------------------------
(* The VCs named in a queue.                                               *)

\* A buffer with a flit has no other.
LEMMA OneFlit ==
  ASSUME NEW s \in Seq(Flit), s # <<>>, Len(s) <= 1
  PROVE  Tail(s) = <<>> /\ DOMAIN s = {1} /\ Head(s) = s[1]
<1>0. Len(s) \in Nat \ {0} /\ DOMAIN s = 1 .. Len(s) /\ Head(s) = s[1]
  OBVIOUS
<1>1. Len(s) = 1
  BY <1>0
<1>2. Tail(s) \in Seq(Flit) /\ Len(Tail(s)) = 0
  BY <1>1
<1>3. Tail(s) = <<>>
  BY <1>2
<1>4. DOMAIN s = {1}
  BY <1>0, <1>1
<1> QED
  BY Zenon, <1>0, <1>3, <1>4

LEMMA TailVcs ==
  ASSUME NEW S, NEW s \in Seq(S), s # <<>>, DistinctVcs(s)
  PROVE  /\ DistinctVcs(Tail(s))
         /\ InSeq(s, Head(s).vc)
         /\ \A v : InSeq(Tail(s), v) <=> InSeq(s, v) /\ v # Head(s).vc
<1>1. Len(s) \in Nat \ {0} /\ DOMAIN s = 1 .. Len(s) /\ Head(s) = s[1]
  OBVIOUS
<1>2. /\ Tail(s) \in Seq(S)
      /\ Len(Tail(s)) = Len(s) - 1
      /\ \A i \in 1 .. Len(Tail(s)) : Tail(s)[i] = s[i + 1]
  OBVIOUS
<1>3. DOMAIN Tail(s) = 1 .. Len(s) - 1
  BY <1>2
<1> DEFINE t == Tail(s)
<1>4. /\ DOMAIN t = 1 .. Len(s) - 1
      /\ \A i \in 1 .. Len(s) - 1 : t[i] = s[i + 1]
  BY Zenon, <1>1, <1>2, <1>3
<1> HIDE DEF t
<1>5. DistinctVcs(t)
  <2> SUFFICES ASSUME NEW i \in DOMAIN t, NEW j \in DOMAIN t, t[i].vc = t[j].vc
               PROVE  i = j
    BY Zenon DEF DistinctVcs
  <2>1. /\ i + 1 \in DOMAIN s /\ j + 1 \in DOMAIN s /\ i \in Int /\ j \in Int
        /\ s[i + 1].vc = s[j + 1].vc
    BY <1>1, <1>4
  <2>2. i + 1 = j + 1
    BY Zenon, <2>1 DEF DistinctVcs
  <2> QED
    BY <2>1, <2>2
<1>6. InSeq(s, Head(s).vc)
  BY <1>1 DEF InSeq
<1>7. ASSUME NEW v PROVE InSeq(t, v) <=> InSeq(s, v) /\ v # Head(s).vc
  <2>1. ASSUME InSeq(t, v) PROVE InSeq(s, v) /\ v # Head(s).vc
    <3>1. PICK i \in 1 .. Len(s) - 1 : t[i].vc = v
      BY Zenon, <1>4, <2>1 DEF InSeq
    <3>2. i + 1 \in DOMAIN s /\ s[i + 1].vc = v /\ i + 1 # 1 /\ 1 \in DOMAIN s
      BY <1>1, <1>4, <3>1
    <3> QED
      BY Zenon, <1>1, <3>2 DEF InSeq, DistinctVcs
  <2>2. ASSUME InSeq(s, v), v # Head(s).vc PROVE InSeq(t, v)
    <3>1. PICK i \in 1 .. Len(s) : s[i].vc = v
      BY Zenon, <1>1, <2>2 DEF InSeq
    <3>2. i - 1 \in 1 .. Len(s) - 1 /\ (i - 1) + 1 = i
      BY <1>1, <2>2, <3>1
    <3>3. t[i - 1] = s[i]
      BY Zenon, <1>4, <3>2
    <3> QED
      BY Zenon, <1>4, <3>1, <3>2, <3>3 DEF InSeq
  <2> QED
    BY Zenon, <2>1, <2>2
<1> QED
  BY Zenon, <1>5, <1>6, <1>7 DEF t

LEMMA AppendVcs ==
  ASSUME NEW S, NEW s \in Seq(S), NEW e \in S
  PROVE  /\ \A v : InSeq(Append(s, e), v) <=> InSeq(s, v) \/ v = e.vc
         /\ DistinctVcs(s) /\ ~InSeq(s, e.vc) => DistinctVcs(Append(s, e))
<1> DEFINE t == Append(s, e)
<1>1. /\ \A i \in DOMAIN t : IF i \in DOMAIN s THEN t[i] = s[i] ELSE t[i] = e
      /\ \A i \in DOMAIN s : i \in DOMAIN t
      /\ \E i \in DOMAIN t : i \notin DOMAIN s /\ t[i] = e
      /\ \A i, j \in DOMAIN t : i \notin DOMAIN s /\ j \notin DOMAIN s => i = j
  BY Zenon, AppendedSeq
<1> HIDE DEF t
<1>2. \A v : InSeq(t, v) <=> InSeq(s, v) \/ v = e.vc
  BY Zenon, <1>1 DEF InSeq
<1>3. ASSUME DistinctVcs(s), ~InSeq(s, e.vc) PROVE DistinctVcs(t)
  <2> SUFFICES ASSUME NEW i \in DOMAIN t, NEW j \in DOMAIN t, t[i].vc = t[j].vc
               PROVE  i = j
    BY Zenon DEF DistinctVcs
  <2>1. CASE i \in DOMAIN s /\ j \in DOMAIN s
    BY Zenon, <1>1, <1>3, <2>1 DEF DistinctVcs
  <2>2. CASE i \in DOMAIN s /\ j \notin DOMAIN s
    BY Zenon, <1>1, <1>3, <2>2 DEF InSeq
  <2>3. CASE i \notin DOMAIN s /\ j \in DOMAIN s
    BY Zenon, <1>1, <1>3, <2>3 DEF InSeq
  <2>4. CASE i \notin DOMAIN s /\ j \notin DOMAIN s
    BY Zenon, <1>1, <2>4
  <2> QED
    BY Zenon, <2>1, <2>2, <2>3, <2>4
<1> QED
  BY Zenon, <1>2, <1>3 DEF t

LEMMA FreeQueues ==
  /\ \A s \in Seq(Credit) : s # <<>> /\ AllFree(s) => AllFree(Tail(s)) /\ Head(s).free = TRUE
  /\ \A s \in Seq(Credit), e \in Credit : AllFree(s) /\ e.free = TRUE => AllFree(Append(s, e))
<1>1. ASSUME NEW s \in Seq(Credit), s # <<>>, AllFree(s)
      PROVE  AllFree(Tail(s)) /\ Head(s).free = TRUE
  <2>1. /\ Head(s) = s[1] /\ 1 \in DOMAIN s
        /\ \A i \in DOMAIN Tail(s) : i + 1 \in DOMAIN s /\ Tail(s)[i] = s[i + 1]
    BY Zenon, <1>1, NonEmptySeq
  <2> QED
    BY Zenon, <1>1, <2>1 DEF AllFree
<1>2. ASSUME NEW s \in Seq(Credit), NEW e \in Credit, AllFree(s), e.free = TRUE
      PROVE  AllFree(Append(s, e))
  <2>1. \A i \in DOMAIN Append(s, e) :
          IF i \in DOMAIN s THEN Append(s, e)[i] = s[i] ELSE Append(s, e)[i] = e
    BY Zenon, AppendedSeq
  <2> QED
    BY Zenon, <1>2, <2>1 DEF AllFree
<1> QED
  BY Zenon, <1>1, <1>2

-----------------------------------------------------------------------------
(* What the handlers do to a channel.                                      *)

LEMMA NamedVc ==
  /\ \A f \in Flit : f.vc \in VCs
  /\ \A k \in Credit : k.vc \in VCs /\ k.free \in BOOLEAN
  /\ \A v \in VCs : [vc |-> v, free |-> TRUE] \in Credit
  /\ MaxCredit \in Int
BY ParameterAssumption DEF Flit, Credit

\* A flit e is sent on an idle VC: it enters the source queue, and the VC
\* becomes active with one credit less (arbitrate_outports, flitisizeMessage).
LEMMA ChanSend ==
  ASSUME NEW ov, NEW oq, NEW lk, NEW vst, NEW vc, NEW cq, NEW cl, NEW st,
         ChanType(ov, oq, lk, vst, vc, cq, cl, st),
         ChanGood(ov, oq, lk, vst, vc, cq, cl, st),
         NEW e \in Flit, ov[e.vc].state = "IDLE"
  PROVE  ChanGood([ov EXCEPT ![e.vc] = [state |-> "ACTIVE", credit |-> @.credit - 1]],
                  Append(oq, e), lk, vst, vc, cq, cl, st)
<1> DEFINE ow == [ov EXCEPT ![e.vc] = [state |-> "ACTIVE", credit |-> @.credit - 1]]
           oqq == Append(oq, e)
<1>0. e.vc \in VCs
  BY Zenon, NamedVc
<1>1. ~InSeq(oq, e.vc) /\ ov[e.vc].credit = MaxCredit
  BY Zenon, <1>0 DEF ChanGood, VcGood, OneOf
<1>2. /\ \A v : InSeq(oqq, v) <=> InSeq(oq, v) \/ v = e.vc
      /\ DistinctVcs(oqq)
  BY Zenon, <1>1, AppendVcs DEF ChanType, ChanGood
<1>3. /\ ow[e.vc].state = "ACTIVE" /\ ow[e.vc].credit = MaxCredit - 1
      /\ \A v \in VCs : v # e.vc => ow[v] = ov[v]
  BY Zenon, <1>0, <1>1 DEF ChanType
<1> HIDE DEF ow, oqq
<1>4. ASSUME NEW v \in VCs PROVE VcGood(v, ow, oqq, lk, vst, vc, cq, cl, st)
  <2>1. VcGood(v, ov, oq, lk, vst, vc, cq, cl, st)
    BY Zenon DEF ChanGood
  <2>2. CASE v = e.vc
    BY Zenon, <2>1, <2>2, <1>2, <1>3 DEF VcGood, OneOf
  <2>3. CASE v # e.vc
    BY Zenon, <2>1, <2>3, <1>2, <1>3 DEF VcGood, OneOf
  <2> QED
    BY Zenon, <2>2, <2>3
<1> QED
  BY Zenon, <1>2, <1>4 DEF ChanGood, ow, oqq

\* The link takes a flit from the source queue (NetworkLink::wakeup).
LEMMA ChanLink ==
  ASSUME NEW ov, NEW oq, NEW lk, NEW vst, NEW vc, NEW cq, NEW cl, NEW st,
         ChanType(ov, oq, lk, vst, vc, cq, cl, st),
         ChanGood(ov, oq, lk, vst, vc, cq, cl, st),
         oq # <<>>
  PROVE  ChanGood(ov, Tail(oq), Append(lk, Head(oq)), vst, vc, cq, cl, st)
<1> DEFINE w == Head(oq).vc
           oqq == Tail(oq)
           lkk == Append(lk, Head(oq))
<1>1. Head(oq) \in Flit /\ w \in VCs
  BY Zenon, NonEmptySeq, NamedVc DEF ChanType
<1>2. /\ DistinctVcs(oqq) /\ InSeq(oq, w)
      /\ \A v : InSeq(oqq, v) <=> InSeq(oq, v) /\ v # w
  BY Zenon, TailVcs DEF ChanType, ChanGood
<1>3. ~InSeq(lk, w)
  BY Zenon, <1>1, <1>2 DEF ChanGood, VcGood, OneOf
<1>4. /\ \A v : InSeq(lkk, v) <=> InSeq(lk, v) \/ v = w
      /\ DistinctVcs(lkk)
  BY Zenon, <1>1, <1>3, AppendVcs DEF ChanType, ChanGood
<1> HIDE DEF oqq, lkk
<1>5. ASSUME NEW v \in VCs PROVE VcGood(v, ov, oqq, lkk, vst, vc, cq, cl, st)
  <2>1. VcGood(v, ov, oq, lk, vst, vc, cq, cl, st)
    BY Zenon DEF ChanGood
  <2> QED
    BY Zenon, <2>1, <1>2, <1>4 DEF VcGood, OneOf
<1> QED
  BY Zenon, <1>2, <1>4, <1>5 DEF ChanGood, oqq, lkk

\* The credit link takes a credit from the credit queue.
LEMMA ChanCreditLink ==
  ASSUME NEW ov, NEW oq, NEW lk, NEW vst, NEW vc, NEW cq, NEW cl, NEW st,
         ChanType(ov, oq, lk, vst, vc, cq, cl, st),
         ChanGood(ov, oq, lk, vst, vc, cq, cl, st),
         cq # <<>>
  PROVE  ChanGood(ov, oq, lk, vst, vc, Tail(cq), Append(cl, Head(cq)), st)
<1> DEFINE w == Head(cq).vc
           cqq == Tail(cq)
           cll == Append(cl, Head(cq))
<1>1. Head(cq) \in Credit /\ w \in VCs
  BY Zenon, NonEmptySeq, NamedVc DEF ChanType
<1>2. /\ DistinctVcs(cqq) /\ InSeq(cq, w)
      /\ \A v : InSeq(cqq, v) <=> InSeq(cq, v) /\ v # w
  BY Zenon, TailVcs DEF ChanType, ChanGood
<1>3. ~InSeq(cl, w)
  BY Zenon, <1>1, <1>2 DEF ChanGood, VcGood, OneOf
<1>4. /\ \A v : InSeq(cll, v) <=> InSeq(cl, v) \/ v = w
      /\ DistinctVcs(cll)
  BY Zenon, <1>1, <1>3, AppendVcs DEF ChanType, ChanGood
<1>5. AllFree(cqq) /\ AllFree(cll)
  BY Zenon, <1>1, FreeQueues DEF ChanType, ChanGood
<1> HIDE DEF cqq, cll
<1>6. ASSUME NEW v \in VCs PROVE VcGood(v, ov, oq, lk, vst, vc, cqq, cll, st)
  <2>1. VcGood(v, ov, oq, lk, vst, vc, cq, cl, st)
    BY Zenon DEF ChanGood
  <2> QED
    BY Zenon, <2>1, <1>2, <1>4 DEF VcGood, OneOf
<1> QED
  BY Zenon, <1>2, <1>4, <1>5, <1>6 DEF ChanGood, cqq, cll

\* A flit arrives: it is taken off the link, and its VC becomes active and
\* holds flit e, the same flit with its outport (InputUnit::wakeup).
LEMMA ChanArrive ==
  ASSUME NEW ov, NEW oq, NEW lk, NEW vst, NEW vc, NEW cq, NEW cl, NEW st,
         ChanType(ov, oq, lk, vst, vc, cq, cl, st),
         ChanGood(ov, oq, lk, vst, vc, cq, cl, st),
         lk # <<>>, NEW e \in Flit
  PROVE  ChanGood(ov, oq, Tail(lk), [vst EXCEPT ![Head(lk).vc] = "ACTIVE"],
                  [vc EXCEPT ![Head(lk).vc] = Append(@, e)], cq, cl, st)
<1> DEFINE w == Head(lk).vc
           lkk == Tail(lk)
           vsu == [vst EXCEPT ![w] = "ACTIVE"]
           vcc == [vc EXCEPT ![w] = Append(@, e)]
<1>1. w \in VCs
  BY Zenon, NonEmptySeq, NamedVc DEF ChanType
<1>2. /\ DistinctVcs(lkk) /\ InSeq(lk, w)
      /\ \A v : InSeq(lkk, v) <=> InSeq(lk, v) /\ v # w
  BY Zenon, TailVcs DEF ChanType, ChanGood
<1>3. vc[w] = <<>>
  BY Zenon, <1>1, <1>2 DEF ChanGood, VcGood, OneOf
<1>4. Append(<<>>, e) = <<e>> /\ Len(<<e>>) = 1 /\ <<e>> # <<>>
  OBVIOUS
<1>5. /\ vsu[w] = "ACTIVE" /\ vcc[w] # <<>> /\ Len(vcc[w]) <= 1
      /\ \A v \in VCs : v # w => vsu[v] = vst[v] /\ vcc[v] = vc[v]
  BY <1>1, <1>3, <1>4 DEF ChanType
<1> HIDE DEF lkk, vsu, vcc
<1>6. ASSUME NEW v \in VCs PROVE VcGood(v, ov, oq, lkk, vsu, vcc, cq, cl, st)
  <2>1. VcGood(v, ov, oq, lk, vst, vc, cq, cl, st)
    BY Zenon DEF ChanGood
  <2>2. CASE v = w
    BY Zenon, <2>1, <2>2, <1>2, <1>5 DEF VcGood, OneOf
  <2>3. CASE v # w
    BY Zenon, <2>1, <2>3, <1>2, <1>5 DEF VcGood, OneOf
  <2> QED
    BY Zenon, <2>2, <2>3
<1> QED
  BY Zenon, <1>2, <1>6 DEF ChanGood, lkk, vsu, vcc

\* A credit comes back and frees its VC (OutputUnit::wakeup).
LEMMA ChanCredit ==
  ASSUME NEW ov, NEW oq, NEW lk, NEW vst, NEW vc, NEW cq, NEW cl, NEW st,
         ChanType(ov, oq, lk, vst, vc, cq, cl, st),
         ChanGood(ov, oq, lk, vst, vc, cq, cl, st),
         cl # <<>>
  PROVE  ChanGood([ov EXCEPT ![Head(cl).vc] = CreditedVc(@, Head(cl))],
                  oq, lk, vst, vc, cq, Tail(cl), st)
<1> DEFINE w == Head(cl).vc
           ow == [ov EXCEPT ![w] = CreditedVc(@, Head(cl))]
           cll == Tail(cl)
<1>1. w \in VCs /\ Head(cl).free = TRUE
  BY Zenon, NonEmptySeq, NamedVc, FreeQueues DEF ChanType, ChanGood
<1>2. /\ DistinctVcs(cll) /\ InSeq(cl, w)
      /\ \A v : InSeq(cll, v) <=> InSeq(cl, v) /\ v # w
  BY Zenon, TailVcs DEF ChanType, ChanGood
<1>3. AllFree(cll)
  BY Zenon, FreeQueues DEF ChanType, ChanGood
<1>4. ov[w].credit = MaxCredit - 1
  BY Zenon, <1>1, <1>2 DEF ChanGood, VcGood, OneOf
<1>5. /\ ow[w].state = "IDLE" /\ ow[w].credit = MaxCredit
      /\ \A v \in VCs : v # w => ow[v] = ov[v]
  BY SMTT(30), <1>1, <1>4, NamedVc DEF ChanType, CreditedVc
<1> HIDE DEF ow, cll
<1>6. ASSUME NEW v \in VCs PROVE VcGood(v, ow, oq, lk, vst, vc, cq, cll, st)
  <2>1. VcGood(v, ov, oq, lk, vst, vc, cq, cl, st)
    BY Zenon DEF ChanGood
  <2>2. CASE v = w
    BY Zenon, <2>1, <2>2, <1>2, <1>5 DEF VcGood, OneOf
  <2>3. CASE v # w
    BY Zenon, <2>1, <2>3, <1>2, <1>5 DEF VcGood, OneOf
  <2> QED
    BY Zenon, <2>2, <2>3
<1> QED
  BY Zenon, <1>2, <1>3, <1>6 DEF ChanGood, ow, cll

\* A credit that frees VC w joins the credit queue.
LEMMA CreditJoins ==
  ASSUME NEW cq \in Seq(Credit), NEW w \in VCs, DistinctVcs(cq), AllFree(cq), ~InSeq(cq, w)
  PROVE  LET cqq == Append(cq, [vc |-> w, free |-> TRUE])
         IN  /\ DistinctVcs(cqq) /\ AllFree(cqq)
             /\ \A v : InSeq(cqq, v) <=> InSeq(cq, v) \/ v = w
<1> DEFINE k == [vc |-> w, free |-> TRUE]
<1>1. k \in Credit /\ k.vc = w /\ k.free = TRUE
  BY Zenon, NamedVc
<1> HIDE DEF k
<1>2. /\ DistinctVcs(Append(cq, k))
      /\ \A v : InSeq(Append(cq, k), v) <=> InSeq(cq, v) \/ v = w
  BY Zenon, <1>1, AppendVcs
<1>3. AllFree(Append(cq, k))
  BY Zenon, <1>1, FreeQueues
<1> QED
  BY Zenon, <1>2, <1>3 DEF k

\* The flit of VC w leaves for the next hop: the VC becomes idle, and a
\* credit is queued (arbitrate_outports, InputUnit::increment_credit).
LEMMA ChanDepart ==
  ASSUME NEW ov, NEW oq, NEW lk, NEW vst, NEW vc, NEW cq, NEW cl, NEW st,
         ChanType(ov, oq, lk, vst, vc, cq, cl, st),
         ChanGood(ov, oq, lk, vst, vc, cq, cl, st),
         NEW w \in VCs, vc[w] # <<>>
  PROVE  ChanGood(ov, oq, lk, [vst EXCEPT ![w] = "IDLE"], [vc EXCEPT ![w] = Tail(@)],
                  Append(cq, [vc |-> w, free |-> TRUE]), cl, st)
<1> DEFINE vsu == [vst EXCEPT ![w] = "IDLE"]
           vcc == [vc EXCEPT ![w] = Tail(@)]
           cqq == Append(cq, [vc |-> w, free |-> TRUE])
           b == vc[w]
<1>1. ~InSeq(cq, w) /\ Len(b) <= 1 /\ b \in Seq(Flit) /\ b # <<>>
  BY Zenon DEF ChanType, ChanGood, VcGood, OneOf
<1>2. /\ DistinctVcs(cqq) /\ AllFree(cqq)
      /\ \A v : InSeq(cqq, v) <=> InSeq(cq, v) \/ v = w
  BY Zenon, <1>1, CreditJoins DEF ChanType, ChanGood
<1> HIDE DEF b
<1>3. Tail(b) = <<>> /\ Len(Tail(b)) = 0
  <2>1. Tail(b) \in Seq(Flit) /\ Len(Tail(b)) = Len(b) - 1
    BY <1>1
  <2>2. Len(b) \in Nat /\ Len(Tail(b)) \in Nat
    BY <1>1, <2>1
  <2> QED
    BY <1>1, <2>1, <2>2
<1>4. /\ vsu[w] = "IDLE" /\ vcc[w] = <<>> /\ Len(vcc[w]) <= 1
      /\ \A v \in VCs : v # w => vsu[v] = vst[v] /\ vcc[v] = vc[v]
  <2>1. vcc[w] = Tail(b)
    BY Zenon DEF ChanType, b
  <2>2. \A v \in VCs : v # w => vsu[v] = vst[v] /\ vcc[v] = vc[v]
    BY Zenon DEF ChanType
  <2>3. vsu[w] = "IDLE"
    BY Zenon DEF ChanType
  <2> HIDE DEF vcc, vsu
  <2> QED
    BY <1>3, <2>1, <2>2, <2>3
<1> HIDE DEF vsu, vcc, cqq
<1>5. ASSUME NEW v \in VCs PROVE VcGood(v, ov, oq, lk, vsu, vcc, cqq, cl, st)
  <2>1. VcGood(v, ov, oq, lk, vst, vc, cq, cl, st)
    BY Zenon DEF ChanGood
  <2>2. CASE v = w
    BY Zenon, <2>1, <2>2, <1>2, <1>4 DEF VcGood, OneOf
  <2>3. CASE v # w
    BY Zenon, <2>1, <2>3, <1>2, <1>4 DEF VcGood, OneOf
  <2> QED
    BY Zenon, <2>2, <2>3
<1> QED
  BY Zenon, <1>2, <1>5 DEF ChanGood, vsu, vcc, cqq

\* An interface takes a flit off the link and returns a credit.
LEMMA ChanDeliver ==
  ASSUME NEW ov, NEW oq, NEW lk, NEW vst, NEW vc, NEW cq, NEW cl, NEW st,
         ChanType(ov, oq, lk, vst, vc, cq, cl, st),
         ChanGood(ov, oq, lk, vst, vc, cq, cl, st),
         lk # <<>>
  PROVE  ChanGood(ov, oq, Tail(lk), vst, vc,
                  Append(cq, [vc |-> Head(lk).vc, free |-> TRUE]), cl, st)
<1> DEFINE w == Head(lk).vc
           lkk == Tail(lk)
           cqq == Append(cq, [vc |-> w, free |-> TRUE])
<1>1. w \in VCs
  BY Zenon, NonEmptySeq, NamedVc DEF ChanType
<1>2. /\ DistinctVcs(lkk) /\ InSeq(lk, w)
      /\ \A v : InSeq(lkk, v) <=> InSeq(lk, v) /\ v # w
  BY Zenon, TailVcs DEF ChanType, ChanGood
<1>3. ~InSeq(cq, w)
  BY Zenon, <1>1, <1>2 DEF ChanGood, VcGood, OneOf
<1>4. /\ DistinctVcs(cqq) /\ AllFree(cqq)
      /\ \A v : InSeq(cqq, v) <=> InSeq(cq, v) \/ v = w
  BY Zenon, <1>1, <1>3, CreditJoins DEF ChanType, ChanGood
<1> HIDE DEF lkk, cqq
<1>5. ASSUME NEW v \in VCs PROVE VcGood(v, ov, oq, lkk, vst, vc, cqq, cl, st)
  <2>1. VcGood(v, ov, oq, lk, vst, vc, cq, cl, st)
    BY Zenon DEF ChanGood
  <2> QED
    BY Zenon, <2>1, <1>2, <1>4 DEF VcGood, OneOf
<1> QED
  BY Zenon, <1>2, <1>4, <1>5 DEF ChanGood, lkk, cqq

\* An interface takes a flit off the link and keeps it in m_stall_queue.
LEMMA ChanStall ==
  ASSUME NEW ov, NEW oq, NEW lk, NEW vst, NEW vc, NEW cq, NEW cl, NEW st,
         ChanType(ov, oq, lk, vst, vc, cq, cl, st),
         ChanGood(ov, oq, lk, vst, vc, cq, cl, st),
         lk # <<>>
  PROVE  ChanGood(ov, oq, Tail(lk), vst, vc, cq, cl, st \cup {Head(lk)})
<1> DEFINE w == Head(lk).vc
           lkk == Tail(lk)
           stt == st \cup {Head(lk)}
<1>1. w \in VCs
  BY Zenon, NonEmptySeq, NamedVc DEF ChanType
<1>2. /\ DistinctVcs(lkk) /\ InSeq(lk, w)
      /\ \A v : InSeq(lkk, v) <=> InSeq(lk, v) /\ v # w
  BY Zenon, TailVcs DEF ChanType, ChanGood
<1>3. ~InSet(st, w)
  BY Zenon, <1>1, <1>2 DEF ChanGood, VcGood, OneOf
<1>4. /\ DistinctIn(stt)
      /\ \A v : InSet(stt, v) <=> InSet(st, v) \/ v = w
  BY Zenon, <1>3 DEF DistinctIn, InSet, ChanGood
<1> HIDE DEF lkk, stt
<1>5. ASSUME NEW v \in VCs PROVE VcGood(v, ov, oq, lkk, vst, vc, cq, cl, stt)
  <2>1. VcGood(v, ov, oq, lk, vst, vc, cq, cl, st)
    BY Zenon DEF ChanGood
  <2> QED
    BY Zenon, <2>1, <1>2, <1>4 DEF VcGood, OneOf
<1> QED
  BY Zenon, <1>2, <1>4, <1>5 DEF ChanGood, lkk, stt

\* A stalled flit is delivered, and its credit returned (checkStallQueue).
LEMMA ChanUnstall ==
  ASSUME NEW ov, NEW oq, NEW lk, NEW vst, NEW vc, NEW cq, NEW cl, NEW st,
         ChanType(ov, oq, lk, vst, vc, cq, cl, st),
         ChanGood(ov, oq, lk, vst, vc, cq, cl, st),
         NEW f \in st
  PROVE  ChanGood(ov, oq, lk, vst, vc, Append(cq, [vc |-> f.vc, free |-> TRUE]), cl, st \ {f})
<1> DEFINE w == f.vc
           stt == st \ {f}
           cqq == Append(cq, [vc |-> w, free |-> TRUE])
<1>1. w \in VCs
  BY Zenon, NamedVc DEF ChanType
<1>2. InSet(st, w)
  BY Zenon DEF InSet
<1>3. ~InSeq(cq, w)
  BY Zenon, <1>1, <1>2 DEF ChanGood, VcGood, OneOf
<1>4. /\ DistinctVcs(cqq) /\ AllFree(cqq)
      /\ \A v : InSeq(cqq, v) <=> InSeq(cq, v) \/ v = w
  BY Zenon, <1>1, <1>3, CreditJoins DEF ChanType, ChanGood
<1>5. /\ DistinctIn(stt)
      /\ \A v : InSet(stt, v) <=> InSet(st, v) /\ v # w
  BY Zenon DEF DistinctIn, InSet, ChanGood
<1> HIDE DEF stt, cqq
<1>6. ASSUME NEW v \in VCs PROVE VcGood(v, ov, oq, lk, vst, vc, cqq, cl, stt)
  <2>1. VcGood(v, ov, oq, lk, vst, vc, cq, cl, st)
    BY Zenon DEF ChanGood
  <2> QED
    BY Zenon, <2>1, <1>2, <1>4, <1>5 DEF VcGood, OneOf
<1> QED
  BY Zenon, <1>4, <1>5, <1>6 DEF ChanGood, stt, cqq

\* A swap puts other flits into the VCs and empties or fills none.
LEMMA ChanSwap ==
  ASSUME NEW ov, NEW oq, NEW lk, NEW vst, NEW vc, NEW cq, NEW cl, NEW st,
         ChanType(ov, oq, lk, vst, vc, cq, cl, st),
         ChanGood(ov, oq, lk, vst, vc, cq, cl, st),
         NEW vcc,
         \A v \in VCs : (vcc[v] = <<>> <=> vc[v] = <<>>) /\ Len(vcc[v]) = Len(vc[v])
  PROVE  ChanGood(ov, oq, lk, vst, vcc, cq, cl, st)
BY Zenon DEF ChanGood, VcGood, OneOf

-----------------------------------------------------------------------------
(* The invariant, and what each handler does to the channels.              *)

ChanInv(c) ==
  ChanGood(outvc[c], outq[c], link[c], vcstate[c], vcs[c], credq[c], credlink[c], Stalled(c))
VcInv == \A c \in Channels : ChanInv(c)

LEMMA Typed ==
  ASSUME TypeOK, NEW c \in Channels
  PROVE  ChanType(outvc[c], outq[c], link[c], vcstate[c], vcs[c], credq[c], credlink[c], Stalled(c))
BY Zenon DEF TypeOK, ChanType, Stalled

LEMMA VcInit == Init => VcInv
<1> SUFFICES ASSUME Init, NEW c \in Channels PROVE ChanInv(c)
  BY Zenon DEF VcInv
<1>1. /\ outq[c] = <<>> /\ link[c] = <<>> /\ credq[c] = <<>> /\ credlink[c] = <<>>
      /\ Stalled(c) = {}
  BY Zenon DEF Init, Stalled
<1>2. \A v \in VCs : /\ outvc[c][v].state = "IDLE" /\ outvc[c][v].credit = MaxCredit
                     /\ vcstate[c][v] = "IDLE" /\ vcs[c][v] = <<>>
  BY Zenon DEF Init
<1>3. \A v : ~InSeq(<<>>, v) /\ ~InSet({}, v)
  BY DEF InSeq, InSet
<1>4. DistinctVcs(<<>>) /\ AllFree(<<>>) /\ DistinctIn({}) /\ Len(<<>>) = 0
  BY DEF DistinctVcs, AllFree, DistinctIn
<1>5. ASSUME NEW v \in VCs
      PROVE  VcGood(v, outvc[c], <<>>, <<>>, vcstate[c], vcs[c], <<>>, <<>>, {})
  BY SMTT(40), <1>2, <1>3, <1>4 DEF VcGood, OneOf
<1> QED
  BY Zenon, <1>1, <1>4, <1>5 DEF ChanInv, ChanGood

\* Most steps of a router leave the channels alone.
LEMMA VcFrame ==
  ASSUME VcInv, UNCHANGED <<upVars, link, downVars, credlink, stalled>>
  PROVE  VcInv'
BY Zenon DEF VcInv, ChanInv, Stalled, upVars, downVars

LEMMA VcLink ==
  ASSUME TypeOK, TypeOK', VcInv, NEW S, NEW T, NetworkLink_wakeup(S, T)
  PROVE  VcInv'
<1> SUFFICES ASSUME NEW c \in Channels PROVE ChanInv(c)'
  BY Zenon DEF VcInv
<1>1. /\ outq'[c] = IF c \in S THEN Tail(outq[c]) ELSE outq[c]
      /\ link'[c] = IF c \in S THEN Append(link[c], Head(outq[c])) ELSE link[c]
      /\ credq'[c] = IF c \in T THEN Tail(credq[c]) ELSE credq[c]
      /\ credlink'[c] = IF c \in T THEN Append(credlink[c], Head(credq[c])) ELSE credlink[c]
      /\ c \in S => outq[c] # <<>>
      /\ c \in T => credq[c] # <<>>
  BY Zenon DEF NetworkLink_wakeup, Moved, Popped
<1>2. /\ outvc'[c] = outvc[c] /\ vcstate'[c] = vcstate[c] /\ vcs'[c] = vcs[c]
      /\ Stalled(c)' = Stalled(c)
  BY Zenon DEF NetworkLink_wakeup, niVars, Stalled
<1>3. /\ ChanType(outvc[c], outq[c], link[c], vcstate[c], vcs[c], credq[c], credlink[c], Stalled(c))
      /\ ChanGood(outvc[c], outq[c], link[c], vcstate[c], vcs[c], credq[c], credlink[c], Stalled(c))
  BY Zenon, Typed DEF VcInv, ChanInv
<1>4. ChanGood(outvc[c], outq'[c], link'[c], vcstate[c], vcs[c], credq[c], credlink[c], Stalled(c))
  BY Zenon, <1>1, <1>3, ChanLink
<1>5. ChanType(outvc[c], outq'[c], link'[c], vcstate[c], vcs[c], credq[c], credlink[c], Stalled(c))
  BY Zenon, <1>3 DEF TypeOK, ChanType
<1>6. ChanGood(outvc[c], outq'[c], link'[c], vcstate[c], vcs[c], credq'[c], credlink'[c], Stalled(c))
  BY Zenon, <1>1, <1>4, <1>5, ChanCreditLink
<1> QED
  BY Zenon, <1>2, <1>6 DEF ChanInv

LEMMA VcUnits ==
  ASSUME TypeOK, TypeOK', VcInv, NEW r \in Routers, Units(r)
  PROVE  VcInv'
<1> SUFFICES ASSUME NEW c \in Channels PROVE ChanInv(c)'
  BY Zenon DEF VcInv
<1>1. /\ ChanType(outvc[c], outq[c], link[c], vcstate[c], vcs[c], credq[c], credlink[c], Stalled(c))
      /\ ChanGood(outvc[c], outq[c], link[c], vcstate[c], vcs[c], credq[c], credlink[c], Stalled(c))
  BY Zenon, Typed DEF VcInv, ChanInv
<1>2. /\ outq'[c] = outq[c] /\ credq'[c] = credq[c] /\ Stalled(c)' = Stalled(c)
  BY Zenon DEF Units, niVars, Stalled
<1>3. ChanGood(outvc[c], outq[c], link'[c], vcstate'[c], vcs'[c], credq[c], credlink[c], Stalled(c))
  <2>1. PICK rt \in [Arrivals(r) -> Out(r)] :
          /\ \A d \in Arrivals(r) : rt[d] \in Routes(r, Head(link[d]))
          /\ link' = [d \in Channels |->
               IF d \in Arrivals(r) THEN Tail(link[d]) ELSE link[d]]
          /\ vcstate' = [d \in Channels |->
               IF d \in Arrivals(r)
               THEN [vcstate[d] EXCEPT ![Head(link[d]).vc] = "ACTIVE"] ELSE vcstate[d]]
          /\ vcs' = [d \in Channels |->
               IF d \in Arrivals(r)
               THEN [vcs[d] EXCEPT ![Head(link[d]).vc] = Append(@, RoutedHead(d, rt[d]))]
               ELSE vcs[d]]
    BY Zenon DEF Units, InputUnit_wakeup
  <2>2. CASE c \in Arrivals(r)
    <3>1. /\ link'[c] = Tail(link[c])
          /\ vcstate'[c] = [vcstate[c] EXCEPT ![Head(link[c]).vc] = "ACTIVE"]
          /\ vcs'[c] = [vcs[c] EXCEPT ![Head(link[c]).vc] = Append(@, RoutedHead(c, rt[c]))]
      BY Zenon, <2>1, <2>2
    <3>2. RoutedHead(c, rt[c]) \in Flit /\ link[c] # <<>>
      BY Zenon, <2>1, <2>2, ArrivalFacts
    <3> DEFINE e == RoutedHead(c, rt[c])
    <3>3. e \in Flit
      BY Zenon, <3>2
    <3>4. vcs'[c] = [vcs[c] EXCEPT ![Head(link[c]).vc] = Append(@, e)]
      BY Zenon, <3>1
    <3> HIDE DEF e
    <3>5. ChanGood(outvc[c], outq[c], Tail(link[c]),
                   [vcstate[c] EXCEPT ![Head(link[c]).vc] = "ACTIVE"],
                   [vcs[c] EXCEPT ![Head(link[c]).vc] = Append(@, e)],
                   credq[c], credlink[c], Stalled(c))
      BY Zenon, <1>1, <3>2, <3>3, ChanArrive
    <3> QED
      BY Zenon, <3>1, <3>4, <3>5
  <2>3. CASE c \notin Arrivals(r)
    BY Zenon, <1>1, <2>1, <2>3
  <2> QED
    BY Zenon, <2>2, <2>3
<1>4. ChanType(outvc[c], outq[c], link'[c], vcstate'[c], vcs'[c], credq[c], credlink[c], Stalled(c))
  BY Zenon, <1>1 DEF TypeOK, ChanType
<1>5. ChanGood(outvc'[c], outq[c], link'[c], vcstate'[c], vcs'[c], credq[c], credlink'[c], Stalled(c))
  <2>1. \/ /\ outvc'[c] = [outvc[c] EXCEPT ![Head(credlink[c]).vc] = CreditedVc(@, Head(credlink[c]))]
           /\ credlink'[c] = Tail(credlink[c])
           /\ credlink[c] # <<>>
        \/ outvc'[c] = outvc[c] /\ credlink'[c] = credlink[c]
    BY Zenon DEF Units, OutputUnit_wakeup
  <2>2. CASE outvc'[c] = outvc[c] /\ credlink'[c] = credlink[c]
    BY Zenon, <1>3, <2>2
  <2>3. CASE credlink[c] # <<>>
    <3>1. ChanGood([outvc[c] EXCEPT ![Head(credlink[c]).vc] = CreditedVc(@, Head(credlink[c]))],
                   outq[c], link'[c], vcstate'[c], vcs'[c], credq[c], Tail(credlink[c]), Stalled(c))
      BY Zenon, <1>3, <1>4, <2>3, ChanCredit
    <3> QED
      BY Zenon, <1>3, <2>1, <3>1
  <2> QED
    BY Zenon, <2>1, <2>2, <2>3
<1> QED
  BY Zenon, <1>2, <1>5 DEF ChanInv

LEMMA VcOutports ==
  ASSUME StructInv, TypeOK', VcInv, NEW r \in Routers, NEW k \in 0 .. NumOut(r) - 1,
         arbitrate_outports(r, k)
  PROVE  VcInv'
<1> DEFINE o == OutPorts[r][k]
<1>1. TypeOK
  BY Zenon DEF StructInv
<1>0. PICK c \in Requesters(r, k) :
        \E w \in select_free_vc(o, VnetOf(winner[c])) : Grant(r, c, winner[c], o, w)
  BY Zenon DEF arbitrate_outports
<1>2. PICK w \in select_free_vc(o, VnetOf(winner[c])) :
        /\ vcs' = [vcs EXCEPT ![c][winner[c]] = Tail(@)]
        /\ vcstate' = [vcstate EXCEPT ![c][winner[c]] = "IDLE"]
        /\ credq' = [credq EXCEPT ![c] = Append(@, [vc |-> winner[c], free |-> TRUE])]
        /\ outvc' = [outvc EXCEPT ![o][w] = [state |-> "ACTIVE", credit |-> @.credit - 1]]
        /\ outq' = [outq EXCEPT ![o] = Append(@, Departing(Head(vcs[c][winner[c]]), w))]
  BY Zenon, <1>0 DEF Grant, set_idle
<1> DEFINE v == winner[c]
           e == Departing(Head(vcs[c][v]), w)
<1>3. c \in Channels /\ Dst[c] = r /\ v # -1
  BY Zenon, LinkEnds DEF Requesters
<1>4. v \in VCs /\ vcs[c][v] # <<>> /\ vcs[c][v] \in Seq(Flit)
  BY <1>1, <1>3 DEF StructInv, WinnerInv, TypeOK
<1>5. o \in Channels /\ Src[o] = r
  BY Zenon, PortFacts
<1>6. w \in VCs /\ outvc[o][w].state = "IDLE"
  BY Zenon DEF select_free_vc, IdleVcs
<1>7. c # o
  BY Zenon, <1>3, <1>5, TopologyAssumption
<1>8. e \in Flit /\ e.vc = w
  <2>1. Head(vcs[c][v]) \in Flit
    BY Zenon, <1>4, NonEmptySeq
  <2> QED
    BY Zenon, <1>6, <2>1, DepartingFlit
<1>9. link' = link /\ credlink' = credlink /\ stalled' = stalled
  BY Zenon DEF arbitrate_outports, niVars
<1> SUFFICES ASSUME NEW d \in Channels PROVE ChanInv(d)'
  BY Zenon DEF VcInv
<1>10. /\ ChanType(outvc[d], outq[d], link[d], vcstate[d], vcs[d], credq[d], credlink[d], Stalled(d))
       /\ ChanGood(outvc[d], outq[d], link[d], vcstate[d], vcs[d], credq[d], credlink[d], Stalled(d))
  BY Zenon, <1>1, Typed DEF VcInv, ChanInv
<1>11. Stalled(d)' = Stalled(d)
  BY Zenon, <1>9 DEF Stalled
<1>12. /\ d = c => vcs'[d] = [vcs[d] EXCEPT ![v] = Tail(@)]
       /\ d # c => vcs'[d] = vcs[d]
  BY Zenon, <1>1, <1>2 DEF TypeOK
<1>13. /\ d = c => vcstate'[d] = [vcstate[d] EXCEPT ![v] = "IDLE"]
       /\ d # c => vcstate'[d] = vcstate[d]
  BY Zenon, <1>1, <1>2 DEF TypeOK
<1>14. /\ d = c => credq'[d] = Append(credq[d], [vc |-> v, free |-> TRUE])
       /\ d # c => credq'[d] = credq[d]
  BY Zenon, <1>1, <1>2 DEF TypeOK
<1>15. /\ d = o => outvc'[d] = [outvc[d] EXCEPT ![w] = [state |-> "ACTIVE", credit |-> @.credit - 1]]
       /\ d # o => outvc'[d] = outvc[d]
  BY Zenon, <1>1, <1>2 DEF TypeOK
<1>16. /\ d = o => outq'[d] = Append(outq[d], e)
       /\ d # o => outq'[d] = outq[d]
  BY Zenon, <1>1, <1>2 DEF TypeOK
<1> HIDE DEF o, v, e
<1>17. CASE d = c
  <2>1. ChanGood(outvc[d], outq[d], link[d], [vcstate[d] EXCEPT ![v] = "IDLE"],
                 [vcs[d] EXCEPT ![v] = Tail(@)],
                 Append(credq[d], [vc |-> v, free |-> TRUE]), credlink[d], Stalled(d))
    BY Zenon, <1>4, <1>10, <1>17, ChanDepart
  <2> QED
    BY Zenon, <1>7, <1>9, <1>11, <1>12, <1>13, <1>14, <1>15, <1>16, <1>17, <2>1 DEF ChanInv
<1>18. CASE d = o
  <2>1. ChanGood([outvc[d] EXCEPT ![e.vc] = [state |-> "ACTIVE", credit |-> @.credit - 1]],
                 Append(outq[d], e), link[d], vcstate[d], vcs[d], credq[d], credlink[d], Stalled(d))
    BY Zenon, <1>6, <1>8, <1>10, <1>18, ChanSend
  <2> QED
    BY Zenon, <1>7, <1>8, <1>9, <1>11, <1>12, <1>13, <1>14, <1>15, <1>16, <1>18, <2>1 DEF ChanInv
<1>19. CASE d # c /\ d # o
  BY Zenon, <1>9, <1>10, <1>11, <1>12, <1>13, <1>14, <1>15, <1>16, <1>19 DEF ChanInv
<1> QED
  BY Zenon, <1>17, <1>18, <1>19

LEMMA VcSwap ==
  ASSUME StructInv, VcInv, NEW r \in Routers, wakeup_swap(r)
  PROVE  VcInv'
<1> SUFFICES ASSUME NEW c \in Channels PROVE ChanInv(c)'
  BY Zenon DEF VcInv
<1>1. /\ ChanType(outvc[c], outq[c], link[c], vcstate[c], vcs[c], credq[c], credlink[c], Stalled(c))
      /\ ChanGood(outvc[c], outq[c], link[c], vcstate[c], vcs[c], credq[c], credlink[c], Stalled(c))
  BY Zenon, Typed DEF StructInv, VcInv, ChanInv
<1>2. /\ outvc' = outvc /\ outq' = outq /\ link' = link /\ vcstate' = vcstate
      /\ credq' = credq /\ credlink' = credlink /\ Stalled(c)' = Stalled(c)
  BY Zenon DEF wakeup_swap, BeginWakeup, upVars, niVars, Stalled
<1>3. SameShape(vcs')
  BY Zenon, SwapFacts
<1>4. \A v \in VCs : (vcs'[c][v] = <<>> <=> vcs[c][v] = <<>>)
                     /\ Len(vcs'[c][v]) = Len(vcs[c][v])
  BY Zenon, <1>3 DEF SameShape
<1>5. ChanGood(outvc[c], outq[c], link[c], vcstate[c], vcs'[c], credq[c], credlink[c], Stalled(c))
  BY Zenon, <1>1, <1>4, ChanSwap
<1> QED
  BY Zenon, <1>2, <1>5 DEF ChanInv

LEMMA VcNode ==
  ASSUME TypeOK, VcInv, NEW n \in Nodes, NodeNext(n)
  PROVE  VcInv'
<1> SUFFICES ASSUME NEW d \in Channels PROVE ChanInv(d)'
  BY Zenon DEF VcInv
<1>1. /\ ChanType(outvc[d], outq[d], link[d], vcstate[d], vcs[d], credq[d], credlink[d], Stalled(d))
      /\ ChanGood(outvc[d], outq[d], link[d], vcstate[d], vcs[d], credq[d], credlink[d], Stalled(d))
  BY Zenon, Typed DEF VcInv, ChanInv
<1>2. \A c : (c \in In(n) => c \in Channels /\ Dst[c] = n)
             /\ (c \in Out(n) => c \in Channels /\ Src[c] = n)
  BY Zenon, LinkEnds
<1>3. \A b, c \in Channels : Dst[b] = n /\ Dst[c] = n => b = c
  BY TopologyAssumption
<1>4. CASE NI_send(n)
  <2>1. PICK p \in pending, c \in Out(n), v \in VCs :
          /\ outvc[c][v].state = "IDLE"
          /\ outvc' = [outvc EXCEPT ![c][v] = [state |-> "ACTIVE", credit |-> @.credit - 1]]
          /\ outq' = [outq EXCEPT ![c] =
               Append(@, [pkt |-> p, vc |-> v, out |-> NoLink, routed |-> FALSE])]
    BY Zenon, <1>4 DEF NI_send, IdleVcs
  <2> DEFINE e == [pkt |-> p, vc |-> v, out |-> NoLink, routed |-> FALSE]
  <2>2. e \in Flit /\ e.vc = v
    BY Zenon DEF TypeOK, Flit
  <2>3. /\ link' = link /\ vcstate' = vcstate /\ vcs' = vcs
        /\ credq' = credq /\ credlink' = credlink /\ Stalled(d)' = Stalled(d)
    BY Zenon, <1>4 DEF NI_send, downVars, Stalled
  <2>4. /\ c \in Channels
        /\ d = c => /\ outvc'[d] = [outvc[d] EXCEPT ![v] = [state |-> "ACTIVE", credit |-> @.credit - 1]]
                    /\ outq'[d] = Append(outq[d], e)
        /\ d # c => outvc'[d] = outvc[d] /\ outq'[d] = outq[d]
    BY Zenon, <1>2, <2>1 DEF TypeOK
  <2> HIDE DEF e
  <2>5. CASE d = c
    <3>1. ChanGood([outvc[d] EXCEPT ![e.vc] = [state |-> "ACTIVE", credit |-> @.credit - 1]],
                   Append(outq[d], e), link[d], vcstate[d], vcs[d], credq[d], credlink[d], Stalled(d))
      BY Zenon, <1>1, <2>1, <2>2, <2>5, ChanSend
    <3> QED
      BY Zenon, <2>2, <2>3, <2>4, <2>5, <3>1 DEF ChanInv
  <2>6. CASE d # c
    BY Zenon, <1>1, <2>3, <2>4, <2>6 DEF ChanInv
  <2> QED
    BY Zenon, <2>5, <2>6
<1>5. CASE NI_receive(n)
  <2>1. PICK c \in In(n) :
          /\ link[c] # <<>>
          /\ link' = [link EXCEPT ![c] = Tail(@)]
          /\ credq' = [credq EXCEPT ![c] = Append(@, [vc |-> Head(link[c]).vc, free |-> TRUE])]
    BY Zenon, <1>5 DEF NI_receive, Deliver
  <2>2. /\ outvc' = outvc /\ outq' = outq /\ vcstate' = vcstate /\ vcs' = vcs
        /\ credlink' = credlink /\ Stalled(d)' = Stalled(d)
    BY Zenon, <1>5 DEF NI_receive, upVars, Stalled
  <2>3. /\ d = c => /\ link'[d] = Tail(link[d])
                    /\ credq'[d] = Append(credq[d], [vc |-> Head(link[d]).vc, free |-> TRUE])
        /\ d # c => link'[d] = link[d] /\ credq'[d] = credq[d]
    BY Zenon, <1>2, <2>1 DEF TypeOK
  <2>4. CASE d = c
    <3>1. ChanGood(outvc[d], outq[d], Tail(link[d]), vcstate[d], vcs[d],
                   Append(credq[d], [vc |-> Head(link[d]).vc, free |-> TRUE]),
                   credlink[d], Stalled(d))
      BY Zenon, <1>1, <2>1, <2>4, ChanDeliver
    <3> QED
      BY Zenon, <2>2, <2>3, <2>4, <3>1 DEF ChanInv
  <2>5. CASE d # c
    BY Zenon, <1>1, <2>2, <2>3, <2>5 DEF ChanInv
  <2> QED
    BY Zenon, <2>4, <2>5
<1>6. CASE NI_stall(n)
  <2>1. PICK c \in In(n) :
          /\ link[c] # <<>>
          /\ link' = [link EXCEPT ![c] = Tail(@)]
          /\ stalled' = [stalled EXCEPT ![n] = @ \cup {Head(link[c])}]
    BY Zenon, <1>6 DEF NI_stall
  <2>2. /\ outvc' = outvc /\ outq' = outq /\ vcstate' = vcstate /\ vcs' = vcs
        /\ credq' = credq /\ credlink' = credlink
    BY Zenon, <1>6 DEF NI_stall, upVars, downVars
  <2>3. CASE d = c
    <3>1. link'[d] = Tail(link[d]) /\ Stalled(d)' = Stalled(d) \cup {Head(link[d])}
      BY Zenon, <1>2, <2>1, <2>3 DEF TypeOK, Stalled
    <3>2. ChanGood(outvc[d], outq[d], Tail(link[d]), vcstate[d], vcs[d], credq[d],
                   credlink[d], Stalled(d) \cup {Head(link[d])})
      BY Zenon, <1>1, <2>1, <2>3, ChanStall
    <3> QED
      BY Zenon, <2>2, <3>1, <3>2 DEF ChanInv
  <2>4. CASE d # c
    <3>1. link'[d] = link[d] /\ Stalled(d)' = Stalled(d)
      BY Zenon, <1>2, <1>3, <2>1, <2>4 DEF TypeOK, Stalled
    <3> QED
      BY Zenon, <1>1, <2>2, <3>1 DEF ChanInv
  <2> QED
    BY Zenon, <2>3, <2>4
<1>7. CASE checkStallQueue(n)
  <2>1. PICK c \in In(n), f \in stalled[n] :
          /\ stalled' = [stalled EXCEPT ![n] = @ \ {f}]
          /\ credq' = [credq EXCEPT ![c] = Append(@, [vc |-> f.vc, free |-> TRUE])]
    BY Zenon, <1>7 DEF checkStallQueue, Deliver
  <2>2. /\ outvc' = outvc /\ outq' = outq /\ link' = link /\ vcstate' = vcstate /\ vcs' = vcs
        /\ credlink' = credlink
    BY Zenon, <1>7 DEF checkStallQueue, upVars
  <2>3. CASE d = c
    <3>1. /\ credq'[d] = Append(credq[d], [vc |-> f.vc, free |-> TRUE])
          /\ Stalled(d)' = Stalled(d) \ {f} /\ f \in Stalled(d)
      BY Zenon, <1>2, <2>1, <2>3 DEF TypeOK, Stalled
    <3>2. ChanGood(outvc[d], outq[d], link[d], vcstate[d], vcs[d],
                   Append(credq[d], [vc |-> f.vc, free |-> TRUE]), credlink[d], Stalled(d) \ {f})
      BY Zenon, <1>1, <3>1, ChanUnstall
    <3> QED
      BY Zenon, <2>2, <3>1, <3>2 DEF ChanInv
  <2>4. CASE d # c
    <3>1. credq'[d] = credq[d] /\ Stalled(d)' = Stalled(d)
      BY Zenon, <1>2, <1>3, <2>1, <2>4 DEF TypeOK, Stalled
    <3> QED
      BY Zenon, <1>1, <2>2, <3>1 DEF ChanInv
  <2> QED
    BY Zenon, <2>3, <2>4
<1>8. CASE NI_credit(n)
  <2>1. PICK c \in Out(n) :
          /\ credlink[c] # <<>>
          /\ credlink' = [credlink EXCEPT ![c] = Tail(@)]
          /\ outvc' = [outvc EXCEPT ![c][Head(credlink[c]).vc] = CreditedVc(@, Head(credlink[c]))]
    BY Zenon, <1>8 DEF NI_credit
  <2>2. /\ outq' = outq /\ link' = link /\ vcstate' = vcstate /\ vcs' = vcs /\ credq' = credq
        /\ Stalled(d)' = Stalled(d)
    BY Zenon, <1>8 DEF NI_credit, downVars, niVars, Stalled
  <2>3. /\ d = c => /\ credlink'[d] = Tail(credlink[d])
                    /\ outvc'[d] = [outvc[d] EXCEPT ![Head(credlink[d]).vc] = CreditedVc(@, Head(credlink[d]))]
        /\ d # c => credlink'[d] = credlink[d] /\ outvc'[d] = outvc[d]
    BY Zenon, <1>2, <2>1 DEF TypeOK
  <2>4. CASE d = c
    <3>1. ChanGood([outvc[d] EXCEPT ![Head(credlink[d]).vc] = CreditedVc(@, Head(credlink[d]))],
                   outq[d], link[d], vcstate[d], vcs[d], credq[d], Tail(credlink[d]), Stalled(d))
      BY Zenon, <1>1, <2>1, <2>4, ChanCredit
    <3> QED
      BY Zenon, <2>2, <2>3, <2>4, <3>1 DEF ChanInv
  <2>5. CASE d # c
    BY Zenon, <1>1, <2>2, <2>3, <2>5 DEF ChanInv
  <2> QED
    BY Zenon, <2>4, <2>5
<1> QED
  BY Zenon, <1>4, <1>5, <1>6, <1>7, <1>8 DEF NodeNext

-----------------------------------------------------------------------------
LEMMA VcStep == StructInv /\ VcInv /\ [Next]_vars => VcInv'
<1> SUFFICES ASSUME StructInv, VcInv, [Next]_vars PROVE VcInv'
  BY Zenon
<1>1. TypeOK /\ TypeOK'
  BY Zenon, StructStep DEF StructInv
<1>2. ASSUME NEW r \in Routers, RouterNext(r) PROVE VcInv'
  <2>1. CASE \E turn \in BOOLEAN : wakeup_noSwap(r, turn)
    BY Zenon, <2>1, VcFrame DEF wakeup_noSwap, BeginWakeup, downVars, niVars
  <2>2. CASE wakeup_declined(r)
    BY Zenon, <2>2, VcFrame DEF wakeup_declined, BeginWakeup, downVars, niVars
  <2>3. CASE wakeup_swap(r)
    BY Zenon, <2>3, VcSwap
  <2>4. CASE Units(r)
    BY Zenon, <1>1, <2>4, VcUnits
  <2>5. CASE arbitrate_inports(r)
    BY Zenon, <2>5, VcFrame DEF arbitrate_inports, niVars
  <2>6. CASE \E k \in 0 .. NumOut(r) - 1 : arbitrate_outports(r, k)
    BY Zenon, <1>1, <2>6, VcOutports
  <2>7. CASE clear_request_vector(r)
    BY Zenon, <2>7, VcFrame DEF clear_request_vector, niVars
  <2> QED
    BY Zenon, <1>2, <2>1, <2>2, <2>3, <2>4, <2>5, <2>6, <2>7 DEF RouterNext
<1>3. CASE LinkNext
  BY Zenon, <1>1, <1>3, VcLink DEF LinkNext
<1>4. ASSUME NEW n \in Nodes, NodeNext(n) PROVE VcInv'
  BY Zenon, <1>1, <1>4, VcNode
<1>5. CASE UNCHANGED vars
  BY Zenon, <1>5, VcFrame DEF vars, niVars
<1> QED
  BY Zenon, <1>2, <1>3, <1>4, <1>5 DEF Next

LEMMA VcSpec == Spec => [](StructInv /\ VcInv)
<1>1. Init => StructInv /\ VcInv
  BY Zenon, StructInit, VcInit
<1>2. (StructInv /\ VcInv) /\ [Next]_vars => (StructInv /\ VcInv)'
  BY Zenon, StructStep, VcStep
<1> QED
  BY <1>1, <1>2, PTL DEF Spec

\* Seven predicates of which one holds, as the set of those that hold.
LEMMA OneHolder ==
  ASSUME NEW c \in Channels, NEW v \in VCs, ChanInv(c)
  PROVE  \E h \in Holders : {k \in Holders : Holds(k, c, v)} = {h}
<1> DEFINE a1 == outvc[c][v].state = "IDLE"
           a2 == InSeq(outq[c], v)
           a3 == InSeq(link[c], v)
           a4 == vcs[c][v] # <<>>
           a5 == Dst[c] \in Nodes /\ \E f \in stalled[Dst[c]] : f.vc = v
           a6 == InSeq(credq[c], v)
           a7 == InSeq(credlink[c], v)
<1>1. /\ Holds("idle", c, v) <=> a1
      /\ Holds("outq", c, v) <=> a2
      /\ Holds("link", c, v) <=> a3
      /\ Holds("vc", c, v) <=> a4
      /\ Holds("stalled", c, v) <=> a5
      /\ Holds("credq", c, v) <=> a6
      /\ Holds("credlink", c, v) <=> a7
  BY Zenon DEF Holds
<1>2. InSet(Stalled(c), v) <=> a5
  BY Zenon DEF InSet, Stalled
<1>3. OneOf(a1, a2, a3, a4, a5, a6, a7)
  BY Zenon, <1>2 DEF ChanInv, ChanGood, VcGood, OneOf
<1> HIDE DEF a1, a2, a3, a4, a5, a6, a7
<1>4. \E h \in Holders : \A k \in Holders : Holds(k, c, v) <=> k = h
  BY <1>1, <1>3 DEF OneOf, Holders
<1> QED
  BY Zenon, <1>4

\* Every VC of every link is always in exactly one hand, for every topology,
\* routing algorithm and number of VCs: the swaps of GarnetNetwork::doSwap,
\* which bypass the credit protocol, never lose or double-book a VC.
THEOREM VcExclusiveCorrect == Spec => []VcExclusive
<1>1. VcInv => VcExclusive
  <2> SUFFICES ASSUME VcInv, NEW c \in Channels
               PROVE  /\ \A v \in VCs : \E h \in Holders : {k \in Holders : Holds(k, c, v)} = {h}
                      /\ \A v \in VCs : Len(vcs[c][v]) <= 1
                      /\ DistinctVcs(outq[c]) /\ DistinctVcs(link[c])
                      /\ DistinctVcs(credq[c]) /\ DistinctVcs(credlink[c])
                      /\ Dst[c] \in Nodes => \A f, g \in stalled[Dst[c]] : f.vc = g.vc => f = g
    BY Zenon DEF VcExclusive
  <2>1. ChanInv(c)
    BY Zenon DEF VcInv
  <2>2. \A v \in VCs : \E h \in Holders : {k \in Holders : Holds(k, c, v)} = {h}
    BY Zenon, <2>1, OneHolder
  <2> QED
    BY Zenon, <2>1, <2>2 DEF ChanInv, ChanGood, VcGood, DistinctIn, Stalled
<1> QED
  BY <1>1, VcSpec, PTL

\* The assert of InputUnit::wakeup never fails: an arriving flit finds its VC
\* idle.
THEOREM ArrivalCorrect == Spec => []ArrivalFindsIdleVc
<1>1. StructInv /\ VcInv => ArrivalFindsIdleVc
  <2> SUFFICES ASSUME StructInv, VcInv, NEW c \in Channels, NEW i \in DOMAIN link[c]
               PROVE  vcstate[c][link[c][i].vc] = "IDLE"
    BY Zenon DEF ArrivalFindsIdleVc
  <2> DEFINE v == link[c][i].vc
  <2>1. link[c] \in Seq(Flit) /\ vcstate[c] \in [VCs -> {"IDLE", "ACTIVE"}]
    BY Zenon DEF StructInv, TypeOK
  <2>2. link[c][i] \in Flit
    BY <2>1
  <2>3. v \in VCs
    BY Zenon, <2>2, NamedVc
  <2>4. InSeq(link[c], v)
    BY Zenon DEF InSeq
  <2> HIDE DEF v
  <2>5. vcstate[c][v] # "ACTIVE"
    BY Zenon, <2>3, <2>4 DEF VcInv, ChanInv, ChanGood, VcGood, OneOf
  <2> QED
    BY Zenon, <2>1, <2>3, <2>5 DEF v
<1> QED
  BY <1>1, VcSpec, PTL

\* The credit counters never leave 0 .. MaxCredit, and are full exactly for
\* idle VCs (the asserts of OutVcState).
THEOREM CreditsCorrect == Spec => []CreditsMatchState
<1>1. VcInv => CreditsMatchState
  BY Zenon DEF VcInv, ChanInv, ChanGood, VcGood, CreditsMatchState
<1> QED
  BY <1>1, VcSpec, PTL

=============================================================================
