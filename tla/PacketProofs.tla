---------------------------- MODULE PacketProofs -----------------------------
(***************************************************************************)
(* What happens to packets in SwapNetwork: the handlers transport them as  *)
(* PacketTransport allows, and none leaves its virtual network.            *)
(*                                                                         *)
(* A packet in the network is identified with the VC that carries it: the  *)
(* VC <<c, v>> it waits for on the link, is buffered in, or holds at an    *)
(* interface.  Since a VC is in one hand, it carries at most one packet,   *)
(* and every handler leaves the carrier of a packet alone, moves one       *)
(* packet to a free VC, exchanges the packets of two VCs, or takes a       *)
(* packet in or out.                                                       *)
(***************************************************************************)
EXTENDS SwapNetworkVcProofs, SwapTransport

-----------------------------------------------------------------------------
(* What the handlers do to the packets that a channel carries.             *)

LEMMA TailPkts ==
  ASSUME NEW s \in Seq(Flit), s # <<>>, NEW v, NEW p
  PROVE  PktIn(s, v, p) <=> PktIn(Tail(s), v, p) \/ (v = Head(s).vc /\ p = Head(s).pkt)
<1>1. Len(s) \in Nat \ {0} /\ DOMAIN s = 1 .. Len(s) /\ Head(s) = s[1]
  OBVIOUS
<1>2. /\ Tail(s) \in Seq(Flit) /\ Len(Tail(s)) = Len(s) - 1
      /\ \A i \in 1 .. Len(Tail(s)) : Tail(s)[i] = s[i + 1]
  OBVIOUS
<1> DEFINE t == Tail(s)
<1>3. DOMAIN t = 1 .. Len(s) - 1 /\ \A i \in 1 .. Len(s) - 1 : t[i] = s[i + 1]
  BY <1>1, <1>2
<1> HIDE DEF t
<1>4. ASSUME PktIn(s, v, p), ~(v = Head(s).vc /\ p = Head(s).pkt) PROVE PktIn(t, v, p)
  <2>1. PICK i \in 1 .. Len(s) : s[i].vc = v /\ s[i].pkt = p
    BY Zenon, <1>1, <1>4 DEF PktIn
  <2>2. i - 1 \in 1 .. Len(s) - 1 /\ (i - 1) + 1 = i
    BY <1>1, <1>4, <2>1
  <2>3. t[i - 1] = s[i]
    BY Zenon, <1>3, <2>2
  <2> QED
    BY Zenon, <1>3, <2>1, <2>2, <2>3 DEF PktIn
<1>5. ASSUME PktIn(t, v, p) PROVE PktIn(s, v, p)
  <2>1. PICK i \in 1 .. Len(s) - 1 : t[i].vc = v /\ t[i].pkt = p
    BY Zenon, <1>3, <1>5 DEF PktIn
  <2>2. i + 1 \in DOMAIN s /\ t[i] = s[i + 1]
    BY <1>1, <1>3
  <2> QED
    BY Zenon, <2>1, <2>2 DEF PktIn
<1>6. v = Head(s).vc /\ p = Head(s).pkt => PktIn(s, v, p)
  BY <1>1 DEF PktIn
<1> QED
  BY Zenon, <1>4, <1>5, <1>6 DEF t

LEMMA AppendPkts ==
  ASSUME NEW s \in Seq(Flit), NEW e \in Flit, NEW v, NEW p
  PROVE  PktIn(Append(s, e), v, p) <=> PktIn(s, v, p) \/ (v = e.vc /\ p = e.pkt)
<1> DEFINE t == Append(s, e)
<1>1. /\ \A i \in DOMAIN t : IF i \in DOMAIN s THEN t[i] = s[i] ELSE t[i] = e
      /\ \A i \in DOMAIN s : i \in DOMAIN t
      /\ \E i \in DOMAIN t : i \notin DOMAIN s /\ t[i] = e
  BY Zenon, AppendedSeq
<1> HIDE DEF t
<1> QED
  BY Zenon, <1>1 DEF PktIn, t

\* A queue that names no VC v has no packet for it.
LEMMA NamedPkts ==
  /\ \A s, v, p : PktIn(s, v, p) => InSeq(s, v)
  /\ \A st, v, p : PktStalled(st, v, p) => InSet(st, v)
  /\ \A s, p : PktBuffered(s, p) => s # <<>>
BY DEF PktIn, InSeq, PktStalled, InSet, PktBuffered

\* A VC that is free or whose credit is on its way carries nothing, and one
\* that carries a packet carries no other.
LEMMA OnePkt ==
  ASSUME NEW ov, NEW oq, NEW lk, NEW vst, NEW vc, NEW cq, NEW cl, NEW st,
         ChanType(ov, oq, lk, vst, vc, cq, cl, st),
         ChanGood(ov, oq, lk, vst, vc, cq, cl, st), NEW v \in VCs
  PROVE  /\ ov[v].state = "IDLE" => \A p : ~CarriesIn(oq, lk, vc, st, v, p)
         /\ \A p, q : CarriesIn(oq, lk, vc, st, v, p) /\ CarriesIn(oq, lk, vc, st, v, q) => p = q
<1>1. VcGood(v, ov, oq, lk, vst, vc, cq, cl, st)
  BY Zenon DEF ChanGood
<1>2. \A p : CarriesIn(oq, lk, vc, st, v, p) =>
         InSeq(oq, v) \/ InSeq(lk, v) \/ vc[v] # <<>> \/ InSet(st, v)
  BY Zenon, NamedPkts DEF CarriesIn
<1>3. ASSUME NEW s, DistinctVcs(s), NEW p, NEW q, PktIn(s, v, p), PktIn(s, v, q)
      PROVE  p = q
  BY Zenon, <1>3 DEF PktIn, DistinctVcs
<1>4. ASSUME NEW p, NEW q, PktStalled(st, v, p), PktStalled(st, v, q)
      PROVE  p = q
  BY Zenon, <1>4 DEF PktStalled, ChanGood, DistinctIn
<1>5. ASSUME NEW p, NEW q, PktBuffered(vc[v], p), PktBuffered(vc[v], q)
      PROVE  p = q
  <2>1. vc[v] \in Seq(Flit) /\ Len(vc[v]) <= 1
    BY Zenon, <1>1 DEF ChanType, VcGood
  <2>2. DOMAIN vc[v] = 1 .. Len(vc[v]) /\ Len(vc[v]) \in Nat
    BY <2>1
  <2>3. \A i, j \in DOMAIN vc[v] : i = j
    BY <2>1, <2>2
  <2> QED
    BY Zenon, <1>5, <2>3 DEF PktBuffered
<1>6. DistinctVcs(oq) /\ DistinctVcs(lk)
  BY Zenon DEF ChanGood
<1>7. ASSUME NEW p, NEW q, CarriesIn(oq, lk, vc, st, v, p), CarriesIn(oq, lk, vc, st, v, q)
      PROVE  p = q
  <2>1. OneOf(ov[v].state = "IDLE", InSeq(oq, v), InSeq(lk, v), vc[v] # <<>>,
              InSet(st, v), InSeq(cq, v), InSeq(cl, v))
    BY Zenon, <1>1 DEF VcGood
  <2>2. CASE InSeq(oq, v)
    <3>1. PktIn(oq, v, p) /\ PktIn(oq, v, q)
      BY Zenon, <1>7, <2>1, <2>2, NamedPkts DEF CarriesIn, OneOf
    <3> QED
      BY Zenon, <1>3, <1>6, <3>1
  <2>3. CASE InSeq(lk, v)
    <3>1. PktIn(lk, v, p) /\ PktIn(lk, v, q)
      BY Zenon, <1>7, <2>1, <2>3, NamedPkts DEF CarriesIn, OneOf
    <3> QED
      BY Zenon, <1>3, <1>6, <3>1
  <2>4. CASE vc[v] # <<>>
    <3>1. PktBuffered(vc[v], p) /\ PktBuffered(vc[v], q)
      BY Zenon, <1>7, <2>1, <2>4, NamedPkts DEF CarriesIn, OneOf
    <3> QED
      BY Zenon, <1>5, <3>1
  <2>5. CASE InSet(st, v)
    <3>1. PktStalled(st, v, p) /\ PktStalled(st, v, q)
      BY Zenon, <1>7, <2>1, <2>5, NamedPkts DEF CarriesIn, OneOf
    <3> QED
      BY Zenon, <1>4, <3>1
  <2> QED
    BY Zenon, <1>2, <1>7, <2>2, <2>3, <2>4, <2>5
<1> QED
  BY Zenon, <1>1, <1>2, <1>7 DEF VcGood, OneOf

\* A flit joins the source queue: the packet is carried in the VC it names.
LEMMA CarrySend ==
  ASSUME NEW oq \in Seq(Flit), NEW lk, NEW vc, NEW st, NEW e \in Flit, NEW v, NEW p
  PROVE  CarriesIn(Append(oq, e), lk, vc, st, v, p) <=>
           CarriesIn(oq, lk, vc, st, v, p) \/ (v = e.vc /\ p = e.pkt)
BY Zenon, AppendPkts DEF CarriesIn

\* From the source queue to the link buffer, from there into the VC or into
\* m_stall_queue: the same VC carries the packet.
LEMMA CarryLink ==
  ASSUME NEW oq \in Seq(Flit), NEW lk \in Seq(Flit), NEW vc, NEW st, oq # <<>>, NEW v, NEW p
  PROVE  CarriesIn(Tail(oq), Append(lk, Head(oq)), vc, st, v, p) <=>
           CarriesIn(oq, lk, vc, st, v, p)
<1>1. Head(oq) \in Flit
  BY Zenon, NonEmptySeq
<1>2. PktIn(Append(lk, Head(oq)), v, p) <=> PktIn(lk, v, p) \/ (v = Head(oq).vc /\ p = Head(oq).pkt)
  BY Zenon, <1>1, AppendPkts
<1> QED
  BY Zenon, <1>2, TailPkts DEF CarriesIn

LEMMA CarryArrive ==
  ASSUME NEW oq, NEW lk \in Seq(Flit), NEW vc \in [VCs -> Seq(Flit)], NEW st, lk # <<>>,
         NEW e \in Flit, e.pkt = Head(lk).pkt, NEW v \in VCs, NEW p
  PROVE  CarriesIn(oq, Tail(lk), [vc EXCEPT ![Head(lk).vc] = Append(@, e)], st, v, p) <=>
           CarriesIn(oq, lk, vc, st, v, p)
<1> DEFINE w == Head(lk).vc
           vcc == [vc EXCEPT ![w] = Append(@, e)]
<1>1. PktIn(lk, v, p) <=> PktIn(Tail(lk), v, p) \/ (v = w /\ p = e.pkt)
  BY Zenon, TailPkts
<1>2. PktBuffered(vcc[v], p) <=> PktBuffered(vc[v], p) \/ (v = w /\ p = e.pkt)
  <2>1. CASE v # w
    BY Zenon, <2>1
  <2>2. CASE v = w
    <3> DEFINE s == vc[w]
               t == Append(s, e)
    <3>1. vcc[v] = t /\ s \in Seq(Flit) /\ vc[v] = s
      BY Zenon, <2>2
    <3>2. /\ \A i \in DOMAIN t : IF i \in DOMAIN s THEN t[i] = s[i] ELSE t[i] = e
          /\ \A i \in DOMAIN s : i \in DOMAIN t
          /\ \E i \in DOMAIN t : i \notin DOMAIN s /\ t[i] = e
      BY SMTT(30), <3>1, AppendedSeq
    <3> HIDE DEF s, t, vcc, w
    <3> QED
      BY <2>2, <3>1, <3>2 DEF PktBuffered
  <2> QED
    BY Zenon, <2>1, <2>2
<1> QED
  BY Zenon, <1>1, <1>2 DEF CarriesIn

LEMMA CarryStall ==
  ASSUME NEW oq, NEW lk \in Seq(Flit), NEW vc, NEW st, lk # <<>>, NEW v, NEW p
  PROVE  CarriesIn(oq, Tail(lk), vc, st \cup {Head(lk)}, v, p) <=>
           CarriesIn(oq, lk, vc, st, v, p)
<1>1. PktStalled(st \cup {Head(lk)}, v, p) <=>
        PktStalled(st, v, p) \/ (v = Head(lk).vc /\ p = Head(lk).pkt)
  BY Zenon DEF PktStalled
<1> QED
  BY Zenon, <1>1, TailPkts DEF CarriesIn

\* What the VC of a buffered flit carries, and what remains when it leaves.
LEMMA CarryBuffered ==
  ASSUME NEW ov, NEW oq, NEW lk, NEW vst, NEW vc, NEW cq, NEW cl, NEW st,
         ChanType(ov, oq, lk, vst, vc, cq, cl, st),
         ChanGood(ov, oq, lk, vst, vc, cq, cl, st),
         NEW w \in VCs, vc[w] # <<>>
  PROVE  /\ \A p : CarriesIn(oq, lk, vc, st, w, p) <=> p = Head(vc[w]).pkt
         /\ Tail(vc[w]) = <<>>
         /\ ~InSeq(oq, w) /\ ~InSeq(lk, w) /\ ~InSet(st, w)
<1> DEFINE b == vc[w]
<1>1. VcGood(w, ov, oq, lk, vst, vc, cq, cl, st)
  BY Zenon DEF ChanGood
<1>2. /\ b \in Seq(Flit) /\ b # <<>> /\ Len(b) <= 1
      /\ ~InSeq(oq, w) /\ ~InSeq(lk, w) /\ ~InSet(st, w)
  BY Zenon, <1>1 DEF ChanType, VcGood, OneOf
<1> HIDE DEF b
<1>3. Tail(b) = <<>> /\ DOMAIN b = {1} /\ Head(b) = b[1]
  BY Zenon, <1>2, OneFlit
<1>4. \A q : PktBuffered(b, q) <=> q = Head(b).pkt
  BY Zenon, <1>3 DEF PktBuffered
<1>5. \A q : CarriesIn(oq, lk, vc, st, w, q) <=> q = Head(b).pkt
  BY Zenon, <1>2, <1>4, NamedPkts DEF CarriesIn, b
<1> QED
  BY Zenon, <1>2, <1>3, <1>5 DEF b

LEMMA CarryDepart ==
  ASSUME NEW oq, NEW lk, NEW vc \in [VCs -> Seq(Flit)], NEW st,
         NEW w \in VCs, Tail(vc[w]) = <<>>,
         ~InSeq(oq, w), ~InSeq(lk, w), ~InSet(st, w), NEW v \in VCs, NEW p
  PROVE  CarriesIn(oq, lk, [vc EXCEPT ![w] = Tail(@)], st, v, p) <=>
           CarriesIn(oq, lk, vc, st, v, p) /\ v # w
<1> DEFINE vcc == [vc EXCEPT ![w] = Tail(@)]
<1>1. vcc[w] = <<>> /\ (v # w => vcc[v] = vc[v])
  BY Zenon
<1> HIDE DEF vcc
<1>2. CASE v = w
  <2>1. ~CarriesIn(oq, lk, vcc, st, v, p)
    BY Zenon, <1>1, <1>2, NamedPkts DEF CarriesIn
  <2> QED
    BY Zenon, <1>2, <2>1 DEF vcc
<1>3. CASE v # w
  <2>1. CarriesIn(oq, lk, vcc, st, v, p) <=> CarriesIn(oq, lk, vc, st, v, p)
    BY Zenon, <1>1, <1>3 DEF CarriesIn
  <2> QED
    BY Zenon, <1>3, <2>1 DEF vcc
<1> QED
  BY Zenon, <1>2, <1>3

\* What the VC of a flit that comes to an interface carries, and what remains
\* when the flit is delivered, from the link or from m_stall_queue.
LEMMA CarryDeliver ==
  ASSUME NEW ov, NEW oq, NEW lk, NEW vst, NEW vc, NEW cq, NEW cl, NEW st,
         ChanType(ov, oq, lk, vst, vc, cq, cl, st),
         ChanGood(ov, oq, lk, vst, vc, cq, cl, st),
         lk # <<>>, NEW v \in VCs, NEW p
  PROVE  /\ Head(lk) \in Flit
         /\ CarriesIn(oq, lk, vc, st, Head(lk).vc, Head(lk).pkt)
         /\ CarriesIn(oq, Tail(lk), vc, st, v, p) <=>
              CarriesIn(oq, lk, vc, st, v, p) /\ v # Head(lk).vc
<1> DEFINE w == Head(lk).vc
<1>1. lk \in Seq(Flit) /\ Head(lk) \in Flit /\ w \in VCs
  BY Zenon, NonEmptySeq, NamedVc DEF ChanType
<1>2. /\ InSeq(lk, w) /\ \A x : InSeq(Tail(lk), x) <=> InSeq(lk, x) /\ x # w
  BY Zenon, <1>1, TailVcs DEF ChanGood
<1>3. VcGood(w, ov, oq, lk, vst, vc, cq, cl, st)
  BY Zenon, <1>1 DEF ChanGood
<1>4. ~InSeq(oq, w) /\ vc[w] = <<>> /\ ~InSet(st, w)
  BY Zenon, <1>2, <1>3 DEF VcGood, OneOf
<1>5. PktIn(lk, v, p) <=> PktIn(Tail(lk), v, p) \/ (v = w /\ p = Head(lk).pkt)
  BY Zenon, <1>1, TailPkts
<1>6. PktIn(lk, w, Head(lk).pkt)
  BY Zenon, <1>1, TailPkts
<1> HIDE DEF w
<1>7. CASE v = w
  <2>1. ~CarriesIn(oq, Tail(lk), vc, st, v, p)
    BY Zenon, <1>2, <1>4, <1>7, NamedPkts DEF CarriesIn
  <2> QED
    BY Zenon, <1>1, <1>6, <1>7, <2>1 DEF CarriesIn, w
<1>8. CASE v # w
  BY Zenon, <1>1, <1>5, <1>6, <1>8 DEF CarriesIn, w
<1> QED
  BY Zenon, <1>7, <1>8

LEMMA CarryUnstall ==
  ASSUME NEW ov, NEW oq, NEW lk, NEW vst, NEW vc, NEW cq, NEW cl, NEW st,
         ChanType(ov, oq, lk, vst, vc, cq, cl, st),
         ChanGood(ov, oq, lk, vst, vc, cq, cl, st),
         NEW f \in st, NEW v \in VCs, NEW p
  PROVE  /\ f \in Flit
         /\ CarriesIn(oq, lk, vc, st, f.vc, f.pkt)
         /\ CarriesIn(oq, lk, vc, st \ {f}, v, p) <=>
              CarriesIn(oq, lk, vc, st, v, p) /\ v # f.vc
<1> DEFINE w == f.vc
<1>1. f \in Flit /\ w \in VCs
  BY Zenon, NamedVc DEF ChanType
<1>2. InSet(st, w) /\ PktStalled(st, w, f.pkt)
  BY Zenon DEF InSet, PktStalled
<1>3. VcGood(w, ov, oq, lk, vst, vc, cq, cl, st)
  BY Zenon, <1>1 DEF ChanGood
<1>4. ~InSeq(oq, w) /\ vc[w] = <<>> /\ ~InSeq(lk, w)
  BY Zenon, <1>2, <1>3 DEF VcGood, OneOf
<1>5. PktStalled(st \ {f}, v, p) <=> PktStalled(st, v, p) /\ v # w
  BY Zenon DEF PktStalled, DistinctIn, ChanGood
<1> HIDE DEF w
<1>7. CASE v = w
  <2>1. ~CarriesIn(oq, lk, vc, st \ {f}, v, p)
    BY Zenon, <1>4, <1>5, <1>7, NamedPkts DEF CarriesIn
  <2> QED
    BY Zenon, <1>1, <1>2, <1>7, <2>1 DEF CarriesIn, w
<1>8. CASE v # w
  BY Zenon, <1>1, <1>2, <1>5, <1>8 DEF CarriesIn, w
<1> QED
  BY Zenon, <1>7, <1>8

-----------------------------------------------------------------------------
(* PacketTransport, of which the slots are the VCs of the links.           *)

LEMMA HoldsAt ==
  /\ holds \in [Slots -> SUBSET Packets]
  /\ \A c \in Channels, v \in VCs : <<c, v>> \in Slots
  /\ \A s \in Slots : s[1] \in Channels /\ s[2] \in VCs /\ s = <<s[1], s[2]>>
  /\ \A c \in Channels, v \in VCs, p \in Packets : p \in holds[<<c, v>>] <=> Carries(c, v, p)
BY DEF holds, Slots

\* The contents of the slots after a step, from what the channels carry.
LEMMA HoldsAfter ==
  ASSUME NEW h \in [Slots -> SUBSET Packets],
         \A c \in Channels, v \in VCs, p \in Packets : Carries(c, v, p)' <=> p \in h[<<c, v>>]
  PROVE  holds' = h
<1> DEFINE g == [s \in Slots |-> {p \in Packets : Carries(s[1], s[2], p)'}]
<1>1. holds' = g
  BY Zenon DEF holds, Slots
<1>2. \A s \in Slots : s[1] \in Channels /\ s[2] \in VCs /\ s = <<s[1], s[2]>>
  BY Zenon, HoldsAt
<1>3. ASSUME NEW s \in Slots PROVE g[s] = h[s]
  <2>1. \A p \in Packets : Carries(s[1], s[2], p)' <=> p \in h[s]
    BY Zenon, <1>2
  <2>2. h[s] \subseteq Packets
    BY Zenon
  <2> QED
    BY Zenon, <2>1, <2>2
<1>4. g = [s \in Slots |-> g[s]] /\ h = [s \in Slots |-> h[s]]
  BY Zenon
<1> HIDE DEF g
<1>5. g = h
  BY Zenon, <1>3, <1>4
<1> QED
  BY Zenon, <1>1, <1>5

LEMMA HoldsSame ==
  ASSUME \A c \in Channels, v \in VCs, p \in Packets : Carries(c, v, p)' <=> Carries(c, v, p)
  PROVE  holds' = holds
<1>1. holds \in [Slots -> SUBSET Packets]
  BY Zenon, HoldsAt
<1>2. \A c \in Channels, v \in VCs, p \in Packets : Carries(c, v, p)' <=> p \in holds[<<c, v>>]
  BY Zenon, HoldsAt
<1> QED
  BY Zenon, <1>1, <1>2, HoldsAfter

\* The slot of a VC holds one packet or none.
LEMMA HoldsOne ==
  ASSUME NEW c \in Channels, NEW v \in VCs, TypeOK, VcInv
  PROVE  /\ \A p \in Packets : Carries(c, v, p) => holds[<<c, v>>] = {p}
         /\ outvc[c][v].state = "IDLE" => holds[<<c, v>>] = {}
<1>1. /\ ChanType(outvc[c], outq[c], link[c], vcstate[c], vcs[c], credq[c], credlink[c], Stalled(c))
      /\ ChanGood(outvc[c], outq[c], link[c], vcstate[c], vcs[c], credq[c], credlink[c], Stalled(c))
  BY Zenon, Typed DEF VcInv, ChanInv
<1>2. /\ outvc[c][v].state = "IDLE" => \A p : ~Carries(c, v, p)
      /\ \A p, q : Carries(c, v, p) /\ Carries(c, v, q) => p = q
  BY Zenon, <1>1, OnePkt DEF Carries
<1>3. holds[<<c, v>>] = {p \in Packets : Carries(c, v, p)}
  BY Zenon DEF holds, Slots
<1> QED
  BY Zenon, <1>2, <1>3

-----------------------------------------------------------------------------
(* The steps that PacketTransport does not see.                            *)

LEMMA CarryFrame ==
  ASSUME UNCHANGED <<outq, link, vcs, stalled>>
  PROVE  holds' = holds
<1>1. \A c \in Channels, v \in VCs, p \in Packets : Carries(c, v, p)' <=> Carries(c, v, p)
  BY Zenon DEF Carries, Stalled
<1> QED
  BY Zenon, <1>1, HoldsSame

LEMMA HoldsLink ==
  ASSUME TypeOK, NEW S, NEW T, NetworkLink_wakeup(S, T)
  PROVE  holds' = holds
<1> SUFFICES ASSUME NEW c \in Channels, NEW v \in VCs, NEW p \in Packets
             PROVE  Carries(c, v, p)' <=> Carries(c, v, p)
  BY Zenon, HoldsSame
<1>1. /\ outq'[c] = IF c \in S THEN Tail(outq[c]) ELSE outq[c]
      /\ link'[c] = IF c \in S THEN Append(link[c], Head(outq[c])) ELSE link[c]
      /\ c \in S => outq[c] # <<>>
  BY Zenon DEF NetworkLink_wakeup, Moved, Popped
<1>2. vcs'[c] = vcs[c] /\ Stalled(c)' = Stalled(c)
  BY Zenon DEF NetworkLink_wakeup, niVars, Stalled
<1>3. outq[c] \in Seq(Flit) /\ link[c] \in Seq(Flit)
  BY Zenon DEF TypeOK
<1>4. CASE c \in S
  <2>1. CarriesIn(Tail(outq[c]), Append(link[c], Head(outq[c])), vcs[c], Stalled(c), v, p) <=>
          CarriesIn(outq[c], link[c], vcs[c], Stalled(c), v, p)
    BY Zenon, <1>1, <1>3, <1>4, CarryLink
  <2> QED
    BY Zenon, <1>1, <1>2, <1>4, <2>1 DEF Carries
<1>5. CASE c \notin S
  BY Zenon, <1>1, <1>2, <1>5 DEF Carries
<1> QED
  BY Zenon, <1>4, <1>5

LEMMA HoldsUnits ==
  ASSUME TypeOK, NEW r \in Routers, Units(r)
  PROVE  holds' = holds
<1> SUFFICES ASSUME NEW c \in Channels, NEW v \in VCs, NEW p \in Packets
             PROVE  Carries(c, v, p)' <=> Carries(c, v, p)
  BY Zenon, HoldsSame
<1>1. outq'[c] = outq[c] /\ Stalled(c)' = Stalled(c)
  BY Zenon DEF Units, niVars, Stalled
<1>2. PICK rt \in [Arrivals(r) -> Out(r)] :
        /\ \A d \in Arrivals(r) : rt[d] \in Routes(r, Head(link[d]))
        /\ link' = [d \in Channels |->
             IF d \in Arrivals(r) THEN Tail(link[d]) ELSE link[d]]
        /\ vcs' = [d \in Channels |->
             IF d \in Arrivals(r)
             THEN [vcs[d] EXCEPT ![Head(link[d]).vc] = Append(@, RoutedHead(d, rt[d]))]
             ELSE vcs[d]]
  BY Zenon DEF Units, InputUnit_wakeup
<1>3. CASE c \in Arrivals(r)
  <2> DEFINE e == RoutedHead(c, rt[c])
  <2>1. link'[c] = Tail(link[c]) /\ vcs'[c] = [vcs[c] EXCEPT ![Head(link[c]).vc] = Append(@, e)]
    BY Zenon, <1>2, <1>3
  <2>2. e \in Flit /\ link[c] # <<>> /\ Head(link[c]) \in Flit
    BY Zenon, <1>2, <1>3, ArrivalFacts
  <2>3. e.pkt = Head(link[c]).pkt
    BY Zenon, <2>2 DEF RoutedHead, Flit
  <2>4. link[c] \in Seq(Flit) /\ vcs[c] \in [VCs -> Seq(Flit)]
    BY Zenon DEF TypeOK
  <2> HIDE DEF e
  <2>5. CarriesIn(outq[c], Tail(link[c]), [vcs[c] EXCEPT ![Head(link[c]).vc] = Append(@, e)],
                  Stalled(c), v, p) <=>
          CarriesIn(outq[c], link[c], vcs[c], Stalled(c), v, p)
    BY Zenon, <2>2, <2>3, <2>4, CarryArrive
  <2> QED
    BY Zenon, <1>1, <2>1, <2>5 DEF Carries
<1>4. CASE c \notin Arrivals(r)
  <2>1. link'[c] = link[c] /\ vcs'[c] = vcs[c]
    BY Zenon, <1>2, <1>4
  <2> QED
    BY Zenon, <1>1, <2>1 DEF Carries
<1> QED
  BY Zenon, <1>3, <1>4

LEMMA HoldsStall ==
  ASSUME TypeOK, NEW n \in Nodes, NI_stall(n)
  PROVE  holds' = holds
<1> SUFFICES ASSUME NEW d \in Channels, NEW v \in VCs, NEW p \in Packets
             PROVE  Carries(d, v, p)' <=> Carries(d, v, p)
  BY Zenon, HoldsSame
<1>1. PICK c \in In(n) :
        /\ link[c] # <<>>
        /\ link' = [link EXCEPT ![c] = Tail(@)]
        /\ stalled' = [stalled EXCEPT ![n] = @ \cup {Head(link[c])}]
  BY Zenon DEF NI_stall
<1>2. outq' = outq /\ vcs' = vcs
  BY Zenon DEF NI_stall, upVars, downVars
<1>3. c \in Channels /\ Dst[c] = n /\ \A b \in Channels : Dst[b] = n => b = c
  BY LinkEnds, TopologyAssumption
<1>4. CASE d = c
  <2>1. link'[d] = Tail(link[d]) /\ Stalled(d)' = Stalled(d) \cup {Head(link[d])}
    BY Zenon, <1>1, <1>3, <1>4 DEF TypeOK, Stalled
  <2>2. link[d] \in Seq(Flit) /\ link[d] # <<>>
    BY Zenon, <1>1, <1>4 DEF TypeOK
  <2>3. CarriesIn(outq[d], Tail(link[d]), vcs[d], Stalled(d) \cup {Head(link[d])}, v, p) <=>
          CarriesIn(outq[d], link[d], vcs[d], Stalled(d), v, p)
    BY Zenon, <2>2, CarryStall
  <2> QED
    BY Zenon, <1>2, <2>1, <2>3 DEF Carries
<1>5. CASE d # c
  <2>1. link'[d] = link[d] /\ Stalled(d)' = Stalled(d)
    BY Zenon, <1>1, <1>3, <1>5 DEF TypeOK, Stalled
  <2> QED
    BY Zenon, <1>2, <2>1 DEF Carries
<1> QED
  BY Zenon, <1>4, <1>5

-----------------------------------------------------------------------------
(* The steps of PacketTransport.                                           *)

LEMMA LaneFacts ==
  ASSUME NEW c \in Channels, NEW v \in VCs, NEW p \in Packets
  PROVE  /\ <<c, v>> \in Lane[p] <=>
              VnetOf(v) = InjVnet(p) /\ (Dst[c] \in Nodes => Dst[c] = PktDst[p])
         /\ <<c, v>> \in Entry[p] <=> Src[c] = PktSrc[p]
         /\ <<c, v>> \in Exit[p] <=> Dst[c] = PktDst[p]
BY Zenon DEF Lane, Entry, Exit, Slots

LEMMA HopFacts ==
  ASSUME NEW c \in Channels, NEW o \in Channels, NEW v \in VCs, NEW w \in VCs,
         Dst[c] \in Routers, Dst[c] = Src[o]
  PROVE  <<<<c, v>>, <<o, w>>>> \in Hops
BY Zenon DEF Hops, Slots

LEMMA TransportSend ==
  ASSUME TypeOK, VcInv, NEW n \in Nodes, NI_send(n)
  PROVE  Transport!TNext
<1>1. PICK p \in pending, c \in Out(n) : \E v \in IdleVcs(c, InjVnet(p)) :
        /\ PktSrc[p] = n
        /\ pending' = pending \ {p}
        /\ outq' = [outq EXCEPT ![c] =
             Append(@, [pkt |-> p, vc |-> v, out |-> NoLink, routed |-> FALSE])]
  BY Zenon DEF NI_send
<1>2. PICK v \in IdleVcs(c, InjVnet(p)) :
        /\ PktSrc[p] = n
        /\ pending' = pending \ {p}
        /\ outq' = [outq EXCEPT ![c] =
             Append(@, [pkt |-> p, vc |-> v, out |-> NoLink, routed |-> FALSE])]
  BY Zenon, <1>1
<1> DEFINE e == [pkt |-> p, vc |-> v, out |-> NoLink, routed |-> FALSE]
           s == <<c, v>>
           h == [holds EXCEPT ![s] = {p}]
<1>3. /\ p \in Packets
      /\ c \in Channels /\ Src[c] = n /\ Dst[c] \notin Nodes
      /\ v \in VCs /\ VnetOf(v) = InjVnet(p) /\ outvc[c][v].state = "IDLE"
  BY SMTT(30), LinkEnds, TopologyAssumption DEF TypeOK, IdleVcs
<1>4. e \in Flit /\ e.vc = v /\ e.pkt = p
  BY Zenon, <1>3 DEF Flit
<1>5. /\ link' = link /\ vcs' = vcs /\ stalled' = stalled /\ delivered' = delivered
  BY Zenon DEF NI_send, downVars
<1> HIDE DEF e
<1>6. s \in Slots /\ holds[s] = {} /\ s \in Entry[p] \cap Lane[p]
  BY <1>2, <1>3, HoldsAt, HoldsOne, LaneFacts
<1>7. h \in [Slots -> SUBSET Packets]
  BY <1>3, <1>6, HoldsAt
<1>8. ASSUME NEW d \in Channels, NEW u \in VCs, NEW q \in Packets
      PROVE  Carries(d, u, q)' <=> q \in h[<<d, u>>]
  <2>1. <<d, u>> \in Slots /\ holds \in [Slots -> SUBSET Packets]
    BY Zenon, HoldsAt
  <2>2. q \in h[<<d, u>>] <=> Carries(d, u, q) \/ (d = c /\ u = v /\ q = p)
    <3>0. Carries(d, u, q) <=> q \in holds[<<d, u>>]
      BY Zenon, HoldsAt
    <3>1. CASE d = c /\ u = v
      BY Zenon, <1>6, <2>1, <3>0, <3>1
    <3>2. CASE ~(d = c /\ u = v)
      BY Zenon, <2>1, <3>0, <3>2
    <3> QED
      BY Zenon, <3>1, <3>2
  <2>3. Stalled(d)' = Stalled(d)
    BY Zenon, <1>5 DEF Stalled
  <2>4. outq[d] \in Seq(Flit) /\ (d = c => outq'[d] = Append(outq[d], e))
        /\ (d # c => outq'[d] = outq[d])
    BY Zenon, <1>2, <1>3 DEF TypeOK, e
  <2>5. CarriesIn(Append(outq[d], e), link[d], vcs[d], Stalled(d), u, q) <=>
          CarriesIn(outq[d], link[d], vcs[d], Stalled(d), u, q) \/ (u = e.vc /\ q = e.pkt)
    BY Zenon, <1>4, <2>4, CarrySend
  <2> QED
    BY Zenon, <1>4, <1>5, <2>2, <2>3, <2>4, <2>5 DEF Carries
<1>9. holds' = h
  BY Zenon, <1>7, <1>8, HoldsAfter
<1> HIDE DEF s
<1>10. Transport!Send(p, s)
  BY Zenon, <1>2, <1>5, <1>6, <1>9 DEF Transport!Send
<1> QED
  BY Zenon, <1>6, <1>10 DEF Transport!TNext

\* A slot that is emptied, by a flit that leaves its VC or is delivered.
LEMMA EmptiedSlot ==
  ASSUME NEW c \in Channels, NEW v \in VCs,
         \A d \in Channels, u \in VCs, q \in Packets :
           Carries(d, u, q)' <=> Carries(d, u, q) /\ ~(d = c /\ u = v)
  PROVE  holds' = [holds EXCEPT ![<<c, v>>] = {}]
<1> DEFINE h == [holds EXCEPT ![<<c, v>>] = {}]
<1>1. h \in [Slots -> SUBSET Packets]
  BY Zenon, HoldsAt
<1>2. ASSUME NEW d \in Channels, NEW u \in VCs, NEW q \in Packets
      PROVE  q \in h[<<d, u>>] <=> Carries(d, u, q) /\ ~(d = c /\ u = v)
  <2>1. <<d, u>> \in Slots /\ holds \in [Slots -> SUBSET Packets]
    BY Zenon, HoldsAt
  <2>2. CASE <<d, u>> = <<c, v>>
    BY Zenon, <2>1, <2>2
  <2>3. CASE <<d, u>> # <<c, v>>
    BY Zenon, <2>1, <2>3, HoldsAt
  <2> QED
    BY Zenon, <2>2, <2>3
<1> HIDE DEF h
<1>3. \A d \in Channels, u \in VCs, q \in Packets : Carries(d, u, q)' <=> q \in h[<<d, u>>]
  BY Zenon, <1>2
<1>4. holds' = h
  BY Zenon, <1>1, <1>3, HoldsAfter
<1> QED
  BY Zenon, <1>4 DEF h

LEMMA TransportReceive ==
  ASSUME TypeOK, VcInv, Transport!OnePlace, NEW n \in Nodes, NI_receive(n)
  PROVE  Transport!TNext
<1>1. PICK c \in In(n) :
        /\ link[c] # <<>>
        /\ link' = [link EXCEPT ![c] = Tail(@)]
        /\ delivered' = delivered \cup {Head(link[c]).pkt}
  BY Zenon DEF NI_receive, Deliver
<1> DEFINE f == Head(link[c])
           v == f.vc
           p == f.pkt
           s == <<c, v>>
<1>2. c \in Channels /\ Dst[c] = n
  BY Zenon, LinkEnds
<1>3. /\ outq' = outq /\ vcs' = vcs /\ stalled' = stalled /\ pending' = pending
  BY Zenon DEF NI_receive, upVars
<1>4. /\ ChanType(outvc[c], outq[c], link[c], vcstate[c], vcs[c], credq[c], credlink[c], Stalled(c))
      /\ ChanGood(outvc[c], outq[c], link[c], vcstate[c], vcs[c], credq[c], credlink[c], Stalled(c))
  BY Zenon, <1>2, Typed DEF VcInv, ChanInv
<1>5. \A u \in VCs : \A q :
         /\ f \in Flit
         /\ CarriesIn(outq[c], link[c], vcs[c], Stalled(c), v, p)
         /\ CarriesIn(outq[c], Tail(link[c]), vcs[c], Stalled(c), u, q) <=>
              CarriesIn(outq[c], link[c], vcs[c], Stalled(c), u, q) /\ u # v
  BY Zenon, <1>1, <1>4, CarryDeliver
<1>6. f \in Flit
  BY Zenon, <1>5, VcFacts
<1>7. v \in VCs /\ p \in Packets /\ Carries(c, v, p)
  BY Zenon, <1>5, <1>6, VcFacts DEF Flit, Carries
<1>8. ASSUME NEW d \in Channels, NEW u \in VCs, NEW q \in Packets
      PROVE  Carries(d, u, q)' <=> Carries(d, u, q) /\ ~(d = c /\ u = v)
  <2>1. Stalled(d)' = Stalled(d)
    BY Zenon, <1>3 DEF Stalled
  <2>2. (d = c => link'[d] = Tail(link[d])) /\ (d # c => link'[d] = link[d])
    BY Zenon, <1>1, <1>2 DEF TypeOK
  <2> HIDE DEF v
  <2> QED
    BY Zenon, <1>3, <1>5, <2>1, <2>2 DEF Carries
<1> HIDE DEF v, p
<1>9. holds' = [holds EXCEPT ![s] = {}]
  BY Zenon, <1>2, <1>7, <1>8, EmptiedSlot
<1>10. s \in Slots /\ holds[s] = {p} /\ p \in holds[s]
  BY Zenon, <1>2, <1>7, HoldsAt, HoldsOne
<1>11. s \in Exit[p]
  BY Zenon, <1>2, <1>7, <1>10, LaneFacts DEF Transport!OnePlace
<1> HIDE DEF s
<1>12. Transport!Deliver(p, s)
  BY Zenon, <1>1, <1>3, <1>9, <1>10, <1>11 DEF Transport!Deliver, p
<1> QED
  BY Zenon, <1>10, <1>12 DEF Transport!TNext

LEMMA TransportUnstall ==
  ASSUME TypeOK, VcInv, Transport!OnePlace, NEW n \in Nodes, checkStallQueue(n)
  PROVE  Transport!TNext
<1>1. PICK c \in In(n), f \in stalled[n] :
        /\ stalled' = [stalled EXCEPT ![n] = @ \ {f}]
        /\ delivered' = delivered \cup {f.pkt}
  BY Zenon DEF checkStallQueue, Deliver
<1> DEFINE v == f.vc
           p == f.pkt
           s == <<c, v>>
<1>2. c \in Channels /\ Dst[c] = n /\ \A b \in Channels : Dst[b] = n => b = c
  BY SMTT(30), LinkEnds, TopologyAssumption
<1>3. /\ outq' = outq /\ vcs' = vcs /\ link' = link /\ pending' = pending
  BY Zenon DEF checkStallQueue, upVars
<1>4. /\ ChanType(outvc[c], outq[c], link[c], vcstate[c], vcs[c], credq[c], credlink[c], Stalled(c))
      /\ ChanGood(outvc[c], outq[c], link[c], vcstate[c], vcs[c], credq[c], credlink[c], Stalled(c))
  BY Zenon, <1>2, Typed DEF VcInv, ChanInv
<1>5. f \in Stalled(c)
  BY Zenon, <1>2 DEF Stalled
<1>6. \A u \in VCs : \A q :
         /\ f \in Flit
         /\ CarriesIn(outq[c], link[c], vcs[c], Stalled(c), v, p)
         /\ CarriesIn(outq[c], link[c], vcs[c], Stalled(c) \ {f}, u, q) <=>
              CarriesIn(outq[c], link[c], vcs[c], Stalled(c), u, q) /\ u # v
  BY Zenon, <1>4, <1>5, CarryUnstall
<1>7. f \in Flit
  BY Zenon, <1>6, VcFacts
<1>8. v \in VCs /\ p \in Packets /\ Carries(c, v, p)
  BY Zenon, <1>6, <1>7, VcFacts DEF Flit, Carries
<1>9. ASSUME NEW d \in Channels, NEW u \in VCs, NEW q \in Packets
      PROVE  Carries(d, u, q)' <=> Carries(d, u, q) /\ ~(d = c /\ u = v)
  <2>1. /\ d = c => Stalled(d)' = Stalled(d) \ {f}
        /\ d # c => Stalled(d)' = Stalled(d)
    BY Zenon, <1>1, <1>2 DEF Stalled, TypeOK
  <2> HIDE DEF v
  <2> QED
    BY Zenon, <1>3, <1>6, <2>1 DEF Carries
<1> HIDE DEF v, p
<1>10. holds' = [holds EXCEPT ![s] = {}]
  BY Zenon, <1>2, <1>8, <1>9, EmptiedSlot
<1>11. s \in Slots /\ holds[s] = {p} /\ p \in holds[s]
  BY Zenon, <1>2, <1>8, HoldsAt, HoldsOne
<1>12. s \in Exit[p]
  BY Zenon, <1>2, <1>8, <1>11, LaneFacts DEF Transport!OnePlace
<1> HIDE DEF s
<1>13. Transport!Deliver(p, s)
  BY Zenon, <1>1, <1>3, <1>10, <1>11, <1>12 DEF Transport!Deliver, p
<1> QED
  BY Zenon, <1>11, <1>13 DEF Transport!TNext

\* The flit that wins the switch moves to a free VC of the next link.
LEMMA TransportGrant ==
  ASSUME StructInv, VcInv, Transport!OnePlace, NEW r \in Routers,
         NEW k \in 0 .. NumOut(r) - 1, arbitrate_outports(r, k)
  PROVE  Transport!TNext
<1> DEFINE o == OutPorts[r][k]
<1>1. PICK c \in Requesters(r, k) :
        \E w \in select_free_vc(o, VnetOf(winner[c])) : Grant(r, c, winner[c], o, w)
  BY Zenon DEF arbitrate_outports
<1>2. PICK w \in select_free_vc(o, VnetOf(winner[c])) :
        /\ vcs' = [vcs EXCEPT ![c][winner[c]] = Tail(@)]
        /\ outq' = [outq EXCEPT ![o] = Append(@, Departing(Head(vcs[c][winner[c]]), w))]
  BY Zenon, <1>1 DEF Grant
<1> DEFINE v == winner[c]
           f == Head(vcs[c][v])
           e == Departing(f, w)
           p == f.pkt
           s == <<c, v>>
           t == <<o, w>>
           h == [holds EXCEPT ![s] = {}, ![t] = {p}]
<1>3. TypeOK
  BY Zenon DEF StructInv
<1>4. c \in Channels /\ Dst[c] = r /\ v # -1 /\ f.out = o
  BY Zenon, LinkEnds DEF Requesters
<1>5. v \in VCs /\ vcs[c][v] # <<>> /\ vcs[c][v] \in Seq(Flit)
  BY Zenon, <1>3, <1>4 DEF StructInv, WinnerInv, TypeOK
<1>6. o \in Channels /\ Src[o] = r /\ c # o
  BY SMTT(30), <1>4, PortFacts, TopologyAssumption
<1>7. w \in VCs /\ VnetOf(w) = VnetOf(v) /\ outvc[o][w].state = "IDLE"
  BY Zenon DEF select_free_vc, IdleVcs
<1>8. f \in Flit /\ f = vcs[c][v][1] /\ 1 \in DOMAIN vcs[c][v]
  BY Zenon, <1>5, NonEmptySeq
<1>9. e \in Flit /\ e.vc = w /\ e.pkt = p /\ p \in Packets
  BY Zenon, <1>7, <1>8, DepartingFlit DEF Flit
<1>10. IsLocal(o) => Dst[o] = PktDst[p]
  <2>1. InPlace(vcs[c][v][1], c, v)
    BY Zenon, <1>4, <1>5, <1>8 DEF StructInv, FlitMatchesPlace
  <2>2. IsLocal(f.out) => Dst[f.out] = PktDst[p]
    BY Zenon, <1>8, <2>1 DEF InPlace
  <2> QED
    BY Zenon, <1>4, <2>2
<1>11. link' = link /\ stalled' = stalled /\ pending' = pending /\ delivered' = delivered
  BY Zenon DEF arbitrate_outports, niVars
<1> HIDE DEF v, e, p, o, f
<1>12. /\ ChanType(outvc[c], outq[c], link[c], vcstate[c], vcs[c], credq[c], credlink[c], Stalled(c))
       /\ ChanGood(outvc[c], outq[c], link[c], vcstate[c], vcs[c], credq[c], credlink[c], Stalled(c))
  BY Zenon, <1>3, <1>4, Typed DEF VcInv, ChanInv
<1>13. /\ CarriesIn(outq[c], link[c], vcs[c], Stalled(c), v, p)
       /\ Tail(vcs[c][v]) = <<>>
       /\ ~InSeq(outq[c], v) /\ ~InSeq(link[c], v) /\ ~InSet(Stalled(c), v)
  BY SMTT(30), <1>5, <1>12, CarryBuffered DEF p, f
<1>14. Carries(c, v, p)
  BY Zenon, <1>13 DEF Carries
<1>15. /\ s \in Slots /\ t \in Slots /\ s # t
       /\ p \in holds[s] /\ holds[s] = {p} /\ holds[t] = {}
  <2>1. s \in Slots /\ t \in Slots /\ p \in holds[s]
    BY Zenon, <1>4, <1>5, <1>6, <1>7, <1>9, <1>14, HoldsAt
  <2>2. holds[s] = {p}
    BY Zenon, <1>3, <1>4, <1>5, <1>9, <1>14, HoldsOne
  <2>3. holds[t] = {}
    BY Zenon, <1>3, <1>6, <1>7, HoldsOne
  <2> QED
    BY Zenon, <1>6, <2>1, <2>2, <2>3
<1>16. <<s, t>> \in Hops /\ t \in Lane[p]
  <2>1. VnetOf(v) = InjVnet(p)
    BY Zenon, <1>4, <1>5, <1>9, <1>15, LaneFacts DEF Transport!OnePlace
  <2> QED
    BY SMTT(30), <1>4, <1>5, <1>6, <1>7, <1>9, <1>10, <2>1, LaneFacts, HopFacts DEF IsLocal
<1>17. h \in [Slots -> SUBSET Packets]
  BY Zenon, <1>9, <1>15, HoldsAt
<1>18. ASSUME NEW d \in Channels, NEW u \in VCs, NEW q \in Packets
       PROVE  Carries(d, u, q)' <=> q \in h[<<d, u>>]
  <2>1. <<d, u>> \in Slots /\ holds \in [Slots -> SUBSET Packets]
        /\ (Carries(d, u, q) <=> q \in holds[<<d, u>>])
    BY Zenon, HoldsAt
  <2>2. Stalled(d)' = Stalled(d)
    BY Zenon, <1>11 DEF Stalled
  <2>3. outq[d] \in Seq(Flit) /\ (d = o => outq'[d] = Append(outq[d], e))
        /\ (d # o => outq'[d] = outq[d])
    BY Zenon, <1>2, <1>3, <1>6 DEF TypeOK, e, o, f, v
  <2>4. /\ d = c => vcs'[d] = [vcs[d] EXCEPT ![v] = Tail(@)]
        /\ d # c => vcs'[d] = vcs[d]
    BY Zenon, <1>2, <1>3, <1>4 DEF TypeOK, v
  <2>5. CASE d = c
    <3>1. q \in h[<<d, u>>] <=> Carries(d, u, q) /\ u # v
      <4>1. CASE u = v
        BY Zenon, <1>6, <1>15, <2>1, <2>5, <4>1
      <4>2. CASE u # v
        BY Zenon, <1>6, <1>15, <2>1, <2>5, <4>2
      <4> QED
        BY Zenon, <4>1, <4>2
    <3>2. CarriesIn(outq[c], link[c], [vcs[c] EXCEPT ![v] = Tail(@)], Stalled(c), u, q) <=>
            CarriesIn(outq[c], link[c], vcs[c], Stalled(c), u, q) /\ u # v
      <4>1. vcs[c] \in [VCs -> Seq(Flit)]
        BY Zenon, <1>3, <1>4 DEF TypeOK
      <4> QED
        BY Zenon, <1>5, <1>13, <4>1, CarryDepart
    <3>3. outq'[c] = outq[c] /\ link'[c] = link[c] /\ vcs'[c] = [vcs[c] EXCEPT ![v] = Tail(@)]
      BY Zenon, <1>6, <1>11, <2>3, <2>4, <2>5
    <3> QED
      BY Zenon, <2>2, <2>5, <3>1, <3>2, <3>3 DEF Carries
  <2>6. CASE d = o
    <3>1. q \in h[<<d, u>>] <=> Carries(d, u, q) \/ (u = w /\ q = p)
      <4>1. CASE u = w
        BY Zenon, <1>6, <1>15, <2>1, <2>6, <4>1
      <4>2. CASE u # w
        BY Zenon, <1>6, <1>15, <2>1, <2>6, <4>2
      <4> QED
        BY Zenon, <4>1, <4>2
    <3>2. CarriesIn(Append(outq[d], e), link[d], vcs[d], Stalled(d), u, q) <=>
            CarriesIn(outq[d], link[d], vcs[d], Stalled(d), u, q) \/ (u = e.vc /\ q = e.pkt)
      BY Zenon, <1>9, <2>3, CarrySend
    <3> QED
      <4>1. outq'[d] = Append(outq[d], e) /\ link'[d] = link[d] /\ vcs'[d] = vcs[d]
        BY Zenon, <1>6, <1>11, <2>3, <2>4, <2>6
      <4> QED
        BY Zenon, <1>9, <2>2, <3>1, <3>2, <4>1 DEF Carries
  <2>7. CASE d # c /\ d # o
    <3>1. q \in h[<<d, u>>] <=> Carries(d, u, q)
      BY Zenon, <1>15, <2>1, <2>7
    <3> QED
      BY Zenon, <1>11, <2>2, <2>3, <2>4, <2>7, <3>1 DEF Carries
  <2> QED
    BY Zenon, <2>5, <2>6, <2>7
<1>19. holds' = h
  BY Zenon, <1>17, <1>18, HoldsAfter
<1> HIDE DEF s, t
<1>20. Transport!Move(p, s, t)
  BY Zenon, <1>11, <1>15, <1>16, <1>19 DEF Transport!Move
<1> QED
  BY Zenon, <1>15, <1>20 DEF Transport!TNext

\* What the slots hold while flits are exchanged between buffers: the packet
\* of the flit in the buffer, and otherwise what they held.
LEMMA BufferedSlot ==
  ASSUME TypeOK, VcInv, NEW c \in Channels, NEW v \in VCs, NEW p, vcs[c][v] # <<>>
  PROVE  Carries(c, v, p) <=> p = Head(vcs[c][v]).pkt
<1>1. /\ ChanType(outvc[c], outq[c], link[c], vcstate[c], vcs[c], credq[c], credlink[c], Stalled(c))
      /\ ChanGood(outvc[c], outq[c], link[c], vcstate[c], vcs[c], credq[c], credlink[c], Stalled(c))
  BY Zenon, Typed DEF VcInv, ChanInv
<1>2. CarriesIn(outq[c], link[c], vcs[c], Stalled(c), v, p) <=> p = Head(vcs[c][v]).pkt
  BY SMTT(30), <1>1, CarryBuffered
<1> QED
  BY Zenon, <1>2 DEF Carries

LEMMA RebufferedSlot ==
  ASSUME StructInv, VcInv, SameShape(vcs'),
         outq' = outq, link' = link, stalled' = stalled,
         NEW c \in Channels, NEW v \in VCs, NEW p
  PROVE  IF vcs[c][v] = <<>> THEN Carries(c, v, p)' <=> Carries(c, v, p)
         ELSE /\ Carries(c, v, p)' <=> p = Head(vcs'[c][v]).pkt
              /\ Carries(c, v, p) <=> p = Head(vcs[c][v]).pkt
<1>1. TypeOK
  BY Zenon DEF StructInv
<1>2. /\ vcs' \in [Channels -> [VCs -> Seq(Flit)]]
      /\ vcs'[c][v] # <<>> <=> vcs[c][v] # <<>>
      /\ Len(vcs'[c][v]) = Len(vcs[c][v])
  BY Zenon DEF SameShape
<1>3. Stalled(c)' = Stalled(c)
  BY Zenon DEF Stalled
<1>4. CASE vcs[c][v] = <<>>
  BY Zenon, <1>2, <1>3, <1>4 DEF Carries, CarriesIn
<1>5. CASE vcs[c][v] # <<>>
  <2>1. /\ ChanType(outvc[c], outq[c], link[c], vcstate[c], vcs[c], credq[c], credlink[c], Stalled(c))
        /\ ChanGood(outvc[c], outq[c], link[c], vcstate[c], vcs[c], credq[c], credlink[c], Stalled(c))
    BY Zenon, <1>1, Typed DEF VcInv, ChanInv
  <2>2. ChanType(outvc[c], outq[c], link[c], vcstate[c], vcs'[c], credq[c], credlink[c], Stalled(c))
    BY Zenon, <1>2, <2>1 DEF ChanType
  <2>3. \A u \in VCs : (vcs'[c][u] = <<>> <=> vcs[c][u] = <<>>) /\ Len(vcs'[c][u]) = Len(vcs[c][u])
    BY Zenon DEF SameShape
  <2>4. ChanGood(outvc[c], outq[c], link[c], vcstate[c], vcs'[c], credq[c], credlink[c], Stalled(c))
    BY Zenon, <2>1, <2>3, ChanSwap
  <2>5. CarriesIn(outq[c], link[c], vcs'[c], Stalled(c), v, p) <=> p = Head(vcs'[c][v]).pkt
    <3> DEFINE vcc == vcs'[c]
    <3>1. /\ ChanType(outvc[c], outq[c], link[c], vcstate[c], vcc, credq[c], credlink[c], Stalled(c))
          /\ ChanGood(outvc[c], outq[c], link[c], vcstate[c], vcc, credq[c], credlink[c], Stalled(c))
          /\ vcc[v] # <<>>
      BY Zenon, <1>2, <1>5, <2>2, <2>4
    <3> HIDE DEF vcc
    <3>2. CarriesIn(outq[c], link[c], vcc, Stalled(c), v, p) <=> p = Head(vcc[v]).pkt
      BY SMTT(30), <3>1, CarryBuffered
    <3> QED
      BY Zenon, <3>2 DEF vcc
  <2>6. Carries(c, v, p) <=> p = Head(vcs[c][v]).pkt
    BY Zenon, <1>1, <1>5, BufferedSlot
  <2> QED
    BY Zenon, <1>3, <1>5, <2>5, <2>6 DEF Carries
<1> QED
  BY Zenon, <1>4, <1>5

\* The packets of the flits that doSwap exchanges change places; a swap that
\* is not made, and bail_out, leave every packet where it is.
LEMMA TransportSwap ==
  ASSUME StructInv, VcInv, Transport!OnePlace, NEW r \in Routers, wakeup_swap(r)
  PROVE  Transport!TNext \/ holds' = holds
<1>1. TypeOK
  BY Zenon DEF StructInv
<1>2. PICK c \in Channels, v \in VCs, R \in SUBSET Routers : SwapTried(r, c, v, R)
  BY Zenon, SwapAttempt
<1> DEFINE o   == Head(vcs[c][v]).out
           buf == ClearRouted(R)
           sw  == ClearIsSwap(R)
<1>3. /\ Dst[c] = r /\ vcs[c][v] # <<>>
      /\ o \in Channels /\ Src[o] = r /\ Dst[o] \in Routers
      /\ \/ downstreamFlit(o, v, buf, sw) /\ exchange(r, c, v, buf, sw)
         \/ vcs' = buf /\ is_swap' = sw
  BY Zenon, <1>2 DEF SwapTried
<1>4. /\ SameShape(buf)
      /\ \A d \in Channels, u \in VCs : vcs[d][u] # <<>> =>
           Head(buf[d][u]).pkt = Head(vcs[d][u]).pkt /\ Head(buf[d][u]).out = Head(vcs[d][u]).out
  BY ClearedShape DEF ClearedHead
<1>5. SameShape(vcs')
  BY Zenon, SwapFacts
<1>6. outq' = outq /\ link' = link /\ stalled' = stalled /\ pending' = pending /\ delivered' = delivered
  BY Zenon DEF wakeup_swap, BeginWakeup, upVars, niVars
<1> HIDE DEF o, buf, sw
<1>7. \A d \in Channels, u \in VCs : \A p :
        IF vcs[d][u] = <<>> THEN Carries(d, u, p)' <=> Carries(d, u, p)
        ELSE /\ Carries(d, u, p)' <=> p = Head(vcs'[d][u]).pkt
             /\ Carries(d, u, p) <=> p = Head(vcs[d][u]).pkt
  BY Zenon, <1>5, <1>6, RebufferedSlot
<1>8. CASE vcs' = buf
  <2>1. \A d \in Channels, u \in VCs, p \in Packets : Carries(d, u, p)' <=> Carries(d, u, p)
    BY <1>4, <1>7, <1>8
  <2> QED
    BY Zenon, <2>1, HoldsSame
<1>9. CASE downstreamFlit(o, v, buf, sw) /\ exchange(r, c, v, buf, sw)
  <2> DEFINE p == Head(vcs[c][v]).pkt
             q == Head(vcs[o][v]).pkt
             s == <<c, v>>
             t == <<o, v>>
             h == [holds EXCEPT ![s] = {q}, ![t] = {p}]
  <2>1. Head(buf[c][v]).out = o /\ buf[c][v] # <<>>
    BY Zenon, <1>3, <1>4 DEF o, SameShape
  <2>2. buf[o][v] # <<>> /\ vcs[o][v] # <<>>
    BY Zenon, <1>3, <1>4, <1>9 DEF downstreamFlit, SameShape
  <2>3. ExchangedHeads(buf, c, Head(buf[c][v]).out, v)
    BY Zenon, <1>3, <1>4, <1>9, <2>1, <2>2, ExchangedShape
  <2>4. /\ Head(vcs'[o][v]).pkt = p /\ Head(vcs'[c][v]).pkt = q
        /\ \A d \in Channels, u \in VCs : ~(u = v /\ d \in {c, o}) => vcs'[d][u] = buf[d][u]
    BY Zenon, <1>3, <1>4, <2>1, <2>2, <2>3 DEF ExchangedHeads
  <2>5. p \in Packets /\ q \in Packets /\ c # o
    <3>1. Head(vcs[c][v]) \in Flit /\ Head(vcs[o][v]) \in Flit
      BY SMTT(30), <1>1, <1>3, <2>2, NonEmptySeq DEF TypeOK
    <3> QED
      BY SMTT(30), <1>3, <3>1, TopologyAssumption DEF Flit
  <2>6. Carries(c, v, p) /\ Carries(o, v, q)
    BY Zenon, <1>3, <1>7, <2>2
  <2> HIDE DEF p, q
  <2>7. /\ s \in Slots /\ t \in Slots /\ s # t
        /\ p \in holds[s] /\ holds[s] = {p} /\ q \in holds[t] /\ holds[t] = {q}
    <3>1. s \in Slots /\ t \in Slots /\ p \in holds[s] /\ q \in holds[t]
      BY Zenon, <1>3, <2>5, <2>6, HoldsAt
    <3>2. holds[s] = {p} /\ holds[t] = {q}
      BY Zenon, <1>1, <1>3, <2>5, <2>6, HoldsOne
    <3> QED
      BY Zenon, <2>5, <3>1, <3>2
  <2>8. <<s, t>> \in Hops /\ t \in Lane[p] /\ s \in Lane[q]
    <3>1. s \in Lane[p] /\ t \in Lane[q]
      BY Zenon, <2>7 DEF Transport!OnePlace
    <3>2. VnetOf(v) = InjVnet(p) /\ VnetOf(v) = InjVnet(q)
      BY SMTT(30), <1>3, <2>5, <3>1, LaneFacts
    <3>3. <<s, t>> \in Hops
      BY Zenon, <1>3, HopFacts
    <3>4. Dst[o] \notin Nodes /\ Dst[c] \notin Nodes
      BY SMTT(30), <1>3, LinkEnds
    <3>5. t \in Lane[p] /\ s \in Lane[q]
      BY Zenon, <1>3, <2>5, <3>2, <3>4, LaneFacts
    <3> QED
      BY Zenon, <3>3, <3>5
  <2>9. h \in [Slots -> SUBSET Packets]
    BY Zenon, <2>5, <2>7, HoldsAt
  <2>10. ASSUME NEW d \in Channels, NEW u \in VCs, NEW x \in Packets
         PROVE  Carries(d, u, x)' <=> x \in h[<<d, u>>]
    <3>1. <<d, u>> \in Slots /\ holds \in [Slots -> SUBSET Packets]
          /\ (Carries(d, u, x) <=> x \in holds[<<d, u>>])
      BY Zenon, HoldsAt
    <3>2. CASE d = c /\ u = v
      <4>1. h[<<d, u>>] = {q}
        BY Zenon, <2>7, <3>1, <3>2
      <4>2. Carries(d, u, x)' <=> x = Head(vcs'[d][u]).pkt
        BY Zenon, <1>3, <1>7, <3>2
      <4> QED
        BY Zenon, <2>4, <3>2, <4>1, <4>2
    <3>3. CASE d = o /\ u = v
      <4>1. h[<<d, u>>] = {p}
        BY Zenon, <2>7, <3>1, <3>3
      <4>2. Carries(d, u, x)' <=> x = Head(vcs'[d][u]).pkt
        BY <1>7, <2>2, <3>3
      <4> QED
        BY Zenon, <2>4, <3>3, <4>1, <4>2
    <3>4. CASE ~(u = v /\ d \in {c, o})
      <4>1. h[<<d, u>>] = holds[<<d, u>>]
        BY Zenon, <2>7, <3>1, <3>4
      <4>2. Carries(d, u, x)' <=> Carries(d, u, x)
        BY SMTT(30), <1>4, <1>7, <2>4, <3>4
      <4> QED
        BY Zenon, <3>1, <4>1, <4>2
    <3> QED
      BY Zenon, <3>2, <3>3, <3>4
  <2>11. holds' = h
    BY Zenon, <2>9, <2>10, HoldsAfter
  <2> HIDE DEF s, t
  <2>12. Transport!Exchange(p, q, s, t)
    BY Zenon, <1>6, <2>7, <2>8, <2>11 DEF Transport!Exchange
  <2> QED
    BY Zenon, <2>7, <2>12 DEF Transport!TNext
<1> QED
  BY Zenon, <1>3, <1>8, <1>9

LEMMA TransportStep ==
  StructInv /\ VcInv /\ Transport!OnePlace /\ [Next]_vars => [Transport!TNext]_(Transport!tvars)
<1> SUFFICES ASSUME StructInv, VcInv, Transport!OnePlace, [Next]_vars
             PROVE  Transport!TNext \/ (holds' = holds /\ pending' = pending /\ delivered' = delivered)
  BY Zenon DEF Transport!tvars
<1>1. TypeOK
  BY Zenon DEF StructInv
<1>2. ASSUME NEW r \in Routers, RouterNext(r)
      PROVE  Transport!TNext \/ (holds' = holds /\ pending' = pending /\ delivered' = delivered)
  <2>1. CASE \E turn \in BOOLEAN : wakeup_noSwap(r, turn)
    BY Zenon, <2>1, CarryFrame DEF wakeup_noSwap, BeginWakeup, upVars, niVars
  <2>2. CASE wakeup_declined(r)
    BY Zenon, <2>2, CarryFrame DEF wakeup_declined, BeginWakeup, upVars, niVars
  <2>3. CASE wakeup_swap(r)
    BY Zenon, <2>3, TransportSwap DEF wakeup_swap, BeginWakeup, niVars
  <2>4. CASE Units(r)
    BY Zenon, <1>1, <2>4, HoldsUnits DEF Units, niVars
  <2>5. CASE arbitrate_inports(r)
    BY Zenon, <2>5, CarryFrame DEF arbitrate_inports, upVars, downVars, niVars
  <2>6. CASE \E k \in 0 .. NumOut(r) - 1 : arbitrate_outports(r, k)
    BY Zenon, <2>6, TransportGrant
  <2>7. CASE clear_request_vector(r)
    BY Zenon, <2>7, CarryFrame DEF clear_request_vector, upVars, downVars, niVars
  <2> QED
    BY Zenon, <1>2, <2>1, <2>2, <2>3, <2>4, <2>5, <2>6, <2>7 DEF RouterNext
<1>3. CASE LinkNext
  <2>1. PICK S, T : NetworkLink_wakeup(S, T)
    BY Zenon, <1>3 DEF LinkNext
  <2> QED
    BY Zenon, <1>1, <2>1, HoldsLink DEF NetworkLink_wakeup, niVars
<1>4. ASSUME NEW n \in Nodes, NodeNext(n)
      PROVE  Transport!TNext \/ (holds' = holds /\ pending' = pending /\ delivered' = delivered)
  <2>1. CASE NI_send(n)
    BY Zenon, <1>1, <2>1, TransportSend
  <2>2. CASE NI_receive(n)
    BY Zenon, <1>1, <2>2, TransportReceive
  <2>3. CASE NI_stall(n)
    BY Zenon, <1>1, <2>3, HoldsStall DEF NI_stall
  <2>4. CASE checkStallQueue(n)
    BY Zenon, <1>1, <2>4, TransportUnstall
  <2>5. CASE NI_credit(n)
    BY Zenon, <2>5, CarryFrame DEF NI_credit, downVars, niVars
  <2> QED
    BY Zenon, <1>4, <2>1, <2>2, <2>3, <2>4, <2>5 DEF NodeNext
<1>5. CASE UNCHANGED vars
  BY Zenon, <1>5, CarryFrame DEF vars, upVars, downVars, niVars
<1> QED
  BY Zenon, <1>2, <1>3, <1>4, <1>5 DEF Next

-----------------------------------------------------------------------------
(* PacketTransport keeps every packet in one place.                        *)

LEMMA OnePlaceInit == Init => Transport!TInit /\ Transport!OnePlace
<1> SUFFICES ASSUME Init PROVE Transport!TInit /\ Transport!OnePlace
  BY Zenon
<1>1. holds = [s \in Slots |-> {}]
  <2>1. \A c \in Channels, v \in VCs, p \in Packets : ~Carries(c, v, p)
    BY SMTT(30) DEF Init, Carries, CarriesIn, Stalled, PktIn, PktBuffered, PktStalled
  <2>2. \A s \in Slots : holds[s] = {}
    BY Zenon, <2>1, HoldsAt
  <2>3. holds = [s \in Slots |-> holds[s]]
    BY Zenon, HoldsAt
  <2> QED
    BY Zenon, <2>2, <2>3
<1>2. pending = Packets /\ delivered = {}
  BY Zenon DEF Init
<1>3. \A s \in Slots : holds[s] = {}
  BY Zenon, <1>1
<1> QED
  BY Zenon, <1>1, <1>2, <1>3 DEF Transport!TInit, Transport!OnePlace

LEMMA OnePlaceStep ==
  ASSUME TypeOK, Transport!OnePlace, Transport!TNext
  PROVE  Transport!OnePlace'
<1>1. holds \in [Slots -> SUBSET Packets] /\ pending \subseteq Packets /\ delivered \subseteq Packets
  BY Zenon, HoldsAt DEF TypeOK
<1>2. /\ \A s \in Slots : \A p \in holds[s] : s \in Lane[p] /\ p \notin pending \cup delivered
      /\ \A s, t \in Slots : \A p \in holds[s] \cap holds[t] : s = t
      /\ \A p \in Packets : p \in pending \cup delivered \/ \E s \in Slots : p \in holds[s]
      /\ pending \cap delivered = {}
  BY Zenon DEF Transport!OnePlace
<1> DEFINE Goal(h, pd, dl) ==
      /\ \A s \in Slots : \A p \in h[s] : s \in Lane[p] /\ p \notin pd \cup dl
      /\ \A s, t \in Slots : \A p \in h[s] \cap h[t] : s = t
      /\ \A p \in Packets : p \in pd \cup dl \/ \E s \in Slots : p \in h[s]
      /\ pd \cap dl = {}
<1>3. SUFFICES Goal(holds', pending', delivered')
  BY Zenon DEF Transport!OnePlace
<1> HIDE DEF Goal
<1>4. ASSUME NEW s \in Slots, NEW p \in pending, Transport!Send(p, s)
      PROVE  Goal(holds', pending', delivered')
  <2>1. /\ holds[s] = {} /\ s \in Lane[p]
        /\ holds' = [holds EXCEPT ![s] = {p}]
        /\ pending' = pending \ {p} /\ delivered' = delivered
    BY Zenon, <1>4 DEF Transport!Send
  <2>2. \A t \in Slots : holds'[t] = IF t = s THEN {p} ELSE holds[t]
    BY Zenon, <1>1, <2>1
  <2> QED
    BY <1>1, <1>2, <2>1, <2>2 DEF Goal
<1>5. ASSUME NEW s \in Slots, NEW p \in holds[s], Transport!Deliver(p, s)
      PROVE  Goal(holds', pending', delivered')
  <2>1. /\ holds[s] = {p}
        /\ holds' = [holds EXCEPT ![s] = {}]
        /\ pending' = pending /\ delivered' = delivered \cup {p}
    BY Zenon, <1>5 DEF Transport!Deliver
  <2>2. \A t \in Slots : holds'[t] = IF t = s THEN {} ELSE holds[t]
    BY Zenon, <1>1, <2>1
  <2> QED
    BY <1>1, <1>2, <2>1, <2>2 DEF Goal
<1>6. ASSUME NEW s \in Slots, NEW p \in holds[s], NEW t \in Slots, Transport!Move(p, s, t)
      PROVE  Goal(holds', pending', delivered')
  <2>1. /\ holds[s] = {p} /\ holds[t] = {} /\ t \in Lane[p]
        /\ holds' = [holds EXCEPT ![s] = {}, ![t] = {p}]
        /\ pending' = pending /\ delivered' = delivered
    BY Zenon, <1>6 DEF Transport!Move
  <2>2. \A u \in Slots : holds'[u] = IF u = t THEN {p} ELSE IF u = s THEN {} ELSE holds[u]
    BY Zenon, <1>1, <2>1
  <2> QED
    BY SMTT(30), <1>1, <1>2, <2>1, <2>2 DEF Goal
<1>7. ASSUME NEW s \in Slots, NEW p \in holds[s], NEW t \in Slots, NEW q \in holds[t],
             Transport!Exchange(p, q, s, t)
      PROVE  Goal(holds', pending', delivered')
  <2>1. /\ holds[s] = {p} /\ holds[t] = {q} /\ t \in Lane[p] /\ s \in Lane[q]
        /\ holds' = [holds EXCEPT ![s] = {q}, ![t] = {p}]
        /\ pending' = pending /\ delivered' = delivered
    BY Zenon, <1>7 DEF Transport!Exchange
  <2>2. \A u \in Slots : holds'[u] = IF u = t THEN {p} ELSE IF u = s THEN {q} ELSE holds[u]
    BY Zenon, <1>1, <2>1
  <2> QED
    BY SMTT(30), <1>1, <1>2, <2>1, <2>2 DEF Goal
<1> QED
  BY Zenon, <1>4, <1>5, <1>6, <1>7 DEF Transport!TNext

\* The network transports packets: from every step to a step of the abstract
\* specification or a stutter, with every packet in one place.
PacketInv == StructInv /\ VcInv /\ Transport!OnePlace

LEMMA PacketStep == PacketInv /\ [Next]_vars => PacketInv'
<1> SUFFICES ASSUME PacketInv, [Next]_vars PROVE PacketInv'
  BY Zenon
<1>1. StructInv /\ VcInv /\ Transport!OnePlace /\ TypeOK
  BY Zenon DEF PacketInv, StructInv
<1>2. StructInv' /\ VcInv'
  BY Zenon, <1>1, StructStep, VcStep
<1>3. Transport!TNext \/ (holds' = holds /\ pending' = pending /\ delivered' = delivered)
  BY Zenon, <1>1, TransportStep DEF Transport!tvars
<1>4. Transport!OnePlace'
  <2>1. CASE Transport!TNext
    BY Zenon, <1>1, <2>1, OnePlaceStep
  <2>2. CASE holds' = holds /\ pending' = pending /\ delivered' = delivered
    BY Zenon, <1>1, <2>2 DEF Transport!OnePlace
  <2> QED
    BY Zenon, <1>3, <2>1, <2>2
<1> QED
  BY Zenon, <1>2, <1>4 DEF PacketInv

LEMMA PacketSpec == Spec => []PacketInv
<1>1. Init => PacketInv
  BY Zenon, StructInit, VcInit, OnePlaceInit DEF PacketInv
<1> QED
  BY <1>1, PacketStep, PTL DEF Spec

\* Seen from the packets, the routers, links and interfaces only
\* take a packet in at its source, move it one hop to a free VC, exchange two
\* packets across a link, or hand a packet over at its destination; whatever
\* else they do moves no packet.
THEOREM TransportCorrect == Spec => TransportsPackets
<1>1. Init => Transport!TInit
  BY Zenon, OnePlaceInit
<1>2. PacketInv /\ [Next]_vars => [Transport!TNext]_(Transport!tvars)
  BY Zenon, TransportStep DEF PacketInv
<1> QED
  BY <1>1, <1>2, PacketSpec, PTL DEF Spec, TransportsPackets, Transport!TSpec

-----------------------------------------------------------------------------
(* What the places of packets say of the flits.                            *)

LEMMA CarriedInLane ==
  ASSUME PacketInv, NEW c \in Channels, NEW v \in VCs, NEW p \in Packets, Carries(c, v, p)
  PROVE  VnetOf(v) = InjVnet(p) /\ p \notin pending \cup delivered
<1>1. <<c, v>> \in Slots /\ p \in holds[<<c, v>>]
  BY Zenon, HoldsAt
<1>2. <<c, v>> \in Lane[p] /\ p \notin pending \cup delivered
  BY Zenon, <1>1 DEF PacketInv, Transport!OnePlace
<1> QED
  BY Zenon, <1>2, LaneFacts

\* Whatever VCs a packet passes or is swapped into, it stays in the
\* virtual network on which its interface injected it.
THEOREM VnetCorrect == Spec => []FlitKeepsVnet
<1>1. PacketInv => FlitKeepsVnet
  <2> SUFFICES ASSUME PacketInv, NEW c \in Channels PROVE
        /\ \A i \in DOMAIN outq[c] : InVnet(outq[c][i])
        /\ \A i \in DOMAIN link[c] : InVnet(link[c][i])
        /\ \A v \in VCs : \A i \in DOMAIN vcs[c][v] : InVnet(vcs[c][v][i])
    BY Zenon DEF FlitKeepsVnet
  <2>1. TypeOK /\ FlitMatchesPlace
    BY Zenon DEF PacketInv, StructInv
  <2>2. ASSUME NEW f \in Flit, Carries(c, f.vc, f.pkt) PROVE InVnet(f)
    BY Zenon, <2>2, CarriedInLane DEF InVnet, Flit
  <2>3. ASSUME NEW i \in DOMAIN outq[c] PROVE InVnet(outq[c][i])
    <3>1. outq[c][i] \in Flit
      BY <2>1 DEF TypeOK
    <3>2. Carries(c, outq[c][i].vc, outq[c][i].pkt)
      BY Zenon DEF Carries, CarriesIn, PktIn
    <3> QED
      BY Zenon, <2>2, <3>1, <3>2
  <2>4. ASSUME NEW i \in DOMAIN link[c] PROVE InVnet(link[c][i])
    <3>1. link[c][i] \in Flit
      BY <2>1 DEF TypeOK
    <3>2. Carries(c, link[c][i].vc, link[c][i].pkt)
      BY Zenon DEF Carries, CarriesIn, PktIn
    <3> QED
      BY Zenon, <2>2, <3>1, <3>2
  <2>5. ASSUME NEW v \in VCs, NEW i \in DOMAIN vcs[c][v] PROVE InVnet(vcs[c][v][i])
    <3>1. vcs[c][v][i] \in Flit /\ vcs[c][v][i].vc = v
      BY SMTT(30), <2>1 DEF TypeOK, FlitMatchesPlace, InPlace
    <3>2. Carries(c, v, vcs[c][v][i].pkt)
      BY Zenon DEF Carries, CarriesIn, PktBuffered
    <3> QED
      BY Zenon, <2>2, <3>1, <3>2
  <2> QED
    BY Zenon, <2>3, <2>4, <2>5
<1> QED
  BY <1>1, PacketSpec, PTL

\* Site x of a flit belongs to VC v of channel c.
SiteOf(x, c, v) ==
  \/ \E i \in DOMAIN outq[c] : x = <<"outq", c, i, outq[c][i].pkt>> /\ outq[c][i].vc = v
  \/ \E i \in DOMAIN link[c] : x = <<"link", c, i, link[c][i].pkt>> /\ link[c][i].vc = v
  \/ \E i \in DOMAIN vcs[c][v] : x = <<"vc", c, <<v, i>>, vcs[c][v][i].pkt>>
  \/ Dst[c] \in Nodes /\ \E f \in stalled[Dst[c]] : x = <<"stalled", Dst[c], f, f.pkt>> /\ f.vc = v

LEMMA SiteKinds ==
  ASSUME NEW x
  PROVE  x \in Sites <=>
           \/ \E c \in Channels : \E i \in DOMAIN outq[c] : x = <<"outq", c, i, outq[c][i].pkt>>
           \/ \E c \in Channels : \E i \in DOMAIN link[c] : x = <<"link", c, i, link[c][i].pkt>>
           \/ \E c \in Channels, v \in VCs : \E i \in DOMAIN vcs[c][v] :
                x = <<"vc", c, <<v, i>>, vcs[c][v][i].pkt>>
           \/ \E n \in Nodes : \E f \in stalled[n] : x = <<"stalled", n, f, f.pkt>>
<1> DEFINE Oc(c) == {<<"outq", c, i, outq[c][i].pkt>> : i \in DOMAIN outq[c]}
           Lc(c) == {<<"link", c, i, link[c][i].pkt>> : i \in DOMAIN link[c]}
           Vc(c, v) == {<<"vc", c, <<v, i>>, vcs[c][v][i].pkt>> : i \in DOMAIN vcs[c][v]}
           Tn(n) == {<<"stalled", n, f, f.pkt>> : f \in stalled[n]}
           O == UNION {Oc(c) : c \in Channels}
           L == UNION {Lc(c) : c \in Channels}
           V == UNION {Vc(c, v) : c \in Channels, v \in VCs}
           T == UNION {Tn(n) : n \in Nodes}
<1>1. x \in O <=> \E c \in Channels : \E i \in DOMAIN outq[c] : x = <<"outq", c, i, outq[c][i].pkt>>
  <2>1. \A c : x \in Oc(c) <=> \E i \in DOMAIN outq[c] : x = <<"outq", c, i, outq[c][i].pkt>>
    BY Zenon
  <2> HIDE DEF Oc
  <2> QED
    BY Zenon, <2>1
<1>2. x \in L <=> \E c \in Channels : \E i \in DOMAIN link[c] : x = <<"link", c, i, link[c][i].pkt>>
  <2>1. \A c : x \in Lc(c) <=> \E i \in DOMAIN link[c] : x = <<"link", c, i, link[c][i].pkt>>
    BY Zenon
  <2> HIDE DEF Lc
  <2> QED
    BY Zenon, <2>1
<1>3. x \in V <=> \E c \in Channels, v \in VCs : \E i \in DOMAIN vcs[c][v] :
                    x = <<"vc", c, <<v, i>>, vcs[c][v][i].pkt>>
  <2>1. \A c, v : x \in Vc(c, v) <=> \E i \in DOMAIN vcs[c][v] : x = <<"vc", c, <<v, i>>, vcs[c][v][i].pkt>>
    BY Zenon
  <2> HIDE DEF Vc
  <2> QED
    BY <2>1
<1>4. x \in T <=> \E n \in Nodes : \E f \in stalled[n] : x = <<"stalled", n, f, f.pkt>>
  <2>1. \A n : x \in Tn(n) <=> \E f \in stalled[n] : x = <<"stalled", n, f, f.pkt>>
    BY Zenon
  <2> HIDE DEF Tn
  <2> QED
    BY Zenon, <2>1
<1>5. Sites = O \cup L \cup V \cup T
  BY DEF Sites
<1> HIDE DEF O, L, V, T
<1> QED
  BY Zenon, <1>1, <1>2, <1>3, <1>4, <1>5

LEMMA SiteHasVc ==
  ASSUME TypeOK, NEW x \in Sites
  PROVE  \E c \in Channels, v \in VCs : SiteOf(x, c, v)
<1>1. CASE \E c \in Channels : \E i \in DOMAIN outq[c] : x = <<"outq", c, i, outq[c][i].pkt>>
  <2>0. PICK c \in Channels : \E i \in DOMAIN outq[c] : x = <<"outq", c, i, outq[c][i].pkt>>
    BY Zenon, <1>1
  <2>1. PICK i \in DOMAIN outq[c] : x = <<"outq", c, i, outq[c][i].pkt>>
    BY Zenon, <2>0
  <2>2. outq[c][i].vc \in VCs
    <3>1. outq[c] \in Seq(Flit)
      BY Zenon DEF TypeOK
    <3>2. outq[c][i] \in Flit
      BY <3>1
    <3> QED
      BY Zenon, <3>2 DEF Flit
  <2> QED
    BY Zenon, <2>1, <2>2 DEF SiteOf
<1>2. CASE \E c \in Channels : \E i \in DOMAIN link[c] : x = <<"link", c, i, link[c][i].pkt>>
  <2>0. PICK c \in Channels : \E i \in DOMAIN link[c] : x = <<"link", c, i, link[c][i].pkt>>
    BY Zenon, <1>2
  <2>1. PICK i \in DOMAIN link[c] : x = <<"link", c, i, link[c][i].pkt>>
    BY Zenon, <2>0
  <2>2. link[c][i].vc \in VCs
    <3>1. link[c] \in Seq(Flit)
      BY Zenon DEF TypeOK
    <3>2. link[c][i] \in Flit
      BY <3>1
    <3> QED
      BY Zenon, <3>2 DEF Flit
  <2> QED
    BY Zenon, <2>1, <2>2 DEF SiteOf
<1>3. CASE \E c \in Channels, v \in VCs : \E i \in DOMAIN vcs[c][v] :
             x = <<"vc", c, <<v, i>>, vcs[c][v][i].pkt>>
  BY Zenon, <1>3 DEF SiteOf
<1>4. CASE \E n \in Nodes : \E f \in stalled[n] : x = <<"stalled", n, f, f.pkt>>
  <2>0. PICK n \in Nodes : \E f \in stalled[n] : x = <<"stalled", n, f, f.pkt>>
    BY Zenon, <1>4
  <2>1. PICK f \in stalled[n] : x = <<"stalled", n, f, f.pkt>>
    BY Zenon, <2>0
  <2>2. PICK c \in Channels : Dst[c] = n
    BY Zenon, TopologyAssumption
  <2>3. f.vc \in VCs
    BY DEF TypeOK, Flit
  <2> QED
    BY Zenon, <2>1, <2>2, <2>3 DEF SiteOf
<1> QED
  BY Zenon, <1>1, <1>2, <1>3, <1>4, SiteKinds

LEMMA SiteCarries ==
  ASSUME NEW c \in Channels, NEW v \in VCs, NEW x, SiteOf(x, c, v)
  PROVE  Carries(c, v, x[4])
<1>1. CASE \E i \in DOMAIN outq[c] : x = <<"outq", c, i, outq[c][i].pkt>> /\ outq[c][i].vc = v
  BY SMTT(30), <1>1 DEF Carries, CarriesIn, PktIn
<1>2. CASE \E i \in DOMAIN link[c] : x = <<"link", c, i, link[c][i].pkt>> /\ link[c][i].vc = v
  BY SMTT(30), <1>2 DEF Carries, CarriesIn, PktIn
<1>3. CASE \E i \in DOMAIN vcs[c][v] : x = <<"vc", c, <<v, i>>, vcs[c][v][i].pkt>>
  BY SMTT(30), <1>3 DEF Carries, CarriesIn, PktBuffered
<1>4. CASE Dst[c] \in Nodes /\ \E f \in stalled[Dst[c]] :
             x = <<"stalled", Dst[c], f, f.pkt>> /\ f.vc = v
  BY SMTT(30), <1>4 DEF Carries, CarriesIn, PktStalled, Stalled
<1> QED
  BY Zenon, <1>1, <1>2, <1>3, <1>4 DEF SiteOf

LEMMA CarriedAtSite ==
  ASSUME NEW c \in Channels, NEW v \in VCs, NEW p, Carries(c, v, p)
  PROVE  \E x \in Sites : x[4] = p
<1>1. CASE PktIn(outq[c], v, p)
  <2>1. PICK i \in DOMAIN outq[c] : outq[c][i].pkt = p
    BY Zenon, <1>1 DEF PktIn
  <2>2. <<"outq", c, i, outq[c][i].pkt>> \in Sites
    BY Zenon, SiteKinds
  <2> QED
    BY Zenon, <2>1, <2>2
<1>2. CASE PktIn(link[c], v, p)
  <2>1. PICK i \in DOMAIN link[c] : link[c][i].pkt = p
    BY Zenon, <1>2 DEF PktIn
  <2>2. <<"link", c, i, link[c][i].pkt>> \in Sites
    BY Zenon, SiteKinds
  <2> QED
    BY Zenon, <2>1, <2>2
<1>3. CASE PktBuffered(vcs[c][v], p)
  <2>1. PICK i \in DOMAIN vcs[c][v] : vcs[c][v][i].pkt = p
    BY Zenon, <1>3 DEF PktBuffered
  <2>2. <<"vc", c, <<v, i>>, vcs[c][v][i].pkt>> \in Sites
    BY Zenon, SiteKinds
  <2> QED
    BY Zenon, <2>1, <2>2
<1>4. CASE PktStalled(Stalled(c), v, p)
  <2>1. PICK f \in Stalled(c) : f.pkt = p
    BY Zenon, <1>4 DEF PktStalled
  <2>2. Dst[c] \in Nodes /\ f \in stalled[Dst[c]]
    BY Zenon DEF Stalled
  <2>3. <<"stalled", Dst[c], f, f.pkt>> \in Sites
    BY Zenon, <2>2, SiteKinds
  <2> QED
    BY Zenon, <2>1, <2>3
<1> QED
  BY Zenon, <1>1, <1>2, <1>3, <1>4 DEF Carries, CarriesIn

\* A VC is in one hand, so that its flit is at one site.
LEMMA OneSite ==
  ASSUME TypeOK, VcInv, NEW c \in Channels, NEW v \in VCs, NEW x, NEW y,
         SiteOf(x, c, v), SiteOf(y, c, v)
  PROVE  x = y
<1>1. /\ ChanType(outvc[c], outq[c], link[c], vcstate[c], vcs[c], credq[c], credlink[c], Stalled(c))
      /\ ChanGood(outvc[c], outq[c], link[c], vcstate[c], vcs[c], credq[c], credlink[c], Stalled(c))
  BY Zenon, Typed DEF VcInv, ChanInv
<1>2. /\ OneOf(outvc[c][v].state = "IDLE", InSeq(outq[c], v), InSeq(link[c], v), vcs[c][v] # <<>>,
               InSet(Stalled(c), v), InSeq(credq[c], v), InSeq(credlink[c], v))
      /\ Len(vcs[c][v]) <= 1 /\ vcs[c][v] \in Seq(Flit)
      /\ DistinctVcs(outq[c]) /\ DistinctVcs(link[c]) /\ DistinctIn(Stalled(c))
  BY Zenon, <1>1 DEF ChanGood, VcGood, ChanType
<1> DEFINE InOutq(z) == \E i \in DOMAIN outq[c] : z = <<"outq", c, i, outq[c][i].pkt>> /\ outq[c][i].vc = v
           InLink(z) == \E i \in DOMAIN link[c] : z = <<"link", c, i, link[c][i].pkt>> /\ link[c][i].vc = v
           InVc(z) == \E i \in DOMAIN vcs[c][v] : z = <<"vc", c, <<v, i>>, vcs[c][v][i].pkt>>
           InStall(z) == /\ Dst[c] \in Nodes
                         /\ \E f \in stalled[Dst[c]] : z = <<"stalled", Dst[c], f, f.pkt>> /\ f.vc = v
<1>3. \A z : /\ InOutq(z) => InSeq(outq[c], v)
             /\ InLink(z) => InSeq(link[c], v)
             /\ InVc(z) => vcs[c][v] # <<>>
             /\ InStall(z) => InSet(Stalled(c), v)
  BY SMTT(30) DEF InSeq, InSet, Stalled
<1>4. InOutq(x) /\ InOutq(y) => x = y
  BY Zenon, <1>2 DEF DistinctVcs
<1>5. InLink(x) /\ InLink(y) => x = y
  BY Zenon, <1>2 DEF DistinctVcs
<1>6. InVc(x) /\ InVc(y) => x = y
  <2>1. \A i, j \in DOMAIN vcs[c][v] : i = j
    <3> DEFINE b == vcs[c][v]
    <3>1. b \in Seq(Flit) /\ Len(b) <= 1
      BY Zenon, <1>2
    <3> HIDE DEF b
    <3>2. DOMAIN b = 1 .. Len(b) /\ Len(b) \in Nat
      BY <3>1
    <3>3. \A i, j \in DOMAIN b : i = j
      BY <3>1, <3>2
    <3> QED
      BY Zenon, <3>3 DEF b
  <2> QED
    BY Zenon, <2>1
<1>7. InStall(x) /\ InStall(y) => x = y
  BY Zenon, <1>2 DEF DistinctIn, Stalled
<1>8. (InOutq(x) \/ InLink(x) \/ InVc(x) \/ InStall(x)) /\ (InOutq(y) \/ InLink(y) \/ InVc(y) \/ InStall(y))
  BY Zenon DEF SiteOf
<1> HIDE DEF InOutq, InLink, InVc, InStall
<1> QED
  BY Zenon, <1>2, <1>3, <1>4, <1>5, <1>6, <1>7, <1>8 DEF OneOf

=============================================================================
