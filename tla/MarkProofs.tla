----------------------------- MODULE MarkProofs ------------------------------
(***************************************************************************)
(* The mark of a swap is where the routers believe it to be, and no swap   *)
(* keeps a flit that has arrived from being ejected.                       *)
(***************************************************************************)
EXTENDS SwapNetworkVcProofs

\* The marks of a swap.  A flit loses its mark before it leaves a router, so
\* that only buffered flits are marked, and none without swaps.
Unmarked(s) == \A i \in DOMAIN s : s[i].routed = FALSE
Marked(buf, c, v) == buf[c][v] # <<>> /\ Head(buf[c][v]).routed
MarksMatch(buf, sw) ==
  \A r \in Routers :
    /\ sw[r] <=> \E c \in In(r), v \in VCs : Marked(buf, c, v)
    /\ \A c, d \in In(r), v, w \in VCs : Marked(buf, c, v) /\ Marked(buf, d, w) => c = d /\ v = w
MarkInv ==
  /\ \A c \in Channels : Unmarked(outq[c]) /\ Unmarked(link[c])
  /\ ~Interswap => \A c \in Channels, v \in VCs : ~Marked(vcs, c, v)
  /\ ~NoIsSwap => MarksMatch(vcs, is_swap)

-----------------------------------------------------------------------------
(* The marks of swaps.                                                     *)

LEMMA UnmarkedQueue ==
  ASSUME NEW s \in Seq(Flit), Unmarked(s)
  PROVE  /\ s # <<>> => Unmarked(Tail(s)) /\ Head(s).routed = FALSE
         /\ \A f \in Flit : f.routed = FALSE => Unmarked(Append(s, f))
<1>1. s # <<>> => Unmarked(Tail(s)) /\ Head(s).routed = FALSE
  BY NonEmptySeq DEF Unmarked
<1>2. ASSUME NEW f \in Flit, f.routed = FALSE PROVE Unmarked(Append(s, f))
  <2>1. Appended(Append(s, f), s, f)
    BY Zenon, AppendedResult
  <2> HIDE DEF Flit
  <2> DEFINE t == Append(s, f)
  <2>2. \A i \in DOMAIN t : t[i] = f \/ (i \in DOMAIN s /\ t[i] = s[i])
    BY Zenon, <2>1 DEF Appended
  <2> HIDE DEF t
  <2>3. Unmarked(t)
    BY Zenon, <1>2, <2>2 DEF Unmarked
  <2> QED
    BY Zenon, <2>3 DEF t
<1> QED
  BY Zenon, <1>1, <1>2

Queues == \A c \in Channels : Unmarked(outq[c]) /\ Unmarked(link[c])
Buffers(buf, sw) ==
  /\ ~Interswap => \A c \in Channels, v \in VCs : ~Marked(buf, c, v)
  /\ ~NoIsSwap => MarksMatch(buf, sw)

LEMMA MarkParts == MarkInv <=> Queues /\ Buffers(vcs, is_swap)
BY Zenon DEF MarkInv, Queues, Buffers

\* Whether the marks match depends only on which VCs hold a marked flit.
LEMMA MarksFrame ==
  ASSUME NEW buf, NEW sw, Buffers(buf, sw), NEW new,
         \A c \in Channels, v \in VCs : Marked(new, c, v) <=> Marked(buf, c, v)
  PROVE  Buffers(new, sw)
<1>1. ASSUME MarksMatch(buf, sw), NEW r \in Routers
      PROVE  /\ sw[r] <=> \E c \in In(r), v \in VCs : Marked(new, c, v)
             /\ \A c, d \in In(r), v, w \in VCs :
                  Marked(new, c, v) /\ Marked(new, d, w) => c = d /\ v = w
  <2>1. \A c \in In(r), v \in VCs : Marked(new, c, v) <=> Marked(buf, c, v)
    BY Zenon, LinkEnds
  <2>2. /\ sw[r] <=> \E c \in In(r), v \in VCs : Marked(buf, c, v)
        /\ \A c, d \in In(r), v, w \in VCs :
             Marked(buf, c, v) /\ Marked(buf, d, w) => c = d /\ v = w
    BY Zenon, <1>1 DEF MarksMatch
  <2> QED
    BY ZenonT(40), <2>1, <2>2
<1>2. MarksMatch(buf, sw) => MarksMatch(new, sw)
  BY Zenon, <1>1 DEF MarksMatch
<1> QED
  BY Zenon, <1>2 DEF Buffers

LEMMA MarkSend ==
  ASSUME TypeOK, MarkInv, NEW n \in Nodes, NI_send(n)
  PROVE  MarkInv'
<1>1. PICK p \in pending, c \in Out(n), v \in VCs :
        outq' = [outq EXCEPT ![c] =
          Append(@, [pkt |-> p, vc |-> v, out |-> NoLink, routed |-> FALSE])]
  BY Zenon DEF NI_send, IdleVcs
<1> DEFINE f == [pkt |-> p, vc |-> v, out |-> NoLink, routed |-> FALSE]
<1>2. f \in Flit /\ f.routed = FALSE
  BY Zenon DEF TypeOK, Flit
<1>3. vcs' = vcs /\ is_swap' = is_swap /\ link' = link
  BY Zenon DEF NI_send, downVars, swapVars
<1> HIDE DEF f
<1>4. \A d \in Channels : outq[d] \in Seq(Flit) /\ (outq'[d] = outq[d] \/ outq'[d] = Append(outq[d], f))
  BY Zenon, <1>1 DEF TypeOK, f
<1>5. Queues'
  BY Zenon, <1>2, <1>3, <1>4, MarkParts, UnmarkedQueue DEF Queues
<1> QED
  BY Zenon, <1>3, <1>5, MarkParts DEF MarkInv, Queues

LEMMA MarkTake ==
  ASSUME TypeOK, MarkInv, NEW c \in Channels, link[c] # <<>>, link' = [link EXCEPT ![c] = Tail(@)],
         outq' = outq, vcs' = vcs, is_swap' = is_swap
  PROVE  MarkInv'
<1>1. \A d \in Channels : link[d] \in Seq(Flit)
        /\ (link'[d] = link[d] \/ (d = c /\ link'[d] = Tail(link[d])))
  BY Zenon DEF TypeOK
<1>2. Queues'
  BY Zenon, <1>1, MarkParts, UnmarkedQueue DEF Queues
<1> QED
  BY Zenon, <1>2, MarkParts DEF MarkInv, Queues

LEMMA MarkLink ==
  ASSUME TypeOK, MarkInv, NEW S, NEW T, NetworkLink_wakeup(S, T)
  PROVE  MarkInv'
<1>1. vcs' = vcs /\ is_swap' = is_swap
  BY Zenon DEF NetworkLink_wakeup, swapVars
<1>2. ASSUME NEW c \in Channels PROVE Unmarked(outq'[c]) /\ Unmarked(link'[c])
  <2>1. /\ outq'[c] = IF c \in S THEN Tail(outq[c]) ELSE outq[c]
        /\ link'[c] = IF c \in S THEN Append(link[c], Head(outq[c])) ELSE link[c]
        /\ c \in S => outq[c] # <<>>
    BY Zenon DEF NetworkLink_wakeup, Moved, Popped
  <2>2. outq[c] \in Seq(Flit) /\ link[c] \in Seq(Flit) /\ Unmarked(outq[c]) /\ Unmarked(link[c])
    BY Zenon DEF TypeOK, MarkInv
  <2>3. c \in S => Head(outq[c]) \in Flit
    BY Zenon, <2>1, <2>2, NonEmptySeq
  <2> QED
    BY Zenon, <2>1, <2>2, <2>3, UnmarkedQueue
<1> QED
  BY Zenon, <1>1, <1>2 DEF MarkInv

LEMMA MarkUnits ==
  ASSUME TypeOK, VcInv, MarkInv, NEW r \in Routers, Units(r)
  PROVE  MarkInv'
<1>1. outq' = outq /\ is_swap' = is_swap
  BY Zenon DEF Units
<1>2. PICK rt \in [Arrivals(r) -> Out(r)] :
        /\ \A d \in Arrivals(r) : rt[d] \in Routes(r, Head(link[d]))
        /\ link' = [d \in Channels |->
             IF d \in Arrivals(r) THEN Tail(link[d]) ELSE link[d]]
        /\ vcs' = [d \in Channels |->
             IF d \in Arrivals(r)
             THEN [vcs[d] EXCEPT ![Head(link[d]).vc] = Append(@, RoutedHead(d, rt[d]))]
             ELSE vcs[d]]
  BY Zenon DEF Units, InputUnit_wakeup
<1>3. ASSUME NEW c \in Channels, NEW v \in VCs
      PROVE  Unmarked(link'[c]) /\ (Marked(vcs', c, v) <=> Marked(vcs, c, v))
  <2>1. CASE c \in Arrivals(r)
    <3> DEFINE e == RoutedHead(c, rt[c])
    <3>1. /\ link'[c] = Tail(link[c])
          /\ vcs'[c] = [vcs[c] EXCEPT ![Head(link[c]).vc] = Append(@, e)]
      BY Zenon, <1>2, <2>1
    <3>2. e \in Flit /\ link[c] # <<>> /\ Head(link[c]) \in Flit
      BY Zenon, <1>2, <2>1, ArrivalFacts
    <3>3. /\ link[c] \in Seq(Flit) /\ vcs[c] \in [VCs -> Seq(Flit)]
          /\ Unmarked(link[c])
      BY Zenon DEF TypeOK, MarkInv
    <3>4. Unmarked(Tail(link[c])) /\ Head(link[c]).routed = FALSE
      BY Zenon, <3>2, <3>3, UnmarkedQueue
    <3>5. e.routed = FALSE
      BY Zenon, <3>2, <3>4 DEF RoutedHead, Flit
    <3> HIDE DEF e
    <3>6. CASE v = Head(link[c]).vc
      <4>1. /\ ChanType(outvc[c], outq[c], link[c], vcstate[c], vcs[c], credq[c], credlink[c], Stalled(c))
            /\ ChanGood(outvc[c], outq[c], link[c], vcstate[c], vcs[c], credq[c], credlink[c], Stalled(c))
        BY Zenon, Typed DEF VcInv, ChanInv
      <4>2. InSeq(link[c], v)
        BY Zenon, <3>2, <3>3, <3>6, NonEmptySeq DEF InSeq
      <4>3. vcs[c][v] = <<>>
        BY Zenon, <4>1, <4>2 DEF ChanGood, VcGood, OneOf
      <4>4. vcs'[c][v] = Append(<<>>, e)
        BY Zenon, <3>1, <3>3, <3>6, <4>3
      <4>5. vcs'[c][v] # <<>> /\ Head(vcs'[c][v]) = e
        BY <3>2, <4>4
      <4> QED
        BY Zenon, <3>1, <3>4, <3>5, <4>3, <4>5 DEF Marked
    <3>7. CASE v # Head(link[c]).vc
      BY Zenon, <3>1, <3>3, <3>4, <3>7 DEF Marked
    <3> QED
      BY Zenon, <3>6, <3>7
  <2>2. CASE c \notin Arrivals(r)
    <3>1. link'[c] = link[c] /\ vcs'[c] = vcs[c]
      BY Zenon, <1>2, <2>2
    <3> QED
      BY Zenon, <3>1 DEF Marked, MarkInv
  <2> QED
    BY Zenon, <2>1, <2>2
<1>4. Queues'
  BY Zenon, <1>1, <1>3, VcFacts DEF MarkInv, Queues
<1>5. Buffers(vcs', is_swap')
  BY Zenon, <1>1, <1>3, MarkParts, MarksFrame
<1> QED
  BY Zenon, <1>4, <1>5 DEF MarkInv, Queues, Buffers

\* The flit that wins the switch takes its mark out of the router, and with
\* it the router's bit.
LEMMA MarkGrant ==
  ASSUME StructInv, VcInv, MarkInv, NEW r \in Routers,
         NEW k \in 0 .. NumOut(r) - 1, arbitrate_outports(r, k)
  PROVE  MarkInv'
<1> DEFINE o == OutPorts[r][k]
<1>1. PICK c \in Requesters(r, k) :
        \E w \in select_free_vc(o, VnetOf(winner[c])) : Grant(r, c, winner[c], o, w)
  BY Zenon DEF arbitrate_outports
<1>2. PICK w \in select_free_vc(o, VnetOf(winner[c])) :
        /\ vcs' = [vcs EXCEPT ![c][winner[c]] = Tail(@)]
        /\ outq' = [outq EXCEPT ![o] = Append(@, Departing(Head(vcs[c][winner[c]]), w))]
        /\ is_swap' = IsSwapAfterDeparture(r, Head(vcs[c][winner[c]]))
  BY Zenon, <1>1 DEF Grant
<1> DEFINE v == winner[c]
           f == Head(vcs[c][v])
           e == Departing(f, w)
<1>3. TypeOK
  BY Zenon DEF StructInv
<1>4. c \in Channels /\ Dst[c] = r /\ v # -1 /\ o \in Channels /\ w \in VCs
  BY Zenon, LinkEnds, PortFacts DEF Requesters, select_free_vc, IdleVcs
<1>5. v \in VCs /\ vcs[c][v] # <<>> /\ vcs[c][v] \in Seq(Flit)
  BY Zenon, <1>3, <1>4 DEF StructInv, WinnerInv, TypeOK
<1>6. f \in Flit /\ (Marked(vcs, c, v) <=> f.routed) /\ f.routed \in BOOLEAN
  <2>1. f \in Flit
    BY Zenon, <1>5, NonEmptySeq
  <2>2. f.routed \in BOOLEAN
    BY Zenon, <2>1 DEF Flit
  <2> QED
    BY Zenon, <1>5, <2>1, <2>2 DEF Marked
<1>7. f.routed => Interswap
  BY Zenon, <1>4, <1>5, <1>6 DEF MarkInv
<1>8. e \in Flit /\ e.routed = FALSE
  BY Zenon, <1>4, <1>6, <1>7, DepartingFlit DEF Departing, Flit
<1>9. Tail(vcs[c][v]) = <<>>
  <2> HIDE DEF v
  <2>1. vcs[c][v] \in Seq(Flit) /\ Len(vcs[c][v]) <= 1
    BY Zenon, <1>3, <1>4, <1>5 DEF TypeOK, VcInv, ChanInv, ChanGood, VcGood
  <2> QED
    BY Zenon, <1>5, <2>1, OneFlit
<1>10. link' = link
  BY Zenon DEF arbitrate_outports
<1>11. is_swap' = [is_swap EXCEPT ![r] = @ /\ ~f.routed] /\ is_swap \in [Routers -> BOOLEAN]
  BY Zenon, <1>2, <1>3, <1>7 DEF IsSwapAfterDeparture, TypeOK
<1>12. \A d \in Channels, u \in VCs :
         vcs'[d][u] = IF d = c /\ u = v THEN <<>> ELSE vcs[d][u]
  BY Zenon, <1>2, <1>3, <1>4, <1>5, <1>9 DEF TypeOK
<1>13. \A d \in Channels : outq[d] \in Seq(Flit) /\ (outq'[d] = outq[d] \/ outq'[d] = Append(outq[d], e))
  BY Zenon, <1>2, <1>3 DEF TypeOK
<1> HIDE DEF v, e, o, f
<1>14. Queues'
  BY Zenon, <1>8, <1>10, <1>13, UnmarkedQueue DEF Queues, MarkInv
<1>15. \A d \in Channels, u \in VCs :
         Marked(vcs', d, u) <=> Marked(vcs, d, u) /\ ~(d = c /\ u = v)
  BY Zenon, <1>12 DEF Marked
<1>16. ~Interswap => \A d \in Channels, u \in VCs : ~Marked(vcs', d, u)
  BY Zenon, <1>15 DEF MarkInv
<1>17. ASSUME ~NoIsSwap PROVE MarksMatch(vcs', is_swap')
  <2>1. MarksMatch(vcs, is_swap)
    BY Zenon, <1>17 DEF MarkInv
  <2> SUFFICES ASSUME NEW x \in Routers
               PROVE  /\ is_swap'[x] <=> \E d \in In(x), u \in VCs : Marked(vcs', d, u)
                      /\ \A d, b \in In(x), u, y \in VCs :
                           Marked(vcs', d, u) /\ Marked(vcs', b, y) => d = b /\ u = y
    BY Zenon DEF MarksMatch
  <2>2. \A d \in In(x) : d \in Channels /\ Dst[d] = x
    BY Zenon, LinkEnds
  <2>3. /\ is_swap[x] <=> \E d \in In(x), u \in VCs : Marked(vcs, d, u)
        /\ \A d, b \in In(x), u, y \in VCs :
             Marked(vcs, d, u) /\ Marked(vcs, b, y) => d = b /\ u = y
    BY Zenon, <2>1 DEF MarksMatch
  <2>4. \A d, b \in In(x), u, y \in VCs :
          Marked(vcs', d, u) /\ Marked(vcs', b, y) => d = b /\ u = y
    <3> SUFFICES ASSUME NEW d \in In(x), NEW b \in In(x), NEW u \in VCs, NEW y \in VCs,
                        Marked(vcs', d, u), Marked(vcs', b, y)
                 PROVE  d = b /\ u = y
      BY Zenon
    <3>1. Marked(vcs, d, u) /\ Marked(vcs, b, y)
      BY Zenon, <1>15, <2>2
    <3> QED
      BY Zenon, <2>3, <3>1
  <2>5. CASE x = r /\ f.routed
    <3>1. is_swap'[x] = FALSE /\ c \in In(x) /\ Marked(vcs, c, v)
      <4>1. is_swap'[x] = FALSE
        BY Zenon, <1>11, <2>5
      <4>2. c \in In(x)
        BY Zenon, <1>4, <2>5, LinkEnds
      <4> QED
        BY Zenon, <1>6, <2>5, <4>1, <4>2
    <3>2. \A d \in In(x), u \in VCs : ~Marked(vcs', d, u)
      BY Zenon, <1>5, <1>15, <2>2, <2>3, <3>1
    <3> QED
      BY Zenon, <2>4, <3>1, <3>2
  <2>6. CASE ~(x = r /\ f.routed)
    <3>1. is_swap'[x] = is_swap[x]
      BY Zenon, <1>6, <1>11, <2>6
    <3>2. \A d \in In(x), u \in VCs : Marked(vcs', d, u) <=> Marked(vcs, d, u)
      BY Zenon, <1>4, <1>6, <1>15, <2>2, <2>6 DEF Marked, f
    <3> QED
      BY Zenon, <2>3, <2>4, <3>1, <3>2
  <2> QED
    BY Zenon, <2>5, <2>6
<1> QED
  BY Zenon, <1>14, <1>16, <1>17 DEF MarkInv, Queues

\* bail_out clears the marks and the bits of the same routers, because with
\* is_swap in use every flit is in the only vnet whose marks it clears.
LEMMA MarkBailout ==
  ASSUME StructInv, FlitKeepsVnet, Buffers(vcs, is_swap), NEW R \in SUBSET Routers
  PROVE  Buffers(ClearRouted(R), ClearIsSwap(R))
<1> DEFINE buf == ClearRouted(R)
           sw == ClearIsSwap(R)
<1>1. SameShape(buf) /\ \A c \in Channels, v \in VCs : vcs[c][v] # <<>> => ClearedHead(buf, R, c, v)
  BY Zenon, ClearedShape
<1> HIDE DEF buf
<1>2. ASSUME NEW c \in Channels, NEW v \in VCs
      PROVE  Marked(buf, c, v) => Marked(vcs, c, v)
  <2>1. Marked(buf, c, v) => buf[c][v] # <<>> /\ vcs[c][v] # <<>> /\ Head(buf[c][v]).routed
    BY Zenon, <1>1 DEF Marked, SameShape
  <2>2. Marked(buf, c, v) => buf[c][v] = vcs[c][v]
    BY Zenon, <1>1, <2>1 DEF ClearedHead
  <2> QED
    BY Zenon, <2>1, <2>2 DEF Marked
<1>3. ~Interswap => \A c \in Channels, v \in VCs : ~Marked(buf, c, v)
  BY Zenon, <1>2 DEF Buffers
<1>4. ASSUME ~NoIsSwap PROVE MarksMatch(buf, sw)
  <2>1. ASSUME NEW c \in Channels, NEW v \in VCs, vcs[c][v] # <<>>
        PROVE  v < VcsPerVnet
    <3>1. vcs[c][v] \in Seq(Flit)
      BY Zenon DEF StructInv, TypeOK
    <3>2. 1 \in DOMAIN vcs[c][v]
      BY Zenon, <2>1, <3>1, NonEmptySeq
    <3>3. vcs[c][v][1].vc = v
      BY <3>2 DEF StructInv, FlitMatchesPlace, InPlace
    <3>4. VnetOf(v) = InjVnet(vcs[c][v][1].pkt)
      BY <3>2, <3>3 DEF FlitKeepsVnet, InVnet
    <3>5. VnetOf(v) = 0
      BY Zenon, <1>4, <3>4, IsSwapNeedsSingleVnet DEF InjVnet
    <3> QED
      BY <3>5, ParameterAssumption, VcFacts DEF VnetOf
  <2>2. ASSUME NEW c \in Channels, NEW v \in VCs
        PROVE  Marked(buf, c, v) <=> Marked(vcs, c, v) /\ Dst[c] \notin R
    <3>1. CASE Dst[c] \in R
      <4>1. vcs[c][v] # <<>> => ~Head(buf[c][v]).routed
        BY Zenon, <1>1, <2>1, <3>1 DEF ClearedHead
      <4>2. buf[c][v] # <<>> => vcs[c][v] # <<>>
        BY Zenon, <1>1 DEF SameShape
      <4> QED
        BY Zenon, <3>1, <4>1, <4>2 DEF Marked
    <3>2. CASE Dst[c] \notin R
      <4>1. vcs[c][v] # <<>> => buf[c][v] = vcs[c][v]
        BY Zenon, <1>1, <3>2 DEF ClearedHead
      <4>2. buf[c][v] # <<>> <=> vcs[c][v] # <<>>
        BY Zenon, <1>1 DEF SameShape
      <4> QED
        BY Zenon, <3>2, <4>1, <4>2 DEF Marked
    <3> QED
      BY Zenon, <3>1, <3>2
  <2> SUFFICES ASSUME NEW x \in Routers
               PROVE  /\ sw[x] <=> \E d \in In(x), u \in VCs : Marked(buf, d, u)
                      /\ \A d, b \in In(x), u, y \in VCs :
                           Marked(buf, d, u) /\ Marked(buf, b, y) => d = b /\ u = y
    BY Zenon DEF MarksMatch
  <2>3. sw[x] <=> is_swap[x] /\ x \notin R
    BY Zenon DEF ClearIsSwap
  <2>4. /\ is_swap[x] <=> \E d \in In(x), u \in VCs : Marked(vcs, d, u)
        /\ \A d, b \in In(x), u, y \in VCs :
             Marked(vcs, d, u) /\ Marked(vcs, b, y) => d = b /\ u = y
    BY Zenon, <1>4 DEF Buffers, MarksMatch
  <2>5. \A d \in In(x), u \in VCs : Marked(buf, d, u) <=> Marked(vcs, d, u) /\ x \notin R
    BY <2>2, LinkEnds
  <2> HIDE DEF sw
  <2> QED
    BY ZenonT(40), <2>3, <2>4, <2>5
<1> HIDE DEF sw
<1>5. Buffers(buf, sw)
  BY Zenon, <1>3, <1>4 DEF Buffers
<1> QED
  BY Zenon, <1>5 DEF buf, sw

\* The exchange marks the flit that goes forward and no other: the one that
\* comes back is unmarked, since the downstream router's bit was clear.
LEMMA MarkExchange ==
  ASSUME NEW buf, NEW sw, MarksMatch(buf, sw),
         NEW r \in Routers, NEW c \in Channels, NEW o \in Channels, NEW v \in VCs,
         Dst[c] = r, Dst[o] \in Routers, Dst[o] # r, ~sw[Dst[o]],
         NEW new, Marked(new, o, v), ~Marked(new, c, v),
         \A d \in Channels, u \in VCs :
           ~(u = v /\ d \in {c, o}) => (Marked(new, d, u) <=> Marked(buf, d, u)),
         NEW nsw, nsw[Dst[o]], nsw[r] <=> sw[r] /\ ~Marked(buf, c, v),
         \A x \in Routers \ {r, Dst[o]} : nsw[x] <=> sw[x]
  PROVE  MarksMatch(new, nsw)
<1>1. ASSUME NEW x \in Routers
      PROVE  /\ nsw[x] <=> \E d \in In(x), u \in VCs : Marked(new, d, u)
             /\ \A d, b \in In(x), u, y \in VCs :
                  Marked(new, d, u) /\ Marked(new, b, y) => d = b /\ u = y
  <2>1. \A d : d \in In(x) <=> d \in Channels /\ Dst[d] = x
    BY Zenon, LinkEnds
  <2>2. /\ sw[x] <=> \E d \in In(x), u \in VCs : Marked(buf, d, u)
        /\ \A d, b \in In(x), u, y \in VCs :
             Marked(buf, d, u) /\ Marked(buf, b, y) => d = b /\ u = y
    BY Zenon DEF MarksMatch
  <2>3. CASE x = Dst[o]
    <3>1. nsw[x] /\ o \in In(x) /\ c \notin In(x)
      BY Zenon, <2>1, <2>3
    <3>2. \A d \in In(x), u \in VCs : ~Marked(buf, d, u)
      BY Zenon, <2>2, <2>3
    <3>3. \A d \in In(x), u \in VCs : Marked(new, d, u) => d = o /\ u = v
      BY Zenon, <2>1, <3>1, <3>2
    <3> QED
      BY Zenon, <3>1, <3>3
  <2>4. CASE x = r
    <3>1. (nsw[x] <=> sw[x] /\ ~Marked(buf, c, v)) /\ c \in In(x) /\ o \notin In(x)
      BY Zenon, <2>1, <2>4
    <3>2. \A d \in In(x), u \in VCs : Marked(new, d, u) <=> Marked(buf, d, u) /\ ~(d = c /\ u = v)
      BY Zenon, <2>1, <3>1
    <3>3. CASE Marked(buf, c, v)
      <4>1. \A d \in In(x), u \in VCs : ~Marked(new, d, u)
        BY Zenon, <2>2, <3>1, <3>2, <3>3
      <4> QED
        BY Zenon, <3>1, <3>3, <4>1
    <3>4. CASE ~Marked(buf, c, v)
      <4>1. \A d \in In(x), u \in VCs : Marked(new, d, u) <=> Marked(buf, d, u)
        BY Zenon, <3>2, <3>4
      <4>2. (\E d \in In(x), u \in VCs : Marked(new, d, u)) <=> \E d \in In(x), u \in VCs : Marked(buf, d, u)
        BY Zenon, <4>1
      <4>3. \A d, b \in In(x), u, y \in VCs :
              Marked(new, d, u) /\ Marked(new, b, y) => d = b /\ u = y
        BY <2>2, <4>1
      <4> QED
        BY Zenon, <2>2, <3>1, <3>4, <4>2, <4>3
    <3> QED
      BY Zenon, <3>3, <3>4
  <2>5. CASE x # r /\ x # Dst[o]
    <3>1. (nsw[x] <=> sw[x]) /\ c \notin In(x) /\ o \notin In(x)
      BY Zenon, <2>1, <2>5
    <3>2. \A d \in In(x), u \in VCs : Marked(new, d, u) <=> Marked(buf, d, u)
      BY Zenon, <2>1, <3>1
    <3>3. (\E d \in In(x), u \in VCs : Marked(new, d, u)) <=> \E d \in In(x), u \in VCs : Marked(buf, d, u)
      BY Zenon, <3>2
    <3>4. \A d, b \in In(x), u, y \in VCs :
            Marked(new, d, u) /\ Marked(new, b, y) => d = b /\ u = y
      BY <2>2, <3>2
    <3> QED
      BY Zenon, <2>2, <3>1, <3>3, <3>4
  <2> QED
    BY Zenon, <2>3, <2>4, <2>5
<1> QED
  BY Zenon, <1>1 DEF MarksMatch

LEMMA MarkSwap ==
  ASSUME StructInv, FlitKeepsVnet, MarkInv, NEW r \in Routers, wakeup_swap(r)
  PROVE  MarkInv'
<1>1. PICK c \in Channels, v \in VCs, R \in SUBSET Routers : SwapTried(r, c, v, R)
  BY Zenon, SwapAttempt
<1> DEFINE o   == Head(vcs[c][v]).out
           buf == ClearRouted(R)
           sw  == ClearIsSwap(R)
<1>2. /\ Dst[c] = r /\ vcs[c][v] # <<>>
      /\ o \in Channels /\ Src[o] = r /\ Dst[o] \in Routers
      /\ \/ downstreamFlit(o, v, buf, sw) /\ exchange(r, c, v, buf, sw)
         \/ vcs' = buf /\ is_swap' = sw
  BY Zenon, <1>1 DEF SwapTried
<1>3. SameShape(buf) /\ Head(buf[c][v]).out = o
  BY Zenon, <1>2, ClearedShape DEF ClearedHead
<1>4. sw \in [Routers -> BOOLEAN]
  <2>1. is_swap \in [Routers -> BOOLEAN]
    BY Zenon DEF StructInv, TypeOK
  <2> QED
    BY Zenon, <2>1 DEF ClearIsSwap
<1>5. Buffers(buf, sw)
  BY Zenon, MarkBailout, MarkParts
<1> HIDE DEF o, buf, sw
<1>6. Interswap /\ outq' = outq /\ link' = link
  BY Zenon DEF wakeup_swap, BeginWakeup, upVars
<1>7. Buffers(vcs', is_swap')
  <2>1. CASE vcs' = buf /\ is_swap' = sw
    BY Zenon, <1>5, <2>1
  <2>2. CASE downstreamFlit(o, v, buf, sw) /\ exchange(r, c, v, buf, sw)
    <3>1. buf[o][v] # <<>> /\ (NoIsSwap \/ ~sw[Dst[o]])
      BY Zenon, <2>2 DEF downstreamFlit
    <3>2. buf[c][v] # <<>> /\ Dst[o] # r /\ c # o
      BY SMTT(30), <1>2, <1>3, TopologyAssumption DEF SameShape
    <3>3. SameShape(vcs') /\ ExchangedHeads(buf, c, o, v)
      BY Zenon, <1>2, <1>3, <2>2, <3>1, <3>2, ExchangedShape
    <3>4. vcs'[c][v] # <<>> /\ vcs'[o][v] # <<>>
      BY Zenon, <1>2, <1>3, <3>1, <3>2, <3>3 DEF SameShape
    <3> DEFINE mark == Head(buf[c][v]).routed
    <3>5. mark \in BOOLEAN /\ (mark <=> Marked(buf, c, v))
      <4>1. Head(buf[c][v]) \in Flit
        BY Zenon, <1>3, <3>2, NonEmptySeq DEF SameShape
      <4>2. mark \in BOOLEAN
        BY Zenon, <4>1 DEF Flit
      <4> QED
        BY Zenon, <3>2, <4>2 DEF Marked
    <3>6. is_swap' = [sw EXCEPT ![Dst[o]] = @ \/ ~NoIsSwap, ![r] = @ /\ ~mark]
      BY Zenon, <1>3, <2>2 DEF exchange
    <3> HIDE DEF mark
    <3>7. ASSUME ~NoIsSwap PROVE MarksMatch(vcs', is_swap')
      <4>1. MarksMatch(buf, sw) /\ ~sw[Dst[o]]
        BY Zenon, <1>5, <3>1, <3>7 DEF Buffers
      <4>2. /\ is_swap'[Dst[o]] /\ (is_swap'[r] <=> sw[r] /\ ~Marked(buf, c, v))
            /\ \A x \in Routers \ {r, Dst[o]} : is_swap'[x] <=> sw[x]
        BY Zenon, <1>2, <1>4, <3>2, <3>5, <3>6, <3>7
      <4>3. ~Marked(buf, o, v)
        BY Zenon, <1>2, <4>1, LinkEnds DEF MarksMatch
      <4>4. ~Head(buf[o][v]).routed
        BY Zenon, <3>1, <4>3 DEF Marked
      <4>5. Marked(vcs', o, v) /\ ~Marked(vcs', c, v)
        BY Zenon, <3>3, <3>4, <4>4 DEF Marked, ExchangedHeads
      <4>6. \A d \in Channels, u \in VCs :
              ~(u = v /\ d \in {c, o}) => (Marked(vcs', d, u) <=> Marked(buf, d, u))
        BY Zenon, <3>3 DEF Marked, ExchangedHeads
      <4> DEFINE new == vcs'
                 nsw == is_swap'
      <4>7. /\ Marked(new, o, v) /\ ~Marked(new, c, v)
            /\ \A d \in Channels, u \in VCs :
                 ~(u = v /\ d \in {c, o}) => (Marked(new, d, u) <=> Marked(buf, d, u))
            /\ nsw[Dst[o]] /\ (nsw[r] <=> sw[r] /\ ~Marked(buf, c, v))
            /\ \A x \in Routers \ {r, Dst[o]} : nsw[x] <=> sw[x]
        BY Zenon, <4>2, <4>5, <4>6
      <4> HIDE DEF new, nsw
      <4>8. MarksMatch(new, nsw)
        BY SMTT(30), <1>2, <3>2, <4>1, <4>7, MarkExchange
      <4> QED
        BY Zenon, <4>8 DEF new, nsw
    <3> QED
      BY Zenon, <1>6, <3>7 DEF Buffers
  <2> QED
    BY Zenon, <1>2, <2>1, <2>2
<1> QED
  BY Zenon, <1>6, <1>7 DEF MarkInv, Buffers

LEMMA MarkStep ==
  ASSUME StructInv, VcInv, FlitKeepsVnet, MarkInv, [Next]_vars
  PROVE  MarkInv'
<1>1. TypeOK
  BY Zenon DEF StructInv
<1>2. outq' = outq /\ link' = link /\ vcs' = vcs /\ is_swap' = is_swap => MarkInv'
  BY Zenon DEF MarkInv
<1>3. ASSUME NEW r \in Routers, RouterNext(r) PROVE MarkInv'
  <2>1. CASE \E turn \in BOOLEAN : wakeup_noSwap(r, turn)
    BY Zenon, <1>2, <2>1 DEF wakeup_noSwap, BeginWakeup, upVars
  <2>2. CASE wakeup_declined(r)
    BY Zenon, <1>2, <2>2 DEF wakeup_declined, BeginWakeup, upVars
  <2>3. CASE wakeup_swap(r)
    BY Zenon, <2>3, MarkSwap
  <2>4. CASE Units(r)
    BY Zenon, <1>1, <2>4, MarkUnits
  <2>5. CASE arbitrate_inports(r)
    BY Zenon, <1>2, <2>5 DEF arbitrate_inports, upVars, downVars, swapVars
  <2>6. CASE \E k \in 0 .. NumOut(r) - 1 : arbitrate_outports(r, k)
    BY Zenon, <2>6, MarkGrant
  <2>7. CASE clear_request_vector(r)
    BY Zenon, <1>2, <2>7 DEF clear_request_vector, upVars, downVars, swapVars
  <2> QED
    BY Zenon, <1>3, <2>1, <2>2, <2>3, <2>4, <2>5, <2>6, <2>7 DEF RouterNext
<1>4. CASE LinkNext
  <2>1. PICK S, T : NetworkLink_wakeup(S, T)
    BY Zenon, <1>4 DEF LinkNext
  <2> QED
    BY Zenon, <1>1, <2>1, MarkLink
<1>5. ASSUME NEW n \in Nodes, NodeNext(n) PROVE MarkInv'
  <2>1. CASE NI_send(n)
    BY Zenon, <1>1, <2>1, MarkSend
  <2>2. CASE NI_receive(n)
    <3>1. PICK c \in Channels : link[c] # <<>> /\ link' = [link EXCEPT ![c] = Tail(@)]
      BY Zenon, <2>2, LinkEnds DEF NI_receive
    <3> QED
      BY Zenon, <1>1, <2>2, <3>1, MarkTake DEF NI_receive, upVars, swapVars
  <2>3. CASE NI_stall(n)
    <3>1. PICK c \in Channels : link[c] # <<>> /\ link' = [link EXCEPT ![c] = Tail(@)]
      BY Zenon, <2>3, LinkEnds DEF NI_stall
    <3> QED
      BY Zenon, <1>1, <2>3, <3>1, MarkTake DEF NI_stall, upVars, downVars, swapVars
  <2>4. CASE checkStallQueue(n)
    BY Zenon, <1>2, <2>4 DEF checkStallQueue, upVars, swapVars
  <2>5. CASE NI_credit(n)
    BY Zenon, <1>2, <2>5 DEF NI_credit, downVars, swapVars
  <2> QED
    BY Zenon, <1>5, <2>1, <2>2, <2>3, <2>4, <2>5 DEF NodeNext
<1>6. CASE UNCHANGED vars
  BY Zenon, <1>2, <1>6 DEF vars, upVars, downVars, swapVars
<1> QED
  BY Zenon, <1>3, <1>4, <1>5, <1>6 DEF Next

\* Where the vnet of every flit is its VC's, the marks follow the flits.
LEMMA MarksHold == Spec /\ []FlitKeepsVnet => []IsSwapMatchesRouted
<1>1. Init => MarkInv
  <2> SUFFICES ASSUME Init PROVE MarkInv
    BY Zenon
  <2>1. /\ \A c \in Channels : outq[c] = <<>> /\ link[c] = <<>>
        /\ \A c \in Channels, v \in VCs : vcs[c][v] = <<>>
        /\ \A r \in Routers : is_swap[r] = FALSE
    BY Zenon DEF Init
  <2>2. \A c \in Channels, v \in VCs : ~Marked(vcs, c, v)
    BY Zenon, <2>1 DEF Marked
  <2>3. \A r \in Routers : \A c \in In(r) : c \in Channels
    BY Zenon, LinkEnds
  <2>4. MarksMatch(vcs, is_swap)
    BY Zenon, <2>1, <2>2, <2>3 DEF MarksMatch
  <2>5. \A c \in Channels : Unmarked(outq[c]) /\ Unmarked(link[c])
    BY <2>1 DEF Unmarked
  <2> QED
    BY Zenon, <2>2, <2>4, <2>5 DEF MarkInv
<1>2. StructInv /\ VcInv /\ FlitKeepsVnet /\ MarkInv /\ [Next]_vars => MarkInv'
  BY Zenon, MarkStep
<1>3. MarkInv => IsSwapMatchesRouted
  <2> SUFFICES ASSUME MarkInv, ~NoIsSwap, NEW r \in Routers
               PROVE  /\ is_swap[r] <=> RoutedIn(r) # {}
                      /\ \A x, y \in RoutedIn(r) : x = y
    BY Zenon DEF IsSwapMatchesRouted
  <2>1. /\ is_swap[r] <=> \E c \in In(r), v \in VCs : Marked(vcs, c, v)
        /\ \A c, d \in In(r), v, w \in VCs :
             Marked(vcs, c, v) /\ Marked(vcs, d, w) => c = d /\ v = w
    BY Zenon DEF MarkInv, MarksMatch
  <2>2. \A x : x \in RoutedIn(r) <=>
          \E c \in In(r), v \in VCs : x = <<c, v>> /\ Marked(vcs, c, v)
    BY DEF RoutedIn, Marked
  <2>3. is_swap[r] <=> RoutedIn(r) # {}
    BY Zenon, <2>1, <2>2
  <2>4. ASSUME NEW x \in RoutedIn(r), NEW y \in RoutedIn(r) PROVE x = y
    <3>1. PICK c \in In(r), v \in VCs : x = <<c, v>> /\ Marked(vcs, c, v)
      BY Zenon, <2>2
    <3>2. PICK d \in In(r), w \in VCs : y = <<d, w>> /\ Marked(vcs, d, w)
      BY Zenon, <2>2
    <3> QED
      BY Zenon, <2>1, <3>1, <3>2
  <2> QED
    BY Zenon, <2>3, <2>4
<1>4. Spec /\ []FlitKeepsVnet => []MarkInv
  BY <1>1, <1>2, VcSpec, PTL DEF Spec
<1> QED
  BY <1>3, <1>4, PTL

-----------------------------------------------------------------------------
(* Flits about to be ejected.                                              *)

\* The flit on top of VC v of link c leads out of the network.
Arrived(c, v) == vcs[c][v] # <<>> /\ IsLocal(Head(vcs[c][v]).out)
StaysOrIsEjected(c, v) ==
  \/ vcs'[c][v] # <<>> /\ Head(vcs'[c][v]).pkt = Head(vcs[c][v]).pkt
  \/ \E o \in Out(Dst[c]) : Dst[o] = PktDst[Head(vcs[c][v]).pkt] /\ outq'[o] # outq[o]

LEMMA EjectUnits ==
  ASSUME TypeOK, NEW r \in Routers, Units(r), NEW c \in Channels, NEW v \in VCs, Arrived(c, v)
  PROVE  StaysOrIsEjected(c, v)
<1>1. PICK rt \in [Arrivals(r) -> Out(r)] :
        /\ \A d \in Arrivals(r) : rt[d] \in Routes(r, Head(link[d]))
        /\ vcs' = [d \in Channels |->
             IF d \in Arrivals(r)
             THEN [vcs[d] EXCEPT ![Head(link[d]).vc] = Append(@, RoutedHead(d, rt[d]))]
             ELSE vcs[d]]
  BY Zenon DEF Units, InputUnit_wakeup
<1>2. vcs[c] \in [VCs -> Seq(Flit)] /\ vcs[c][v] \in Seq(Flit) /\ vcs[c][v] # <<>>
  BY Zenon DEF TypeOK, Arrived
<1>3. CASE vcs'[c][v] = vcs[c][v]
  BY Zenon, <1>2, <1>3 DEF StaysOrIsEjected
<1>4. CASE c \in Arrivals(r) /\ vcs'[c][v] = Append(vcs[c][v], RoutedHead(c, rt[c]))
  <2>1. RoutedHead(c, rt[c]) \in Flit
    BY Zenon, <1>1, <1>4, ArrivalFacts
  <2> DEFINE s == vcs[c][v]
             e == RoutedHead(c, rt[c])
             t == Append(s, e)
  <2>2. s \in Seq(Flit) /\ s # <<>> /\ e \in Flit
    BY Zenon, <1>2, <2>1
  <2> HIDE DEF s, e
  <2>3. t # <<>> /\ Head(t) = Head(s)
    <3>1. Len(s) \in Nat \ {0} /\ t \in Seq(Flit) /\ Len(t) = Len(s) + 1
      BY <2>2
    <3>2. t[1] = s[1]
      BY <2>2, <3>1
    <3>3. t # <<>> /\ Head(t) = t[1] /\ Head(s) = s[1]
      BY <2>2, <3>1
    <3> QED
      BY Zenon, <3>2, <3>3
  <2>4. vcs'[c][v] = t
    BY Zenon, <1>4 DEF s, e
  <2> HIDE DEF t
  <2>5. vcs'[c][v] # <<>> /\ Head(vcs'[c][v]) = Head(vcs[c][v])
    BY Zenon, <2>3, <2>4 DEF s
  <2> QED
    BY Zenon, <2>5 DEF StaysOrIsEjected
<1>5. vcs'[c][v] = vcs[c][v] \/ (c \in Arrivals(r) /\ vcs'[c][v] = Append(vcs[c][v], RoutedHead(c, rt[c])))
  BY Zenon, <1>1, <1>2
<1> QED
  BY Zenon, <1>3, <1>4, <1>5

LEMMA EjectGrant ==
  ASSUME StructInv, NEW r \in Routers, NEW k \in 0 .. NumOut(r) - 1, arbitrate_outports(r, k),
         NEW c \in Channels, NEW v \in VCs, Arrived(c, v)
  PROVE  StaysOrIsEjected(c, v)
<1> DEFINE o == OutPorts[r][k]
<1>1. PICK b \in Requesters(r, k) :
        \E w \in select_free_vc(o, VnetOf(winner[b])) : Grant(r, b, winner[b], o, w)
  BY Zenon DEF arbitrate_outports
<1>2. PICK w \in select_free_vc(o, VnetOf(winner[b])) :
        /\ vcs' = [vcs EXCEPT ![b][winner[b]] = Tail(@)]
        /\ outq' = [outq EXCEPT ![o] = Append(@, Departing(Head(vcs[b][winner[b]]), w))]
  BY Zenon, <1>1 DEF Grant
<1>3. TypeOK
  BY Zenon DEF StructInv
<1>4. b \in Channels /\ Dst[b] = r /\ winner[b] # -1 /\ Head(vcs[b][winner[b]]).out = o /\ w \in VCs
  BY Zenon, LinkEnds DEF Requesters, select_free_vc, IdleVcs
<1>5. o \in Channels /\ o \in Out(r) /\ Src[o] \notin Nodes
  BY SMTT(30), PortFacts, LinkEnds
<1>6. CASE ~(c = b /\ v = winner[b])
  <2>1. vcs'[c][v] = vcs[c][v]
    BY <1>2, <1>3, <1>6 DEF TypeOK
  <2> QED
    BY Zenon, <2>1 DEF StaysOrIsEjected, Arrived
<1>7. CASE c = b /\ v = winner[b]
  <2> DEFINE f == Head(vcs[c][v])
             e == Departing(f, w)
  <2>1. vcs[c][v] \in Seq(Flit) /\ vcs[c][v] # <<>>
    BY Zenon, <1>3 DEF TypeOK, Arrived
  <2>2. f \in Flit /\ f = vcs[c][v][1] /\ 1 \in DOMAIN vcs[c][v]
    BY Zenon, <2>1, NonEmptySeq
  <2>3. Dst[o] = PktDst[f.pkt]
    BY SMTT(30), <1>4, <1>7, <2>2 DEF StructInv, FlitMatchesPlace, InPlace, Arrived
  <2>4. e \in Flit
    BY Zenon, <1>4, <2>2, DepartingFlit
  <2> HIDE DEF e, f
  <2>5. outq[o] \in Seq(Flit) /\ outq'[o] = Append(outq[o], e)
    BY Zenon, <1>2, <1>3, <1>5, <1>7 DEF TypeOK, e, f
  <2>6. outq'[o] # outq[o]
    <3> DEFINE s == outq[o]
               t == Append(s, e)
    <3>1. s \in Seq(Flit)
      BY Zenon, <2>5
    <3> HIDE DEF s
    <3>2. Len(s) \in Nat /\ Len(t) = Len(s) + 1
      BY <2>4, <3>1
    <3>3. t # s
      BY <3>2
    <3> QED
      BY Zenon, <2>5, <3>3 DEF s
  <2> QED
    BY Zenon, <1>4, <1>5, <1>7, <2>3, <2>6 DEF StaysOrIsEjected, f
<1> QED
  BY Zenon, <1>6, <1>7

LEMMA EjectSwap ==
  ASSUME StructInv, NEW r \in Routers, wakeup_swap(r), NEW d \in Channels, NEW u \in VCs, Arrived(d, u)
  PROVE  StaysOrIsEjected(d, u)
<1>1. PICK c \in Channels, v \in VCs, R \in SUBSET Routers : SwapTried(r, c, v, R)
  BY Zenon, SwapAttempt
<1> DEFINE o   == Head(vcs[c][v]).out
           buf == ClearRouted(R)
           sw  == ClearIsSwap(R)
<1>2. /\ Dst[c] = r /\ vcs[c][v] # <<>> /\ ~IsLocal(o)
      /\ o \in Channels /\ Src[o] = r /\ Dst[o] \in Routers
      /\ \/ downstreamFlit(o, v, buf, sw) /\ exchange(r, c, v, buf, sw)
         \/ vcs' = buf
  BY Zenon, <1>1 DEF SwapTried
<1>3. /\ SameShape(buf)
      /\ \A b \in Channels, y \in VCs : vcs[b][y] # <<>> =>
           Head(buf[b][y]).pkt = Head(vcs[b][y]).pkt /\ Head(buf[b][y]).out = Head(vcs[b][y]).out
  BY ClearedShape DEF ClearedHead
<1> HIDE DEF o, buf, sw
<1>4. vcs[d][u] # <<>> /\ buf[d][u] # <<>> /\ Head(buf[d][u]).pkt = Head(vcs[d][u]).pkt
  BY Zenon, <1>3 DEF Arrived, SameShape
<1>5. CASE vcs'[d][u] = buf[d][u]
  BY Zenon, <1>4, <1>5 DEF StaysOrIsEjected
<1>6. CASE downstreamFlit(o, v, buf, sw) /\ exchange(r, c, v, buf, sw)
  <2>1. buf[o][v] # <<>> /\ ~IsLocal(Head(buf[o][v]).out)
    BY Zenon, <1>6 DEF downstreamFlit
  <2>2. buf[c][v] # <<>> /\ Head(buf[c][v]).out = o /\ vcs[o][v] # <<>>
    BY Zenon, <1>2, <1>3, <2>1 DEF SameShape, o
  <2>3. ExchangedHeads(buf, c, o, v)
    BY Zenon, <1>2, <1>3, <1>6, <2>1, <2>2, ExchangedShape
  <2>4. ~IsLocal(Head(vcs[o][v]).out) /\ ~IsLocal(Head(vcs[c][v]).out)
    BY Zenon, <1>2, <1>3, <2>1, <2>2 DEF o
  <2>5. ~(u = v /\ d \in {c, o})
    BY Zenon, <2>4 DEF Arrived
  <2> QED
    BY Zenon, <1>5, <2>3, <2>5 DEF ExchangedHeads
<1> QED
  BY Zenon, <1>2, <1>5, <1>6

\* A flit that has reached its destination router leaves its VC only
\* to be ejected to its destination; no swap takes it away from there.
THEOREM EjectCorrect == Spec => ArrivedFlitIsEjected
<1>1. ASSUME StructInv, [Next]_vars, NEW c \in Channels, NEW v \in VCs, Arrived(c, v)
      PROVE  StaysOrIsEjected(c, v)
  <2>1. TypeOK
    BY Zenon, <1>1 DEF StructInv
  <2>2. vcs' = vcs => StaysOrIsEjected(c, v)
    BY Zenon, <1>1 DEF StaysOrIsEjected, Arrived
  <2>3. ASSUME NEW r \in Routers, RouterNext(r) PROVE StaysOrIsEjected(c, v)
    <3>1. CASE \E turn \in BOOLEAN : wakeup_noSwap(r, turn)
      BY Zenon, <2>2, <3>1 DEF wakeup_noSwap
    <3>2. CASE wakeup_declined(r)
      BY Zenon, <2>2, <3>2 DEF wakeup_declined
    <3>3. CASE wakeup_swap(r)
      BY Zenon, <1>1, <3>3, EjectSwap
    <3>4. CASE Units(r)
      BY Zenon, <1>1, <2>1, <3>4, EjectUnits
    <3>5. CASE arbitrate_inports(r)
      BY Zenon, <2>2, <3>5 DEF arbitrate_inports, downVars
    <3>6. CASE \E k \in 0 .. NumOut(r) - 1 : arbitrate_outports(r, k)
      BY Zenon, <1>1, <3>6, EjectGrant
    <3>7. CASE clear_request_vector(r)
      BY Zenon, <2>2, <3>7 DEF clear_request_vector, downVars
    <3> QED
      BY Zenon, <2>3, <3>1, <3>2, <3>3, <3>4, <3>5, <3>6, <3>7 DEF RouterNext
  <2>4. CASE LinkNext \/ UNCHANGED vars
    BY Zenon, <2>2, <2>4 DEF LinkNext, NetworkLink_wakeup, vars, downVars
  <2>5. ASSUME NEW n \in Nodes, NodeNext(n) PROVE StaysOrIsEjected(c, v)
    BY Zenon, <2>2, <2>5 DEF NodeNext, NI_send, NI_receive, NI_stall, checkStallQueue, NI_credit, downVars
  <2> QED
    BY Zenon, <1>1, <2>3, <2>4, <2>5 DEF Next
<1>2. StructInv /\ [Next]_vars =>
        [\A c \in Channels, v \in VCs :
           vcs[c][v] # <<>> /\ IsLocal(Head(vcs[c][v]).out) =>
             \/ vcs'[c][v] # <<>> /\ Head(vcs'[c][v]).pkt = Head(vcs[c][v]).pkt
             \/ \E o \in Out(Dst[c]) : Dst[o] = PktDst[Head(vcs[c][v]).pkt]
                  /\ outq'[o] # outq[o]]_vars
  BY Zenon, <1>1 DEF Arrived, StaysOrIsEjected
<1> QED
  BY <1>2, VcSpec, PTL DEF Spec, ArrivedFlitIsEjected
=============================================================================
