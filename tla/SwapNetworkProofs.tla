------------------------- MODULE SwapNetworkProofs --------------------------
(***************************************************************************)
(* The structural invariant of SwapNetwork: types, the places of flits,    *)
(* the swap pointers and the requests in the switch; and before it the     *)
(* facts that the proofs about SwapNetwork share, on sequences, the        *)
(* topology and the swap pointer.                                          *)
(***************************************************************************)
EXTENDS SwapNetwork, TLAPS

-----------------------------------------------------------------------------
(* Sequences of flits and credits.                                         *)

LEMMA NonEmptySeq ==
  ASSUME NEW S, NEW s \in Seq(S), s # <<>>
  PROVE  /\ Head(s) \in S
         /\ Tail(s) \in Seq(S)
         /\ Head(s) = s[1]
         /\ 1 \in DOMAIN s
         /\ \A i \in DOMAIN Tail(s) : i + 1 \in DOMAIN s /\ Tail(s)[i] = s[i + 1]
<1>1. Len(s) \in Nat \ {0} /\ DOMAIN s = 1 .. Len(s)
  OBVIOUS
<1>2. /\ Head(s) \in S
      /\ Tail(s) \in Seq(S)
      /\ Len(Tail(s)) = Len(s) - 1
      /\ \A i \in 1 .. Len(Tail(s)) : Tail(s)[i] = s[i + 1]
  OBVIOUS
<1>3. DOMAIN Tail(s) = 1 .. Len(Tail(s))
  BY <1>2
<1>4. Head(s) = s[1]
  OBVIOUS
<1> QED
  BY <1>1, <1>2, <1>3, <1>4

LEMMA AppendedSeq ==
  ASSUME NEW S, NEW s \in Seq(S), NEW e \in S
  PROVE  /\ Append(s, e) \in Seq(S)
         /\ Append(s, e) # <<>>
         /\ \A i \in DOMAIN Append(s, e) :
              IF i \in DOMAIN s THEN Append(s, e)[i] = s[i] ELSE Append(s, e)[i] = e
         /\ \A i \in DOMAIN s : i \in DOMAIN Append(s, e)
         /\ \E i \in DOMAIN Append(s, e) : i \notin DOMAIN s /\ Append(s, e)[i] = e
         /\ \A i, j \in DOMAIN Append(s, e) : i \notin DOMAIN s /\ j \notin DOMAIN s => i = j
<1>1. Len(s) \in Nat /\ DOMAIN s = 1 .. Len(s)
  OBVIOUS
<1>2. /\ Append(s, e) \in Seq(S)
      /\ Len(Append(s, e)) = Len(s) + 1
      /\ \A i \in 1 .. Len(s) : Append(s, e)[i] = s[i]
      /\ Append(s, e)[Len(s) + 1] = e
  OBVIOUS
<1>3. DOMAIN Append(s, e) = 1 .. Len(s) + 1
  BY <1>2
<1>4. Append(s, e) # <<>>
  BY <1>1, <1>2
<1> QED
  BY <1>1, <1>2, <1>3, <1>4

LEMMA AppendedType ==
  ASSUME NEW S, NEW s \in Seq(S), NEW e \in S
  PROVE  Append(s, e) \in Seq(S) /\ Append(s, e) # <<>>
BY Zenon, AppendedSeq

\* t is s with e at its end, as far as the proofs look into it.
Appended(t, s, e) ==
  t # <<>> /\ \A i \in DOMAIN t : t[i] = e \/ (i \in DOMAIN s /\ t[i] = s[i])

LEMMA AppendedResult ==
  ASSUME NEW S, NEW s \in Seq(S), NEW e \in S
  PROVE  Appended(Append(s, e), s, e)
BY Zenon, AppendedSeq DEF Appended

LEMMA AppendedTo ==
  ASSUME NEW D, NEW S, NEW f \in [D -> Seq(S)], NEW x \in D, NEW e \in S
  PROVE  [f EXCEPT ![x] = Append(@, e)] \in [D -> Seq(S)]
<1>1. f[x] \in Seq(S)
  BY Zenon
<1>2. Append(f[x], e) \in Seq(S)
  BY Zenon, <1>1, AppendedType
<1> QED
  BY Zenon, <1>2

LEMMA ToppedSeq ==
  ASSUME NEW S, NEW s \in Seq(S), s # <<>>, NEW f \in S
  PROVE  /\ OnTop(f, s) \in Seq(S)
         /\ OnTop(f, s) # <<>>
         /\ Len(OnTop(f, s)) = Len(s)
         /\ Head(OnTop(f, s)) = f
         /\ DOMAIN OnTop(f, s) = DOMAIN s
         /\ \A i \in DOMAIN s : OnTop(f, s)[i] = IF i = 1 THEN f ELSE s[i]
<1>1. Len(s) \in Nat \ {0} /\ DOMAIN s = 1 .. Len(s)
  OBVIOUS
<1>2. /\ Tail(s) \in Seq(S)
      /\ Len(Tail(s)) = Len(s) - 1
      /\ \A i \in 1 .. Len(Tail(s)) : Tail(s)[i] = s[i + 1]
  OBVIOUS
<1>3. <<f>> \in Seq(S) /\ Len(<<f>>) = 1 /\ <<f>>[1] = f
  OBVIOUS
<1>4. /\ OnTop(f, s) \in Seq(S)
      /\ Len(OnTop(f, s)) = Len(s)
      /\ \A i \in 1 .. Len(s) :
           OnTop(f, s)[i] = IF i <= 1 THEN <<f>>[i] ELSE Tail(s)[i - 1]
  <2> HIDE <1>1
  <2>1. Len(<<f>>) + Len(Tail(s)) = Len(s)
    BY <1>1, <1>2, <1>3
  <2> QED
    BY <1>2, <1>3, <2>1 DEF OnTop
<1>5. DOMAIN OnTop(f, s) = DOMAIN s
  BY <1>1, <1>4
<1>6. OnTop(f, s) # <<>>
  BY Zenon, <1>1, <1>4
<1>7. \A i \in DOMAIN s : OnTop(f, s)[i] = IF i = 1 THEN f ELSE s[i]
  BY <1>1, <1>2, <1>3, <1>4
<1>8. Head(OnTop(f, s)) = OnTop(f, s)[1]
  BY Zenon, <1>4, <1>6, NonEmptySeq
<1> QED
  BY <1>1, <1>4, <1>5, <1>6, <1>7, <1>8

-----------------------------------------------------------------------------
(* The topology and the routing algorithm.                                 *)

LEMMA LinkEnds ==
  /\ \A x \in Routers \cup Nodes : \A c : c \in In(x) <=> c \in Channels /\ Dst[c] = x
  /\ \A x \in Routers \cup Nodes : \A c : c \in Out(x) <=> c \in Channels /\ Src[c] = x
  /\ \A c \in Channels : Src[c] \in Routers \cup Nodes /\ Dst[c] \in Routers \cup Nodes
  /\ \A r \in Routers : r \notin Nodes
BY Zenon, TopologyAssumption DEF In, Out, InLinks, OutLinks

LEMMA PortFacts ==
  ASSUME NEW r \in Routers
  PROVE  /\ NumIn(r) \in Nat \ {0}
         /\ NumOut(r) \in Nat \ {0}
         /\ DOMAIN InPorts[r] = 0 .. NumIn(r) - 1
         /\ \A i \in 0 .. NumIn(r) - 1 :
              InPorts[r][i] \in Channels /\ Dst[InPorts[r][i]] = r
         /\ \A k \in 0 .. NumOut(r) - 1 :
              OutPorts[r][k] \in Channels /\ Src[OutPorts[r][k]] = r
<1>1. /\ NumIn(r) \in Nat \ {0} /\ NumOut(r) \in Nat \ {0}
      /\ InPorts[r] \in [0 .. NumIn(r) - 1 -> In(r)]
      /\ OutPorts[r] \in [0 .. NumOut(r) - 1 -> Out(r)]
  BY Zenon, TopologyAssumption
<1>2. \A c : (c \in In(r) => c \in Channels /\ Dst[c] = r)
             /\ (c \in Out(r) => c \in Channels /\ Src[c] = r)
  BY Zenon, LinkEnds
<1> QED
  BY Zenon, <1>1, <1>2

LEMMA VcFacts ==
  /\ NumVcs \in Nat \ {0}
  /\ 0 \in VCs
  /\ \A v \in VCs : v \in Nat /\ v \in Int
  /\ -1 \notin VCs
  /\ \A v \in 0 .. VcsPerVnet - 1 : v \in VCs
  /\ \A k \in 0 .. NumVnets - 1 : k * VcsPerVnet \in VCs
<1>1. NumVnets \in Nat \ {0} /\ VcsPerVnet \in Nat \ {0}
  BY Zenon, ParameterAssumption
<1>2. NumVcs \in Nat \ {0} /\ VcsPerVnet <= NumVcs
  BY <1>1 DEF NumVcs
<1>3. \A k \in 0 .. NumVnets - 1 : k * VcsPerVnet \in Nat /\ k * VcsPerVnet < NumVcs
  BY <1>1 DEF NumVcs
<1> QED
  BY <1>1, <1>2, <1>3 DEF VCs

LEMMA FreeVcsType ==
  ASSUME NEW r \in Routers
  PROVE  FreeVcs(r) \in [Out(r) -> SUBSET (0 .. VcsPerVnet - 1)]
BY Zenon DEF FreeVcs, VacantVcs

\* A route stays on the router's own outports, and leads to an interface
\* only if that is the flit's destination.
LEMMA RouteFacts ==
  ASSUME NEW r \in Routers, NEW f \in Flit, NEW o \in Routes(r, f)
  PROVE  /\ o \in Out(r)
         /\ o \in Channels
         /\ Src[o] = r
         /\ IsLocal(o) => Dst[o] = PktDst[f.pkt]
<1>1. PktDst[f.pkt] \in Nodes
  BY Zenon, ParameterAssumption DEF Flit
<1>2. o \in Out(r) /\ (Dst[o] \in Nodes => Dst[o] = PktDst[f.pkt])
  BY <1>1, FreeVcsType, RouteAssumption DEF Routes
<1> QED
  BY <1>2, LinkEnds DEF IsLocal

-----------------------------------------------------------------------------
(* The swap pointer.                                                       *)

LEMMA PtrFacts ==
  /\ NoPtr \in SwapPtr
  /\ NoPtr.valid = FALSE
  /\ \A i \in Int, v \in Int :
       [valid |-> TRUE, inport |-> i, vcid |-> v] \in SwapPtr
BY DEF SwapPtr, NoPtr

\* movSwapPtr started from a valid pointer ends with one that is invalid or
\* points to an occupied VC.
LEMMA MovedPtr ==
  ASSUME NEW r \in Routers, NEW p \in SwapPtr, NEW buf,
         p.inport \in 0 .. NumIn(r) - 1, p.vcid \in VCs,
         NEW q \in movSwapPtr(r, p, buf)
  PROVE  q \in SwapPtr /\ PointsToFlit(r, q, buf)
<1>1. CASE Hits(r, p, buf) = {}
  <2>1. q = NoPtr
    BY Zenon, <1>1 DEF movSwapPtr
  <2> QED
    BY Zenon, <2>1, PtrFacts DEF PointsToFlit
<1>2. CASE Hits(r, p, buf) # {}
  <2>1. PICK x \in Hits(r, p, buf) :
          q = [valid |-> TRUE, inport |-> ProbedPort(r, p, x[1]),
               vcid |-> ProbedVc(r, p, x[1], x[2])]
    BY Zenon, <1>2 DEF movSwapPtr, First
  <2>2. x[1] \in 1 .. NumIn(r) /\ x[2] \in VCs /\ x[1] \in Nat
    BY PortFacts DEF Hits
  <2>3. ProbedPort(r, p, x[1]) \in 0 .. NumIn(r) - 1
    <3>1. p.inport + x[1] \in Nat /\ NumIn(r) \in Nat \ {0}
      BY <2>2, PortFacts
    <3> HIDE DEF NumIn
    <3> QED
      BY <3>1 DEF ProbedPort
  <2>4. ProbedVc(r, p, x[1], x[2]) \in VCs
    BY <2>2, VcFacts DEF ProbedVc, VCs
  <2>5. /\ ~Skipped(r, ProbedPort(r, p, x[1]))
        /\ buf[InPorts[r][ProbedPort(r, p, x[1])]][ProbedVc(r, p, x[1], x[2])] # <<>>
    BY Zenon DEF Hits
  <2>6. q \in SwapPtr
    <3>1. ProbedPort(r, p, x[1]) \in Int
      BY <2>3, PortFacts
    <3>2. ProbedVc(r, p, x[1], x[2]) \in Int
      BY Zenon, <2>4, VcFacts
    <3> QED
      BY Zenon, <2>1, <3>1, <3>2, PtrFacts
  <2> QED
    BY Zenon, <2>1, <2>3, <2>4, <2>5, <2>6 DEF PointsToFlit, PtrVc
<1> QED
  BY Zenon, <1>1, <1>2

\* A buffered flit names the VC it is in.
HeadsNameVc(r, buf) ==
  \A i \in 0 .. NumIn(r) - 1, v \in VCs :
    buf[InPorts[r][i]][v] # <<>> => Head(buf[InPorts[r][i]][v]).vc = v

\* The scan at the start of Router::wakeup keeps a good pointer good.
LEMMA ScannedPtr ==
  ASSUME NEW r \in Routers, NEW p \in SwapPtr, NEW buf,
         PointsToFlit(r, p, buf), HeadsNameVc(r, buf),
         NEW q \in scanBases(r, p, buf)
  PROVE  q \in SwapPtr /\ PointsToFlit(r, q, buf)
<1>1. CASE q = p
  BY Zenon, <1>1
<1>2. CASE q # p
  <2>1. PICK x \in Bases(r, buf) :
          q = makeSwapPtrValid(r, p, x[1], Head(buf[InPorts[r][x[1]]][x[2] * VcsPerVnet]))
    BY Zenon, <1>2 DEF scanBases, First
  <2> DEFINE v == x[2] * VcsPerVnet
  <2>2. x[1] \in 0 .. NumIn(r) - 1 /\ x[2] \in 0 .. NumVnets - 1
    BY Zenon DEF Bases
  <2>3. v \in VCs
    BY Zenon, <2>2, VcFacts
  <2>4. ~IsLocal(InPorts[r][x[1]]) /\ buf[InPorts[r][x[1]]][v] # <<>>
    BY Zenon DEF Bases
  <2>5. q = [valid |-> TRUE, inport |-> x[1], vcid |-> v]
    BY Zenon, <1>2, <2>1, <2>2, <2>3, <2>4 DEF makeSwapPtrValid, HeadsNameVc
  <2> HIDE DEF v
  <2>6. q \in SwapPtr
    BY <2>2, <2>3, <2>5, VcFacts, PortFacts, PtrFacts
  <2> QED
    BY Zenon, <2>2, <2>3, <2>4, <2>5, <2>6 DEF PointsToFlit, PtrVc, Skipped
<1> QED
  BY Zenon, <1>1, <1>2

-----------------------------------------------------------------------------
(* The structural invariant.                                               *)

\* While a router is in SA-II, the winners of SA-I are occupied VCs of it.
WinnerInv ==
  \A c \in Channels : winner[c] # -1 => active = Dst[c] /\ vcs[c][winner[c]] # <<>>

StructInv == TypeOK /\ FlitMatchesPlace /\ SwapPtrPointsToFlit /\ WinnerInv

LEMMA StructInit == Init => StructInv
<1> SUFFICES ASSUME Init PROVE StructInv
  BY Zenon
<1>1. TypeOK
  <2>1. outvc \in [Channels -> [VCs -> [state : {"IDLE", "ACTIVE"}, credit : Int]]]
    BY ParameterAssumption DEF Init
  <2>2. /\ outq \in [Channels -> Seq(Flit)]
        /\ link \in [Channels -> Seq(Flit)]
        /\ vcs \in [Channels -> [VCs -> Seq(Flit)]]
        /\ credq \in [Channels -> Seq(Credit)]
        /\ credlink \in [Channels -> Seq(Credit)]
    BY DEF Init
  <2>3. /\ vcstate \in [Channels -> [VCs -> {"IDLE", "ACTIVE"}]]
        /\ swap_ptr \in [Routers -> SwapPtr]
        /\ winner \in [Channels -> VCs \cup {-1}]
        /\ active \in Routers \cup {NoRouter}
        /\ stage \in {"idle", "units", "sa1", "sa2"}
        /\ port \in Nat
    BY Zenon, PtrFacts DEF Init
  <2>4. /\ is_swap \in [Routers -> BOOLEAN]
        /\ stalled \in [Nodes -> SUBSET Flit]
        /\ pending \subseteq Packets
        /\ delivered \subseteq Packets
        /\ aborted \in BOOLEAN
    BY Zenon DEF Init
  <2> QED
    BY Zenon, <2>1, <2>2, <2>3, <2>4 DEF TypeOK
<1>2. FlitMatchesPlace
  BY DEF Init, FlitMatchesPlace
<1>3. SwapPtrPointsToFlit
  BY Zenon, PtrFacts DEF Init, SwapPtrPointsToFlit, PointsToFlit
<1>4. WinnerInv
  BY Zenon DEF Init, WinnerInv
<1> QED
  BY Zenon, <1>1, <1>2, <1>3, <1>4 DEF StructInv

LEMMA StructFrame ==
  ASSUME StructInv, TypeOK', vcs' = vcs, swap_ptr' = swap_ptr,
         winner' = winner, active' = active
  PROVE  StructInv'
<1>1. FlitMatchesPlace'
  BY Zenon DEF StructInv, FlitMatchesPlace
<1>2. SwapPtrPointsToFlit'
  BY Zenon DEF StructInv, SwapPtrPointsToFlit, PointsToFlit, PtrVc
<1>3. WinnerInv'
  BY Zenon DEF StructInv, WinnerInv
<1> QED
  BY Zenon, <1>1, <1>2, <1>3 DEF StructInv

\* The flit that leaves through the switch names its VC downstream.
LEMMA DepartingFlit ==
  ASSUME NEW f \in Flit, NEW w \in VCs
  PROVE  Departing(f, w) \in Flit /\ Departing(f, w).vc = w /\ Departing(f, w).pkt = f.pkt
BY Zenon DEF Flit, Departing

-----------------------------------------------------------------------------
(* What a wakeup reads.                                                   *)

\* The pointer with which Router::wakeup tries a swap.
LEMMA ValidatedPtrFacts ==
  ASSUME StructInv, NEW r \in Routers, NEW p \in ValidatedPtr(r)
  PROVE  /\ p \in SwapPtr
         /\ Interswap => PointsToFlit(r, p, vcs)
<1>1. swap_ptr[r] \in SwapPtr
  BY Zenon DEF StructInv, TypeOK
<1>2. CASE ~Interswap
  BY Zenon, <1>1, <1>2 DEF ValidatedPtr
<1>3. CASE Interswap
  <2>1. HeadsNameVc(r, vcs)
    <3> SUFFICES ASSUME NEW i \in 0 .. NumIn(r) - 1, NEW v \in VCs,
                        vcs[InPorts[r][i]][v] # <<>>
                 PROVE  Head(vcs[InPorts[r][i]][v]).vc = v
      BY Zenon DEF HeadsNameVc
    <3>1. InPorts[r][i] \in Channels
      BY Zenon, PortFacts
    <3>2. vcs[InPorts[r][i]][v] \in Seq(Flit)
      BY Zenon, <3>1 DEF StructInv, TypeOK
    <3>3. /\ Head(vcs[InPorts[r][i]][v]) = vcs[InPorts[r][i]][v][1]
          /\ 1 \in DOMAIN vcs[InPorts[r][i]][v]
      BY Zenon, <3>2, NonEmptySeq
    <3> QED
      BY <3>1, <3>3 DEF StructInv, FlitMatchesPlace, InPlace
  <2>2. PointsToFlit(r, swap_ptr[r], vcs)
    BY Zenon, <1>3 DEF StructInv, SwapPtrPointsToFlit
  <2>3. p \in scanBases(r, swap_ptr[r], vcs)
    BY Zenon, <1>3 DEF ValidatedPtr
  <2> QED
    BY Zenon, <1>1, <2>1, <2>2, <2>3, ScannedPtr
<1> QED
  BY Zenon, <1>2, <1>3

\* Between handlers there are no requests.
LEMMA NoRequests ==
  ASSUME StructInv, active = NoRouter
  PROVE  \A c \in Channels : winner[c] = -1
BY TopologyAssumption, LinkEnds DEF StructInv, WinnerInv

\* The flits that the input units of router r take from their links.
LEMMA ArrivalFacts ==
  ASSUME TypeOK, NEW r \in Routers, NEW c \in Arrivals(r),
         NEW o \in Routes(r, Head(link[c]))
  PROVE  /\ c \in Channels /\ Dst[c] = r /\ link[c] # <<>>
         /\ Head(link[c]) \in Flit
         /\ Tail(link[c]) \in Seq(Flit)
         /\ RoutedHead(c, o) \in Flit
         /\ RoutedHead(c, o).vc = Head(link[c]).vc
         /\ RoutedHead(c, o).out = o
         /\ InPlace(RoutedHead(c, o), c, Head(link[c]).vc)
<1>1. c \in Channels /\ Dst[c] = r /\ link[c] # <<>>
  BY Zenon, LinkEnds DEF Arrivals
<1>2. Head(link[c]) \in Flit /\ Tail(link[c]) \in Seq(Flit)
  BY Zenon, <1>1, NonEmptySeq DEF TypeOK
<1>3. o \in Out(r) /\ o \in Channels /\ (IsLocal(o) => Dst[o] = PktDst[Head(link[c]).pkt])
  BY <1>2, RouteFacts
<1>4. /\ RoutedHead(c, o) \in Flit
      /\ RoutedHead(c, o).vc = Head(link[c]).vc
      /\ RoutedHead(c, o).out = o
      /\ RoutedHead(c, o).pkt = Head(link[c]).pkt
  BY Zenon, <1>2, <1>3 DEF RoutedHead, Flit
<1> QED
  BY Zenon, <1>1, <1>2, <1>3, <1>4 DEF InPlace

\* What the interfaces do to the out-queue, the VC states and the credits.
LEMMA CreditedVcType ==
  ASSUME TypeOK, NEW c \in Channels, credlink[c] # <<>>
  PROVE  /\ Head(credlink[c]) \in Credit
         /\ Head(credlink[c]).vc \in VCs
         /\ Tail(credlink[c]) \in Seq(Credit)
         /\ CreditedVc(outvc[c][Head(credlink[c]).vc], Head(credlink[c]))
              \in [state : {"IDLE", "ACTIVE"}, credit : Int]
<1>1. Head(credlink[c]) \in Credit /\ Tail(credlink[c]) \in Seq(Credit)
  BY Zenon, NonEmptySeq DEF TypeOK
<1>2. Head(credlink[c]).vc \in VCs
  BY Zenon, <1>1 DEF Credit
<1>3. outvc[c][Head(credlink[c]).vc] \in [state : {"IDLE", "ACTIVE"}, credit : Int]
  BY <1>2 DEF TypeOK
<1> QED
  BY SMTT(30), <1>1, <1>2, <1>3 DEF CreditedVc

-----------------------------------------------------------------------------
(* Router::wakeup apart from swaps.                                        *)

LEMMA StructRequests ==
  ASSUME StructInv, TypeOK', WinnerInv', vcs' = vcs, swap_ptr' = swap_ptr
  PROVE  StructInv'
<1>1. FlitMatchesPlace'
  BY Zenon DEF StructInv, FlitMatchesPlace
<1>2. SwapPtrPointsToFlit'
  BY Zenon DEF StructInv, SwapPtrPointsToFlit, PointsToFlit, PtrVc
<1> QED
  BY Zenon, <1>1, <1>2 DEF StructInv

LEMMA StructInports ==
  ASSUME StructInv, NEW r \in Routers, arbitrate_inports(r)
  PROVE  StructInv'
<1>1. TypeOK
  BY Zenon DEF StructInv
<1>2. PICK w \in [In(r) -> VCs \cup {-1}] :
        /\ \A c \in In(r) : IF \E v \in VCs : send_allowed(c, v)
                            THEN w[c] # -1 /\ send_allowed(c, w[c])
                            ELSE w[c] = -1
        /\ winner' = [c \in Channels |-> IF c \in In(r) THEN w[c] ELSE winner[c]]
  BY Zenon DEF arbitrate_inports
<1>3. winner' \in [Channels -> VCs \cup {-1}]
  BY Zenon, <1>1, <1>2 DEF TypeOK
<1>4. TypeOK'
  <2>1. stage' \in {"idle", "units", "sa1", "sa2"} /\ port' \in Nat
    BY Zenon DEF arbitrate_inports
  <2> QED
    BY Zenon, <1>1, <1>3, <2>1 DEF TypeOK, arbitrate_inports, upVars, downVars, swapVars, niVars
<1>5. WinnerInv'
  <2> SUFFICES ASSUME NEW c \in Channels, winner'[c] # -1
               PROVE  active' = Dst[c] /\ vcs'[c][winner'[c]] # <<>>
    BY Zenon DEF WinnerInv
  <2>1. active' = r /\ active = r /\ vcs' = vcs
    BY Zenon DEF arbitrate_inports, downVars
  <2>2. CASE c \in In(r)
    <3>1. winner'[c] = w[c] /\ send_allowed(c, w[c])
      BY Zenon, <1>2, <2>2
    <3> QED
      BY Zenon, <2>1, <2>2, <3>1, LinkEnds DEF send_allowed
  <2>3. CASE c \notin In(r)
    <3>1. winner'[c] = winner[c]
      BY Zenon, <1>2, <2>3
    <3> QED
      BY Zenon, <2>1, <3>1 DEF StructInv, WinnerInv
  <2> QED
    BY Zenon, <2>2, <2>3
<1> QED
  BY Zenon, <1>4, <1>5, StructRequests DEF arbitrate_inports, downVars, swapVars

LEMMA StructClear ==
  ASSUME StructInv, NEW r \in Routers, clear_request_vector(r)
  PROVE  StructInv'
<1>1. TypeOK
  BY Zenon DEF StructInv
<1>2. \A c \in Channels : winner'[c] = -1
  <2> SUFFICES ASSUME NEW c \in Channels PROVE winner'[c] = -1
    BY Zenon
  <2>1. active = r /\ winner'[c] = IF c \in In(r) THEN -1 ELSE winner[c]
    BY Zenon DEF clear_request_vector
  <2>2. c \notin In(r) => winner[c] = -1
    BY Zenon, <2>1, LinkEnds DEF StructInv, WinnerInv
  <2> QED
    BY Zenon, <2>1, <2>2
<1>3. winner' \in [Channels -> VCs \cup {-1}]
  BY Zenon, <1>1, <1>2 DEF TypeOK, clear_request_vector
<1>4. TypeOK'
  <2>1. /\ stage' \in {"idle", "units", "sa1", "sa2"} /\ port' \in Nat
        /\ active' \in Routers \cup {NoRouter}
    BY Zenon DEF clear_request_vector
  <2> QED
    BY Zenon, <1>1, <1>3, <2>1 DEF TypeOK, clear_request_vector, upVars, downVars, swapVars, niVars
<1>5. WinnerInv'
  BY Zenon, <1>2 DEF WinnerInv
<1> QED
  BY Zenon, <1>4, <1>5, StructRequests DEF clear_request_vector, downVars, swapVars

LEMMA StructNoSwap ==
  ASSUME StructInv, NEW r \in Routers, NEW turn \in BOOLEAN, wakeup_noSwap(r, turn)
  PROVE  StructInv'
<1>1. TypeOK
  BY Zenon DEF StructInv
<1>2. PICK p \in ValidatedPtr(r) : swap_ptr' = [swap_ptr EXCEPT ![r] = p]
  BY Zenon DEF wakeup_noSwap
<1>3. p \in SwapPtr /\ (Interswap => PointsToFlit(r, p, vcs))
  BY Zenon, ValidatedPtrFacts
<1>4. vcs' = vcs /\ winner' = winner /\ active = NoRouter
  BY Zenon DEF wakeup_noSwap, BeginWakeup, Idle
<1>5. TypeOK'
  <2>1. swap_ptr' \in [Routers -> SwapPtr]
    BY Zenon, <1>1, <1>2, <1>3 DEF TypeOK
  <2>2. stage' \in {"idle", "units", "sa1", "sa2"} /\ active' \in Routers \cup {NoRouter}
    BY Zenon DEF wakeup_noSwap, BeginWakeup
  <2> QED
    BY Zenon, <1>1, <2>1, <2>2 DEF TypeOK, wakeup_noSwap, BeginWakeup, upVars, niVars
<1>6. FlitMatchesPlace'
  BY Zenon, <1>4 DEF StructInv, FlitMatchesPlace
<1>7. SwapPtrPointsToFlit'
  <2> SUFFICES ASSUME Interswap, NEW x \in Routers
               PROVE  PointsToFlit(x, swap_ptr'[x], vcs)
    BY Zenon, <1>4 DEF SwapPtrPointsToFlit
  <2>1. swap_ptr'[x] = IF x = r THEN p ELSE swap_ptr[x]
    BY Zenon, <1>1, <1>2 DEF TypeOK
  <2> QED
    BY Zenon, <1>3, <2>1 DEF StructInv, SwapPtrPointsToFlit
<1>8. WinnerInv'
  BY Zenon, <1>4, NoRequests DEF WinnerInv
<1> QED
  BY Zenon, <1>5, <1>6, <1>7, <1>8 DEF StructInv

LEMMA StructDeclined ==
  ASSUME StructInv, NEW r \in Routers, wakeup_declined(r)
  PROVE  StructInv'
<1>1. TypeOK
  BY Zenon DEF StructInv
<1>2. PICK p \in ValidatedPtr(r) :
        p.valid /\ \E q \in movSwapPtr(r, p, vcs) : swap_ptr' = [swap_ptr EXCEPT ![r] = q]
  BY Zenon DEF wakeup_declined
<1>3. PICK q \in movSwapPtr(r, p, vcs) : swap_ptr' = [swap_ptr EXCEPT ![r] = q]
  BY Zenon, <1>2
<1>4. p \in SwapPtr /\ p.inport \in 0 .. NumIn(r) - 1 /\ p.vcid \in VCs
  BY Zenon, <1>2, ValidatedPtrFacts DEF wakeup_declined, PointsToFlit
<1>5. q \in SwapPtr /\ PointsToFlit(r, q, vcs)
  BY Zenon, <1>3, <1>4, MovedPtr
<1>6. vcs' = vcs /\ winner' = winner /\ active = NoRouter
  BY Zenon DEF wakeup_declined, BeginWakeup, Idle
<1>7. TypeOK'
  <2>1. swap_ptr' \in [Routers -> SwapPtr]
    BY Zenon, <1>1, <1>3, <1>5 DEF TypeOK
  <2>2. stage' \in {"idle", "units", "sa1", "sa2"} /\ active' \in Routers \cup {NoRouter}
    BY Zenon DEF wakeup_declined, BeginWakeup
  <2> QED
    BY Zenon, <1>1, <2>1, <2>2 DEF TypeOK, wakeup_declined, BeginWakeup, upVars, niVars
<1>8. FlitMatchesPlace'
  BY Zenon, <1>6 DEF StructInv, FlitMatchesPlace
<1>9. SwapPtrPointsToFlit'
  <2> SUFFICES ASSUME Interswap, NEW x \in Routers
               PROVE  PointsToFlit(x, swap_ptr'[x], vcs)
    BY Zenon, <1>6 DEF SwapPtrPointsToFlit
  <2>1. swap_ptr'[x] = IF x = r THEN q ELSE swap_ptr[x]
    BY Zenon, <1>1, <1>3 DEF TypeOK
  <2> QED
    BY Zenon, <1>5, <2>1 DEF StructInv, SwapPtrPointsToFlit
<1>10. WinnerInv'
  BY Zenon, <1>6, NoRequests DEF WinnerInv
<1> QED
  BY Zenon, <1>7, <1>8, <1>9, <1>10 DEF StructInv

LEMMA StructUnits ==
  ASSUME StructInv, NEW r \in Routers, Units(r)
  PROVE  StructInv'
<1>1. TypeOK
  BY Zenon DEF StructInv
<1>2. PICK rt \in [Arrivals(r) -> Out(r)] :
        /\ \A c \in Arrivals(r) : rt[c] \in Routes(r, Head(link[c]))
        /\ link' = [c \in Channels |->
             IF c \in Arrivals(r) THEN Tail(link[c]) ELSE link[c]]
        /\ vcstate' = [c \in Channels |->
             IF c \in Arrivals(r)
             THEN [vcstate[c] EXCEPT ![Head(link[c]).vc] = "ACTIVE"] ELSE vcstate[c]]
        /\ vcs' = [c \in Channels |->
             IF c \in Arrivals(r)
             THEN [vcs[c] EXCEPT ![Head(link[c]).vc] = Append(@, RoutedHead(c, rt[c]))]
             ELSE vcs[c]]
        /\ \E q \in PtrAfterArrivals(r, rt) : swap_ptr' = [swap_ptr EXCEPT ![r] = q]
  BY Zenon DEF Units, InputUnit_wakeup
<1>3. PICK q \in PtrAfterArrivals(r, rt) : swap_ptr' = [swap_ptr EXCEPT ![r] = q]
  BY Zenon, <1>2
<1>4. \A c \in Arrivals(r) :
        /\ c \in Channels /\ Dst[c] = r /\ link[c] # <<>>
        /\ Head(link[c]) \in Flit
        /\ Head(link[c]).vc \in VCs
        /\ Tail(link[c]) \in Seq(Flit)
        /\ RoutedHead(c, rt[c]) \in Flit
        /\ RoutedHead(c, rt[c]).vc = Head(link[c]).vc
        /\ RoutedHead(c, rt[c]).out = rt[c]
        /\ InPlace(RoutedHead(c, rt[c]), c, Head(link[c]).vc)
  <2> SUFFICES ASSUME NEW c \in Arrivals(r)
               PROVE  /\ c \in Channels /\ Dst[c] = r /\ link[c] # <<>>
                      /\ Head(link[c]) \in Flit
                      /\ Head(link[c]).vc \in VCs
                      /\ Tail(link[c]) \in Seq(Flit)
                      /\ RoutedHead(c, rt[c]) \in Flit
                      /\ RoutedHead(c, rt[c]).vc = Head(link[c]).vc
                      /\ RoutedHead(c, rt[c]).out = rt[c]
                      /\ InPlace(RoutedHead(c, rt[c]), c, Head(link[c]).vc)
    BY Zenon
  <2>1. rt[c] \in Routes(r, Head(link[c]))
    BY Zenon, <1>2
  <2>2. Head(link[c]) \in Flit => Head(link[c]).vc \in VCs
    BY Zenon DEF Flit
  <2> QED
    BY SMTT(30), <1>1, <2>1, <2>2, ArrivalFacts
<1>5. \A c \in Channels, v \in VCs :
        vcs'[c][v] = IF c \in Arrivals(r) /\ v = Head(link[c]).vc
                     THEN Append(vcs[c][v], RoutedHead(c, rt[c])) ELSE vcs[c][v]
  BY Zenon, <1>1, <1>2, <1>4 DEF TypeOK
<1>6. vcs' \in [Channels -> [VCs -> Seq(Flit)]]
  <2>1. \A c \in Arrivals(r) :
          Append(vcs[c][Head(link[c]).vc], RoutedHead(c, rt[c])) \in Seq(Flit)
    BY SMTT(30), <1>1, <1>4, AppendedType DEF TypeOK
  <2> QED
    BY Zenon, <1>1, <1>2, <1>4, <2>1 DEF TypeOK
<1>7. \A c \in Channels, v \in VCs : vcs[c][v] # <<>> => vcs'[c][v] # <<>>
  <2> SUFFICES ASSUME NEW c \in Channels, NEW v \in VCs, vcs[c][v] # <<>>
               PROVE  vcs'[c][v] # <<>>
    BY Zenon
  <2>1. vcs[c][v] \in Seq(Flit)
    BY Zenon, <1>1 DEF TypeOK
  <2>2. ASSUME c \in Arrivals(r)
        PROVE  Append(vcs[c][v], RoutedHead(c, rt[c])) # <<>>
    <3>1. RoutedHead(c, rt[c]) \in Flit
      BY Zenon, <1>4, <2>2
    <3>2. Appended(Append(vcs[c][v], RoutedHead(c, rt[c])), vcs[c][v], RoutedHead(c, rt[c]))
      BY Zenon, <2>1, <3>1, AppendedResult
    <3> QED
      BY Zenon, <3>2 DEF Appended
  <2> QED
    BY Zenon, <1>5, <2>2
<1>8. q \in SwapPtr /\ (Interswap => PointsToFlit(r, q, vcs'))
  <2>1. swap_ptr[r] \in SwapPtr
    BY Zenon, <1>1 DEF TypeOK
  <2>2. CASE q = swap_ptr[r]
    <3>1. ASSUME Interswap PROVE PointsToFlit(r, q, vcs')
      <4>1. PointsToFlit(r, q, vcs)
        BY Zenon, <2>2, <3>1 DEF StructInv, SwapPtrPointsToFlit
      <4>2. q.valid => PtrVc(r, q) \in Channels /\ q.vcid \in VCs
        BY Zenon, <4>1, PortFacts DEF PointsToFlit, PtrVc
      <4> QED
        BY Zenon, <1>7, <4>1, <4>2 DEF PointsToFlit
    <3> QED
      BY Zenon, <2>1, <2>2, <3>1
  <2>3. CASE q # swap_ptr[r]
    <3>1. PICK i \in 0 .. NumIn(r) - 1 :
            /\ InPorts[r][i] \in Arrivals(r)
            /\ ~IsLocal(InPorts[r][i])
            /\ q = makeSwapPtrValid(r, swap_ptr[r], i,
                     RoutedHead(InPorts[r][i], rt[InPorts[r][i]]))
      BY Zenon, <2>3 DEF PtrAfterArrivals
    <3> DEFINE c == InPorts[r][i]
               v == Head(link[c]).vc
    <3>2. q = [valid |-> TRUE, inport |-> i, vcid |-> v]
      BY Zenon, <1>4, <2>3, <3>1 DEF makeSwapPtrValid
    <3>3. /\ v \in VCs /\ c \in Channels /\ c \in Arrivals(r)
          /\ v = Head(link[c]).vc /\ c = InPorts[r][i]
      BY Zenon, <1>4, <3>1
    <3>4. q \in SwapPtr
      BY SMTT(30), <3>2, <3>3, PtrFacts, VcFacts, PortFacts
    <3> HIDE DEF c, v
    <3>5. vcs[c][v] \in Seq(Flit) /\ RoutedHead(c, rt[c]) \in Flit
      BY Zenon, <1>1, <1>4, <3>3 DEF TypeOK
    <3>6. vcs'[c][v] = Append(vcs[c][v], RoutedHead(c, rt[c]))
      BY Zenon, <1>5, <3>3
    <3>7. vcs'[c][v] # <<>>
      <4>1. Appended(Append(vcs[c][v], RoutedHead(c, rt[c])), vcs[c][v], RoutedHead(c, rt[c]))
        BY Zenon, <3>5, AppendedResult
      <4> QED
        BY Zenon, <3>6, <4>1 DEF Appended
    <3>8. q.valid /\ q.inport = i /\ q.vcid = v /\ PtrVc(r, q) = c
      BY Zenon, <3>2, <3>3 DEF PtrVc
    <3>9. ~Skipped(r, i)
      BY Zenon, <3>1 DEF Skipped
    <3> QED
      BY Zenon, <3>3, <3>4, <3>7, <3>8, <3>9 DEF PointsToFlit
  <2> QED
    BY Zenon, <2>2, <2>3
<1>9. TypeOK'
  <2>1. link' \in [Channels -> Seq(Flit)]
    BY Zenon, <1>1, <1>2, <1>4 DEF TypeOK
  <2>2. vcstate' \in [Channels -> [VCs -> {"IDLE", "ACTIVE"}]]
    BY Zenon, <1>1, <1>2, <1>4 DEF TypeOK
  <2>3. swap_ptr' \in [Routers -> SwapPtr]
    BY Zenon, <1>1, <1>3, <1>8 DEF TypeOK
  <2>4. credlink' \in [Channels -> Seq(Credit)]
    BY Zenon, <1>1, CreditedVcType DEF TypeOK, Units, OutputUnit_wakeup
  <2>5. outvc' \in [Channels -> [VCs -> [state : {"IDLE", "ACTIVE"}, credit : Int]]]
    BY Zenon, <1>1, CreditedVcType DEF TypeOK, Units, OutputUnit_wakeup
  <2>6. stage' \in {"idle", "units", "sa1", "sa2"}
    BY Zenon DEF Units
  <2> QED
    BY Zenon, <1>1, <1>6, <2>1, <2>2, <2>3, <2>4, <2>5, <2>6 DEF TypeOK, Units, niVars
<1>10. FlitMatchesPlace'
  <2> SUFFICES ASSUME NEW c \in Channels, NEW v \in VCs, NEW i \in DOMAIN vcs'[c][v]
               PROVE  InPlace(vcs'[c][v][i], c, v)
    BY Zenon DEF FlitMatchesPlace, InPlace
  <2>1. CASE c \in Arrivals(r) /\ v = Head(link[c]).vc
    <3>1. vcs[c][v] \in Seq(Flit) /\ RoutedHead(c, rt[c]) \in Flit
      BY Zenon, <1>1, <1>4, <2>1 DEF TypeOK
    <3>2. vcs'[c][v] = Append(vcs[c][v], RoutedHead(c, rt[c]))
      BY Zenon, <1>5, <2>1
    <3>3. vcs'[c][v][i] = RoutedHead(c, rt[c])
          \/ (i \in DOMAIN vcs[c][v] /\ vcs'[c][v][i] = vcs[c][v][i])
      <4>1. Appended(Append(vcs[c][v], RoutedHead(c, rt[c])), vcs[c][v], RoutedHead(c, rt[c]))
        BY Zenon, <3>1, AppendedResult
      <4>2. Appended(vcs'[c][v], vcs[c][v], RoutedHead(c, rt[c]))
        BY Zenon, <3>2, <4>1
      <4> QED
        BY Zenon, <4>2 DEF Appended
    <3> QED
      BY Zenon, <1>4, <2>1, <3>3 DEF StructInv, FlitMatchesPlace
  <2>2. CASE ~(c \in Arrivals(r) /\ v = Head(link[c]).vc)
    BY Zenon, <1>5, <2>2 DEF StructInv, FlitMatchesPlace
  <2> QED
    BY Zenon, <2>1, <2>2
<1>11. SwapPtrPointsToFlit'
  <2> SUFFICES ASSUME Interswap, NEW x \in Routers
               PROVE  PointsToFlit(x, swap_ptr'[x], vcs')
    BY Zenon DEF SwapPtrPointsToFlit
  <2>1. CASE x = r
    BY Zenon, <1>1, <1>3, <1>8, <2>1 DEF TypeOK
  <2>2. CASE x # r
    <3>1. swap_ptr'[x] = swap_ptr[x] /\ PointsToFlit(x, swap_ptr[x], vcs)
      BY Zenon, <1>1, <1>3, <2>2 DEF TypeOK, StructInv, SwapPtrPointsToFlit
    <3>2. swap_ptr[x].valid => PtrVc(x, swap_ptr[x]) \in Channels /\ swap_ptr[x].vcid \in VCs
      BY Zenon, <3>1, PortFacts DEF PointsToFlit, PtrVc
    <3> QED
      BY Zenon, <1>7, <3>1, <3>2 DEF PointsToFlit
  <2> QED
    BY Zenon, <2>1, <2>2
<1>12. WinnerInv'
  <2>1. active' = active /\ winner' = winner
    BY Zenon DEF Units
  <2>2. \A c \in Channels : winner[c] # -1 => winner[c] \in VCs
    BY Zenon, <1>1 DEF TypeOK
  <2> QED
    BY Zenon, <1>7, <2>1, <2>2 DEF StructInv, WinnerInv
<1> QED
  BY Zenon, <1>9, <1>10, <1>11, <1>12 DEF StructInv

LEMMA StructOutports ==
  ASSUME StructInv, NEW r \in Routers, NEW k \in 0 .. NumOut(r) - 1, arbitrate_outports(r, k)
  PROVE  StructInv'
<1>1. TypeOK
  BY Zenon DEF StructInv
<1> DEFINE o == OutPorts[r][k]
<1>2. PICK c \in Requesters(r, k) :
        \E w \in select_free_vc(o, VnetOf(winner[c])) : Grant(r, c, winner[c], o, w)
  BY Zenon DEF arbitrate_outports
<1> DEFINE v == winner[c]
<1>3. PICK w \in select_free_vc(o, VnetOf(v)) : Grant(r, c, v, o, w)
  BY Zenon, <1>2
<1>4. PICK q \in PtrAfterDeparture(r, c, v, vcs') : swap_ptr' = [swap_ptr EXCEPT ![r] = q]
  BY Zenon, <1>3 DEF Grant
<1>5. /\ c \in Channels /\ Dst[c] = r /\ v \in VCs /\ v # -1
      /\ o \in Channels /\ w \in VCs
      /\ vcs[c][v] # <<>>
  <2>1. c \in Channels /\ Dst[c] = r /\ v # -1
    BY Zenon, LinkEnds DEF Requesters
  <2>2. v \in VCs
    BY Zenon, <1>1, <2>1 DEF TypeOK
  <2>3. o \in Channels
    BY Zenon, PortFacts
  <2>4. w \in VCs
    BY Zenon DEF select_free_vc, IdleVcs
  <2> QED
    BY Zenon, <2>1, <2>2, <2>3, <2>4 DEF StructInv, WinnerInv
<1> HIDE DEF o, v
<1>6. /\ Head(vcs[c][v]) \in Flit
      /\ Tail(vcs[c][v]) \in Seq(Flit)
      /\ \A i \in DOMAIN Tail(vcs[c][v]) :
           i + 1 \in DOMAIN vcs[c][v] /\ Tail(vcs[c][v])[i] = vcs[c][v][i + 1]
  <2>1. vcs[c][v] \in Seq(Flit)
    BY Zenon, <1>1, <1>5 DEF TypeOK
  <2> QED
    BY Zenon, <1>5, <2>1, NonEmptySeq
<1>7. \A d \in Channels, u \in VCs :
        vcs'[d][u] = IF d = c /\ u = v THEN Tail(vcs[c][v]) ELSE vcs[d][u]
  <2>1. vcs' = [vcs EXCEPT ![c][v] = Tail(@)] /\ vcs \in [Channels -> [VCs -> Seq(Flit)]]
    BY Zenon, <1>1, <1>3 DEF Grant, TypeOK
  <2> QED
    BY Zenon, <1>5, <2>1
<1>8. q \in SwapPtr /\ (Interswap => PointsToFlit(r, q, vcs'))
  <2> DEFINE p == swap_ptr[r]
  <2>1. p \in SwapPtr
    BY Zenon, <1>1 DEF TypeOK
  <2>2. CASE Interswap /\ p.inport \in DOMAIN InPorts[r] /\ PtrVc(r, p) = c /\ p.vcid = v
    <3>1. q \in movSwapPtr(r, p, vcs')
      BY Zenon, <2>2 DEF PtrAfterDeparture
    <3>2. p.inport \in 0 .. NumIn(r) - 1 /\ p.vcid \in VCs
      BY Zenon, <1>5, <2>2, PortFacts
    <3> HIDE DEF p
    <3> QED
      BY Zenon, <2>1, <3>1, <3>2, MovedPtr
  <2>3. CASE ~(Interswap /\ p.inport \in DOMAIN InPorts[r] /\ PtrVc(r, p) = c /\ p.vcid = v)
    <3>1. q = p
      BY Zenon, <2>3 DEF PtrAfterDeparture
    <3>2. ASSUME Interswap PROVE PointsToFlit(r, p, vcs')
      <4>1. PointsToFlit(r, p, vcs)
        BY Zenon, <3>2 DEF StructInv, SwapPtrPointsToFlit
      <4>2. p.valid => /\ p.inport \in DOMAIN InPorts[r]
                       /\ PtrVc(r, p) \in Channels /\ p.vcid \in VCs
        BY <4>1, PortFacts DEF PointsToFlit, PtrVc
      <4>3. p.valid => vcs'[PtrVc(r, p)][p.vcid] = vcs[PtrVc(r, p)][p.vcid]
        BY Zenon, <1>7, <2>3, <3>2, <4>2
      <4> QED
        BY Zenon, <4>1, <4>3 DEF PointsToFlit
    <3> QED
      BY Zenon, <2>1, <3>1, <3>2
  <2> QED
    BY Zenon, <2>2, <2>3
<1>9. TypeOK'
  <2>1. vcs' \in [Channels -> [VCs -> Seq(Flit)]]
    <3>1. vcs' = [vcs EXCEPT ![c][v] = Tail(@)] /\ vcs \in [Channels -> [VCs -> Seq(Flit)]]
      BY Zenon, <1>1, <1>3 DEF Grant, TypeOK
    <3> QED
      BY Zenon, <1>5, <1>6, <3>1
  <2>2. vcstate' \in [Channels -> [VCs -> {"IDLE", "ACTIVE"}]]
    <3>1. /\ vcstate' = [vcstate EXCEPT ![c][v] = "IDLE"]
          /\ vcstate \in [Channels -> [VCs -> {"IDLE", "ACTIVE"}]]
      BY Zenon, <1>1, <1>3 DEF Grant, set_idle, TypeOK
    <3> QED
      BY Zenon, <3>1
  <2>3. credq' \in [Channels -> Seq(Credit)]
    <3>1. [vc |-> v, free |-> TRUE] \in Credit
      BY Zenon, <1>5 DEF Credit
    <3>2. /\ credq' = [credq EXCEPT ![c] = Append(@, [vc |-> v, free |-> TRUE])]
          /\ credq \in [Channels -> Seq(Credit)]
      BY Zenon, <1>1, <1>3 DEF Grant, TypeOK
    <3> QED
      BY SMTT(30), <1>5, <3>1, <3>2, AppendedTo
  <2>4. outvc' \in [Channels -> [VCs -> [state : {"IDLE", "ACTIVE"}, credit : Int]]]
    <3>1. /\ outvc' = [outvc EXCEPT ![o][w] = [state |-> "ACTIVE", credit |-> @.credit - 1]]
          /\ outvc \in [Channels -> [VCs -> [state : {"IDLE", "ACTIVE"}, credit : Int]]]
      BY Zenon, <1>1, <1>3 DEF Grant, TypeOK
    <3>2. [state |-> "ACTIVE", credit |-> outvc[o][w].credit - 1]
            \in [state : {"IDLE", "ACTIVE"}, credit : Int]
      BY SMTT(30), <1>5, <3>1
    <3> QED
      BY Zenon, <1>5, <3>1, <3>2
  <2>5. outq' \in [Channels -> Seq(Flit)]
    <3>1. Departing(Head(vcs[c][v]), w) \in Flit
      BY Zenon, <1>5, <1>6, DepartingFlit
    <3>2. /\ outq' = [outq EXCEPT ![o] = Append(@, Departing(Head(vcs[c][v]), w))]
          /\ outq \in [Channels -> Seq(Flit)]
      BY Zenon, <1>1, <1>3 DEF Grant, TypeOK
    <3> QED
      BY SMTT(30), <1>5, <3>1, <3>2, AppendedTo
  <2>6. is_swap' \in [Routers -> BOOLEAN]
    BY Zenon, <1>1, <1>3 DEF TypeOK, Grant, IsSwapAfterDeparture
  <2>7. swap_ptr' \in [Routers -> SwapPtr]
    BY Zenon, <1>1, <1>4, <1>8 DEF TypeOK
  <2>8. winner' \in [Channels -> VCs \cup {-1}]
    BY Zenon, <1>1, <1>3 DEF TypeOK, Grant
  <2>9. port' \in Nat
    <3>1. port' = k + 1 /\ k \in Nat
      BY SMTT(30), PortFacts DEF arbitrate_outports
    <3> QED
      BY <3>1
  <2> QED
    BY Zenon, <1>1, <2>1, <2>2, <2>3, <2>4, <2>5, <2>6, <2>7, <2>8, <2>9
       DEF TypeOK, arbitrate_outports, niVars
<1>10. FlitMatchesPlace'
  <2> SUFFICES ASSUME NEW d \in Channels, NEW u \in VCs, NEW i \in DOMAIN vcs'[d][u]
               PROVE  InPlace(vcs'[d][u][i], d, u)
    BY Zenon DEF FlitMatchesPlace, InPlace
  <2>1. CASE d = c /\ u = v
    <3>1. vcs'[d][u] = Tail(vcs[c][v])
      BY Zenon, <1>7, <2>1
    <3>2. i + 1 \in DOMAIN vcs[c][v] /\ vcs'[d][u][i] = vcs[c][v][i + 1]
      BY Zenon, <1>6, <3>1
    <3>3. InPlace(vcs[c][v][i + 1], c, v)
      BY Zenon, <1>5, <3>2 DEF StructInv, FlitMatchesPlace
    <3> QED
      BY Zenon, <2>1, <3>2, <3>3
  <2>2. CASE ~(d = c /\ u = v)
    BY Zenon, <1>7, <2>2 DEF StructInv, FlitMatchesPlace
  <2> QED
    BY Zenon, <2>1, <2>2
<1>11. SwapPtrPointsToFlit'
  <2> SUFFICES ASSUME Interswap, NEW x \in Routers
               PROVE  PointsToFlit(x, swap_ptr'[x], vcs')
    BY Zenon DEF SwapPtrPointsToFlit
  <2>1. CASE x = r
    BY Zenon, <1>1, <1>4, <1>8, <2>1 DEF TypeOK
  <2>2. CASE x # r
    <3>1. swap_ptr'[x] = swap_ptr[x] /\ PointsToFlit(x, swap_ptr[x], vcs)
      BY Zenon, <1>1, <1>4, <2>2 DEF TypeOK, StructInv, SwapPtrPointsToFlit
    <3>2. swap_ptr[x].valid =>
            /\ PtrVc(x, swap_ptr[x]) \in Channels /\ swap_ptr[x].vcid \in VCs
            /\ Dst[PtrVc(x, swap_ptr[x])] = x
      BY Zenon, <3>1, PortFacts DEF PointsToFlit, PtrVc
    <3>3. swap_ptr[x].valid =>
            vcs'[PtrVc(x, swap_ptr[x])][swap_ptr[x].vcid]
              = vcs[PtrVc(x, swap_ptr[x])][swap_ptr[x].vcid]
      BY SMTT(30), <1>5, <1>7, <2>2, <3>2
    <3> QED
      BY Zenon, <3>1, <3>3 DEF PointsToFlit
  <2> QED
    BY Zenon, <2>1, <2>2
<1>12. WinnerInv'
  <2> SUFFICES ASSUME NEW d \in Channels, winner'[d] # -1
               PROVE  active' = Dst[d] /\ vcs'[d][winner'[d]] # <<>>
    BY Zenon DEF WinnerInv
  <2>1. d # c /\ winner'[d] = winner[d]
    BY Zenon, <1>1, <1>3, <1>5 DEF TypeOK, Grant
  <2>2. winner[d] \in VCs
    BY Zenon, <1>1, <2>1 DEF TypeOK
  <2>3. active' = active
    BY Zenon DEF arbitrate_outports
  <2> QED
    BY <1>7, <2>1, <2>2, <2>3 DEF StructInv, WinnerInv
<1> QED
  BY Zenon, <1>9, <1>10, <1>11, <1>12 DEF StructInv

-----------------------------------------------------------------------------
(* A swap, which changes which flits the VCs hold, and never how many.     *)

SameShape(buf) ==
  /\ buf \in [Channels -> [VCs -> Seq(Flit)]]
  /\ \A c \in Channels, v \in VCs :
       /\ buf[c][v] # <<>> <=> vcs[c][v] # <<>>
       /\ Len(buf[c][v]) = Len(vcs[c][v])
       /\ \A i \in DOMAIN buf[c][v] : InPlace(buf[c][v][i], c, v)

LEMMA UnchangedShape ==
  ASSUME StructInv
  PROVE  SameShape(vcs)
BY Zenon DEF StructInv, TypeOK, FlitMatchesPlace, SameShape

\* What bail_out does to the buffers.
ClearedHead(buf, R, c, v) ==
  /\ Head(buf[c][v]).out = Head(vcs[c][v]).out
  /\ Head(buf[c][v]).pkt = Head(vcs[c][v]).pkt
  /\ IF Dst[c] \in R /\ v < VcsPerVnet THEN ~Head(buf[c][v]).routed ELSE buf[c][v] = vcs[c][v]

LEMMA ClearedShape ==
  ASSUME StructInv, NEW R
  PROVE  /\ SameShape(ClearRouted(R))
         /\ \A c \in Channels, v \in VCs : vcs[c][v] # <<>> => ClearedHead(ClearRouted(R), R, c, v)
<1> DEFINE buf == ClearRouted(R)
           top(c, v) == [Head(vcs[c][v]) EXCEPT !.routed = FALSE]
<1>1. TypeOK
  BY Zenon DEF StructInv
<1>2. ASSUME NEW c \in Channels, NEW v \in VCs
      PROVE  /\ buf[c][v] \in Seq(Flit)
             /\ buf[c][v] # <<>> <=> vcs[c][v] # <<>>
             /\ Len(buf[c][v]) = Len(vcs[c][v])
             /\ \A i \in DOMAIN buf[c][v] : InPlace(buf[c][v][i], c, v)
             /\ vcs[c][v] # <<>> => ClearedHead(buf, R, c, v)
  <2>1. vcs[c][v] \in Seq(Flit)
    BY Zenon, <1>1 DEF TypeOK
  <2>2. \A i \in DOMAIN vcs[c][v] : InPlace(vcs[c][v][i], c, v)
    BY Zenon DEF StructInv, FlitMatchesPlace
  <2>3. CASE buf[c][v] = vcs[c][v] /\ ~(Dst[c] \in R /\ v < VcsPerVnet /\ vcs[c][v] # <<>>)
    <3> HIDE DEF buf
    <3> QED
      BY Zenon, <2>1, <2>2, <2>3 DEF ClearedHead
  <2>4. CASE /\ vcs[c][v] # <<>> /\ buf[c][v] = OnTop(top(c, v), vcs[c][v])
             /\ Dst[c] \in R /\ v < VcsPerVnet
    <3>1. /\ Head(vcs[c][v]) \in Flit
          /\ Head(vcs[c][v]) = vcs[c][v][1] /\ 1 \in DOMAIN vcs[c][v]
      BY Zenon, <2>1, <2>4, NonEmptySeq
    <3>2. /\ top(c, v) \in Flit
          /\ top(c, v).vc = Head(vcs[c][v]).vc
          /\ top(c, v).out = Head(vcs[c][v]).out
          /\ top(c, v).pkt = Head(vcs[c][v]).pkt
          /\ top(c, v).routed = FALSE
      BY Zenon, <3>1 DEF Flit
    <3>3. InPlace(top(c, v), c, v)
      BY Zenon, <2>2, <3>1, <3>2 DEF InPlace
    <3> HIDE DEF top, buf
    <3>4. /\ buf[c][v] \in Seq(Flit) /\ buf[c][v] # <<>>
          /\ Len(buf[c][v]) = Len(vcs[c][v])
          /\ Head(buf[c][v]) = top(c, v)
          /\ DOMAIN buf[c][v] = DOMAIN vcs[c][v]
          /\ \A i \in DOMAIN vcs[c][v] :
               buf[c][v][i] = IF i = 1 THEN top(c, v) ELSE vcs[c][v][i]
      <4> DEFINE s == vcs[c][v]
                 f == top(c, v)
      <4>1. s \in Seq(Flit) /\ s # <<>> /\ f \in Flit /\ buf[c][v] = OnTop(f, s)
        BY Zenon, <2>1, <2>4, <3>2
      <4> HIDE DEF s, f
      <4>2. /\ OnTop(f, s) \in Seq(Flit)
            /\ OnTop(f, s) # <<>>
            /\ Len(OnTop(f, s)) = Len(s)
            /\ Head(OnTop(f, s)) = f
            /\ DOMAIN OnTop(f, s) = DOMAIN s
            /\ \A i \in DOMAIN s : OnTop(f, s)[i] = IF i = 1 THEN f ELSE s[i]
        BY <4>1, ToppedSeq
      <4> QED
        BY Zenon, <4>1, <4>2 DEF s, f
    <3>5. ClearedHead(buf, R, c, v)
      BY Zenon, <2>4, <3>2, <3>4 DEF ClearedHead
    <3> QED
      BY Zenon, <2>2, <2>4, <3>3, <3>4, <3>5
  <2>5. buf[c][v] = IF Dst[c] \in R /\ v < VcsPerVnet /\ vcs[c][v] # <<>>
                    THEN OnTop(top(c, v), vcs[c][v]) ELSE vcs[c][v]
    BY Zenon DEF ClearRouted
  <2> QED
    BY Zenon, <2>3, <2>4, <2>5
<1>3. buf \in [Channels -> [VCs -> Seq(Flit)]]
  <2>1. buf = [c \in Channels |-> [v \in VCs |-> buf[c][v]]]
    BY Zenon DEF ClearRouted
  <2> HIDE DEF buf
  <2> QED
    BY Zenon, <1>2, <2>1
<1> HIDE DEF buf
<1>4. SameShape(buf)
  BY Zenon, <1>2, <1>3 DEF SameShape
<1> QED
  BY Zenon, <1>2, <1>4 DEF buf

\* What the exchange of two flits does to the buffers.
ExchangedHeads(buf, c, o, v) ==
  /\ Head(vcs'[o][v]).pkt = Head(buf[c][v]).pkt /\ Head(vcs'[o][v]).routed
  /\ Head(vcs'[c][v]).pkt = Head(buf[o][v]).pkt
  /\ Head(vcs'[c][v]).routed = Head(buf[o][v]).routed
  /\ \A d \in Channels, u \in VCs :
       ~(u = v /\ d \in {c, o}) => vcs'[d][u] = buf[d][u]

LEMMA ExchangedShape ==
  ASSUME StructInv, NEW r \in Routers, NEW c \in Channels, NEW v \in VCs,
         NEW buf, SameShape(buf), NEW sw,
         Dst[c] = r, buf[c][v] # <<>>,
         buf[Head(buf[c][v]).out][v] # <<>>,
         Head(buf[c][v]).out \in Channels,
         Src[Head(buf[c][v]).out] = r,
         Dst[Head(buf[c][v]).out] \in Routers,
         exchange(r, c, v, buf, sw)
  PROVE  SameShape(vcs') /\ ExchangedHeads(buf, c, Head(buf[c][v]).out, v)
<1> DEFINE f0 == Head(buf[c][v])
           o == f0.out
           f1 == Head(buf[o][v])
<1>1. PICK out0 \in Routes(Dst[o], f0), out1 \in Routes(r, f1) :
        vcs' = [buf EXCEPT
             ![o][v] = doSwap_enqueue([f0 EXCEPT !.routed = TRUE], v, out0, @),
             ![c][v] = doSwap_enqueue(f1, v, out1, @)]
  BY Zenon DEF exchange
<1> DEFINE g0 == [[f0 EXCEPT !.routed = TRUE] EXCEPT !.out = out0, !.vc = v]
           g1 == [f1 EXCEPT !.out = out1, !.vc = v]
<1>2. o \in Channels /\ c # o /\ Dst[o] \in Routers
  BY Zenon, TopologyAssumption
<1>3. buf[c][v] \in Seq(Flit) /\ buf[o][v] \in Seq(Flit) /\ buf[o][v] # <<>>
  BY Zenon, <1>2 DEF SameShape
<1>4. f0 \in Flit /\ f1 \in Flit
  BY Zenon, <1>3, NonEmptySeq
<1>5. /\ out0 \in Channels /\ out0 \in Out(Dst[o])
      /\ IsLocal(out0) => Dst[out0] = PktDst[f0.pkt]
      /\ out1 \in Channels /\ out1 \in Out(r)
      /\ IsLocal(out1) => Dst[out1] = PktDst[f1.pkt]
  BY Zenon, <1>2, <1>4, RouteFacts
<1> HIDE DEF f1, o, f0
<1>6. /\ g0 \in Flit /\ g0.vc = v /\ g0.out = out0 /\ g0.pkt = f0.pkt /\ g0.routed = TRUE
      /\ g1 \in Flit /\ g1.vc = v /\ g1.out = out1 /\ g1.pkt = f1.pkt /\ g1.routed = f1.routed
  BY Zenon, <1>4, <1>5 DEF Flit
<1>7. InPlace(g0, o, v) /\ InPlace(g1, c, v)
  BY Zenon, <1>2, <1>5, <1>6 DEF InPlace
<1>8. vcs' = [buf EXCEPT ![o][v] = OnTop(g0, @), ![c][v] = OnTop(g1, @)]
  BY Zenon, <1>1 DEF doSwap_enqueue
<1> HIDE DEF g0, g1
<1>9. buf \in [Channels -> [VCs -> Seq(Flit)]]
  BY Zenon DEF SameShape
<1>10. \A d \in Channels, u \in VCs :
         vcs'[d][u] = IF d = o /\ u = v THEN OnTop(g0, buf[o][v])
                      ELSE IF d = c /\ u = v THEN OnTop(g1, buf[c][v])
                      ELSE buf[d][u]
  BY Zenon, <1>2, <1>8, <1>9
<1>11. /\ OnTop(g0, buf[o][v]) \in Seq(Flit)
       /\ OnTop(g0, buf[o][v]) # <<>>
       /\ Len(OnTop(g0, buf[o][v])) = Len(buf[o][v])
       /\ Head(OnTop(g0, buf[o][v])) = g0
       /\ DOMAIN OnTop(g0, buf[o][v]) = DOMAIN buf[o][v]
       /\ \A i \in DOMAIN buf[o][v] :
            OnTop(g0, buf[o][v])[i] = IF i = 1 THEN g0 ELSE buf[o][v][i]
  <2> DEFINE s == buf[o][v]
  <2>1. s \in Seq(Flit) /\ s # <<>> /\ g0 \in Flit
    BY Zenon, <1>3, <1>6
  <2> HIDE DEF s
  <2>2. /\ OnTop(g0, s) \in Seq(Flit)
        /\ OnTop(g0, s) # <<>>
        /\ Len(OnTop(g0, s)) = Len(s)
        /\ Head(OnTop(g0, s)) = g0
        /\ DOMAIN OnTop(g0, s) = DOMAIN s
        /\ \A i \in DOMAIN s : OnTop(g0, s)[i] = IF i = 1 THEN g0 ELSE s[i]
    BY SMTT(30), <2>1, ToppedSeq
  <2> QED
    BY Zenon, <2>2 DEF s
<1>12. /\ OnTop(g1, buf[c][v]) \in Seq(Flit)
       /\ OnTop(g1, buf[c][v]) # <<>>
       /\ Len(OnTop(g1, buf[c][v])) = Len(buf[c][v])
       /\ Head(OnTop(g1, buf[c][v])) = g1
       /\ DOMAIN OnTop(g1, buf[c][v]) = DOMAIN buf[c][v]
       /\ \A i \in DOMAIN buf[c][v] :
            OnTop(g1, buf[c][v])[i] = IF i = 1 THEN g1 ELSE buf[c][v][i]
  <2> DEFINE s == buf[c][v]
  <2>1. s \in Seq(Flit) /\ s # <<>> /\ g1 \in Flit
    BY Zenon, <1>3, <1>6
  <2> HIDE DEF s
  <2>2. /\ OnTop(g1, s) \in Seq(Flit)
        /\ OnTop(g1, s) # <<>>
        /\ Len(OnTop(g1, s)) = Len(s)
        /\ Head(OnTop(g1, s)) = g1
        /\ DOMAIN OnTop(g1, s) = DOMAIN s
        /\ \A i \in DOMAIN s : OnTop(g1, s)[i] = IF i = 1 THEN g1 ELSE s[i]
    BY SMTT(30), <2>1, ToppedSeq
  <2> QED
    BY Zenon, <2>2 DEF s
<1>13. vcs' \in [Channels -> [VCs -> Seq(Flit)]]
  BY Zenon, <1>2, <1>8, <1>9, <1>11, <1>12
<1>14. ASSUME NEW d \in Channels, NEW u \in VCs
       PROVE  /\ vcs'[d][u] # <<>> <=> vcs[d][u] # <<>>
              /\ Len(vcs'[d][u]) = Len(vcs[d][u])
              /\ \A i \in DOMAIN vcs'[d][u] : InPlace(vcs'[d][u][i], d, u)
  <2>1. /\ buf[d][u] # <<>> <=> vcs[d][u] # <<>>
        /\ Len(buf[d][u]) = Len(vcs[d][u])
        /\ \A i \in DOMAIN buf[d][u] : InPlace(buf[d][u][i], d, u)
    BY Zenon DEF SameShape
  <2>2. CASE d = o /\ u = v
    <3> DEFINE t == OnTop(g0, buf[o][v])
    <3>1. vcs'[d][u] = t
      BY Zenon, <1>2, <1>10, <2>2
    <3>2. \A i \in DOMAIN buf[d][u] : t[i] = g0 \/ t[i] = buf[d][u][i]
      BY Zenon, <1>11, <2>2
    <3>3. /\ t # <<>> /\ buf[d][u] # <<>>
          /\ Len(t) = Len(buf[d][u]) /\ DOMAIN t = DOMAIN buf[d][u]
          /\ InPlace(g0, d, u)
      BY Zenon, <1>3, <1>7, <1>11, <2>2
    <3> HIDE DEF t
    <3> QED
      BY Zenon, <2>1, <3>1, <3>2, <3>3
  <2>3. CASE d = c /\ u = v
    <3> DEFINE t == OnTop(g1, buf[c][v])
    <3>1. vcs'[d][u] = t
      BY Zenon, <1>2, <1>10, <2>3
    <3>2. \A i \in DOMAIN buf[d][u] : t[i] = g1 \/ t[i] = buf[d][u][i]
      BY Zenon, <1>12, <2>3
    <3>3. /\ t # <<>> /\ buf[d][u] # <<>>
          /\ Len(t) = Len(buf[d][u]) /\ DOMAIN t = DOMAIN buf[d][u]
          /\ InPlace(g1, d, u)
      BY Zenon, <1>3, <1>7, <1>12, <2>3
    <3> HIDE DEF t
    <3> QED
      BY Zenon, <2>1, <3>1, <3>2, <3>3
  <2>4. CASE ~(d = o /\ u = v) /\ ~(d = c /\ u = v)
    BY Zenon, <1>10, <2>1, <2>4
  <2> QED
    BY Zenon, <2>2, <2>3, <2>4
<1>15. SameShape(vcs')
  BY Zenon, <1>13, <1>14 DEF SameShape
<1>16. /\ Head(vcs'[o][v]) = g0
       /\ Head(vcs'[c][v]) = g1
       /\ \A d \in Channels, u \in VCs :
            ~(u = v /\ d \in {c, o}) => vcs'[d][u] = buf[d][u]
  BY Zenon, <1>2, <1>10, <1>11, <1>12
<1>17. ExchangedHeads(buf, c, o, v)
  BY Zenon, <1>6, <1>16 DEF ExchangedHeads, f0, f1, o
<1> QED
  BY Zenon, <1>15, <1>17 DEF o, f0

LEMMA ClearedNothing ==
  ASSUME TypeOK
  PROVE  ClearRouted({}) = vcs /\ ClearIsSwap({}) = is_swap
<1>1. vcs = [c \in Channels |-> [v \in VCs |-> vcs[c][v]]]
  <2>1. vcs = [c \in Channels |-> vcs[c]]
    BY Zenon DEF TypeOK
  <2>2. \A c \in Channels : vcs[c] = [v \in VCs |-> vcs[c][v]]
    BY Zenon DEF TypeOK
  <2> QED
    BY Zenon, <2>1, <2>2
<1>2. ClearRouted({}) = [c \in Channels |-> [v \in VCs |-> vcs[c][v]]]
  BY Zenon DEF ClearRouted
<1>3. ClearIsSwap({}) = is_swap
  BY Zenon DEF ClearIsSwap, TypeOK
<1> QED
  BY Zenon, <1>1, <1>2, <1>3

\* What Router::wakeup does on a swap attempt: bail_out clears the marks of the
\* routers R, none if it is not called, and the pointed flit may be exchanged.
SwapTried(r, c, v, R) ==
  LET o == Head(vcs[c][v]).out
  IN  /\ Dst[c] = r /\ vcs[c][v] # <<>>
      /\ o \in Channels /\ Src[o] = r /\ Dst[o] \in Routers /\ ~IsLocal(o)
      /\ \/ /\ downstreamFlit(o, v, ClearRouted(R), ClearIsSwap(R))
            /\ exchange(r, c, v, ClearRouted(R), ClearIsSwap(R))
         \/ vcs' = ClearRouted(R) /\ is_swap' = ClearIsSwap(R)

LEMMA SwapAttempt ==
  ASSUME StructInv, NEW r \in Routers, wakeup_swap(r)
  PROVE  /\ \E c \in Channels, v \in VCs, R \in SUBSET Routers : SwapTried(r, c, v, R)
         /\ \E q \in SwapPtr : /\ PointsToFlit(r, q, vcs')
                               /\ swap_ptr' = [swap_ptr EXCEPT ![r] = q]
<1>1. Interswap
  BY Zenon DEF wakeup_swap
<1>2. PICK p \in ValidatedPtr(r), chk \in chk_deadlck_symptm(r) :
        LET c   == PtrVc(r, p)
            o   == Head(vcs[c][p.vcid]).out
            buf == IF chk THEN ClearRouted({r, Dst[o]}) ELSE vcs
            sw  == IF chk THEN ClearIsSwap({r, Dst[o]}) ELSE is_swap
        IN  /\ p.valid
            /\ outportNotLocal(r, p)
            /\ IF chk /\ ~BailoutAssert(o)
               THEN /\ swap_ptr' = [swap_ptr EXCEPT ![r] = p]
                    /\ UNCHANGED <<vcs, is_swap>>
               ELSE /\ IF downstreamFlit(o, p.vcid, buf, sw)
                       THEN exchange(r, c, p.vcid, buf, sw)
                       ELSE vcs' = buf /\ is_swap' = sw
                    /\ \E q \in movSwapPtr(r, p, vcs') : swap_ptr' = [swap_ptr EXCEPT ![r] = q]
  BY Zenon DEF wakeup_swap
<1> DEFINE c   == PtrVc(r, p)
           v   == p.vcid
           o   == Head(vcs[c][v]).out
           buf == IF chk THEN ClearRouted({r, Dst[o]}) ELSE vcs
           sw  == IF chk THEN ClearIsSwap({r, Dst[o]}) ELSE is_swap
<1>3. /\ p.valid
      /\ outportNotLocal(r, p)
      /\ \/ downstreamFlit(o, v, buf, sw) /\ exchange(r, c, v, buf, sw)
         \/ vcs' = buf /\ is_swap' = sw
         \/ vcs' = vcs /\ is_swap' = is_swap
      /\ \/ \E q \in movSwapPtr(r, p, vcs') : swap_ptr' = [swap_ptr EXCEPT ![r] = q]
         \/ vcs' = vcs /\ swap_ptr' = [swap_ptr EXCEPT ![r] = p]
  BY Zenon, <1>2
<1>4. p \in SwapPtr /\ PointsToFlit(r, p, vcs)
  BY Zenon, <1>1, ValidatedPtrFacts
<1>5. /\ p.inport \in 0 .. NumIn(r) - 1 /\ v \in VCs
      /\ c \in Channels /\ Dst[c] = r /\ vcs[c][v] # <<>>
  BY Zenon, <1>3, <1>4, PortFacts DEF PointsToFlit, PtrVc
<1>6. ~IsLocal(o)
  BY Zenon, <1>3 DEF outportNotLocal
<1>7. \E q \in SwapPtr : /\ PointsToFlit(r, q, vcs')
                         /\ swap_ptr' = [swap_ptr EXCEPT ![r] = q]
  <2>1. CASE \E q \in movSwapPtr(r, p, vcs') : swap_ptr' = [swap_ptr EXCEPT ![r] = q]
    <3>1. PICK q \in movSwapPtr(r, p, vcs') : swap_ptr' = [swap_ptr EXCEPT ![r] = q]
      BY Zenon, <2>1
    <3>2. q \in SwapPtr /\ PointsToFlit(r, q, vcs')
      BY Zenon, <1>4, <1>5, <3>1, MovedPtr
    <3> QED
      BY Zenon, <3>1, <3>2
  <2>2. CASE vcs' = vcs /\ swap_ptr' = [swap_ptr EXCEPT ![r] = p]
    BY Zenon, <1>4, <2>2
  <2> QED
    BY Zenon, <1>3, <2>1, <2>2
<1> HIDE DEF c, v
<1>8. o \in Channels /\ Src[o] = r /\ Dst[o] \in Routers
  <2>1. vcs[c][v] \in Seq(Flit)
    BY Zenon, <1>5 DEF StructInv, TypeOK
  <2>2. Head(vcs[c][v]) = vcs[c][v][1] /\ 1 \in DOMAIN vcs[c][v]
    BY Zenon, <1>5, <2>1, NonEmptySeq
  <2>3. o \in Out(r)
    BY <1>5, <2>2 DEF StructInv, FlitMatchesPlace, InPlace
  <2> HIDE DEF o
  <2>4. o \in Channels /\ Src[o] = r
    BY Zenon, <2>3, LinkEnds
  <2>5. Dst[o] \in Routers \cup Nodes
    BY Zenon, <2>4, LinkEnds
  <2> QED
    BY Zenon, <1>6, <2>4, <2>5 DEF IsLocal
<1> DEFINE cleared == IF chk THEN {r, Dst[o]} ELSE {}
<1>9. cleared \in SUBSET Routers
  BY Zenon, <1>8
<1>10. ClearRouted({}) = vcs /\ ClearIsSwap({}) = is_swap
  BY Zenon, ClearedNothing DEF StructInv
<1>11. buf = ClearRouted(cleared) /\ sw = ClearIsSwap(cleared)
  BY Zenon, <1>10
<1> HIDE DEF buf, sw, cleared
<1>12. CASE \/ downstreamFlit(o, v, buf, sw) /\ exchange(r, c, v, buf, sw)
            \/ vcs' = buf /\ is_swap' = sw
  <2>1. SwapTried(r, c, v, cleared)
    BY Zenon, <1>5, <1>6, <1>8, <1>11, <1>12 DEF SwapTried
  <2> QED
    BY Zenon, <1>5, <1>7, <1>9, <2>1
<1>13. CASE vcs' = vcs /\ is_swap' = is_swap
  <2>1. SwapTried(r, c, v, {}) /\ {} \in SUBSET Routers
    BY Zenon, <1>5, <1>6, <1>8, <1>10, <1>13 DEF SwapTried
  <2> QED
    BY Zenon, <1>5, <1>7, <2>1
<1> QED
  BY Zenon, <1>3, <1>12, <1>13

LEMMA SwapFacts ==
  ASSUME StructInv, NEW r \in Routers, wakeup_swap(r)
  PROVE  /\ SameShape(vcs')
         /\ is_swap' \in [Routers -> BOOLEAN]
         /\ \E q \in SwapPtr : /\ PointsToFlit(r, q, vcs')
                               /\ swap_ptr' = [swap_ptr EXCEPT ![r] = q]
<1>1. PICK c \in Channels, v \in VCs, R \in SUBSET Routers : SwapTried(r, c, v, R)
  BY Zenon, SwapAttempt
<1> DEFINE o   == Head(vcs[c][v]).out
           buf == ClearRouted(R)
           sw  == ClearIsSwap(R)
<1>2. /\ Dst[c] = r /\ vcs[c][v] # <<>>
      /\ o \in Channels /\ Src[o] = r /\ Dst[o] \in Routers
      /\ \/ downstreamFlit(o, v, buf, sw) /\ exchange(r, c, v, buf, sw)
         \/ vcs' = buf /\ is_swap' = sw
  BY Zenon, <1>1 DEF SwapTried
<1>3. SameShape(buf) /\ Head(buf[c][v]).out = o
  BY Zenon, <1>2, ClearedShape DEF ClearedHead
<1>4. sw \in [Routers -> BOOLEAN]
  <2>1. is_swap \in [Routers -> BOOLEAN]
    BY Zenon DEF StructInv, TypeOK
  <2> QED
    BY Zenon, <2>1 DEF ClearIsSwap
<1> HIDE DEF o, buf, sw
<1>5. buf[c][v] # <<>>
  BY Zenon, <1>2, <1>3 DEF SameShape
<1>6. SameShape(vcs') /\ is_swap' \in [Routers -> BOOLEAN]
  <2>1. CASE vcs' = buf /\ is_swap' = sw
    BY Zenon, <1>3, <1>4, <2>1
  <2>2. CASE downstreamFlit(o, v, buf, sw) /\ exchange(r, c, v, buf, sw)
    <3>1. buf[o][v] # <<>>
      BY Zenon, <2>2 DEF downstreamFlit
    <3>2. SameShape(vcs')
      BY Zenon, <1>2, <1>3, <1>5, <2>2, <3>1, ExchangedShape
    <3>3. is_swap' = [sw EXCEPT ![Dst[o]] = @ \/ ~NoIsSwap, ![r] = @ /\ ~Head(buf[c][v]).routed]
      BY Zenon, <1>3, <2>2 DEF exchange
    <3>4. is_swap' \in [Routers -> BOOLEAN]
      BY Zenon, <1>2, <1>4, <3>3
    <3> QED
      BY Zenon, <3>2, <3>4
  <2> QED
    BY Zenon, <1>2, <2>1, <2>2
<1> QED
  BY Zenon, <1>6, SwapAttempt

LEMMA StructSwap ==
  ASSUME StructInv, NEW r \in Routers, wakeup_swap(r)
  PROVE  StructInv'
<1>1. TypeOK
  BY Zenon DEF StructInv
<1>2. SameShape(vcs') /\ is_swap' \in [Routers -> BOOLEAN]
  BY Zenon, SwapFacts
<1>3. PICK q \in SwapPtr : PointsToFlit(r, q, vcs') /\ swap_ptr' = [swap_ptr EXCEPT ![r] = q]
  BY Zenon, SwapFacts
<1>4. winner' = winner /\ active = NoRouter
  BY Zenon DEF wakeup_swap, BeginWakeup, Idle
<1>5. TypeOK'
  <2>1. swap_ptr' \in [Routers -> SwapPtr]
    BY Zenon, <1>1, <1>3 DEF TypeOK
  <2>2. stage' \in {"idle", "units", "sa1", "sa2"} /\ active' \in Routers \cup {NoRouter}
    BY Zenon DEF wakeup_swap, BeginWakeup
  <2>3. vcs' \in [Channels -> [VCs -> Seq(Flit)]]
    BY Zenon, <1>2 DEF SameShape
  <2>4. aborted' \in BOOLEAN
    BY Zenon, <1>1 DEF TypeOK, wakeup_swap
  <2> QED
    BY Zenon, <1>1, <1>2, <2>1, <2>2, <2>3, <2>4 DEF TypeOK, wakeup_swap, BeginWakeup, upVars, niVars
<1>6. FlitMatchesPlace'
  <2> SUFFICES ASSUME NEW c \in Channels, NEW v \in VCs, NEW i \in DOMAIN vcs'[c][v]
               PROVE  InPlace(vcs'[c][v][i], c, v)
    BY Zenon DEF FlitMatchesPlace, InPlace
  <2> QED
    BY Zenon, <1>2 DEF SameShape
<1>7. SwapPtrPointsToFlit'
  <2> SUFFICES ASSUME Interswap, NEW x \in Routers
               PROVE  PointsToFlit(x, swap_ptr'[x], vcs')
    BY Zenon DEF SwapPtrPointsToFlit
  <2>1. CASE x = r
    BY Zenon, <1>1, <1>3, <2>1 DEF TypeOK
  <2>2. CASE x # r
    <3>1. swap_ptr'[x] = swap_ptr[x] /\ PointsToFlit(x, swap_ptr[x], vcs)
      BY Zenon, <1>1, <1>3, <2>2 DEF TypeOK, StructInv, SwapPtrPointsToFlit
    <3>2. swap_ptr[x].valid => PtrVc(x, swap_ptr[x]) \in Channels /\ swap_ptr[x].vcid \in VCs
      BY Zenon, <3>1, PortFacts DEF PointsToFlit, PtrVc
    <3> QED
      BY Zenon, <1>2, <3>1, <3>2 DEF PointsToFlit, SameShape
  <2> QED
    BY Zenon, <2>1, <2>2
<1>8. WinnerInv'
  BY Zenon, <1>4, NoRequests DEF WinnerInv
<1> QED
  BY Zenon, <1>5, <1>6, <1>7, <1>8 DEF StructInv

-----------------------------------------------------------------------------
(* The links and the network interfaces leave the routers alone.           *)

LEMMA StructLink ==
  ASSUME StructInv, NEW S \in SUBSET Channels, NEW T \in SUBSET Channels,
         NetworkLink_wakeup(S, T)
  PROVE  StructInv'
<1>1. TypeOK
  BY Zenon DEF StructInv
<1>2. link' \in [Channels -> Seq(Flit)] /\ outq' \in [Channels -> Seq(Flit)]
  <2>1. \A c \in S : Head(outq[c]) \in Flit /\ Tail(outq[c]) \in Seq(Flit)
    BY Zenon, <1>1, NonEmptySeq DEF TypeOK, NetworkLink_wakeup
  <2>2. \A c \in S : Append(link[c], Head(outq[c])) \in Seq(Flit)
    BY <1>1, <2>1, AppendedSeq DEF TypeOK
  <2> QED
    BY Zenon, <1>1, <2>1, <2>2 DEF TypeOK, NetworkLink_wakeup, Moved, Popped
<1>3. credlink' \in [Channels -> Seq(Credit)] /\ credq' \in [Channels -> Seq(Credit)]
  <2>1. \A c \in T : Head(credq[c]) \in Credit /\ Tail(credq[c]) \in Seq(Credit)
    BY Zenon, <1>1, NonEmptySeq DEF TypeOK, NetworkLink_wakeup
  <2>2. \A c \in T : Append(credlink[c], Head(credq[c])) \in Seq(Credit)
    BY Zenon, <1>1, <2>1, AppendedSeq DEF TypeOK
  <2> QED
    BY Zenon, <1>1, <2>1, <2>2 DEF TypeOK, NetworkLink_wakeup, Moved, Popped
<1>4. TypeOK'
  BY Zenon, <1>1, <1>2, <1>3 DEF TypeOK, NetworkLink_wakeup, swapVars, runVars, niVars
<1> QED
  BY Zenon, <1>4, StructFrame DEF NetworkLink_wakeup, swapVars, runVars

LEMMA StructNode ==
  ASSUME StructInv, NEW n \in Nodes, NodeNext(n)
  PROVE  StructInv'
<1>1. TypeOK
  BY Zenon DEF StructInv
<1>2. CASE NI_send(n)
  <2>1. PICK p \in pending, c \in Out(n) : \E v \in IdleVcs(c, InjVnet(p)) :
          /\ pending' = pending \ {p}
          /\ outvc' = [outvc EXCEPT ![c][v] = [state |-> "ACTIVE", credit |-> @.credit - 1]]
          /\ outq' = [outq EXCEPT ![c] =
               Append(@, [pkt |-> p, vc |-> v, out |-> NoLink, routed |-> FALSE])]
    BY Zenon, <1>2 DEF NI_send
  <2>2. PICK v \in VCs :
          /\ outvc' = [outvc EXCEPT ![c][v] = [state |-> "ACTIVE", credit |-> @.credit - 1]]
          /\ outq' = [outq EXCEPT ![c] =
               Append(@, [pkt |-> p, vc |-> v, out |-> NoLink, routed |-> FALSE])]
    BY Zenon, <2>1 DEF IdleVcs
  <2>3. c \in Channels
    BY Zenon, LinkEnds
  <2>4. [pkt |-> p, vc |-> v, out |-> NoLink, routed |-> FALSE] \in Flit
    BY Zenon, <1>1 DEF TypeOK, Flit
  <2>5. outq' \in [Channels -> Seq(Flit)]
    <3> DEFINE e == [pkt |-> p, vc |-> v, out |-> NoLink, routed |-> FALSE]
    <3>1. e \in Flit /\ outq' = [outq EXCEPT ![c] = Append(@, e)]
      BY Zenon, <2>2, <2>4
    <3> HIDE DEF e
    <3> QED
      BY Zenon, <1>1, <2>3, <3>1, AppendedTo DEF TypeOK
  <2>6. outvc' \in [Channels -> [VCs -> [state : {"IDLE", "ACTIVE"}, credit : Int]]]
    BY SMTT(30), <1>1, <2>2, <2>3 DEF TypeOK
  <2>7. TypeOK'
    BY Zenon, <1>1, <1>2, <2>1, <2>5, <2>6 DEF TypeOK, NI_send, downVars, swapVars, runVars
  <2> QED
    BY Zenon, <1>2, <2>7, StructFrame DEF NI_send, downVars, swapVars, runVars
<1>3. CASE NI_receive(n)
  <2>1. PICK c \in In(n) :
          /\ link[c] # <<>>
          /\ link' = [link EXCEPT ![c] = Tail(@)]
          /\ Deliver(c, Head(link[c]))
    BY Zenon, <1>3 DEF NI_receive
  <2>2. c \in Channels
    BY Zenon, LinkEnds
  <2>3. Head(link[c]) \in Flit /\ Tail(link[c]) \in Seq(Flit)
    BY Zenon, <1>1, <2>1, <2>2, NonEmptySeq DEF TypeOK
  <2>4. link' \in [Channels -> Seq(Flit)]
    BY Zenon, <1>1, <2>1, <2>3 DEF TypeOK
  <2>5. [vc |-> Head(link[c]).vc, free |-> TRUE] \in Credit
    BY Zenon, <2>3 DEF Flit, Credit
  <2>6. credq' \in [Channels -> Seq(Credit)]
    <3> DEFINE e == [vc |-> Head(link[c]).vc, free |-> TRUE]
    <3>1. e \in Credit /\ credq' = [credq EXCEPT ![c] = Append(@, e)]
      BY Zenon, <2>1, <2>5 DEF Deliver
    <3> HIDE DEF e
    <3> QED
      BY Zenon, <1>1, <2>2, <3>1, AppendedTo DEF TypeOK
  <2>7. delivered' \subseteq Packets
    BY Zenon, <1>1, <2>1, <2>3 DEF TypeOK, Deliver, Flit
  <2>8. TypeOK'
    BY Zenon, <1>1, <1>3, <2>4, <2>6, <2>7 DEF TypeOK, NI_receive, upVars, swapVars, runVars
  <2> QED
    BY Zenon, <1>3, <2>8, StructFrame DEF NI_receive, swapVars, runVars
<1>4. CASE NI_stall(n)
  <2>1. PICK c \in In(n) :
          /\ link[c] # <<>>
          /\ link' = [link EXCEPT ![c] = Tail(@)]
          /\ stalled' = [stalled EXCEPT ![n] = @ \cup {Head(link[c])}]
    BY Zenon, <1>4 DEF NI_stall
  <2>2. c \in Channels
    BY Zenon, LinkEnds
  <2>3. Head(link[c]) \in Flit /\ Tail(link[c]) \in Seq(Flit)
    BY Zenon, <1>1, <2>1, <2>2, NonEmptySeq DEF TypeOK
  <2>4. link' \in [Channels -> Seq(Flit)] /\ stalled' \in [Nodes -> SUBSET Flit]
    BY Zenon, <1>1, <2>1, <2>3 DEF TypeOK
  <2>5. TypeOK'
    BY Zenon, <1>1, <1>4, <2>4 DEF TypeOK, NI_stall, upVars, downVars, swapVars, runVars
  <2> QED
    BY Zenon, <1>4, <2>5, StructFrame DEF NI_stall, downVars, swapVars, runVars
<1>5. CASE checkStallQueue(n)
  <2>1. PICK c \in In(n), f \in stalled[n] :
          /\ stalled' = [stalled EXCEPT ![n] = @ \ {f}]
          /\ Deliver(c, f)
    BY Zenon, <1>5 DEF checkStallQueue
  <2>2. c \in Channels /\ f \in Flit
    BY Zenon, <1>1, LinkEnds DEF TypeOK
  <2>3. stalled' \in [Nodes -> SUBSET Flit]
    BY Zenon, <1>1, <2>1 DEF TypeOK
  <2>4. [vc |-> f.vc, free |-> TRUE] \in Credit
    BY Zenon, <2>2 DEF Flit, Credit
  <2>5. credq' \in [Channels -> Seq(Credit)]
    <3> DEFINE e == [vc |-> f.vc, free |-> TRUE]
    <3>1. e \in Credit /\ credq' = [credq EXCEPT ![c] = Append(@, e)]
      BY Zenon, <2>1, <2>4 DEF Deliver
    <3> HIDE DEF e
    <3> QED
      BY Zenon, <1>1, <2>2, <3>1, AppendedTo DEF TypeOK
  <2>6. delivered' \subseteq Packets
    BY Zenon, <1>1, <2>1, <2>2 DEF TypeOK, Deliver, Flit
  <2>7. TypeOK'
    BY Zenon, <1>1, <1>5, <2>3, <2>5, <2>6 DEF TypeOK, checkStallQueue, upVars, swapVars, runVars
  <2> QED
    BY Zenon, <1>5, <2>7, StructFrame DEF checkStallQueue, swapVars, runVars
<1>6. CASE NI_credit(n)
  <2>1. PICK c \in Out(n) :
          /\ credlink[c] # <<>>
          /\ credlink' = [credlink EXCEPT ![c] = Tail(@)]
          /\ outvc' = [outvc EXCEPT ![c][Head(credlink[c]).vc] =
                         CreditedVc(@, Head(credlink[c]))]
    BY Zenon, <1>6 DEF NI_credit
  <2>2. c \in Channels
    BY Zenon, LinkEnds
  <2>3. credlink' \in [Channels -> Seq(Credit)]
    BY Zenon, <1>1, <2>1, <2>2, CreditedVcType DEF TypeOK
  <2>4. outvc' \in [Channels -> [VCs -> [state : {"IDLE", "ACTIVE"}, credit : Int]]]
    BY Zenon, <1>1, <2>1, <2>2, CreditedVcType DEF TypeOK
  <2>5. TypeOK'
    BY Zenon, <1>1, <1>6, <2>3, <2>4 DEF TypeOK, NI_credit, downVars, swapVars, runVars, niVars
  <2> QED
    BY Zenon, <1>6, <2>5, StructFrame DEF NI_credit, downVars, swapVars, runVars
<1> QED
  BY Zenon, <1>2, <1>3, <1>4, <1>5, <1>6 DEF NodeNext

-----------------------------------------------------------------------------
(* Every step.                                                             *)

LEMMA StructStep == StructInv /\ [Next]_vars => StructInv'
<1> SUFFICES ASSUME StructInv, [Next]_vars PROVE StructInv'
  BY Zenon
<1>1. ASSUME NEW r \in Routers, RouterNext(r) PROVE StructInv'
  BY Zenon, <1>1, StructNoSwap, StructDeclined, StructSwap, StructUnits,
     StructInports, StructOutports, StructClear DEF RouterNext
<1>2. CASE LinkNext
  <2>1. PICK S \in SUBSET Channels, T \in SUBSET Channels : NetworkLink_wakeup(S, T)
    BY Zenon, <1>2 DEF LinkNext
  <2> QED
    BY Zenon, <2>1, StructLink
<1>3. ASSUME NEW n \in Nodes, NodeNext(n) PROVE StructInv'
  BY Zenon, <1>3, StructNode
<1>4. CASE UNCHANGED vars
  <2>1. TypeOK'
    BY Zenon, <1>4 DEF StructInv, TypeOK, vars, upVars, downVars, swapVars, runVars, niVars
  <2> QED
    BY Zenon, <1>4, <2>1, StructFrame DEF vars, downVars, swapVars, runVars
<1> QED
  BY Zenon, <1>1, <1>2, <1>3, <1>4 DEF Next

\* In every reachable state every variable has its type: no handler reads the
\* head of an empty VC or link, whatever was swapped.
THEOREM TypeCorrect == Spec => []TypeOK
<1>1. StructInv => TypeOK
  BY Zenon DEF StructInv
<1> QED
  BY <1>1, StructInit, StructStep, PTL DEF Spec

\* A buffered flit always names the VC it is in and an outport of its own
\* router, and waits for a local outport only at its destination
\* (assert(vcid == flit_t->get_vc()) in doSwap).
THEOREM PlaceCorrect == Spec => []FlitMatchesPlace
<1>1. StructInv => FlitMatchesPlace
  BY Zenon DEF StructInv
<1> QED
  BY <1>1, StructInit, StructStep, PTL DEF Spec

\* A valid swap pointer always points to an occupied VC (the asserts of
\* movSwapPtr, and the read of the pointed VC in Router::wakeup).
THEOREM PtrCorrect == Spec => []SwapPtrPointsToFlit
<1>1. StructInv => SwapPtrPointsToFlit
  BY Zenon DEF StructInv
<1> QED
  BY <1>1, StructInit, StructStep, PTL DEF Spec

=============================================================================
