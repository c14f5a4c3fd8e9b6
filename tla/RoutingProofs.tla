---------------------------- MODULE RoutingProofs ----------------------------
(***************************************************************************)
(* Proofs about the routing algorithms, for every mesh: the directions     *)
(* they choose have links, bring the packet closer, and, for XY and west   *)
(* first, never make packets wait for each other in a cycle; the routing   *)
(* table offers exactly the directions of a shortest path.                 *)
(***************************************************************************)
EXTENDS RouteWalk, MeshInstance, WellFoundedInduction, TLAPS

\* Every nonempty set of natural numbers has a least element.
LEMMA LeastExists ==
  ASSUME NEW S \in SUBSET Nat, S # {}
  PROVE  \E x \in S : \A y \in S : x <= y
<1> DEFINE R == OpToRel(<, Nat)
<1>1. PICK x \in S : \A y \in S : ~(<<y, x>> \in R)
  BY Zenon, NatLessThanWellFounded, WFMin
<1>2. \A y \in S : y < x => <<y, x>> \in R
  BY DEF OpToRel
<1> HIDE DEF R
<1>3. \A y \in S : ~(y < x)
  BY Zenon, <1>1, <1>2
<1> QED
  BY <1>3

-----------------------------------------------------------------------------
\* The geometry of the mesh.  A router is the one in its column and its row.
LEMMA Coordinates ==
  ASSUME NEW id \in MeshRouters
  PROVE  /\ XPos(id) \in 0 .. NumCols - 1
         /\ YPos(id) \in 0 .. NumRows - 1
         /\ id = XPos(id) + YPos(id) * NumCols
<1> DEFINE W == NumCols
           x == id % W
           y == id \div W
<1>1. W \in Nat \ {0} /\ NumRows \in Nat \ {0} /\ NumRows * W \in Nat
  BY MeshAssumption
<1>2. id \in Nat /\ id < NumRows * W
  BY <1>1 DEF MeshRouters
<1>3. x \in 0 .. W - 1 /\ y \in Int /\ id = W * y + x
  BY <1>1, <1>2
<1> HIDE DEF x, y
<1>4. y * W = W * y
  BY <1>1, <1>3
<1>5. y >= 0
  <2> SUFFICES ASSUME y <= -1 PROVE FALSE
    BY <1>3
  <2>1. (-1 - y) * W >= 0 /\ (-1 - y) * W = -W - W * y
    BY <1>1, <1>3
  <2> QED
    BY <1>1, <1>2, <1>3, <2>1
<1>6. y <= NumRows - 1
  <2> SUFFICES ASSUME y - NumRows >= 0 PROVE FALSE
    BY <1>1, <1>3
  <2>1. (y - NumRows) * W >= 0 /\ (y - NumRows) * W = W * y - NumRows * W
    BY <1>1, <1>3
  <2> QED
    BY <1>1, <1>2, <1>3, <2>1
<1>7. XPos(id) = x /\ YPos(id) = y
  BY DEF XPos, YPos, x, y
<1> QED
  BY <1>1, <1>3, <1>4, <1>5, <1>6, <1>7

LEMMA RouterAt ==
  ASSUME NEW row \in 0 .. NumRows - 1, NEW col \in 0 .. NumCols - 1
  PROVE  /\ col + row * NumCols \in MeshRouters
         /\ XPos(col + row * NumCols) = col
         /\ YPos(col + row * NumCols) = row
<1> DEFINE W == NumCols
           id == col + row * W
           x == id % W
           y == id \div W
<1>1. W \in Nat \ {0} /\ NumRows \in Nat \ {0} /\ NumRows * W \in Nat /\ row \in Nat /\ col \in Nat
  BY MeshAssumption
<1>2. row * W \in Nat /\ row * W <= NumRows * W - W
  <2>1. (NumRows - 1 - row) * W \in Nat
    <3>1. NumRows - 1 - row \in Nat
      BY <1>1
    <3> QED
      BY <1>1, <3>1
  <2>2. (NumRows - 1 - row) * W = NumRows * W - W - row * W
    BY <1>1
  <2>3. row * W \in Nat
    BY <1>1
  <2> QED
    BY <1>1, <2>1, <2>2, <2>3
<1>3. id \in Nat /\ id < NumRows * W
  BY <1>1, <1>2
<1>4. x \in 0 .. W - 1 /\ y \in Int /\ id = W * y + x
  BY <1>1, <1>3
<1> HIDE DEF x, y
<1>5. (y - row) * W = W * y - row * W
  BY <1>1, <1>4
<1>6. (y - row) * W < W /\ -W < (y - row) * W
  BY <1>1, <1>2, <1>4, <1>5
<1>7. y = row
  <2>1. CASE y - row >= 1
    <3>1. (y - row - 1) * W >= 0 /\ (y - row - 1) * W = (y - row) * W - W
      BY <1>1, <1>4, <2>1
    <3> QED
      BY <1>1, <1>4, <1>6, <3>1
  <2>2. CASE y - row <= -1
    <3>1. (-1 - (y - row)) * W >= 0 /\ (-1 - (y - row)) * W = -W - (y - row) * W
      BY <1>1, <1>4, <2>2
    <3> QED
      BY <1>1, <1>4, <1>6, <3>1
  <2> QED
    BY <1>1, <1>4, <2>1, <2>2
<1>8. W * y = row * W
  BY <1>1, <1>7
<1>9. x = col
  BY <1>1, <1>2, <1>4, <1>8
<1> QED
  BY <1>1, <1>3, <1>7, <1>9 DEF XPos, YPos, x, y, MeshRouters

-----------------------------------------------------------------------------
\* There is a neighbour in direction d of router r, and s is one step from r
\* in direction d.
Inside(d, r) ==
  CASE d = "East"  -> XPos(r) < NumCols - 1
    [] d = "West"  -> XPos(r) > 0
    [] d = "North" -> YPos(r) < NumRows - 1
    [] d = "South" -> YPos(r) > 0

Moved(d, r, s) ==
  CASE d = "East"  -> XPos(s) = XPos(r) + 1 /\ YPos(s) = YPos(r)
    [] d = "West"  -> XPos(s) = XPos(r) - 1 /\ YPos(s) = YPos(r)
    [] d = "North" -> XPos(s) = XPos(r) /\ YPos(s) = YPos(r) + 1
    [] d = "South" -> XPos(s) = XPos(r) /\ YPos(s) = YPos(r) - 1

\* The link GarnetNetwork takes to be behind the port in direction d.
DownLink(d, r) == MeshLink(r, d, get_downstreamId(d, r), get_downstreamDirn(d))

LEMMA Sizes == NumRows \in Nat \ {0} /\ NumCols \in Nat \ {0}
BY MeshAssumption

\* Every direction with a neighbour has the link to it that Mesh_XY.py made.
LEMMA LinkFrom ==
  ASSUME NEW d \in Directions, NEW r \in MeshRouters, Inside(d, r)
  PROVE  /\ get_downstreamId(d, r) \in MeshRouters
         /\ Moved(d, r, get_downstreamId(d, r))
         /\ DownLink(d, r) \in MeshLinks
<1> DEFINE x == XPos(r)
           y == YPos(r)
<1>1. x \in 0 .. NumCols - 1 /\ y \in 0 .. NumRows - 1 /\ r = x + y * NumCols
  BY Coordinates
<1>2. (y + 1) * NumCols = y * NumCols + NumCols /\ (y - 1) * NumCols = y * NumCols - NumCols
  BY <1>1, Sizes
<1>3. y * NumCols \in Int
  BY <1>1, Sizes
<1> HIDE DEF x, y
<1>4. CASE d = "East"
  <2>1. x \in 0 .. NumCols - 2
    BY <1>1, <1>4, Sizes DEF Inside, x
  <2>2. get_downstreamId(d, r) = (x + 1) + y * NumCols
    BY <1>1, <1>3, <1>4 DEF get_downstreamId
  <2>3. DownLink(d, r) = MeshLink(x + y * NumCols, "East", (x + 1) + y * NumCols, "West")
    BY <1>1, <1>4, <2>2 DEF DownLink, get_downstreamDirn
  <2>4. DownLink(d, r) \in MeshLinks
    BY <1>1, <2>1, <2>3 DEF MeshLinks
  <2>5. x + 1 \in 0 .. NumCols - 1
    BY <2>1, Sizes
  <2>6. /\ get_downstreamId(d, r) \in MeshRouters
        /\ XPos(get_downstreamId(d, r)) = x + 1 /\ YPos(get_downstreamId(d, r)) = y
    BY <1>1, <2>2, <2>5, RouterAt
  <2> QED
    BY <1>4, <2>4, <2>6 DEF Moved, x, y
<1>5. CASE d = "West"
  <2>1. x - 1 \in 0 .. NumCols - 2
    BY <1>1, <1>5, Sizes DEF Inside, x
  <2>2. get_downstreamId(d, r) = (x - 1) + y * NumCols
    BY <1>1, <1>3, <1>5 DEF get_downstreamId
  <2>3. DownLink(d, r) = MeshLink(((x - 1) + 1) + y * NumCols, "West", (x - 1) + y * NumCols, "East")
    BY <1>1, <1>3, <1>5, <2>2 DEF DownLink, get_downstreamDirn
  <2>4. DownLink(d, r) \in MeshLinks
    BY <1>1, <2>1, <2>3 DEF MeshLinks
  <2>5. x - 1 \in 0 .. NumCols - 1
    BY <2>1, Sizes
  <2>6. /\ get_downstreamId(d, r) \in MeshRouters
        /\ XPos(get_downstreamId(d, r)) = x - 1 /\ YPos(get_downstreamId(d, r)) = y
    BY <1>1, <2>2, <2>5, RouterAt
  <2> QED
    BY <1>5, <2>4, <2>6 DEF Moved, x, y
<1>6. CASE d = "North"
  <2>1. y \in 0 .. NumRows - 2
    BY <1>1, <1>6, Sizes DEF Inside, y
  <2>2. get_downstreamId(d, r) = x + (y + 1) * NumCols
    BY <1>1, <1>2, <1>3, <1>6, Sizes DEF get_downstreamId
  <2>3. DownLink(d, r) = MeshLink(x + y * NumCols, "North", x + (y + 1) * NumCols, "South")
    BY <1>1, <1>6, <2>2 DEF DownLink, get_downstreamDirn
  <2>4. DownLink(d, r) \in MeshLinks
    BY <1>1, <2>1, <2>3 DEF MeshLinks
  <2>5. y + 1 \in 0 .. NumRows - 1
    BY <2>1, Sizes
  <2>6. /\ get_downstreamId(d, r) \in MeshRouters
        /\ XPos(get_downstreamId(d, r)) = x /\ YPos(get_downstreamId(d, r)) = y + 1
    BY <1>1, <2>2, <2>5, RouterAt
  <2> QED
    BY <1>6, <2>4, <2>6 DEF Moved, x, y
<1>7. CASE d = "South"
  <2>1. y - 1 \in 0 .. NumRows - 2
    BY <1>1, <1>7, Sizes DEF Inside, y
  <2>2. get_downstreamId(d, r) = x + (y - 1) * NumCols
    BY <1>1, <1>2, <1>3, <1>7, Sizes DEF get_downstreamId
  <2>3. y - 1 + 1 = y
    BY <1>1
  <2>4. DownLink(d, r) = MeshLink(x + ((y - 1) + 1) * NumCols, "South", x + (y - 1) * NumCols, "North")
    BY <1>1, <1>7, <2>2, <2>3 DEF DownLink, get_downstreamDirn
  <2>5. DownLink(d, r) \in MeshLinks
    BY <1>1, <2>1, <2>4 DEF MeshLinks
  <2>6. y - 1 \in 0 .. NumRows - 1
    BY <2>1, Sizes
  <2>7. /\ get_downstreamId(d, r) \in MeshRouters
        /\ XPos(get_downstreamId(d, r)) = x /\ YPos(get_downstreamId(d, r)) = y - 1
    BY <1>1, <2>2, <2>6, RouterAt
  <2> QED
    BY <1>7, <2>5, <2>7 DEF Moved, x, y
<1> QED
  BY <1>4, <1>5, <1>6, <1>7 DEF Directions

\* And those are all the links.
LEMMA LinkIs ==
  ASSUME NEW l \in MeshLinks
  PROVE  /\ l.src \in MeshRouters /\ l.outport \in Directions
         /\ Inside(l.outport, l.src)
         /\ l = DownLink(l.outport, l.src)
<1> DEFINE id(row, col) == col + row * NumCols
<1>1. CASE \E row \in 0 .. NumRows - 1, col \in 0 .. NumCols - 2 :
             l = MeshLink(id(row, col), "East", id(row, col + 1), "West")
  <2>1. PICK row \in 0 .. NumRows - 1, col \in 0 .. NumCols - 2 :
               l = MeshLink(id(row, col), "East", id(row, col + 1), "West")
    BY <1>1
  <2>2. /\ col \in 0 .. NumCols - 1 /\ row * NumCols \in Int
        /\ id(row, col + 1) = id(row, col) + 1
    BY Sizes
  <2>3. id(row, col) \in MeshRouters /\ XPos(id(row, col)) = col /\ YPos(id(row, col)) = row
    BY <2>2, RouterAt
  <2> HIDE DEF id
  <2> QED
    BY <2>1, <2>2, <2>3, Sizes
    DEF MeshLink, DownLink, Directions, Inside, get_downstreamId, get_downstreamDirn
<1>2. CASE \E row \in 0 .. NumRows - 1, col \in 0 .. NumCols - 2 :
             l = MeshLink(id(row, col + 1), "West", id(row, col), "East")
  <2>1. PICK row \in 0 .. NumRows - 1, col \in 0 .. NumCols - 2 :
               l = MeshLink(id(row, col + 1), "West", id(row, col), "East")
    BY <1>2
  <2>2. /\ col + 1 \in 0 .. NumCols - 1 /\ row * NumCols \in Int
        /\ id(row, col) = id(row, col + 1) - 1
    BY Sizes
  <2>3. /\ id(row, col + 1) \in MeshRouters
        /\ XPos(id(row, col + 1)) = col + 1 /\ YPos(id(row, col + 1)) = row
    BY <2>2, RouterAt
  <2> HIDE DEF id
  <2> QED
    BY <2>1, <2>2, <2>3, Sizes
    DEF MeshLink, DownLink, Directions, Inside, get_downstreamId, get_downstreamDirn
<1>3. CASE \E row \in 0 .. NumRows - 2, col \in 0 .. NumCols - 1 :
             l = MeshLink(id(row, col), "North", id(row + 1, col), "South")
  <2>1. PICK row \in 0 .. NumRows - 2, col \in 0 .. NumCols - 1 :
               l = MeshLink(id(row, col), "North", id(row + 1, col), "South")
    BY <1>3
  <2>2. row \in 0 .. NumRows - 1 /\ row * NumCols \in Int /\ (row + 1) * NumCols = row * NumCols + NumCols
    BY Sizes
  <2>3. id(row + 1, col) = id(row, col) + NumCols
    BY <2>2, Sizes
  <2>4. id(row, col) \in MeshRouters /\ XPos(id(row, col)) = col /\ YPos(id(row, col)) = row
    BY <2>2, RouterAt
  <2> HIDE DEF id
  <2> QED
    BY <2>1, <2>3, <2>4, Sizes
    DEF MeshLink, DownLink, Directions, Inside, get_downstreamId, get_downstreamDirn
<1>4. CASE \E row \in 0 .. NumRows - 2, col \in 0 .. NumCols - 1 :
             l = MeshLink(id(row + 1, col), "South", id(row, col), "North")
  <2>1. PICK row \in 0 .. NumRows - 2, col \in 0 .. NumCols - 1 :
               l = MeshLink(id(row + 1, col), "South", id(row, col), "North")
    BY <1>4
  <2>2. row + 1 \in 0 .. NumRows - 1 /\ row * NumCols \in Int /\ (row + 1) * NumCols = row * NumCols + NumCols
    BY Sizes
  <2>3. id(row, col) = id(row + 1, col) - NumCols
    BY <2>2, Sizes
  <2>4. /\ id(row + 1, col) \in MeshRouters
        /\ XPos(id(row + 1, col)) = col /\ YPos(id(row + 1, col)) = row + 1
    BY <2>2, RouterAt
  <2> HIDE DEF id
  <2> QED
    BY <2>1, <2>3, <2>4, Sizes
    DEF MeshLink, DownLink, Directions, Inside, get_downstreamId, get_downstreamDirn
<1> QED
  BY <1>1, <1>2, <1>3, <1>4 DEF MeshLinks

-----------------------------------------------------------------------------
\* The routing algorithms.  A direction that has a link and brings the packet
\* one hop closer.
Productive(d, id, dst) ==
  /\ d \in Directions /\ Inside(d, id)
  /\ Hops(get_downstreamId(d, id), dst) = Hops(id, dst) - 1

LEMMA HopsZero ==
  ASSUME NEW i \in MeshRouters, NEW j \in MeshRouters
  PROVE  /\ XHops(i, j) \in Nat /\ YHops(i, j) \in Nat /\ Hops(i, j) \in Nat
         /\ Hops(i, j) = 0 <=> i = j
<1>1. /\ XPos(i) \in Int /\ YPos(i) \in Int /\ i = XPos(i) + YPos(i) * NumCols
      /\ XPos(j) \in Int /\ YPos(j) \in Int /\ j = XPos(j) + YPos(j) * NumCols
  BY Coordinates, Sizes
<1>2. XHops(i, j) \in Nat /\ YHops(i, j) \in Nat
  BY <1>1 DEF XHops, YHops, AbsDiff
<1>3. XHops(i, j) = 0 /\ YHops(i, j) = 0 => XPos(i) = XPos(j) /\ YPos(i) = YPos(j)
  BY <1>1 DEF XHops, YHops, AbsDiff
<1>4. i = j => XHops(i, j) = 0 /\ YHops(i, j) = 0
  BY <1>1 DEF XHops, YHops, AbsDiff
<1> QED
  BY <1>1, <1>2, <1>3, <1>4 DEF Hops

\* outportComputeRandom draws from exactly the productive directions.
LEMMA RandomProductive ==
  ASSUME NEW id \in MeshRouters, NEW dst \in MeshRouters, NEW d
  PROVE  d \in outportComputeRandom(id, dst) <=> Productive(d, id, dst)
<1>1. /\ XPos(id) \in 0 .. NumCols - 1 /\ YPos(id) \in 0 .. NumRows - 1
      /\ XPos(dst) \in 0 .. NumCols - 1 /\ YPos(dst) \in 0 .. NumRows - 1
  BY Coordinates
<1>2. ASSUME d \in outportComputeRandom(id, dst)
      PROVE  d \in Directions /\ Inside(d, id)
  <2>1. \/ d = "East" /\ XPos(dst) > XPos(id)
        \/ d = "West" /\ XPos(dst) < XPos(id)
        \/ d = "North" /\ YPos(dst) > YPos(id)
        \/ d = "South" /\ YPos(dst) < YPos(id)
    BY <1>1, <1>2 DEF outportComputeRandom, XDir, YDir, XHops, YHops, AbsDiff
  <2>2. CASE d = "East" /\ XPos(dst) > XPos(id)
    BY <1>1, <2>2, Sizes DEF Directions, Inside
  <2>3. CASE d = "West" /\ XPos(dst) < XPos(id)
    BY <1>1, <2>3, Sizes DEF Directions, Inside
  <2>4. CASE d = "North" /\ YPos(dst) > YPos(id)
    BY <1>1, <2>4, Sizes DEF Directions, Inside
  <2>5. CASE d = "South" /\ YPos(dst) < YPos(id)
    BY <1>1, <2>5, Sizes DEF Directions, Inside
  <2> QED
    BY <2>1, <2>2, <2>3, <2>4, <2>5
<1>3. ASSUME d \in Directions, Inside(d, id)
      PROVE  d \in outportComputeRandom(id, dst) <=> Hops(get_downstreamId(d, id), dst) = Hops(id, dst) - 1
  <2> DEFINE s == get_downstreamId(d, id)
  <2>1. s \in MeshRouters /\ Moved(d, id, s)
    BY <1>3, LinkFrom
  <2> HIDE DEF s
  <2>2. CASE d = "East"
    BY <1>1, <2>1, <2>2, Sizes
    DEF outportComputeRandom, XDir, YDir, Hops, XHops, YHops, AbsDiff, Moved, s
  <2>3. CASE d = "West"
    BY <1>1, <2>1, <2>3, Sizes
    DEF outportComputeRandom, XDir, YDir, Hops, XHops, YHops, AbsDiff, Moved, s
  <2>4. CASE d = "North"
    BY <1>1, <2>1, <2>4, Sizes
    DEF outportComputeRandom, XDir, YDir, Hops, XHops, YHops, AbsDiff, Moved, s
  <2>5. CASE d = "South"
    BY <1>1, <2>1, <2>5, Sizes
    DEF outportComputeRandom, XDir, YDir, Hops, XHops, YHops, AbsDiff, Moved, s
  <2> QED
    BY <1>3, <2>2, <2>3, <2>4, <2>5 DEF Directions
<1> QED
  BY <1>2, <1>3 DEF Productive

\* Every algorithm that does not read the table chooses among them.
LEMMA XYWithinWestFirst ==
  ASSUME NEW id \in MeshRouters, NEW dst \in MeshRouters, id # dst
  PROVE  outportComputeXY(id, dst) \subseteq outportComputeWestFirst(id, dst)
<1>1. /\ XPos(id) \in Int /\ YPos(id) \in Int /\ XPos(dst) \in Int /\ YPos(dst) \in Int
  BY Coordinates, Sizes
<1>2. XHops(id, dst) \in Nat /\ YHops(id, dst) \in Nat /\ (XHops(id, dst) = 0 => YHops(id, dst) > 0)
  BY HopsZero DEF Hops
<1> QED
  BY <1>1, <1>2
  DEF outportComputeXY, outportComputeWestFirst, outportComputeRandom, XDir, YDir

LEMMA WestFirstWithinRandom ==
  ASSUME NEW id, NEW dst
  PROVE  outportComputeWestFirst(id, dst) \subseteq outportComputeRandom(id, dst)
BY DEF outportComputeWestFirst

LEMMA AlgorithmsProductive ==
  ASSUME NEW a \in Algorithms \ {"TABLE"}, NEW id \in MeshRouters, NEW dst \in MeshRouters, id # dst,
         NEW free
  PROVE  outportCompute(a, id, dst, free) \subseteq outportComputeRandom(id, dst)
<1>1. CASE a = "XY"
  BY <1>1, XYWithinWestFirst, WestFirstWithinRandom DEF outportCompute
<1>2. CASE a = "RANDOM"
  BY <1>2 DEF outportCompute
<1>3. CASE a = "ADAPT_RAND"
  BY <1>3 DEF outportCompute, outportComputeAdaptRand, MoreFree
<1>4. CASE a = "WestFirst"
  BY <1>4, WestFirstWithinRandom DEF outportCompute
<1>5. CASE a = "ADAPT_WestFirst"
  BY <1>5, WestFirstWithinRandom DEF outportCompute, outportComputeAdaptWestFirst, MoreFree
<1> QED
  BY <1>1, <1>2, <1>3, <1>4, <1>5 DEF Algorithms

-----------------------------------------------------------------------------
\* The passes of extend_shortest_path.  The recursive definition defines a
\* function: g is its part up to m, which exists for every m and is unique.
Passes(g, m) ==
  g = [n \in 0 .. m |-> IF n = 0 THEN topology_weights ELSE RelaxAll(g[n - 1])]

LEMMA PassesValues ==
  ASSUME NEW g, NEW m \in Nat, Passes(g, m)
  PROVE  /\ g[0] = topology_weights
         /\ \A n \in 1 .. m : g[n] = RelaxAll(g[n - 1])
BY DEF Passes

LEMMA PassesExist ==
  ASSUME NEW m \in Nat
  PROVE  \E g : Passes(g, m)
<1> DEFINE S == {k \in Nat : ~\E g : Passes(g, k)}
<1> SUFFICES ASSUME S # {} PROVE FALSE
  OBVIOUS
<1>1. PICK k \in S : \A y \in S : k <= y
  BY LeastExists
<1>2. CASE k = 0
  <2> DEFINE g == [n \in 0 .. 0 |-> topology_weights]
  <2>1. Passes(g, 0)
    BY DEF Passes
  <2> QED
    BY <1>1, <1>2, <2>1
<1>3. CASE k # 0
  <2>1. k - 1 \in Nat /\ k - 1 \notin S
    BY <1>1, <1>3
  <2>2. PICK g : Passes(g, k - 1)
    BY <2>1
  <2> DEFINE h == [n \in 0 .. k |-> IF n = k THEN RelaxAll(g[k - 1]) ELSE g[n]]
  <2>3. g[0] = topology_weights /\ \A n \in 1 .. k - 1 : g[n] = RelaxAll(g[n - 1])
    BY <2>1, <2>2, PassesValues
  <2>4. ASSUME NEW n \in 0 .. k
        PROVE  h[n] = IF n = 0 THEN topology_weights ELSE RelaxAll(h[n - 1])
    <3>1. CASE n = 0
      BY <1>3, <2>3, <3>1
    <3>2. CASE n # 0
      <4>1. n - 1 \in 0 .. k /\ n - 1 # k /\ h[n - 1] = g[n - 1]
        BY <3>2
      <4>2. h[n] = RelaxAll(g[n - 1])
        BY <2>3, <3>2
      <4> QED
        BY <3>2, <4>1, <4>2
    <3> QED
      BY <3>1, <3>2
  <2>5. h = [n \in 0 .. k |-> h[n]]
    OBVIOUS
  <2> HIDE DEF h
  <2>6. Passes(h, k)
    BY <2>4, <2>5 DEF Passes
  <2> QED
    BY <1>1, <2>6
<1> QED
  BY <1>2, <1>3

LEMMA PassesUnique ==
  ASSUME NEW m \in Nat, NEW p \in Nat, NEW g, NEW h, Passes(g, m), Passes(h, p),
         NEW n \in Nat, n <= m, n <= p
  PROVE  g[n] = h[n]
<1> DEFINE S == {k \in Nat : k <= m /\ k <= p /\ g[k] # h[k]}
<1> SUFFICES ASSUME S # {} PROVE FALSE
  OBVIOUS
<1>1. PICK k \in S : \A y \in S : k <= y
  BY LeastExists
<1>2. k # 0
  BY <1>1, PassesValues
<1>3. k - 1 \in Nat /\ k - 1 <= m /\ k - 1 <= p /\ k - 1 \notin S /\ k \in 1 .. m /\ k \in 1 .. p
  BY <1>1, <1>2
<1>4. g[k - 1] = h[k - 1]
  BY <1>3
<1>5. g[k] = RelaxAll(g[k - 1]) /\ h[k] = RelaxAll(h[k - 1])
  BY <1>3, PassesValues
<1> QED
  BY <1>1, <1>4, <1>5

LEMMA ExtendValues ==
  /\ extend_shortest_path[0] = topology_weights
  /\ \A n \in Nat : extend_shortest_path[n + 1] = RelaxAll(extend_shortest_path[n])
<1> DEFINE G(n) == CHOOSE g : Passes(g, n)
           f == [n \in Nat |-> G(n)[n]]
<1>1. \A n \in Nat : Passes(G(n), n)
  BY PassesExist
<1> HIDE DEF G
<1>2. ASSUME NEW n \in Nat
      PROVE  f[n] = IF n = 0 THEN topology_weights ELSE RelaxAll(f[n - 1])
  <2>1. CASE n = 0
    BY <1>1, <2>1, PassesValues
  <2>2. CASE n # 0
    <3>1. n - 1 \in Nat /\ n \in 1 .. n /\ n - 1 <= n
      BY <2>2
    <3>2. G(n)[n] = RelaxAll(G(n)[n - 1])
      BY <1>1, <3>1, PassesValues
    <3>3. G(n)[n - 1] = G(n - 1)[n - 1]
      BY <1>1, <3>1, PassesUnique
    <3> QED
      BY <2>2, <3>1, <3>2, <3>3
  <2> QED
    BY <2>1, <2>2
<1>3. f = [n \in Nat |-> f[n]]
  OBVIOUS
<1> HIDE DEF f
<1>4. f = [n \in Nat |-> IF n = 0 THEN topology_weights ELSE RelaxAll(f[n - 1])]
  BY <1>2, <1>3
<1>5. extend_shortest_path =
        [n \in Nat |-> IF n = 0 THEN topology_weights ELSE RelaxAll(extend_shortest_path[n - 1])]
  BY <1>4, Zenon DEF extend_shortest_path
<1> DEFINE e == extend_shortest_path
<1> HIDE DEF e
<1>6. \A m \in Nat : e[m] = IF m = 0 THEN topology_weights ELSE RelaxAll(e[m - 1])
  BY <1>5, Zenon DEF e
<1>7. ASSUME NEW n \in Nat
      PROVE  extend_shortest_path[n + 1] = RelaxAll(extend_shortest_path[n])
  <2>1. n + 1 \in Nat /\ n + 1 # 0 /\ n + 1 - 1 = n
    OBVIOUS
  <2>2. e[n + 1] = RelaxAll(e[n + 1 - 1])
    BY <1>6, <2>1
  <2> QED
    BY <2>1, <2>2 DEF e
<1>8. e[0] = topology_weights
  BY <1>6
<1> QED
  BY <1>7, <1>8 DEF e

-----------------------------------------------------------------------------
\* The distances.  The hops are a metric, and one hop is a link.
LEMMA Triangle ==
  ASSUME NEW i \in MeshRouters, NEW j \in MeshRouters, NEW k \in MeshRouters
  PROVE  Hops(i, j) <= Hops(i, k) + Hops(k, j)
<1>1. /\ XPos(i) \in Int /\ YPos(i) \in Int /\ XPos(j) \in Int /\ YPos(j) \in Int
      /\ XPos(k) \in Int /\ YPos(k) \in Int
  BY Coordinates, Sizes
<1>2. XHops(i, j) <= XHops(i, k) + XHops(k, j)
  BY <1>1 DEF XHops, AbsDiff
<1>3. YHops(i, j) <= YHops(i, k) + YHops(k, j)
  BY <1>1 DEF YHops, AbsDiff
<1> QED
  BY <1>2, <1>3, HopsZero DEF Hops

LEMMA HopsBound ==
  ASSUME NEW i \in MeshRouters, NEW j \in MeshRouters
  PROVE  Hops(i, j) <= NumRows + NumCols - 2 /\ Hops(i, j) <= NumRows * NumCols
<1>1. /\ XPos(i) \in 0 .. NumCols - 1 /\ YPos(i) \in 0 .. NumRows - 1
      /\ XPos(j) \in 0 .. NumCols - 1 /\ YPos(j) \in 0 .. NumRows - 1
  BY Coordinates
<1>2. Hops(i, j) <= NumRows + NumCols - 2
  BY <1>1, Sizes DEF Hops, XHops, YHops, AbsDiff
<1>3. NumRows + NumCols - 2 <= NumRows * NumCols
  <2>1. (NumRows - 1) * (NumCols - 1) >= 0
    BY Sizes
  <2>2. (NumRows - 1) * (NumCols - 1) = NumRows * NumCols - NumRows - NumCols + 1
    BY Sizes
  <2>3. NumRows * NumCols \in Nat
    BY Sizes
  <2> QED
    BY <2>1, <2>2, <2>3, Sizes
<1> QED
  BY <1>2, <1>3, HopsZero, Sizes

LEMMA MovedOneHop ==
  ASSUME NEW d \in Directions, NEW r \in MeshRouters, NEW s \in MeshRouters, Moved(d, r, s)
  PROVE  Hops(r, s) = 1
<1>1. XPos(r) \in Int /\ YPos(r) \in Int /\ XPos(s) \in Int /\ YPos(s) \in Int
  BY Coordinates, Sizes
<1>2. CASE d = "East"
  BY <1>1, <1>2 DEF Moved, Hops, XHops, YHops, AbsDiff
<1>3. CASE d = "West"
  BY <1>1, <1>3 DEF Moved, Hops, XHops, YHops, AbsDiff
<1>4. CASE d = "North"
  BY <1>1, <1>4 DEF Moved, Hops, XHops, YHops, AbsDiff
<1>5. CASE d = "South"
  BY <1>1, <1>5 DEF Moved, Hops, XHops, YHops, AbsDiff
<1> QED
  BY <1>2, <1>3, <1>4, <1>5 DEF Directions

LEMMA OneHop ==
  ASSUME NEW l \in MeshLinks
  PROVE  l.src \in MeshRouters /\ l.dst \in MeshRouters /\ Hops(l.src, l.dst) = 1
<1>1. /\ l.src \in MeshRouters /\ l.outport \in Directions /\ Inside(l.outport, l.src)
      /\ l = DownLink(l.outport, l.src)
  BY LinkIs
<1>2. l.dst = get_downstreamId(l.outport, l.src)
  BY <1>1 DEF DownLink, MeshLink
<1>3. l.dst \in MeshRouters /\ Moved(l.outport, l.src, l.dst)
  BY <1>1, <1>2, LinkFrom
<1> QED
  BY <1>1, <1>3, MovedOneHop

\* A packet short of its destination has a productive direction.
LEMMA SomeProductive ==
  ASSUME NEW id \in MeshRouters, NEW dst \in MeshRouters, id # dst
  PROVE  \E d : Productive(d, id, dst)
<1>1. XHops(id, dst) \in Nat /\ YHops(id, dst) \in Nat /\ (XHops(id, dst) > 0 \/ YHops(id, dst) > 0)
  BY HopsZero DEF Hops
<1>2. \E d : d \in outportComputeRandom(id, dst)
  BY <1>1 DEF outportComputeRandom
<1> QED
  BY <1>2, RandomProductive

LEMMA ProductiveLink ==
  ASSUME NEW id \in MeshRouters, NEW dst \in MeshRouters, NEW d, Productive(d, id, dst)
  PROVE  /\ DownLink(d, id) \in MeshLinks
         /\ DownLink(d, id).src = id /\ DownLink(d, id).dst = get_downstreamId(d, id)
         /\ get_downstreamId(d, id) \in MeshRouters
         /\ Hops(id, get_downstreamId(d, id)) = 1
<1>1. DownLink(d, id) \in MeshLinks /\ get_downstreamId(d, id) \in MeshRouters
  BY LinkFrom DEF Productive
<1>2. DownLink(d, id).src = id /\ DownLink(d, id).dst = get_downstreamId(d, id)
  BY DEF DownLink, MeshLink
<1> QED
  BY <1>1, <1>2, OneHop

LEMMA MinOf ==
  ASSUME NEW S \in SUBSET Nat, S # {}
  PROVE  Min(S) \in S /\ \A y \in S : Min(S) <= y
BY LeastExists DEF Min

\* A mesh whose longest path is not longer than what createLinks takes for
\* the weight of a link that is not there.
MeshFits == NumRows + NumCols - 2 <= INFINITE_LATENCY

\* A matrix of distances that are never too short, and exact up to n hops.
ExactUpTo(n, D) ==
  /\ \A i \in MeshRouters, j \in MeshRouters :
       D[i][j] \in Nat /\ Hops(i, j) <= D[i][j]
  /\ \A i \in MeshRouters, j \in MeshRouters : Hops(i, j) <= n => D[i][j] = Hops(i, j)

LEMMA WeightOf ==
  ASSUME NEW i \in MeshRouters, NEW j \in MeshRouters
  PROVE  /\ i = j => topology_weights[i][j] = 0
         /\ (\E l \in MeshLinks : l.src = i /\ l.dst = j) => topology_weights[i][j] = 1
         /\ \/ topology_weights[i][j] = INFINITE_LATENCY
            \/ i = j
            \/ \E l \in MeshLinks : l.src = i /\ l.dst = j
<1> DEFINE between == {l \in MeshLinks : l.src = i /\ l.dst = j}
           weight == IF i = j THEN 0
                     ELSE IF between = {} THEN INFINITE_LATENCY
                     ELSE Min({LinkWeight(l.outport) : l \in between})
<1>1. topology_weights[i][j] = weight
  BY DEF topology_weights
<1>2. ASSUME NEW l \in between PROVE i # j
  BY OneHop, HopsZero
<1>3. ASSUME between # {} PROVE Min({LinkWeight(l.outport) : l \in between}) = 1
  <2>1. {LinkWeight(l.outport) : l \in between} = {1}
    BY <1>3 DEF LinkWeight
  <2>2. Min({1}) = 1
    BY MinOf
  <2> QED
    BY <2>1, <2>2
<1> QED
  BY <1>1, <1>2, <1>3

LEMMA WeightsExact ==
  ASSUME MeshFits
  PROVE  ExactUpTo(1, topology_weights)
<1> SUFFICES ASSUME NEW i \in MeshRouters, NEW j \in MeshRouters
             PROVE  /\ topology_weights[i][j] \in Nat /\ Hops(i, j) <= topology_weights[i][j]
                    /\ Hops(i, j) <= 1 => topology_weights[i][j] = Hops(i, j)
  BY DEF ExactUpTo
<1>1. Hops(i, j) \in Nat /\ (Hops(i, j) = 0 <=> i = j) /\ Hops(i, j) <= INFINITE_LATENCY
  BY HopsZero, HopsBound, Sizes DEF MeshFits, INFINITE_LATENCY
<1>2. CASE i = j
  BY <1>1, <1>2, WeightOf
<1>3. CASE \E l \in MeshLinks : l.src = i /\ l.dst = j
  BY <1>3, WeightOf, OneHop
<1>4. CASE i # j /\ ~\E l \in MeshLinks : l.src = i /\ l.dst = j
  <2>1. topology_weights[i][j] = INFINITE_LATENCY
    BY <1>4, WeightOf
  <2>2. Hops(i, j) # 1
    <3> SUFFICES ASSUME Hops(i, j) = 1 PROVE FALSE
      OBVIOUS
    <3>1. PICK d : Productive(d, i, j)
      BY <1>4, SomeProductive
    <3>2. Hops(get_downstreamId(d, i), j) = 0
      BY <3>1 DEF Productive
    <3>3. get_downstreamId(d, i) = j
      BY <3>1, <3>2, ProductiveLink, HopsZero
    <3> QED
      BY <1>4, <3>1, <3>3, ProductiveLink
  <2> QED
    BY <1>1, <1>4, <2>1, <2>2 DEF INFINITE_LATENCY
<1> QED
  BY <1>2, <1>3, <1>4

\* A pass makes the distances exact for one more hop at least.
LEMMA RelaxExact ==
  ASSUME NEW D, NEW n \in Nat, n >= 1, ExactUpTo(n, D)
  PROVE  ExactUpTo(n + 1, RelaxAll(D))
<1> SUFFICES ASSUME NEW i \in MeshRouters, NEW j \in MeshRouters
             PROVE  /\ RelaxAll(D)[i][j] \in Nat /\ Hops(i, j) <= RelaxAll(D)[i][j]
                    /\ Hops(i, j) <= n + 1 => RelaxAll(D)[i][j] = Hops(i, j)
  BY DEF ExactUpTo
<1> DEFINE S == {D[i][k] + D[k][j] : k \in MeshRouters}
<1>1. RelaxAll(D)[i][j] = Min(S)
  BY DEF RelaxAll
<1>2. ASSUME NEW k \in MeshRouters
      PROVE  D[i][k] + D[k][j] \in Nat /\ Hops(i, j) <= D[i][k] + D[k][j]
  BY HopsZero, Triangle DEF ExactUpTo
<1>3. S \subseteq Nat /\ \A y \in S : Hops(i, j) <= y
  BY <1>2
<1>4. S # {}
  OBVIOUS
<1> HIDE DEF S
<1>5. Min(S) \in S /\ \A y \in S : Min(S) <= y
  BY <1>3, <1>4, MinOf
<1>6. ASSUME Hops(i, j) <= n + 1 PROVE Hops(i, j) \in S
  <2>1. CASE i = j
    <3>1. D[i][i] = 0 /\ D[i][i] + D[i][j] = 0 /\ Hops(i, j) = 0
      BY <2>1, HopsZero DEF ExactUpTo
    <3> QED
      BY <3>1 DEF S
  <2>2. CASE i # j
    <3>1. PICK d : Productive(d, i, j)
      BY <2>2, SomeProductive
    <3> DEFINE k == get_downstreamId(d, i)
    <3>2. k \in MeshRouters /\ Hops(i, k) = 1 /\ Hops(k, j) = Hops(i, j) - 1
      BY <3>1, ProductiveLink DEF Productive
    <3> HIDE DEF k
    <3>3. Hops(i, j) \in Nat
      BY HopsZero
    <3>4. D[i][k] = 1 /\ D[k][j] = Hops(i, j) - 1
      BY <1>6, <3>2, <3>3 DEF ExactUpTo
    <3>5. D[i][k] + D[k][j] = Hops(i, j)
      BY <3>3, <3>4
    <3> QED
      BY <3>2, <3>5 DEF S
  <2> QED
    BY <2>1, <2>2
<1> QED
  BY <1>1, <1>3, <1>5, <1>6, HopsZero

LEMMA PassExact ==
  ASSUME MeshFits, NEW n \in Nat
  PROVE  ExactUpTo(n + 1, extend_shortest_path[n])
<1> DEFINE e == extend_shortest_path
           S == {k \in Nat : ~ExactUpTo(k + 1, e[k])}
<1> SUFFICES ASSUME S # {} PROVE FALSE
  OBVIOUS
<1>1. PICK k \in S : \A y \in S : k <= y
  BY LeastExists
<1>2. e[0] = topology_weights /\ \A m \in Nat : e[m + 1] = RelaxAll(e[m])
  BY ExtendValues
<1> HIDE DEF e
<1>3. k # 0
  <2>1. 0 + 1 = 1
    OBVIOUS
  <2> QED
    BY <1>1, <1>2, <2>1, WeightsExact
<1>4. k - 1 \in Nat /\ k - 1 \notin S /\ k - 1 + 1 = k
  BY <1>1, <1>3
<1>5. ExactUpTo(k, e[k - 1]) /\ e[k] = RelaxAll(e[k - 1]) /\ k \in Nat /\ k >= 1
  BY <1>2, <1>4
<1>6. ExactUpTo(k + 1, e[k])
  BY <1>5, RelaxExact
<1> QED
  BY <1>1, <1>6

\* Once a pass changes nothing, no later one does.
LEMMA NoLaterChange ==
  ASSUME NEW m \in Nat, extend_shortest_path[m + 1] = extend_shortest_path[m],
         NEW n \in Nat, m <= n
  PROVE  extend_shortest_path[n] = extend_shortest_path[m]
<1> DEFINE e == extend_shortest_path
           S == {k \in Nat : m <= k /\ e[k] # e[m]}
<1> SUFFICES ASSUME S # {} PROVE FALSE
  OBVIOUS
<1>1. PICK k \in S : \A y \in S : k <= y
  BY LeastExists
<1>2. e[m + 1] = e[m] /\ \A p \in Nat : e[p + 1] = RelaxAll(e[p])
  BY ExtendValues
<1> HIDE DEF e
<1>3. k - 1 \in Nat /\ m <= k - 1 /\ k - 1 \notin S /\ k - 1 + 1 = k
  BY <1>1
<1>4. e[k - 1] = e[m] /\ e[k] = RelaxAll(e[k - 1])
  BY <1>2, <1>3
<1>5. e[k] = e[m]
  BY <1>2, <1>4
<1> QED
  BY <1>1, <1>5

\* The passes end, and leave the hops between all routers.
LEMMA ShortestPathIsHops ==
  ASSUME MeshFits, NEW i \in MeshRouters, NEW j \in MeshRouters
  PROVE  shortest_path[i][j] = Hops(i, j)
<1> DEFINE e == extend_shortest_path
           N == NumRows * NumCols
           H == [r \in MeshRouters |-> [s \in MeshRouters |-> Hops(r, s)]]
<1>1. N \in Nat
  BY Sizes
<1>2. ASSUME NEW n \in Nat, n >= N
      PROVE  \A r \in MeshRouters, s \in MeshRouters : e[n][r][s] = Hops(r, s)
  <2>1. ExactUpTo(n + 1, e[n])
    BY PassExact
  <2>2. \A r \in MeshRouters, s \in MeshRouters : Hops(r, s) <= n + 1
    BY <1>1, <1>2, HopsBound, HopsZero
  <2> HIDE DEF e
  <2> QED
    BY <2>1, <2>2 DEF ExactUpTo
<1>3. ASSUME NEW D, \A r \in MeshRouters, s \in MeshRouters : RelaxAll(D)[r][s] = Hops(r, s)
      PROVE  RelaxAll(D) = H
  BY <1>3 DEF RelaxAll
<1>4. ASSUME NEW n \in Nat, n >= N, n >= 1
      PROVE  e[n] = H
  <2>1. n - 1 \in Nat /\ n - 1 + 1 = n
    BY <1>4
  <2>2. e[n] = RelaxAll(e[n - 1])
    BY <2>1, ExtendValues
  <2> HIDE DEF e, H
  <2> QED
    BY <1>2, <1>3, <1>4, <2>2
<1>5. N >= 1
  BY Sizes
<1>6. N + 1 \in Nat /\ N + 1 >= N /\ N + 1 >= 1
  BY <1>1
<1>7. e[N] = H /\ e[N + 1] = H
  BY <1>1, <1>4, <1>5, <1>6
<1>8. PICK n \in 0 .. N : e[n + 1] = e[n] /\ shortest_path = e[n]
  <2>1. N \in 0 .. N /\ ~(e[N + 1] # e[N])
    BY <1>1, <1>7
  <2> DEFINE n == CHOOSE n \in 0 .. N : ~(e[n + 1] # e[n])
  <2>2. n \in 0 .. N /\ ~(e[n + 1] # e[n])
    BY <2>1
  <2>3. shortest_path = e[n]
    BY DEF shortest_path
  <2> QED
    BY <2>2, <2>3
<1>9. e[N] = e[n]
  BY <1>1, <1>8, NoLaterChange
<1>10. shortest_path = H
  BY <1>7, <1>8, <1>9
<1> QED
  BY <1>10

LEMMA TableIsRandom ==
  ASSUME MeshFits, NEW id \in MeshRouters, NEW dst \in MeshRouters
  PROVE  lookupRoutingTable(id, dst) = outportComputeRandom(id, dst)
<1> DEFINE ok(l) == l.src = id /\ link_is_shortest_path_to_node(l, dst)
           candidates == {l.outport : l \in {m \in MeshLinks : ok(m)}}
<1>1. lookupRoutingTable(id, dst) = candidates
  BY DEF lookupRoutingTable, LinkWeight
<1>2. ASSUME NEW l \in MeshLinks, l.src = id
      PROVE  link_is_shortest_path_to_node(l, dst) <=> Hops(l.dst, dst) = Hops(id, dst) - 1
  <2>1. l.dst \in MeshRouters
    BY OneHop
  <2>2. /\ topology_weights[l.src][l.dst] = 1
        /\ shortest_path[l.dst][dst] = Hops(l.dst, dst) /\ shortest_path[l.src][dst] = Hops(id, dst)
    BY <1>2, <2>1, WeightOf, ShortestPathIsHops
  <2>3. Hops(l.dst, dst) \in Nat /\ Hops(id, dst) \in Nat
    BY <2>1, HopsZero
  <2> QED
    BY <2>2, <2>3 DEF link_is_shortest_path_to_node
<1>3. ASSUME NEW d \in candidates PROVE d \in outportComputeRandom(id, dst)
  <2>1. PICK l \in MeshLinks : ok(l) /\ d = l.outport
    OBVIOUS
  <2>2. /\ d \in Directions /\ Inside(d, id) /\ l = DownLink(d, id)
    BY <2>1, LinkIs
  <2>3. l.dst = get_downstreamId(d, id)
    BY <2>2 DEF DownLink, MeshLink
  <2>4. Productive(d, id, dst)
    BY <1>2, <2>1, <2>2, <2>3 DEF Productive
  <2> QED
    BY <2>4, RandomProductive
<1>4. ASSUME NEW d \in outportComputeRandom(id, dst) PROVE d \in candidates
  <2>1. Productive(d, id, dst)
    BY RandomProductive
  <2> DEFINE l == DownLink(d, id)
  <2>2. l \in MeshLinks /\ l.src = id /\ l.dst = get_downstreamId(d, id)
    BY <2>1, ProductiveLink
  <2>3. l.outport = d
    BY DEF DownLink, MeshLink
  <2> HIDE DEF l
  <2>4. ok(l)
    BY <1>2, <2>1, <2>2 DEF Productive
  <2> QED
    BY <2>2, <2>3, <2>4
<1> QED
  BY <1>1, <1>3, <1>4

-----------------------------------------------------------------------------
\* The order in which links are waited for.  A packet in router r that goes
\* in direction d precedes one in router s that goes in direction e: all ways
\* west come first, from east to west; then the ways in the other directions,
\* column by column from west to east, in a column those north or south, in
\* the direction they go, before those east.
Precedes(d, r, e, s) ==
  \/ d = "West" /\ e # "West"
  \/ d = "West" /\ e = "West" /\ XPos(s) < XPos(r)
  \/ d # "West" /\ e # "West" /\ XPos(r) < XPos(s)
  \/ d \in {"North", "South"} /\ e = "East" /\ XPos(r) = XPos(s)
  \/ d = "North" /\ e = "North" /\ XPos(r) = XPos(s) /\ YPos(r) < YPos(s)
  \/ d = "South" /\ e = "South" /\ XPos(r) = XPos(s) /\ YPos(s) < YPos(r)

LEMMA PrecedesStrict ==
  ASSUME NEW d \in Directions, NEW r \in MeshRouters
  PROVE  ~Precedes(d, r, d, r)
<1>1. XPos(r) \in Int /\ YPos(r) \in Int
  BY Coordinates, Sizes
<1> QED
  BY <1>1 DEF Precedes, Directions

LEMMA PrecedesTransitive ==
  ASSUME NEW c \in Directions, NEW d \in Directions, NEW e \in Directions,
         NEW r \in MeshRouters, NEW s \in MeshRouters, NEW t \in MeshRouters,
         Precedes(c, r, d, s), Precedes(d, s, e, t)
  PROVE  Precedes(c, r, e, t)
<1>1. /\ XPos(r) \in Int /\ YPos(r) \in Int /\ XPos(s) \in Int /\ YPos(s) \in Int
      /\ XPos(t) \in Int /\ YPos(t) \in Int
  BY Coordinates, Sizes
<1>2. CASE c = "West"
  BY <1>1, <1>2 DEF Precedes, Directions
<1>3. CASE c # "West"
  <2>1. d # "West" /\ e # "West" /\ XPos(r) <= XPos(s) /\ XPos(s) <= XPos(t)
    BY <1>1, <1>3 DEF Precedes
  <2>2. CASE XPos(r) < XPos(t)
    BY <1>3, <2>1, <2>2 DEF Precedes
  <2>3. CASE XPos(r) = XPos(t)
    <3>1. XPos(r) = XPos(s) /\ XPos(s) = XPos(t)
      BY <1>1, <2>1, <2>3
    <3> QED
      BY <1>1, <1>3, <2>1, <3>1 DEF Precedes, Directions
  <2> QED
    BY <1>1, <2>1, <2>2, <2>3
<1> QED
  BY <1>2, <1>3

\* The directions west first may take.
LEMMA WestFirstWays ==
  ASSUME NEW id \in MeshRouters, NEW dst \in MeshRouters, NEW d \in outportComputeWestFirst(id, dst)
  PROVE  \/ d = "West" /\ XPos(dst) < XPos(id)
         \/ d = "East" /\ XPos(dst) > XPos(id)
         \/ d = "North" /\ XPos(dst) >= XPos(id) /\ YPos(dst) > YPos(id)
         \/ d = "South" /\ XPos(dst) >= XPos(id) /\ YPos(dst) < YPos(id)
<1>1. XPos(id) \in Int /\ YPos(id) \in Int /\ XPos(dst) \in Int /\ YPos(dst) \in Int
  BY Coordinates, Sizes
<1>2. CASE XPos(dst) < XPos(id)
  <2>1. "West" \in outportComputeRandom(id, dst)
    BY <1>1, <1>2 DEF outportComputeRandom, XDir, XHops, AbsDiff
  <2> QED
    BY <1>2, <2>1 DEF outportComputeWestFirst
<1>3. CASE XPos(dst) >= XPos(id)
  <2>1. d \in outportComputeRandom(id, dst)
    BY WestFirstWithinRandom
  <2> QED
    BY <1>1, <1>3, <2>1 DEF outportComputeRandom, XDir, YDir, XHops, YHops, AbsDiff
<1> QED
  BY <1>1, <1>2, <1>3

\* A packet waits for a link after the one it holds.
LEMMA WestFirstTurn ==
  ASSUME NEW r \in MeshRouters, NEW s \in MeshRouters, NEW dst \in MeshRouters,
         NEW d \in outportComputeWestFirst(r, dst), Moved(d, r, s),
         NEW e \in outportComputeWestFirst(s, dst)
  PROVE  Precedes(d, r, e, s)
<1>1. /\ XPos(r) \in Int /\ YPos(r) \in Int /\ XPos(s) \in Int /\ YPos(s) \in Int
      /\ XPos(dst) \in Int /\ YPos(dst) \in Int
  BY Coordinates, Sizes
<1>2. \/ e = "West" /\ XPos(dst) < XPos(s)
      \/ e = "East" /\ XPos(dst) > XPos(s)
      \/ e = "North" /\ XPos(dst) >= XPos(s) /\ YPos(dst) > YPos(s)
      \/ e = "South" /\ XPos(dst) >= XPos(s) /\ YPos(dst) < YPos(s)
  BY WestFirstWays
<1>3. CASE d = "West" /\ XPos(dst) < XPos(r)
  BY <1>1, <1>2, <1>3 DEF Moved, Precedes
<1>4. CASE d = "East" /\ XPos(dst) > XPos(r)
  BY <1>1, <1>2, <1>4 DEF Moved, Precedes
<1>5. CASE d = "North" /\ XPos(dst) >= XPos(r) /\ YPos(dst) > YPos(r)
  BY <1>1, <1>2, <1>5 DEF Moved, Precedes
<1>6. CASE d = "South" /\ XPos(dst) >= XPos(r) /\ YPos(dst) < YPos(r)
  BY <1>1, <1>2, <1>6 DEF Moved, Precedes
<1> QED
  BY <1>3, <1>4, <1>5, <1>6, WestFirstWays

-----------------------------------------------------------------------------
\* The walk.  A packet has come by a link its algorithm may have chosen for
\* its destination.
WalkInv ==
  /\ algorithm \in Algorithms /\ dest \in MeshRouters /\ at \in MeshRouters
  /\ chained \in BOOLEAN /\ (chained => algorithm \in Chained)
  /\ first = NoMeshLink <=> link = NoMeshLink
  /\ first # NoMeshLink => first \in MeshLinks
  /\ link # NoMeshLink =>
       /\ link \in MeshLinks /\ at = link.dst /\ dest # link.src
       /\ \E free \in Free : link.outport \in outportCompute(algorithm, link.src, dest, free)

LEMMA NotNoLink ==
  ASSUME NEW l \in MeshLinks
  PROVE  l # NoMeshLink
<1>1. l.src \in MeshRouters
  BY LinkIs
<1> QED
  BY <1>1, Sizes DEF NoMeshLink, MeshRouters

\* The port an algorithm names is there, the table's as much as the others'.
LEMMA OutportInside ==
  ASSUME NEW a \in Algorithms, NEW id \in MeshRouters, NEW dst \in MeshRouters, id # dst,
         NEW free, NEW d \in outportCompute(a, id, dst, free)
  PROVE  d \in Directions /\ Inside(d, id)
<1>1. CASE a = "TABLE"
  <2>1. d \in lookupRoutingTable(id, dst)
    BY <1>1 DEF outportCompute
  <2>2. \E l \in MeshLinks : l.src = id /\ d = l.outport
    BY <2>1 DEF lookupRoutingTable
  <2> QED
    BY <2>2, LinkIs
<1>2. CASE a # "TABLE"
  BY <1>2, AlgorithmsProductive, RandomProductive DEF Productive
<1> QED
  BY <1>1, <1>2

\* What a hop does.
LEMMA HopStep ==
  ASSUME WalkInv, Hop
  PROVE  \E free \in Free : \E d \in outportCompute(algorithm, at, dest, free) :
           /\ d \in Directions
           /\ at' = get_downstreamId(d, at) /\ at' \in MeshRouters /\ Moved(d, at, at')
           /\ link' = DownLink(d, at) /\ link' \in MeshLinks
           /\ link'.src = at /\ link'.outport = d /\ link'.dst = at'
<1>1. at # dest /\ algorithm \in Algorithms /\ at \in MeshRouters /\ dest \in MeshRouters
  BY DEF Hop, WalkInv
<1>2. PICK free \in Free : \E d \in outportCompute(algorithm, at, dest, free) :
             /\ at' = get_downstreamId(d, at)
             /\ link' = MeshLink(at, d, at', get_downstreamDirn(d))
  BY Zenon DEF Hop
<1>3. PICK d \in outportCompute(algorithm, at, dest, free) :
             /\ at' = get_downstreamId(d, at)
             /\ link' = MeshLink(at, d, at', get_downstreamDirn(d))
  BY Zenon, <1>2
<1>4. d \in Directions /\ Inside(d, at)
  BY <1>1, OutportInside
<1>5. at' \in MeshRouters /\ Moved(d, at, at') /\ DownLink(d, at) \in MeshLinks
  BY <1>1, <1>3, <1>4, LinkFrom
<1>6. link' = DownLink(d, at)
  BY <1>3 DEF DownLink
<1>7. link'.src = at /\ link'.outport = d /\ link'.dst = at'
  BY <1>3 DEF MeshLink
<1> QED
  BY Zenon, <1>3, <1>4, <1>5, <1>6, <1>7

LEMMA WalkInit == Init => WalkInv
BY DEF Init, WalkInv

LEMMA WalkStep ==
  ASSUME WalkInv, [Next]_vars
  PROVE  WalkInv'
<1>1. CASE Hop
  <2>1. PICK free \in Free, d \in Directions :
               /\ d \in outportCompute(algorithm, at, dest, free)
               /\ at' \in MeshRouters /\ link' \in MeshLinks
               /\ link'.src = at /\ link'.outport = d /\ link'.dst = at'
    BY Zenon, <1>1, HopStep
  <2>2. link' # NoMeshLink
    BY <2>1, NotNoLink
  <2>3. /\ first' = IF first = NoMeshLink THEN link' ELSE first
        /\ algorithm' = algorithm /\ chained' = chained /\ dest' = dest /\ at # dest
    BY <1>1 DEF Hop
  <2>4. /\ algorithm' \in Algorithms /\ dest' \in MeshRouters /\ at' \in MeshRouters
        /\ chained' \in BOOLEAN /\ (chained' => algorithm' \in Chained)
    BY <2>1, <2>3 DEF WalkInv
  <2>5. first' # NoMeshLink /\ first' \in MeshLinks
    BY <2>1, <2>2, <2>3 DEF WalkInv
  <2>6. /\ at' = link'.dst /\ dest' # link'.src
        /\ \E f \in Free : link'.outport \in outportCompute(algorithm', link'.src, dest', f)
    BY Zenon, <2>1, <2>3
  <2> QED
    BY Zenon, <2>1, <2>2, <2>4, <2>5, <2>6 DEF WalkInv
<1>2. CASE NextInChain
  <2>1. /\ link # NoMeshLink
        /\ algorithm' = algorithm /\ chained' = chained /\ at' = at /\ link' = link /\ first' = first
    BY <1>2 DEF NextInChain
  <2>2. /\ dest' \in MeshRouters /\ dest' # link.src
        /\ \E free \in Free : link.outport \in outportCompute(algorithm, link.src, dest', free)
    BY Zenon, <1>2 DEF NextInChain
  <2> QED
    BY Zenon, <2>1, <2>2 DEF WalkInv
<1>3. CASE Arrived \/ UNCHANGED vars
  <2>1. UNCHANGED vars
    BY <1>3 DEF Arrived
  <2> QED
    BY <2>1 DEF WalkInv, vars
<1> QED
  BY <1>1, <1>2, <1>3 DEF Next

LEMMA WalkSpec == Spec => []WalkInv
<1>1. WalkInv /\ [Next]_vars => WalkInv'
  BY WalkStep
<1> QED
  BY WalkInit, <1>1, PTL DEF Spec

\* In every mesh and for every algorithm, the port that outportCompute names
\* exists, and get_downstreamId and get_downstreamDirn name the router and
\* the inport at the other end of its link.
THEOREM OutportCorrect == Spec => []OutportLeadsDownstream
<1>1. WalkInv => OutportLeadsDownstream
  BY DEF WalkInv, OutportLeadsDownstream
<1> QED
  BY WalkSpec, <1>1, PTL

\* In every mesh that fits below INFINITE_LATENCY, the table that
\* Topology::createLinks computes offers, from every router to every
\* destination, exactly the directions of the shortest paths.
THEOREM TableCorrect == MeshFits /\ Spec => []TableOffersEveryShortestHop
<1>1. MeshFits /\ WalkInv => TableOffersEveryShortestHop
  BY TableIsRandom DEF WalkInv, TableOffersEveryShortestHop
<1>2. MeshFits => MeshFits'
  BY DEF MeshFits
<1> QED
  BY WalkSpec, <1>1, <1>2, PTL

LEMMA HopCloser ==
  ASSUME MeshFits, WalkInv, [Next]_vars
  PROVE  [at' # at => Hops(at', dest) = Hops(at, dest) - 1]_vars
<1> SUFFICES ASSUME at' # at PROVE Hops(at', dest) = Hops(at, dest) - 1
  OBVIOUS
<1>1. Hop
  BY DEF Next, NextInChain, Arrived, vars
<1>2. PICK free \in Free, d \in Directions :
             d \in outportCompute(algorithm, at, dest, free) /\ at' = get_downstreamId(d, at)
  BY Zenon, <1>1, HopStep
<1>3. algorithm \in Algorithms /\ at \in MeshRouters /\ dest \in MeshRouters /\ at # dest
  BY <1>1 DEF WalkInv, Hop
<1>4. d \in outportComputeRandom(at, dest)
  <2>1. CASE algorithm = "TABLE"
    BY <1>2, <1>3, <2>1, TableIsRandom DEF outportCompute
  <2>2. CASE algorithm # "TABLE"
    BY <1>2, <1>3, <2>2, AlgorithmsProductive
  <2> QED
    BY <2>1, <2>2
<1>5. Productive(d, at, dest)
  BY <1>3, <1>4, RandomProductive
<1> QED
  BY <1>2, <1>5 DEF Productive

\* In every such mesh, every hop of every algorithm, the table's included,
\* brings the packet one hop closer to its destination.
THEOREM HopsCorrect == MeshFits /\ Spec => HopBringsCloser
<1>1. MeshFits /\ WalkInv /\ [Next]_vars => [at' # at => Hops(at', dest) = Hops(at, dest) - 1]_vars
  BY HopCloser
<1>2. MeshFits => MeshFits'
  BY DEF MeshFits
<1> QED
  BY WalkSpec, <1>1, <1>2, PTL DEF Spec, HopBringsCloser

-----------------------------------------------------------------------------
\* Chains of waiting packets.  The algorithms that never turn west once they
\* have gone another way.
WestFirstOnly == Chained \subseteq {"XY", "WestFirst", "ADAPT_WestFirst"}

\* The last link of a chain comes after its first.
ChainInv ==
  /\ ~closed
  /\ chained /\ link # NoMeshLink =>
       link = first \/ Precedes(first.outport, first.src, link.outport, link.src)

LEMMA WithinWestFirst ==
  ASSUME NEW a \in {"XY", "WestFirst", "ADAPT_WestFirst"},
         NEW id \in MeshRouters, NEW dst \in MeshRouters, id # dst, NEW free
  PROVE  outportCompute(a, id, dst, free) \subseteq outportComputeWestFirst(id, dst)
<1>1. CASE a = "XY"
  BY <1>1, XYWithinWestFirst DEF outportCompute
<1>2. CASE a = "WestFirst"
  BY <1>2 DEF outportCompute
<1>3. CASE a = "ADAPT_WestFirst"
  BY <1>3 DEF outportCompute, outportComputeAdaptWestFirst, MoreFree
<1> QED
  BY <1>1, <1>2, <1>3

LEMMA ChainHop ==
  ASSUME WestFirstOnly, WalkInv, ChainInv, Hop
  PROVE  ChainInv'
<1>1. PICK free \in Free, d \in Directions :
             /\ d \in outportCompute(algorithm, at, dest, free)
             /\ link' \in MeshLinks /\ link'.src = at /\ link'.outport = d
  BY Zenon, HopStep
<1>2. /\ first' = IF first = NoMeshLink THEN link' ELSE first
      /\ closed' = (chained /\ link' = first) /\ chained' = chained /\ at # dest
  BY DEF Hop
<1>3. link' # NoMeshLink
  BY <1>1, NotNoLink
<1>4. /\ algorithm \in Algorithms /\ dest \in MeshRouters /\ at \in MeshRouters
      /\ (chained => algorithm \in {"XY", "WestFirst", "ADAPT_WestFirst"})
      /\ (first = NoMeshLink <=> link = NoMeshLink) /\ (first # NoMeshLink => first \in MeshLinks)
  BY DEF WalkInv, WestFirstOnly
<1>5. CASE ~chained
  BY <1>2, <1>5 DEF ChainInv
<1>6. CASE chained /\ first = NoMeshLink
  BY <1>2, <1>3, <1>6 DEF ChainInv
<1>7. CASE chained /\ first # NoMeshLink
  <2>1. /\ link \in MeshLinks /\ first \in MeshLinks /\ at = link.dst /\ dest # link.src
        /\ link = first \/ Precedes(first.outport, first.src, link.outport, link.src)
    BY <1>4, <1>7 DEF WalkInv, ChainInv
  <2>2. PICK f \in Free : link.outport \in outportCompute(algorithm, link.src, dest, f)
    BY <1>4, <1>7 DEF WalkInv
  <2>3. /\ link.src \in MeshRouters /\ link.outport \in Directions
        /\ first.src \in MeshRouters /\ first.outport \in Directions
        /\ Inside(link.outport, link.src) /\ link = DownLink(link.outport, link.src)
    BY <2>1, LinkIs
  <2>4. Moved(link.outport, link.src, at)
    <3>1. at = get_downstreamId(link.outport, link.src)
      BY <2>1, <2>3 DEF DownLink, MeshLink
    <3> QED
      BY <2>3, <3>1, LinkFrom
  <2>5. link.outport \in outportComputeWestFirst(link.src, dest) /\ d \in outportComputeWestFirst(at, dest)
    BY <1>1, <1>2, <1>4, <1>7, <2>1, <2>2, <2>3, WithinWestFirst
  <2>6. Precedes(link.outport, link.src, d, at)
    BY <1>4, <2>3, <2>4, <2>5, WestFirstTurn
  <2>7. Precedes(first.outport, first.src, d, at)
    <3>1. CASE link = first
      BY Zenon, <2>6, <3>1
    <3>2. CASE Precedes(first.outport, first.src, link.outport, link.src)
      BY <1>4, <2>3, <2>6, <3>2, PrecedesTransitive
    <3> QED
      BY <2>1, <3>1, <3>2
  <2>8. ~Precedes(d, at, d, at)
    BY <1>4, PrecedesStrict
  <2>9. link' # first
    BY Zenon, <1>1, <2>7, <2>8
  <2>10. first' = first /\ ~closed'
    BY <1>2, <1>7, <2>9
  <2> QED
    BY Zenon, <1>1, <2>7, <2>10 DEF ChainInv
<1> QED
  BY <1>5, <1>6, <1>7

\* With XY and west first routing, in every mesh, no packets wait for each
\* other in a cycle: every packet waits for a link that comes after the one it
\* holds, in an order that has no cycles.
THEOREM NoCycle == WestFirstOnly /\ Spec => []NoCyclicWait
<1>1. Init => ChainInv
  BY DEF Init, ChainInv
<1>2. WestFirstOnly /\ WalkInv /\ ChainInv /\ [Next]_vars => ChainInv'
  <2> SUFFICES ASSUME WestFirstOnly, WalkInv, ChainInv, [Next]_vars PROVE ChainInv'
    OBVIOUS
  <2>1. CASE Hop
    BY <2>1, ChainHop
  <2>2. CASE NextInChain
    BY <2>2 DEF NextInChain, ChainInv
  <2>3. CASE Arrived \/ UNCHANGED vars
    BY <2>3 DEF Arrived, vars, ChainInv
  <2> QED
    BY <2>1, <2>2, <2>3 DEF Next
<1>3. WestFirstOnly => WestFirstOnly'
  BY DEF WestFirstOnly
<1>4. ChainInv => NoCyclicWait
  BY DEF ChainInv, NoCyclicWait
<1> QED
  BY WalkSpec, <1>1, <1>2, <1>3, <1>4, PTL DEF Spec

-----------------------------------------------------------------------------
\* The mesh as a topology of SwapNetwork: the routes are of the form that
\* RouteAssumption demands of its constants.  A router sends a packet out of
\* one of its own ports, and out of the port of an interface only if the packet
\* is for that interface.
THEOREM MeshRoutes ==
  ASSUME Algorithm \in Algorithms, NEW r \in MeshRouters, NEW n \in MeshNodes, NEW free,
         NEW o \in MeshOutportCompute(r, n, free)
  PROVE  /\ o \in MeshChannels /\ MeshSrc[o] = r
         /\ MeshDst[o] \in MeshNodes => MeshDst[o] = n
<1> DEFINE dst == RouterOf(n)
           freeOf == [d \in MeshDirs[r] |-> Cardinality(free[<<r, get_downstreamId(d, r)>>])]
<1>1. NumRows * NumCols \in Nat
  BY Sizes
<1>2. dst \in MeshRouters /\ NodeOf(dst) = n
  BY <1>1 DEF RouterOf, NodeOf, MeshRouters, MeshNodes, NumRouters
<1> HIDE DEF dst, freeOf
<1>3. CASE dst = r
  <2>1. o = <<r, n>> /\ n = NodeOf(r)
    BY <1>2, <1>3 DEF MeshOutportCompute, dst
  <2>2. o \in MeshChannels
    BY <2>1 DEF MeshChannels
  <2> QED
    BY <2>1, <2>2 DEF MeshSrc, MeshDst
<1>4. CASE dst # r
  <2>1. PICK d \in outportCompute(Algorithm, r, dst, freeOf) : o = <<r, get_downstreamId(d, r)>>
    BY <1>4 DEF MeshOutportCompute, dst, freeOf
  <2>2. d \in Directions /\ Inside(d, r)
    BY <1>2, <1>4, OutportInside
  <2>3. DownLink(d, r) \in MeshLinks /\ get_downstreamId(d, r) \in MeshRouters
    BY <2>2, LinkFrom
  <2>4. DownLink(d, r).src = r /\ DownLink(d, r).dst = get_downstreamId(d, r)
    BY DEF DownLink, MeshLink
  <2>5. o \in MeshChannels
    BY <2>1, <2>3, <2>4 DEF MeshChannels
  <2>6. get_downstreamId(d, r) \notin MeshNodes
    BY <1>1, <2>3 DEF MeshRouters, MeshNodes, NumRouters
  <2> QED
    BY <2>1, <2>5, <2>6 DEF MeshSrc, MeshDst
<1> QED
  BY <1>3, <1>4

=============================================================================
