------------------------- MODULE ProductMakerProofs -------------------------
(***************************************************************************)
(* Proofs about ProductMaker, for every set of products and of frames, and *)
(* for every pattern of losses, of late frames and of frames that come     *)
(* twice.                                                                  *)
(***************************************************************************)
EXTENDS ProductMaker, SequenceTheorems, FiniteSetTheorems, WellFoundedInduction, TLAPS

(***************************************************************************)
(* Induction over numbers, as a fact about sets.                           *)
(***************************************************************************)

\* A non-empty set of numbers has a least one.
LEMMA LeastOfSet ==
  ASSUME NEW T \in SUBSET Nat, T # {}
  PROVE  \E x \in T : \A y \in T : x <= y
<1> DEFINE R == OpToRel(<, Nat)
<1>1. IsWellFoundedOn(R, Nat)
  BY NatLessThanWellFounded
<1>2. \A y, x \in Nat : y < x => <<y, x>> \in R
  BY DEF OpToRel
<1> HIDE DEF R
<1>3. PICK x \in T : \A y \in T : ~(<<y, x>> \in R)
  BY <1>1, WFMin
<1>4. \A y \in T : ~(y < x)
  BY <1>2, <1>3
<1>5. \A y \in T : x <= y
  BY <1>4
<1>6. QED BY <1>5

\* A set with 0 and, with a number, the next one, up to a limit, has all up to it.
LEMMA InductionUpTo ==
  ASSUME NEW limit \in Nat, NEW S, 0 \in S,
         \A n \in Nat : n < limit /\ n \in S => n + 1 \in S
  PROVE  \A n \in 0..limit : n \in S
<1> DEFINE T == (0..limit) \ S
<1>1. SUFFICES ASSUME T # {} PROVE FALSE
  OBVIOUS
<1>2. PICK x \in T : \A y \in T : x <= y
  <2>1. T \in SUBSET Nat
    OBVIOUS
  <2> HIDE DEF T
  <2>2. QED BY <1>1, <2>1, LeastOfSet
<1>3. /\ x \in Nat /\ x # 0 /\ x - 1 \in Nat /\ ~(x <= x - 1) /\ x - 1 + 1 = x
      /\ x - 1 < limit /\ x - 1 \in 0..limit
  OBVIOUS
<1>4. x - 1 \in S
  BY <1>2, <1>3
<1>5. QED BY <1>3, <1>4

-----------------------------------------------------------------------------
(***************************************************************************)
(* The data: what a block holds, and all blocks up to one.                 *)
(***************************************************************************)
CellSet == [of : {p.id : p \in Product} \union {0}, block : Int, at : Int]

LEMMA CellTypes ==
  ASSUME NEW p \in Product, NEW b \in Nat, NEW i \in Nat
  PROVE  /\ Cell(p, b, i) \in CellSet
         /\ FosHeader(p) \in CellSet
         /\ FosTrailer \in CellSet
BY DEF Cell, FosHeader, FosTrailer, CellSet, None

LEMMA SizeFacts ==
  ASSUME NEW p \in Product
  PROVE  /\ Len(p.sizes) \in Nat /\ Len(p.sizes) >= 1 /\ p.frags \in Nat
         /\ p.frags # 0 => Len(p.sizes) = p.frags
         /\ p.frags = 0 => Len(p.sizes) = 1
         /\ \A b \in Nat : b < Len(p.sizes) => p.sizes[b + 1] \in Nat /\ p.sizes[b + 1] >= 1
<1>1. p.sizes \in Seq(Nat \ {0}) /\ Len(p.sizes) = (IF p.frags = 0 THEN 1 ELSE p.frags) /\ p.frags \in Nat
  BY ProductAssumption
<1>2. \A b \in Nat : b < Len(p.sizes) => b + 1 \in 1..Len(p.sizes)
  BY <1>1
<1>3. \A j \in 1..Len(p.sizes) : p.sizes[j] \in Nat \ {0}
  BY <1>1
<1>4. QED BY <1>1, <1>2, <1>3

LEMMA DataType ==
  ASSUME NEW p \in Product, NEW b \in Nat, b < Len(p.sizes)
  PROVE  /\ Data(p, b) \in Seq(CellSet)
         /\ Len(Data(p, b)) = p.sizes[b + 1] /\ Len(Data(p, b)) >= 1
<1>1. p.sizes[b + 1] \in Nat /\ p.sizes[b + 1] >= 1
  BY SizeFacts
<1> DEFINE n == p.sizes[b + 1]
<1> HIDE DEF n
<1>2. Data(p, b) \in [1..n -> CellSet]
  BY CellTypes, <1>1 DEF Data, n
<1>3. n \in Nat /\ n >= 1
  BY <1>1 DEF n
<1>4. Data(p, b) \in Seq(CellSet)
  BY <1>2, <1>3
<1>5. Len(Data(p, b)) = n
  BY <1>2, <1>3
<1>6. QED BY <1>3, <1>4, <1>5 DEF n

\* The cells that a text keeps when its trailers are taken off.
LEMMA StrippedType ==
  ASSUME NEW data \in Seq(CellSet), Len(data) >= 1
  PROVE  Stripped(data) \in Seq(CellSet)
<1> DEFINE L == Len(data)
<1> DEFINE T == {k \in 1..L : \A i \in k + 1..L : data[i] = FosTrailer}
<1>1. L \in Nat /\ L >= 1 /\ \A i \in 1..L : data[i] \in CellSet
  OBVIOUS
<1>2. PICK k \in T : \A y \in T : k <= y
  <2>1. L \in T
    BY <1>1
  <2>2. T \in SUBSET Nat /\ T # {}
    BY <2>1
  <2> HIDE DEF T
  <2>3. QED BY <2>2, LeastOfSet
<1>3. k = 1 \/ data[k] # FosTrailer
  <2>1. SUFFICES ASSUME k # 1, data[k] = FosTrailer PROVE FALSE
    OBVIOUS
  <2>2. k - 1 \in 1..L /\ ~(k <= k - 1) /\ \A i \in k - 1 + 1..L : i = k \/ i \in k + 1..L
    BY <1>1, <2>1
  <2>3. k - 1 \in T
    BY <2>1, <2>2
  <2>4. QED BY <1>2, <2>2, <2>3
<1> DEFINE Ends(j) == /\ \A i \in j + 1..Len(data) : data[i] = FosTrailer
                      /\ j = 1 \/ data[j] # FosTrailer
<1> DEFINE n == CHOOSE j \in 1..Len(data) : Ends(j)
<1>4. \E j \in 1..Len(data) : Ends(j)
  BY <1>3
<1>5. n \in 1..Len(data)
  <2> HIDE DEF Ends
  <2>1. QED BY <1>4
<1>6. Stripped(data) = SubSeq(data, 1, n)
  BY Zenon DEF Stripped
<1> HIDE DEF n
<1>7. n \in Int /\ \A i \in 1..n : data[i] \in CellSet
  BY <1>1, <1>5
<1>8. QED BY <1>6, <1>7, SubSeqProperties

\* f is what the recursive definition in Blocks says of all blocks up to "last".
IsPile(p, last, f) ==
    f = [n \in 0..last |-> IF n = 0 THEN <<>> ELSE f[n - 1] \o Data(p, n - 1)]

LEMMA PileExists ==
  ASSUME NEW p, NEW last \in Nat
  PROVE  \E f : IsPile(p, last, f)
<1> DEFINE S == {n \in Nat : \E f : IsPile(p, n, f)}
<1>1. 0 \in S
  <2> DEFINE f == [n \in 0..0 |-> <<>>]
  <2>1. f = [n \in 0..0 |-> IF n = 0 THEN <<>> ELSE f[n - 1] \o Data(p, n - 1)]
    <3>1. \A n \in 0..0 : n = 0
      OBVIOUS
    <3>2. QED BY <3>1
  <2>2. IsPile(p, 0, f)
    BY <2>1 DEF IsPile
  <2>3. QED BY <2>2
<1>2. ASSUME NEW n \in Nat, n \in S PROVE n + 1 \in S
  <2>1. PICK f : IsPile(p, n, f)
    BY <1>2
  <2> DEFINE g == [k \in 0..(n + 1) |-> IF k = n + 1 THEN f[n] \o Data(p, n) ELSE f[k]]
  <2>2. \A k \in 0..n : f[k] = IF k = 0 THEN <<>> ELSE f[k - 1] \o Data(p, k - 1)
    BY <2>1 DEF IsPile
  <2>3. ASSUME NEW k \in 0..(n + 1)
        PROVE  g[k] = IF k = 0 THEN <<>> ELSE g[k - 1] \o Data(p, k - 1)
    <3>1. CASE k = n + 1
      <4>1. k # 0 /\ k - 1 = n /\ n \in 0..(n + 1) /\ n # n + 1
        BY <3>1
      <4>2. g[k] = f[n] \o Data(p, n) /\ g[k - 1] = f[n]
        BY <3>1, <4>1
      <4>3. QED BY <4>1, <4>2
    <3>2. CASE k # n + 1 /\ k # 0
      <4>1. k \in 0..n /\ k - 1 \in 0..(n + 1) /\ k - 1 # n + 1
        BY <3>2
      <4>2. g[k] = f[k] /\ g[k - 1] = f[k - 1]
        BY <3>2, <4>1
      <4>3. QED BY <2>2, <3>2, <4>1, <4>2
    <3>3. CASE k = 0
      <4>1. k \in 0..n /\ k # n + 1
        BY <3>3
      <4>2. g[k] = f[k]
        BY <4>1
      <4>3. QED BY <2>2, <3>3, <4>1, <4>2
    <3>4. QED BY <3>1, <3>2, <3>3
  <2>4. g = [k \in 0..(n + 1) |-> g[k]]
    OBVIOUS
  <2> HIDE DEF g
  <2>5. IsPile(p, n + 1, g)
    BY <2>3, <2>4 DEF IsPile
  <2>6. QED BY <2>5
<1>3. last \in S
  <2> HIDE DEF S
  <2>1. last \in 0..last
    OBVIOUS
  <2>2. QED BY <1>1, <1>2, <2>1, InductionUpTo
<1>4. QED BY <1>3

LEMMA PileStep ==
  ASSUME NEW p, NEW last \in Nat, NEW f, IsPile(p, last, f)
  PROVE  /\ f[0] = <<>>
         /\ \A n \in Nat : n < last => f[n + 1] = f[n] \o Data(p, n)
<1>1. ASSUME NEW m \in 0..last
      PROVE  f[m] = IF m = 0 THEN <<>> ELSE f[m - 1] \o Data(p, m - 1)
  BY DEF IsPile
<1>2. f[0] = <<>>
  <2>1. 0 \in 0..last
    OBVIOUS
  <2>2. QED BY <1>1, <2>1
<1>3. ASSUME NEW n \in Nat, n < last
      PROVE  f[n + 1] = f[n] \o Data(p, n)
  <2> DEFINE m == n + 1
  <2>1. m \in 0..last /\ m # 0 /\ m - 1 = n
    BY <1>3
  <2> HIDE DEF m
  <2>2. f[m] = f[m - 1] \o Data(p, m - 1)
    BY <1>1, <2>1
  <2>3. QED BY <2>1, <2>2 DEF m
<1>4. QED BY <1>2, <1>3

LEMMA PilesAgree ==
  ASSUME NEW p, NEW last \in Nat, NEW f, NEW g,
         IsPile(p, last, f), IsPile(p, last + 1, g)
  PROVE  f[last] = g[last]
<1> DEFINE S == {n \in Nat : n <= last => f[n] = g[n]}
<1>1. last + 1 \in Nat
  OBVIOUS
<1>2. 0 \in S
  <2>1. f[0] = <<>> /\ g[0] = <<>>
    BY <1>1, PileStep
  <2>2. QED BY <2>1
<1>3. ASSUME NEW n \in Nat, n < last, n \in S PROVE n + 1 \in S
  <2>1. n < last + 1 /\ f[n] = g[n]
    BY <1>3
  <2>2. f[n + 1] = f[n] \o Data(p, n)
    BY <1>3, PileStep
  <2>3. g[n + 1] = g[n] \o Data(p, n)
    BY <1>1, <2>1, PileStep
  <2>4. f[n + 1] = g[n + 1]
    BY <2>1, <2>2, <2>3, Zenon
  <2>5. QED BY <2>4
<1>4. last \in S
  <2> HIDE DEF S
  <2>1. last \in 0..last
    OBVIOUS
  <2>2. QED BY <1>2, <1>3, <2>1, InductionUpTo
<1>5. QED BY <1>4

LEMMA BlocksIsPile ==
  ASSUME NEW p, NEW last \in Nat
  PROVE  \E f : IsPile(p, last, f) /\ Blocks(p, last) = f[last]
<1> DEFINE f == CHOOSE u : IsPile(p, last, u)
<1>1. IsPile(p, last, f)
  BY PileExists
<1>2. Blocks(p, last) = f[last]
  BY DEF Blocks, IsPile
<1>3. QED BY <1>1, <1>2

\* The recursion of Blocks, as one may use it.
LEMMA BlocksFacts ==
  ASSUME NEW p
  PROVE  /\ Blocks(p, 0) = <<>>
         /\ \A n \in Nat : Blocks(p, n + 1) = Blocks(p, n) \o Data(p, n)
<1>1. Blocks(p, 0) = <<>>
  <2>1. PICK f : IsPile(p, 0, f) /\ Blocks(p, 0) = f[0]
    BY BlocksIsPile
  <2>2. f[0] = <<>>
    BY <2>1, PileStep
  <2>3. QED BY <2>1, <2>2
<1>2. ASSUME NEW n \in Nat
      PROVE  Blocks(p, n + 1) = Blocks(p, n) \o Data(p, n)
  <2>1. PICK f : IsPile(p, n, f) /\ Blocks(p, n) = f[n]
    BY BlocksIsPile
  <2>2. n + 1 \in Nat /\ n < n + 1
    OBVIOUS
  <2>3. PICK g : IsPile(p, n + 1, g) /\ Blocks(p, n + 1) = g[n + 1]
    BY <2>2, BlocksIsPile
  <2>4. f[n] = g[n]
    BY <2>1, <2>3, PilesAgree
  <2>5. g[n + 1] = g[n] \o Data(p, n)
    BY <2>2, <2>3, PileStep
  <2>6. QED BY <2>1, <2>3, <2>4, <2>5, Zenon
<1>3. QED BY <1>1, <1>2

LEMMA BlocksType ==
  ASSUME NEW p \in Product
  PROVE  \A n \in 0..Len(p.sizes) : Blocks(p, n) \in Seq(CellSet)
<1> DEFINE S == {n \in Nat : Blocks(p, n) \in Seq(CellSet)}
<1>1. 0 \in S
  <2>1. Blocks(p, 0) = <<>>
    BY BlocksFacts
  <2>2. <<>> \in Seq(CellSet)
    OBVIOUS
  <2>3. QED BY <2>1, <2>2
<1>2. ASSUME NEW n \in Nat, n < Len(p.sizes), n \in S PROVE n + 1 \in S
  <2>1. Data(p, n) \in Seq(CellSet)
    BY <1>2, DataType
  <2>2. Blocks(p, n + 1) = Blocks(p, n) \o Data(p, n)
    BY BlocksFacts
  <2>3. Blocks(p, n) \in Seq(CellSet)
    BY <1>2
  <2>4. Blocks(p, n) \o Data(p, n) \in Seq(CellSet)
    BY <2>1, <2>3, ConcatProperties
  <2>5. Blocks(p, n + 1) \in Seq(CellSet)
    BY <2>2, <2>4, Zenon
  <2>6. QED BY <2>5
<1>3. Len(p.sizes) \in Nat
  BY SizeFacts
<1>4. \A n \in 0..Len(p.sizes) : n \in S
  <2> HIDE DEF S
  <2>1. QED BY <1>1, <1>2, <1>3, InductionUpTo
<1>5. QED BY <1>4

-----------------------------------------------------------------------------
(***************************************************************************)
(* The heap: what is written is there, and what is before it stays.        *)
(***************************************************************************)
LEMMA WrittenFacts ==
  ASSUME NEW heap \in Seq(CellSet), NEW at \in 0..Len(heap), NEW data \in Seq(CellSet)
  PROVE  /\ Written(heap, at, data) \in Seq(CellSet)
         /\ Len(Written(heap, at, data)) \in Nat
         /\ Len(Written(heap, at, data)) >= Len(heap)
         /\ Len(Written(heap, at, data)) >= at + Len(data)
         /\ SubSeq(Written(heap, at, data), 1, at + Len(data)) = SubSeq(heap, 1, at) \o data
<1>1. Len(heap) \in Nat /\ Len(data) \in Nat /\ at \in Nat
  OBVIOUS
<1> DEFINE L == Len(heap)
<1> DEFINE D == Len(data)
<1> DEFINE front == SubSeq(heap, 1, at)
<1> DEFINE rest == SubSeq(heap, at + D + 1, L)
<1> DEFINE w == (front \o data) \o rest
<1>2. front \in Seq(CellSet) /\ Len(front) = at
  <2>1. at \in Int /\ 1 \in Int /\ \A i \in 1..at : heap[i] \in CellSet
    BY <1>1
  <2>2. /\ SubSeq(heap, 1, at) \in Seq(CellSet)
        /\ Len(SubSeq(heap, 1, at)) = IF 1 <= at THEN at - 1 + 1 ELSE 0
    BY <2>1, SubSeqProperties
  <2>3. QED BY <1>1, <2>2
<1>3. rest \in Seq(CellSet) /\ Len(rest) = IF at + D + 1 <= L THEN L - at - D ELSE 0
  <2>1. at + D + 1 \in Int /\ L \in Int /\ \A i \in (at + D + 1)..L : heap[i] \in CellSet
    BY <1>1
  <2>2. /\ SubSeq(heap, at + D + 1, L) \in Seq(CellSet)
        /\ Len(SubSeq(heap, at + D + 1, L))
              = IF at + D + 1 <= L THEN L - (at + D + 1) + 1 ELSE 0
    BY <2>1, SubSeqProperties
  <2>3. QED BY <1>1, <2>2
<1>4. Written(heap, at, data) = w
  BY DEF Written
<1> HIDE DEF front, rest
<1>5. front \o data \in Seq(CellSet) /\ Len(front \o data) = at + D
  BY <1>2, ConcatProperties
<1> DEFINE begin == front \o data
<1> HIDE DEF begin
<1>6. begin \in Seq(CellSet) /\ Len(begin) = at + D
  BY <1>5 DEF begin
<1>7. w = begin \o rest
  BY DEF begin
<1> HIDE DEF w
<1>8. /\ w \in Seq(CellSet) /\ Len(w) = at + D + Len(rest)
      /\ \A i \in 1..(at + D) : w[i] = begin[i]
  <2>1. begin \in Seq(CellSet) /\ rest \in Seq(CellSet)
    BY <1>3, <1>6
  <2>2. /\ begin \o rest \in Seq(CellSet)
        /\ Len(begin \o rest) = Len(begin) + Len(rest)
        /\ \A i \in 1..(Len(begin) + Len(rest)) :
             (begin \o rest)[i] = IF i <= Len(begin) THEN begin[i] ELSE rest[i - Len(begin)]
    BY <2>1, ConcatProperties
  <2>3. Len(begin) = at + D /\ Len(rest) \in Nat /\ at + D \in Nat
    BY <1>1, <1>6, <2>1
  <2>4. \A i \in 1..(at + D) : i \in 1..(Len(begin) + Len(rest)) /\ i <= Len(begin)
    BY <2>3
  <2>5. \A i \in 1..(at + D) : (begin \o rest)[i] = begin[i]
    BY <2>2, <2>4
  <2>6. QED BY <1>7, <2>2, <2>3, <2>5
<1>9. Len(w) \in Nat /\ Len(w) >= L /\ Len(w) >= at + D
  <2> DEFINE r == Len(rest)
  <2>1. r \in Nat /\ r = IF at + D + 1 <= L THEN L - at - D ELSE 0
    BY <1>3
  <2> HIDE DEF r
  <2>2. L \in Nat /\ D \in Nat /\ Len(w) = at + D + r
    BY <1>1, <1>8 DEF r
  <2> HIDE DEF L, D
  <2>3. QED BY <1>1, <2>1, <2>2
<1>10. SubSeq(w, 1, at + D) = begin
  <2> DEFINE n == at + D
  <2>1. n \in Nat /\ n = at + D
    BY <1>1
  <2> HIDE DEF n
  <2>2. n \in Int /\ 1 \in Int /\ \A i \in 1..n : w[i] \in CellSet
    BY <1>8, <1>9, <2>1
  <2>3. /\ SubSeq(w, 1, n) \in Seq(CellSet)
        /\ Len(SubSeq(w, 1, n)) = IF 1 <= n THEN n - 1 + 1 ELSE 0
        /\ \A i \in 1..(n - 1 + 1) : SubSeq(w, 1, n)[i] = w[1 + i - 1]
    BY <2>2, SubSeqProperties
  <2>4. Len(SubSeq(w, 1, n)) = n /\ n - 1 + 1 = n /\ \A i \in 1..n : 1 + i - 1 = i
    BY <2>1, <2>3
  <2>5. \A i \in 1..n : SubSeq(w, 1, n)[i] = w[i]
    BY <2>3, <2>4
  <2>6. \A i \in 1..n : SubSeq(w, 1, n)[i] = begin[i]
    BY <1>8, <2>1, <2>5
  <2>7. SubSeq(w, 1, n) = begin
    BY <1>6, <2>1, <2>3, <2>4, <2>6, SeqEqual
  <2>8. QED BY <2>1, <2>7
<1>11. SubSeq(w, 1, at + D) = front \o data
  BY <1>10 DEF begin
<1>12. QED
  <2>1. SubSeq(Written(heap, at, data), 1, at + Len(data)) = SubSeq(heap, 1, at) \o data
    BY <1>4, <1>11, Zenon DEF front
  <2>2. QED BY <1>4, <1>8, <1>9, <2>1

-----------------------------------------------------------------------------
(***************************************************************************)
(* What pmStart() has of a product, and what its steps do to it.           *)
(***************************************************************************)
Maker ==
    [psh : Product, prod : Product, name : Product, tail : Nat \union {None},
     heap : Seq(CellSet), heapcount : Nat, heapsize : Nat,
     png : BOOLEAN, rows : Seq(CellSet), prodoff : Nat,
     nextfrag : Nat, maxfrags : Nat]

\* The counts of the heap are within it.
MakerOK(m) == m \in Maker /\ m.heapcount <= Len(m.heap) /\ m.prodoff <= Len(m.heap)

\* k has the arena's counts of m no longer, but everything else.
SameData(k, m) ==
    /\ k.psh = m.psh /\ k.prod = m.prod /\ k.name = m.name
    /\ k.heap = m.heap /\ k.heapcount = m.heapcount /\ k.heapsize = m.heapsize
    /\ k.png = m.png /\ k.rows = m.rows /\ k.prodoff = m.prodoff

LEMMA DsAllocFacts ==
  ASSUME NEW m, MakerOK(m)
  PROVE  /\ MakerOK(DsAlloc(m)) /\ SameData(DsAlloc(m), m) /\ DsAlloc(m).tail = m.tail
         /\ DsAlloc(m).nextfrag = m.nextfrag + 1
         /\ DsAlloc(m).maxfrags >= m.maxfrags
         /\ m.nextfrag < m.maxfrags => DsAlloc(m).maxfrags = m.maxfrags
<1>1. m \in Maker /\ m.nextfrag \in Nat /\ m.maxfrags \in Nat /\ MoreFrags \in Nat
  BY NumberAssumption DEF MakerOK, Maker
<1> DEFINE more == IF m.nextfrag >= m.maxfrags THEN m.maxfrags + MoreFrags ELSE m.maxfrags
<1>2. more \in Nat /\ more >= m.maxfrags /\ (m.nextfrag < m.maxfrags => more = m.maxfrags)
  BY <1>1
<1> DEFINE n == m.nextfrag + 1
<1>3. DsAlloc(m) = [m EXCEPT !.nextfrag = n, !.maxfrags = more]
  BY DEF DsAlloc
<1>4. n \in Nat
  BY <1>1
<1> HIDE DEF more, n
<1>5. DsAlloc(m).nextfrag = n /\ DsAlloc(m).maxfrags = more /\ DsAlloc(m).tail = m.tail
  BY <1>1, <1>3 DEF Maker
<1>6. SameData(DsAlloc(m), m)
  BY <1>1, <1>3 DEF Maker, SameData
<1>7. DsAlloc(m) \in Maker
  BY <1>1, <1>2, <1>3, <1>4 DEF Maker
<1>8. MakerOK(DsAlloc(m))
  BY <1>6, <1>7 DEF MakerOK, SameData
<1>9. QED BY <1>2, <1>5, <1>6, <1>8 DEF n

LEMMA DsFreeFacts ==
  ASSUME NEW m, MakerOK(m)
  PROVE  /\ MakerOK(DsFree(m)) /\ SameData(DsFree(m), m) /\ DsFree(m).tail = None
         /\ DsFree(m).nextfrag = 0 /\ DsFree(m).maxfrags = m.maxfrags
<1>1. /\ DsFree(m) \in Maker /\ SameData(DsFree(m), m) /\ DsFree(m).tail = None
      /\ DsFree(m).nextfrag = 0 /\ DsFree(m).maxfrags = m.maxfrags
  BY DEF DsFree, MakerOK, Maker, SameData
<1>2. QED BY <1>1 DEF MakerOK, SameData

LEMMA DsInitFacts ==
  ASSUME NEW m, MakerOK(m), NEW nfrags \in Nat
  PROVE  /\ MakerOK(DsInit(m, nfrags)) /\ SameData(DsInit(m, nfrags), m)
         /\ DsInit(m, nfrags).tail = m.tail
         /\ DsInit(m, nfrags).nextfrag = 0 /\ DsInit(m, nfrags).maxfrags > nfrags
<1> DEFINE more == IF nfrags >= m.maxfrags THEN nfrags + 1 ELSE m.maxfrags
<1>1. m \in Maker /\ more \in Nat /\ more > nfrags
  BY DEF MakerOK, Maker
<1> DEFINE n == 0
<1>2. DsInit(m, nfrags) = [m EXCEPT !.nextfrag = n, !.maxfrags = more]
  BY DEF DsInit
<1>3. n \in Nat /\ n = 0
  OBVIOUS
<1> HIDE DEF more, n
<1>4. /\ DsInit(m, nfrags).nextfrag = n /\ DsInit(m, nfrags).maxfrags = more
      /\ DsInit(m, nfrags).tail = m.tail
  BY <1>1, <1>2 DEF Maker
<1>5. SameData(DsInit(m, nfrags), m)
  BY <1>1, <1>2 DEF Maker, SameData
<1>6. DsInit(m, nfrags) \in Maker
  BY <1>1, <1>2, <1>3 DEF Maker
<1>7. MakerOK(DsInit(m, nfrags))
  BY <1>5, <1>6 DEF MakerOK, SameData
<1>8. QED BY <1>1, <1>3, <1>4, <1>5, <1>7

\* The cells of a text or of compressed data, and of an image that is deflated.
Collected(m) == SubSeq(m.heap, 1, m.heapcount)
Picture(m) == SubSeq(m.heap, 1, m.prodoff) \o m.rows

LEMMA PngEndFacts ==
  ASSUME NEW m, MakerOK(m)
  PROVE  LET k == PngEnd(m)
         IN  /\ MakerOK(k)
             /\ k.psh = m.psh /\ k.prod = m.prod /\ k.name = m.name /\ k.tail = m.tail
             /\ k.heapcount = m.heapcount /\ k.png = m.png
             /\ k.nextfrag = m.nextfrag /\ k.maxfrags = m.maxfrags
             /\ SubSeq(k.heap, 1, k.prodoff) = Picture(m)
<1> DEFINE w == Written(m.heap, m.prodoff, m.rows)
<1>1. /\ m \in Maker /\ m.heap \in Seq(CellSet) /\ m.rows \in Seq(CellSet)
      /\ m.prodoff \in 0..Len(m.heap) /\ m.heapcount \in 0..Len(m.heap)
      /\ Len(m.heap) \in Nat /\ Len(m.rows) \in Nat
  BY DEF MakerOK, Maker
<1>2. /\ w \in Seq(CellSet) /\ Len(w) \in Nat
      /\ Len(w) >= Len(m.heap) /\ Len(w) >= m.prodoff + Len(m.rows)
      /\ SubSeq(w, 1, m.prodoff + Len(m.rows)) = Picture(m)
  BY <1>1, WrittenFacts DEF Picture
<1> DEFINE n == m.prodoff + Len(m.rows)
<1>3. PngEnd(m) = [m EXCEPT !.heap = w, !.prodoff = n, !.rows = <<>>]
  BY DEF PngEnd
<1>4. n \in Nat /\ <<>> \in Seq(CellSet) /\ n <= Len(w) /\ SubSeq(w, 1, n) = Picture(m)
  BY <1>1, <1>2
<1> HIDE DEF w, n
<1> DEFINE k == PngEnd(m)
<1>5. /\ k.heap = w /\ k.prodoff = n
      /\ k.psh = m.psh /\ k.prod = m.prod /\ k.name = m.name /\ k.tail = m.tail
      /\ k.heapcount = m.heapcount /\ k.png = m.png
      /\ k.nextfrag = m.nextfrag /\ k.maxfrags = m.maxfrags
  BY <1>1, <1>3 DEF Maker
<1>6. k \in Maker
  BY <1>1, <1>2, <1>3, <1>4 DEF Maker
<1> HIDE DEF k
<1>7. MakerOK(k)
  BY <1>1, <1>2, <1>4, <1>5, <1>6 DEF MakerOK
<1>8. SubSeq(k.heap, 1, k.prodoff) = Picture(m)
  BY <1>4, <1>5, Zenon
<1>9. QED BY <1>5, <1>7, <1>8 DEF k

\* A header's record is read before it is used for anything.
LEMMA PshFacts ==
  ASSUME NEW m, MakerOK(m), NEW p \in Product
  PROVE  LET k == [m EXCEPT !.psh = p]
         IN  /\ MakerOK(k) /\ k.psh = p
             /\ k.prod = m.prod /\ k.name = m.name /\ k.tail = m.tail
             /\ k.heap = m.heap /\ k.heapcount = m.heapcount
             /\ k.png = m.png /\ k.rows = m.rows /\ k.prodoff = m.prodoff
             /\ k.nextfrag = m.nextfrag /\ k.maxfrags = m.maxfrags
BY DEF MakerOK, Maker

\* The product in progress is abandoned: nothing of it is in progress any more.
LEMMA AbandonedFacts ==
  ASSUME NEW m, MakerOK(m)
  PROVE  /\ MakerOK(Abandoned(m)) /\ Abandoned(m).tail = None /\ Abandoned(m).psh = m.psh
<1>1. CASE m.tail = None
  BY <1>1 DEF Abandoned
<1>2. CASE m.tail # None /\ ~m.png
  <2>1. Abandoned(m) = DsFree(m)
    BY <1>2 DEF Abandoned
  <2>2. QED BY <2>1, DsFreeFacts DEF SameData
<1>3. CASE m.tail # None /\ m.png
  <2> DEFINE d == DsFree(m)
  <2> DEFINE e == PngEnd(d)
  <2>1. Abandoned(m) = [e EXCEPT !.png = FALSE]
    BY <1>3 DEF Abandoned
  <2>2. MakerOK(d) /\ d.tail = None /\ d.psh = m.psh
    BY DsFreeFacts DEF SameData
  <2> HIDE DEF d
  <2>3. MakerOK(e) /\ e.tail = None /\ e.psh = m.psh
    BY <2>2, PngEndFacts
  <2> HIDE DEF e
  <2>4. QED BY <2>1, <2>3 DEF MakerOK, Maker
<1>4. QED BY <1>1, <1>2, <1>3 DEF MakerOK, Maker

\* A product is begun: it has its header's record, and the arena has room for it.
LEMMA OpenedFacts ==
  ASSUME NEW m, MakerOK(m), NEW p \in Product
  PROVE  LET o == Opened(m, p)
         IN  /\ MakerOK(o) /\ o.psh = p /\ o.prod = p /\ o.tail = None
             /\ o.nextfrag = 0 /\ o.maxfrags > p.frags
<1> DEFINE k == [m EXCEPT !.psh = p]
<1> DEFINE a == Abandoned(k)
<1> DEFINE b == [a EXCEPT !.prod = p]
<1>1. Opened(m, p) = DsInit(b, p.frags)
  BY DEF Opened
<1>2. MakerOK(k) /\ k.psh = p
  BY PshFacts
<1> HIDE DEF k
<1>3. MakerOK(a) /\ a.tail = None /\ a.psh = p
  BY <1>2, AbandonedFacts
<1> HIDE DEF a
<1>4. MakerOK(b) /\ b.tail = None /\ b.psh = p /\ b.prod = p
  BY <1>3 DEF MakerOK, Maker
<1> HIDE DEF b
<1>5. p.frags \in Nat
  BY SizeFacts
<1>6. QED BY <1>1, <1>4, <1>5, DsInitFacts DEF SameData

\* As long as a product has its own header record, that says whether it is an image.
LEMMA OwnRecord ==
  ASSUME NEW m, MakerOK(m), m.psh = m.prod
  PROVE  IsGoes(m) <=> m.prod.kind # "text"
<1>1. m.prod \in Product
  BY DEF MakerOK, Maker
<1>2. /\ Stream \in {1, 2} => m.prod.kind # "text"
      /\ Stream \in {5, 6, 7} => m.prod.kind = "text"
  BY <1>1, ProductAssumption
<1>3. Stream \in {1, 2, 4, 5, 6, 7}
  BY NumberAssumption
<1>4. CASE Stream \in {1, 2}
  BY <1>2, <1>4 DEF IsGoes
<1>5. CASE Stream \in {5, 6, 7}
  BY <1>2, <1>5 DEF IsGoes
<1>6. CASE Stream = 4
  BY <1>6 DEF IsGoes
<1>7. QED BY <1>3, <1>4, <1>5, <1>6

\* What is on the heap, or in the deflated rows, of a product with its own header
\* record: the blocks up to the last one linked.
Holds(m) ==
    /\ m.prod.kind = "text" =>
          Collected(m) = <<FosHeader(m.prod)>> \o Blocks(m.prod, m.tail + 1)
    /\ m.prod.kind = "zipped" /\ ~m.png => Collected(m) = Blocks(m.prod, m.tail + 1)
    /\ m.prod.kind = "image" /\ m.tail # None =>
          m.png /\ Picture(m) = Blocks(m.prod, m.tail + 1)

InHand(m) ==
    /\ m.name = m.prod /\ m.prod.fault = "none" /\ m.tail + 1 < Len(m.prod.sizes)
    /\ m.psh = m.prod => Holds(m)

LEMMA AppendedFacts ==
  ASSUME NEW m, MakerOK(m), NEW d \in Seq(CellSet)
  PROVE  LET k == Appended(m, d)
         IN  /\ MakerOK(k) /\ Collected(k) = Collected(m) \o d
             /\ k.psh = m.psh /\ k.prod = m.prod /\ k.name = m.name /\ k.tail = m.tail
             /\ k.png = m.png /\ k.nextfrag = m.nextfrag /\ k.maxfrags = m.maxfrags
<1> DEFINE w == Written(m.heap, m.heapcount, d)
<1> DEFINE n == m.heapcount + Len(d)
<1>1. /\ m \in Maker /\ m.heap \in Seq(CellSet) /\ m.heapcount \in 0..Len(m.heap)
      /\ m.prodoff \in Nat /\ m.prodoff <= Len(m.heap)
      /\ Len(m.heap) \in Nat /\ Len(d) \in Nat
  BY DEF MakerOK, Maker
<1>2. /\ w \in Seq(CellSet) /\ Len(w) \in Nat /\ Len(w) >= Len(m.heap) /\ Len(w) >= n
      /\ SubSeq(w, 1, n) = Collected(m) \o d
  BY <1>1, WrittenFacts DEF Collected
<1>3. Appended(m, d) = [m EXCEPT !.heap = w, !.heapcount = n]
  BY DEF Appended
<1>4. n \in Nat
  BY <1>1
<1> HIDE DEF w, n
<1> DEFINE k == Appended(m, d)
<1>5. /\ k.heap = w /\ k.heapcount = n /\ k.prodoff = m.prodoff
      /\ k.psh = m.psh /\ k.prod = m.prod /\ k.name = m.name /\ k.tail = m.tail
      /\ k.png = m.png /\ k.nextfrag = m.nextfrag /\ k.maxfrags = m.maxfrags
  BY <1>1, <1>3 DEF Maker
<1>6. k \in Maker
  BY <1>1, <1>2, <1>3, <1>4 DEF Maker
<1> HIDE DEF k
<1>7. MakerOK(k)
  BY <1>1, <1>2, <1>4, <1>5, <1>6 DEF MakerOK
<1>8. Collected(k) = Collected(m) \o d
  BY <1>2, <1>5, Zenon DEF Collected
<1>9. QED BY <1>5, <1>7, <1>8 DEF k

LEMMA BegunFacts ==
  ASSUME NEW m, MakerOK(m), NEW p \in Product, p.fault = "none"
  PROVE  LET k == Begun(m, p)
         IN  /\ MakerOK(k) /\ k.psh = p /\ k.prod = p /\ k.tail = None
             /\ k.nextfrag = 0 /\ k.maxfrags > p.frags
             /\ InHand(k)
<1> DEFINE q == Opened(m, p)
<1> DEFINE size == (IF p.frags = 0 THEN 1 ELSE p.frags) * FragRoom + ExtraRoom
<1> DEFINE zero == 0
<1> DEFINE o == [q EXCEPT !.name = p, !.heapcount = zero, !.heapsize = size]
<1> DEFINE k == Begun(m, p)
<1>1. k = IF IsGoes(o) THEN o ELSE [o EXCEPT !.heap = Written(@, 0, <<FosHeader(p)>>), !.heapcount = 1]
  BY DEF Begun
<1>2. size \in Nat /\ zero \in Nat /\ zero = 0
  <2>1. FragRoom \in Nat /\ ExtraRoom \in Nat /\ p.frags \in Nat
    BY NumberAssumption, SizeFacts
  <2>2. \A x, y \in Nat : x * y \in Nat
    OBVIOUS
  <2>3. QED BY <2>1, <2>2
<1> HIDE DEF size, zero
<1>3. /\ MakerOK(q) /\ q.psh = p /\ q.prod = p /\ q.tail = None
      /\ q.nextfrag = 0 /\ q.maxfrags > p.frags
  BY OpenedFacts
<1> HIDE DEF q
<1>4. /\ o.psh = p /\ o.prod = p /\ o.name = p /\ o.tail = None /\ o.heapcount = 0
      /\ o.nextfrag = 0 /\ o.maxfrags > p.frags /\ o.heap = q.heap /\ o.prodoff = q.prodoff
  BY <1>2, <1>3 DEF MakerOK, Maker
<1>5. o \in Maker
  BY <1>2, <1>3 DEF MakerOK, Maker
<1> HIDE DEF o, k
<1>6. MakerOK(o)
  BY <1>3, <1>4, <1>5 DEF MakerOK, Maker
<1>7. Collected(o) = <<>>
  BY <1>4, SubSeqEmpty DEF Collected
<1>8. Blocks(p, 0) = <<>> /\ None + 1 = 0 /\ Len(p.sizes) > 0
  BY BlocksFacts, SizeFacts DEF None
<1>9. CASE IsGoes(o)
  <2>1. k = o
    BY <1>1, <1>9
  <2>2. p.kind # "text"
    BY <1>4, <1>6, <1>9, OwnRecord
  <2>3. Holds(o)
    BY <1>4, <1>7, <1>8, <2>2 DEF Holds
  <2>4. InHand(o)
    BY <1>4, <1>8, <2>3 DEF InHand
  <2>5. QED BY <1>4, <1>6, <2>1, <2>4 DEF k
<1>10. CASE ~IsGoes(o)
  <2> DEFINE h == <<FosHeader(p)>>
  <2>1. h \in Seq(CellSet) /\ Len(h) = 1
    BY CellTypes
  <2>2. k = Appended(o, h)
    <3>1. o.heapcount + Len(h) = 1
      BY <1>4, <2>1
    <3>2. QED BY <1>1, <1>4, <1>10, <3>1 DEF Appended
  <2> HIDE DEF h
  <2>3. /\ MakerOK(k) /\ Collected(k) = Collected(o) \o h
        /\ k.psh = p /\ k.prod = p /\ k.name = p /\ k.tail = None
        /\ k.nextfrag = 0 /\ k.maxfrags > p.frags
    BY <1>4, <1>6, <2>1, <2>2, AppendedFacts
  <2>4. p.kind = "text"
    BY <1>4, <1>6, <1>10, OwnRecord
  <2>5. <<>> \o h = h /\ h \o <<>> = h
    BY <2>1, ConcatEmptySeq
  <2>6. Collected(k) = h \o Blocks(p, 0)
    BY <1>7, <1>8, <2>3, <2>5
  <2>7. Holds(k)
    BY <1>8, <2>3, <2>4, <2>6 DEF Holds, h
  <2>8. InHand(k)
    BY <1>8, <2>3, <2>7 DEF InHand
  <2>9. QED BY <2>3, <2>8 DEF k
<1>11. QED BY <1>9, <1>10

\* More rows of an image, and its first ones.
LEMMA RowsFacts ==
  ASSUME NEW m, MakerOK(m), NEW d \in Seq(CellSet)
  PROVE  LET k == [m EXCEPT !.rows = @ \o d]
         IN  /\ MakerOK(k) /\ Picture(k) = Picture(m) \o d
             /\ k.psh = m.psh /\ k.prod = m.prod /\ k.name = m.name /\ k.tail = m.tail
             /\ k.png = m.png /\ k.nextfrag = m.nextfrag /\ k.maxfrags = m.maxfrags
<1> DEFINE r == m.rows \o d
<1> DEFINE k == [m EXCEPT !.rows = r]
<1>1. m \in Maker /\ m.rows \in Seq(CellSet) /\ m.heap \in Seq(CellSet) /\ m.prodoff \in 0..Len(m.heap)
  BY DEF MakerOK, Maker
<1>2. r \in Seq(CellSet)
  BY <1>1, ConcatProperties
<1> DEFINE front == SubSeq(m.heap, 1, m.prodoff)
<1>3. front \in Seq(CellSet)
  <2>1. \A i \in 1..m.prodoff : m.heap[i] \in CellSet
    BY <1>1
  <2>2. QED BY <1>1, <2>1, SubSeqProperties
<1> HIDE DEF front
<1>4. front \o r = (front \o m.rows) \o d
  <2>1. m.rows \in Seq(CellSet) /\ front \in Seq(CellSet)
    BY <1>1, <1>3
  <2> DEFINE rows == m.rows
  <2>2. rows \in Seq(CellSet)
    BY <2>1
  <2> HIDE DEF rows
  <2>3. (front \o rows) \o d = front \o (rows \o d)
    BY <2>1, <2>2, ConcatAssociative
  <2>4. QED BY <2>3, Zenon DEF rows
<1> HIDE DEF r
<1>5. /\ k.rows = r /\ k.heap = m.heap /\ k.prodoff = m.prodoff /\ k.heapcount = m.heapcount
      /\ k.psh = m.psh /\ k.prod = m.prod /\ k.name = m.name /\ k.tail = m.tail
      /\ k.png = m.png /\ k.nextfrag = m.nextfrag /\ k.maxfrags = m.maxfrags
  BY <1>1 DEF Maker
<1>6. k \in Maker
  BY <1>1, <1>2 DEF Maker
<1> HIDE DEF k
<1>7. MakerOK(k)
  BY <1>5, <1>6 DEF MakerOK
<1>8. Picture(k) = Picture(m) \o d
  BY <1>4, <1>5 DEF Picture, front
<1>9. QED BY <1>5, <1>7, <1>8 DEF k, r

LEMMA PngBegunFacts ==
  ASSUME NEW m, MakerOK(m), NEW d \in Seq(CellSet)
  PROVE  LET k == PngBegun(m, d)
         IN  /\ MakerOK(k) /\ Picture(k) = d /\ k.png = TRUE
             /\ k.psh = m.psh /\ k.prod = m.prod /\ k.name = m.name /\ k.tail = m.tail
             /\ k.nextfrag = m.nextfrag /\ k.maxfrags = m.maxfrags
<1> DEFINE w == Written(m.heap, 0, d)
<1> DEFINE n == Len(d)
<1> DEFINE none == <<>>
<1>1. /\ m \in Maker /\ m.heap \in Seq(CellSet) /\ m.heapcount \in 0..Len(m.heap)
      /\ Len(m.heap) \in Nat /\ n \in Nat /\ 0 \in 0..Len(m.heap) /\ 0 + n = n
  BY DEF MakerOK, Maker
<1>2. /\ w \in Seq(CellSet) /\ Len(w) \in Nat /\ Len(w) >= Len(m.heap)
      /\ Len(w) >= 0 + n /\ SubSeq(w, 1, 0 + n) = SubSeq(m.heap, 1, 0) \o d
  BY <1>1, WrittenFacts
<1>3. SubSeq(m.heap, 1, 0) = <<>>
  BY SubSeqEmpty
<1>4. <<>> \o d = d /\ d \o <<>> = d /\ none \in Seq(CellSet)
  BY ConcatEmptySeq
<1>5. SubSeq(w, 1, n) \o none = d
  BY <1>1, <1>2, <1>3, <1>4
<1>6. PngBegun(m, d) = [m EXCEPT !.heap = w, !.prodoff = n, !.rows = none, !.png = TRUE]
  BY DEF PngBegun
<1> HIDE DEF w, n, none
<1> DEFINE k == PngBegun(m, d)
<1>7. /\ k.heap = w /\ k.prodoff = n /\ k.rows = none /\ k.heapcount = m.heapcount /\ k.png = TRUE
      /\ k.psh = m.psh /\ k.prod = m.prod /\ k.name = m.name /\ k.tail = m.tail
      /\ k.nextfrag = m.nextfrag /\ k.maxfrags = m.maxfrags
  BY <1>1, <1>6 DEF Maker
<1>8. k \in Maker
  BY <1>1, <1>2, <1>4, <1>6 DEF Maker
<1> HIDE DEF k
<1>9. MakerOK(k)
  BY <1>1, <1>2, <1>7, <1>8 DEF MakerOK
<1>10. Picture(k) = d
  BY <1>5, <1>7, Zenon DEF Picture
<1>11. QED BY <1>7, <1>9, <1>10 DEF k

LEMMA TextOfType ==
  ASSUME NEW m, NEW f, f.product \in Product, f.block \in Nat, f.block < Len(f.product.sizes)
  PROVE  TextOf(m, f) \in Seq(CellSet)
<1>1. Data(f.product, f.block) \in Seq(CellSet) /\ Len(Data(f.product, f.block)) >= 1
  BY DataType
<1>2. Stripped(Data(f.product, f.block)) \in Seq(CellSet)
  BY <1>1, StrippedType
<1>3. QED BY <1>1, <1>2, Zenon DEF TextOf

\* The data of a frame are added where those of its kind are.
LEMMA FilledFacts ==
  ASSUME NEW m, MakerOK(m),
         NEW f, f.product \in Product, f.block \in Nat, f.block < Len(f.product.sizes)
  PROVE  LET k == Filled(m, f)
             data == Data(f.product, f.block)
         IN  /\ MakerOK(k)
             /\ k.psh = m.psh /\ k.prod = m.prod /\ k.name = m.name /\ k.tail = m.tail
             /\ k.nextfrag = m.nextfrag /\ k.maxfrags = m.maxfrags
             /\ ~IsGoes(m) => Collected(k) = Collected(m) \o TextOf(m, f)
             /\ IsGoes(m) /\ f.product.kind = "zipped" =>
                   Collected(k) = Collected(m) \o data /\ k.png = m.png
             /\ IsGoes(m) /\ f.product.kind # "zipped" /\ f.block > 0 =>
                   Picture(k) = Picture(m) \o data /\ k.png = m.png
             /\ IsGoes(m) /\ f.product.kind # "zipped" /\ f.block = 0 =>
                   Picture(k) = data /\ k.png = TRUE
<1> DEFINE data == Data(f.product, f.block)
<1> DEFINE text == TextOf(m, f)
<1> DEFINE k == Filled(m, f)
<1>1. data \in Seq(CellSet) /\ text \in Seq(CellSet)
  BY DataType, TextOfType
<1>2. k = IF ~IsGoes(m) THEN Appended(m, text)
          ELSE IF f.product.kind = "zipped" THEN Appended(m, data)
          ELSE IF f.block > 0 THEN [m EXCEPT !.rows = @ \o data]
          ELSE PngBegun(m, data)
  BY DEF Filled
<1> HIDE DEF data, text, k
<1>3. CASE ~IsGoes(m)
  <2>1. k = Appended(m, text)
    BY <1>2, <1>3
  <2>2. /\ MakerOK(k) /\ Collected(k) = Collected(m) \o text
        /\ k.psh = m.psh /\ k.prod = m.prod /\ k.name = m.name /\ k.tail = m.tail
        /\ k.png = m.png /\ k.nextfrag = m.nextfrag /\ k.maxfrags = m.maxfrags
    BY <1>1, <2>1, AppendedFacts
  <2>3. QED BY <1>3, <2>2 DEF text, k
<1>4. CASE IsGoes(m) /\ f.product.kind = "zipped"
  <2>1. k = Appended(m, data)
    BY <1>2, <1>4
  <2>2. /\ MakerOK(k) /\ Collected(k) = Collected(m) \o data
        /\ k.psh = m.psh /\ k.prod = m.prod /\ k.name = m.name /\ k.tail = m.tail
        /\ k.png = m.png /\ k.nextfrag = m.nextfrag /\ k.maxfrags = m.maxfrags
    BY <1>1, <2>1, AppendedFacts
  <2>3. QED BY <1>4, <2>2 DEF data, k
<1>5. CASE IsGoes(m) /\ f.product.kind # "zipped" /\ f.block > 0
  <2>1. k = [m EXCEPT !.rows = @ \o data]
    BY <1>2, <1>5
  <2>2. /\ MakerOK(k) /\ Picture(k) = Picture(m) \o data
        /\ k.psh = m.psh /\ k.prod = m.prod /\ k.name = m.name /\ k.tail = m.tail
        /\ k.png = m.png /\ k.nextfrag = m.nextfrag /\ k.maxfrags = m.maxfrags
    BY <1>1, <2>1, RowsFacts
  <2>3. f.block # 0
    BY <1>5
  <2>4. QED BY <1>5, <2>2, <2>3 DEF data, k
<1>6. CASE IsGoes(m) /\ f.product.kind # "zipped" /\ f.block = 0
  <2>1. ~(f.block > 0)
    BY <1>6
  <2>2. k = PngBegun(m, data)
    BY <1>2, <1>6, <2>1
  <2>3. /\ MakerOK(k) /\ Picture(k) = data /\ k.png = TRUE
        /\ k.psh = m.psh /\ k.prod = m.prod /\ k.name = m.name /\ k.tail = m.tail
        /\ k.nextfrag = m.nextfrag /\ k.maxfrags = m.maxfrags
    BY <1>1, <2>2, PngBegunFacts
  <2>4. QED BY <1>6, <2>1, <2>3 DEF data, k
<1>7. f.block > 0 \/ f.block = 0
  OBVIOUS
<1>8. QED BY <1>3, <1>4, <1>5, <1>6, <1>7

-----------------------------------------------------------------------------
(***************************************************************************)
(* The next fragment of a product is linked.                               *)
(***************************************************************************)

\* f is the frame that a product in hand is waiting for.
IsNext(m, f) ==
    /\ f.product = m.prod /\ f.block = m.tail + 1
    /\ f.block \in Nat /\ f.block < Len(m.prod.sizes)

LEMMA LinkedFacts ==
  ASSUME NEW m, MakerOK(m), NEW f, IsNext(m, f)
  PROVE  LET k == Linked(m, f)
         IN  /\ MakerOK(k)
             /\ k.psh = m.psh /\ k.prod = m.prod /\ k.name = m.name /\ k.tail = f.block
             /\ k.nextfrag = m.nextfrag + 1 /\ k.maxfrags >= m.maxfrags
             /\ m.nextfrag < m.maxfrags => k.maxfrags = m.maxfrags
<1> DEFINE a == DsAlloc(m)
<1> DEFINE b == Filled(a, f)
<1> DEFINE k == Linked(m, f)
<1> DEFINE n == f.block
<1>1. k = [b EXCEPT !.tail = n]
  BY DEF Linked
<1>2. /\ MakerOK(a) /\ a.psh = m.psh /\ a.prod = m.prod /\ a.name = m.name
      /\ a.nextfrag = m.nextfrag + 1 /\ a.maxfrags >= m.maxfrags
      /\ m.nextfrag < m.maxfrags => a.maxfrags = m.maxfrags
  BY DsAllocFacts DEF SameData
<1>3. f.product \in Product /\ f.block \in Nat /\ f.block < Len(f.product.sizes) /\ n \in Nat
  BY DEF IsNext, MakerOK, Maker
<1> HIDE DEF a, n
<1>4. /\ MakerOK(b) /\ b.psh = a.psh /\ b.prod = a.prod /\ b.name = a.name
      /\ b.nextfrag = a.nextfrag /\ b.maxfrags = a.maxfrags
  BY <1>2, <1>3, FilledFacts
<1> HIDE DEF b, k
<1>5. /\ k.psh = b.psh /\ k.prod = b.prod /\ k.name = b.name /\ k.tail = n
      /\ k.nextfrag = b.nextfrag /\ k.maxfrags = b.maxfrags
      /\ k.heap = b.heap /\ k.heapcount = b.heapcount /\ k.prodoff = b.prodoff
  BY <1>1, <1>4 DEF MakerOK, Maker
<1>6. k \in Maker
  BY <1>1, <1>3, <1>4 DEF MakerOK, Maker
<1>7. MakerOK(k)
  BY <1>4, <1>5, <1>6 DEF MakerOK
<1>8. QED BY <1>2, <1>4, <1>5, <1>7 DEF k, n

\* What is held of the product then, while it has its own header record: a block
\* more, and of a text without the trailers at its end.
LEMMA LinkedHolds ==
  ASSUME NEW m, MakerOK(m), InHand(m), m.psh = m.prod, NEW f, IsNext(m, f)
  PROVE  LET k == Linked(m, f)
             p == m.prod
         IN  /\ p.kind = "text" =>
                   Collected(k) = (<<FosHeader(p)>> \o Blocks(p, f.block)) \o TextOf(m, f)
             /\ p.kind = "zipped" /\ ~k.png => Collected(k) = Blocks(p, f.block + 1)
             /\ p.kind = "image" => k.png /\ Picture(k) = Blocks(p, f.block + 1)
<1> DEFINE a == DsAlloc(m)
<1> DEFINE b == Filled(a, f)
<1> DEFINE k == Linked(m, f)
<1> DEFINE p == m.prod
<1> DEFINE data == Data(f.product, f.block)
<1>1. k = [b EXCEPT !.tail = f.block]
  BY DEF Linked
<1>2. /\ MakerOK(a) /\ a.psh = p /\ a.prod = p /\ a.png = m.png
      /\ Collected(a) = Collected(m) /\ Picture(a) = Picture(m)
  BY DsAllocFacts DEF SameData, Collected, Picture
<1>3. TextOf(a, f) = TextOf(m, f)
  BY <1>2 DEF TextOf, IsLast
<1>4. /\ f.product \in Product /\ f.block \in Nat /\ f.block < Len(f.product.sizes)
      /\ f.product = p /\ m.tail + 1 = f.block
      /\ (m.tail # None /\ f.block > 0) \/ (m.tail = None /\ f.block = 0)
  <2>1. f.product \in Product /\ m.tail \in Nat \union {None}
    BY DEF IsNext, MakerOK, Maker
  <2>2. f.product = p /\ f.block = m.tail + 1 /\ f.block \in Nat /\ f.block < Len(p.sizes)
    BY DEF IsNext
  <2>3. CASE m.tail = None
    BY <2>1, <2>2, <2>3 DEF None
  <2>4. CASE m.tail \in Nat
    <3>1. m.tail # None /\ f.block > 0
      BY <2>2, <2>4 DEF None
    <3>2. QED BY <2>1, <2>2, <3>1
  <2>5. QED BY <2>1, <2>3, <2>4
<1>5. IsGoes(a) <=> p.kind # "text"
  BY <1>2, OwnRecord
<1>6. Holds(m)
  BY DEF InHand
<1>7. data = Data(p, f.block) /\ Blocks(p, f.block + 1) = Blocks(p, f.block) \o data
  BY <1>4, BlocksFacts
<1>8. data \in Seq(CellSet) /\ <<>> \o data = data
  BY <1>4, DataType, ConcatEmptySeq
<1> HIDE DEF a
<1>9. /\ MakerOK(b) /\ b.psh = p /\ b.prod = p
      /\ p.kind = "text" => Collected(b) = Collected(m) \o TextOf(m, f)
      /\ p.kind = "zipped" => Collected(b) = Collected(m) \o data /\ b.png = m.png
      /\ p.kind = "image" /\ f.block > 0 => Picture(b) = Picture(m) \o data /\ b.png = m.png
      /\ p.kind = "image" /\ f.block = 0 => Picture(b) = data /\ b.png = TRUE
  <2>1. /\ MakerOK(b) /\ b.psh = a.psh /\ b.prod = a.prod
        /\ ~IsGoes(a) => Collected(b) = Collected(a) \o TextOf(a, f)
        /\ IsGoes(a) /\ f.product.kind = "zipped" =>
              Collected(b) = Collected(a) \o data /\ b.png = a.png
        /\ IsGoes(a) /\ f.product.kind # "zipped" /\ f.block > 0 =>
              Picture(b) = Picture(a) \o data /\ b.png = a.png
        /\ IsGoes(a) /\ f.product.kind # "zipped" /\ f.block = 0 =>
              Picture(b) = data /\ b.png = TRUE
    BY <1>2, <1>4, FilledFacts
  <2> HIDE DEF b, data
  <2>2. QED BY <1>2, <1>3, <1>4, <1>5, <2>1
<1> HIDE DEF b, data
<1>10. Collected(k) = Collected(b) /\ Picture(k) = Picture(b) /\ k.png = b.png
  <2>1. /\ k.heap = b.heap /\ k.heapcount = b.heapcount /\ k.prodoff = b.prodoff
        /\ k.rows = b.rows /\ k.png = b.png
    BY <1>1, <1>9 DEF MakerOK, Maker
  <2>2. QED BY <2>1 DEF Collected, Picture
<1> HIDE DEF k
<1>11. ASSUME p.kind = "text"
       PROVE  Collected(k) = (<<FosHeader(p)>> \o Blocks(p, f.block)) \o TextOf(m, f)
  <2>1. Collected(m) = <<FosHeader(p)>> \o Blocks(p, f.block)
    BY <1>4, <1>6, <1>11 DEF Holds
  <2>2. QED BY <1>9, <1>10, <1>11, <2>1
<1>12. ASSUME p.kind = "zipped", ~k.png
       PROVE  Collected(k) = Blocks(p, f.block + 1)
  <2>1. Collected(m) = Blocks(p, f.block)
    BY <1>4, <1>6, <1>9, <1>10, <1>12 DEF Holds
  <2>2. QED BY <1>7, <1>9, <1>10, <1>12, <2>1
<1>13. ASSUME p.kind = "image"
       PROVE  k.png /\ Picture(k) = Blocks(p, f.block + 1)
  <2>1. CASE m.tail # None /\ f.block > 0
    <3>1. m.png /\ Picture(m) = Blocks(p, f.block)
      BY <1>4, <1>6, <1>13, <2>1 DEF Holds
    <3>2. QED BY <1>7, <1>9, <1>10, <1>13, <2>1, <3>1
  <2>2. CASE m.tail = None /\ f.block = 0
    <3>1. Blocks(p, f.block) = <<>>
      BY <2>2, BlocksFacts
    <3>2. QED BY <1>7, <1>8, <1>9, <1>10, <1>13, <2>2, <3>1
  <2>3. QED BY <1>4, <2>1, <2>2
<1>14. QED BY <1>11, <1>12, <1>13 DEF k

\* The last fragment is the product's last block.
LEMMA LastBlock ==
  ASSUME NEW m, MakerOK(m), NEW f, IsNext(m, f)
  PROVE  /\ IsLast(m, f) => f.block + 1 = Len(m.prod.sizes)
         /\ ~IsLast(m, f) => f.block + 1 < Len(m.prod.sizes)
<1>1. m.prod \in Product /\ f.block \in Nat /\ f.block < Len(m.prod.sizes)
  BY DEF IsNext, MakerOK, Maker
<1> DEFINE L == Len(m.prod.sizes)
<1> DEFINE frags == m.prod.frags
<1>2. L \in Nat /\ frags \in Nat /\ (frags # 0 => L = frags) /\ (frags = 0 => L = 1)
  BY <1>1, SizeFacts
<1>3. IsLast(m, f) <=> frags = 0 \/ frags = f.block + 1
  BY DEF IsLast
<1>4. f.block < L
  BY <1>1
<1> HIDE DEF L, frags
<1>5. /\ IsLast(m, f) => f.block + 1 = L
      /\ ~IsLast(m, f) => f.block + 1 < L
  BY <1>1, <1>2, <1>3, <1>4
<1>6. QED BY <1>5 DEF L

LEMMA FinishedFacts ==
  ASSUME NEW m, MakerOK(m)
  PROVE  LET k == Finished(m)
         IN  /\ MakerOK(k) /\ k.psh = m.psh /\ k.prod = m.prod /\ k.name = m.name
             /\ k.maxfrags = m.maxfrags
             /\ ~IsGoes(m) => Collected(k) = Collected(m) \o <<FosTrailer>>
             /\ IsGoes(m) /\ m.png => Collected(k) = Picture(m)
             /\ IsGoes(m) /\ ~m.png => Collected(k) = Collected(m)
<1>1. CASE ~IsGoes(m)
  <2>1. <<FosTrailer>> \in Seq(CellSet)
    BY DEF FosTrailer, CellSet, None
  <2>2. Finished(m) = Appended(m, <<FosTrailer>>)
    BY <1>1 DEF Finished
  <2>3. QED BY <1>1, <2>1, <2>2, AppendedFacts
<1>2. CASE IsGoes(m) /\ m.png
  <2> DEFINE e == PngEnd(m)
  <2> DEFINE n == e.prodoff
  <2> DEFINE k == Finished(m)
  <2>1. k = [e EXCEPT !.heapcount = n]
    BY <1>2 DEF Finished
  <2>2. /\ MakerOK(e) /\ e.psh = m.psh /\ e.prod = m.prod /\ e.name = m.name
        /\ e.maxfrags = m.maxfrags /\ SubSeq(e.heap, 1, n) = Picture(m)
    BY PngEndFacts
  <2>3. n \in Nat /\ n <= Len(e.heap)
    BY <2>2 DEF MakerOK, Maker
  <2>4. n = e.prodoff
    OBVIOUS
  <2> HIDE DEF e, n, k
  <2>5. /\ k.heapcount = n /\ k.heap = e.heap /\ k.prodoff = e.prodoff
        /\ k.psh = m.psh /\ k.prod = m.prod /\ k.name = m.name /\ k.maxfrags = m.maxfrags
    BY <2>1, <2>2 DEF MakerOK, Maker
  <2>6. k \in Maker
    BY <2>1, <2>2, <2>3 DEF MakerOK, Maker
  <2>7. MakerOK(k)
    BY <2>3, <2>4, <2>5, <2>6 DEF MakerOK
  <2>8. Collected(k) = Picture(m)
    BY <2>2, <2>5, Zenon DEF Collected
  <2>9. QED BY <1>2, <2>5, <2>7, <2>8 DEF k
<1>3. CASE IsGoes(m) /\ ~m.png
  BY <1>3 DEF Finished
<1>4. QED BY <1>1, <1>2, <1>3

\* What is handed on of a completed product.
LEMMA MadeFacts ==
  ASSUME NEW m, MakerOK(m), InHand(m), NEW f, IsNext(m, f), IsLast(m, f)
  PROVE  LET q == Made(Linked(m, f))
         IN  /\ q.product = m.prod /\ q.name = m.prod /\ q.psh = m.psh
             /\ \/ q.data = Whole(q.product)
                \/ q.product.kind = "zipped" /\ q.png
                \/ q.psh # q.product
<1> DEFINE k == Linked(m, f)
<1> DEFINE e == Finished(k)
<1> DEFINE q == Made(k)
<1> DEFINE p == m.prod
<1> DEFINE L == Len(p.sizes)
<1>1. /\ MakerOK(k) /\ k.psh = m.psh /\ k.prod = p /\ k.name = p
  BY LinkedFacts DEF InHand
<1>2. /\ q.product = p /\ q.name = p /\ q.psh = m.psh /\ q.png = k.png
      /\ q.data = Collected(e)
  BY <1>1 DEF Made, Collected
<1>3. SUFFICES ASSUME m.psh = p, ~(p.kind = "zipped" /\ k.png)
               PROVE  q.data = Whole(p)
  BY <1>2
<1>4. f.block + 1 = L /\ f.block = L - 1 /\ L \in Nat /\ f.block \in Nat
  BY LastBlock DEF IsNext
<1>5. p \in Product /\ p.kind \in {"text", "image", "zipped"}
  <2>1. p \in Product
    BY DEF MakerOK, Maker
  <2>2. QED BY <2>1, ProductAssumption DEF Kinds
<1>6. /\ p.kind = "text" =>
            Collected(k) = (<<FosHeader(p)>> \o Blocks(p, f.block)) \o TextOf(m, f)
      /\ p.kind = "zipped" => Collected(k) = Blocks(p, f.block + 1)
      /\ p.kind = "image" => k.png /\ Picture(k) = Blocks(p, f.block + 1)
  BY <1>3, LinkedHolds
<1>7. IsGoes(k) <=> p.kind # "text"
  BY <1>1, <1>3, OwnRecord
<1>8. TextOf(m, f) = Stripped(Data(p, f.block))
  BY DEF TextOf, IsNext
<1> HIDE DEF k
<1>9. /\ ~IsGoes(k) => Collected(e) = Collected(k) \o <<FosTrailer>>
      /\ IsGoes(k) /\ k.png => Collected(e) = Picture(k)
      /\ IsGoes(k) /\ ~k.png => Collected(e) = Collected(k)
  BY <1>1, FinishedFacts
<1> HIDE DEF e, q
<1>10. CASE p.kind = "text"
  <2>1. Whole(p) = ((<<FosHeader(p)>> \o Blocks(p, L - 1)) \o Stripped(Data(p, L - 1))) \o <<FosTrailer>>
    BY <1>10 DEF Whole
  <2>2. q.data = ((<<FosHeader(p)>> \o Blocks(p, f.block)) \o Stripped(Data(p, f.block))) \o <<FosTrailer>>
    BY <1>2, <1>6, <1>7, <1>8, <1>9, <1>10
  <2>3. QED BY <1>4, <2>1, <2>2, Zenon
<1>11. CASE p.kind # "text"
  <2>1. Whole(p) = Blocks(p, L)
    BY <1>11 DEF Whole
  <2>2. q.data = Blocks(p, f.block + 1)
    BY <1>2, <1>3, <1>5, <1>6, <1>7, <1>9, <1>11
  <2>3. QED BY <1>4, <2>1, <2>2, Zenon
<1>12. QED BY <1>10, <1>11

-----------------------------------------------------------------------------
(***************************************************************************)
(* The inductive invariant: types, and what there is of the product in     *)
(* progress.                                                               *)
(***************************************************************************)
HandIsKept == maker.tail # None => InHand(maker)

IInv == TypeOK /\ MakerOK(maker) /\ HandIsKept

LEMMA FrameFacts ==
  ASSUME TypeOK, NEW i \in DOMAIN sent
  PROVE  /\ i \in Nat /\ i >= 1 /\ i <= Len(sent) /\ Len(sent) \in Nat
         /\ sent[i].type \in {"header", "block", "skipped"}
         /\ sent[i].product \in Product /\ sent[i].block \in Nat /\ sent[i].runno \in Nat
         /\ sent[i].type # "skipped" =>
               /\ sent[i].type = "header" <=> sent[i].block = 0
               /\ sent[i].block < Len(sent[i].product.sizes)
<1>1. sent \in Seq(Frame)
  BY TransmissionAssumption DEF TypeOK
<1>2. sent[i] \in Frame /\ i \in 1..Len(sent) /\ Len(sent) \in Nat
  BY <1>1
<1>3. sent[i].type # "skipped" =>
        /\ sent[i].type = "header" <=> sent[i].block = 0
        /\ sent[i].block < Len(sent[i].product.sizes)
  BY TransmissionAssumption DEF TypeOK
<1>4. QED BY <1>2, <1>3 DEF Frame

\* What a frame with data finds: the product it begins, or the one in progress.
LEMMA CurrentFacts ==
  ASSUME IInv, NEW i \in DOMAIN sent, HasData(i)
  PROVE  LET m == Current(i)
             p == sent[i].product
         IN  /\ MakerOK(m) /\ InHand(m)
             /\ InSequence(m, sent[i]) => IsNext(m, sent[i])
             /\ \/ /\ sent[i].type = "header"
                   /\ m.psh = p /\ m.prod = p /\ m.tail = None
                   /\ m.nextfrag = 0 /\ m.maxfrags > p.frags
                \/ sent[i].type = "block" /\ m = maker /\ maker.tail # None
<1> DEFINE f == sent[i]
<1> DEFINE m == Current(i)
<1> DEFINE p == f.product
<1>1. /\ f.type \in {"header", "block", "skipped"}
      /\ p \in Product /\ f.block \in Nat
      /\ f.type # "skipped" =>
            /\ f.type = "header" <=> f.block = 0
            /\ f.block < Len(p.sizes)
  BY FrameFacts DEF IInv
<1>2. CASE f.type = "header" /\ p.fault = "none"
  <2>1. m = Begun(maker, p)
    BY <1>2 DEF Current
  <2> HIDE DEF m, p
  <2>2. /\ MakerOK(m) /\ m.psh = p /\ m.prod = p /\ m.tail = None
        /\ m.nextfrag = 0 /\ m.maxfrags > p.frags /\ InHand(m)
    BY <1>1, <1>2, <2>1, BegunFacts DEF IInv
  <2>3. f.block = 0 /\ f.block < Len(p.sizes) /\ f.block = m.tail + 1
    BY <1>1, <1>2, <2>2 DEF None, p
  <2>4. IsNext(m, f)
    BY <1>1, <2>2, <2>3 DEF IsNext, p
  <2>5. QED BY <1>2, <2>2, <2>4 DEF m, p
<1>3. CASE f.type = "block" /\ maker.tail # None
  <2>1. m = maker
    BY <1>3 DEF Current
  <2> HIDE DEF m
  <2>2. MakerOK(m) /\ InHand(m)
    BY <1>3, <2>1 DEF IInv, HandIsKept
  <2>3. f.block > 0 /\ f.block < Len(p.sizes)
    BY <1>1, <1>3
  <2>4. m.prod.frags # 0
    <3>1. m.prod \in Product /\ m.tail \in Nat /\ m.tail + 1 < Len(m.prod.sizes)
      BY <1>3, <2>1, <2>2 DEF MakerOK, Maker, InHand
    <3>2. QED BY <3>1, SizeFacts
  <2>5. ASSUME InSequence(m, f) PROVE IsNext(m, f)
    <3>1. f.block = m.tail + 1 /\ f.product = m.prod
      BY <1>3, <2>1, <2>3, <2>4, <2>5 DEF InSequence
    <3>2. QED BY <1>1, <2>3, <3>1 DEF IsNext
  <2>6. QED BY <1>3, <2>1, <2>2, <2>5 DEF m
<1>4. QED BY <1>2, <1>3 DEF HasData

-----------------------------------------------------------------------------
(***************************************************************************)
(* The counts.                                                             *)
(***************************************************************************)
LEMMA ModRange ==
  ASSUME NEW x \in Int, NEW n \in Nat, n >= 1
  PROVE  x % n \in 0..(n - 1)
OBVIOUS

LEMMA SeqnoFacts ==
  ASSUME NEW i \in Nat
  PROVE  /\ Seqno(i) \in 0..(SeqSize - 1)
         /\ Widened(Seqno(i)) \in 0..(LongSize - 1)
         /\ Widened(Seqno(i)) \in Int
<1>1. /\ FirstSeqno \in Nat /\ SeqSize \in Nat /\ SeqSize >= 1
      /\ LongSize \in Nat /\ LongSize >= 1 /\ SeqSize <= LongSize
  BY NumberAssumption
<1> DEFINE n == Seqno(i)
<1>2. n \in 0..(SeqSize - 1)
  BY <1>1, ModRange DEF Seqno
<1> HIDE DEF n
<1>3. Widened(n) = IF n >= SeqSize \div 2 THEN (n + LongSize - SeqSize) % LongSize ELSE n
  BY DEF Widened
<1>4. (n + LongSize - SeqSize) % LongSize \in 0..(LongSize - 1)
  <2>1. n + LongSize - SeqSize \in Int
    BY <1>1, <1>2
  <2>2. QED BY <1>1, <2>1, ModRange
<1>5. n \in 0..(LongSize - 1)
  BY <1>1, <1>2
<1>6. Widened(n) \in 0..(LongSize - 1)
  BY <1>3, <1>4, <1>5
<1>7. QED BY <1>2, <1>6 DEF n

LEMMA ArrivesType ==
  ASSUME IInv, NEW i \in DOMAIN sent, Arrives(i)
  PROVE  /\ sent' = sent
         /\ arrived' \in 0..Len(sent) /\ received' \in Nat /\ late' \in 0..MaxLate
         /\ since' \in [at : Nat, counted : Nat, top : Nat]
         /\ lastRunno' \in Nat \union {None} /\ lastSeqno' \in 0..(LongSize - 1)
         /\ npackets' \in Nat /\ nmissed' \in Nat
<1>1. i \in Nat /\ i >= 1 /\ i <= Len(sent) /\ Len(sent) \in Nat /\ sent[i].runno \in Nat
  BY FrameFacts DEF IInv
<1>2. /\ arrived \in 0..Len(sent) /\ received \in Nat /\ late \in 0..MaxLate
      /\ since \in [at : Nat, counted : Nat, top : Nat]
      /\ lastSeqno \in 0..(LongSize - 1) /\ npackets \in Nat /\ nmissed \in Nat
      /\ MaxLate \in Nat /\ LongSize \in Nat /\ LongSize >= 1
  BY NumberAssumption DEF IInv, TypeOK
<1>3. /\ sent' = sent
      /\ arrived' \in 0..Len(sent) /\ received' \in Nat /\ late' \in 0..MaxLate
  BY <1>1, <1>2 DEF Arrives
<1>4. lastRunno' \in Nat \union {None} /\ lastSeqno' \in 0..(LongSize - 1)
  BY <1>1, SeqnoFacts DEF Arrives, Counted
<1>5. Delta(i) \in Nat
  <2> DEFINE w == Widened(Seqno(i))
  <2> DEFINE x == w - lastSeqno
  <2>1. w \in Int
    BY <1>1, SeqnoFacts
  <2>2. Delta(i) = x % LongSize
    BY DEF Delta
  <2> HIDE DEF w
  <2>3. x \in Int
    BY <1>2, <2>1
  <2> HIDE DEF x
  <2>4. x % LongSize \in 0..(LongSize - 1)
    BY <1>2, <2>3, ModRange
  <2>5. QED BY <1>2, <2>2, <2>4
<1>6. npackets' \in Nat /\ nmissed' \in Nat
  <2>1. CASE lastRunno # sent[i].runno \/ IsRetrograde(Delta(i))
    BY <1>2, <2>1 DEF Arrives, Counted
  <2>2. CASE lastRunno = sent[i].runno /\ ~IsRetrograde(Delta(i))
    <3> DEFINE d == Delta(i)
    <3>1. nmissed' = nmissed + Gap(d) /\ npackets' = npackets + 1
      BY <2>2 DEF Arrives, Counted
    <3>2. d \in Nat /\ d # 0
      BY <1>5, <2>2 DEF IsRetrograde
    <3> HIDE DEF d
    <3>3. Gap(d) = d - 1
      BY DEF Gap
    <3>4. d - 1 \in Nat
      BY <3>2
    <3>5. nmissed' = nmissed + (d - 1)
      BY <3>1, <3>3
    <3>6. nmissed \in Nat /\ npackets \in Nat
      BY <1>2
    <3>7. QED BY <3>1, <3>4, <3>5, <3>6
  <2>3. QED BY <2>1, <2>2
<1>7. since' \in [at : Nat, counted : Nat, top : Nat]
  <2>1. CASE lastRunno # sent[i].runno
    <3>1. since' = [at |-> i, counted |-> npackets + nmissed, top |-> i]
      BY <2>1 DEF Arrives, Counted
    <3>2. npackets + nmissed \in Nat
      BY <1>2
    <3>3. QED BY <1>1, <3>1, <3>2
  <2>2. CASE lastRunno = sent[i].runno
    <3>1. since' = [since EXCEPT !.top = IF i > @ THEN i ELSE @]
      BY <2>2 DEF Arrives, Counted
    <3>2. QED BY <1>1, <1>2, <3>1
  <2>3. QED BY <2>1, <2>2
<1>8. QED BY <1>3, <1>4, <1>6, <1>7

\* A frame that arrives keeps the types, whatever is then made of it.
LEMMA StepType ==
  ASSUME IInv, NEW i \in DOMAIN sent, Arrives(i), MakerOK(maker'), nprods' \in Nat
  PROVE  TypeOK'
<1>1. sent' \in Transmissions
  BY ArrivesType DEF IInv, TypeOK
<1>2. /\ maker'.psh \in Product /\ maker'.prod \in Product /\ maker'.name \in Product
      /\ maker'.tail \in Nat \union {None}
      /\ maker'.heapcount \in Nat /\ maker'.heapsize \in Nat /\ maker'.prodoff \in Nat
      /\ maker'.png \in BOOLEAN
      /\ maker'.nextfrag \in Nat /\ maker'.maxfrags \in Nat
  BY DEF MakerOK, Maker
<1>3. /\ sent' = sent
      /\ arrived' \in 0..Len(sent) /\ received' \in Nat /\ late' \in 0..MaxLate
      /\ since' \in [at : Nat, counted : Nat, top : Nat]
      /\ lastRunno' \in Nat \union {None} /\ lastSeqno' \in 0..(LongSize - 1)
      /\ npackets' \in Nat /\ nmissed' \in Nat
  BY ArrivesType
<1>4. QED BY <1>1, <1>2, <1>3 DEF TypeOK

-----------------------------------------------------------------------------
(***************************************************************************)
(* The invariant is kept by every step.                                    *)
(***************************************************************************)
LEMMA InitHolds == Init => IInv
<1> SUFFICES ASSUME Init PROVE IInv
  OBVIOUS
<1> DEFINE p == CHOOSE q \in Product : TRUE
<1> DEFINE none == <<>>
<1>1. maker = [psh |-> p, prod |-> p, name |-> p, tail |-> None,
               heap |-> none, heapcount |-> 0, heapsize |-> 0,
               png |-> FALSE, rows |-> none, prodoff |-> 0,
               nextfrag |-> 0, maxfrags |-> FirstMaxFrags]
  BY DEF Init
<1>2. p \in Product
  BY SomeProduct
<1>3. none \in Seq(CellSet) /\ Len(none) = 0
  OBVIOUS
<1> HIDE DEF p, none
<1>4. FirstMaxFrags \in Nat /\ LongSize \in Nat /\ LongSize >= 1 /\ MaxLate \in Nat
  BY NumberAssumption
<1>5. maker \in Maker
  BY <1>1, <1>2, <1>3, <1>4 DEF Maker
<1>6. MakerOK(maker)
  BY <1>1, <1>3, <1>5 DEF MakerOK
<1>7. HandIsKept
  BY <1>1 DEF HandIsKept
<1>8. TypeOK
  <2>1. sent \in Transmissions /\ Len(sent) \in Nat
    BY TransmissionAssumption DEF Init
  <2>2. /\ maker.psh \in Product /\ maker.prod \in Product /\ maker.name \in Product
        /\ maker.tail \in Nat \union {None}
        /\ maker.heapcount \in Nat /\ maker.heapsize \in Nat /\ maker.prodoff \in Nat
        /\ maker.png \in BOOLEAN
        /\ maker.nextfrag \in Nat /\ maker.maxfrags \in Nat
    BY <1>5 DEF Maker
  <2>3. /\ arrived \in 0..Len(sent) /\ received \in Nat /\ late \in 0..MaxLate
        /\ lastRunno \in Nat \union {None} /\ lastSeqno \in 0..(LongSize - 1)
        /\ npackets \in Nat /\ nmissed \in Nat /\ nprods \in Nat
    BY <1>4, <2>1 DEF Init
  <2>4. since \in [at : Nat, counted : Nat, top : Nat]
    BY DEF Init
  <2>5. QED BY <2>1, <2>2, <2>3, <2>4 DEF TypeOK
<1>9. QED BY <1>6, <1>7, <1>8 DEF IInv

LEMMA SkipStep ==
  ASSUME IInv, NEW i \in DOMAIN sent, Skip(i) \/ SkipOrphan(i)
  PROVE  IInv' /\ queue' = queue
<1>1. Arrives(i) /\ maker' = maker /\ nprods' = nprods /\ queue' = queue
  BY DEF Skip, SkipOrphan
<1>2. MakerOK(maker') /\ nprods' \in Nat
  BY <1>1 DEF IInv, TypeOK
<1>3. TypeOK'
  BY <1>1, <1>2, StepType
<1>4. HandIsKept'
  BY <1>1 DEF IInv, HandIsKept
<1>5. QED BY <1>1, <1>2, <1>3, <1>4 DEF IInv

\* The header record of a malformed header is nobody's own.
LEMMA RejectHeaderStep ==
  ASSUME IInv, NEW i \in DOMAIN sent, RejectHeader(i)
  PROVE  IInv' /\ queue' = queue
<1> DEFINE p == sent[i].product
<1>1. /\ Arrives(i) /\ maker' = [maker EXCEPT !.psh = p] /\ nprods' = nprods /\ queue' = queue
      /\ p.fault = "psh"
  BY DEF RejectHeader
<1>2. p \in Product /\ MakerOK(maker)
  BY FrameFacts DEF IInv
<1> HIDE DEF p
<1>3. /\ MakerOK(maker') /\ maker'.psh = p
      /\ maker'.prod = maker.prod /\ maker'.name = maker.name /\ maker'.tail = maker.tail
  BY <1>1, <1>2, PshFacts
<1>4. nprods' \in Nat
  BY <1>1 DEF IInv, TypeOK
<1>5. TypeOK'
  BY <1>1, <1>3, <1>4, StepType
<1>6. HandIsKept'
  <2>1. SUFFICES ASSUME maker'.tail # None PROVE InHand(maker')
    BY DEF HandIsKept
  <2>2. InHand(maker)
    BY <1>3, <2>1 DEF IInv, HandIsKept
  <2>3. maker'.psh # maker'.prod
    BY <1>1, <1>3, <2>2 DEF InHand
  <2>4. QED BY <1>3, <2>2, <2>3 DEF InHand
<1>7. QED BY <1>1, <1>3, <1>5, <1>6 DEF IInv

LEMMA PuntHeaderStep ==
  ASSUME IInv, NEW i \in DOMAIN sent, PuntHeader(i)
  PROVE  IInv' /\ queue' = queue
<1> DEFINE p == sent[i].product
<1> DEFINE o == Opened(maker, p)
<1> DEFINE zero == 0
<1>1. /\ Arrives(i) /\ maker' = [o EXCEPT !.heapcount = zero]
      /\ nprods' = nprods /\ queue' = queue
  BY DEF PuntHeader
<1>2. p \in Product /\ MakerOK(maker)
  BY FrameFacts DEF IInv
<1>3. MakerOK(o) /\ o.tail = None /\ zero \in Nat /\ zero = 0
  BY <1>2, OpenedFacts
<1> HIDE DEF o, zero
<1>4. maker'.tail = None /\ maker'.heap = o.heap /\ maker'.heapcount = zero /\ maker'.prodoff = o.prodoff
  BY <1>1, <1>3 DEF MakerOK, Maker
<1>5. maker' \in Maker
  BY <1>1, <1>3 DEF MakerOK, Maker
<1>6. MakerOK(maker')
  BY <1>3, <1>4, <1>5 DEF MakerOK, Maker
<1>7. nprods' \in Nat
  BY <1>1 DEF IInv, TypeOK
<1>8. TypeOK'
  BY <1>1, <1>6, <1>7, StepType
<1>9. HandIsKept'
  BY <1>4 DEF HandIsKept
<1>10. QED BY <1>1, <1>6, <1>8, <1>9 DEF IInv

LEMMA GiveUpStep ==
  ASSUME IInv, NEW i \in DOMAIN sent, GiveUp(i)
  PROVE  IInv' /\ queue' = queue
<1> DEFINE m == Current(i)
<1>1. /\ HasData(i) /\ Arrives(i) /\ maker' = DsFree(DsAlloc(m))
      /\ nprods' = nprods /\ queue' = queue
  BY DEF GiveUp
<1>2. MakerOK(m)
  BY <1>1, CurrentFacts
<1> HIDE DEF m
<1>3. MakerOK(DsAlloc(m))
  BY <1>2, DsAllocFacts
<1>4. MakerOK(maker') /\ maker'.tail = None
  BY <1>1, <1>3, DsFreeFacts
<1>5. nprods' \in Nat
  BY <1>1 DEF IInv, TypeOK
<1>6. TypeOK'
  BY <1>1, <1>4, <1>5, StepType
<1>7. HandIsKept'
  BY <1>4 DEF HandIsKept
<1>8. QED BY <1>1, <1>4, <1>6, <1>7 DEF IInv

LEMMA RefuseStep ==
  ASSUME IInv, NEW i \in DOMAIN sent, Refuse(i)
  PROVE  IInv' /\ queue' = queue
<1> DEFINE m == Current(i)
<1>1. /\ HasData(i) /\ Arrives(i) /\ maker' = DsAlloc(m)
      /\ nprods' = nprods /\ queue' = queue
  BY DEF Refuse
<1>2. MakerOK(m) /\ InHand(m)
  BY <1>1, CurrentFacts
<1> HIDE DEF m
<1>3. MakerOK(maker') /\ SameData(maker', m) /\ maker'.tail = m.tail
  BY <1>1, <1>2, DsAllocFacts
<1>4. InHand(maker')
  BY <1>2, <1>3 DEF InHand, Holds, SameData, Collected, Picture
<1>5. nprods' \in Nat
  BY <1>1 DEF IInv, TypeOK
<1>6. TypeOK'
  BY <1>1, <1>3, <1>5, StepType
<1>7. HandIsKept'
  BY <1>4 DEF HandIsKept
<1>8. QED BY <1>1, <1>3, <1>6, <1>7 DEF IInv

LEMMA ExtendStep ==
  ASSUME IInv, NEW i \in DOMAIN sent, Extend(i)
  PROVE  IInv' /\ queue' = queue
<1> DEFINE m == Current(i)
<1> DEFINE f == sent[i]
<1>1. /\ HasData(i) /\ InSequence(m, f) /\ ~IsLast(m, f)
      /\ Arrives(i) /\ maker' = Linked(m, f) /\ nprods' = nprods /\ queue' = queue
  BY DEF Extend
<1>2. MakerOK(m) /\ InHand(m) /\ IsNext(m, f)
  BY <1>1, CurrentFacts
<1> HIDE DEF m, f
<1>3. /\ MakerOK(maker') /\ maker'.psh = m.psh /\ maker'.prod = m.prod
      /\ maker'.name = m.name /\ maker'.tail = f.block
  BY <1>1, <1>2, LinkedFacts
<1>4. f.block + 1 < Len(m.prod.sizes)
  BY <1>1, <1>2, LastBlock
<1>5. ASSUME m.psh = m.prod PROVE Holds(maker')
  <2>1. /\ m.prod.kind = "text" =>
              Collected(maker') = (<<FosHeader(m.prod)>> \o Blocks(m.prod, f.block)) \o TextOf(m, f)
        /\ m.prod.kind = "zipped" /\ ~maker'.png =>
              Collected(maker') = Blocks(m.prod, f.block + 1)
        /\ m.prod.kind = "image" =>
              maker'.png /\ Picture(maker') = Blocks(m.prod, f.block + 1)
    BY <1>1, <1>2, <1>5, LinkedHolds
  <2> DEFINE p == m.prod
  <2> DEFINE data == Data(p, f.block)
  <2> DEFINE front == <<FosHeader(p)>>
  <2> DEFINE upto == Blocks(p, f.block)
  <2>2. TextOf(m, f) = data
    BY <1>1, <1>2 DEF TextOf, IsNext
  <2>3. p \in Product /\ f.block \in Nat /\ f.block < Len(p.sizes) /\ Len(p.sizes) \in Nat
    BY <1>2, SizeFacts DEF IsNext, MakerOK, Maker
  <2>4. f.block \in 0..Len(p.sizes)
    BY <2>3
  <2>5. data \in Seq(CellSet) /\ upto \in Seq(CellSet) /\ front \in Seq(CellSet)
    BY <2>3, <2>4, DataType, BlocksType, CellTypes
  <2>6. Blocks(p, f.block + 1) = upto \o data
    BY <2>3, BlocksFacts
  <2> HIDE DEF data, front, upto
  <2>7. (front \o upto) \o data = front \o (upto \o data)
    BY <2>5, ConcatAssociative
  <2>8. p.kind = "text" => Collected(maker') = <<FosHeader(p)>> \o Blocks(p, f.block + 1)
    BY <2>1, <2>2, <2>6, <2>7, Zenon DEF front, upto
  <2>9. QED BY <1>3, <2>1, <2>8 DEF Holds
<1>6. InHand(maker')
  BY <1>2, <1>3, <1>4, <1>5 DEF InHand
<1>7. nprods' \in Nat
  BY <1>1 DEF IInv, TypeOK
<1>8. TypeOK'
  BY <1>1, <1>3, <1>7, StepType
<1>9. HandIsKept'
  BY <1>6 DEF HandIsKept
<1>10. QED BY <1>1, <1>3, <1>8, <1>9 DEF IInv

\* What is in the queue.
Entry == [product : Product, name : Product, psh : Product, png : BOOLEAN, data : Seq(CellSet)]

LEMMA MadeType ==
  ASSUME NEW k, MakerOK(k)
  PROVE  Made(k) \in Entry
<1> DEFINE e == Finished(k)
<1>0. MakerOK(e)
  BY FinishedFacts
<1> HIDE DEF e
<1>1. e \in Maker /\ e.heap \in Seq(CellSet) /\ e.heapcount \in 0..Len(e.heap)
  BY <1>0 DEF MakerOK, Maker
<1> DEFINE data == SubSeq(e.heap, 1, e.heapcount)
<1>2. data \in Seq(CellSet)
  <2> DEFINE n == e.heapcount
  <2> DEFINE h == e.heap
  <2>1. n \in Int /\ 1 \in Int /\ \A i \in 1..n : h[i] \in CellSet
    BY <1>1
  <2> HIDE DEF n, h
  <2>2. SubSeq(h, 1, n) \in Seq(CellSet)
    BY <2>1, SubSeqProperties
  <2>3. QED BY <2>2 DEF n, h
<1>3. Made(k) = [product |-> k.prod, name |-> k.name, psh |-> k.psh, png |-> k.png, data |-> data]
  BY DEF Made, e
<1> HIDE DEF data
<1>4. QED BY <1>2, <1>3 DEF MakerOK, Maker, Entry

\* A product is complete: what is put into the queue is whole.
LEMMA CompleteStep ==
  ASSUME IInv, NEW i \in DOMAIN sent, Complete(i)
  PROVE  /\ IInv'
         /\ \E q \in Entry :
                  /\ queue' = queue \/ queue' = Append(queue, q)
                  /\ q.name = q.product
                  /\ \/ q.data = Whole(q.product)
                     \/ q.product.kind = "zipped" /\ q.png
                     \/ q.psh # q.product
<1> DEFINE m == Current(i)
<1> DEFINE f == sent[i]
<1> DEFINE k == Linked(m, f)
<1> DEFINE e == Finished(k)
<1> DEFINE d == DsFree(e)
<1>1. /\ HasData(i) /\ InSequence(m, f) /\ IsLast(k, f) /\ Arrives(i)
      /\ queue' = queue \/ queue' = Append(queue, Made(k))
      /\ maker' = [d EXCEPT !.png = FALSE]
      /\ nprods' = nprods + 1
  BY DEF Complete
<1>2. MakerOK(m) /\ InHand(m) /\ IsNext(m, f)
  BY <1>1, CurrentFacts
<1> HIDE DEF m, f
<1>3. MakerOK(k) /\ k.prod = m.prod
  BY <1>2, LinkedFacts
<1>4. IsLast(m, f)
  BY <1>1, <1>3 DEF IsLast
<1>5. /\ Made(k).name = Made(k).product
      /\ \/ Made(k).data = Whole(Made(k).product)
         \/ Made(k).product.kind = "zipped" /\ Made(k).png
         \/ Made(k).psh # Made(k).product
  BY <1>2, <1>4, MadeFacts
<1> HIDE DEF k
<1>5a. Made(k) \in Entry
  BY <1>3, MadeType
<1>6. MakerOK(e)
  BY <1>3, FinishedFacts
<1> HIDE DEF e
<1>7. MakerOK(d) /\ d.tail = None
  BY <1>6, DsFreeFacts
<1> HIDE DEF d
<1>7a. /\ maker'.tail = d.tail /\ maker'.heap = d.heap
       /\ maker'.heapcount = d.heapcount /\ maker'.prodoff = d.prodoff
  BY <1>1, <1>7 DEF MakerOK, Maker
<1>7b. maker' \in Maker
  BY <1>1, <1>7 DEF MakerOK, Maker
<1>8. MakerOK(maker') /\ maker'.tail = None
  <2>1. d.heapcount <= Len(d.heap) /\ d.prodoff <= Len(d.heap)
    BY <1>7 DEF MakerOK
  <2>2. maker'.heapcount <= Len(maker'.heap) /\ maker'.prodoff <= Len(maker'.heap)
    BY <1>7a, <2>1, Zenon
  <2>3. QED BY <1>7, <1>7a, <1>7b, <2>2 DEF MakerOK
<1>9. nprods' \in Nat
  <2>1. nprods \in Nat
    BY DEF IInv, TypeOK
  <2>2. nprods' = nprods + 1
    BY <1>1
  <2>3. QED BY <2>1, <2>2
<1>10. TypeOK'
  BY <1>1, <1>8, <1>9, StepType
<1>11. HandIsKept'
  BY <1>8 DEF HandIsKept
<1>12. IInv'
  BY <1>8, <1>10, <1>11 DEF IInv
<1>13. QED BY <1>1, <1>5, <1>5a, <1>12

LEMMA StepHolds == IInv /\ [Next]_vars => IInv'
<1> SUFFICES ASSUME IInv, [Next]_vars PROVE IInv'
  OBVIOUS
<1>1. CASE UNCHANGED vars
  BY <1>1 DEF IInv, TypeOK, HandIsKept, vars, network, counts
<1>2. CASE Next
  <2>1. PICK i \in DOMAIN sent :
          \/ Skip(i) \/ RejectHeader(i) \/ PuntHeader(i) \/ SkipOrphan(i)
          \/ GiveUp(i) \/ Refuse(i) \/ Extend(i) \/ Complete(i)
    BY <1>2 DEF Next
  <2>2. CASE Skip(i) \/ SkipOrphan(i)
    BY <2>2, SkipStep
  <2>3. CASE RejectHeader(i)
    BY <2>3, RejectHeaderStep
  <2>4. CASE PuntHeader(i)
    BY <2>4, PuntHeaderStep
  <2>5. CASE GiveUp(i)
    BY <2>5, GiveUpStep
  <2>6. CASE Refuse(i)
    BY <2>6, RefuseStep
  <2>7. CASE Extend(i)
    BY <2>7, ExtendStep
  <2>8. CASE Complete(i)
    BY <2>8, CompleteStep
  <2>9. QED BY <2>1, <2>2, <2>3, <2>4, <2>5, <2>6, <2>7, <2>8
<1>3. QED BY <1>1, <1>2

LEMMA Invariance == Spec => []IInv
<1>1. QED BY InitHolds, StepHolds, PTL DEF Spec

\* What pmStart() has in hand, the packet counts and the last numbers keep their
\* types, whatever frames come, are lost, late or doubled.
THEOREM TypeCorrect == Spec => []TypeOK
<1>1. IInv => TypeOK
  BY DEF IInv
<1>2. QED BY Invariance, <1>1, PTL

-----------------------------------------------------------------------------
(***************************************************************************)
(* Only whole products are inserted.                                       *)
(***************************************************************************)
QueueIsWhole == queue \in Seq(Entry) /\ ProductsAreWhole

LEMMA QueueStep ==
  ASSUME IInv, QueueIsWhole, [Next]_vars
  PROVE  QueueIsWhole'
<1> DEFINE Good(q) == /\ q.name = q.product
                      /\ \/ q.data = Whole(q.product)
                         \/ q.product.kind = "zipped" /\ q.png
                         \/ q.psh # q.product
<1>1. ProductsAreWhole <=> \A k \in DOMAIN queue : Good(queue[k])
  BY Zenon DEF ProductsAreWhole
<1>2. ProductsAreWhole' <=> \A k \in DOMAIN queue' : Good(queue'[k])
  BY Zenon DEF ProductsAreWhole
<1>3. \/ queue' = queue
      \/ \E q \in Entry : queue' = Append(queue, q) /\ Good(q)
  <2>1. CASE UNCHANGED vars
    BY <2>1 DEF vars
  <2>2. CASE Next
    <3>1. PICK i \in DOMAIN sent :
            \/ Skip(i) \/ RejectHeader(i) \/ PuntHeader(i) \/ SkipOrphan(i)
            \/ GiveUp(i) \/ Refuse(i) \/ Extend(i) \/ Complete(i)
      BY <2>2 DEF Next
    <3>2. CASE Complete(i)
      <4>1. PICK q \in Entry : (queue' = queue \/ queue' = Append(queue, q)) /\ Good(q)
        BY <3>2, CompleteStep
      <4> HIDE DEF Good
      <4>2. QED BY <4>1
    <3>3. CASE ~Complete(i)
      BY <3>1, <3>3, SkipStep, RejectHeaderStep, PuntHeaderStep, GiveUpStep, RefuseStep, ExtendStep
    <3>4. QED BY <3>2, <3>3
  <2>3. QED BY <2>1, <2>2
<1> HIDE DEF Good
<1>4. CASE queue' = queue
  BY <1>1, <1>2, <1>4 DEF QueueIsWhole
<1>5. ASSUME NEW q \in Entry, queue' = Append(queue, q), Good(q)
      PROVE  QueueIsWhole'
  <2>1. queue \in Seq(Entry) /\ Len(queue) \in Nat /\ DOMAIN queue = 1..Len(queue)
    BY DEF QueueIsWhole
  <2>2. /\ queue' \in Seq(Entry) /\ Len(queue') = Len(queue) + 1
        /\ \A k \in 1..Len(queue) : queue'[k] = queue[k]
        /\ queue'[Len(queue) + 1] = q
    BY <1>5, <2>1, AppendProperties
  <2>3. DOMAIN queue' = 1..(Len(queue) + 1)
    BY <2>2
  <2>4. \A k \in 1..(Len(queue) + 1) : k \in 1..Len(queue) \/ k = Len(queue) + 1
    BY <2>1
  <2>5. \A k \in 1..Len(queue) : Good(queue[k])
    BY <1>1, <2>1 DEF QueueIsWhole
  <2>6. \A k \in DOMAIN queue' : Good(queue'[k])
    BY <1>5, <2>2, <2>3, <2>4, <2>5
  <2>7. QED BY <1>2, <2>2, <2>6 DEF QueueIsWhole
<1>6. QED BY <1>3, <1>4, <1>5

\* Whatever is lost, late or doubled: what pmStart() hands to process_prod() is a
\* whole product under its own name, but for the two cases that the property names.
THEOREM OnlyWholeProducts == Spec => []ProductsAreWhole
<1>1. Init => QueueIsWhole
  <2>1. SUFFICES ASSUME Init PROVE QueueIsWhole
    OBVIOUS
  <2>2. queue = <<>>
    BY <2>1 DEF Init
  <2>3. queue \in Seq(Entry) /\ DOMAIN queue = {}
    BY <2>2
  <2>4. QED BY <2>3 DEF QueueIsWhole, ProductsAreWhole
<1>2. IInv /\ QueueIsWhole /\ [Next]_vars => QueueIsWhole'
  BY QueueStep
<1>3. QueueIsWhole => ProductsAreWhole
  BY DEF QueueIsWhole
<1>4. QED BY Invariance, <1>1, <1>2, <1>3, PTL DEF Spec

-----------------------------------------------------------------------------
(***************************************************************************)
(* As long as frames come in order.  What there is of a product then, in m *)
(* when frame a was the last to arrive: a frame of it has come; if its     *)
(* header record has been overwritten, none is to come; the arena has room *)
(* for all its fragments; and no more of them are allocated than linked,   *)
(* but for one that was refused, after which none is in sequence.          *)
(***************************************************************************)
Carries(j, p) == sent[j].type # "skipped" /\ sent[j].product = p

InProgress(m, a) ==
    /\ \E h \in DOMAIN sent : h <= a /\ Carries(h, m.prod)
    /\ m.psh # m.prod => \A j \in DOMAIN sent : j > a => ~Carries(j, m.prod)
    /\ m.prod.frags < m.maxfrags
    /\ \/ m.nextfrag <= m.tail + 1
       \/ /\ m.nextfrag = m.tail + 2
          /\ \A j \in DOMAIN sent : j > a /\ Carries(j, m.prod) => sent[j].block > m.tail + 1

InOrder == late = 0 /\ maker.tail # None => InProgress(maker, arrived)

LEMMA SenderFacts ==
  ASSUME TypeOK, NEW p, NEW h \in DOMAIN sent, NEW j \in DOMAIN sent, h < j,
         Carries(h, p), Carries(j, p)
  PROVE  /\ sent[h].block < sent[j].block
         /\ \A i \in DOMAIN sent : h < i /\ i < j /\ sent[i].type # "skipped" => sent[i].product = p
<1>1. sent \in Transmissions
  BY DEF TypeOK
<1>2. "skipped" \notin {sent[h].type, sent[j].type} /\ sent[h].product = sent[j].product
  BY DEF Carries
<1>3. /\ sent[h].block < sent[j].block
      /\ \A k \in h..j : sent[k].type = "skipped" \/ sent[k].product = sent[h].product
  BY <1>1, <1>2, SenderAssumption
<1>4. \A i \in DOMAIN sent : h < i /\ i < j => i \in h..j
  <2>1. \A i \in DOMAIN sent : i \in Nat
    BY FrameFacts
  <2>2. QED BY <2>1
<1>5. QED BY <1>3, <1>4 DEF Carries

\* Nothing is late yet: the frame that arrives is the next one of those that do.
LEMMA OrderedArrival ==
  ASSUME IInv, NEW i \in DOMAIN sent, Arrives(i), late' = 0
  PROVE  /\ late = 0 /\ i > arrived /\ arrived' = i /\ sent' = sent
         /\ i \in Nat /\ arrived \in Nat
<1>1. late \in Nat /\ arrived \in Nat /\ i \in Nat
  BY FrameFacts, NumberAssumption DEF IInv, TypeOK
<1>2. QED BY <1>1 DEF Arrives

\* A frame of the product in progress comes in order: its header record is its own,
\* and no fragment of it has been refused before.
LEMMA NextInOrder ==
  ASSUME IInv, NEW i \in DOMAIN sent, sent[i].type = "block", maker.tail # None,
         InProgress(maker, arrived), i > arrived, IsNext(maker, sent[i])
  PROVE  /\ maker.psh = maker.prod
         /\ maker.nextfrag <= maker.tail + 1
<1>1. Carries(i, maker.prod)
  BY DEF IsNext, Carries
<1>2. sent[i].block = maker.tail + 1 /\ ~(sent[i].block > maker.tail + 1)
  BY DEF IsNext
<1>3. QED BY <1>1, <1>2 DEF InProgress

\* There is room in the arena for the fragment of the frame at hand.
LEMMA RoomForOne ==
  ASSUME IInv, maker.tail # None, InProgress(maker, arrived)
  PROVE  maker.nextfrag < maker.maxfrags
<1>1. /\ maker.prod \in Product /\ maker.tail \in Nat
      /\ maker.nextfrag \in Nat /\ maker.maxfrags \in Nat
      /\ maker.tail + 1 < Len(maker.prod.sizes)
  BY DEF IInv, MakerOK, Maker, HandIsKept, InHand
<1> DEFINE L == Len(maker.prod.sizes)
<1> DEFINE frags == maker.prod.frags
<1>2. L \in Nat /\ frags \in Nat /\ (frags # 0 => L = frags) /\ (frags = 0 => L = 1)
  BY <1>1, SizeFacts
<1>3. frags < maker.maxfrags /\ maker.nextfrag <= maker.tail + 2
  BY <1>1 DEF InProgress
<1>4. maker.tail + 1 < L
  BY <1>1
<1> HIDE DEF L, frags
<1>5. QED BY <1>1, <1>2, <1>3, <1>4

\* A header that comes in order is not that of the product in progress.
LEMMA AnotherHeader ==
  ASSUME IInv, NEW i \in DOMAIN sent, sent[i].type = "header", i > arrived,
         maker.tail # None, InProgress(maker, arrived)
  PROVE  sent[i].product # maker.prod
<1>1. SUFFICES ASSUME sent[i].product = maker.prod PROVE FALSE
  OBVIOUS
<1>2. PICK h \in DOMAIN sent : h <= arrived /\ Carries(h, maker.prod)
  BY DEF InProgress
<1>3. h \in Nat /\ i \in Nat /\ arrived \in Nat /\ sent[h].block \in Nat /\ sent[i].block = 0
  BY FrameFacts DEF IInv, TypeOK
<1>4. h < i
  BY <1>2, <1>3
<1>5. Carries(i, maker.prod)
  BY <1>1 DEF Carries
<1>6. sent[h].block < sent[i].block
  BY <1>2, <1>4, <1>5, SenderFacts DEF IInv
<1>7. QED BY <1>3, <1>6

\* A step of which nothing but the time of arrival matters to the product in progress.
LEMMA InProgressLater ==
  ASSUME TypeOK, NEW m, NEW a \in Nat, NEW i \in Nat, a < i, InProgress(m, a)
  PROVE  InProgress(m, i)
<1>1. \A j \in DOMAIN sent : j \in Nat
  BY FrameFacts
<1>2. \A j \in DOMAIN sent : (j <= a => j <= i) /\ (j > i => j > a)
  BY <1>1
<1>3. QED BY <1>2 DEF InProgress

LEMMA RefuseInOrder ==
  ASSUME IInv, InOrder, NEW i \in DOMAIN sent, Refuse(i), late' = 0, maker'.tail # None
  PROVE  InProgress(maker', i)
<1> DEFINE m == Current(i)
<1> DEFINE f == sent[i]
<1>1. HasData(i) /\ InSequence(m, f) /\ Arrives(i) /\ maker' = DsAlloc(m)
  BY DEF Refuse
<1>2. late = 0 /\ i > arrived /\ i \in Nat /\ arrived \in Nat
  BY <1>1, OrderedArrival
<1>3. MakerOK(m) /\ IsNext(m, f)
  BY <1>1, CurrentFacts
<1>4. /\ SameData(maker', m) /\ maker'.tail = m.tail
      /\ maker'.nextfrag = m.nextfrag + 1 /\ maker'.maxfrags >= m.maxfrags
  BY <1>1, <1>3, DsAllocFacts
<1>5. f.type = "block" /\ m = maker /\ maker.tail # None
  BY <1>1, <1>4, CurrentFacts
<1>6. InProgress(maker, arrived)
  BY <1>2, <1>5 DEF InOrder
<1>7. maker.psh = maker.prod /\ maker.nextfrag <= maker.tail + 1
  BY <1>2, <1>3, <1>5, <1>6, NextInOrder
<1>8. /\ maker.prod \in Product /\ maker.prod.frags \in Nat
      /\ maker.nextfrag \in Nat /\ maker.maxfrags \in Nat
      /\ maker.tail \in Nat /\ MakerOK(maker') /\ maker'.maxfrags \in Nat
  BY <1>1, <1>3, <1>5, DsAllocFacts, SizeFacts DEF MakerOK, Maker
<1>9. maker'.psh = maker.prod /\ maker'.prod = maker.prod /\ maker'.tail = maker.tail
  BY <1>4, <1>5, <1>7 DEF SameData
<1>10. InProgress(maker, i)
  BY <1>2, <1>6, InProgressLater DEF IInv
<1>11. maker'.prod.frags < maker'.maxfrags
  BY <1>4, <1>5, <1>8, <1>9, <1>10 DEF InProgress
<1>12. maker'.nextfrag <= maker'.tail + 2
  BY <1>4, <1>5, <1>7, <1>8, <1>9
<1>13. maker'.nextfrag <= maker'.tail + 1 \/ maker'.nextfrag = maker'.tail + 2
  BY <1>4, <1>5, <1>7, <1>8, <1>9
<1>14. \A j \in DOMAIN sent : j > i /\ Carries(j, maker'.prod) => sent[j].block > maker'.tail + 1
  <2>1. SUFFICES ASSUME NEW j \in DOMAIN sent, j > i, Carries(j, maker.prod)
                 PROVE  sent[j].block > maker.tail + 1
    BY <1>9
  <2>2. Carries(i, maker.prod) /\ f.block = maker.tail + 1
    BY <1>3, <1>5 DEF IsNext, Carries
  <2>3. j \in Nat /\ sent[j].block \in Nat /\ f.block \in Nat
    BY FrameFacts DEF IInv
  <2>4. i < j
    BY <1>2, <2>1, <2>3
  <2>5. f.block < sent[j].block
    BY <2>1, <2>2, <2>4, SenderFacts DEF IInv
  <2>6. QED BY <2>2, <2>3, <2>5
<1>15. \E h \in DOMAIN sent : h <= i /\ Carries(h, maker'.prod)
  BY <1>9, <1>10 DEF InProgress
<1>16. maker'.psh = maker'.prod
  BY <1>9
<1>17. QED BY <1>11, <1>13, <1>14, <1>15, <1>16 DEF InProgress

LEMMA ExtendInOrder ==
  ASSUME IInv, InOrder, NEW i \in DOMAIN sent, Extend(i), late' = 0
  PROVE  InProgress(maker', i)
<1> DEFINE m == Current(i)
<1> DEFINE f == sent[i]
<1>1. HasData(i) /\ InSequence(m, f) /\ Arrives(i) /\ maker' = Linked(m, f)
  BY DEF Extend
<1>2. late = 0 /\ i > arrived /\ i \in Nat /\ arrived \in Nat
  BY <1>1, OrderedArrival
<1>3. MakerOK(m) /\ IsNext(m, f)
  BY <1>1, CurrentFacts
<1>4. /\ maker'.psh = m.psh /\ maker'.prod = m.prod /\ maker'.tail = f.block
      /\ maker'.nextfrag = m.nextfrag + 1 /\ maker'.maxfrags >= m.maxfrags
      /\ maker'.maxfrags \in Nat
  BY <1>1, <1>3, LinkedFacts DEF MakerOK, Maker
<1>5. /\ m.prod.frags \in Nat /\ m.nextfrag \in Nat /\ m.maxfrags \in Nat /\ f.block \in Nat
      /\ f.block = m.tail + 1 /\ m.tail \in Int
  BY <1>3, SizeFacts DEF MakerOK, Maker, IsNext, None
<1>6. Carries(i, m.prod)
  <2>1. f.type # "skipped" /\ f.product = m.prod
    BY <1>1, <1>3 DEF IsNext, HasData
  <2>2. QED BY <2>1 DEF Carries
<1>7. m.psh = m.prod /\ m.nextfrag <= m.tail + 1 /\ m.prod.frags < m.maxfrags
  <2>1. CASE f.type = "header"
    <3>1. m.psh = f.product /\ m.prod = f.product /\ m.tail = None /\ m.nextfrag = 0 /\ m.maxfrags > f.product.frags
      BY <1>1, <2>1, CurrentFacts
    <3>2. QED BY <1>5, <3>1 DEF None
  <2>2. CASE f.type = "block"
    <3>1. m = maker /\ maker.tail # None
      BY <1>1, <2>2, CurrentFacts
    <3>2. InProgress(maker, arrived)
      BY <1>2, <3>1 DEF InOrder
    <3>3. maker.psh = maker.prod /\ maker.nextfrag <= maker.tail + 1
      BY <1>2, <1>3, <2>2, <3>1, <3>2, NextInOrder
    <3>4. QED BY <3>1, <3>2, <3>3 DEF InProgress
  <2>3. QED BY <1>1, <2>1, <2>2 DEF HasData
<1>8. maker'.prod.frags < maker'.maxfrags /\ maker'.nextfrag <= maker'.tail + 1
  BY <1>4, <1>5, <1>7
<1>9. i <= i /\ Carries(i, maker'.prod) /\ maker'.psh = maker'.prod
  BY <1>2, <1>4, <1>6, <1>7
<1>10. QED BY <1>8, <1>9 DEF InProgress

\* A malformed header overwrites the header record: none of its product follows.
LEMMA RejectInOrder ==
  ASSUME IInv, InOrder, NEW i \in DOMAIN sent, RejectHeader(i), late' = 0, maker'.tail # None
  PROVE  InProgress(maker', i)
<1> DEFINE p == sent[i].product
<1>1. /\ sent[i].type = "header" /\ p.fault = "psh" /\ Arrives(i)
      /\ maker' = [maker EXCEPT !.psh = p]
  BY DEF RejectHeader
<1>2. late = 0 /\ i > arrived /\ i \in Nat /\ arrived \in Nat
  BY <1>1, OrderedArrival
<1>3. p \in Product /\ MakerOK(maker)
  BY FrameFacts DEF IInv
<1>4. /\ maker'.psh = p /\ maker'.prod = maker.prod /\ maker'.tail = maker.tail
      /\ maker'.nextfrag = maker.nextfrag /\ maker'.maxfrags = maker.maxfrags
  BY <1>1, <1>3, PshFacts
<1>5. InProgress(maker, arrived) /\ InHand(maker)
  BY <1>2, <1>4 DEF InOrder, IInv, HandIsKept
<1>6. InProgress(maker, i)
  BY <1>2, <1>5, InProgressLater DEF IInv
<1>7. PICK h \in DOMAIN sent : h <= arrived /\ Carries(h, maker.prod)
  BY <1>5 DEF InProgress
<1>8. p # maker.prod
  BY <1>1, <1>5 DEF InHand
<1>9. \A j \in DOMAIN sent : j > i => ~Carries(j, maker.prod)
  <2>1. SUFFICES ASSUME NEW j \in DOMAIN sent, j > i, Carries(j, maker.prod) PROVE FALSE
    OBVIOUS
  <2>2. h \in Nat /\ j \in Nat
    BY FrameFacts DEF IInv
  <2>3. h < i /\ i < j /\ h < j
    BY <1>2, <1>7, <2>1, <2>2
  <2>4. sent[i].product = maker.prod
    BY <1>1, <1>7, <2>1, <2>3, SenderFacts DEF IInv
  <2>5. QED BY <1>8, <2>4
<1> HIDE DEF p
<1>10. QED BY <1>4, <1>6, <1>9 DEF InProgress

\* The steps that leave no product in progress.
LEMMA NoneInProgress ==
  ASSUME IInv, NEW i \in DOMAIN sent, PuntHeader(i) \/ GiveUp(i) \/ Complete(i)
  PROVE  maker'.tail = None
<1>1. CASE PuntHeader(i)
  <2> DEFINE p == sent[i].product
  <2> DEFINE o == Opened(maker, p)
  <2>1. maker' = [o EXCEPT !.heapcount = 0]
    BY <1>1 DEF PuntHeader
  <2>2. p \in Product /\ MakerOK(maker)
    BY FrameFacts DEF IInv
  <2>3. MakerOK(o) /\ o.tail = None
    BY <2>2, OpenedFacts
  <2> HIDE DEF o
  <2>4. QED BY <2>1, <2>3 DEF MakerOK, Maker
<1>2. CASE GiveUp(i)
  <2> DEFINE m == Current(i)
  <2>1. HasData(i) /\ maker' = DsFree(DsAlloc(m))
    BY <1>2 DEF GiveUp
  <2>2. MakerOK(m)
    BY <2>1, CurrentFacts
  <2> HIDE DEF m
  <2>3. MakerOK(DsAlloc(m))
    BY <2>2, DsAllocFacts
  <2>4. QED BY <2>1, <2>3, DsFreeFacts
<1>3. CASE Complete(i)
  <2> DEFINE m == Current(i)
  <2> DEFINE f == sent[i]
  <2> DEFINE e == Finished(Linked(m, f))
  <2> DEFINE d == DsFree(e)
  <2>1. HasData(i) /\ InSequence(m, f) /\ maker' = [d EXCEPT !.png = FALSE]
    BY <1>3 DEF Complete
  <2>2. MakerOK(m) /\ IsNext(m, f)
    BY <2>1, CurrentFacts
  <2> HIDE DEF m, f
  <2>3. MakerOK(Linked(m, f))
    BY <2>2, LinkedFacts
  <2>4. MakerOK(e)
    BY <2>3, FinishedFacts
  <2> HIDE DEF e
  <2>5. MakerOK(d) /\ d.tail = None
    BY <2>4, DsFreeFacts
  <2> HIDE DEF d
  <2>6. QED BY <2>1, <2>5 DEF MakerOK, Maker
<1>4. QED BY <1>1, <1>2, <1>3

LEMMA InOrderStep ==
  ASSUME IInv, InOrder, [Next]_vars
  PROVE  InOrder'
<1>1. CASE UNCHANGED vars
  BY <1>1 DEF vars, network, InOrder, InProgress, Carries
<1>2. CASE Next
  <2>1. SUFFICES ASSUME late' = 0, maker'.tail # None PROVE InProgress(maker, arrived)'
    BY DEF InOrder
  <2>2. PICK i \in DOMAIN sent :
          \/ Skip(i) \/ RejectHeader(i) \/ PuntHeader(i) \/ SkipOrphan(i)
          \/ GiveUp(i) \/ Refuse(i) \/ Extend(i) \/ Complete(i)
    BY <1>2 DEF Next
  <2>3. Arrives(i)
    BY <2>2 DEF Skip, RejectHeader, PuntHeader, SkipOrphan, GiveUp, Refuse, Extend, Complete
  <2>4. late = 0 /\ i > arrived /\ arrived' = i /\ sent' = sent /\ i \in Nat /\ arrived \in Nat
    BY <2>1, <2>3, OrderedArrival
  <2>5. InProgress(maker', i)
    <3>1. CASE Skip(i) \/ SkipOrphan(i)
      <4>1. maker' = maker
        BY <3>1 DEF Skip, SkipOrphan
      <4>2. InProgress(maker, arrived)
        BY <2>1, <2>4, <4>1 DEF InOrder
      <4>3. InProgress(maker, i)
        BY <2>4, <4>2, InProgressLater DEF IInv
      <4>4. QED BY <4>1, <4>3
    <3>2. CASE RejectHeader(i)
      BY <2>1, <3>2, RejectInOrder
    <3>3. CASE PuntHeader(i) \/ GiveUp(i) \/ Complete(i)
      BY <2>1, <3>3, NoneInProgress
    <3>4. CASE Refuse(i)
      BY <2>1, <3>4, RefuseInOrder
    <3>5. CASE Extend(i)
      BY <2>1, <3>5, ExtendInOrder
    <3>6. QED BY <2>2, <3>1, <3>2, <3>3, <3>4, <3>5
  <2>6. QED BY <2>4, <2>5 DEF InProgress, Carries
<1>3. QED BY <1>1, <1>2

LEMMA OrderInvariance == Spec => [](IInv /\ InOrder)
<1>1. Init => InOrder
  BY DEF Init, InOrder
<1>2. IInv /\ InOrder /\ [Next]_vars => InOrder'
  BY InOrderStep
<1>3. QED BY Invariance, <1>1, <1>2, PTL DEF Spec

\* A product that is completed in order has its own header record.
LEMMA CompleteInOrder ==
  ASSUME IInv, InOrder, NEW i \in DOMAIN sent, Complete(i), late' = 0
  PROVE  \E q \in Entry : /\ queue' = queue \/ queue' = Append(queue, q)
                          /\ q.psh = q.product
<1> DEFINE m == Current(i)
<1> DEFINE f == sent[i]
<1> DEFINE k == Linked(m, f)
<1>1. /\ HasData(i) /\ InSequence(m, f) /\ IsLast(k, f) /\ Arrives(i)
      /\ queue' = queue \/ queue' = Append(queue, Made(k))
  BY DEF Complete
<1>2. late = 0 /\ i > arrived
  BY <1>1, OrderedArrival
<1>3. MakerOK(m) /\ InHand(m) /\ IsNext(m, f)
  BY <1>1, CurrentFacts
<1>4. m.psh = m.prod
  <2>1. CASE f.type = "header"
    BY <1>1, <2>1, CurrentFacts
  <2>2. CASE f.type = "block"
    <3>1. m = maker /\ maker.tail # None
      BY <1>1, <2>2, CurrentFacts
    <3>2. InProgress(maker, arrived)
      BY <1>2, <3>1 DEF InOrder
    <3>3. QED BY <1>2, <1>3, <2>2, <3>1, <3>2, NextInOrder
  <2>3. QED BY <1>1, <2>1, <2>2 DEF HasData
<1> HIDE DEF m, f
<1>5. MakerOK(k) /\ k.prod = m.prod
  BY <1>3, LinkedFacts
<1>6. IsLast(m, f)
  BY <1>1, <1>5 DEF IsLast
<1>7. Made(k).product = m.prod /\ Made(k).psh = m.psh
  BY <1>3, <1>6, MadeFacts
<1> HIDE DEF k
<1>8. Made(k) \in Entry
  BY <1>5, MadeType
<1>9. QED BY <1>1, <1>4, <1>7, <1>8

QueueIsOwn == queue \in Seq(Entry) /\ HeaderIsOwn

LEMMA OwnStep ==
  ASSUME IInv, InOrder, QueueIsOwn, QueueIsWhole', [Next]_vars
  PROVE  QueueIsOwn'
<1> SUFFICES ASSUME late' = 0
             PROVE  \A k \in DOMAIN queue' : queue'[k].psh = queue'[k].product
  BY DEF QueueIsWhole, QueueIsOwn, HeaderIsOwn
<1>1. /\ late = 0
      /\ \/ queue' = queue
         \/ \E q \in Entry : queue' = Append(queue, q) /\ q.psh = q.product
  <2>1. CASE UNCHANGED vars
    BY <2>1 DEF vars, network
  <2>2. CASE Next
    <3>1. PICK i \in DOMAIN sent :
            \/ Skip(i) \/ RejectHeader(i) \/ PuntHeader(i) \/ SkipOrphan(i)
            \/ GiveUp(i) \/ Refuse(i) \/ Extend(i) \/ Complete(i)
      BY <2>2 DEF Next
    <3>2. late = 0
      <4>1. Arrives(i)
        BY <3>1 DEF Skip, RejectHeader, PuntHeader, SkipOrphan, GiveUp, Refuse, Extend, Complete
      <4>2. QED BY <4>1, OrderedArrival
    <3>3. CASE Complete(i)
      BY <3>2, <3>3, CompleteInOrder
    <3>4. CASE ~Complete(i)
      BY <3>1, <3>2, <3>4, SkipStep, RejectHeaderStep, PuntHeaderStep, GiveUpStep, RefuseStep, ExtendStep
    <3>5. QED BY <3>3, <3>4
  <2>3. QED BY <2>1, <2>2
<1>2. queue \in Seq(Entry) /\ Len(queue) \in Nat /\ DOMAIN queue = 1..Len(queue)
  BY DEF QueueIsOwn
<1>3. \A k \in 1..Len(queue) : queue[k].psh = queue[k].product
  BY <1>1, <1>2 DEF QueueIsOwn, HeaderIsOwn
<1>4. CASE queue' = queue
  BY <1>2, <1>3, <1>4
<1>5. ASSUME NEW q \in Entry, queue' = Append(queue, q), q.psh = q.product
      PROVE  \A k \in DOMAIN queue' : queue'[k].psh = queue'[k].product
  <2>1. /\ queue' \in Seq(Entry) /\ Len(queue') = Len(queue) + 1
        /\ \A k \in 1..Len(queue) : queue'[k] = queue[k]
        /\ queue'[Len(queue) + 1] = q
    BY <1>2, <1>5, AppendProperties
  <2>2. DOMAIN queue' = 1..(Len(queue) + 1)
    BY <2>1
  <2>3. \A k \in 1..(Len(queue) + 1) : k \in 1..Len(queue) \/ k = Len(queue) + 1
    BY <1>2
  <2>4. QED BY <1>3, <1>5, <2>1, <2>2, <2>3
<1>6. QED BY <1>1, <1>4, <1>5

\* pmStart() keeps the header record of the product in progress until it is done
\* with it, as its comment says, if frames come in order.
THEOREM OwnHeaders == Spec => []HeaderIsOwn
<1>1. Init => QueueIsWhole /\ QueueIsOwn
  <2>1. SUFFICES ASSUME Init PROVE QueueIsWhole /\ QueueIsOwn
    OBVIOUS
  <2>2. queue = <<>>
    BY <2>1 DEF Init
  <2>3. queue \in Seq(Entry) /\ DOMAIN queue = {}
    BY <2>2
  <2>4. QED BY <2>3 DEF QueueIsWhole, ProductsAreWhole, QueueIsOwn, HeaderIsOwn
<1>2. IInv /\ InOrder /\ QueueIsWhole /\ QueueIsOwn /\ [Next]_vars => (QueueIsWhole /\ QueueIsOwn)'
  BY QueueStep, OwnStep
<1>3. QueueIsOwn => HeaderIsOwn
  BY DEF QueueIsOwn
<1>4. QED BY OrderInvariance, <1>1, <1>2, <1>3, PTL DEF Spec

-----------------------------------------------------------------------------
(***************************************************************************)
(* The arena is not moved under the fragments of the product in progress.  *)
(***************************************************************************)
\* One more fragment is allocated, and no more room if there is some left.
LEMMA OneFragment ==
  ASSUME IInv, NEW i \in DOMAIN sent, GiveUp(i) \/ Refuse(i) \/ Extend(i) \/ Complete(i)
  PROVE  LET m == Current(i)
         IN  /\ HasData(i) /\ Arrives(i)
             /\ maker'.prod = m.prod
             /\ m.nextfrag < m.maxfrags => maker'.maxfrags = m.maxfrags
<1> DEFINE m == Current(i)
<1> DEFINE f == sent[i]
<1>1. HasData(i) /\ Arrives(i)
  BY DEF GiveUp, Refuse, Extend, Complete
<1>2. MakerOK(m) /\ (InSequence(m, f) => IsNext(m, f))
  BY <1>1, CurrentFacts
<1>3. CASE GiveUp(i)
  <2>1. maker' = DsFree(DsAlloc(m))
    BY <1>3 DEF GiveUp
  <2> HIDE DEF m
  <2>2. /\ MakerOK(DsAlloc(m)) /\ DsAlloc(m).prod = m.prod
        /\ m.nextfrag < m.maxfrags => DsAlloc(m).maxfrags = m.maxfrags
    BY <1>2, DsAllocFacts DEF SameData
  <2>3. /\ maker'.prod = DsAlloc(m).prod
        /\ maker'.maxfrags = DsAlloc(m).maxfrags
    BY <2>1, <2>2, DsFreeFacts DEF SameData
  <2>4. QED BY <1>1, <2>2, <2>3 DEF m
<1>4. CASE Refuse(i)
  <2>1. maker' = DsAlloc(m)
    BY <1>4 DEF Refuse
  <2> HIDE DEF m
  <2>2. QED BY <1>1, <1>2, <2>1, DsAllocFacts DEF SameData, m
<1>5. CASE Extend(i)
  <2>1. maker' = Linked(m, f) /\ IsNext(m, f)
    BY <1>2, <1>5 DEF Extend
  <2> HIDE DEF m, f
  <2>2. QED BY <1>1, <1>2, <2>1, LinkedFacts DEF m
<1>6. CASE Complete(i)
  <2> DEFINE k == Linked(m, f)
  <2> DEFINE e == Finished(k)
  <2> DEFINE d == DsFree(e)
  <2>1. IsNext(m, f) /\ maker' = [d EXCEPT !.png = FALSE]
    BY <1>2, <1>6 DEF Complete
  <2> HIDE DEF m, f
  <2>2. /\ MakerOK(k) /\ k.prod = m.prod
        /\ m.nextfrag < m.maxfrags => k.maxfrags = m.maxfrags
    BY <1>2, <2>1, LinkedFacts
  <2> HIDE DEF k
  <2>3. MakerOK(e) /\ e.prod = k.prod /\ e.maxfrags = k.maxfrags
    BY <2>2, FinishedFacts
  <2> HIDE DEF e
  <2>4. MakerOK(d) /\ d.prod = e.prod /\ d.maxfrags = e.maxfrags
    BY <2>3, DsFreeFacts DEF SameData
  <2> HIDE DEF d
  <2>5. maker'.prod = d.prod /\ maker'.maxfrags = d.maxfrags
    BY <2>1, <2>4 DEF MakerOK, Maker
  <2>6. QED BY <1>1, <2>2, <2>3, <2>4, <2>5 DEF m
<1>7. QED BY <1>3, <1>4, <1>5, <1>6

LEMMA StaysPut ==
  ASSUME IInv, InOrder, Next, late' = 0, maker'.maxfrags # maker.maxfrags, maker.tail # None
  PROVE  maker'.prod # maker.prod
<1>1. PICK i \in DOMAIN sent :
        \/ Skip(i) \/ RejectHeader(i) \/ PuntHeader(i) \/ SkipOrphan(i)
        \/ GiveUp(i) \/ Refuse(i) \/ Extend(i) \/ Complete(i)
  BY DEF Next
<1> DEFINE p == sent[i].product
<1>2. p \in Product /\ MakerOK(maker)
  BY FrameFacts DEF IInv
<1>3. late = 0 /\ i > arrived
  <2>1. Arrives(i)
    BY <1>1 DEF Skip, RejectHeader, PuntHeader, SkipOrphan, GiveUp, Refuse, Extend, Complete
  <2>2. QED BY <2>1, OrderedArrival
<1>4. InProgress(maker, arrived)
  BY <1>3 DEF InOrder
<1>5. ~Skip(i) /\ ~SkipOrphan(i) /\ ~RejectHeader(i)
  <2>1. ~Skip(i) /\ ~SkipOrphan(i)
    BY DEF Skip, SkipOrphan
  <2>2. ASSUME RejectHeader(i) PROVE FALSE
    <3>1. maker' = [maker EXCEPT !.psh = p]
      BY <2>2 DEF RejectHeader
    <3>2. maker'.maxfrags = maker.maxfrags
      BY <1>2, <3>1 DEF MakerOK, Maker
    <3>3. QED BY <3>2
  <2>3. QED BY <2>1, <2>2
<1>6. CASE PuntHeader(i)
  <2> DEFINE o == Opened(maker, p)
  <2>1. sent[i].type = "header" /\ maker' = [o EXCEPT !.heapcount = 0]
    BY <1>6 DEF PuntHeader
  <2>2. MakerOK(o) /\ o.prod = p
    BY <1>2, OpenedFacts
  <2> HIDE DEF o
  <2>3. maker'.prod = p
    BY <2>1, <2>2 DEF MakerOK, Maker
  <2>4. QED BY <1>3, <1>4, <2>1, <2>3, AnotherHeader
<1>7. CASE GiveUp(i) \/ Refuse(i) \/ Extend(i) \/ Complete(i)
  <2> DEFINE m == Current(i)
  <2>1. /\ HasData(i) /\ maker'.prod = m.prod
        /\ m.nextfrag < m.maxfrags => maker'.maxfrags = m.maxfrags
    BY <1>7, OneFragment
  <2>2. \/ sent[i].type = "header" /\ m.prod = p
        \/ sent[i].type = "block" /\ m = maker
    BY <2>1, CurrentFacts
  <2>3. CASE sent[i].type = "header" /\ m.prod = p
    BY <1>3, <1>4, <2>1, <2>3, AnotherHeader
  <2>4. CASE sent[i].type = "block" /\ m = maker
    BY <1>4, <2>1, <2>4, RoomForOne
  <2>5. QED BY <2>2, <2>3, <2>4
<1>8. QED BY <1>1, <1>5, <1>6, <1>7

\* ds_alloc() never moves the arena under the fragments of a product in progress,
\* however many fragments there are, if frames come in order: ds_init() has made
\* room for the product, and one more.
THEOREM ArenaStaysPut == Spec => FragmentsStayPut
<1>1. IInv /\ InOrder /\ [Next]_vars =>
        [late' = 0 /\ maker'.maxfrags # maker.maxfrags => maker.tail = None \/ maker'.prod # maker.prod]_vars
  BY StaysPut
<1>2. QED BY OrderInvariance, <1>1, PTL DEF Spec, FragmentsStayPut

-----------------------------------------------------------------------------
(***************************************************************************)
(* The packet counts, when the sequence numbers of the frames sent do not  *)
(* step from one half of their range to the other but from the last one    *)
(* to 0, and are fewer than half of them all.                              *)
(***************************************************************************)
SeqnosInStep ==
    /\ FirstSeqno < SeqSize
    /\ \A s \in Transmissions :
          /\ Len(s) <= (SeqSize - 1) \div 2
          /\ \/ FirstSeqno + Len(s) < SeqSize \div 2
             \/ /\ FirstSeqno + 1 >= SeqSize \div 2
                /\ FirstSeqno + Len(s) < SeqSize + SeqSize \div 2

LEMMA ModShift ==
  ASSUME NEW n \in Nat, NEW y \in 0..(n - 1)
  PROVE  y % n = y /\ (y - n) % n = y
OBVIOUS

LEMMA HalfFacts ==
  ASSUME NEW n \in Nat, n >= 1
  PROVE  /\ n \div 2 \in Nat /\ n \div 2 < n
         /\ (n - 1) \div 2 \in Nat /\ (n - 1) \div 2 + (n - 1) \div 2 < n
OBVIOUS

\* The numbers go up by 1 in an unsigned long as well, but once, from the last to 0.
LEMMA WidenedFacts ==
  ASSUME SeqnosInStep, TypeOK, NEW i \in 1..Len(sent)
  PROVE  \/ FirstSeqno + Len(sent) < SeqSize \div 2 /\ Widened(Seqno(i)) = FirstSeqno + i
         \/ /\ FirstSeqno + 1 >= SeqSize \div 2
            /\ FirstSeqno + i < SeqSize => Widened(Seqno(i)) = FirstSeqno + i + LongSize - SeqSize
            /\ FirstSeqno + i >= SeqSize => Widened(Seqno(i)) = (FirstSeqno + i) - SeqSize
<1> DEFINE u == FirstSeqno + i
<1> DEFINE half == SeqSize \div 2
<1> DEFINE w == Widened(Seqno(i))
<1>1. /\ FirstSeqno \in Nat /\ SeqSize \in Nat /\ SeqSize >= 1 /\ LongSize \in Nat
      /\ SeqSize <= LongSize /\ FirstSeqno < SeqSize
  BY NumberAssumption DEF SeqnosInStep
<1>2. Len(sent) \in Nat /\ i \in Nat /\ i >= 1 /\ i <= Len(sent)
  BY TransmissionAssumption DEF TypeOK
<1>3. half \in Nat /\ half < SeqSize
  BY <1>1, HalfFacts
<1>4. \/ FirstSeqno + Len(sent) < half
      \/ FirstSeqno + 1 >= half /\ FirstSeqno + Len(sent) < SeqSize + half
  BY DEF SeqnosInStep, TypeOK
<1>5. Seqno(i) = u % SeqSize
  BY DEF Seqno
<1>6. \A n : Widened(n) = IF n >= half THEN (n + LongSize - SeqSize) % LongSize ELSE n
  BY DEF Widened
<1>7. u \in Nat /\ u <= FirstSeqno + Len(sent) /\ u >= FirstSeqno + 1
  BY <1>1, <1>2
<1>7a. SUFFICES \/ FirstSeqno + Len(sent) < half /\ w = u
                \/ /\ FirstSeqno + 1 >= half
                   /\ u < SeqSize => w = u + LongSize - SeqSize
                   /\ u >= SeqSize => w = u - SeqSize
  BY Zenon
<1>7b. w = Widened(Seqno(i))
  OBVIOUS
<1> HIDE DEF half, u, w
<1>8. CASE u < half
  <2>1. u \in 0..(SeqSize - 1)
    BY <1>1, <1>3, <1>7, <1>8
  <2>2. Seqno(i) = u
    BY <1>1, <1>5, <2>1, ModShift
  <2>3. w = u
    BY <1>3, <1>6, <1>7, <1>7b, <1>8, <2>2
  <2>4. ~(FirstSeqno + 1 >= half)
    BY <1>1, <1>3, <1>7, <1>8
  <2>5. QED BY <1>4, <2>3, <2>4
<1>9. CASE u >= half /\ u < SeqSize
  <2>1. u \in 0..(SeqSize - 1)
    BY <1>1, <1>7, <1>9
  <2>2. Seqno(i) = u
    BY <1>1, <1>5, <2>1, ModShift
  <2> DEFINE v == u + LongSize - SeqSize
  <2>3. v \in 0..(LongSize - 1)
    BY <1>1, <2>1
  <2>4. w = v % LongSize
    BY <1>6, <1>7b, <1>9, <2>2
  <2> HIDE DEF v
  <2>5. w = v
    BY <1>1, <2>3, <2>4, ModShift
  <2>6. FirstSeqno + 1 >= half
    BY <1>1, <1>2, <1>3, <1>4, <1>7, <1>9
  <2>7. ~(u >= SeqSize)
    BY <1>1, <1>7, <1>9
  <2>8. QED BY <2>5, <2>6, <2>7 DEF v
<1>10. CASE u >= SeqSize
  <2>1. FirstSeqno + 1 >= half /\ u < SeqSize + half
    BY <1>1, <1>2, <1>3, <1>4, <1>7, <1>10
  <2> DEFINE y == u - SeqSize
  <2>2. y \in Nat /\ y < half /\ y \in 0..(SeqSize - 1) /\ u = y + SeqSize
    BY <1>1, <1>3, <1>7, <1>10, <2>1
  <2> HIDE DEF y
  <2>3. (y + SeqSize) % SeqSize = y
    <3>1. \A n \in Nat : \A x \in 0..(n - 1) : (x + n) % n = x
      OBVIOUS
    <3>2. QED BY <1>1, <2>2, <3>1
  <2>4. Seqno(i) = y
    BY <1>5, <2>2, <2>3
  <2>5. w = y
    BY <1>3, <1>6, <1>7b, <2>2, <2>4
  <2>6. ~(u < SeqSize)
    BY <1>1, <1>7, <1>10
  <2>7. w = u - SeqSize
    BY <2>5 DEF y
  <2>8. QED BY <2>1, <2>6, <2>7
<1>11. QED BY <1>1, <1>3, <1>7, <1>8, <1>9, <1>10

\* The difference of the numbers of two frames.
LEMMA DeltaFacts ==
  ASSUME SeqnosInStep, TypeOK, NEW i \in 1..Len(sent), NEW n \in 1..Len(sent),
         lastSeqno = Widened(Seqno(n))
  PROVE  /\ i >= n => Delta(i) = i - n
         /\ i < n => Delta(i) = LongSize + i - n
<1> DEFINE w == Widened(Seqno(i))
<1> DEFINE v == Widened(Seqno(n))
<1> DEFINE half == SeqSize \div 2
<1>1. /\ FirstSeqno \in Nat /\ SeqSize \in Nat /\ SeqSize >= 1 /\ LongSize \in Nat
      /\ SeqSize <= LongSize
  BY NumberAssumption
<1>2. Len(sent) \in Nat /\ i \in Nat /\ n \in Nat /\ i <= Len(sent) /\ n <= Len(sent) /\ i >= 1 /\ n >= 1
  BY TransmissionAssumption DEF TypeOK
<1>3. half \in Nat
  BY <1>1, HalfFacts
<1>4. Len(sent) < LongSize
  <2>1. Len(sent) <= (SeqSize - 1) \div 2
    BY DEF SeqnosInStep, TypeOK
  <2> DEFINE h == (SeqSize - 1) \div 2
  <2>2. h \in Nat /\ h + h < SeqSize
    BY <1>1, HalfFacts
  <2>3. Len(sent) <= h
    BY <2>1
  <2> HIDE DEF h
  <2>4. QED BY <1>1, <1>2, <2>2, <2>3
<1>5. \/ FirstSeqno + Len(sent) < half /\ w = FirstSeqno + i
      \/ /\ FirstSeqno + 1 >= half
         /\ FirstSeqno + i < SeqSize => w = FirstSeqno + i + LongSize - SeqSize
         /\ FirstSeqno + i >= SeqSize => w = (FirstSeqno + i) - SeqSize
  BY WidenedFacts, Zenon
<1>6. \/ FirstSeqno + Len(sent) < half /\ v = FirstSeqno + n
      \/ /\ FirstSeqno + 1 >= half
         /\ FirstSeqno + n < SeqSize => v = FirstSeqno + n + LongSize - SeqSize
         /\ FirstSeqno + n >= SeqSize => v = (FirstSeqno + n) - SeqSize
  BY WidenedFacts, Zenon
<1>7. Delta(i) = (w - v) % LongSize
  BY DEF Delta
<1> HIDE DEF half, w, v
<1>8. /\ i >= n => w - v = i - n \/ w - v = (i - n) - LongSize
      /\ i < n => w - v = (LongSize + i - n) \/ w - v = (LongSize + i - n) - LongSize
  BY <1>1, <1>2, <1>3, <1>5, <1>6
<1>9. CASE i >= n
  <2> DEFINE y == i - n
  <2>1. y \in 0..(LongSize - 1) /\ (w - v = y \/ w - v = y - LongSize)
    BY <1>1, <1>2, <1>4, <1>8, <1>9
  <2> HIDE DEF y
  <2>2. Delta(i) = y
    BY <1>1, <1>7, <2>1, ModShift
  <2>3. ~(i < n)
    BY <1>2, <1>9
  <2>4. QED BY <2>2, <2>3 DEF y
<1>10. CASE i < n
  <2> DEFINE y == LongSize + i - n
  <2>1. y \in 0..(LongSize - 1) /\ (w - v = y \/ w - v = y - LongSize)
    BY <1>1, <1>2, <1>4, <1>8, <1>10
  <2> HIDE DEF y
  <2>2. Delta(i) = y
    BY <1>1, <1>7, <2>1, ModShift
  <2>3. ~(i >= n)
    BY <1>2, <1>10
  <2>4. QED BY <2>2, <2>3 DEF y
<1>11. QED BY <1>2, <1>9, <1>10

\* The last number is that of a frame that has come since, of the last one if they
\* come in order.
CountsAreKept ==
    /\ CountsAddUp
    /\ lastRunno # None =>
          \E n \in 1..Len(sent) : /\ lastSeqno = Widened(Seqno(n)) /\ n <= since.top
                                  /\ late = 0 => n = arrived

LEMMA CountsStep ==
  ASSUME SeqnosInStep, IInv, CountsAreKept, NEW i \in DOMAIN sent, Arrives(i)
  PROVE  CountsAreKept'
<1> DEFINE total == npackets + nmissed
<1> DEFINE at == since.at
<1> DEFINE counted == since.counted
<1> DEFINE top == since.top
<1>1. /\ i \in Nat /\ i \in 1..Len(sent) /\ Len(sent) \in Nat /\ sent[i].runno \in Nat /\ sent' = sent
      /\ lastRunno' = sent[i].runno /\ lastSeqno' = Widened(Seqno(i))
  BY FrameFacts DEF IInv, Arrives, Counted
<1>2. /\ since \in [at : Nat, counted : Nat, top : Nat] /\ since' \in [at : Nat, counted : Nat, top : Nat]
      /\ npackets \in Nat /\ nmissed \in Nat /\ npackets' \in Nat /\ nmissed' \in Nat
      /\ late \in Nat /\ arrived \in Nat /\ arrived' \in Nat
  <2>1. /\ since' \in [at : Nat, counted : Nat, top : Nat] /\ arrived' \in 0..Len(sent)
        /\ npackets' \in Nat /\ nmissed' \in Nat
    BY ArrivesType
  <2>2. /\ since \in [at : Nat, counted : Nat, top : Nat] /\ arrived \in 0..Len(sent)
        /\ npackets \in Nat /\ nmissed \in Nat /\ late \in 0..MaxLate /\ MaxLate \in Nat
    BY NumberAssumption DEF IInv, TypeOK
  <2>3. QED BY <1>1, <2>1, <2>2
<1>3. at \in Nat /\ counted \in Nat /\ top \in Nat /\ total \in Nat /\ total' \in Nat
  <2>1. at \in Nat /\ counted \in Nat /\ top \in Nat
    BY <1>2
  <2>2. npackets \in Nat /\ nmissed \in Nat
    BY <1>2
  <2>3. npackets' \in Nat /\ nmissed' \in Nat
    BY <1>2
  <2>4. total \in Nat
    BY <2>2
  <2>5. npackets' + nmissed' \in Nat
    <3>1. \A x, y \in Nat : x + y \in Nat
      OBVIOUS
    <3>2. QED BY <2>3, <3>1, Zenon
  <2>5a. total' = npackets' + nmissed'
    OBVIOUS
  <2> HIDE DEF at, counted, top, total
  <2>6. QED BY <2>1, <2>4, <2>5, <2>5a
<1>4. late' = 0 => late = 0 /\ i > arrived /\ arrived' = i
  BY OrderedArrival
<1>5. /\ total >= counted + top - at
      /\ late = 0 => total = counted + arrived - at
  BY DEF CountsAreKept, CountsAddUp
<1>6. CASE lastRunno # sent[i].runno
  <2>1. /\ since' = [at |-> i, counted |-> total, top |-> i]
        /\ npackets' = npackets /\ nmissed' = nmissed
    BY <1>6 DEF Arrives, Counted
  <2>2. since'.at = i /\ since'.counted = total /\ since'.top = i /\ total' = total
    BY <2>1
  <2> HIDE DEF total
  <2>3. /\ total' >= since'.counted + since'.top - since'.at
        /\ late' = 0 => total' = since'.counted + arrived' - since'.at
    BY <1>1, <1>3, <1>4, <2>2
  <2>4. CountsAddUp'
    BY <2>3 DEF CountsAddUp, total
  <2>5. i <= since'.top
    BY <1>1, <2>2
  <2>6. QED BY <1>1, <1>4, <2>4, <2>5 DEF CountsAreKept
<1>7. CASE lastRunno = sent[i].runno
  <2>1. since' = [since EXCEPT !.top = IF i > @ THEN i ELSE @]
    BY <1>7 DEF Arrives, Counted
  <2>2. since'.at = at /\ since'.counted = counted /\ since'.top = IF i > top THEN i ELSE top
    BY <1>2, <2>1
  <2>3. lastRunno # None
    BY <1>1, <1>7 DEF None
  <2>4. PICK n \in 1..Len(sent) : /\ lastSeqno = Widened(Seqno(n)) /\ n <= top
                                  /\ late = 0 => n = arrived
    BY <2>3 DEF CountsAreKept
  <2>5. n \in Nat /\ n <= Len(sent) /\ i <= Len(sent) /\ 1 <= i
    BY <1>1, <2>4
  <2>6. /\ i >= n => Delta(i) = i - n
        /\ i < n => Delta(i) = LongSize + i - n
    BY <1>1, <2>4, DeltaFacts DEF IInv
  <2> DEFINE d == Delta(i)
  <2> DEFINE h == (SeqSize - 1) \div 2
  <2>7. h \in Nat /\ Len(sent) <= h /\ h + h < LongSize /\ LongSize \in Nat
    <3>1. SeqSize \in Nat /\ SeqSize >= 1 /\ LongSize \in Nat /\ SeqSize <= LongSize
      BY NumberAssumption
    <3>2. h \in Nat /\ h + h < SeqSize
      BY <3>1, HalfFacts
    <3>3. Len(sent) <= h
      BY DEF SeqnosInStep, IInv, TypeOK
    <3> HIDE DEF h
    <3>4. QED BY <3>1, <3>2, <3>3
  <2>8. IsRetrograde(d) <=> d = 0 \/ h < d
    BY DEF IsRetrograde
  <2>9. IF IsRetrograde(d) THEN npackets' = npackets /\ nmissed' = nmissed
        ELSE nmissed' = nmissed + (d - 1) /\ npackets' = npackets + 1
    BY <1>7 DEF Arrives, Counted, Gap
  <2> HIDE DEF d, h
  <2>10. i > n => total' = total + (i - n)
    <3>1. SUFFICES ASSUME i > n PROVE total' = total + (i - n)
      OBVIOUS
    <3>2. d = i - n /\ d \in Nat /\ d # 0 /\ ~(h < d)
      BY <1>1, <2>5, <2>6, <2>7, <3>1 DEF d
    <3>3. nmissed' = nmissed + (d - 1) /\ npackets' = npackets + 1
      BY <2>8, <2>9, <3>2
    <3>4. npackets \in Nat /\ nmissed \in Nat
      BY <1>2
    <3>5. npackets' + nmissed' = npackets + nmissed + d
      BY <3>2, <3>3, <3>4
    <3>6. QED BY <3>2, <3>5
  <2>11. i <= n => total' = total
    <3>1. SUFFICES ASSUME i <= n PROVE total' = total
      OBVIOUS
    <3>2. d = 0 \/ h < d
      BY <1>1, <2>5, <2>6, <2>7, <3>1 DEF d
    <3>3. QED BY <2>8, <2>9, <3>2
  <2> HIDE DEF total, at, counted, top
  <2>11a. total' \in Nat /\ total \in Nat /\ at \in Nat /\ counted \in Nat /\ top \in Nat /\ i \in Nat
    BY <1>1, <1>3
  <2>12. total' >= since'.counted + since'.top - since'.at
    <3>1. total' >= counted + (IF i > top THEN i ELSE top) - at
      BY <1>5, <2>4, <2>5, <2>10, <2>11, <2>11a
    <3>2. QED BY <2>2, <3>1
  <2>13. late' = 0 => total' = since'.counted + arrived' - since'.at
    <3>1. SUFFICES ASSUME late' = 0 PROVE total' = counted + arrived' - at
      BY <2>2
    <3>2. arrived \in Nat /\ arrived' = i /\ i > n /\ n = arrived /\ total = counted + arrived - at
      BY <1>2, <1>4, <1>5, <2>4, <3>1
    <3>3. total' = total + (i - arrived)
      BY <2>10, <3>2
    <3>4. QED BY <2>11a, <3>2, <3>3
  <2>14. CountsAddUp'
    BY <2>12, <2>13 DEF CountsAddUp, total
  <2>15. i <= since'.top
    BY <1>1, <1>3, <2>2
  <2>16. QED BY <1>1, <1>4, <2>14, <2>15 DEF CountsAreKept
<1>8. QED BY <1>6, <1>7

\* The packets counted and those counted as missed are no fewer than the frames
\* since the product-maker's counters were started by a run number, and no more if
\* frames come in order; also when the sequence number starts at 0 again.
THEOREM NoLossIsHidden ==
  ASSUME SeqnosInStep
  PROVE  Spec => []CountsAddUp
<1>1. Init => CountsAreKept
  <2>1. SUFFICES ASSUME Init PROVE CountsAreKept
    OBVIOUS
  <2>2. /\ lastRunno = None /\ npackets = 0 /\ nmissed = 0 /\ arrived = 0
        /\ since.at = 0 /\ since.counted = 0 /\ since.top = 0
    BY <2>1 DEF Init
  <2>3. CountsAddUp
    BY <2>2 DEF CountsAddUp
  <2>4. QED BY <2>2, <2>3 DEF CountsAreKept
<1>2. IInv /\ CountsAreKept /\ [Next]_vars => CountsAreKept'
  <2>1. SUFFICES ASSUME IInv, CountsAreKept, [Next]_vars PROVE CountsAreKept'
    OBVIOUS
  <2>2. CASE UNCHANGED vars
    BY <2>1, <2>2 DEF vars, network, counts, CountsAreKept, CountsAddUp
  <2>3. CASE Next
    <3>1. PICK i \in DOMAIN sent : Arrives(i)
      BY <2>3 DEF Next, Skip, RejectHeader, PuntHeader, SkipOrphan, GiveUp, Refuse, Extend, Complete
    <3>2. QED BY <2>1, <3>1, CountsStep
  <2>4. QED BY <2>1, <2>2, <2>3
<1>3. CountsAreKept => CountsAddUp
  BY DEF CountsAreKept
<1>4. QED BY Invariance, <1>1, <1>2, <1>3, PTL DEF Spec

-----------------------------------------------------------------------------
(***************************************************************************)
(* No product is lost when no frame is.  For that the sender has to send   *)
(* each product from its first block to its last, before it begins another *)
(* one; and no two products may have the same data, or lpqInsert() takes   *)
(* the second for a duplicate of the first.                                *)
(***************************************************************************)
IsFinal(f) == f.block + 1 = Len(f.product.sizes)

SentWhole ==
    \A s \in Transmissions : \A i \in DOMAIN s : s[i].type # "skipped" =>
        /\ s[i].block > 0 =>
              \E h \in DOMAIN s : /\ h < i /\ s[h].type # "skipped"
                                  /\ s[h].product = s[i].product
                                  /\ s[h].block + 1 = s[i].block
        /\ \A h \in DOMAIN s :
              h < i /\ s[h].type # "skipped" /\ s[h].product # s[i].product =>
                 \E k \in DOMAIN s : /\ k < i /\ s[k].type # "skipped"
                                     /\ s[k].product = s[h].product /\ IsFinal(s[k])

DataDiffer == \A p, q \in Product : Whole(p) = Whole(q) => p = q

\* The size of the heap that prodalloc() gives to a product.
Room(p) == (IF p.frags = 0 THEN 1 ELSE p.frags) * FragRoom + ExtraRoom

LEMMA RoomType == ASSUME NEW p \in Product PROVE Room(p) \in Nat
<1>1. FragRoom \in Nat /\ ExtraRoom \in Nat /\ p.frags \in Nat
  BY NumberAssumption, SizeFacts
<1>2. \A x, y \in Nat : x * y \in Nat
  OBVIOUS
<1>3. QED BY <1>1, <1>2 DEF Room

\* A block more is more data.
LEMMA BlocksGrow ==
  ASSUME NEW p \in Product, NEW n \in 0..Len(p.sizes), NEW k \in 0..n
  PROVE  Len(Blocks(p, k)) <= Len(Blocks(p, n))
<1> DEFINE S == {j \in Nat : k + j <= Len(p.sizes) => Len(Blocks(p, k)) <= Len(Blocks(p, k + j))}
<1>1. Len(p.sizes) \in Nat /\ n \in Nat /\ k \in Nat /\ n - k \in Nat /\ k + (n - k) = n
  BY SizeFacts
<1>2. \A j \in 0..Len(p.sizes) : Len(Blocks(p, j)) \in Nat
  BY BlocksType
<1>3. 0 \in S
  <2>1. k + 0 = k /\ Len(Blocks(p, k)) \in Nat
    BY <1>1, <1>2
  <2>2. QED BY <2>1
<1>4. ASSUME NEW j \in Nat, j \in S PROVE j + 1 \in S
  <2>1. SUFFICES ASSUME k + (j + 1) <= Len(p.sizes)
                 PROVE  Len(Blocks(p, k)) <= Len(Blocks(p, k + (j + 1)))
    OBVIOUS
  <2> DEFINE m == k + j
  <2>2. /\ m \in Nat /\ m < Len(p.sizes) /\ k + (j + 1) = m + 1
        /\ m \in 0..Len(p.sizes) /\ k \in 0..Len(p.sizes)
    BY <1>1, <2>1
  <2>3. Len(Blocks(p, k)) <= Len(Blocks(p, m))
    BY <1>4, <2>2
  <2> HIDE DEF m
  <2>4. Blocks(p, m + 1) = Blocks(p, m) \o Data(p, m)
    BY <2>2, BlocksFacts
  <2>5. Blocks(p, m) \in Seq(CellSet) /\ Data(p, m) \in Seq(CellSet)
    BY <2>2, BlocksType, DataType
  <2> DEFINE u == Blocks(p, m)
             v == Data(p, m)
  <2> HIDE DEF u, v
  <2>6. Len(u \o v) = Len(u) + Len(v) /\ Len(u) \in Nat /\ Len(v) \in Nat
    BY <2>5 DEF u, v
  <2>7. Len(Blocks(p, m + 1)) = Len(u \o v)
    BY <2>4, Zenon DEF u, v
  <2>8. Len(Blocks(p, k)) <= Len(u) /\ Len(Blocks(p, k)) \in Nat
    BY <1>2, <2>2, <2>3 DEF u
  <2>9. Len(Blocks(p, k)) <= Len(Blocks(p, m + 1))
    BY <2>6, <2>7, <2>8
  <2>10. QED BY <2>2, <2>9
<1>5. \A j \in 0..(n - k) : j \in S
  <2> HIDE DEF S
  <2>1. \A j \in Nat : j < n - k /\ j \in S => j + 1 \in S
    BY <1>4
  <2>2. QED BY <1>1, <1>3, <2>1, InductionUpTo
<1>6. n - k \in S
  BY <1>1, <1>5
<1>7. n <= Len(p.sizes)
  BY <1>1
<1>8. QED BY <1>1, <1>6, <1>7

\* What is on the heap of a text, with the next block, is as long as that much of the
\* whole product; the last block makes it as long as all but the trailer.
LEMMA TextLength ==
  ASSUME NEW p \in Product, p.kind = "text", NEW b \in Nat, b < Len(p.sizes)
  PROVE  LET head == 1 + Len(Blocks(p, b))
             last == Len(p.sizes) - 1
         IN  /\ head \in Nat /\ Len(Whole(p)) \in Nat
             /\ Len(Data(p, b)) \in Nat /\ Len(Stripped(Data(p, b))) \in Nat
             /\ b # last => head + Len(Data(p, b)) <= Len(Whole(p)) - 1
             /\ b = last => head + Len(Stripped(Data(p, b))) = Len(Whole(p)) - 1
<1> DEFINE L == Len(p.sizes)
           last == L - 1
           H == <<FosHeader(p)>>
           T == <<FosTrailer>>
           U == Blocks(p, last)
           D == Data(p, last)
           S == Stripped(D)
<1>1. L \in Nat /\ L >= 1 /\ last \in Nat /\ last < L /\ last \in 0..L /\ b <= last /\ b \in 0..L
  BY SizeFacts
<1>2. H \in Seq(CellSet) /\ Len(H) = 1 /\ T \in Seq(CellSet) /\ Len(T) = 1
  <2>1. FosHeader(p) \in CellSet /\ FosTrailer \in CellSet
    BY CellTypes
  <2>2. QED BY <2>1
<1>3. U \in Seq(CellSet)
  BY <1>1, BlocksType
<1>4. D \in Seq(CellSet) /\ Len(D) >= 1
  BY <1>1, DataType
<1>5. S \in Seq(CellSet)
  BY <1>4, StrippedType
<1>6. Whole(p) = ((H \o U) \o S) \o T
  BY DEF Whole
<1>7. Data(p, b) \in Seq(CellSet) /\ Len(Data(p, b)) \in Nat /\ Len(Data(p, b)) >= 1
  BY DataType
<1>8. Stripped(Data(p, b)) \in Seq(CellSet)
  BY <1>7, StrippedType
<1>9. Blocks(p, b) \in Seq(CellSet) /\ Blocks(p, b + 1) = Blocks(p, b) \o Data(p, b)
  BY <1>1, BlocksType, BlocksFacts
<1>10. b # last => Len(Blocks(p, b + 1)) <= Len(U)
  <2>1. SUFFICES ASSUME b # last PROVE Len(Blocks(p, b + 1)) <= Len(U)
    OBVIOUS
  <2> DEFINE next == b + 1
  <2>2. last \in 0..Len(p.sizes)
    BY <1>1
  <2> HIDE DEF last, L
  <2>3. next \in 0..last
    BY <1>1, <2>1
  <2> HIDE DEF next
  <2>4. Len(Blocks(p, next)) <= Len(Blocks(p, last))
    BY <2>2, <2>3, BlocksGrow
  <2>5. QED BY <2>4 DEF next
<1> HIDE DEF L, last, H, T, U, D, S
<1>11. Len(((H \o U) \o S) \o T) = 1 + Len(U) + Len(S) + 1 /\ Len(U) \in Nat /\ Len(S) \in Nat
  <2>1. H \o U \in Seq(CellSet) /\ Len(H \o U) = Len(H) + Len(U)
    BY <1>2, <1>3, ConcatProperties
  <2>2. (H \o U) \o S \in Seq(CellSet) /\ Len((H \o U) \o S) = Len(H \o U) + Len(S)
    BY <1>5, <2>1, ConcatProperties
  <2>3. Len(((H \o U) \o S) \o T) = Len((H \o U) \o S) + Len(T)
    BY <1>2, <2>2, ConcatProperties
  <2>4. Len(U) \in Nat /\ Len(S) \in Nat
    BY <1>3, <1>5
  <2>5. QED BY <1>2, <2>1, <2>2, <2>3, <2>4
<1>12. Len(Whole(p)) = 1 + Len(U) + Len(S) + 1
  BY <1>6, <1>11, Zenon
<1>13. Len(Blocks(p, b)) \in Nat /\ Len(Blocks(p, b + 1)) = Len(Blocks(p, b)) + Len(Data(p, b))
  <2> DEFINE u == Blocks(p, b)
             v == Data(p, b)
  <2> HIDE DEF u, v
  <2>1. Len(u \o v) = Len(u) + Len(v) /\ Len(u) \in Nat
    BY <1>7, <1>9 DEF u, v
  <2>2. Len(Blocks(p, b + 1)) = Len(u \o v)
    BY <1>9, Zenon DEF u, v
  <2>3. QED BY <2>1, <2>2 DEF u, v
<1>14. Len(Stripped(Data(p, b))) \in Nat
  BY <1>8
<1>15. b = last => Blocks(p, b) = U /\ Stripped(Data(p, b)) = S
  BY DEF U, S, D
<1>16. b # last => 1 + Len(Blocks(p, b)) + Len(Data(p, b)) <= Len(Whole(p)) - 1
  BY <1>7, <1>10, <1>11, <1>12, <1>13
<1>17. b = last => 1 + Len(Blocks(p, b)) + Len(Stripped(Data(p, b))) = Len(Whole(p)) - 1
  BY <1>11, <1>12, <1>13, <1>15
<1>18. QED BY <1>7, <1>11, <1>12, <1>13, <1>14, <1>16, <1>17 DEF last, L

Good(p) == p.fault = "none" /\ Fits(p)

\* The heap keeps its size while data are added, and only the first block of an
\* image opens a picture.
LEMMA FilledKeeps ==
  ASSUME NEW m, MakerOK(m), NEW f
  PROVE  /\ Filled(m, f).heapsize = m.heapsize
         /\ ~IsGoes(m) \/ f.product.kind = "zipped" \/ f.block > 0 =>
               Filled(m, f).png = m.png
<1> DEFINE data == Data(f.product, f.block)
           text == TextOf(m, f)
           k == Filled(m, f)
<1>1. k = IF ~IsGoes(m) THEN Appended(m, text)
          ELSE IF f.product.kind = "zipped" THEN Appended(m, data)
          ELSE IF f.block > 0 THEN [m EXCEPT !.rows = @ \o data]
          ELSE PngBegun(m, data)
  BY DEF Filled
<1> HIDE DEF data, text, k
<1>2. m \in Maker
  BY DEF MakerOK
<1>3. ASSUME NEW d PROVE Appended(m, d).heapsize = m.heapsize /\ Appended(m, d).png = m.png
  BY <1>2 DEF Appended, Maker
<1>4. [m EXCEPT !.rows = @ \o data].heapsize = m.heapsize /\ [m EXCEPT !.rows = @ \o data].png = m.png
  BY <1>2 DEF Maker
<1>5. PngBegun(m, data).heapsize = m.heapsize
  BY <1>2 DEF PngBegun, Maker
<1>6. k.heapsize = m.heapsize
  BY <1>1, <1>3, <1>4, <1>5
<1>7. ~IsGoes(m) \/ f.product.kind = "zipped" \/ f.block > 0 => k.png = m.png
  BY <1>1, <1>3, <1>4
<1>8. QED BY <1>6, <1>7 DEF k

LEMMA LinkedKeeps ==
  ASSUME NEW m, MakerOK(m), NEW f, IsNext(m, f)
  PROVE  /\ Linked(m, f).heapsize = m.heapsize
         /\ m.psh = m.prod /\ Linked(m, f).png => m.png \/ m.prod.kind = "image"
<1> DEFINE a == DsAlloc(m)
           b == Filled(a, f)
           k == Linked(m, f)
           n == f.block
<1>1. k = [b EXCEPT !.tail = n]
  BY DEF Linked
<1>2. MakerOK(a) /\ a.heapsize = m.heapsize /\ a.png = m.png /\ a.psh = m.psh /\ a.prod = m.prod
  BY DsAllocFacts DEF SameData
<1>3. f.product \in Product /\ n \in Nat /\ n < Len(f.product.sizes) /\ f.product = m.prod
  BY DEF IsNext, MakerOK, Maker
<1> HIDE DEF a
<1>4. MakerOK(b)
  BY <1>2, <1>3, FilledFacts
<1>5. /\ b.heapsize = a.heapsize
      /\ ~IsGoes(a) \/ f.product.kind = "zipped" \/ n > 0 => b.png = a.png
  BY <1>2, FilledKeeps
<1>6. a.psh = a.prod => (IsGoes(a) <=> a.prod.kind # "text")
  BY <1>2, OwnRecord
<1>7. m.prod.kind \in {"text", "image", "zipped"}
  BY <1>3, ProductAssumption DEF Kinds
<1> HIDE DEF b, k, n
<1>8. k.heapsize = b.heapsize /\ k.png = b.png
  BY <1>1, <1>4 DEF MakerOK, Maker
<1>9. k.heapsize = m.heapsize
  BY <1>2, <1>5, <1>8
<1>10. m.psh = m.prod /\ k.png => m.png \/ m.prod.kind = "image"
  BY <1>2, <1>3, <1>5, <1>6, <1>7, <1>8
<1>11. QED BY <1>9, <1>10 DEF k

\* A product that is given up for the header of another one leaves no picture open.
LEMMA OpenedPicture ==
  ASSUME NEW m, MakerOK(m), m.png => m.tail # None, NEW p \in Product
  PROVE  Opened(m, p).png = FALSE
<1> DEFINE k == [m EXCEPT !.psh = p]
           a == Abandoned(k)
           b == [a EXCEPT !.prod = p]
           d == DsFree(k)
           e == PngEnd(d)
<1>1. Opened(m, p) = DsInit(b, p.frags)
  BY DEF Opened
<1>2. MakerOK(k) /\ k.png = m.png /\ k.tail = m.tail /\ k.psh = p
  BY PshFacts
<1> HIDE DEF k
<1>3. MakerOK(a)
  BY <1>2, AbandonedFacts
<1>4. a = IF k.tail = None THEN k ELSE IF k.png THEN [e EXCEPT !.png = FALSE] ELSE d
  BY DEF Abandoned
<1>5. MakerOK(d) /\ d.png = k.png /\ k.png \in BOOLEAN
  BY <1>2, DsFreeFacts DEF SameData, MakerOK, Maker
<1> HIDE DEF d
<1>6. MakerOK(e)
  BY <1>5, PngEndFacts
<1> HIDE DEF e, a
<1>7. [e EXCEPT !.png = FALSE].png = FALSE
  BY <1>6 DEF MakerOK, Maker
<1>8. a.png = FALSE
  BY <1>2, <1>4, <1>5, <1>7
<1>9. MakerOK(b) /\ b.png = FALSE
  BY <1>3, <1>8 DEF MakerOK, Maker
<1> HIDE DEF b
<1>10. p.frags \in Nat
  BY SizeFacts
<1>11. QED BY <1>1, <1>9, <1>10, DsInitFacts DEF SameData

LEMMA BegunKeeps ==
  ASSUME NEW m, MakerOK(m), NEW p \in Product
  PROVE  /\ Begun(m, p).heapsize = Room(p)
         /\ (m.png => m.tail # None) => Begun(m, p).png = FALSE
<1> DEFINE q == Opened(m, p)
           size == Room(p)
           o == [q EXCEPT !.name = p, !.heapcount = 0, !.heapsize = size]
           k == Begun(m, p)
<1>1. k = IF IsGoes(o) THEN o ELSE [o EXCEPT !.heap = Written(@, 0, <<FosHeader(p)>>), !.heapcount = 1]
  BY DEF Begun, Room
<1>2. MakerOK(q)
  BY OpenedFacts
<1>3. (m.png => m.tail # None) => q.png = FALSE
  BY OpenedPicture
<1>4. size \in Nat
  BY RoomType
<1> HIDE DEF q, size
<1>5. o \in Maker /\ o.heapsize = size /\ o.png = q.png
  BY <1>2, <1>4 DEF MakerOK, Maker
<1> HIDE DEF o, k
<1>6. k.heapsize = o.heapsize /\ k.png = o.png
  BY <1>1, <1>5 DEF Maker
<1>7. QED BY <1>3, <1>5, <1>6 DEF size, k

LEMMA CollectedLength ==
  ASSUME NEW m, MakerOK(m)
  PROVE  Len(Collected(m)) = m.heapcount /\ m.heapcount \in Nat
<1> DEFINE h == m.heap
           n == m.heapcount
<1>1. h \in Seq(CellSet) /\ n \in Nat /\ n <= Len(h) /\ Len(h) \in Nat
  BY DEF MakerOK, Maker
<1> HIDE DEF h, n
<1>2. Len(SubSeq(h, 1, n)) = n
  BY <1>1
<1>3. QED BY <1>1, <1>2 DEF h, n, Collected

\* The next fragment of a product in hand that fits its heap is taken.
LEMMA Accepted ==
  ASSUME NEW m, MakerOK(m), InHand(m), m.psh = m.prod, m.heapsize = Room(m.prod),
         NEW f, IsNext(m, f)
  PROVE  /\ Good(m.prod) => ~Refused(m, f)
         /\ ~Refused(m, f) /\ IsLast(m, f) => Good(m.prod)
<1> DEFINE p == m.prod
           b == f.block
           text == TextOf(m, f)
<1>1. /\ p \in Product /\ p.kind \in {"text", "image", "zipped"} /\ p.fault = "none"
      /\ f.product = p /\ b = m.tail + 1 /\ b \in Nat /\ b < Len(p.sizes)
      /\ Len(p.sizes) \in Nat /\ m.tail \in Nat \union {None}
  <2>1. p \in Product /\ m.tail \in Nat \union {None}
    BY DEF MakerOK, Maker
  <2>2. p.kind \in {"text", "image", "zipped"} /\ Len(p.sizes) \in Nat
    BY <2>1, ProductAssumption, SizeFacts DEF Kinds
  <2>3. QED BY <2>1, <2>2 DEF IsNext, InHand
<1>2. IsGoes(m) <=> p.kind # "text"
  BY OwnRecord
<1>3. CASE p.kind # "text"
  <2>1. Fits(p)
    BY <1>3 DEF Fits
  <2>2. p.kind = "image" /\ b > 0 => m.png
    <3>1. b > 0 => m.tail # None
      BY <1>1 DEF None
    <3>2. QED BY <3>1 DEF InHand, Holds
  <2>3. ~Refused(m, f)
    BY <1>1, <1>2, <1>3, <2>2 DEF Refused
  <2>4. QED BY <1>1, <2>1, <2>3 DEF Good
<1>4. CASE p.kind = "text"
  <2> DEFINE head == 1 + Len(Blocks(p, b))
             last == Len(p.sizes) - 1
             whole == Len(Whole(p))
             room == Room(p)
             data == Data(p, b)
             size == m.heapsize
             count == m.heapcount
  <2>1. /\ head \in Nat /\ whole \in Nat /\ Len(data) \in Nat /\ Len(Stripped(data)) \in Nat
        /\ b # last => head + Len(data) <= whole - 1
        /\ b = last => head + Len(Stripped(data)) = whole - 1
    BY <1>1, <1>4, TextLength
  <2>2. count = head
    <3>1. Collected(m) = <<FosHeader(p)>> \o Blocks(p, b)
      BY <1>1, <1>4 DEF InHand, Holds
    <3>2. <<FosHeader(p)>> \in Seq(CellSet) /\ Len(<<FosHeader(p)>>) = 1
      <4>1. FosHeader(p) \in CellSet
        BY <1>1, CellTypes
      <4>2. QED BY <4>1
    <3>3. Blocks(p, b) \in Seq(CellSet)
      BY <1>1, BlocksType
    <3>4. Len(<<FosHeader(p)>> \o Blocks(p, b)) = Len(<<FosHeader(p)>>) + Len(Blocks(p, b))
      BY <3>2, <3>3, ConcatProperties
    <3>5. QED BY <3>1, <3>2, <3>4, CollectedLength
  <2>3. IsLast(m, f) <=> b = last
    BY <1>1, LastBlock
  <2>4. text = IF b = last THEN Stripped(data) ELSE data
    BY <1>1, <2>3 DEF TextOf
  <2>5. Refused(m, f) <=> count + Len(text) > size
    BY <1>2, <1>4 DEF Refused
  <2>6. Fits(p) <=> whole - 1 <= room
    BY <1>4 DEF Fits, Room
  <2>7. size = room /\ room \in Nat
    BY <1>1, RoomType
  <2> HIDE DEF head, last, whole, room, data, text, size, count
  <2>8. Fits(p) => ~Refused(m, f)
    <3>1. CASE b = last
      BY <2>1, <2>2, <2>4, <2>5, <2>6, <2>7, <3>1
    <3>2. CASE b # last
      BY <2>1, <2>2, <2>4, <2>5, <2>6, <2>7, <3>2
    <3>3. QED BY <3>1, <3>2
  <2>9. ~Refused(m, f) /\ b = last => Fits(p)
    BY <2>1, <2>2, <2>4, <2>5, <2>6, <2>7
  <2>10. QED BY <1>1, <2>3, <2>8, <2>9 DEF Good
<1>5. QED BY <1>3, <1>4

(***************************************************************************)
(* What there is when every frame up to a has arrived, and in order: of a  *)
(* product that can be made, its blocks so far are in hand; no picture is  *)
(* open but that of the image in progress; and the queue has, whole, each  *)
(* product that can be made and whose last block was sent.                 *)
(***************************************************************************)
AllCame == late = 0 /\ received = arrived

Latest(j, a) ==
    /\ j <= a /\ sent[j].type # "skipped"
    /\ \A k \in DOMAIN sent : j < k /\ k <= a => sent[k].type = "skipped"

BlocksInHand(m, a) ==
    \A j \in DOMAIN sent :
        Latest(j, a) /\ Good(sent[j].product) /\ ~IsFinal(sent[j]) =>
            m.tail = sent[j].block /\ m.prod = sent[j].product

PictureInProgress(m) == m.png => m.tail # None /\ m.prod.kind = "image"

NotFinal(m, a) ==
    m.tail # None /\ Good(m.prod) =>
        \A k \in DOMAIN sent : k <= a /\ Carries(k, m.prod) => ~IsFinal(sent[k])

HeapIsLargeEnough(m) == m.tail # None => m.heapsize = Room(m.prod)

InQueue(q, a) ==
    /\ q \in Seq(Entry)
    /\ \A k \in DOMAIN q : q[k].data = Whole(q[k].product)
    /\ {q[k].product : k \in DOMAIN q} = Sent(a)
    /\ IsFiniteSet(Sent(a)) /\ Len(q) = Cardinality(Sent(a))

InHandOfAll(m, a) == BlocksInHand(m, a) /\ PictureInProgress(m) /\ NotFinal(m, a)

AllKept ==
    /\ HeapIsLargeEnough(maker)
    /\ late = 0 => received <= arrived
    /\ AllCame => InHandOfAll(maker, arrived) /\ InQueue(queue, arrived)

\* The block before one that is sent was sent before it, and only frames to skip
\* since.
LEMMA PreviousFrame ==
  ASSUME TypeOK, SentWhole, NEW i \in DOMAIN sent, sent[i].type # "skipped", sent[i].block > 0
  PROVE  \E j \in DOMAIN sent :
            /\ j < i /\ Carries(j, sent[i].product) /\ sent[j].block + 1 = sent[i].block
            /\ \A k \in DOMAIN sent : j < k /\ k < i => sent[k].type = "skipped"
<1> DEFINE p == sent[i].product
<1>1. sent \in Transmissions
  BY DEF TypeOK
<1>2. PICK j \in DOMAIN sent : /\ j < i /\ sent[j].type # "skipped"
                               /\ sent[j].product = p /\ sent[j].block + 1 = sent[i].block
  BY <1>1 DEF SentWhole
<1>3. Carries(j, p) /\ Carries(i, p)
  BY <1>2 DEF Carries
<1>4. ASSUME NEW k \in DOMAIN sent, j < k, k < i, sent[k].type # "skipped"
      PROVE  FALSE
  <2>1. Carries(k, p)
    BY <1>2, <1>3, <1>4, SenderFacts DEF Carries
  <2>2. sent[j].block < sent[k].block /\ sent[k].block < sent[i].block
    BY <1>3, <1>4, <2>1, SenderFacts
  <2>3. sent[j].block \in Nat /\ sent[k].block \in Nat /\ sent[i].block \in Nat
    BY FrameFacts
  <2>4. QED BY <1>2, <2>2, <2>3
<1>5. QED BY <1>2, <1>3, <1>4

\* A frame of a product in hand comes in order: the product has its own header
\* record, and the heap is of its size.
LEMMA OwnInOrder ==
  ASSUME IInv, InOrder, HeapIsLargeEnough(maker), late = 0,
         NEW i \in DOMAIN sent, i > arrived, HasData(i), InSequence(Current(i), sent[i])
  PROVE  LET m == Current(i)
         IN  /\ MakerOK(m) /\ InHand(m) /\ IsNext(m, sent[i])
             /\ m.psh = m.prod /\ m.heapsize = Room(m.prod)
<1> DEFINE m == Current(i)
           f == sent[i]
<1>1. MakerOK(m) /\ InHand(m) /\ IsNext(m, f)
  BY CurrentFacts
<1>2. CASE f.type = "header"
  <2>1. m.psh = f.product /\ m.prod = f.product
    BY <1>2, CurrentFacts
  <2>2. m = Begun(maker, f.product)
    BY <1>2 DEF Current
  <2>3. m.heapsize = Room(f.product)
    BY <2>2, BegunKeeps, FrameFacts DEF IInv
  <2>4. QED BY <1>1, <2>1, <2>3
<1>3. CASE f.type = "block"
  <2>1. m = maker /\ maker.tail # None
    BY <1>3, CurrentFacts
  <2>2. InProgress(maker, arrived)
    BY <2>1 DEF InOrder
  <2>3. maker.psh = maker.prod
    BY <1>1, <1>3, <2>1, <2>2, NextInOrder
  <2>4. QED BY <1>1, <2>1, <2>3 DEF HeapIsLargeEnough
<1>4. QED BY <1>2, <1>3 DEF HasData

\* The next frame, of a product that can be made, finds the ones before it.
LEMMA GoodFrame ==
  ASSUME IInv, InOrder, SentWhole, HeapIsLargeEnough(maker), late = 0,
         BlocksInHand(maker, arrived),
         NEW i \in DOMAIN sent, i = arrived + 1, sent[i].type # "skipped", Good(sent[i].product)
  PROVE  HasData(i) /\ InSequence(Current(i), sent[i]) /\ ~Refused(Current(i), sent[i])
<1> DEFINE f == sent[i]
           p == f.product
           m == Current(i)
<1>1. /\ f.type \in {"header", "block"} /\ p \in Product /\ f.block \in Nat
      /\ f.type = "header" <=> f.block = 0
      /\ f.block < Len(p.sizes) /\ arrived \in Nat /\ i > arrived
  BY FrameFacts DEF IInv, TypeOK
<1>2. HasData(i) /\ InSequence(m, f)
  <2>1. CASE f.type = "header"
    <3>1. HasData(i)
      BY <2>1 DEF HasData, Good
    <3>2. m.prod = p /\ m.tail = None
      BY <2>1, <3>1, CurrentFacts
    <3>3. f.block = 0 /\ ~(f.block > 0)
      BY <1>1, <2>1
    <3>4. QED BY <3>1, <3>2, <3>3 DEF InSequence
  <2>2. CASE f.type = "block"
    <3>1. f.block > 0
      BY <1>1, <2>2
    <3>2. PICK j \in DOMAIN sent :
            /\ j < i /\ Carries(j, p) /\ sent[j].block + 1 = f.block
            /\ \A k \in DOMAIN sent : j < k /\ k < i => sent[k].type = "skipped"
      BY <3>1, PreviousFrame DEF IInv
    <3>3. /\ j \in Nat /\ sent[j].block \in Nat /\ \A k \in DOMAIN sent : k \in Nat
          /\ Len(p.sizes) \in Nat
      BY <1>1, FrameFacts, SizeFacts DEF IInv
    <3>4. Latest(j, arrived)
      <4>1. j <= arrived /\ \A k \in DOMAIN sent : k <= arrived => k < i
        BY <1>1, <3>2, <3>3
      <4>2. QED BY <3>2, <4>1 DEF Latest, Carries
    <3>5. sent[j].product = p /\ ~IsFinal(sent[j])
      BY <1>1, <3>2, <3>3 DEF Carries, IsFinal
    <3>6. maker.tail = sent[j].block /\ maker.prod = p
      BY <3>4, <3>5 DEF BlocksInHand
    <3>7. maker.tail # None
      BY <3>3, <3>6 DEF None
    <3>8. HasData(i) /\ m = maker
      BY <2>2, <3>7 DEF HasData, Current
    <3>9. QED BY <3>2, <3>6, <3>8 DEF InSequence
  <2>3. QED BY <1>1, <2>1, <2>2
<1>3. MakerOK(m) /\ InHand(m) /\ IsNext(m, f) /\ m.psh = m.prod /\ m.heapsize = Room(m.prod)
  BY <1>1, <1>2, OwnInOrder
<1>4. Good(m.prod)
  BY <1>3 DEF IsNext
<1> HIDE DEF m, f
<1>5. ~Refused(m, f)
  BY <1>3, <1>4, Accepted
<1>6. QED BY <1>2, <1>5 DEF m, f

\* While a picture is open, the next frame is one of its image.
LEMMA PictureGoesOn ==
  ASSUME IInv, InOrder, SentWhole, late = 0, PictureInProgress(maker), NotFinal(maker, arrived),
         maker.png, NEW i \in DOMAIN sent, i = arrived + 1, sent[i].type # "skipped"
  PROVE  sent[i].product = maker.prod /\ Good(maker.prod)
<1> DEFINE p == maker.prod
<1>1. maker.tail # None /\ p.kind = "image"
  BY DEF PictureInProgress
<1>2. InHand(maker) /\ InProgress(maker, arrived)
  BY <1>1 DEF IInv, HandIsKept, InOrder
<1>3. Good(p)
  BY <1>1, <1>2 DEF InHand, Good, Fits
<1>4. ASSUME sent[i].product # p
      PROVE  FALSE
  <2>1. PICK h \in DOMAIN sent : h <= arrived /\ Carries(h, p)
    BY <1>2 DEF InProgress
  <2>2. arrived \in Nat /\ \A k \in DOMAIN sent : k \in Nat
    BY FrameFacts DEF IInv, TypeOK
  <2>3. h < i
    BY <2>1, <2>2
  <2>4. PICK k \in DOMAIN sent : /\ k < i /\ sent[k].type # "skipped"
                                 /\ sent[k].product = p /\ IsFinal(sent[k])
    <3>1. sent \in Transmissions
      BY DEF IInv, TypeOK
    <3>2. sent[h].type # "skipped" /\ sent[h].product = p /\ sent[h].product # sent[i].product
      BY <1>4, <2>1 DEF Carries
    <3>3. \E j \in DOMAIN sent : /\ j < i /\ sent[j].type # "skipped"
                                 /\ sent[j].product = sent[h].product /\ IsFinal(sent[j])
      BY <2>3, <3>1, <3>2 DEF SentWhole
    <3>4. QED BY <3>2, <3>3
  <2>5. k <= arrived /\ Carries(k, p)
    BY <2>2, <2>4 DEF Carries
  <2>6. QED BY <1>1, <1>3, <2>4, <2>5 DEF NotFinal
<1>5. QED BY <1>3, <1>4

LEMMA CurrentKeeps ==
  ASSUME IInv, HeapIsLargeEnough(maker), NEW i \in DOMAIN sent, HasData(i)
  PROVE  LET m == Current(i)
         IN  /\ MakerOK(m) /\ m.heapsize = Room(m.prod)
             /\ sent[i].type = "header" => m.tail = None
             /\ sent[i].type = "header" /\ PictureInProgress(maker) => m.png = FALSE
             /\ sent[i].type = "block" => m = maker /\ maker.tail # None
<1> DEFINE m == Current(i)
           p == sent[i].product
<1>1. MakerOK(m)
  BY CurrentFacts
<1>2. CASE sent[i].type = "header"
  <2>1. m = Begun(maker, p) /\ p \in Product /\ MakerOK(maker)
    BY <1>2, FrameFacts DEF Current, IInv
  <2>2. m.prod = p /\ m.tail = None
    BY <1>2, CurrentFacts
  <2> HIDE DEF m, p
  <2>3. m.heapsize = Room(p) /\ (PictureInProgress(maker) => m.png = FALSE)
    BY <2>1, BegunKeeps DEF PictureInProgress
  <2>4. QED BY <1>1, <1>2, <2>2, <2>3 DEF m
<1>3. CASE sent[i].type = "block"
  <2>1. m = maker /\ maker.tail # None
    BY <1>3, CurrentFacts
  <2>2. QED BY <1>1, <1>3, <2>1 DEF HeapIsLargeEnough
<1>4. QED BY <1>2, <1>3 DEF HasData

\* prodalloc() is called for each product, and for the number of its fragments.
LEMMA HeapStep ==
  ASSUME IInv, HeapIsLargeEnough(maker), NEW i \in DOMAIN sent,
         \/ Skip(i) \/ RejectHeader(i) \/ PuntHeader(i) \/ SkipOrphan(i)
         \/ GiveUp(i) \/ Refuse(i) \/ Extend(i) \/ Complete(i)
  PROVE  HeapIsLargeEnough(maker')
<1>1. CASE Skip(i) \/ SkipOrphan(i)
  BY <1>1 DEF Skip, SkipOrphan
<1>2. CASE RejectHeader(i)
  <2>1. maker' = [maker EXCEPT !.psh = sent[i].product] /\ maker \in Maker
    BY <1>2 DEF RejectHeader, IInv, MakerOK
  <2>2. maker'.tail = maker.tail /\ maker'.prod = maker.prod /\ maker'.heapsize = maker.heapsize
    BY <2>1 DEF Maker
  <2>3. QED BY <2>2 DEF HeapIsLargeEnough
<1>3. CASE PuntHeader(i) \/ GiveUp(i) \/ Complete(i)
  BY <1>3, NoneInProgress DEF HeapIsLargeEnough
<1>4. CASE Refuse(i)
  <2> DEFINE m == Current(i)
  <2>1. HasData(i) /\ maker' = DsAlloc(m)
    BY <1>4 DEF Refuse
  <2>2. MakerOK(m) /\ m.heapsize = Room(m.prod)
    BY <2>1, CurrentKeeps
  <2> HIDE DEF m
  <2>3. QED BY <2>1, <2>2, DsAllocFacts DEF SameData, HeapIsLargeEnough
<1>5. CASE Extend(i)
  <2> DEFINE m == Current(i)
             f == sent[i]
  <2>1. HasData(i) /\ InSequence(m, f) /\ maker' = Linked(m, f)
    BY <1>5 DEF Extend
  <2>2. MakerOK(m) /\ m.heapsize = Room(m.prod) /\ IsNext(m, f)
    BY <2>1, CurrentKeeps, CurrentFacts
  <2> HIDE DEF m, f
  <2>3. QED BY <2>1, <2>2, LinkedKeeps, LinkedFacts DEF HeapIsLargeEnough
<1>6. QED BY <1>1, <1>2, <1>3, <1>4, <1>5

\* A frame more is sent: the last block of a product that can be made, or none.
LEMMA SentMore ==
  ASSUME TypeOK, NEW a \in Nat, NEW i \in DOMAIN sent, i = a + 1
  PROVE  LET p == sent[i].product
             final == sent[i].type # "skipped" /\ IsFinal(sent[i]) /\ Good(p)
         IN  /\ ~final => Sent(i) = Sent(a)
             /\ final => Sent(i) = Sent(a) \union {p} /\ p \notin Sent(a)
<1> DEFINE Is(j, p) == /\ sent[j].type # "skipped" /\ sent[j].product = p
                       /\ sent[j].block = Len(p.sizes) - 1
           final == sent[i].type # "skipped" /\ IsFinal(sent[i]) /\ Good(sent[i].product)
<1>1. /\ i \in Nat /\ i >= 1 /\ i <= Len(sent) /\ Len(sent) \in Nat /\ DOMAIN sent = 1..Len(sent)
      /\ sent[i].product \in Product /\ sent[i].block \in Nat
  <2>1. sent \in Seq(Frame)
    BY TransmissionAssumption DEF TypeOK
  <2>2. QED BY <2>1, FrameFacts
<1>2. Len(sent[i].product.sizes) \in Nat
  BY <1>1, SizeFacts
<1>3. \A j \in 1..i : j \in 1..a \/ j = i
  BY <1>1
<1>4. \A j \in 1..a : j \in 1..i /\ j < i /\ j \in DOMAIN sent
  BY <1>1
<1>5. /\ \A p : p \in Sent(a) <=> p \in Product /\ Good(p) /\ \E j \in 1..a : Is(j, p)
      /\ \A p : p \in Sent(i) <=> p \in Product /\ Good(p) /\ \E j \in 1..i : Is(j, p)
  BY DEF Sent, Good
<1>6. i \in 1..i
  BY <1>1
<1>7. \A p : Is(i, p) /\ Good(p) <=> final /\ p = sent[i].product
  BY <1>1, <1>2 DEF IsFinal
<1>8. ASSUME final, NEW j \in 1..a, Is(j, sent[i].product) PROVE FALSE
  <2>1. Carries(j, sent[i].product) /\ Carries(i, sent[i].product)
    BY <1>8 DEF Carries
  <2>2. sent[j].block < sent[i].block
    BY <1>4, <2>1, SenderFacts
  <2>3. sent[j].block = sent[i].block
    BY <1>1, <1>2, <1>8 DEF IsFinal
  <2>4. QED BY <1>1, <2>2, <2>3
<1> HIDE DEF Is, final
<1>9. ~final => Sent(i) = Sent(a)
  <2>1. ASSUME ~final, NEW p PROVE p \in Sent(i) <=> p \in Sent(a)
    BY <1>3, <1>4, <1>5, <1>7, <2>1
  <2>2. QED BY <2>1
<1>10. final => Sent(i) = Sent(a) \union {sent[i].product}
  <2>1. ASSUME final, NEW p
        PROVE  p \in Sent(i) <=> p \in Sent(a) \/ p = sent[i].product
    BY <1>1, <1>3, <1>4, <1>5, <1>6, <1>7, <2>1
  <2>2. QED BY <2>1
<1>11. final => sent[i].product \notin Sent(a)
  BY <1>5, <1>8
<1>12. QED BY <1>9, <1>10, <1>11 DEF final

\* The frames that add nothing to a product: those of none, and of one that cannot
\* be made.
LEMMA QuietEffect ==
  ASSUME IInv, InOrder, SentWhole, HeapIsLargeEnough(maker), late = 0,
         InHandOfAll(maker, arrived), NEW i \in DOMAIN sent, i = arrived + 1,
         \/ Skip(i) \/ RejectHeader(i) \/ PuntHeader(i) \/ SkipOrphan(i)
         \/ GiveUp(i) \/ Refuse(i)
  PROVE  /\ queue' = queue
         /\ sent[i].type = "skipped" => maker' = maker
         /\ sent[i].type # "skipped" => ~Good(sent[i].product)
         /\ maker'.tail # None => maker'.tail = maker.tail /\ maker'.prod = maker.prod
         /\ PictureInProgress(maker')
<1> DEFINE f == sent[i]
           p == f.product
           m == Current(i)
<1> USE DEF InHandOfAll
<1>1. f.type # "skipped" /\ Good(p) =>
        HasData(i) /\ InSequence(m, f) /\ ~Refused(m, f)
  BY GoodFrame
<1>2. MakerOK(maker) /\ p \in Product
  BY FrameFacts DEF IInv
<1>3. CASE Skip(i) \/ SkipOrphan(i)
  BY <1>1, <1>3 DEF Skip, SkipOrphan, HasData, Good
<1>4. CASE RejectHeader(i)
  <2>1. maker' = [maker EXCEPT !.psh = p] /\ queue' = queue /\ f.type = "header" /\ p.fault = "psh"
    BY <1>4 DEF RejectHeader
  <2>2. maker'.tail = maker.tail /\ maker'.prod = maker.prod /\ maker'.png = maker.png
    BY <1>2, <2>1, PshFacts
  <2>3. QED BY <2>1, <2>2 DEF PictureInProgress, Good
<1>5. CASE PuntHeader(i)
  <2> DEFINE o == Opened(maker, p)
  <2>1. /\ maker' = [o EXCEPT !.heapcount = 0] /\ queue' = queue /\ f.type = "header"
        /\ p.fault = "pdb"
    BY <1>5 DEF PuntHeader
  <2>2. MakerOK(o) /\ o.png = FALSE
    BY <1>2, OpenedFacts, OpenedPicture DEF PictureInProgress
  <2> HIDE DEF o
  <2>3. maker'.png = FALSE
    BY <2>1, <2>2 DEF MakerOK, Maker
  <2>4. maker'.tail = None
    BY <1>5, NoneInProgress
  <2>5. QED BY <2>1, <2>3, <2>4 DEF PictureInProgress, Good
<1>6. CASE GiveUp(i)
  <2>1. HasData(i) /\ ~InSequence(m, f) /\ maker' = DsFree(DsAlloc(m)) /\ queue' = queue
    BY <1>6 DEF GiveUp
  <2>2. f.type # "skipped" /\ ~Good(p)
    BY <1>1, <2>1 DEF HasData
  <2>3. MakerOK(m) /\ (f.type = "header" => m.png = FALSE) /\ (f.type = "block" => m = maker)
    BY <2>1, CurrentKeeps
  <2>4. ~m.png
    <3>1. f.type = "block" => ~maker.png
      BY <2>2, PictureGoesOn
    <3>2. QED BY <2>1, <2>3, <3>1 DEF HasData
  <2> HIDE DEF m, f, p
  <2>5. MakerOK(DsAlloc(m)) /\ DsAlloc(m).png = m.png
    BY <2>3, DsAllocFacts DEF SameData
  <2>6. maker'.png = m.png
    BY <2>1, <2>5, DsFreeFacts DEF SameData
  <2>7. maker'.tail = None
    BY <1>6, NoneInProgress
  <2>8. QED BY <2>1, <2>2, <2>4, <2>6, <2>7 DEF PictureInProgress, f, p
<1>7. CASE Refuse(i)
  <2>1. HasData(i) /\ Refused(m, f) /\ maker' = DsAlloc(m) /\ queue' = queue
    BY <1>7 DEF Refuse
  <2>2. f.type # "skipped" /\ ~Good(p)
    BY <1>1, <2>1 DEF HasData
  <2>3. /\ MakerOK(m) /\ (f.type = "header" => m.png = FALSE /\ m.tail = None)
        /\ (f.type = "block" => m = maker)
    BY <2>1, CurrentKeeps
  <2> HIDE DEF m, f, p
  <2>4. maker'.png = m.png /\ maker'.tail = m.tail /\ maker'.prod = m.prod
    BY <2>1, <2>3, DsAllocFacts DEF SameData
  <2>5. CASE f.type = "header"
    BY <2>1, <2>2, <2>3, <2>4, <2>5 DEF PictureInProgress, f, p
  <2>6. CASE f.type = "block"
    BY <2>1, <2>2, <2>3, <2>4, <2>6 DEF PictureInProgress, f, p
  <2>7. QED BY <2>1, <2>5, <2>6 DEF HasData, f
<1>8. QED BY <1>3, <1>4, <1>5, <1>6, <1>7

\* A block more is in hand.
LEMMA ExtendEffect ==
  ASSUME IInv, InOrder, HeapIsLargeEnough(maker), late = 0, PictureInProgress(maker),
         NEW i \in DOMAIN sent, i > arrived, Extend(i)
  PROVE  /\ queue' = queue /\ sent[i].type # "skipped" /\ ~IsFinal(sent[i])
         /\ maker'.tail = sent[i].block /\ maker'.prod = sent[i].product
         /\ PictureInProgress(maker')
<1> DEFINE f == sent[i]
           m == Current(i)
<1>1. /\ HasData(i) /\ InSequence(m, f) /\ ~IsLast(m, f) /\ maker' = Linked(m, f)
      /\ queue' = queue
  BY DEF Extend
<1>2. MakerOK(m) /\ IsNext(m, f) /\ m.psh = m.prod
  BY <1>1, OwnInOrder
<1>3. f.type # "skipped" /\ (m.png => m.prod.kind = "image")
  <2>1. CASE f.type = "header"
    BY <1>1, <2>1, CurrentKeeps
  <2>2. CASE f.type = "block"
    BY <1>1, <2>2, CurrentKeeps DEF PictureInProgress
  <2>3. QED BY <1>1, <2>1, <2>2 DEF HasData
<1>4. f.block \in Nat
  BY FrameFacts DEF IInv
<1> HIDE DEF f, m
<1>5. f.product = m.prod /\ f.block + 1 < Len(m.prod.sizes)
  BY <1>1, <1>2, LastBlock DEF IsNext
<1>6. ~IsFinal(f)
  <2> DEFINE L == Len(f.product.sizes)
             n == f.block + 1
  <2>1. L \in Nat /\ n \in Nat /\ n < L
    BY <1>2, <1>4, <1>5, SizeFacts DEF MakerOK, Maker
  <2> HIDE DEF L, n
  <2>2. n # L
    BY <2>1
  <2>3. QED BY <2>2 DEF IsFinal, L, n
<1>7. maker'.tail = f.block /\ maker'.prod = m.prod
  BY <1>1, <1>2, LinkedFacts
<1>8. maker'.png => maker'.prod.kind = "image"
  BY <1>1, <1>2, <1>3, <1>7, LinkedKeeps
<1>9. maker'.tail # None
  BY <1>4, <1>7 DEF None
<1>10. QED BY <1>1, <1>3, <1>5, <1>6, <1>7, <1>8, <1>9 DEF PictureInProgress, f

\* A product that can be made is made, whole.
LEMMA CompleteEffect ==
  ASSUME IInv, InOrder, HeapIsLargeEnough(maker), late = 0, PictureInProgress(maker),
         NEW i \in DOMAIN sent, i > arrived, Complete(i)
  PROVE  LET p == sent[i].product
         IN  /\ sent[i].type # "skipped" /\ IsFinal(sent[i]) /\ Good(p)
             /\ maker'.tail = None /\ PictureInProgress(maker')
             /\ \E q \in Entry :
                   /\ q.product = p /\ q.data = Whole(p)
                   /\ queue' = IF \E k \in DOMAIN queue : queue[k].data = q.data
                               THEN queue ELSE Append(queue, q)
<1> DEFINE f == sent[i]
           m == Current(i)
           k == Linked(m, f)
           d == DsFree(Finished(k))
           q == Made(k)
<1>1. /\ HasData(i) /\ InSequence(m, f) /\ ~Refused(m, f) /\ IsLast(k, f)
      /\ maker' = [d EXCEPT !.png = FALSE]
      /\ queue' = IF \E j \in DOMAIN queue : queue[j].data = q.data
                  THEN queue ELSE Append(queue, q)
  BY DEF Complete
<1>2. MakerOK(m) /\ InHand(m) /\ IsNext(m, f) /\ m.psh = m.prod /\ m.heapsize = Room(m.prod)
  BY <1>1, OwnInOrder
<1>3. f.type # "skipped" /\ (m.png => m.prod.kind = "image")
  <2>1. CASE f.type = "header"
    BY <1>1, <2>1, CurrentKeeps
  <2>2. CASE f.type = "block"
    BY <1>1, <2>2, CurrentKeeps DEF PictureInProgress
  <2>3. QED BY <1>1, <2>1, <2>2 DEF HasData
<1> HIDE DEF m, f
<1>4. /\ MakerOK(k) /\ k.prod = m.prod
      /\ k.png => m.prod.kind = "image"
  BY <1>2, <1>3, LinkedFacts, LinkedKeeps
<1>5. IsLast(m, f) /\ f.product = m.prod
  BY <1>1, <1>2, <1>4 DEF IsLast, IsNext
<1>6. Good(m.prod)
  BY <1>1, <1>2, <1>5, Accepted
<1>7. IsFinal(f)
  BY <1>2, <1>5, LastBlock DEF IsFinal
<1>8. /\ q.product = m.prod /\ q.psh = m.psh
      /\ \/ q.data = Whole(q.product)
         \/ q.product.kind = "zipped" /\ q.png
         \/ q.psh # q.product
  BY <1>2, <1>5, MadeFacts
<1>9. q.png = k.png
  BY DEF Made
<1>10. q \in Entry
  BY <1>4, MadeType
<1>11. MakerOK(Finished(k))
  BY <1>4, FinishedFacts
<1>12. MakerOK(d)
  BY <1>11, DsFreeFacts
<1> HIDE DEF d, k, q
<1>13. q.product = f.product /\ q.data = Whole(f.product)
  BY <1>2, <1>4, <1>5, <1>8, <1>9
<1>14. maker'.png = FALSE
  BY <1>1, <1>12 DEF MakerOK, Maker
<1>15. maker'.tail = None
  BY NoneInProgress
<1>16. PictureInProgress(maker')
  BY <1>14 DEF PictureInProgress
<1> DEFINE p == f.product
<1>17. \E e \in Entry :
          /\ e.product = p /\ e.data = Whole(p)
          /\ queue' = IF \E j \in DOMAIN queue : queue[j].data = e.data
                      THEN queue ELSE Append(queue, e)
  BY <1>1, <1>10, <1>13
<1>18. Good(f.product)
  BY <1>5, <1>6
<1>19. QED BY <1>3, <1>7, <1>15, <1>16, <1>17, <1>18 DEF f

\* What is in the queue, after one product more and after none.
LEMMA QueueStays ==
  ASSUME TypeOK, NEW a \in Nat, NEW i \in DOMAIN sent, i = a + 1, NEW Q, InQueue(Q, a),
         ~(sent[i].type # "skipped" /\ IsFinal(sent[i]) /\ Good(sent[i].product))
  PROVE  InQueue(Q, i)
<1>1. Sent(i) = Sent(a)
  BY SentMore
<1>2. QED BY <1>1 DEF InQueue

LEMMA QueueGrows ==
  ASSUME TypeOK, DataDiffer, NEW a \in Nat, NEW i \in DOMAIN sent, i = a + 1,
         NEW Q, InQueue(Q, a),
         sent[i].type # "skipped", IsFinal(sent[i]), Good(sent[i].product),
         NEW e \in Entry, e.product = sent[i].product, e.data = Whole(sent[i].product)
  PROVE  /\ ~\E k \in DOMAIN Q : Q[k].data = e.data
         /\ InQueue(Append(Q, e), i)
<1> DEFINE p == sent[i].product
           R == Append(Q, e)
           n == Len(Q)
<1>1. Sent(i) = Sent(a) \union {p} /\ p \notin Sent(a)
  BY SentMore
<1>2. /\ Q \in Seq(Entry) /\ {Q[k].product : k \in DOMAIN Q} = Sent(a)
      /\ \A k \in DOMAIN Q : Q[k].data = Whole(Q[k].product)
      /\ IsFiniteSet(Sent(a)) /\ n = Cardinality(Sent(a))
  BY DEF InQueue
<1>3. n \in Nat /\ DOMAIN Q = 1..n /\ \A k \in 1..n : Q[k] \in Entry /\ Q[k].product \in Product
  <2>1. \A x \in Entry : x.product \in Product
    BY DEF Entry
  <2>2. n \in Nat /\ DOMAIN Q = 1..n /\ \A k \in 1..n : Q[k] \in Entry
    BY <1>2
  <2>3. QED BY <2>1, <2>2
<1>4. p \in Product
  BY FrameFacts
<1>5. ASSUME NEW k \in DOMAIN Q, Q[k].data = e.data PROVE FALSE
  <2>1. Whole(Q[k].product) = Whole(p) /\ Q[k].product \in Product
    BY <1>2, <1>3, <1>5
  <2>2. Q[k].product = p
    BY <1>4, <2>1 DEF DataDiffer
  <2>3. Q[k].product \in Sent(a)
    BY <1>2, <1>5
  <2>4. QED BY <1>1, <2>2, <2>3
<1>6. /\ R \in Seq(Entry) /\ Len(R) = n + 1
      /\ \A k \in 1..n : R[k] = Q[k]
      /\ R[n + 1] = e
  BY <1>2, AppendProperties
<1>7. DOMAIN R = 1..(n + 1) /\ \A k \in 1..(n + 1) : k \in 1..n \/ k = n + 1
  BY <1>3, <1>6
<1>8. \A k \in 1..n : k \in 1..(n + 1)
  BY <1>3
<1>8a. n + 1 \in 1..(n + 1)
  BY <1>3
<1>9. \A k \in DOMAIN R : R[k].data = Whole(R[k].product)
  BY <1>2, <1>3, <1>6, <1>7
<1>10. IsFiniteSet(Sent(i)) /\ Cardinality(Sent(i)) = n + 1
  BY <1>1, <1>2, FS_AddElement
<1> HIDE DEF R, p, n
<1>11. {R[k].product : k \in DOMAIN R} = Sent(i)
  <2>1. e.product = p
    BY DEF p
  <2>2. ASSUME NEW x, x \in {R[k].product : k \in DOMAIN R} PROVE x \in Sent(i)
    <3>1. PICK k \in DOMAIN R : x = R[k].product
      BY <2>2
    <3>2. CASE k \in 1..n
      <4>1. x = Q[k].product /\ k \in DOMAIN Q
        BY <1>3, <1>6, <3>1, <3>2
      <4>2. QED BY <1>1, <1>2, <4>1
    <3>3. CASE k = n + 1
      BY <1>1, <1>6, <2>1, <3>1, <3>3
    <3>4. QED BY <1>7, <3>2, <3>3
  <2>3. ASSUME NEW x \in Sent(i) PROVE x \in {R[k].product : k \in DOMAIN R}
    <3>1. CASE x = p
      BY <1>6, <1>7, <1>8a, <2>1, <3>1
    <3>2. CASE x \in Sent(a)
      <4>1. PICK k \in DOMAIN Q : x = Q[k].product
        BY <1>2, <3>2
      <4>2. k \in DOMAIN R /\ R[k] = Q[k]
        BY <1>3, <1>6, <1>7, <1>8, <4>1
      <4>3. QED BY <4>1, <4>2
    <3>3. QED BY <1>1, <2>3, <3>1, <3>2
  <2>4. QED BY <2>2, <2>3
<1>12. InQueue(R, i)
  BY <1>6, <1>9, <1>10, <1>11 DEF InQueue
<1>13. QED BY <1>5, <1>12 DEF R

\* The frame after all those that have come.
LEMMA NextFrameKeeps ==
  ASSUME IInv, InOrder, SentWhole, DataDiffer, HeapIsLargeEnough(maker), late = 0,
         InHandOfAll(maker, arrived), InQueue(queue, arrived),
         NEW i \in DOMAIN sent, i = arrived + 1,
         \/ Skip(i) \/ RejectHeader(i) \/ PuntHeader(i) \/ SkipOrphan(i)
         \/ GiveUp(i) \/ Refuse(i) \/ Extend(i) \/ Complete(i)
  PROVE  InHandOfAll(maker', i) /\ InQueue(queue', i)
<1> DEFINE f == sent[i]
           p == f.product
<1>1. /\ TypeOK /\ arrived \in Nat /\ i \in Nat /\ i > arrived
      /\ \A k \in DOMAIN sent : k \in Nat /\ (k <= i => k <= arrived \/ k = i)
                                /\ (k <= arrived => k <= i) /\ (k <= arrived => k < i)
                                /\ ~(k < i /\ i < k)
  BY FrameFacts DEF IInv, TypeOK
<1>2. i <= i
  BY <1>1
<1>3. ASSUME NEW j \in DOMAIN sent, Latest(j, i), f.type # "skipped" PROVE j = i
  <2>1. j <= i /\ (j < i /\ i <= i => f.type = "skipped")
    BY <1>3 DEF Latest
  <2>2. j < i \/ j = i
    BY <1>1, <2>1
  <2>3. QED BY <1>2, <1>3, <2>1, <2>2
<1>4. ASSUME NEW j \in DOMAIN sent, Latest(j, i), f.type = "skipped" PROVE Latest(j, arrived)
  <2>1. j # i /\ j <= arrived
    BY <1>1, <1>4 DEF Latest
  <2>2. QED BY <1>1, <1>4, <2>1 DEF Latest
<1>5. PictureInProgress(maker)
  BY DEF InHandOfAll
<1>6. CASE \/ Skip(i) \/ RejectHeader(i) \/ PuntHeader(i) \/ SkipOrphan(i)
           \/ GiveUp(i) \/ Refuse(i)
  <2>1. /\ queue' = queue
        /\ f.type = "skipped" => maker' = maker
        /\ f.type # "skipped" => ~Good(p)
        /\ maker'.tail # None => maker'.tail = maker.tail /\ maker'.prod = maker.prod
        /\ PictureInProgress(maker')
    BY <1>6, QuietEffect
  <2>2. InQueue(queue', i)
    BY <1>1, <2>1, QueueStays
  <2>3. BlocksInHand(maker', i)
    <3>1. SUFFICES ASSUME NEW j \in DOMAIN sent, Latest(j, i), Good(sent[j].product),
                          ~IsFinal(sent[j])
                   PROVE  maker'.tail = sent[j].block /\ maker'.prod = sent[j].product
      BY DEF BlocksInHand
    <3>2. f.type = "skipped"
      BY <1>3, <2>1, <3>1
    <3>3. maker' = maker /\ Latest(j, arrived)
      BY <1>4, <2>1, <3>1, <3>2
    <3>4. QED BY <3>1, <3>3 DEF InHandOfAll, BlocksInHand
  <2>4. NotFinal(maker', i)
    <3>1. SUFFICES ASSUME maker'.tail # None, Good(maker'.prod), NEW k \in DOMAIN sent,
                          k <= i, Carries(k, maker'.prod)
                   PROVE  ~IsFinal(sent[k])
      BY DEF NotFinal
    <3>2. maker.tail # None /\ maker'.prod = maker.prod
      BY <2>1, <3>1
    <3>3. k # i
      BY <2>1, <3>1 DEF Carries
    <3>4. QED BY <1>1, <3>1, <3>2, <3>3 DEF InHandOfAll, NotFinal
  <2>5. QED BY <2>1, <2>2, <2>3, <2>4 DEF InHandOfAll
<1>7. CASE Extend(i)
  <2>1. /\ queue' = queue /\ f.type # "skipped" /\ ~IsFinal(f)
        /\ maker'.tail = f.block /\ maker'.prod = p
        /\ PictureInProgress(maker')
    BY <1>1, <1>5, <1>7, ExtendEffect
  <2>2. InQueue(queue', i)
    BY <1>1, <2>1, QueueStays
  <2>3. BlocksInHand(maker', i)
    BY <1>3, <2>1 DEF BlocksInHand
  <2>4. NotFinal(maker', i)
    <3>1. SUFFICES ASSUME NEW k \in DOMAIN sent, k <= i, Carries(k, p)
                   PROVE  ~IsFinal(sent[k])
      BY <2>1 DEF NotFinal
    <3>2. CASE k = i
      BY <2>1, <3>2
    <3>3. CASE k # i
      <4>1. k < i /\ Carries(i, p)
        BY <1>1, <2>1, <3>1, <3>3 DEF Carries
      <4>2. sent[k].block < f.block
        BY <1>1, <3>1, <4>1, SenderFacts
      <4>3. f.block < Len(p.sizes) /\ p \in Product /\ f.block \in Nat /\ sent[k].block \in Nat
        BY <1>1, <2>1, FrameFacts
      <4>4. Len(p.sizes) \in Nat /\ sent[k].product = p
        BY <3>1, <4>3, SizeFacts DEF Carries
      <4>5. QED BY <4>2, <4>3, <4>4 DEF IsFinal
    <3>4. QED BY <3>2, <3>3
  <2>5. QED BY <2>1, <2>2, <2>3, <2>4 DEF InHandOfAll
<1>8. CASE Complete(i)
  <2>1. /\ f.type # "skipped" /\ IsFinal(f) /\ Good(p)
        /\ maker'.tail = None /\ PictureInProgress(maker')
    BY <1>1, <1>5, <1>8, CompleteEffect
  <2>2. PICK q \in Entry :
          /\ q.product = p /\ q.data = Whole(p)
          /\ queue' = IF \E k \in DOMAIN queue : queue[k].data = q.data
                      THEN queue ELSE Append(queue, q)
    BY <1>1, <1>5, <1>8, CompleteEffect
  <2>3. InQueue(queue', i)
    <3>1. (~\E k \in DOMAIN queue : queue[k].data = q.data) /\ InQueue(Append(queue, q), i)
      BY <1>1, <2>1, <2>2, QueueGrows
    <3>2. QED BY <2>2, <3>1
  <2>4. BlocksInHand(maker', i) /\ NotFinal(maker', i)
    BY <1>3, <2>1 DEF BlocksInHand, NotFinal
  <2>5. QED BY <2>1, <2>3, <2>4 DEF InHandOfAll
<1>9. QED BY <1>6, <1>7, <1>8

LEMMA AllKeptStep ==
  ASSUME IInv, InOrder, SentWhole, DataDiffer, AllKept, [Next]_vars
  PROVE  AllKept'
<1>1. CASE UNCHANGED vars
  BY <1>1 DEF vars, network, AllKept, AllCame, InHandOfAll, BlocksInHand, Latest,
     PictureInProgress, NotFinal, Carries, HeapIsLargeEnough, InQueue, Sent
<1>2. CASE Next
  <2>1. PICK i \in DOMAIN sent :
          \/ Skip(i) \/ RejectHeader(i) \/ PuntHeader(i) \/ SkipOrphan(i)
          \/ GiveUp(i) \/ Refuse(i) \/ Extend(i) \/ Complete(i)
    BY <1>2 DEF Next
  <2>2. Arrives(i)
    BY <2>1 DEF Skip, RejectHeader, PuntHeader, SkipOrphan, GiveUp, Refuse, Extend, Complete
  <2>3. sent' = sent /\ received' = received + 1 /\ received \in Nat
    BY <2>2 DEF Arrives, IInv, TypeOK
  <2>4. HeapIsLargeEnough(maker')
    BY <2>1, HeapStep DEF AllKept
  <2>5. ASSUME late' = 0
        PROVE  /\ late = 0 /\ arrived' = i /\ received' <= arrived'
               /\ received' = arrived' => received = arrived /\ i = arrived + 1
    <3>1. late = 0 /\ i > arrived /\ arrived' = i /\ i \in Nat /\ arrived \in Nat
      BY <2>2, <2>5, OrderedArrival
    <3>2. received <= arrived
      BY <3>1 DEF AllKept
    <3>3. QED BY <2>3, <3>1, <3>2
  <2>6. ASSUME late' = 0, received' = arrived'
        PROVE  (InHandOfAll(maker, arrived) /\ InQueue(queue, arrived))'
    <3>1. late = 0 /\ arrived' = i /\ received = arrived /\ i = arrived + 1
      BY <2>5, <2>6
    <3>2. InHandOfAll(maker, arrived) /\ InQueue(queue, arrived) /\ HeapIsLargeEnough(maker)
      BY <3>1 DEF AllKept, AllCame
    <3>3. InHandOfAll(maker', i) /\ InQueue(queue', i)
      BY <2>1, <3>1, <3>2, NextFrameKeeps
    <3>4. QED BY <2>3, <3>1, <3>3
       DEF InHandOfAll, BlocksInHand, Latest, PictureInProgress, NotFinal, Carries,
           InQueue, Sent
  <2>7. HeapIsLargeEnough(maker)'
    BY <2>4 DEF HeapIsLargeEnough
  <2>8. QED BY <2>5, <2>6, <2>7 DEF AllKept, AllCame
<1>3. QED BY <1>1, <1>2

LEMMA AllKeptInitially == Init => AllKept
<1> SUFFICES ASSUME Init PROVE AllKept
  OBVIOUS
<1>1. arrived = 0 /\ received = 0 /\ queue = <<>> /\ maker.tail = None /\ maker.png = FALSE
  BY DEF Init
<1>2. \A k \in DOMAIN sent : k \in Nat /\ k >= 1
  BY InitHolds, FrameFacts DEF IInv
<1>3. \A k \in DOMAIN sent : ~(k <= 0)
  BY <1>2
<1>4. Sent(0) = {}
  <2>1. 1..0 = {}
    OBVIOUS
  <2>2. QED BY <2>1 DEF Sent
<1>5. InQueue(queue, 0)
  <2>1. queue \in Seq(Entry) /\ DOMAIN queue = {} /\ Len(queue) = 0
    BY <1>1
  <2>2. IsFiniteSet({}) /\ Cardinality({}) = 0
    BY FS_EmptySet
  <2>3. {queue[k].product : k \in DOMAIN queue} = {}
    BY <2>1
  <2>4. QED BY <1>4, <2>1, <2>2, <2>3 DEF InQueue
<1>6. InHandOfAll(maker, 0)
  BY <1>1, <1>3 DEF InHandOfAll, BlocksInHand, Latest, PictureInProgress, NotFinal
<1>7. QED BY <1>1, <1>5, <1>6 DEF AllKept, AllCame, HeapIsLargeEnough

\* When no frame is lost, late or doubled, pmStart() inserts each product that can be
\* made and whose last frame has come, once, and no other.
THEOREM NoProductIsLost ==
  ASSUME SentWhole, DataDiffer
  PROVE  Spec => []NothingLost
<1>1. IInv /\ InOrder /\ AllKept /\ [Next]_vars => AllKept'
  BY AllKeptStep
<1>2. AllKept => NothingLost
  BY DEF AllKept, AllCame, InQueue, NothingLost
<1>3. QED BY OrderInvariance, AllKeptInitially, <1>1, <1>2, PTL DEF Spec
=============================================================================
