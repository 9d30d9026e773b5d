------------------------- MODULE FrameReaderProofs -------------------------
(***************************************************************************)
(* Proofs about FrameReader: the search for headers is complete, for every *)
(* input, source, checksum and amount that the FIFO holds; and the reader  *)
(* stays in step with frames that are well-formed.                         *)
(***************************************************************************)
EXTENDS FrameReader, SequenceTheorems, TLAPS

USE NumberAssumption DEF SbnSize, PdhSize

\* The input does not change.
Ind == input \in Inputs /\ IInv

LEMMA FourIndices ==
  /\ \A n \in Nat : n + 1 - 1 = n /\ n + 2 - 1 = n + 1 /\ n + 3 - 1 = n + 2 /\ n + 4 - 1 = n + 3
  /\ {1, 2, 3, 4} = 1..4
OBVIOUS

\* What the type invariant says of the input, and of what is wanted.
LEMMA InputFacts ==
  ASSUME Ind
  PROVE  /\ cells \in Seq(Nat)
         /\ Len(cells) \in Nat
         /\ pos \in Nat /\ pos <= Len(cells)
         /\ left \in Nat /\ left = Len(cells) - pos
         /\ \A i \in 1..Len(cells) : cells[i] \in Nat /\ cells[i] + PdhSize <= BufSize
<1>1. cells \in Seq(Nat)
  BY DEF Ind, IInv, TypeOK, Input, cells
<1>2. \A i \in 1..Len(cells) : cells[i] \in Nat /\ cells[i] + PdhSize <= BufSize
  BY <1>1, BufferAssumption DEF Ind, cells
<1>3. pos \in 0..Len(cells)
  BY DEF Ind, IInv, TypeOK
<1>4. Len(cells) \in Nat
  BY <1>1
<1>5. pos \in Nat /\ pos <= Len(cells) /\ left \in Nat /\ left = Len(cells) - pos
  BY <1>3, <1>4 DEF left
<1>6. QED BY <1>1, <1>2, <1>4, <1>5

\* Where the amounts of each read go.
LEMMA WantedFacts ==
  ASSUME Ind, pc \notin {"done", "aborted"}
  PROVE  /\ Wanted(pc).at \in Nat
         /\ want = Wanted(pc).n /\ want \in Int
         /\ pc \in {"pdh", "extra", "psh", "data"} \/ (pc = "first" /\ want = 1)
              \/ (pc = "rest" /\ want = 3 /\ Wanted(pc).at = 1)
              \/ (pc = "shift" /\ want = ioff /\ Wanted(pc).at = 4 - ioff)
         /\ pc = "first" => Wanted(pc).at = 0
         /\ pc = "pdh" => want = 4 /\ Wanted(pc).at = 4
<1>1. /\ pc \in {"first", "rest", "shift", "pdh", "extra", "psh", "data"}
      /\ ioff \in 0..3
      /\ sbn.len \in Nat
      /\ pdh.len \in Nat /\ pdh.total \in Nat /\ pdh.size \in Nat
  BY DEF Ind, IInv, TypeOK, InFrame, Pdh
<1>2. QED BY <1>1 DEF Wanted, want

\* What is read is what comes next.
LEMMA FilledFacts ==
  ASSUME Ind, pc \notin {"done", "aborted"}, NEW k \in Nat, k <= left
  PROVE  /\ Filled(k) \in [1..BufSize -> Nat]
         /\ \A i \in 1..BufSize : i <= Wanted(pc).at => Filled(k)[i] = buf[i]
         /\ \A i \in 1..BufSize : i - Wanted(pc).at \in 1..k =>
              Filled(k)[i] = cells[pos + i - Wanted(pc).at]
<1>1. \A i \in 1..BufSize : i - Wanted(pc).at \in 1..k =>
        cells[pos + i - Wanted(pc).at] \in Nat
  <2>1. TAKE i \in 1..BufSize
  <2>2. HAVE i - Wanted(pc).at \in 1..k
  <2>3. pos + i - Wanted(pc).at \in 1..Len(cells)
    <3>1. pos \in Nat /\ Len(cells) \in Nat /\ k <= Len(cells) - pos /\ Wanted(pc).at \in Nat
      BY InputFacts, WantedFacts
    <3>2. i \in Nat
      OBVIOUS
    <3>3. \A n, m, a, l \in Nat : m <= l - n /\ i - a \in 1..m => n + i - a \in 1..l
      BY <3>2
    <3>4. QED BY <2>2, <3>1, <3>3
  <2>4. QED BY <2>3, InputFacts
<1>2. buf \in [1..BufSize -> Nat]
  BY DEF Ind, IInv, TypeOK
<1>3. Wanted(pc).at \in Nat
  BY WantedFacts
<1> DEFINE at == Wanted(pc).at
<1>4. /\ Filled(k) \in [1..BufSize -> Nat]
      /\ \A i \in 1..BufSize : Filled(k)[i] = IF i - at \in 1..k THEN cells[pos + i - at] ELSE buf[i]
  BY <1>1, <1>2 DEF Filled
<1>5. \A i \in 1..BufSize : i <= at => i - at \notin 1..k
  BY <1>3
<1>6. QED BY <1>4, <1>5

\* A header begins with the cells at its place.
LEMMA FourCells ==
  ASSUME Ind, NEW p \in Nat, p >= 1, p + 3 <= Len(cells)
  PROVE  /\ SubSeq(cells, p, p + 3)[1] = cells[p]
         /\ SubSeq(cells, p, p + 3)[2] = cells[p + 1]
         /\ SubSeq(cells, p, p + 3)[3] = cells[p + 2]
         /\ SubSeq(cells, p, p + 3)[4] = cells[p + 3]
<1>1. cells \in Seq(Nat) /\ Len(cells) \in Nat
  BY InputFacts
<1>2. \A i \in 1..4 : SubSeq(cells, p, p + 3)[i] = cells[p + i - 1]
  <2>1. \A i \in p..(p + 3) : cells[i] \in Nat
    BY <1>1
  <2>2. p \in Int /\ p + 3 \in Int /\ (p + 3) - p + 1 = 4
    OBVIOUS
  <2>3. \A i \in 1..((p + 3) - p + 1) : SubSeq(cells, p, p + 3)[i] = cells[p + i - 1]
    BY <2>1, <2>2, SubSeqProperties
  <2>4. QED BY <2>2, <2>3
<1>3. QED BY <1>2, FourIndices

\* The cells in hand, complete, are those from "begun" on.
LEMMA HandFacts ==
  ASSUME Ind, InHand, ~Refused, want <= left
  PROVE  /\ want \in 1..3
         /\ begun \in Nat /\ begun >= 1 /\ begun + 3 = pos + want
         /\ \A i \in 1..4 : Filled(want)[i] = cells[begun + i - 1]
         /\ IsSbn(Filled(want)) <=> SbnAt(begun)
<1>1. pc \in {"rest", "shift"}
  BY DEF InHand
<1>2. BufSize \in Nat /\ BufSize >= 8
  OBVIOUS
<1>3. ioff \in 0..3 /\ begun \in Nat /\ begun >= 1
  BY InputFacts DEF Ind, IInv, TypeOK
<1>4. want \in 1..3 /\ begun + 3 = pos + want
  <2>1. pos \in Nat
    BY InputFacts
  <2>2. pc = "rest" => begun = pos /\ want = 3
    BY WantedFacts, <1>1 DEF Ind, IInv, InHandOK
  <2>3. pc = "shift" => ioff # 0 /\ begun + 4 - ioff - 1 = pos /\ want = ioff
    BY WantedFacts, <1>1 DEF Ind, IInv, InHandOK
  <2>4. QED BY <1>1, <1>3, <2>1, <2>2, <2>3
<1>5. \A i \in 1..4 : i <= Wanted(pc).at \/ i - Wanted(pc).at \in 1..want
  BY <1>1, <1>3, <1>4, WantedFacts
<1>6. /\ \A i \in 1..4 : i <= Wanted(pc).at => Filled(want)[i] = buf[i]
      /\ \A i \in 1..4 : i - Wanted(pc).at \in 1..want =>
           Filled(want)[i] = cells[pos + i - Wanted(pc).at]
  <2>1. want \in Nat /\ \A i \in 1..4 : i \in 1..BufSize
    BY <1>2, <1>4
  <2>2. QED BY <1>1, <2>1, FilledFacts
<1>7. \A i \in 1..4 : i <= Wanted(pc).at => buf[i] = cells[begun + i - 1]
  BY <1>1, <1>3, WantedFacts DEF Ind, IInv, InHandOK
<1>8. \A i \in 1..4 : pos + i - Wanted(pc).at = begun + i - 1
  <2>1. Wanted(pc).at = 4 - want
    BY <1>1, <1>3, WantedFacts
  <2>2. pos \in Nat
    BY InputFacts
  <2>3. QED BY <1>3, <1>4, <2>1, <2>2
<1>9. \A i \in 1..4 : Filled(want)[i] = cells[begun + i - 1]
  BY <1>5, <1>6, <1>7, <1>8
<1>10. IsSbn(Filled(want)) <=> SbnAt(begun)
  <2>1. begun + 3 <= Len(cells)
    BY <1>4, InputFacts
  <2>2. /\ SubSeq(cells, begun, begun + 3)[1] = cells[begun]
        /\ SubSeq(cells, begun, begun + 3)[2] = cells[begun + 1]
        /\ SubSeq(cells, begun, begun + 3)[3] = cells[begun + 2]
        /\ SubSeq(cells, begun, begun + 3)[4] = cells[begun + 3]
    BY <1>3, <2>1, FourCells
  <2>3. /\ Filled(want)[1] = cells[begun]
        /\ Filled(want)[2] = cells[begun + 1]
        /\ Filled(want)[3] = cells[begun + 2]
        /\ Filled(want)[4] = cells[begun + 3]
    BY <1>3, <1>9, FourIndices
  <2>4. QED BY <1>3, <2>1, <2>2, <2>3 DEF IsSbn, SbnAt
<1>11. QED BY <1>3, <1>4, <1>9, <1>10

\* No header begins with another cell than a Start.
LEMMA StartFacts ==
  ASSUME Ind, NEW p \in Nat, p >= 1, SbnAt(p)
  PROVE  p + 3 <= Len(cells) /\ cells[p] = Start
<1>1. p + 3 <= Len(cells)
  BY DEF SbnAt
<1>2. SubSeq(cells, p, p + 3)[1] = cells[p]
  BY <1>1, FourCells
<1>3. QED BY <1>1, <1>2 DEF SbnAt, IsSbn

-----------------------------------------------------------------------------
(***************************************************************************)
(* The invariant.                                                          *)
(***************************************************************************)
LEMMA InitInd == Init => Ind
<1> SUFFICES ASSUME Init PROVE Ind
  OBVIOUS
<1>1. input \in Input /\ cells \in Seq(Nat) /\ Len(cells) \in Nat
  BY InputAssumption DEF Init, Input, cells
<1>2. TypeOK
  BY <1>1 DEF Init, TypeOK, Pdh
<1>3. InHandOK
  BY DEF Init, InHandOK, InFrame
<1>4. HeadersAreFound
  BY DEF Init, HeadersAreFound, Passed, InFrame
<1>5. QED BY <1>2, <1>3, <1>4 DEF Init, Ind, IInv

\* What a step passes over has no headers but those taken.
LEMMA FoundStep ==
  ASSUME Ind, input' = input,
         Passed' \in Int,
         taken \subseteq taken',
         \A p \in 1..Passed' : p > Passed /\ SbnAt(p) => p \in taken',
         pc' \in InFrame => SbnAt(begun')
  PROVE  HeadersAreFound'
<1>1. cells' = cells
  BY DEF cells
<1>2. \A p : SbnAt(p)' <=> SbnAt(p)
  BY <1>1 DEF SbnAt, IsSbn
<1>3. SbnAt(begun)' <=> SbnAt(begun')
  BY <1>1 DEF SbnAt, IsSbn
<1>4. Passed \in Int
  BY InputFacts DEF Ind, IInv, TypeOK, Passed
<1>5. \A p \in 1..Passed' : SbnAt(p) => p \in taken'
  <2>1. TAKE p \in 1..Passed'
  <2>2. HAVE SbnAt(p)
  <2>3. p <= Passed => p \in 1..Passed
    BY <1>4
  <2>4. p <= Passed \/ p > Passed
    BY <1>4
  <2>5. QED BY <2>2, <2>3, <2>4 DEF Ind, IInv, HeadersAreFound
<1>6. QED BY <1>2, <1>3, <1>5 DEF HeadersAreFound

\* The search gives up, or starts again behind what has been read.
LEMMA SearchEnds ==
  ASSUME Ind, pc \in {"first", "rest", "shift"},
         pc' \in {"first", "done", "aborted"},
         UNCHANGED <<source, input, ioff, sbn, pdh, handled>>,
         buf' \in [1..BufSize -> Nat],
         begun' \in 1..Len(cells) + 1,
         pos' \in Nat, pos <= pos', pos' <= Len(cells),
         faults' \in 0..MaxFaults,
         taken \subseteq taken', taken' \subseteq 1..Len(cells),
         \A p \in 1..pos' : p > Passed /\ SbnAt(p) => p \in taken'
  PROVE  Ind'
<1>1. cells' = cells /\ Len(cells) \in Nat
  BY InputFacts DEF cells
<1>2. TypeOK'
  <2>1. /\ source' \in Sources /\ input' \in Input /\ ioff' \in 0..SbnSize - 1
        /\ sbn' \in [len : Nat, command : Nat] /\ pdh' \in Pdh /\ handled' \subseteq Frame
    BY DEF Ind, IInv, TypeOK
  <2>2. /\ pos' \in 0..Len(cells') /\ begun' \in 1..Len(cells') + 1
        /\ taken' \subseteq 1..Len(cells')
    BY <1>1
  <2>3. pc' \in {"first", "rest", "shift", "done", "aborted"} \union InFrame
    OBVIOUS
  <2>4. QED BY <2>1, <2>2, <2>3, Zenon DEF TypeOK
<1>3. InHandOK'
  BY DEF InHandOK, InFrame
<1>4. HeadersAreFound'
  <2>1. Passed' = pos'
    BY DEF Passed, InFrame
  <2>2. pc' \notin InFrame
    BY DEF InFrame
  <2>3. \A p \in 1..Passed' : p > Passed /\ SbnAt(p) => p \in taken'
    BY <2>1
  <2>4. QED BY <2>1, <2>2, <2>3, FoundStep
<1>5. QED BY <1>2, <1>3, <1>4 DEF Ind, IInv

\* A frame goes on, or is over.
LEMMA FrameStep ==
  ASSUME Ind, pc \in InFrame,
         NEW place \in InFrame \union {"first", "done"}, GoOn(place),
         UNCHANGED <<source, input, ioff, sbn, begun>>,
         pos' \in Nat, pos <= pos', pos' <= Len(cells),
         buf' \in [1..BufSize -> Nat],
         pdh' \in Pdh,
         handled' \subseteq Frame,
         faults' \in 0..MaxFaults
  PROVE  Ind'
<1>1. cells' = cells /\ Len(cells) \in Nat /\ pos \in Nat
  BY InputFacts DEF cells
<1>2. begun \in Nat /\ begun >= 1 /\ taken \subseteq 1..Len(cells)
  BY <1>1 DEF Ind, IInv, TypeOK
<1>3. begun..pos' \subseteq 1..Len(cells)
  BY <1>1, <1>2
<1>4. taken \subseteq taken' /\ taken' \subseteq 1..Len(cells)
  BY <1>2, <1>3 DEF GoOn
<1>5. TypeOK'
  <2>1. /\ source' \in Sources /\ input' \in Input /\ ioff' \in 0..SbnSize - 1
        /\ sbn' \in [len : Nat, command : Nat] /\ begun' \in 1..Len(cells) + 1
    BY DEF Ind, IInv, TypeOK
  <2>2. /\ pos' \in 0..Len(cells') /\ begun' \in 1..Len(cells') + 1
        /\ taken' \subseteq 1..Len(cells')
    BY <1>1, <1>4, <2>1
  <2>3. pc' \in {"first", "rest", "shift", "done", "aborted"} \union InFrame
    BY DEF GoOn
  <2>4. QED BY <2>1, <2>2, <2>3, Zenon DEF TypeOK
<1>6. InHandOK'
  <2>1. begun + 3 <= pos /\ sbn.len + 4 <= BufSize
    BY DEF Ind, IInv, InHandOK
  <2>2. begun + 3 <= pos'
    BY <1>1, <1>2, <2>1
  <2>3. pc' \notin {"rest", "shift"}
    BY DEF GoOn, InFrame
  <2>4. begun' + 3 <= pos' /\ sbn'.len + 4 <= BufSize
    BY <2>1, <2>2
  <2>5. \A n \in Nat : n + 4 - 1 = n + 3
    OBVIOUS
  <2>6. begun' + 4 - 1 = begun' + 3
    BY <1>2, <2>5
  <2>7. QED BY <2>3, <2>4, <2>6 DEF InHandOK
<1>7. HeadersAreFound'
  <2>1. SbnAt(begun) /\ Passed = begun - 1
    BY DEF Ind, IInv, HeadersAreFound, Passed
  <2>2. CASE place \in InFrame
    <3>1. pc' = place /\ Passed' = begun - 1
      BY <2>2 DEF GoOn, Passed
    <3>2. QED BY <1>2, <1>4, <2>1, <3>1, FoundStep
  <2>3. CASE place \notin InFrame
    <3>1. pc' = place /\ taken' = taken \union (begun..pos')
      BY <2>3 DEF GoOn
    <3>2. Passed' = pos'
      BY <2>3, <3>1 DEF Passed
    <3>3. \A p \in 1..pos' : p > begun - 1 => p \in begun..pos'
      BY <1>2
    <3>4. QED BY <1>4, <2>1, <2>3, <3>1, <3>2, <3>3, FoundStep
  <2>4. QED BY <2>2, <2>3
<1>8. QED BY <1>5, <1>6, <1>7 DEF Ind, IInv

-----------------------------------------------------------------------------
(***************************************************************************)
(* The steps of the search.                                                *)
(***************************************************************************)
LEMMA FirstByteInd == ASSUME Ind, FirstByte PROVE Ind'
<1>1. /\ pc = "first" /\ want = 1 /\ Wanted(pc).at = 0 /\ Passed = pos
      /\ pos \in Nat /\ Len(cells) \in Nat
  BY InputFacts, WantedFacts DEF FirstByte, Passed, InFrame
<1>2. pos' = pos + 1 /\ pos + 1 <= Len(cells)
  BY <1>1, InputFacts DEF FirstByte, Got
<1>3. buf' \in [1..BufSize -> Nat] /\ buf'[1] = cells[pos + 1]
  <2>1. 1 <= left /\ 1 \in Nat /\ 1 \in 1..BufSize /\ 1 - 0 \in 1..1 /\ pos + 1 - 0 = pos + 1
    <3>1. 1 \in Nat /\ 1 \in 1..BufSize /\ 1 - 0 \in 1..1
      OBVIOUS
    <3>2. left = Len(cells) - pos
      BY InputFacts
    <3>3. 1 <= left /\ pos + 1 - 0 = pos + 1
      BY <1>1, <1>2, <3>2
    <3>4. QED BY <3>1, <3>3
  <2>2. Filled(1) \in [1..BufSize -> Nat]
    BY <1>1, <2>1, FilledFacts
  <2>3. Filled(1)[1] = cells[pos + 1 - 0]
    <3>1. \A i \in 1..BufSize : i - Wanted(pc).at \in 1..1 =>
             Filled(1)[i] = cells[pos + i - Wanted(pc).at]
      BY <1>1, <2>1, FilledFacts
    <3>2. \A i \in 1..BufSize : i - 0 \in 1..1 => Filled(1)[i] = cells[pos + i - 0]
      BY <1>1, <3>1
    <3>3. QED BY <2>1, <3>2
  <2>4. QED BY <2>1, <2>2, <2>3 DEF FirstByte
<1>4. /\ UNCHANGED <<source, input, ioff, sbn, pdh, handled, taken, faults>>
      /\ begun' = pos + 1 /\ pc' = IF buf'[1] = Start THEN "rest" ELSE "first"
  BY <1>2 DEF FirstByte, Got
<1>5. /\ faults' \in 0..MaxFaults /\ taken \subseteq taken' /\ taken' \subseteq 1..Len(cells)
      /\ begun' \in 1..Len(cells) + 1
  BY <1>1, <1>2, <1>4 DEF Ind, IInv, TypeOK
<1>6. CASE buf'[1] # Start
  <2>1. \A p \in 1..pos' : p > Passed => p = pos + 1
    BY <1>1, <1>2
  <2>2. ~SbnAt(pos + 1)
    BY <1>1, <1>3, <1>6, StartFacts
  <2>3. \A p \in 1..pos' : p > Passed /\ SbnAt(p) => p \in taken'
    BY <2>1, <2>2
  <2>4. pos' \in Nat /\ pos <= pos' /\ pos' <= Len(cells)
    BY <1>1, <1>2
  <2>5. pc \in {"first", "rest", "shift"} /\ pc' \in {"first", "done", "aborted"}
    BY <1>1, <1>4, <1>6
  <2>6. QED BY <1>3, <1>4, <1>5, <2>3, <2>4, <2>5, SearchEnds
<1>7. CASE buf'[1] = Start
  <2>1. pc' = "rest" /\ cells' = cells
    BY <1>4, <1>7 DEF cells
  <2>2. TypeOK'
    <3>1. /\ source' \in Sources /\ input' \in Input /\ ioff' \in 0..SbnSize - 1
          /\ sbn' \in [len : Nat, command : Nat] /\ pdh' \in Pdh /\ handled' \subseteq Frame
      BY <1>4 DEF Ind, IInv, TypeOK
    <3>2. /\ pos' \in 0..Len(cells') /\ begun' \in 1..Len(cells') + 1
          /\ taken' \subseteq 1..Len(cells') /\ faults' \in 0..MaxFaults
      BY <1>1, <1>2, <1>5, <2>1
    <3>3. pc' \in {"first", "rest", "shift", "done", "aborted"} \union InFrame
      BY <2>1
    <3>4. QED BY <1>3, <3>1, <3>2, <3>3, Zenon DEF TypeOK
  <2>3. InHandOK'
    BY <1>2, <1>3, <1>4, <2>1 DEF InHandOK, InFrame
  <2>4. HeadersAreFound'
    <3>1. Passed' = pos /\ pc' \notin InFrame
      BY <1>1, <1>4, <2>1 DEF Passed, InFrame
    <3>2. \A p \in 1..Passed' : ~(p > Passed)
      BY <1>1, <3>1
    <3>3. QED BY <1>1, <1>4, <1>5, <3>1, <3>2, FoundStep
  <2>5. QED BY <1>4, <2>2, <2>3, <2>4 DEF Ind, IInv
<1>8. QED BY <1>6, <1>7

\* What the steps that complete the cells in hand have in common.
LEMMA InHandFacts ==
  ASSUME Ind, InHand, Got
  PROVE  /\ Filled(want) \in [1..BufSize -> Nat]
         /\ pos \in Nat /\ Len(cells) \in Nat /\ begun \in 1..Len(cells)
         /\ pos' = begun + 3 /\ pos <= pos' /\ pos' <= Len(cells)
         /\ Passed = begun - 1 /\ cells' = cells
         /\ \A i \in 1..4 : Filled(want)[i] = cells[begun + i - 1]
         /\ IsSbn(Filled(want)) <=> SbnAt(begun)
<1>1. pc \in {"rest", "shift"} /\ pc \notin {"done", "aborted"} /\ ~Refused /\ want <= left
  BY DEF InHand, Got
<1>2. want \in 1..3 /\ begun + 3 = pos + want /\ begun \in Nat /\ begun >= 1
  BY <1>1, HandFacts
<1>3. Filled(want) \in [1..BufSize -> Nat]
  BY <1>1, <1>2, FilledFacts
<1>4. /\ pos \in Nat /\ Len(cells) \in Nat /\ begun \in 1..Len(cells)
      /\ pos' = begun + 3 /\ pos <= pos' /\ pos' <= Len(cells)
  <2>1. pos \in Nat /\ Len(cells) \in Nat /\ left = Len(cells) - pos
    BY InputFacts
  <2>2. pos' = pos + want
    BY DEF Got
  <2>3. pos' = begun + 3 /\ pos <= pos' /\ pos' <= Len(cells)
    BY <1>1, <1>2, <2>1, <2>2
  <2>4. begun \in 1..Len(cells)
    BY <1>2, <2>1, <2>3
  <2>5. QED BY <2>1, <2>3, <2>4
<1>5. Passed = begun - 1 /\ cells' = cells
  BY <1>1 DEF Passed, Got, cells
<1>6. QED BY <1>1, <1>3, <1>4, <1>5, HandFacts

LEMMA AcceptInd == ASSUME Ind, Accept PROVE Ind'
<1> DEFINE b == Filled(want)
<1>1. InHand /\ Got /\ IsSbn(b)
  BY DEF Accept
<1>2. /\ UNCHANGED <<source, input, ioff, pdh, begun, taken, handled, faults>>
      /\ buf' = b /\ sbn' = [len |-> b[2], command |-> b[3]] /\ pc' = "pdh"
  BY DEF Accept, Got
<1>3. /\ b \in [1..BufSize -> Nat]
      /\ pos \in Nat /\ Len(cells) \in Nat /\ begun \in 1..Len(cells)
      /\ pos' = begun + 3 /\ pos <= pos' /\ pos' <= Len(cells)
      /\ Passed = begun - 1 /\ cells' = cells /\ SbnAt(begun)
      /\ \A i \in 1..4 : b[i] = cells[begun + i - 1]
  BY <1>1, InHandFacts
<1> HIDE DEF b
<1>4. b[2] \in Nat /\ b[3] \in Nat /\ b[2] + 4 <= BufSize
  <2>1. begun \in Nat /\ 1 <= begun /\ begun + 3 <= Len(cells) /\ Len(cells) \in Nat
    BY <1>3
  <2>2. begun + 2 - 1 \in 1..Len(cells) /\ begun + 3 - 1 \in 1..Len(cells)
    BY <2>1
  <2>3. b[2] = cells[begun + 2 - 1] /\ b[3] = cells[begun + 3 - 1]
    BY <1>3
  <2>4. QED BY <2>2, <2>3, InputFacts
<1>5. TypeOK'
  <2>1. /\ source' \in Sources /\ input' \in Input /\ ioff' \in 0..SbnSize - 1
        /\ pdh' \in Pdh /\ handled' \subseteq Frame /\ faults' \in 0..MaxFaults
        /\ taken' \subseteq 1..Len(cells)
    BY <1>2 DEF Ind, IInv, TypeOK
  <2>2. /\ pos' \in 0..Len(cells') /\ begun' \in 1..Len(cells') + 1
        /\ taken' \subseteq 1..Len(cells')
    <3>1. /\ Len(cells) \in Nat /\ begun \in 1..Len(cells) /\ begun' = begun
          /\ pos' = begun + 3 /\ pos' <= Len(cells) /\ cells' = cells
      BY <1>2, <1>3
    <3>2. QED BY ONLY <2>1, <3>1
  <2>3. pc' \in {"first", "rest", "shift", "done", "aborted"} \union InFrame
    BY <1>2 DEF InFrame
  <2>4. sbn' \in [len : Nat, command : Nat] /\ buf' \in [1..BufSize -> Nat]
    BY <1>2, <1>3, <1>4
  <2>5. QED BY <2>1, <2>2, <2>3, <2>4, Zenon DEF TypeOK
<1>6. InHandOK'
  <2>1. pc' \notin {"rest", "shift"} /\ sbn'.len + 4 <= BufSize
    BY <1>2, <1>4
  <2>2. begun' + 4 - 1 <= pos'
    BY <1>2, <1>3
  <2>3. QED BY <2>1, <2>2 DEF InHandOK
<1>7. HeadersAreFound'
  <2>1. Passed' = begun - 1 /\ \A p \in 1..Passed' : ~(p > Passed)
    BY <1>2, <1>3 DEF Passed, InFrame
  <2>2. Passed' \in Int /\ taken \subseteq taken' /\ SbnAt(begun')
    BY <1>2, <1>3, <2>1
  <2>3. QED BY <1>2, <2>1, <2>2, FoundStep
<1>8. QED BY <1>2, <1>5, <1>6, <1>7 DEF Ind, IInv

\* No header begins where the cells in hand have no Start.
LEMMA PassedOver ==
  ASSUME Ind, InHand, Got, ~IsSbn(Filled(want)),
         NEW k \in 1..4, \A j \in Starts(Filled(want)) : k <= j
  PROVE  \A p \in begun..begun + k - 1 : ~SbnAt(p)
<1> DEFINE b == Filled(want)
<1>1. /\ begun \in 1..Len(cells) /\ Len(cells) \in Nat
      /\ \A i \in 1..4 : b[i] = cells[begun + i - 1]
      /\ ~SbnAt(begun)
  BY InHandFacts
<1>2. \A j \in 1..3 : b[j + 1] = Start => k <= j
  BY DEF Starts
<1> HIDE DEF b
<1>3. TAKE p \in begun..begun + k - 1
<1>4. CASE p = begun
  BY <1>1, <1>4
<1>5. CASE p # begun
  <2>1. PICK j \in 1..3 : p = begun + j /\ j < k
    <3>1. begun \in Nat
      BY <1>1
    <3>2. p - begun \in 1..3 /\ p = begun + (p - begun) /\ p - begun < k
      BY <1>5, <3>1
    <3>3. QED BY <3>2
  <2>2. b[j + 1] # Start
    BY <1>2, <2>1
  <2>3. j + 1 \in 1..4 /\ begun + (j + 1) - 1 = p
    BY <1>1, <2>1
  <2>4. b[j + 1] = cells[p]
    BY <1>1, <2>3
  <2>5. p \in Nat /\ p >= 1
    BY <1>1
  <2>6. QED BY <2>2, <2>4, <2>5, StartFacts
<1>6. QED BY <1>4, <1>5

LEMMA ShiftInd == ASSUME Ind, Shift PROVE Ind'
<1> DEFINE b == Filled(want)
<1>1. InHand /\ Got /\ ~IsSbn(b)
  BY DEF Shift
<1>2. PICK k \in Starts(b) :
        /\ \A j \in Starts(b) : k <= j
        /\ ioff' = k /\ begun' = begun + k
        /\ buf' = [i \in 1..BufSize |-> IF i <= 4 - k THEN b[i + k] ELSE b[i]]
  BY DEF Shift
<1>3. UNCHANGED <<source, input, sbn, pdh, taken, handled, faults>> /\ pc' = "shift"
  BY DEF Shift, Got
<1>4. k \in 1..3
  BY <1>2 DEF Starts
<1>5. \A p \in begun..begun + k - 1 : ~SbnAt(p)
  BY <1>1, <1>2, <1>4, PassedOver
<1>6. /\ b \in [1..BufSize -> Nat]
      /\ pos \in Nat /\ Len(cells) \in Nat /\ begun \in 1..Len(cells)
      /\ pos' = begun + 3 /\ pos <= pos' /\ pos' <= Len(cells)
      /\ Passed = begun - 1 /\ cells' = cells
      /\ \A i \in 1..4 : b[i] = cells[begun + i - 1]
  BY <1>1, InHandFacts
<1> HIDE DEF b
<1>7. TypeOK'
  <2>1. /\ source' \in Sources /\ input' \in Input
        /\ pdh' \in Pdh /\ handled' \subseteq Frame /\ faults' \in 0..MaxFaults
        /\ taken' \subseteq 1..Len(cells) /\ sbn' \in [len : Nat, command : Nat]
    BY <1>3 DEF Ind, IInv, TypeOK
  <2>2. /\ pos' \in 0..Len(cells') /\ begun' \in 1..Len(cells') + 1
        /\ taken' \subseteq 1..Len(cells') /\ ioff' \in 0..SbnSize - 1
    <3>1. /\ Len(cells) \in Nat /\ begun \in 1..Len(cells) /\ begun' = begun + k
          /\ pos' = begun + 3 /\ pos' <= Len(cells) /\ cells' = cells /\ ioff' = k
      BY <1>2, <1>6
    <3>2. QED BY ONLY <1>4, <2>1, <3>1 DEF SbnSize
  <2>3. pc' \in {"first", "rest", "shift", "done", "aborted"} \union InFrame
    BY <1>3
  <2>4. buf' \in [1..BufSize -> Nat]
    <3>1. \A i \in 1..BufSize : i <= 4 - k => i + k \in 1..BufSize
      BY <1>4
    <3>2. \A i \in 1..BufSize : (IF i <= 4 - k THEN b[i + k] ELSE b[i]) \in Nat
      BY <1>6, <3>1
    <3>3. QED BY <1>2, <3>2
  <2>5. QED BY <2>1, <2>2, <2>3, <2>4, Zenon DEF TypeOK
<1>8. InHandOK'
  <2>1. \A i \in 1..4 - k : buf'[i] = cells[begun + k + i - 1]
    <3>1. TAKE i \in 1..4 - k
    <3>2. i \in 1..BufSize /\ i + k \in 1..4 /\ i <= 4 - k
      BY <1>4
    <3>3. buf'[i] = b[i + k]
      BY <1>2, <3>2
    <3>4. begun + (i + k) - 1 = begun + k + i - 1
      BY <1>4, <1>6
    <3>5. QED BY <1>6, <3>2, <3>3, <3>4
  <2>2. begun + k + 4 - k - 1 = begun + 3 /\ k # 0
    BY <1>4, <1>6
  <2>3. pc' \notin InFrame /\ pc' # "rest"
    BY <1>3 DEF InFrame
  <2>4. cells' = cells /\ ioff' = k /\ begun' = begun + k /\ pos' = begun + 3
    BY <1>2, <1>6
  <2>5. ioff' # 0 /\ begun' + 4 - ioff' - 1 = pos'
    BY <2>2, <2>4
  <2>6. \A i \in 1..4 - ioff' : buf'[i] = cells'[begun' + i - 1]
    BY <2>1, <2>4
  <2>7. QED BY <2>3, <2>5, <2>6, Zenon DEF InHandOK
<1>9. HeadersAreFound'
  <2>1. Passed' = begun + k - 1 /\ pc' \notin InFrame
    <3>1. begun' = begun + k /\ pc' = "shift"
      BY <1>2, <1>3
    <3>2. Passed' = begun' - 1 /\ pc' \notin InFrame
      BY ONLY <3>1 DEF Passed, InFrame
    <3>3. begun' - 1 = begun + k - 1
      BY <1>4, <1>6, <3>1
    <3>4. QED BY <3>2, <3>3
  <2>2. \A p \in 1..Passed' : p > Passed => p \in begun..begun + k - 1
    BY <1>4, <1>6, <2>1
  <2>3. Passed' \in Int
    BY <1>4, <1>6, <2>1
  <2>4. QED BY <1>3, <1>5, <2>1, <2>2, <2>3, FoundStep
<1>10. QED BY <1>3, <1>7, <1>8, <1>9 DEF Ind, IInv

LEMMA NoStartInd == ASSUME Ind, NoStart PROVE Ind'
<1>1. InHand /\ Got /\ ~IsSbn(Filled(want)) /\ Starts(Filled(want)) = {}
  BY DEF NoStart
<1>2. /\ UNCHANGED <<source, input, ioff, sbn, pdh, begun, taken, handled, faults>>
      /\ buf' = Filled(want) /\ pc' = "first"
  BY DEF NoStart, Got
<1>3. 4 \in 1..4 /\ \A j \in Starts(Filled(want)) : 4 <= j
  BY <1>1
<1>4. \A p \in begun..begun + 4 - 1 : ~SbnAt(p)
  BY <1>1, <1>3, PassedOver
<1>5. /\ Filled(want) \in [1..BufSize -> Nat]
      /\ pos \in Nat /\ Len(cells) \in Nat /\ begun \in 1..Len(cells)
      /\ pos' = begun + 3 /\ pos <= pos' /\ pos' <= Len(cells)
      /\ Passed = begun - 1
  BY <1>1, InHandFacts
<1>6. \A p \in 1..pos' : p > Passed => p \in begun..begun + 4 - 1
  <2>1. /\ Len(cells) \in Nat /\ begun \in 1..Len(cells) /\ pos' = begun + 3
        /\ Passed = begun - 1
    BY <1>5
  <2>2. QED BY ONLY <2>1
<1>7. faults' \in 0..MaxFaults /\ taken \subseteq taken' /\ taken' \subseteq 1..Len(cells)
  BY <1>2 DEF Ind, IInv, TypeOK
<1>8. begun' \in 1..Len(cells) + 1 /\ pos' \in Nat /\ buf' \in [1..BufSize -> Nat]
  BY <1>2, <1>5
<1>9. pc \in {"first", "rest", "shift"} /\ pc' \in {"first", "done", "aborted"}
  BY <1>1, <1>2 DEF InHand
<1>10. \A p \in 1..pos' : p > Passed /\ SbnAt(p) => p \in taken'
  BY <1>4, <1>6
<1>11. QED BY <1>2, <1>5, <1>7, <1>8, <1>9, <1>10, SearchEnds

-----------------------------------------------------------------------------
(***************************************************************************)
(* The steps within a frame, and failures.                                 *)
(***************************************************************************)
\* What the reads within a frame have in common.
LEMMA FrameFacts ==
  ASSUME Ind, pc \in InFrame, Got
  PROVE  /\ Filled(want) \in [1..BufSize -> Nat]
         /\ pos' \in Nat /\ pos <= pos' /\ pos' <= Len(cells)
         /\ UNCHANGED <<source, input, faults>> /\ faults' \in 0..MaxFaults
         /\ begun \in Nat /\ pdh \in Pdh /\ handled \subseteq Frame
         /\ sbn.len \in Nat /\ sbn.len + 4 <= BufSize
<1>1. pc \notin {"done", "aborted"}
  BY DEF InFrame
<1>2. want \in Nat /\ want <= left /\ pos' = pos + want
  BY <1>1, WantedFacts DEF Got, Refused
<1>3. Filled(want) \in [1..BufSize -> Nat]
  BY <1>1, <1>2, FilledFacts
<1>4. pos' \in Nat /\ pos <= pos' /\ pos' <= Len(cells)
  BY <1>2, InputFacts
<1>5. UNCHANGED <<source, input, faults>>
  BY DEF Got
<1>6. /\ faults' \in 0..MaxFaults /\ begun \in Nat /\ pdh \in Pdh /\ handled \subseteq Frame
      /\ sbn.len \in Nat
  BY <1>5, InputFacts DEF Ind, IInv, TypeOK
<1>7. sbn.len + 4 <= BufSize
  BY DEF Ind, IInv, InHandOK
<1>8. QED BY <1>3, <1>4, <1>5, <1>6, <1>7

LEMMA AfterPdhType == \A p : AfterPdh(p) \in InFrame \union {"first", "done"}
BY DEF AfterPdh, InFrame

LEMMA ReadPdhInd == ASSUME Ind, ReadPdh PROVE Ind'
<1> DEFINE b == Filled(want)
           at == sbn.len
<1>1. pc \in InFrame /\ Got
  BY DEF ReadPdh, InFrame
<1>2. buf' = b /\ UNCHANGED <<ioff, sbn, begun, handled>>
  BY DEF ReadPdh
<1>3. \/ GoOn("first") /\ UNCHANGED pdh
      \/ /\ pdh' = [len |-> b[at + 1], flags |-> b[at + 2], total |-> b[at + 3], size |-> b[at + 4]]
         /\ GoOn(IF pdh'.len > 4 THEN "extra" ELSE AfterPdh(pdh'))
  BY DEF ReadPdh
<1>4. /\ b \in [1..BufSize -> Nat] /\ at \in Nat /\ at + 4 <= BufSize
      /\ pos' \in Nat /\ pos <= pos' /\ pos' <= Len(cells)
      /\ UNCHANGED <<source, input, faults>> /\ faults' \in 0..MaxFaults
      /\ pdh \in Pdh /\ handled \subseteq Frame
  BY <1>1, FrameFacts
<1> HIDE DEF b, at
<1>5. pdh' \in Pdh
  <2>1. /\ at + 1 \in 1..BufSize /\ at + 2 \in 1..BufSize
        /\ at + 3 \in 1..BufSize /\ at + 4 \in 1..BufSize
    BY <1>4
  <2>2. b[at + 1] \in Nat /\ b[at + 2] \in Nat /\ b[at + 3] \in Nat /\ b[at + 4] \in Nat
    <3>1. \A j \in 1..BufSize : b[j] \in Nat
      BY <1>4
    <3>2. QED BY <2>1, <3>1
  <2>3. CASE UNCHANGED pdh
    BY <1>4, <2>3
  <2>4. CASE pdh' = [len |-> b[at + 1], flags |-> b[at + 2], total |-> b[at + 3], size |-> b[at + 4]]
    BY <2>2, <2>4 DEF Pdh
  <2>5. QED BY <1>3, <2>3, <2>4
<1>6. PICK place \in InFrame \union {"first", "done"} : GoOn(place)
  BY <1>3, AfterPdhType DEF InFrame
<1>7. QED BY <1>1, <1>2, <1>4, <1>5, <1>6, FrameStep

LEMMA ReadExtraInd == ASSUME Ind, ReadExtra PROVE Ind'
<1>1. pc \in InFrame /\ Got
  BY DEF ReadExtra, InFrame
<1>2. buf' = Filled(want) /\ UNCHANGED <<ioff, sbn, pdh, begun, handled>> /\ GoOn(AfterPdh(pdh))
  BY DEF ReadExtra
<1>3. PICK place \in InFrame \union {"first", "done"} : GoOn(place)
  BY <1>2, AfterPdhType
<1>4. QED BY <1>1, <1>2, <1>3, FrameFacts, FrameStep

LEMMA ReadPshInd == ASSUME Ind, ReadPsh PROVE Ind'
<1>1. pc \in InFrame /\ Got
  BY DEF ReadPsh, InFrame
<1>2. buf' = Filled(want) /\ UNCHANGED <<ioff, sbn, pdh, begun, handled>>
  BY DEF ReadPsh
<1>3. PICK place \in InFrame \union {"first", "done"} : GoOn(place)
  BY DEF ReadPsh, InFrame
<1>4. QED BY <1>1, <1>2, <1>3, FrameFacts, FrameStep

LEMMA ReadDataInd == ASSUME Ind, ReadData PROVE Ind'
<1>1. pc \in InFrame /\ Got
  BY DEF ReadData, InFrame
<1>2. /\ buf' = Filled(want) /\ UNCHANGED <<ioff, sbn, pdh, begun>> /\ GoOn("first")
      /\ handled' = handled \union {[at |-> begun, to |-> pos', pdh |-> pdh]}
  BY DEF ReadData
<1>3. [at |-> begun, to |-> pos', pdh |-> pdh] \in Frame
  BY <1>1, FrameFacts DEF Frame
<1>4. handled' \subseteq Frame
  BY <1>1, <1>2, <1>3, FrameFacts
<1>5. PICK place \in InFrame \union {"first", "done"} : GoOn(place)
  BY <1>2
<1>6. /\ buf' \in [1..BufSize -> Nat] /\ pdh' \in Pdh
      /\ pos' \in Nat /\ pos <= pos' /\ pos' <= Len(cells)
      /\ UNCHANGED <<source, input, ioff, sbn, begun>> /\ faults' \in 0..MaxFaults
  BY <1>1, <1>2, FrameFacts
<1>7. QED BY <1>1, <1>4, <1>5, <1>6, FrameStep

\* A read that fails in a frame, with k more cells read.
LEMMA FailedInFrame ==
  ASSUME Ind, pc \in InFrame, NEW k \in Nat, k <= left,
         pos' = pos + k, buf' \in [1..BufSize -> Nat],
         NEW place \in InFrame \union {"first", "done"}, GoOn(place),
         UNCHANGED <<source, input, ioff, sbn, pdh, begun, handled>>,
         faults' \in 0..MaxFaults
  PROVE  Ind'
<1>1. pos' \in Nat /\ pos <= pos' /\ pos' <= Len(cells)
  <2>1. pos \in Nat /\ Len(cells) \in Nat /\ left = Len(cells) - pos
    BY InputFacts
  <2>2. QED BY <2>1
<1>2. pdh' \in Pdh /\ handled' \subseteq Frame
  BY DEF Ind, IInv, TypeOK
<1>3. QED BY <1>1, <1>2, FrameStep

\* How much the search asks for.
LEMMA SearchFacts ==
  ASSUME Ind, pc \in {"first", "rest", "shift"}
  PROVE  /\ want \in 1..3
         /\ pc = "first" => want = 1
         /\ pc \in {"rest", "shift"} => begun + 3 = pos + want
<1>1. CASE pc = "first"
  BY <1>1, WantedFacts
<1>2. CASE pc = "rest"
  <2>1. want = 3 /\ begun = pos
    BY <1>2, WantedFacts DEF Ind, IInv, InHandOK
  <2>2. QED BY <1>2, <2>1
<1>3. CASE pc = "shift"
  <2>1. want = ioff
    BY <1>3, WantedFacts
  <2>2. begun + 4 - ioff - 1 = pos /\ ioff # 0
    BY <1>3 DEF Ind, IInv, InHandOK
  <2>3. ioff \in 0..3 /\ begun \in Nat
    BY InputFacts DEF Ind, IInv, TypeOK
  <2>4. begun + 3 = pos + ioff
    <3>1. \A i \in 0..3, n \in Nat : n + 3 = n + 4 - i - 1 + i
      OBVIOUS
    <3>2. QED BY <2>2, <2>3, <3>1
  <2>5. QED BY <1>3, <2>1, <2>2, <2>3, <2>4
<1>4. QED BY <1>1, <1>2, <1>3

\* A read that fails in the search, with k more cells read: a header is complete
\* no more, or those cells are given up.
LEMMA FailedInSearch ==
  ASSUME Ind, pc \in {"first", "rest", "shift"}, NEW k \in Nat, k <= left,
         pos' = pos + k, buf' \in [1..BufSize -> Nat],
         pc' \in {"first", "done", "aborted"},
         UNCHANGED <<source, input, ioff, sbn, pdh, begun, handled>>,
         faults' \in 0..MaxFaults,
         \/ taken' = taken /\ ((k = 0 /\ pc = "first") \/ (want > left /\ k = left))
         \/ taken' = taken \union (begun..pos') /\ pc # "first"
         \/ taken' = taken \union (pos + 1..pos') /\ pc = "first"
  PROVE  Ind'
<1>1. /\ pos \in Nat /\ Len(cells) \in Nat /\ left = Len(cells) - pos
      /\ pos' \in Nat /\ pos <= pos' /\ pos' <= Len(cells)
  <2>1. pos \in Nat /\ Len(cells) \in Nat /\ left = Len(cells) - pos
    BY InputFacts
  <2>2. QED BY <2>1
<1>2. begun \in 1..Len(cells) + 1 /\ taken \subseteq 1..Len(cells)
  BY DEF Ind, IInv, TypeOK
<1>3. begun..pos' \subseteq 1..Len(cells) /\ pos + 1..pos' \subseteq 1..Len(cells)
  BY <1>1, <1>2
<1>4. taken \subseteq taken' /\ taken' \subseteq 1..Len(cells)
  BY <1>2, <1>3
<1>5. \A p \in 1..pos' : p > Passed /\ SbnAt(p) => p \in taken'
  <2>1. TAKE p \in 1..pos'
  <2>2. HAVE p > Passed /\ SbnAt(p)
  <2>3. p + 3 <= Len(cells)
    BY <2>2, StartFacts
  <2>4. CASE pc = "first"
    <3>1. Passed = pos
      BY <2>4 DEF Passed, InFrame
    <3>2. want = 1
      BY <2>4, WantedFacts
    <3>3. CASE taken' = taken \union (pos + 1..pos')
      BY <1>1, <2>2, <3>1, <3>3
    <3>4. CASE k = 0 \/ (1 > left /\ k = left)
      BY <1>1, <2>2, <3>1, <3>4
    <3>5. QED BY <2>4, <3>2, <3>3, <3>4
  <2>5. CASE pc \in {"rest", "shift"}
    <3>1. Passed = begun - 1
      BY <2>5 DEF Passed
    <3>2. p \in begun..pos'
      BY <1>2, <2>2, <3>1
    <3>3. CASE taken' = taken \union (begun..pos')
      BY <3>2, <3>3
    <3>4. CASE want > left
      <4>1. begun + 3 = pos + want
        BY <2>5, SearchFacts
      <4>2. want \in Int
        BY <2>5, WantedFacts
      <4>3. FALSE
        BY <1>1, <1>2, <2>3, <3>2, <3>4, <4>1, <4>2
      <4>4. QED BY <4>3
    <3>5. QED BY <2>5, <3>3, <3>4
  <2>6. QED BY <2>4, <2>5
<1>6. begun' \in 1..Len(cells) + 1
  BY <1>2
<1>7. QED BY <1>1, <1>4, <1>5, <1>6, SearchEnds

\* The sources hold what the search asks for.
LEMMA NeverRefused ==
  ASSUME Ind, pc \in {"first", "rest", "shift"}
  PROVE  ~Refused
<1>1. want \in 1..3
  BY SearchFacts
<1>2. FifoSize \in Nat /\ FifoSize >= 4
  OBVIOUS
<1>3. QED BY <1>1, <1>2 DEF Refused

LEMMA ReadRefusedInd == ASSUME Ind, ReadRefused PROVE Ind'
<1>1. pc \in InFrame
  BY NeverRefused DEF ReadRefused, Ind, IInv, TypeOK
<1>2. PICK place \in InFrame \union {"first", "done"} : GoOn(place)
  BY AfterPdhType DEF ReadRefused
<1>3. UNCHANGED <<source, input, pos, buf, ioff, sbn, pdh, begun, handled, faults>>
  BY DEF ReadRefused
<1>4. buf' \in [1..BufSize -> Nat] /\ faults' \in 0..MaxFaults
  BY <1>3 DEF Ind, IInv, TypeOK
<1>5. 0 \in Nat /\ 0 <= left /\ pos' = pos + 0
  BY <1>3, InputFacts
<1>6. QED BY <1>1, <1>2, <1>3, <1>4, <1>5, FailedInFrame

LEMMA ReadClosedInd == ASSUME Ind, ReadClosed PROVE Ind'
<1>1. /\ pc \in {"first", "rest", "shift"} \union InFrame
      /\ left = 0
      /\ UNCHANGED <<source, input, pos, buf, ioff, sbn, pdh, begun, handled, faults>>
      /\ pc' = IF pc = "first" THEN "done" ELSE "first"
      /\ taken' = IF pc \in InFrame THEN taken \union (begun..pos) ELSE taken
  BY DEF ReadClosed, Ind, IInv, TypeOK
<1>2. buf' \in [1..BufSize -> Nat] /\ faults' \in 0..MaxFaults
  BY <1>1 DEF Ind, IInv, TypeOK
<1>3. 0 \in Nat /\ 0 <= left /\ pos' = pos + 0
  BY <1>1, InputFacts
<1>4. CASE pc \in InFrame
  <2>1. GoOn("first")
    BY <1>1, <1>4 DEF GoOn, InFrame
  <2>2. PICK place \in InFrame \union {"first", "done"} : GoOn(place)
    BY <2>1
  <2>3. QED BY <1>1, <1>2, <1>3, <1>4, <2>2, FailedInFrame
<1>5. CASE pc \in {"first", "rest", "shift"}
  <2>1. pc' \in {"first", "done", "aborted"} /\ taken' = taken
    BY <1>1, <1>5 DEF InFrame
  <2>2. pc = "first" \/ want > left
    <3>1. CASE pc = "first"
      BY <3>1
    <3>2. CASE pc \in {"rest", "shift"}
      <4>1. want \in 1..3
        BY <3>2, SearchFacts
      <4>2. QED BY <1>1, <4>1
    <3>3. QED BY <1>5, <3>1, <3>2
  <2>3. QED BY <1>1, <1>2, <1>3, <1>5, <2>1, <2>2, FailedInSearch
<1>6. QED BY <1>1, <1>4, <1>5

LEMMA ReadEofInd == ASSUME Ind, ReadEof PROVE Ind'
<1>1. /\ pc \in {"first", "rest", "shift"} \union InFrame
      /\ want > left /\ buf' = Filled(left) /\ pos' = pos + left
      /\ UNCHANGED <<source, input, ioff, sbn, pdh, begun, handled, faults>>
  BY DEF ReadEof, Ind, IInv, TypeOK
<1>2. left \in Nat /\ left <= left
  BY InputFacts
<1>3. pc \notin {"done", "aborted"}
  BY DEF ReadEof
<1>4. buf' \in [1..BufSize -> Nat] /\ faults' \in 0..MaxFaults
  BY <1>1, <1>2, <1>3, FilledFacts DEF Ind, IInv, TypeOK
<1>5. CASE pc \in InFrame
  <2>1. PICK place \in InFrame \union {"first", "done"} : GoOn(place)
    BY <1>5, AfterPdhType DEF ReadEof
  <2>2. QED BY <1>1, <1>2, <1>4, <1>5, <2>1, FailedInFrame
<1>6. CASE pc \in {"first", "rest", "shift"}
  <2>1. pc' = "done" /\ taken' = taken
    BY <1>6 DEF ReadEof, InFrame
  <2>2. QED BY <1>1, <1>2, <1>4, <1>6, <2>1, FailedInSearch
<1>7. QED BY <1>1, <1>5, <1>6

LEMMA ReadFaultInd == ASSUME Ind, ReadFault PROVE Ind'
<1>1. PICK k \in 0..want - 1 :
        /\ k <= left /\ buf' = Filled(k)
        /\ pos' \in {pos + k} \union NextEnds(pos + k)
  BY DEF ReadFault
<1>2. /\ pc \in {"first", "rest", "shift"} \union InFrame
      /\ pc \notin {"done", "aborted"}
      /\ UNCHANGED <<source, input, ioff, sbn, pdh, begun, handled>>
      /\ faults' = faults + 1 /\ faults < MaxFaults
  BY DEF ReadFault, Ind, IInv, TypeOK
<1>3. /\ k \in Nat /\ pos \in Nat /\ Len(cells) \in Nat /\ left = Len(cells) - pos
  BY <1>1, InputFacts
<1>4. buf' \in [1..BufSize -> Nat]
  BY <1>1, <1>2, <1>3, FilledFacts
<1>5. faults' \in 0..MaxFaults
  BY <1>2 DEF Ind, IInv, TypeOK
<1>6. PICK n \in Nat : n <= left /\ pos' = pos + n
  <2>1. CASE pos' = pos + k
    BY <1>1, <1>3, <2>1
  <2>2. CASE pos' \in NextEnds(pos + k)
    <3>1. pos' \in input.ends /\ pos + k < pos' /\ pos' <= Len(cells)
      BY <2>2 DEF NextEnds
    <3>2. input.ends \subseteq Nat
      BY DEF Ind, IInv, TypeOK, Input
    <3>3. pos' - pos \in Nat /\ pos' - pos <= left /\ pos' = pos + (pos' - pos)
      BY <1>3, <3>1, <3>2
    <3>4. QED BY <3>3
  <2>3. QED BY <1>1, <2>1, <2>2
<1>7. CASE pc \in InFrame
  <2>1. PICK place \in InFrame \union {"first", "done"} : GoOn(place)
    BY <1>7, AfterPdhType DEF ReadFault, InFrame
  <2>2. QED BY <1>2, <1>4, <1>5, <1>6, <1>7, <2>1, FailedInFrame
<1>8. CASE pc = "first"
  <2>1. pc' = "aborted" /\ taken' = taken \union (pos + 1..pos')
    BY <1>8 DEF ReadFault
  <2>2. QED BY <1>2, <1>4, <1>5, <1>6, <1>8, <2>1, FailedInSearch
<1>9. CASE pc \in {"rest", "shift"}
  <2>1. GoOn("first")
    BY <1>9 DEF ReadFault, IgnoresFailure
  <2>2. pc' = "first" /\ taken' = taken \union (begun..pos') /\ pc # "first"
    BY <1>9, <2>1 DEF GoOn, InFrame
  <2>3. QED BY <1>2, <1>4, <1>5, <1>6, <1>9, <2>2, FailedInSearch
<1>10. QED BY <1>2, <1>7, <1>8, <1>9

-----------------------------------------------------------------------------
LEMMA NextInd == ASSUME Ind, [Next]_vars PROVE Ind'
<1>1. CASE Next
  BY <1>1, FirstByteInd, AcceptInd, ShiftInd, NoStartInd, ReadPdhInd, ReadExtraInd, ReadPshInd,
     ReadDataInd, ReadRefusedInd, ReadClosedInd, ReadEofInd, ReadFaultInd DEF Next
<1>2. CASE UNCHANGED vars
  BY <1>2 DEF vars, Ind, IInv, TypeOK, InHandOK, HeadersAreFound, cells, Passed, SbnAt, IsSbn
<1>3. QED BY <1>1, <1>2

THEOREM Invariance == Spec => []Ind
<1>1. Init => Ind
  BY InitInd
<1>2. Ind /\ [Next]_vars => Ind'
  BY NextInd
<1>3. QED BY <1>1, <1>2, PTL DEF Spec

\* Whatever its headers say, and whichever reads fail, the reader of frames reads
\* no more than was received, and IOFF stays less than the size of an SBN header.
THEOREM TypeCorrect == Spec => []TypeOK
<1>1. Ind => TypeOK
  BY DEF Ind, IInv
<1>2. QED BY <1>1, Invariance, PTL

\* readsbn()'s search finds every SBN header that lies in no frame, whatever is
\* received, wherever it is cut up, and whichever of the three sources it is from.
THEOREM HeadersStayFound == Spec => []HeadersAreFound
<1>1. Ind => HeadersAreFound
  BY DEF Ind, IInv
<1>2. QED BY <1>1, Invariance, PTL

-----------------------------------------------------------------------------
(***************************************************************************)
(* The reader stays in step with frames that are well-formed.              *)
(***************************************************************************)
HIDE NumberAssumption

\* The frames of the input.
Pieces == input.frames \union input.skipped

\* A file that was cut off in a PDH has been read to its end.
CutOff(f) == source = "file" /\ left = 0 /\ pos < f.to

\* Where the reader is in the frames of the input.
Following ==
    /\ pc # "shift"
    /\ pc = "first" =>
          \/ left = 0
          \/ \E f \in Pieces : f.at = pos + 1
          \/ \E f \in input.skipped :
                /\ f.at <= pos /\ pos < f.to
                /\ \A i \in DOMAIN cells : pos < i /\ i <= f.to => cells[i] # Start
    /\ pc = "rest" => \E f \in Pieces : f.at = begun
    /\ pc \in InFrame => sbn = [len |-> SbnSize, command |-> cells[begun + 2]]
    /\ pc = "pdh" => pos = begun + 3 /\ \E f \in Pieces : f.at = begun
    /\ pc \in {"extra", "psh", "data"} =>
          /\ sbn.command \notin PuntCommands
          /\ \E f \in Pieces :
                /\ f.at = begun /\ pdh = f.pdh
                /\ pc = "extra" => pos = begun + 7 /\ pdh.len > PdhSize
                /\ pc = "psh" => AfterPdh(pdh) = "psh" /\ (pos = begun + 3 + pdh.len \/ CutOff(f))
                /\ pc = "data" => f \in input.frames /\ (pos = begun + 3 + pdh.total \/ CutOff(f))

\* The frames before the one in hand have been handled, and no others.
Settled == IF pc = "first" THEN pos ELSE IF pc \in {"rest"} \union InFrame THEN begun - 1 ELSE 0
Missed(f) == source = "fifo" /\ f.pdh.size = 0 /\ left = 0
Unsent(f) == source = "file" /\ f.pdh.size = 0 /\ left = 0
HandledInTurn ==
    /\ \A f \in input.frames : f.to <= Settled => f \in handled \/ Missed(f)
    /\ \A f \in handled : f \in input.frames \/ Unsent(f)

StepInv == faults = 0 /\ WellFormed(input) => Following /\ HandledInTurn

\* The lengths of a frame make sense.
LEMMA PieceFacts ==
  ASSUME Ind, WellFormed(input), NEW f \in Pieces
  PROVE  /\ f \in Frame /\ f.at \in Nat /\ f.at >= 1 /\ f.to \in Nat /\ f.pdh \in Pdh
         /\ f.pdh.len \in Nat /\ f.pdh.total \in Nat /\ f.pdh.size \in Nat
         /\ f.pdh.len >= 4 /\ f.pdh.total >= f.pdh.len
         /\ f.to = f.at + 3 + f.pdh.total + f.pdh.size
         /\ 4 + f.pdh.total + f.pdh.size <= BufSize
         /\ f.pdh.len - 4 <= FifoSize /\ f.pdh.total - f.pdh.len <= FifoSize
         /\ f.pdh.size <= FifoSize
<1> DEFINE p == f.pdh
<1>1. input.frames \subseteq Frame /\ input.skipped \subseteq Frame
  BY DEF Ind, IInv, TypeOK, Input
<1>2. f \in Frame
  BY <1>1 DEF Pieces
<1>3. f.at \in Nat /\ f.to \in Nat /\ p \in Pdh
  BY <1>2 DEF Frame
<1>4. p.len \in Nat /\ p.total \in Nat /\ p.size \in Nat
  BY <1>3 DEF Pdh
<1>5. Sensible(f)
  BY DEF WellFormed, IsFrame, IsSkipped, Pieces
<1>6. /\ f.at > 0 /\ f.to = f.at + 4 + p.total + p.size - 1
      /\ 4 <= p.len /\ p.len <= p.total /\ 4 + p.total + p.size <= BufSize
      /\ p.len - 4 <= FifoSize /\ p.total - p.len <= FifoSize /\ p.size <= FifoSize
  BY <1>5 DEF Sensible
<1>7. f.at >= 1 /\ f.to = f.at + 3 + p.total + p.size
  <2>1. \A a, t, s \in Nat : a + 4 + t + s - 1 = a + 3 + t + s /\ (a > 0 => a >= 1)
    OBVIOUS
  <2>2. QED BY <1>3, <1>4, <1>6, <2>1
<1>8. QED BY <1>2, <1>3, <1>4, <1>6, <1>7

\* The headers that are in the input are the frame's.
LEMMA HeaderFacts ==
  ASSUME Ind, WellFormed(input), NEW f \in Pieces
  PROVE  /\ f.at <= Len(cells) => cells[f.at] = Start
         /\ f.at + 3 <= Len(cells) =>
               /\ cells[f.at + 1] = 4
               /\ cells[f.at + 2] \in {DataCommand, TimingCommand} \union PuntCommands
               /\ cells[f.at + 3] = Checksum(Start, 4, cells[f.at + 2])
         /\ f.at + 7 <= Len(cells) =>
               /\ cells[f.at + 4] = f.pdh.len /\ cells[f.at + 5] = f.pdh.flags
               /\ cells[f.at + 6] = f.pdh.total /\ cells[f.at + 7] = f.pdh.size
<1>1. PICK c \in {DataCommand, TimingCommand} \union PuntCommands : Headed(cells, f, c)
  BY DEF WellFormed, IsFrame, IsSkipped, Pieces, cells
<1>2. /\ Says(cells, f.at, Start) /\ Says(cells, f.at + 1, 4) /\ Says(cells, f.at + 2, c)
      /\ Says(cells, f.at + 3, Checksum(Start, 4, c))
      /\ Says(cells, f.at + 4, f.pdh.len) /\ Says(cells, f.at + 5, f.pdh.flags)
      /\ Says(cells, f.at + 6, f.pdh.total) /\ Says(cells, f.at + 7, f.pdh.size)
  BY <1>1 DEF Headed
<1>3. f.at \in Nat /\ f.at >= 1
  BY PieceFacts
<1>4. DOMAIN cells = 1..Len(cells) /\ Len(cells) \in Nat
  BY InputFacts
<1>5. /\ f.at <= Len(cells) => f.at \in DOMAIN cells
      /\ f.at + 3 <= Len(cells) =>
            f.at + 1 \in DOMAIN cells /\ f.at + 2 \in DOMAIN cells /\ f.at + 3 \in DOMAIN cells
      /\ f.at + 7 <= Len(cells) =>
            /\ f.at + 4 \in DOMAIN cells /\ f.at + 5 \in DOMAIN cells
            /\ f.at + 6 \in DOMAIN cells /\ f.at + 7 \in DOMAIN cells
  <2>1. \A a, n \in Nat : a >= 1 =>
          /\ a <= n => a \in 1..n
          /\ a + 3 <= n => a + 1 \in 1..n /\ a + 2 \in 1..n /\ a + 3 \in 1..n
          /\ a + 7 <= n => a + 4 \in 1..n /\ a + 5 \in 1..n /\ a + 6 \in 1..n /\ a + 7 \in 1..n
    OBVIOUS
  <2>2. QED BY <1>3, <1>4, <2>1
<1>6. QED BY <1>1, <1>2, <1>5 DEF Says

\* What distinguishes the frames to handle from those to skip.
LEMMA KindFacts ==
  ASSUME Ind, WellFormed(input), NEW f \in Pieces, f.at + 3 <= Len(cells)
  PROVE  /\ f \in input.frames =>
              /\ f \notin input.skipped
              /\ cells[f.at + 2] = DataCommand /\ cells[f.at + 2] \notin PuntCommands
              /\ cells[f.at + 2] # TimingCommand
              /\ AfterPdh(f.pdh) \in {"psh", "data"}
              /\ f.pdh.total # f.pdh.len /\ f.at + 4 + f.pdh.len <= Len(cells) =>
                    cells[f.at + 4 + f.pdh.len] = f.pdh.total - f.pdh.len
         /\ f \in input.skipped =>
              /\ cells[f.at + 2] \notin PuntCommands =>
                    \/ AfterPdh(f.pdh) = "first"
                    \/ AfterPdh(f.pdh) = "psh" /\ cells[f.at + 2] = TimingCommand
              /\ \A i \in DOMAIN cells :
                    f.at + 4 + HeadersRead(f.pdh, cells[f.at + 2]) <= i /\ i <= f.to => cells[i] # Start
<1>1. f.at \in Nat /\ f.at >= 1 /\ f.pdh.len \in Nat
  BY PieceFacts
<1>2. DOMAIN cells = 1..Len(cells) /\ Len(cells) \in Nat
  BY InputFacts
<1>3. f.at + 2 \in DOMAIN cells
  BY <1>1, <1>2
<1>4. CASE f \in input.frames
  <2>1. IsFrame(cells, f) /\ f \notin input.skipped
    BY <1>4 DEF WellFormed, cells
  <2>2. cells[f.at + 2] = DataCommand
    BY <1>3, <2>1 DEF IsFrame, Headed, Says
  <2>3. DataCommand \notin PuntCommands /\ DataCommand # TimingCommand
    BY CommandAssumption
  <2>4. AfterPdh(f.pdh) \in {"psh", "data"}
    BY <2>1 DEF IsFrame, AfterPdh
  <2>5. ASSUME f.pdh.total # f.pdh.len, f.at + 4 + f.pdh.len <= Len(cells)
        PROVE  cells[f.at + 4 + f.pdh.len] = f.pdh.total - f.pdh.len
    <3>1. f.at + 4 + f.pdh.len \in DOMAIN cells
      BY <1>1, <1>2, <2>5
    <3>2. Says(cells, f.at + 4 + f.pdh.len, f.pdh.total - f.pdh.len)
      BY <2>1, <2>5 DEF IsFrame
    <3>3. QED BY <3>1, <3>2 DEF Says
  <2>6. QED BY <2>1, <2>2, <2>3, <2>4, <2>5
<1>5. ASSUME f \in input.skipped
      PROVE  /\ cells[f.at + 2] \notin PuntCommands =>
                    \/ AfterPdh(f.pdh) = "first"
                    \/ AfterPdh(f.pdh) = "psh" /\ cells[f.at + 2] = TimingCommand
             /\ \A i \in DOMAIN cells :
                   f.at + 4 + HeadersRead(f.pdh, cells[f.at + 2]) <= i /\ i <= f.to => cells[i] # Start
  <2>1. PICK c \in {DataCommand, TimingCommand} \union PuntCommands :
          /\ Headed(cells, f, c)
          /\ \/ c \in PuntCommands \/ AfterPdh(f.pdh) = "first"
             \/ c = TimingCommand /\ AfterPdh(f.pdh) = "psh"
          /\ \A i \in DOMAIN cells :
               f.at + 4 + HeadersRead(f.pdh, c) <= i /\ i <= f.to => cells[i] # Start
    BY <1>5 DEF WellFormed, IsSkipped, cells
  <2>2. cells[f.at + 2] = c
    BY <1>3, <2>1 DEF Headed, Says
  <2>3. QED BY <2>1, <2>2
<1>6. CASE f \in input.skipped
  <2>1. f \notin input.frames
    BY <1>6 DEF WellFormed
  <2>2. QED BY <1>5, <1>6, <2>1
<1>7. QED BY <1>4, <1>6 DEF Pieces

\* Frames follow one another and do not overlap.
LEMMA NextPiece ==
  ASSUME Ind, WellFormed(input), NEW f \in Pieces
  PROVE  /\ f.to < Len(cells) => \E g \in Pieces : g.at = f.to + 1
         /\ \A g \in Pieces : f.at <= g.to /\ g.to <= f.to => g = f
<1>1. f.to \in Nat
  BY PieceFacts
<1>2. DOMAIN cells = 1..Len(cells) /\ Len(cells) \in Nat
  BY InputFacts
<1>3. ASSUME f.to < Len(cells)
      PROVE  \E g \in Pieces : g.at = f.to + 1
  <2>1. f.to + 1 \in DOMAIN cells
    BY <1>1, <1>2, <1>3
  <2>2. f.to + 1 \in {1} \union {g.to + 1 : g \in Pieces}
    OBVIOUS
  <2>3. QED BY <2>1, <2>2 DEF WellFormed, Pieces, cells
<1>4. ASSUME NEW g \in Pieces, f.at <= g.to, g.to <= f.to
      PROVE  g = f
  <2>1. f.at \in Nat /\ g.at \in Nat /\ g.to \in Nat /\ g.at <= g.to
    <3>1. /\ g.at \in Nat /\ g.to \in Nat /\ g.to = g.at + 3 + g.pdh.total + g.pdh.size
          /\ g.pdh.total \in Nat /\ g.pdh.size \in Nat /\ f.at \in Nat
      BY PieceFacts
    <3>2. QED BY <3>1
  <2>2. g = f \/ g.to < f.at \/ f.to < g.at
    BY DEF WellFormed, Pieces
  <2>3. QED BY <1>1, <1>4, <2>1, <2>2
<1>5. QED BY <1>3, <1>4

\* Going on from one state to the next.
LEMMA SameInput == ASSUME input' = input PROVE cells' = cells /\ Pieces' = Pieces
BY DEF cells, Pieces

\* The frames that become settled are to be handled, and nothing else.
LEMMA HandledStep ==
  ASSUME Ind, HandledInTurn, UNCHANGED <<source, input>>,
         pos' \in Nat, pos <= pos', pos' <= Len(cells), handled \subseteq handled',
         \A f \in input.frames : f.to <= Settled' /\ ~(f.to <= Settled) => f \in handled' \/ Missed(f)',
         \A f \in handled' : f \notin handled => f \in input.frames \/ Unsent(f)'
  PROVE  HandledInTurn'
<1>1. left = 0 => left' = 0
  <2>1. /\ pos \in Nat /\ Len(cells) \in Nat /\ left = Len(cells) - pos
        /\ left' = Len(cells) - pos'
    BY InputFacts, SameInput DEF left
  <2>2. QED BY <2>1
<1>2. \A f : (Missed(f) => Missed(f)') /\ (Unsent(f) => Unsent(f)')
  BY <1>1 DEF Missed, Unsent
<1>3. \A f \in input.frames : f.to <= Settled' => f \in handled' \/ Missed(f)'
  BY <1>2 DEF HandledInTurn
<1>4. \A f \in handled' : f \in input.frames \/ Unsent(f)'
  BY <1>2 DEF HandledInTurn
<1>5. QED BY <1>3, <1>4 DEF HandledInTurn

\* A frame has been skipped as far as its headers go, or handled to its end.
LEMMA PieceEnds ==
  ASSUME Ind, WellFormed(input), UNCHANGED input, pc' = "first",
         NEW f \in Pieces, pos' = f.to, pos' <= Len(cells)
  PROVE  Following'
<1>1. pos' \in Nat /\ Len(cells) \in Nat /\ cells' = cells /\ Pieces' = Pieces
  BY PieceFacts, InputFacts, SameInput
<1>2. left' = Len(cells) - pos'
  BY <1>1 DEF left
<1>3. left' = 0 \/ \E g \in Pieces' : g.at = pos' + 1
  <2>1. CASE pos' = Len(cells)
    BY <1>1, <1>2, <2>1
  <2>2. CASE pos' # Len(cells)
    <3>1. f.to < Len(cells)
      BY <1>1, <2>2
    <3>2. QED BY <1>1, <3>1, NextPiece
  <2>3. QED BY <2>1, <2>2
<1>4. QED BY <1>3 DEF Following, InFrame

LEMMA TailBegins ==
  ASSUME Ind, WellFormed(input), UNCHANGED input, pc' = "first",
         NEW f \in input.skipped, f.at <= pos', pos' <= f.to, pos' \in Nat, pos' <= Len(cells),
         \A i \in DOMAIN cells : pos' < i /\ i <= f.to => cells[i] # Start
  PROVE  Following'
<1>1. f \in Pieces
  BY DEF Pieces
<1>2. f.to \in Nat
  BY <1>1, PieceFacts
<1>3. CASE pos' = f.to
  BY <1>1, <1>3, PieceEnds
<1>4. CASE pos' < f.to
  <2>1. cells' = cells /\ f \in input'.skipped
    BY SameInput
  <2>2. QED BY <1>4, <2>1 DEF Following, InFrame
<1>5. QED BY <1>2, <1>3, <1>4

\* What a frame that is not to be handled adds to those settled.
LEMMA SkippedSettles ==
  ASSUME Ind, WellFormed(input), NEW s \in input.skipped, NEW f \in input.frames,
         s.at <= f.to, f.to <= s.to
  PROVE  FALSE
<1>1. s \in Pieces /\ f \in Pieces
  BY DEF Pieces
<1>2. f = s
  BY <1>1, NextPiece
<1>3. QED BY <1>2 DEF WellFormed

\* The first byte of a frame, or another one of a frame that is skipped.
LEMMA FirstByteFollows ==
  ASSUME Ind, WellFormed(input), Following, HandledInTurn, FirstByte
  PROVE  Following' /\ HandledInTurn'
<1>1. /\ pc = "first" /\ want = 1 /\ Wanted(pc).at = 0 /\ Settled = pos
      /\ pos \in Nat /\ Len(cells) \in Nat /\ left = Len(cells) - pos
  BY InputFacts, WantedFacts DEF FirstByte, Settled
<1>2. /\ pos' = pos + 1 /\ want <= left /\ UNCHANGED <<source, input, handled>>
      /\ buf' = Filled(1) /\ begun' = pos'
      /\ pc' = IF buf'[1] = Start THEN "rest" ELSE "first"
  BY <1>1 DEF FirstByte, Got
<1>3. pos + 1 <= Len(cells) /\ left # 0
  BY <1>1, <1>2
<1>4. buf'[1] = cells[pos + 1]
  <2>1. 1 \in Nat /\ 1 <= left /\ pc \notin {"done", "aborted"}
    BY <1>1, <1>2
  <2>2. 1 \in 1..BufSize /\ 1 - 0 \in 1..1 /\ pos + 1 - 0 = pos + 1
    BY <1>1, NumberAssumption
  <2>3. \A i \in 1..BufSize : i - 0 \in 1..1 => Filled(1)[i] = cells[pos + i - 0]
    BY <1>1, <2>1, FilledFacts
  <2>4. QED BY <1>2, <2>2, <2>3
<1>5. cells' = cells /\ Pieces' = Pieces
  BY <1>2, SameInput
<1>6. CASE \E f \in Pieces : f.at = pos + 1
  <2>1. PICK f \in Pieces : f.at = pos + 1
    BY <1>6
  <2>2. pc' = "rest"
    BY <1>2, <1>3, <1>4, <2>1, HeaderFacts
  <2>3. Following'
    BY <1>2, <1>5, <2>1, <2>2 DEF Following, InFrame
  <2>4. Settled' = Settled
    <3>1. Settled' = begun' - 1
      BY <2>2 DEF Settled
    <3>2. QED BY <1>1, <1>2, <3>1
  <2>5. pos' \in Nat /\ pos <= pos' /\ pos' <= Len(cells)
    BY <1>1, <1>2, <1>3
  <2>6. QED BY <1>2, <2>3, <2>4, <2>5, HandledStep
<1>7. CASE \E s \in input.skipped :
                /\ s.at <= pos /\ pos < s.to
                /\ \A i \in DOMAIN cells : pos < i /\ i <= s.to => cells[i] # Start
  <2>1. PICK s \in input.skipped :
                /\ s.at <= pos /\ pos < s.to
                /\ \A i \in DOMAIN cells : pos < i /\ i <= s.to => cells[i] # Start
    BY <1>7
  <2>2. s.at \in Nat /\ s.to \in Nat
    BY PieceFacts DEF Pieces
  <2>3. pos < pos + 1 /\ pos + 1 <= s.to /\ s.at <= pos + 1
    BY <1>1, <2>1, <2>2
  <2>4. DOMAIN cells = 1..Len(cells)
    BY InputFacts
  <2>5. pos + 1 \in DOMAIN cells
    BY <1>1, <1>3, <2>4
  <2>6. pc' = "first"
    BY <1>2, <1>4, <2>1, <2>3, <2>5
  <2>7. \A i \in DOMAIN cells : pos' < i => pos < i
    BY <1>1, <1>2, <2>4
  <2>8. pos' \in Nat /\ pos <= pos' /\ pos' <= Len(cells)
    BY <1>1, <1>2, <1>3
  <2>9. Following'
    BY <1>2, <2>1, <2>3, <2>6, <2>7, <2>8, TailBegins
  <2>10. ASSUME NEW f \in input.frames, f.to <= Settled', ~(f.to <= Settled)
         PROVE  FALSE
    <3>1. f.to \in Nat
      BY PieceFacts DEF Pieces
    <3>2. Settled' = pos + 1
      BY <1>2, <2>6 DEF Settled
    <3>3. s.at <= f.to /\ f.to <= s.to
      BY <1>1, <2>2, <2>3, <2>10, <3>1, <3>2
    <3>4. QED BY <3>3, SkippedSettles
  <2>11. QED BY <1>2, <2>8, <2>9, <2>10, HandledStep
<1>8. QED BY <1>1, <1>3, <1>6, <1>7 DEF Following

\* The SBN header of a frame is complete with the first read after its first byte.
LEMMA HeaderThere ==
  ASSUME Ind, WellFormed(input), Following, InHand, Got
  PROVE  /\ pc = "rest" /\ IsSbn(Filled(want)) /\ pos' = begun + 3 /\ pos = begun
         /\ \E f \in Pieces : f.at = begun
         /\ Filled(want)[2] = 4 /\ Filled(want)[3] = cells[begun + 2]
         /\ begun \in Nat /\ begun >= 1 /\ pos' <= Len(cells)
<1>1. pc = "rest"
  BY DEF InHand, Following
<1>2. PICK f \in Pieces : f.at = begun
  BY <1>1 DEF Following
<1>3. /\ want \in 1..3 /\ begun \in Nat /\ begun >= 1 /\ begun + 3 = pos + want
      /\ \A i \in 1..4 : Filled(want)[i] = cells[begun + i - 1]
  BY HandFacts DEF Got
<1>4. pos' = begun + 3 /\ pos' <= Len(cells) /\ pos = begun
  <2>1. /\ pos' = pos + want /\ want <= left /\ left = Len(cells) - pos
        /\ pos \in Nat /\ Len(cells) \in Nat
    BY InputFacts DEF Got
  <2>2. pos = begun
    BY <1>1 DEF Ind, IInv, InHandOK
  <2>3. QED BY <1>3, <2>1, <2>2
<1>5. /\ cells[begun] = Start /\ cells[begun + 1] = 4
      /\ cells[begun + 2] \in {DataCommand, TimingCommand} \union PuntCommands
      /\ cells[begun + 3] = Checksum(Start, 4, cells[begun + 2])
  <2>1. begun + 3 <= Len(cells) /\ begun <= Len(cells)
    BY <1>3, <1>4, InputFacts
  <2>2. QED BY <1>2, <2>1, HeaderFacts
<1>6. /\ Filled(want)[1] = cells[begun] /\ Filled(want)[2] = cells[begun + 1]
      /\ Filled(want)[3] = cells[begun + 2] /\ Filled(want)[4] = cells[begun + 3]
  BY <1>3, FourIndices
<1>7. IsSbn(Filled(want))
  BY <1>5, <1>6 DEF IsSbn
<1>8. QED BY <1>1, <1>2, <1>3, <1>4, <1>5, <1>6, <1>7

LEMMA AcceptFollows ==
  ASSUME Ind, WellFormed(input), Following, HandledInTurn, Accept
  PROVE  Following' /\ HandledInTurn'
<1>1. /\ InHand /\ Got
      /\ buf' = Filled(want) /\ sbn' = [len |-> buf'[2], command |-> buf'[3]] /\ pc' = "pdh"
      /\ UNCHANGED <<source, input, begun, handled>>
  BY DEF Accept, Got
<1>2. /\ pc = "rest" /\ pos' = begun + 3 /\ pos = begun
      /\ \E f \in Pieces : f.at = begun
      /\ buf'[2] = 4 /\ buf'[3] = cells[begun + 2]
      /\ begun \in Nat /\ begun >= 1 /\ pos' <= Len(cells)
  BY <1>1, HeaderThere
<1>3. cells' = cells /\ Pieces' = Pieces
  BY <1>1, SameInput
<1>4. sbn' = [len |-> SbnSize, command |-> cells'[begun' + 2]]
  BY <1>1, <1>2, <1>3
<1>5. Following'
  BY <1>1, <1>2, <1>3, <1>4 DEF Following, InFrame
<1>6. Settled' = Settled
  BY <1>1, <1>2 DEF Settled, InFrame
<1>7. pos' \in Nat /\ pos <= pos'
  BY <1>2
<1>8. QED BY <1>1, <1>2, <1>5, <1>6, <1>7, HandledStep

LEMMA NoOtherSearch ==
  ASSUME Ind, WellFormed(input), Following, Shift \/ NoStart
  PROVE  FALSE
BY HeaderThere DEF Shift, NoStart

\* The headers of a frame that is skipped have been read, and its rest is searched.
LEMMA SkipFollows ==
  ASSUME Ind, WellFormed(input), HandledInTurn, UNCHANGED <<source, input, handled>>,
         pc \in InFrame, pc' = "first", NEW f \in input.skipped, f.at = begun,
         pos <= pos', pos' = begun + 3 + HeadersRead(f.pdh, cells[begun + 2]),
         pos' <= Len(cells)
  PROVE  Following' /\ HandledInTurn'
<1> DEFINE n == HeadersRead(f.pdh, cells[begun + 2])
           len == f.pdh.len
           total == f.pdh.total
           size == f.pdh.size
<1>0. f \in Pieces
  BY DEF Pieces
<1>1. /\ f.at \in Nat /\ f.to \in Nat /\ len \in Nat /\ total \in Nat /\ size \in Nat
      /\ len >= 4 /\ total >= len /\ f.to = f.at + 3 + total + size
  BY <1>0, PieceFacts
<1>2. n \in {4, len, total}
  BY DEF HeadersRead, PdhSize
<1> HIDE DEF n, len, total, size
<1>3. n \in Nat /\ n <= total
  BY <1>1, <1>2
<1>4. pos' \in Nat /\ f.at <= pos' /\ pos' <= f.to /\ f.at + 3 <= pos'
  <2>1. pos' = f.at + 3 + n
    BY DEF n
  <2>2. pos' \in Nat /\ f.at <= pos' /\ f.at + 3 <= pos'
    BY <1>1, <1>3, <2>1
  <2>3. pos' <= f.to
    BY <1>1, <1>3, <2>1
  <2>4. QED BY <2>2, <2>3
<1>5. f.at + 3 <= Len(cells) /\ DOMAIN cells = 1..Len(cells)
  BY <1>1, <1>4, InputFacts
<1>6. \A i \in DOMAIN cells : f.at + 4 + n <= i /\ i <= f.to => cells[i] # Start
  BY <1>0, <1>5, KindFacts DEF n
<1>7. \A i \in DOMAIN cells : pos' < i /\ i <= f.to => cells[i] # Start
  <2>1. \A i \in DOMAIN cells : pos' < i => f.at + 4 + n <= i
    <3>1. pos' = f.at + 3 + n
      BY DEF n
    <3>2. QED BY <1>1, <1>3, <1>5, <3>1
  <2>2. QED BY <1>6, <2>1
<1>8. Following'
  BY <1>4, <1>7, TailBegins
<1>9. ASSUME NEW g \in input.frames, g.to <= Settled', ~(g.to <= Settled)
      PROVE  FALSE
  <2>1. g.to \in Nat
    BY PieceFacts DEF Pieces
  <2>2. Settled = begun - 1 /\ Settled' = pos'
    BY DEF Settled, InFrame
  <2>3. f.at <= g.to /\ g.to <= f.to
    BY <1>1, <1>4, <1>9, <2>1, <2>2
  <2>4. QED BY <2>3, SkippedSettles
<1>10. QED BY <1>4, <1>8, <1>9, HandledStep

\* A frame goes on.
LEMMA FrameGoesOn ==
  ASSUME Ind, HandledInTurn, UNCHANGED <<source, input, begun, handled, sbn>>,
         pc \in InFrame, pc' \in InFrame, pos' \in Nat, pos <= pos', pos' <= Len(cells)
  PROVE  HandledInTurn'
<1>1. Settled' = Settled
  BY DEF Settled, InFrame
<1>2. QED BY <1>1, HandledStep

\* After its PDH: a frame that is to be handled goes on with its PSH or its data, one
\* that is to be skipped ends, or goes on with its PSH.
LEMMA AfterPdhFollows ==
  ASSUME Ind, WellFormed(input), Following, HandledInTurn,
         UNCHANGED <<source, input, begun, handled, sbn>>,
         pc \in InFrame, pc' = AfterPdh(pdh'), pos \in Nat, pos <= pos', pos' <= Len(cells),
         sbn.command \notin PuntCommands,
         NEW f \in Pieces, f.at = begun, pdh' = f.pdh, pos' = begun + 3 + f.pdh.len
  PROVE  Following' /\ HandledInTurn'
<1> DEFINE p == f.pdh
<1>1. f.at \in Nat /\ p.len \in Nat /\ p.len >= 4
  BY PieceFacts
<1>2. pos' \in Nat /\ f.at + 3 <= Len(cells)
  <2>1. Len(cells) \in Nat
    BY InputFacts
  <2>2. QED BY <1>1, <2>1
<1>3. cells' = cells /\ Pieces' = Pieces
  BY SameInput
<1>4. sbn.command = cells[begun + 2] /\ sbn' = [len |-> SbnSize, command |-> cells[begun + 2]]
  BY DEF Following
<1>5. CASE f \in input.frames
  <2>1. pc' \in {"psh", "data"}
    BY <1>2, <1>5, KindFacts
  <2>2. pc' = "data" => p.total = p.len
    BY <2>1 DEF AfterPdh
  <2>3. /\ pc' # "shift" /\ pc' # "first" /\ pc' # "rest" /\ pc' # "pdh" /\ pc' # "extra"
        /\ pc' \in InFrame
    BY <2>1 DEF InFrame
  <2>4. Following'
    BY <1>3, <1>4, <1>5, <2>2, <2>3 DEF Following
  <2>5. QED BY <1>2, <2>3, <2>4, FrameGoesOn
<1>6. CASE f \in input.skipped
  <2>1. \/ pc' = "first"
        \/ pc' = "psh"
    BY <1>2, <1>4, <1>6, KindFacts
  <2>2. CASE pc' = "first"
    <3>1. HeadersRead(p, cells[begun + 2]) = p.len
      BY <1>4, <2>2 DEF HeadersRead
    <3>2. QED BY <1>6, <2>2, <3>1, SkipFollows
  <2>3. CASE pc' = "psh"
    <3>1. /\ pc' # "shift" /\ pc' # "first" /\ pc' # "rest" /\ pc' # "pdh" /\ pc' # "extra"
          /\ pc' # "data" /\ pc' \in InFrame
      BY <2>3 DEF InFrame
    <3>2. Following'
      BY <1>3, <1>4, <2>3, <3>1 DEF Following
    <3>3. QED BY <1>2, <3>1, <3>2, FrameGoesOn
  <2>4. QED BY <2>1, <2>2, <2>3
<1>7. QED BY <1>5, <1>6 DEF Pieces

\* The PDH that is read is the frame's.
LEMMA PdhThere ==
  ASSUME Ind, WellFormed(input), Following, ReadPdh
  PROVE  /\ pos' = begun + 7 /\ pos' <= Len(cells) /\ pos \in Nat /\ pos <= pos'
         /\ sbn.len = 4 /\ sbn.command = cells[begun + 2]
         /\ \E f \in Pieces : /\ f.at = begun
                              /\ sbn.command \notin PuntCommands => pdh' = f.pdh
<1> DEFINE b == Filled(want)
<1>1. /\ pc = "pdh" /\ pos = begun + 3 /\ sbn = [len |-> SbnSize, command |-> cells[begun + 2]]
      /\ begun \in Nat
  BY InputFacts DEF ReadPdh, Following, InFrame, Ind, IInv, TypeOK
<1>2. PICK f \in Pieces : f.at = begun
  BY <1>1 DEF Following
<1>3. want = 4 /\ Wanted(pc).at = 4 /\ pc \notin {"done", "aborted"}
  BY <1>1, WantedFacts
<1>4. /\ pos' = begun + 7 /\ pos' <= Len(cells) /\ pos \in Nat /\ pos <= pos'
      /\ 4 <= left
  <2>1. /\ pos' = pos + 4 /\ 4 <= left /\ left = Len(cells) - pos
        /\ pos \in Nat /\ Len(cells) \in Nat
    BY <1>3, InputFacts DEF ReadPdh, Got
  <2>2. QED BY <1>1, <2>1
<1>5. \A i \in 1..BufSize : i - 4 \in 1..4 => b[i] = cells[pos + i - 4]
  BY <1>3, <1>4, FilledFacts
<1>6. /\ b[5] = cells[begun + 4] /\ b[6] = cells[begun + 5]
      /\ b[7] = cells[begun + 6] /\ b[8] = cells[begun + 7]
  <2>1. \A i \in 5..8 : i \in 1..BufSize /\ i - 4 \in 1..4 /\ pos + i - 4 = begun + (i - 1)
    BY <1>1, NumberAssumption
  <2>2. \A i \in 5..8 : b[i] = cells[begun + (i - 1)]
    BY <1>5, <2>1
  <2>3. 5 - 1 = 4 /\ 6 - 1 = 5 /\ 7 - 1 = 6 /\ 8 - 1 = 7
    OBVIOUS
  <2>4. 5 \in 5..8 /\ 6 \in 5..8 /\ 7 \in 5..8 /\ 8 \in 5..8
    OBVIOUS
  <2>5. QED BY <2>2, <2>3, <2>4
<1>7. ASSUME sbn.command \notin PuntCommands
      PROVE  pdh' = f.pdh
  <2>1. pdh' = [len |-> b[4 + 1], flags |-> b[4 + 2], total |-> b[4 + 3], size |-> b[4 + 4]]
    BY <1>1, <1>7 DEF ReadPdh
  <2>2. pdh' = [len |-> f.pdh.len, flags |-> f.pdh.flags, total |-> f.pdh.total, size |-> f.pdh.size]
    <3>1. /\ cells[begun + 4] = f.pdh.len /\ cells[begun + 5] = f.pdh.flags
          /\ cells[begun + 6] = f.pdh.total /\ cells[begun + 7] = f.pdh.size
      BY <1>2, <1>4, HeaderFacts
    <3>2. 4 + 1 = 5 /\ 4 + 2 = 6 /\ 4 + 3 = 7 /\ 4 + 4 = 8
      OBVIOUS
    <3>3. QED BY <1>6, <2>1, <3>1, <3>2
  <2>3. f.pdh \in [len : Nat, flags : Nat, total : Nat, size : Nat]
    BY PieceFacts DEF Pdh
  <2>4. QED BY <2>2, <2>3
<1>8. QED BY <1>1, <1>2, <1>4, <1>7

LEMMA ReadPdhFollows ==
  ASSUME Ind, WellFormed(input), Following, HandledInTurn, ReadPdh
  PROVE  Following' /\ HandledInTurn'
<1>1. /\ pc \in InFrame /\ pc = "pdh"
      /\ UNCHANGED <<source, input, sbn, begun, handled>>
      /\ sbn.command \in PuntCommands => pc' = "first"
      /\ sbn.command \notin PuntCommands =>
            pc' = IF pdh'.len > PdhSize THEN "extra" ELSE AfterPdh(pdh')
  BY DEF ReadPdh, Got, GoOn, InFrame
<1>2. /\ pos' = begun + 7 /\ pos' <= Len(cells) /\ pos \in Nat /\ pos <= pos'
      /\ sbn.len = 4 /\ sbn.command = cells[begun + 2]
  BY PdhThere
<1>3. PICK f \in Pieces : f.at = begun /\ (sbn.command \notin PuntCommands => pdh' = f.pdh)
  BY PdhThere
<1>4. /\ f.at \in Nat /\ f.at >= 1 /\ f.pdh.len \in Nat /\ f.pdh.len >= 4 /\ pos' \in Nat
      /\ f.at + 3 <= Len(cells)
  <2>1. f.at \in Nat /\ f.at >= 1 /\ f.pdh.len \in Nat /\ f.pdh.len >= 4
    BY PieceFacts
  <2>2. Len(cells) \in Nat
    BY InputFacts
  <2>3. QED BY <1>2, <1>3, <2>1, <2>2
<1>5. CASE sbn.command \in PuntCommands
  <2>1. f \in input.skipped
    BY <1>2, <1>3, <1>4, <1>5, KindFacts DEF Pieces
  <2>2. pos' = begun + 3 + HeadersRead(f.pdh, cells[begun + 2])
    <3>1. HeadersRead(f.pdh, cells[begun + 2]) = 4
      BY <1>2, <1>5 DEF HeadersRead, PdhSize
    <3>2. QED BY <1>2, <1>3, <1>4, <3>1
  <2>3. QED BY <1>1, <1>2, <1>3, <1>5, <2>1, <2>2, SkipFollows
<1>6. CASE sbn.command \notin PuntCommands /\ pdh'.len > 4
  <2>1. pc' = "extra" /\ pdh' = f.pdh /\ pc' \in InFrame
    BY <1>1, <1>3, <1>6 DEF PdhSize, InFrame
  <2>2. /\ pc' # "shift" /\ pc' # "first" /\ pc' # "rest" /\ pc' # "pdh" /\ pc' # "psh"
        /\ pc' # "data"
    BY <2>1
  <2>3. cells' = cells /\ Pieces' = Pieces
    BY <1>1, SameInput
  <2>4. sbn' = [len |-> SbnSize, command |-> cells[begun + 2]]
    BY <1>1 DEF Following
  <2>5. Following'
    BY <1>1, <1>2, <1>3, <1>6, <2>1, <2>2, <2>3, <2>4 DEF Following, PdhSize
  <2>6. QED BY <1>1, <1>2, <1>4, <2>1, <2>5, FrameGoesOn
<1>7. CASE sbn.command \notin PuntCommands /\ ~(pdh'.len > 4)
  <2>1. pc' = AfterPdh(pdh') /\ pdh' = f.pdh
    BY <1>1, <1>3, <1>7 DEF PdhSize
  <2>2. pos' = begun + 3 + f.pdh.len
    BY <1>2, <1>3, <1>4, <1>7, <2>1
  <2>3. QED BY <1>1, <1>2, <1>3, <1>7, <2>1, <2>2, AfterPdhFollows
<1>8. QED BY <1>5, <1>6, <1>7

LEMMA ReadExtraFollows ==
  ASSUME Ind, WellFormed(input), Following, HandledInTurn, ReadExtra
  PROVE  Following' /\ HandledInTurn'
<1>1. /\ pc \in InFrame /\ pc = "extra"
      /\ UNCHANGED <<source, input, sbn, pdh, begun, handled>>
      /\ pc' = AfterPdh(pdh')
      /\ pos' = pos + want /\ want <= left
  BY DEF ReadExtra, Got, GoOn, InFrame
<1>2. PICK f \in Pieces : f.at = begun /\ pdh = f.pdh /\ pos = begun + 7
  BY <1>1 DEF Following
<1>3. sbn.command \notin PuntCommands
  BY <1>1 DEF Following
<1>4. want = f.pdh.len - 4
  BY <1>1, <1>2 DEF want, Wanted, PdhSize
<1>5. f.at \in Nat /\ f.pdh.len \in Nat /\ f.pdh.len >= 4
  BY PieceFacts
<1>6. /\ pos' = begun + 3 + f.pdh.len /\ pos <= pos' /\ pos' <= Len(cells)
      /\ pos \in Nat
  <2>1. pos \in Nat /\ Len(cells) \in Nat /\ left = Len(cells) - pos
    BY InputFacts
  <2>2. \A a, l, q, n \in Nat : l >= 4 /\ q = a + 7 /\ l - 4 <= n - q =>
          q + (l - 4) = a + 3 + l /\ q <= q + (l - 4) /\ q + (l - 4) <= n
    OBVIOUS
  <2>3. f.pdh.len - 4 <= Len(cells) - pos /\ pos = f.at + 7 /\ pos' = pos + (f.pdh.len - 4)
    BY <1>1, <1>2, <1>4, <2>1
  <2>4. QED BY <1>2, <1>5, <2>1, <2>2, <2>3
<1>7. QED BY <1>1, <1>2, <1>3, <1>6, AfterPdhFollows

LEMMA ReadPshFollows ==
  ASSUME Ind, WellFormed(input), Following, HandledInTurn, ReadPsh
  PROVE  Following' /\ HandledInTurn'
<1>1. /\ pc \in InFrame /\ pc = "psh"
      /\ UNCHANGED <<source, input, sbn, pdh, begun, handled>>
      /\ buf' = Filled(want)
      /\ pc' = IF sbn.command = TimingCommand \/ buf'[sbn.len + pdh.len + 1] # want
               THEN "first" ELSE "data"
      /\ pos' = pos + want /\ want <= left
  BY DEF ReadPsh, Got, GoOn, InFrame
<1>2. PICK f \in Pieces : /\ f.at = begun /\ pdh = f.pdh /\ AfterPdh(pdh) = "psh"
                          /\ pos = begun + 3 + pdh.len \/ CutOff(f)
  BY <1>1 DEF Following
<1> DEFINE p == f.pdh
<1>3. /\ sbn.command \notin PuntCommands /\ sbn.len = 4 /\ sbn.command = cells[begun + 2]
      /\ sbn' = [len |-> SbnSize, command |-> cells[begun + 2]]
  BY <1>1 DEF Following, SbnSize
<1>4. want = p.total - p.len /\ Wanted(pc).at = 4 + p.len
  BY <1>1, <1>2, <1>3 DEF want, Wanted
<1>5. /\ f.at \in Nat /\ f.at >= 1 /\ p.len \in Nat /\ p.len >= 4 /\ p.total \in Nat
      /\ p.total >= p.len /\ 4 + p.total + p.size <= BufSize /\ p.size \in Nat
  BY PieceFacts
<1>6. p.total # p.len
  BY <1>2 DEF AfterPdh
<1>7. want \in Nat /\ want >= 1
  BY <1>4, <1>5, <1>6
<1>8. pos \in Nat /\ Len(cells) \in Nat /\ left = Len(cells) - pos
  BY InputFacts
<1>9. pos = begun + 3 + p.len
  BY <1>1, <1>2, <1>7, <1>8 DEF CutOff
<1>10. pos' = begun + 3 + p.total /\ pos <= pos' /\ pos' <= Len(cells) /\ pos' \in Nat
  <2> DEFINE t == p.total
             l == p.len
             n == Len(cells)
  <2>1. /\ t \in Nat /\ l \in Nat /\ n \in Nat /\ pos \in Nat /\ f.at \in Nat
        /\ t >= l /\ pos = f.at + 3 + l /\ pos' = pos + (t - l)
    BY <1>1, <1>2, <1>4, <1>5, <1>8, <1>9
  <2>2. t - l <= n - pos
    BY <1>1, <1>4, <1>8
  <2> HIDE DEF t, l, n
  <2>3. pos' = f.at + 3 + t /\ pos' \in Nat
    BY <2>1
  <2>4. pos <= pos'
    BY <2>1, <2>3
  <2>5. pos' <= n
    BY <2>1, <2>2, <2>3
  <2>6. QED BY <1>2, <2>3, <2>4, <2>5 DEF t, n
<1>11. f.at + 3 <= Len(cells) /\ f.at + 4 + p.len <= Len(cells)
  <2> DEFINE t == p.total
             l == p.len
             n == Len(cells)
  <2>1. /\ t \in Nat /\ l \in Nat /\ n \in Nat /\ f.at \in Nat /\ t >= l /\ t # l
        /\ f.at + 3 + t <= n
    BY <1>2, <1>5, <1>6, <1>8, <1>10
  <2> HIDE DEF t, l, n
  <2>2. f.at + 3 <= n /\ f.at + 4 + l <= n
    BY <2>1
  <2>3. QED BY <2>2 DEF l, n
<1>12. CASE f \in input.frames
  <2>1. /\ sbn.command # TimingCommand
        /\ cells[f.at + 4 + p.len] = want
    BY <1>2, <1>3, <1>4, <1>6, <1>11, <1>12, KindFacts
  <2>2. buf'[sbn.len + pdh.len + 1] = want
    <3>1. 4 + p.len + 1 \in 1..BufSize /\ 4 + p.len + 1 - (4 + p.len) \in 1..want
      <4>1. 4 + p.len + 1 <= BufSize
        BY <1>5, <1>6, NumberAssumption
      <4>2. QED BY <1>5, <1>7, <4>1, NumberAssumption
    <3>2. \A i \in 1..BufSize : i - (4 + p.len) \in 1..want =>
              Filled(want)[i] = cells[pos + i - (4 + p.len)]
      <4>1. pc \notin {"done", "aborted"}
        BY <1>1
      <4>2. QED BY <1>1, <1>4, <1>7, <4>1, FilledFacts
    <3>3. pos + (4 + p.len + 1) - (4 + p.len) = f.at + 4 + p.len
      BY <1>2, <1>5, <1>9
    <3>4. buf'[4 + p.len + 1] = cells[f.at + 4 + p.len]
      <4>1. PICK j, at : j = 4 + p.len + 1 /\ at = 4 + p.len
        OBVIOUS
      <4>2. j \in 1..BufSize /\ j - at \in 1..want
        BY <3>1, <4>1
      <4>3. pos + j - at = f.at + 4 + p.len
        BY <3>3, <4>1
      <4>4. Filled(want)[j] = cells[pos + j - at]
        BY <3>2, <4>1, <4>2
      <4>5. QED BY <1>1, <4>1, <4>3, <4>4
    <3>5. QED BY <1>2, <1>3, <2>1, <3>4
  <2>3. pc' = "data" /\ pc' \in InFrame
    BY <1>1, <2>1, <2>2 DEF InFrame
  <2>4. pc' # "shift" /\ pc' # "first" /\ pc' # "rest" /\ pc' # "pdh" /\ pc' # "extra" /\ pc' # "psh"
    BY <2>3
  <2>5. cells' = cells /\ Pieces' = Pieces
    BY <1>1, SameInput
  <2>6. Following'
    BY <1>1, <1>2, <1>3, <1>10, <1>12, <2>3, <2>4, <2>5 DEF Following
  <2>7. QED BY <1>1, <1>10, <2>3, <2>6, FrameGoesOn
<1>13. CASE f \in input.skipped
  <2>1. sbn.command = TimingCommand
    BY <1>2, <1>3, <1>11, <1>13, KindFacts
  <2>2. pc' = "first"
    BY <1>1, <2>1
  <2>3. HeadersRead(p, cells[begun + 2]) = p.total
    BY <1>2, <1>3 DEF HeadersRead
  <2>4. QED BY <1>1, <1>2, <1>10, <1>13, <2>2, <2>3, SkipFollows
<1>14. QED BY <1>12, <1>13 DEF Pieces

LEMMA ReadDataFollows ==
  ASSUME Ind, WellFormed(input), Following, HandledInTurn, ReadData
  PROVE  Following' /\ HandledInTurn'
<1>1. /\ pc \in InFrame /\ pc = "data" /\ pc' = "first"
      /\ UNCHANGED <<source, input, sbn, pdh, begun>>
      /\ handled' = handled \union {[at |-> begun, to |-> pos', pdh |-> pdh]}
      /\ pos' = pos + want /\ want <= left
  BY DEF ReadData, Got, GoOn, InFrame
<1>2. PICK f \in Pieces : /\ f.at = begun /\ pdh = f.pdh /\ f \in input.frames
                          /\ pos = begun + 3 + pdh.total \/ CutOff(f)
  BY <1>1 DEF Following
<1> DEFINE p == f.pdh
           h == [at |-> begun, to |-> pos', pdh |-> pdh]
<1>3. want = p.size
  BY <1>1, <1>2 DEF want, Wanted
<1>4. /\ f.at \in Nat /\ f.at >= 1 /\ f.to \in Nat /\ p.total \in Nat /\ p.size \in Nat
      /\ f.to = f.at + 3 + p.total + p.size
  BY PieceFacts
<1>5. pos \in Nat /\ Len(cells) \in Nat /\ left = Len(cells) - pos
  BY InputFacts
<1>6. pos' \in Nat /\ pos <= pos' /\ pos' <= Len(cells)
  BY <1>1, <1>3, <1>4, <1>5
<1>7. cells' = cells /\ Pieces' = Pieces
  BY <1>1, SameInput
<1>8. left' = Len(cells) - pos'
  BY <1>7 DEF left
<1>9. Settled = begun - 1 /\ Settled' = pos'
  BY <1>1 DEF Settled
<1>10. CASE pos = begun + 3 + pdh.total
  <2>1. pos' = f.to
    BY <1>1, <1>2, <1>3, <1>4, <1>10
  <2>2. Following'
    BY <1>1, <1>6, <2>1, PieceEnds
  <2>3. h = f
    <3>1. f \in [at : Nat, to : Nat, pdh : Pdh]
      BY PieceFacts DEF Frame
    <3>2. h = [at |-> f.at, to |-> f.to, pdh |-> f.pdh]
      BY <1>2, <2>1
    <3>3. QED BY <3>1, <3>2
  <2>4. ASSUME NEW g \in input.frames, g.to <= Settled', ~(g.to <= Settled)
        PROVE  g \in handled'
    <3>1. g \in Pieces /\ g.to \in Nat
      BY PieceFacts DEF Pieces
    <3>2. f.at <= g.to /\ g.to <= f.to
      BY <1>2, <1>4, <1>9, <2>1, <2>4, <3>1
    <3>3. g = f
      BY <3>1, <3>2, NextPiece
    <3>4. QED BY <1>1, <2>3, <3>3
  <2>5. \A g \in handled' : g \notin handled => g \in input.frames
    BY <1>1, <1>2, <2>3
  <2>6. handled \subseteq handled'
    BY <1>1
  <2>7. QED BY <1>1, <1>6, <2>2, <2>4, <2>5, <2>6, HandledStep
<1>11. CASE CutOff(f)
  <2>1. source = "file" /\ left = 0 /\ pos < f.to
    BY <1>11 DEF CutOff
  <2>2. p.size = 0 /\ pos' = pos /\ left' = 0
    BY <1>1, <1>3, <1>4, <1>5, <1>8, <2>1
  <2>3. Following'
    BY <1>1, <2>2 DEF Following, InFrame
  <2>4. ASSUME NEW g \in input.frames, g.to <= Settled', ~(g.to <= Settled)
        PROVE  FALSE
    <3>1. g \in Pieces /\ g.to \in Nat
      BY PieceFacts DEF Pieces
    <3>2. f.at <= g.to /\ g.to <= f.to /\ g.to # f.to
      BY <1>2, <1>4, <1>5, <1>9, <2>1, <2>2, <2>4, <3>1
    <3>3. QED BY <3>1, <3>2, NextPiece
  <2>5. \A g \in handled' : g \notin handled => Unsent(g)'
    <3>1. h.pdh.size = 0
      BY <1>2, <2>2
    <3>2. \A g \in handled' : g \notin handled => g = h
      BY <1>1
    <3>3. QED BY <1>1, <2>1, <2>2, <3>1, <3>2 DEF Unsent
  <2>6. handled \subseteq handled'
    BY <1>1
  <2>7. QED BY <1>1, <1>6, <2>3, <2>4, <2>5, <2>6, HandledStep
<1>12. QED BY <1>2, <1>10, <1>11

\* No source refuses what a frame asks for.
LEMMA NoFrameRefused ==
  ASSUME Ind, WellFormed(input), Following, pc \notin {"done", "aborted"}
  PROVE  ~Refused
<1>1. pc \in {"first", "rest", "shift"} \union InFrame
  BY DEF Ind, IInv, TypeOK
<1>2. CASE pc = "pdh"
  BY <1>2, WantedFacts, NumberAssumption DEF Refused, PdhSize
<1>3. CASE pc \in {"extra", "psh", "data"}
  <2>1. PICK f \in Pieces : pdh = f.pdh
    BY <1>3 DEF Following
  <2>2. want \in {f.pdh.len - 4, f.pdh.total - f.pdh.len, f.pdh.size}
    BY <1>3, <2>1 DEF want, Wanted, PdhSize
  <2>3. /\ f.pdh.len \in Nat /\ f.pdh.total \in Nat /\ f.pdh.size \in Nat
        /\ f.pdh.len >= 4 /\ f.pdh.total >= f.pdh.len
        /\ f.pdh.len - 4 <= FifoSize /\ f.pdh.total - f.pdh.len <= FifoSize
        /\ f.pdh.size <= FifoSize
    BY PieceFacts
  <2>4. want >= 0 /\ want <= FifoSize /\ want \in Int /\ FifoSize \in Nat
    BY <2>2, <2>3, NumberAssumption
  <2>5. QED BY <2>4 DEF Refused
<1>4. QED BY <1>1, <1>2, <1>3, NeverRefused DEF InFrame

\* The piece in hand has not ended, but for a frame whose data are none.
LEMMA InHandNotOver ==
  ASSUME Ind, WellFormed(input), Following, pc \in {"rest"} \union InFrame
  PROVE  \E f \in Pieces :
            /\ f.at = begun /\ pos <= f.to
            /\ pos = f.to => pc = "data" /\ f \in input.frames /\ f.pdh.size = 0
<1>1. pos \in Nat /\ begun \in Nat
  BY InputFacts DEF Ind, IInv, TypeOK
<1>2. \A f \in Pieces : /\ f.at \in Nat /\ f.to \in Nat /\ f.pdh.len \in Nat
                        /\ f.pdh.total \in Nat /\ f.pdh.size \in Nat
                        /\ f.pdh.len >= 4 /\ f.pdh.total >= f.pdh.len
                        /\ f.to = f.at + 3 + f.pdh.total + f.pdh.size
  BY PieceFacts
<1>3. CASE pc \in {"rest", "pdh"}
  <2>1. PICK f \in Pieces : f.at = begun
    BY <1>3 DEF Following
  <2>2. pos <= begun + 3
    BY <1>1, <1>3 DEF Following, Ind, IInv, InHandOK
  <2>3. pos < f.to
    BY <1>1, <1>2, <2>1, <2>2
  <2>4. QED BY <1>1, <1>2, <1>3, <2>1, <2>3
<1>4. CASE pc = "extra"
  <2>1. PICK f \in Pieces : f.at = begun /\ pdh = f.pdh /\ pos = begun + 7 /\ f.pdh.len > 4
    BY <1>4 DEF Following, PdhSize
  <2>2. pos < f.to
    BY <1>1, <1>2, <2>1
  <2>3. QED BY <1>1, <1>2, <2>1, <2>2
<1>5. CASE pc = "psh"
  <2>1. PICK f \in Pieces : f.at = begun /\ pdh = f.pdh /\ AfterPdh(f.pdh) = "psh"
                            /\ (pos = begun + 3 + f.pdh.len \/ CutOff(f))
    BY <1>5 DEF Following
  <2>2. f.pdh.total # f.pdh.len
    BY <2>1 DEF AfterPdh
  <2>3. pos < f.to
    <3>1. CASE CutOff(f)
      BY <3>1 DEF CutOff
    <3>2. CASE pos = begun + 3 + f.pdh.len
      BY <1>1, <1>2, <2>1, <2>2, <3>2
    <3>3. QED BY <2>1, <3>1, <3>2
  <2>4. QED BY <1>1, <1>2, <2>1, <2>3
<1>6. CASE pc = "data"
  <2>1. PICK f \in Pieces : /\ f.at = begun /\ pdh = f.pdh /\ f \in input.frames
                            /\ pos = begun + 3 + f.pdh.total \/ CutOff(f)
    BY <1>6 DEF Following
  <2>2. pos <= f.to /\ (pos = f.to => f.pdh.size = 0)
    <3>1. CASE CutOff(f)
      BY <1>1, <1>2, <3>1 DEF CutOff
    <3>2. CASE pos = begun + 3 + f.pdh.total
      BY <1>1, <1>2, <2>1, <3>2
    <3>3. QED BY <2>1, <3>1, <3>2
  <2>3. QED BY <1>6, <2>1, <2>2
<1>7. QED BY <1>3, <1>4, <1>5, <1>6 DEF InFrame

\* No more is settled when the FIFO is closed in the middle of a frame.
LEMMA NothingElseSettles ==
  ASSUME Ind, WellFormed(input), Following, pc \in {"rest"} \union InFrame,
         source = "fifo", left = 0, UNCHANGED <<source, input, pos, begun>>, pc' = "first",
         NEW g \in input.frames, g.to <= Settled', ~(g.to <= Settled)
  PROVE  Missed(g)'
<1>1. PICK f \in Pieces :
            /\ f.at = begun /\ pos <= f.to
            /\ pos = f.to => pc = "data" /\ f \in input.frames /\ f.pdh.size = 0
  BY InHandNotOver
<1>2. Settled = begun - 1 /\ Settled' = pos
  BY DEF Settled, InFrame
<1>3. g \in Pieces /\ g.to \in Nat /\ f.at \in Nat /\ f.to \in Nat /\ pos \in Nat
  BY PieceFacts, InputFacts DEF Pieces
<1>4. f.at <= g.to /\ g.to <= pos /\ g.to <= f.to
  BY <1>1, <1>2, <1>3
<1>5. g = f
  BY <1>3, <1>4, NextPiece
<1>6. pos = f.to
  BY <1>1, <1>3, <1>4, <1>5
<1>7. left' = 0
  BY SameInput DEF left
<1>8. QED BY <1>1, <1>5, <1>6, <1>7 DEF Missed

\* The FIFO is closed.
LEMMA ReadClosedFollows ==
  ASSUME Ind, WellFormed(input), Following, HandledInTurn, ReadClosed
  PROVE  Following' /\ HandledInTurn'
<1>1. /\ pc \notin {"done", "aborted"} /\ source = "fifo" /\ left = 0
      /\ pc' = IF pc = "first" THEN "done" ELSE "first"
      /\ UNCHANGED <<source, input, pos, begun, handled>>
  BY DEF ReadClosed
<1>2. pos \in Nat /\ pos <= Len(cells) /\ left' = 0 /\ pos <= pos
  BY <1>1, SameInput, InputFacts DEF left
<1>3. CASE pc = "first"
  <2>1. pc' = "done"
    BY <1>1, <1>3
  <2>2. Following'
    BY <2>1 DEF Following, InFrame
  <2>3. ASSUME NEW g \in input.frames, g.to <= Settled' PROVE FALSE
    <3>1. /\ g.to \in Nat /\ g.at \in Nat /\ g.pdh.total \in Nat /\ g.pdh.size \in Nat
          /\ g.to = g.at + 3 + g.pdh.total + g.pdh.size
      BY PieceFacts DEF Pieces
    <3>2. Settled' = 0
      BY <2>1 DEF Settled, InFrame
    <3>3. QED BY <2>3, <3>1, <3>2
  <2>4. QED BY <1>1, <1>2, <2>2, <2>3, HandledStep
<1>4. CASE pc # "first"
  <2>1. pc' = "first"
    BY <1>1, <1>4
  <2>2. Following'
    BY <1>2, <2>1 DEF Following, InFrame
  <2>3. pc \in {"rest"} \union InFrame
    BY <1>1, <1>4 DEF Following, Ind, IInv, TypeOK
  <2>4. ASSUME NEW g \in input.frames, g.to <= Settled', ~(g.to <= Settled)
        PROVE  Missed(g)'
    BY <1>1, <2>1, <2>3, <2>4, NothingElseSettles
  <2>5. QED BY <1>1, <1>2, <2>2, <2>4, HandledStep
<1>5. QED BY <1>3, <1>4

\* The file ends.
LEMMA ReadEofFollows ==
  ASSUME Ind, WellFormed(input), Following, HandledInTurn, ReadEof
  PROVE  Following' /\ HandledInTurn'
<1>1. /\ pc \notin {"done", "aborted"} /\ source = "file" /\ want > left
      /\ pos' = pos + left /\ UNCHANGED <<source, input, sbn, pdh, begun, handled>>
      /\ pc = "extra" => pc' = AfterPdh(pdh)
      /\ pc # "extra" => pc' = "done"
  BY DEF ReadEof, GoOn, IgnoresFailure, InFrame
<1>2. cells' = cells /\ Pieces' = Pieces
  BY <1>1, SameInput
<1>3. /\ pos' = Len(cells) /\ pos' \in Nat /\ pos <= pos' /\ left' = 0 /\ pos \in Nat
      /\ left = Len(cells) - pos /\ pos' <= Len(cells)
  <2>1. pos \in Nat /\ Len(cells) \in Nat /\ pos <= Len(cells) /\ left = Len(cells) - pos
    BY InputFacts
  <2>2. pos' = Len(cells)
    BY <1>1, <2>1
  <2>3. left' = 0
    BY <1>2, <2>1, <2>2 DEF left
  <2>4. QED BY <2>1, <2>2, <2>3
<1>4. CASE pc' = "done"
  <2>1. Following'
    BY <1>4 DEF Following, InFrame
  <2>2. ASSUME NEW g \in input.frames, g.to <= Settled' PROVE FALSE
    <3>1. /\ g.to \in Nat /\ g.at \in Nat /\ g.pdh.total \in Nat /\ g.pdh.size \in Nat
          /\ g.to = g.at + 3 + g.pdh.total + g.pdh.size
      BY PieceFacts DEF Pieces
    <3>2. Settled' = 0
      BY <1>4 DEF Settled, InFrame
    <3>3. QED BY <2>2, <3>1, <3>2
  <2>3. QED BY <1>1, <1>3, <2>1, <2>2, HandledStep
<1>5. CASE pc = "extra"
  <2>1. PICK f \in Pieces : f.at = begun /\ pdh = f.pdh /\ pos = begun + 7
    BY <1>5 DEF Following
  <2>2. /\ f.at \in Nat /\ f.to \in Nat /\ f.pdh.len \in Nat /\ f.pdh.total \in Nat
        /\ f.pdh.size \in Nat /\ f.pdh.total >= f.pdh.len
        /\ f.to = f.at + 3 + f.pdh.total + f.pdh.size
    BY PieceFacts
  <2>3. want = f.pdh.len - 4
    BY <1>5, <2>1 DEF want, Wanted, PdhSize
  <2>4. pos' < f.to
    <3> DEFINE l == f.pdh.len
               t == f.pdh.total
               s == f.pdh.size
               n == Len(cells)
    <3>1. n \in Nat /\ l - 4 > n - (f.at + 7) /\ pos' = n
      BY <1>1, <1>3, <2>1, <2>3
    <3>2. /\ f.at \in Nat /\ l \in Nat /\ t \in Nat /\ s \in Nat /\ t >= l
          /\ f.to = f.at + 3 + t + s
      BY <2>2
    <3> HIDE DEF l, t, s, n
    <3>3. n < f.at + 3 + l
      BY <3>1, <3>2
    <3>4. f.at + 3 + l <= f.to
      BY <3>2
    <3>5. QED BY <3>1, <3>2, <3>3, <3>4
  <2>5. CutOff(f)'
    BY <1>1, <1>3, <2>4 DEF CutOff
  <2>6. /\ sbn.command \notin PuntCommands /\ sbn.command = cells[begun + 2]
        /\ sbn' = [len |-> SbnSize, command |-> cells[begun + 2]]
    BY <1>1, <1>5 DEF Following, InFrame
  <2>7. f.at + 3 <= Len(cells)
    BY <1>3, <2>1, <2>2
  <2>8. CASE f \in input.frames
    <3>1. pc' \in {"psh", "data"}
      BY <1>1, <1>5, <2>1, <2>7, <2>8, KindFacts
    <3>2. /\ pc' # "shift" /\ pc' # "first" /\ pc' # "rest" /\ pc' # "pdh" /\ pc' # "extra"
          /\ pc' \in InFrame /\ pc \in InFrame
      BY <1>5, <3>1 DEF InFrame
    <3>3. Following'
      BY <1>1, <1>2, <1>5, <2>1, <2>5, <2>6, <2>8, <3>1, <3>2 DEF Following
    <3>4. QED BY <1>1, <1>3, <3>2, <3>3, FrameGoesOn
  <2>9. CASE f \in input.skipped
    <3>1. pc' = "first" \/ pc' = "psh"
      BY <1>1, <1>5, <2>1, <2>6, <2>7, <2>9, KindFacts
    <3>2. CASE pc' = "psh"
      <4>1. /\ pc' # "shift" /\ pc' # "first" /\ pc' # "rest" /\ pc' # "pdh" /\ pc' # "extra"
            /\ pc' # "data" /\ pc' \in InFrame /\ pc \in InFrame
        BY <1>5, <3>2 DEF InFrame
      <4>2. Following'
        BY <1>1, <1>2, <1>5, <2>1, <2>5, <2>6, <3>2, <4>1 DEF Following
      <4>3. QED BY <1>1, <1>3, <4>1, <4>2, FrameGoesOn
    <3>3. CASE pc' = "first"
      <4>1. Following'
        BY <1>3, <3>3 DEF Following, InFrame
      <4>2. ASSUME NEW g \in input.frames, g.to <= Settled', ~(g.to <= Settled)
            PROVE  FALSE
        <5>1. g.to \in Nat
          BY PieceFacts DEF Pieces
        <5>2. Settled = begun - 1 /\ Settled' = pos'
          BY <1>5, <3>3 DEF Settled, InFrame
        <5>3. f.at <= g.to
          BY <2>1, <2>2, <4>2, <5>1, <5>2
        <5>4. g.to <= f.to
          BY <1>3, <2>2, <2>4, <4>2, <5>1, <5>2
        <5>5. QED BY <2>9, <5>3, <5>4, SkippedSettles
      <4>3. QED BY <1>1, <1>3, <4>1, <4>2, HandledStep
    <3>4. QED BY <3>1, <3>2, <3>3
  <2>10. QED BY <2>8, <2>9 DEF Pieces
<1>6. QED BY <1>1, <1>4, <1>5

-----------------------------------------------------------------------------
LEMMA StepInvInitially == ASSUME Init PROVE StepInv
<1>1. /\ pc = "first" /\ pos = 0 /\ handled = {} /\ Ind
  BY InitInd DEF Init
<1>2. ASSUME WellFormed(input) PROVE Following /\ HandledInTurn
  <2>1. left = 0 \/ \E f \in Pieces : f.at = pos + 1
    <3>1. CASE Len(cells) = 0
      BY <1>1, <3>1 DEF left
    <3>2. CASE Len(cells) # 0
      <4>1. 1 \in DOMAIN cells
        BY <1>1, <3>2, InputFacts
      <4>2. \E f \in Pieces : f.at = 1
        BY <1>2, <4>1 DEF WellFormed, Pieces, cells
      <4>3. 0 + 1 = 1
        OBVIOUS
      <4>4. QED BY <1>1, <4>2, <4>3
    <3>3. QED BY <3>1, <3>2
  <2>2. Following
    BY <1>1, <2>1 DEF Following, InFrame
  <2>3. ASSUME NEW g \in input.frames, g.to <= Settled PROVE FALSE
    <3>1. /\ g.to \in Nat /\ g.at \in Nat /\ g.pdh.total \in Nat /\ g.pdh.size \in Nat
          /\ g.to = g.at + 3 + g.pdh.total + g.pdh.size
      BY <1>1, <1>2, PieceFacts DEF Pieces
    <3>2. Settled = 0
      BY <1>1 DEF Settled
    <3>3. QED BY <2>3, <3>1, <3>2
  <2>4. QED BY <1>1, <2>2, <2>3 DEF HandledInTurn
<1>3. QED BY <1>2 DEF StepInv

LEMMA StepInvStep == ASSUME Ind, StepInv, [Next]_vars PROVE StepInv'
<1> SUFFICES ASSUME faults' = 0, WellFormed(input)' PROVE Following' /\ HandledInTurn'
  BY DEF StepInv
<1>1. CASE UNCHANGED vars
  <2>1. Following /\ HandledInTurn
    BY <1>1 DEF vars, StepInv
  <2>2. UNCHANGED <<source, input, pos, pc, sbn, pdh, begun, handled>>
    BY <1>1 DEF vars
  <2>3. QED BY <2>1, <2>2
     DEF Following, HandledInTurn, Pieces, CutOff, Settled, Missed, Unsent, left, cells
<1>2. CASE Next
  <2>1. input' = input
    BY <1>2 DEF Next, FirstByte, Accept, Shift, NoStart, ReadPdh, ReadExtra, ReadPsh, ReadData,
       ReadRefused, ReadClosed, ReadEof, ReadFault, Got
  <2>2. faults \in Nat
    BY DEF Ind, IInv, TypeOK
  <2>3. ~ReadFault /\ faults' = faults
    <3>1. ~ReadFault
      BY <2>2 DEF ReadFault
    <3>2. QED BY <1>2, <3>1 DEF Next, FirstByte, Accept, Shift, NoStart, ReadPdh, ReadExtra,
       ReadPsh, ReadData, ReadRefused, ReadClosed, ReadEof, Got
  <2>4. WellFormed(input) /\ Following /\ HandledInTurn
    <3>1. WellFormed(input)
      BY <2>1
    <3>2. QED BY <2>3, <3>1 DEF StepInv
  <2>5. ~ReadRefused
    BY <2>4, NoFrameRefused DEF ReadRefused
  <2>6. QED BY <1>2, <2>3, <2>4, <2>5, FirstByteFollows, AcceptFollows, NoOtherSearch,
     ReadPdhFollows, ReadExtraFollows, ReadPshFollows, ReadDataFollows, ReadClosedFollows,
     ReadEofFollows DEF Next
<1>3. QED BY <1>1, <1>2

\* As long as no read fails, pmStart() and readnoaaport's main() find the frames of a
\* well-formed input one by one, whatever their data look like, however long their
\* headers are and wherever the input is cut off: they handle those and no others.
THEOREM StaysInStep == Spec => []InStep
<1>1. Init => StepInv
  BY StepInvInitially
<1>2. Ind /\ StepInv /\ [Next]_vars => StepInv'
  BY StepInvStep
<1>3. StepInv => InStep
  BY DEF StepInv, HandledInTurn, Settled, Missed, Unsent, InStep
<1>4. QED BY Invariance, <1>1, <1>2, <1>3, PTL DEF Spec
=============================================================================
