---------------------------- MODULE ProductMaker ----------------------------
(***************************************************************************)
(* The product-maker of noaaportIngester: the loop of pmStart() in         *)
(* productMaker.c, one step per frame, with the arena of process_prod.c,   *)
(* the image writer of png_io.c and the packet counts.                     *)
(*                                                                         *)
(* A product is sent in blocks, a frame each; the first frame also has the *)
(* product's header (PSH).  Frames come in by UDP: any of them may be lost *)
(* and some may come late or twice.                                        *)
(*                                                                         *)
(* What the code calls GOES is an image, deflated by png_io.c or sent      *)
(* compressed ("zipped"); what it calls NWSTG is text.  The bytes of a     *)
(* block are cells that say which part of which product they are.          *)
(***************************************************************************)
EXTENDS Integers, Sequences, FiniteSets

CONSTANTS
    Product,       \* records: id, kind, frags (psh->frags), sizes (of the
                   \* blocks, in cells), trailer (sent with one), fault
    Transmissions, \* the sequences of frames that may be sent
    Stream,        \* sbn->datastream
    FirstSeqno,    \* SBN sequence number before the first frame
    SeqSize,       \* how many sequence numbers there are (2^32)
    LongSize,      \* how many values an unsigned long has (2^64)
    FirstMaxFrags, MoreFrags,  \* MAXFRAGS (1000) and its increment (1000)
    FragRoom, ExtraRoom,       \* heap per fragment and in addition
    MaxLate        \* bound: frames that come late or twice

Kinds == {"text", "image", "zipped"}
Faults == {"none", "psh", "pdb"}
Frame == [type : {"header", "block", "skipped"}, product : Product, block : Nat,
          runno : Nat]

ASSUME SomeProduct == Product # {}
ASSUME ProductAssumption == \* a datastream is for images, for texts, or (4) for both
    \A p \in Product : /\ p.kind \in Kinds /\ p.fault \in Faults /\ p.frags \in Nat
                       /\ p.sizes \in Seq(Nat \ {0})
                       /\ Len(p.sizes) = IF p.frags = 0 THEN 1 ELSE p.frags
                       /\ p.trailer \in BOOLEAN
                       /\ p.fault = "pdb" => p.kind # "text"
                       /\ Stream \in {1, 2} => p.kind # "text"
                       /\ Stream \in {5, 6, 7} => p.kind = "text"
\* The header is sent with block 0 (and dereferences prod.tail if it is not).
ASSUME TransmissionAssumption ==
    \A s \in Transmissions :
        /\ s \in Seq(Frame)
        /\ \A i \in DOMAIN s : s[i].type # "skipped" =>
              /\ s[i].type = "header" <=> s[i].block = 0
              /\ s[i].block < Len(s[i].product.sizes)
\* The blocks of a product are sent in order, with none of another one between.
ASSUME SenderAssumption ==
    \A s \in Transmissions : \A i, j \in DOMAIN s :
        i < j /\ "skipped" \notin {s[i].type, s[j].type} /\ s[i].product = s[j].product =>
            /\ s[i].block < s[j].block
            /\ \A k \in i..j : s[k].type = "skipped" \/ s[k].product = s[i].product
ASSUME NumberAssumption ==
    /\ {FirstSeqno, FragRoom, ExtraRoom, MaxLate} \subseteq Nat
    /\ {SeqSize, LongSize, FirstMaxFrags, MoreFrags} \subseteq Nat \ {0}
    /\ SeqSize <= LongSize
    /\ Stream \in {1, 2, 4, 5, 6, 7}

VARIABLES
    sent,      \* the frames sent
    arrived,   \* the highest index of a frame that has arrived, 0 for none
    received,  \* how many have arrived
    late,      \* how many of them out of order
    since,     \* the first frame of this run number, what was counted then, and
               \* the highest index of a frame that has arrived since
    lastRunno, lastSeqno,       \* last_sbn_runno, last_sbn_seqno
    npackets, nmissed, nprods,  \* of struct productMaker
    maker,     \* what pmStart() has of a product
    queue      \* what lpqInsert() has put into the LDM product-queue

network == <<sent, arrived, received, late>>
counts == <<since, lastRunno, lastSeqno, npackets, nmissed>>
vars == <<network, counts, nprods, maker, queue>>

None == -1

-----------------------------------------------------------------------------
(***************************************************************************)
(* Data.                                                                   *)
(***************************************************************************)
Cell(p, b, i) == [of |-> p.id, block |-> b, at |-> i]
FosHeader(p) == [of |-> p.id, block |-> None, at |-> 0]
FosTrailer == [of |-> 0, block |-> None, at |-> 1]

\* The data of block b of product p.
Data(p, b) ==
    [i \in 1..p.sizes[b + 1] |->
        IF p.trailer /\ b + 1 = Len(p.sizes) /\ i = p.sizes[b + 1]
        THEN FosTrailer ELSE Cell(p, b, i)]

\* Trailers that the data end with are taken off, but for the first four bytes.
Stripped(data) ==
    LET n == CHOOSE k \in 1..Len(data) :
                /\ \A i \in k + 1..Len(data) : data[i] = FosTrailer
                /\ k = 1 \/ data[k] # FosTrailer
    IN  SubSeq(data, 1, n)

\* memcpy(heap + at, data, Len(data))
Written(heap, at, data) ==
    SubSeq(heap, 1, at) \o data \o SubSeq(heap, at + Len(data) + 1, Len(heap))

-----------------------------------------------------------------------------
(***************************************************************************)
(* The arena of fragments (ds_init(), ds_alloc(), ds_free()); m is a value *)
(* of "maker".  The fragments of the product in progress, from prod.head   *)
(* to prod.tail, are in it; what is used of them is the last one's number. *)
(***************************************************************************)
DsInit_NotEnlarged(m, nfrags) == [m EXCEPT !.nextfrag = 0]
DsInit(m, nfrags) ==
    [m EXCEPT !.nextfrag = 0,
              !.maxfrags = IF nfrags >= @ THEN nfrags + 1 ELSE @]
DsAlloc(m) ==
    [m EXCEPT !.nextfrag = @ + 1,
              !.maxfrags = IF m.nextfrag >= @ THEN @ + MoreFrags ELSE @]
\* The product in progress is given up, or done.
DsFree(m) == [m EXCEPT !.nextfrag = 0, !.tail = None]

\* pngout_end(): what is left of the deflated rows goes to the heap.
PngEnd(m) ==
    [m EXCEPT !.heap = Written(@, m.prodoff, m.rows),
              !.prodoff = @ + Len(m.rows),
              !.rows = <<>>]

\* Whether a frame's data are taken for an image: the variable GOES.
IsGoes(m) ==
    CASE Stream \in {1, 2} -> TRUE
      [] Stream \in {5, 6, 7} -> FALSE
      [] Stream = 4 -> m.psh.kind # "text"

-----------------------------------------------------------------------------
(***************************************************************************)
(* A header: the product in progress is abandoned and another one begun.   *)
(***************************************************************************)
Abandoned(m) ==
    IF m.tail = None THEN m
    ELSE IF m.png THEN [PngEnd(DsFree(m)) EXCEPT !.png = FALSE]
    ELSE DsFree(m)

Opened(m, p) ==
    DsInit([Abandoned([m EXCEPT !.psh = p]) EXCEPT !.prod = p], p.frags)

\* The heap is emptied and made large enough (by prodalloc()).
Begun(m, p) ==
    LET o == [Opened(m, p) EXCEPT
                !.name = p,
                !.heapcount = 0,
                !.heapsize = (IF p.frags = 0 THEN 1 ELSE p.frags) * FragRoom + ExtraRoom]
    IN  IF IsGoes(o) THEN o
        ELSE [o EXCEPT !.heap = Written(@, 0, <<FosHeader(p)>>), !.heapcount = 1]

-----------------------------------------------------------------------------
(***************************************************************************)
(* The data of a frame f, added to the product in progress.                *)
(***************************************************************************)
IsLast_OffByOne(m, f) == m.prod.frags = 0 \/ m.prod.frags = f.block
IsLast(m, f) == m.prod.frags = 0 \/ m.prod.frags = f.block + 1

InSequence_NumberOnly(m, f) == m.tail # None => f.block = m.tail + 1
InSequence(m, f) ==
    (IF IsGoes(m) THEN f.block > 0 ELSE m.prod.frags # 0 /\ m.tail # None)
        => f.block = m.tail + 1 /\ f.product = m.prod

TextOf(m, f) ==
    IF IsLast(m, f) THEN Stripped(Data(f.product, f.block)) ELSE Data(f.product, f.block)

\* An uncompressed block of an image that was not begun, or too large a text.
Refused(m, f) ==
    IF IsGoes(m) THEN f.block > 0 /\ f.product.kind # "zipped" /\ ~m.png
    ELSE m.heapcount + Len(TextOf(m, f)) > m.heapsize

Appended(m, data) ==
    [m EXCEPT !.heap = Written(@, m.heapcount, data), !.heapcount = @ + Len(data)]

\* png_set_memheap(), png_header(), pngout_init().
PngBegun(m, data) ==
    [m EXCEPT !.heap = Written(@, 0, data), !.prodoff = Len(data),
              !.rows = <<>>, !.png = TRUE]

Filled(m, f) ==
    LET data == Data(f.product, f.block)
    IN  IF ~IsGoes(m) THEN Appended(m, TextOf(m, f))
        ELSE IF f.product.kind = "zipped" THEN Appended(m, data)
        ELSE IF f.block > 0 THEN [m EXCEPT !.rows = @ \o data]
        ELSE PngBegun(m, data)

Linked(m, f) == [Filled(DsAlloc(m), f) EXCEPT !.tail = f.block]

\* The heap as it is handed to process_prod().
Finished(m) ==
    IF IsGoes(m) THEN IF m.png THEN [PngEnd(m) EXCEPT !.heapcount = PngEnd(m).prodoff] ELSE m
    ELSE Appended(m, <<FosTrailer>>)

Made(m) == [product |-> m.prod, name |-> m.name, psh |-> m.psh, png |-> m.png,
            data |-> SubSeq(Finished(m).heap, 1, Finished(m).heapcount)]

-----------------------------------------------------------------------------
(***************************************************************************)
(* The arrival of a frame, and its counting.  Sequence numbers are read    *)
(* into an int, which turns the upper half negative, and widened to an     *)
(* unsigned long.                                                          *)
(***************************************************************************)
Seqno(i) == (FirstSeqno + i) % SeqSize
Widened(n) == IF n >= SeqSize \div 2 THEN (n + LongSize - SeqSize) % LongSize ELSE n
Delta_Signed(i) == Widened(Seqno(i)) - lastSeqno
Delta(i) == (Widened(Seqno(i)) - lastSeqno) % LongSize
IsRetrograde(delta) == delta = 0 \/ (SeqSize - 1) \div 2 < delta

Gap_OffByOne(delta) == delta
Gap(delta) == delta - 1

Counted(i) ==
    /\ lastRunno' = sent[i].runno
    /\ lastSeqno' = Widened(Seqno(i))
    /\ IF lastRunno # sent[i].runno
       THEN /\ since' = [at |-> i, counted |-> npackets + nmissed, top |-> i]
            /\ UNCHANGED <<npackets, nmissed>>
       ELSE /\ since' = [since EXCEPT !.top = IF i > @ THEN i ELSE @]
            /\ IF IsRetrograde(Delta(i)) THEN UNCHANGED <<npackets, nmissed>>
               ELSE nmissed' = nmissed + Gap(Delta(i)) /\ npackets' = npackets + 1

Arrives(i) ==
    /\ i > arrived \/ late < MaxLate
    /\ arrived' = IF i > arrived THEN i ELSE arrived
    /\ late' = IF i > arrived THEN late ELSE late + 1
    /\ received' = received + 1
    /\ UNCHANGED sent
    /\ Counted(i)

-----------------------------------------------------------------------------
(***************************************************************************)
(* One iteration of the loop, by where it ends.                            *)
(***************************************************************************)
\* The header of a timing block read like any other.
Skip_ReadsHeader(i) ==
    /\ sent[i].type = "skipped"
    /\ Arrives(i)
    /\ maker' = [maker EXCEPT !.psh = sent[i].product]
    /\ UNCHANGED <<nprods, queue>>

\* A timing block, an unknown command or a frame without a header and flags.
Skip(i) ==
    /\ sent[i].type = "skipped"
    /\ Arrives(i)
    /\ UNCHANGED <<nprods, maker, queue>>

\* psh->olen differs from pdh->pshlen: psh has been overwritten by then.
RejectHeader(i) ==
    /\ sent[i].type = "header" /\ sent[i].product.fault = "psh"
    /\ Arrives(i)
    /\ maker' = [maker EXCEPT !.psh = sent[i].product]
    /\ UNCHANGED <<nprods, queue>>

\* readpdb() fails: the product is never begun.
PuntHeader(i) ==
    LET p == sent[i].product
    IN  /\ sent[i].type = "header" /\ p.fault = "pdb"
        /\ Arrives(i)
        /\ maker' = [Opened(maker, p) EXCEPT !.heapcount = 0]
        /\ UNCHANGED <<nprods, queue>>

\* A block whose header did not come, or whose product was given up.
SkipOrphan(i) ==
    /\ sent[i].type = "block" /\ maker.tail = None
    /\ Arrives(i)
    /\ UNCHANGED <<nprods, maker, queue>>

\* The product that a frame's data belong to, header or not.
Current(i) == IF sent[i].type = "header" THEN Begun(maker, sent[i].product) ELSE maker

HasData(i) ==
    \/ sent[i].type = "header" /\ sent[i].product.fault = "none"
    \/ sent[i].type = "block" /\ maker.tail # None

\* A fragment is missing: the product is given up.  (The image stays open.)
GiveUp(i) ==
    LET m == Current(i)
    IN  /\ HasData(i) /\ ~InSequence(m, sent[i])
        /\ Arrives(i)
        /\ maker' = DsFree(DsAlloc(m))
        /\ UNCHANGED <<nprods, queue>>

\* The frame is left out, its fragment allocated but not linked.
Refuse(i) ==
    LET m == Current(i)
    IN  /\ HasData(i) /\ InSequence(m, sent[i]) /\ Refused(m, sent[i])
        /\ Arrives(i)
        /\ maker' = DsAlloc(m)
        /\ UNCHANGED <<nprods, queue>>

Extend(i) ==
    LET m == Current(i)
    IN  /\ HasData(i) /\ InSequence(m, sent[i]) /\ ~Refused(m, sent[i])
        /\ ~IsLast(m, sent[i])
        /\ Arrives(i)
        /\ maker' = Linked(m, sent[i])
        /\ UNCHANGED <<nprods, queue>>

\* The product is complete.  lpqInsert() refuses a duplicate (by the MD5 of the
\* data); it is counted all the same.
Complete(i) ==
    LET m == Linked(Current(i), sent[i])
    IN  /\ HasData(i) /\ InSequence(Current(i), sent[i]) /\ ~Refused(Current(i), sent[i])
        /\ IsLast(m, sent[i])
        /\ Arrives(i)
        /\ queue' = IF \E k \in DOMAIN queue : queue[k].data = Made(m).data
                    THEN queue ELSE Append(queue, Made(m))
        /\ maker' = [DsFree(Finished(m)) EXCEPT !.png = FALSE]
        /\ nprods' = nprods + 1

-----------------------------------------------------------------------------
Init ==
    /\ sent \in Transmissions
    /\ arrived = 0 /\ received = 0 /\ late = 0
    /\ since = [at |-> 0, counted |-> 0, top |-> 0]
    /\ lastRunno = None /\ lastSeqno = 0
    /\ npackets = 0 /\ nmissed = 0 /\ nprods = 0
    /\ queue = <<>>
    /\ LET p == CHOOSE q \in Product : TRUE \* not used before it is set
       IN maker = [psh |-> p, prod |-> p, name |-> p, tail |-> None,
                   heap |-> <<>>, heapcount |-> 0, heapsize |-> 0,
                   png |-> FALSE, rows |-> <<>>, prodoff |-> 0,
                   nextfrag |-> 0, maxfrags |-> FirstMaxFrags]

Next ==
    \E i \in DOMAIN sent :
        \/ Skip(i) \/ RejectHeader(i) \/ PuntHeader(i) \/ SkipOrphan(i)
        \/ GiveUp(i) \/ Refuse(i) \/ Extend(i) \/ Complete(i)

Spec == Init /\ [][Next]_vars

-----------------------------------------------------------------------------
(***************************************************************************)
(* Properties.                                                             *)
(***************************************************************************)
TypeOK ==
    /\ sent \in Transmissions
    /\ arrived \in 0..Len(sent) /\ received \in Nat /\ late \in 0..MaxLate
    /\ since \in [at : Nat, counted : Nat, top : Nat]
    /\ lastRunno \in Nat \union {None} /\ lastSeqno \in 0..LongSize - 1
    /\ npackets \in Nat /\ nmissed \in Nat /\ nprods \in Nat
    /\ maker.psh \in Product /\ maker.prod \in Product /\ maker.name \in Product
    /\ maker.tail \in Nat \union {None}
    /\ maker.heapcount \in Nat /\ maker.heapsize \in Nat /\ maker.prodoff \in Nat
    /\ maker.png \in BOOLEAN
    /\ maker.nextfrag \in Nat /\ maker.maxfrags \in Nat

\* What the queue is to hold of a product: all its blocks in order; a text
\* between a FOS header and one FOS trailer.
Blocks(p, last) ==
    LET upTo[n \in 0..last] == IF n = 0 THEN <<>> ELSE upTo[n - 1] \o Data(p, n - 1)
    IN  upTo[last]
Whole(p) ==
    IF p.kind = "text"
    THEN <<FosHeader(p)>> \o Blocks(p, Len(p.sizes) - 1)
            \o Stripped(Data(p, Len(p.sizes) - 1)) \o <<FosTrailer>>
    ELSE Blocks(p, Len(p.sizes))

\* Whatever is lost, late or doubled, what goes into the product-queue is a whole
\* product: the blocks of one product in order under its own name, nothing of an
\* abandoned one.  There are two exceptions, both the code's: a compressed image
\* after an uncompressed one that was given up (its image is still open), and a
\* product whose header record has been overwritten.
ProductsAreWhole ==
    \A k \in DOMAIN queue :
        LET q == queue[k]
        IN  /\ q.name = q.product
            /\ \/ q.data = Whole(q.product)
               \/ q.product.kind = "zipped" /\ q.png
               \/ q.psh # q.product

\* productMaker.c:348-351 takes care not to "step on our psh of a product struct
\* of prod in progress": as long as frames come in order, the header record that
\* a product is inserted with is its own.
HeaderIsOwn == late = 0 => \A k \in DOMAIN queue : queue[k].psh = queue[k].product

\* The products of which every frame has been sent up to frame i, and that can be made.
Fits(p) ==
    p.kind = "text" => Len(Whole(p)) - 1 <= (IF p.frags = 0 THEN 1 ELSE p.frags) * FragRoom + ExtraRoom
Sent(i) ==
    {p \in Product : /\ p.fault = "none" /\ Fits(p)
                     /\ \E j \in 1..i : /\ sent[j].type # "skipped" /\ sent[j].product = p
                                        /\ sent[j].block = Len(p.sizes) - 1}

\* When no frame is lost, late or doubled, no product is: each one whose last
\* frame has come is in the queue, once.
NothingLost ==
    late = 0 /\ received = arrived =>
        /\ {queue[k].product : k \in DOMAIN queue} = Sent(arrived)
        /\ Len(queue) = Cardinality(Sent(arrived))

\* Those counted as packets or as missed are at least all the frames from the first
\* of this run number to the last that has come, also when the sequence number
\* starts at 0 again: no loss is hidden, whatever comes late or twice.  As long as
\* frames come in order they are exactly those; one that is late sets the last
\* number back, and the ones after it are counted again.
CountsAddUp ==
    /\ npackets + nmissed >= since.counted + since.top - since.at
    /\ late = 0 => npackets + nmissed = since.counted + arrived - since.at

\* The arena is never enlarged (and moved by realloc()) under the fragments that
\* prod.head and prod.tail point to, as long as frames come in order.
FragmentsStayPut ==
    [][late' = 0 /\ maker'.maxfrags # maker.maxfrags => maker.tail = None \/ maker'.prod # maker.prod]_vars
=============================================================================
