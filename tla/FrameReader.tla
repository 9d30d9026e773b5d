---------------------------- MODULE FrameReader ----------------------------
(***************************************************************************)
(* How frames are found in the bytes received: the first part of the loop  *)
(* of pmStart() in productMaker.c and of main() in readnoaaport.c, which   *)
(* are alike, with readsbn(), readpdh() and what is used of readpsh(), for *)
(* their three sources: the byte FIFO, the shared-memory FIFO              *)
(* (_shm_bufread()) and a file (_fd_bufread()).                            *)
(*                                                                         *)
(* A frame is an SBN header (16 bytes, the first of which is 255), a       *)
(* product definition header (PDH, 16 bytes or more), for the first frame  *)
(* of a product a product-specific header (PSH), and data.  Here bytes are *)
(* cells and the headers have SbnSize and PdhSize of them:                 *)
(*    SBN: Start, length, command (with version and channel), checksum     *)
(*    PDH: length, flags (with version), total length, size of the data    *)
(*    PSH: length, and whatever follows                                    *)
(***************************************************************************)
EXTENDS Integers, Sequences

CONSTANTS
    Sources,     \* of "fifo", "shm" and "file"
    Inputs,      \* what may be received, see InputAssumption
    Start,       \* 255
    Checksum(_, _, _),  \* of the first three cells
    DataCommand, TimingCommand,
    PuntCommands,       \* readsbn() takes them, the caller does not
    BadVersion,         \* flags of a PDH of another version
    FifoSize,           \* of the byte FIFO
    BufSize,            \* of "buf" (10000)
    MaxFaults           \* bound: failures of read(2) and shmfifo_get()

SbnSize == 4
PdhSize == 4

Pdh == [len : Nat, flags : Nat, total : Nat, size : Nat]

\* An input is cells, the ends of the records in which they are put into the
\* shared-memory FIFO, and the frames in it, with their places and PDHs, that are to
\* be handled and that are to be skipped.
Frame == [at : Nat, to : Nat, pdh : Pdh]
Input == [cells : Seq(Nat), ends : SUBSET Nat, frames : SUBSET Frame, skipped : SUBSET Frame]
ASSUME InputAssumption == Inputs \subseteq Input
ASSUME NumberAssumption ==
    /\ Sources \subseteq {"fifo", "shm", "file"}
    /\ {Start, DataCommand, TimingCommand, BadVersion, MaxFaults} \subseteq Nat
    /\ FifoSize \in Nat \ 0..PdhSize - 1 /\ BufSize \in Nat \ 0..SbnSize + PdhSize - 1
ASSUME CommandAssumption == DataCommand \notin {TimingCommand} \union PuntCommands

\* A PDH is within "buf" wherever the SBN header says that it begins.
ASSUME BufferAssumption ==
    \A x \in Inputs : \A i \in DOMAIN x.cells : x.cells[i] + PdhSize <= BufSize

VARIABLES
    source,
    input,
    pos,      \* how many cells have been read
    buf,
    pc,       \* which read is next
    ioff,     \* IOFF: how far the cells in hand were shifted
    sbn, pdh, \* the headers as read: length and command; length, flags, total, size
    begun,    \* where the cells in hand, or the frame being read, begin
    taken,    \* the cells of frames, whole or not, and those lost by faults
    handled,  \* the frames of which the data were read
    faults

vars == <<source, input, pos, buf, pc, ioff, sbn, pdh, begun, taken, handled, faults>>

cells == input.cells

InFrame == {"pdh", "extra", "psh", "data"}

Init ==
    /\ source \in Sources
    /\ input \in Inputs
    /\ pos = 0
    /\ buf = [i \in 1..BufSize |-> 0]
    /\ pc = "first"
    /\ ioff = 0
    /\ sbn = [len |-> 0, command |-> 0]
    /\ pdh = [len |-> 0, flags |-> 0, total |-> 0, size |-> 0]
    /\ begun = 1
    /\ taken = {}
    /\ handled = {}
    /\ faults = 0

-----------------------------------------------------------------------------
(***************************************************************************)
(* Reading.                                                                *)
(***************************************************************************)
\* A variant puts the PSH behind the nominal headers, whatever their lengths say.
Wanted_Nominal(place) ==
    CASE place = "first" -> [at |-> 0, n |-> 1]
      [] place = "rest"  -> [at |-> 1, n |-> SbnSize - 1]
      [] place = "shift" -> [at |-> SbnSize - ioff, n |-> ioff]
      [] place = "pdh"   -> [at |-> SbnSize, n |-> PdhSize]
      [] place = "extra" -> [at |-> sbn.len + PdhSize, n |-> pdh.len - PdhSize]
      [] place = "psh"   -> [at |-> SbnSize + PdhSize, n |-> pdh.total - PdhSize]
      [] place = "data"  -> [at |-> sbn.len + pdh.total, n |-> pdh.size]

\* Where in "buf" the next read puts cells and how many.
Wanted(place) ==
    CASE place = "first" -> [at |-> 0, n |-> 1]
      [] place = "rest"  -> [at |-> 1, n |-> SbnSize - 1]
      [] place = "shift" -> [at |-> SbnSize - ioff, n |-> ioff]
      [] place = "pdh"   -> [at |-> SbnSize, n |-> PdhSize]
      [] place = "extra" -> [at |-> sbn.len + PdhSize, n |-> pdh.len - PdhSize]
      [] place = "psh"   -> [at |-> sbn.len + pdh.len, n |-> pdh.total - pdh.len]
      [] place = "data"  -> [at |-> sbn.len + pdh.total, n |-> pdh.size]

want == Wanted(pc).n
left == Len(cells) - pos

\* fifoRead(), _shm_bufread() and, as a size_t, read(2) refuse such an amount.
Refused == want < 0 \/ (source = "fifo" /\ want > FifoSize)

\* "buf" when the first k cells of what is wanted have been read.
Filled(k) ==
    [i \in 1..BufSize |->
        IF i - Wanted(pc).at \in 1..k THEN cells[pos + i - Wanted(pc).at] ELSE buf[i]]

Got ==
    /\ ~Refused
    /\ want <= left
    /\ pos' = pos + want
    /\ UNCHANGED <<source, input, faults>>

-----------------------------------------------------------------------------
(***************************************************************************)
(* The search for an SBN header.                                           *)
(***************************************************************************)
FirstByte ==
    /\ pc = "first"
    /\ Got
    /\ buf' = Filled(1)
    /\ pc' = IF buf'[1] = Start THEN "rest" ELSE "first"
    /\ begun' = pos'
    /\ UNCHANGED <<ioff, sbn, pdh, taken, handled>>

\* readsbn(): whether b begins with an SBN header.
IsSbn(b) ==
    /\ b[4] = Checksum(b[1], b[2], b[3])
    /\ b[1] = Start
    /\ b[3] \in {DataCommand, TimingCommand} \union PuntCommands

\* Where else one may begin.  Two variants begin one too far, or end one too far.
Starts_FromSecond(b) == {k \in 2..SbnSize - 1 : b[k + 1] = Start}
Starts_TooFar(b) == {k \in 1..SbnSize : b[k + 1] = Start}
Starts(b) == {k \in 1..SbnSize - 1 : b[k + 1] = Start}

InHand == pc \in {"rest", "shift"}

Accept ==
    /\ InHand /\ Got
    /\ IsSbn(Filled(want))
    /\ buf' = Filled(want)
    /\ sbn' = [len |-> buf'[2], command |-> buf'[3]]
    /\ pc' = "pdh"
    /\ UNCHANGED <<ioff, pdh, begun, taken, handled>>

\* The cells from the next Start on are moved to the front.
Shift ==
    LET b == Filled(want)
    IN  /\ InHand /\ Got
        /\ ~IsSbn(b)
        /\ \E k \in Starts(b) :
              /\ \A j \in Starts(b) : k <= j
              /\ ioff' = k
              /\ begun' = begun + k
              /\ buf' = [i \in 1..BufSize |-> IF i <= SbnSize - k THEN b[i + k] ELSE b[i]]
        /\ pc' = "shift"
        /\ UNCHANGED <<sbn, pdh, taken, handled>>

NoStart ==
    /\ InHand /\ Got
    /\ ~IsSbn(Filled(want)) /\ Starts(Filled(want)) = {}
    /\ buf' = Filled(want)
    /\ pc' = "first"
    /\ UNCHANGED <<ioff, sbn, pdh, begun, taken, handled>>

-----------------------------------------------------------------------------
(***************************************************************************)
(* The rest of a frame.                                                    *)
(***************************************************************************)
\* What is read next, once a PDH p is complete.
AfterPdh(p) ==
    IF p.flags = BadVersion \/ (p.total = p.len /\ p.flags = 0) THEN "first"
    ELSE IF p.total # p.len THEN "psh" ELSE "data"

\* The frame goes on with another read, or is over: what there is of it was taken.
GoOn(place) ==
    /\ pc' = place
    /\ taken' = IF place \in InFrame THEN taken ELSE taken \union (begun..pos')

\* readpdh(), after the checks of the SBN header.
ReadPdh ==
    LET b == Filled(want)
        at == sbn.len
    IN  /\ pc = "pdh" /\ Got
        /\ buf' = b
        /\ IF sbn.command \in PuntCommands
           THEN GoOn("first") /\ UNCHANGED pdh
           ELSE /\ pdh' = [len |-> b[at + 1], flags |-> b[at + 2],
                           total |-> b[at + 3], size |-> b[at + 4]]
                /\ GoOn(IF pdh'.len > PdhSize THEN "extra" ELSE AfterPdh(pdh'))
        /\ UNCHANGED <<ioff, sbn, begun, handled>>

ReadExtra ==
    /\ pc = "extra" /\ Got
    /\ buf' = Filled(want)
    /\ GoOn(AfterPdh(pdh))
    /\ UNCHANGED <<ioff, sbn, pdh, begun, handled>>

\* A timing block ends here; so does a frame whose PSH has another length than the
\* PDH says.
ReadPsh ==
    /\ pc = "psh" /\ Got
    /\ buf' = Filled(want)
    /\ GoOn(IF sbn.command = TimingCommand \/ buf'[sbn.len + pdh.len + 1] # want
            THEN "first" ELSE "data")
    /\ UNCHANGED <<ioff, sbn, pdh, begun, handled>>

ReadData ==
    /\ pc = "data" /\ Got
    /\ buf' = Filled(want)
    /\ handled' = handled \union {[at |-> begun, to |-> pos', pdh |-> pdh]}
    /\ GoOn("first")
    /\ UNCHANGED <<ioff, sbn, pdh, begun>>

-----------------------------------------------------------------------------
(***************************************************************************)
(* A read that fails.  readnoaaport takes no notice of one in the middle   *)
(* of a PDH, and calls abort() when the first byte cannot be read.         *)
(***************************************************************************)
IgnoresFailure == pc = "extra" /\ source # "fifo"

\* The amount is refused, and nothing is read.
ReadRefused ==
    /\ pc \notin {"done", "aborted"}
    /\ Refused
    /\ UNCHANGED <<source, input, pos, buf, ioff, sbn, pdh, begun, handled, faults>>
    /\ GoOn(IF IgnoresFailure THEN AfterPdh(pdh) ELSE "first")

\* The FIFO is closed and empty.  A variant tries the first byte again.
ReadClosed_Retried ==
    /\ pc \notin {"done", "aborted"}
    /\ source = "fifo" /\ ~Refused /\ left = 0
    /\ pc' = "first"
    /\ UNCHANGED <<source, input, pos, buf, ioff, sbn, pdh, begun, taken, handled, faults>>
ReadClosed ==
    /\ pc \notin {"done", "aborted"}
    /\ source = "fifo" /\ ~Refused /\ left = 0
    /\ pc' = IF pc = "first" THEN "done" ELSE "first"
    /\ taken' = IF pc \in InFrame THEN taken \union (begun..pos) ELSE taken
    /\ UNCHANGED <<source, input, pos, buf, ioff, sbn, pdh, begun, handled, faults>>

\* A file ends, which sets DONE.
ReadEof ==
    /\ pc \notin {"done", "aborted"}
    /\ source = "file" /\ want > left
    /\ buf' = Filled(left)
    /\ pos' = pos + left
    /\ IF pc \in InFrame
       THEN GoOn(IF IgnoresFailure THEN AfterPdh(pdh) ELSE "done")
       ELSE pc' = "done" /\ UNCHANGED taken
    /\ UNCHANGED <<source, input, ioff, sbn, pdh, begun, handled, faults>>

\* The end of the next record, which a shmfifo_get() that fails may have consumed.
NextEnds(p) ==
    {e \in input.ends : p < e /\ e <= Len(cells) /\ \A f \in input.ends : p < f => e <= f}

\* read(2) fails anywhere, shmfifo_get() between two records.
ReadFault ==
    /\ pc \notin {"done", "aborted"}
    /\ ~Refused /\ faults < MaxFaults
    /\ \E k \in 0..want - 1 :
        /\ k <= left
        /\ buf' = Filled(k)
        /\ \/ source = "file" /\ pos' = pos + k
           \/ source = "shm" /\ pos + k \in input.ends /\ pos' \in {pos + k} \union NextEnds(pos + k)
    /\ faults' = faults + 1
    /\ IF pc = "first" THEN pc' = "aborted" /\ taken' = taken \union (pos + 1..pos')
       ELSE GoOn(IF IgnoresFailure THEN AfterPdh(pdh) ELSE "first")
    /\ UNCHANGED <<source, input, ioff, sbn, pdh, begun, handled>>

-----------------------------------------------------------------------------
Next ==
    \/ FirstByte \/ Accept \/ Shift \/ NoStart
    \/ ReadPdh \/ ReadExtra \/ ReadPsh \/ ReadData
    \/ ReadRefused \/ ReadClosed \/ ReadEof \/ ReadFault

Spec == Init /\ [][Next]_vars

\* The thread runs.
FairSpec == Spec /\ WF_vars(Next)

-----------------------------------------------------------------------------
(***************************************************************************)
(* Properties.                                                             *)
(***************************************************************************)
TypeOK ==
    /\ source \in Sources /\ input \in Input
    /\ pos \in 0..Len(cells)
    /\ buf \in [1..BufSize -> Nat]
    /\ pc \in {"first", "rest", "shift", "done", "aborted"} \union InFrame
    /\ ioff \in 0..SbnSize - 1
    /\ sbn \in [len : Nat, command : Nat]
    /\ pdh \in Pdh
    /\ begun \in 1..Len(cells) + 1
    /\ taken \subseteq 1..Len(cells)
    /\ handled \subseteq Frame
    /\ faults \in 0..MaxFaults

\* A whole SBN header begins at p.
SbnAt(p) == p + SbnSize - 1 <= Len(cells) /\ IsSbn(SubSeq(cells, p, p + SbnSize - 1))

\* The cells that the search has done with.
Passed == IF pc \in {"rest", "shift"} \union InFrame THEN begun - 1 ELSE pos

\* Every SBN header in what was received is found, however it is cut up by the
\* search, unless it lies in a frame that another one began, or in cells that a
\* failed read left behind; and what is read as a frame begins with one.
HeadersAreFound ==
    /\ \A p \in 1..Passed : SbnAt(p) => p \in taken
    /\ pc \in InFrame => SbnAt(begun)

\* What HeadersAreFound follows from, besides itself: the cells in hand are the
\* last ones read, and a PDH fits "buf".
InHandOK ==
    /\ pc = "rest" => begun = pos /\ buf[1] = cells[pos]
    /\ pc = "shift" => /\ ioff # 0 /\ begun + SbnSize - ioff - 1 = pos
                       /\ \A i \in 1..SbnSize - ioff : buf[i] = cells[begun + i - 1]
    /\ pc \in InFrame => begun + SbnSize - 1 <= pos /\ sbn.len + PdhSize <= BufSize

IInv == TypeOK /\ InHandOK /\ HeadersAreFound

\* The SBN header and the PDH of f are in c, as far as c goes.
Says(c, i, value) == i \in DOMAIN c => c[i] = value
Headed(c, f, command) ==
    /\ Says(c, f.at, Start) /\ Says(c, f.at + 1, SbnSize) /\ Says(c, f.at + 2, command)
    /\ Says(c, f.at + 3, Checksum(Start, SbnSize, command))
    /\ Says(c, f.at + 4, f.pdh.len) /\ Says(c, f.at + 5, f.pdh.flags)
    /\ Says(c, f.at + 6, f.pdh.total) /\ Says(c, f.at + 7, f.pdh.size)

\* Lengths that make sense and fit.
Sensible(f) ==
    LET p == f.pdh
    IN  /\ f.at > 0 /\ f.to = f.at + SbnSize + p.total + p.size - 1
        /\ PdhSize <= p.len /\ p.len <= p.total
        /\ SbnSize + p.total + p.size <= BufSize
        /\ \A n \in {p.len - PdhSize, p.total - p.len, p.size} : n <= FifoSize

\* A frame of a product, its PSH having the length that the PDH says.
IsFrame(c, f) ==
    LET p == f.pdh
    IN  /\ Headed(c, f, DataCommand) /\ Sensible(f)
        /\ AfterPdh(p) # "first"
        /\ p.total # p.len => Says(c, f.at + SbnSize + p.len, p.total - p.len)

\* A frame that is skipped: the headers of it that are read, and no Start after them.
HeadersRead(p, command) ==
    IF command \in PuntCommands THEN PdhSize ELSE IF AfterPdh(p) = "first" THEN p.len ELSE p.total
IsSkipped(c, f) ==
    \E command \in {DataCommand, TimingCommand} \union PuntCommands :
        /\ Headed(c, f, command) /\ Sensible(f)
        /\ \/ command \in PuntCommands \/ AfterPdh(f.pdh) = "first"
           \/ command = TimingCommand /\ AfterPdh(f.pdh) = "psh"
        /\ \A i \in DOMAIN c :
              f.at + SbnSize + HeadersRead(f.pdh, command) <= i /\ i <= f.to => c[i] # Start

\* One frame after the other, from the first cell to the last, where a frame may be
\* cut off.
WellFormed(x) ==
    LET all == x.frames \union x.skipped
    IN  /\ \A f \in x.frames : IsFrame(x.cells, f) /\ f \notin x.skipped
        /\ \A f \in x.skipped : IsSkipped(x.cells, f)
        /\ \A f, g \in all : f = g \/ f.to < g.at \/ g.to < f.at
        /\ \A i \in {1} \union {f.to + 1 : f \in all} :
              i \in DOMAIN x.cells => \E f \in all : f.at = i

\* As long as what is received is frames and no read fails, the reader is in step
\* with it, whatever the data of frames look like: the frames that are handled are
\* those that were sent, from their first to their last cell, with their own PDHs.
\* A last frame without data is an exception: fifoRead() of no bytes fails when the
\* FIFO is closed by then; and a file may cut off its PDH, which goes unnoticed.
InStep ==
    pc = "first" /\ faults = 0 /\ WellFormed(input) =>
        /\ \A f \in input.frames : f.to <= pos =>
              f \in handled \/ (source = "fifo" /\ f.pdh.size = 0 /\ left = 0)
        /\ \A f \in handled :
              f \in input.frames \/ (source = "file" /\ f.pdh.size = 0 /\ left = 0)

\* The reader comes to an end, or waits for cells that have not been put into the
\* FIFO: it never tries in vain for ever.
Waits == /\ pc \notin {"done", "aborted"}
         /\ ~Refused /\ want > left
         /\ source = "shm" \/ (source = "fifo" /\ left > 0)
ReaderEnds == <>(pc \in {"done", "aborted"} \/ Waits)
=============================================================================
