--------------------------- MODULE MCFrameReader ---------------------------
(***************************************************************************)
(* A small instance of FrameReader for TLC: inputs of a few pieces, the    *)
(* last of which may be cut off.                                           *)
(***************************************************************************)
EXTENDS FrameReader, FiniteSets, SequencesExt

Sum(a, b, c) == (a + b + c) % 8

Sbn(len, command) == <<Start, len, command, Sum(Start, len, command)>>
PdhCells(p) == <<p.len, p.flags, p.total, p.size>>
Header(len, flags, total, size) == [len |-> len, flags |-> flags, total |-> total, size |-> size]

\* A piece is cells; "handled", "skipped" or "other", and the PDH if there is one.
NoHeader == Header(0, 0, 0, 0)
Framed(use, command, p, rest) ==
    [cells |-> Sbn(4, command) \o PdhCells(p) \o rest, use |-> use, pdh |-> p]
Noise(c) == [cells |-> c, use |-> "other", pdh |-> NoHeader]

First == Framed("handled", DataCommand, Header(4, 1, 5, 2), <<1, Start, Start>>)
LongPdh == Framed("handled", DataCommand, Header(6, 1, 7, 1), <<0, 0, 1, Start>>)
OnlyPdh == Framed("handled", DataCommand, Header(6, 1, 6, 0), <<0, 0>>)
Good == {
    First, LongPdh, OnlyPdh,
    Framed("handled", DataCommand, Header(4, 1, 4, 4), Sbn(4, DataCommand)), \* no PSH
    Framed("handled", DataCommand, Header(4, 1, 5, 0), <<1>>),               \* no data
    Framed("skipped", TimingCommand, Header(4, 1, 5, 1), <<1, 0>>),
    Framed("skipped", DataCommand, Header(4, 0, 4, 1), <<0>>),
    Framed("skipped", 2, Header(4, 1, 5, 1), <<1, 0>>)}

Bad == {
    Framed("other", DataCommand, Header(4, 1, 5, 1), <<2, 0>>),  \* not the PSH's length
    Framed("other", DataCommand, Header(4, 1, 3, 1), <<0>>),     \* less than the PDH's
    Framed("other", DataCommand, Header(4, BadVersion, 5, 1), <<1, 0>>),
    Framed("other", DataCommand, Header(3, 1, 4, 1), <<1, 0>>),  \* a short PDH
    Framed("other", DataCommand, Header(4, 1, 5, FifoSize + 1), <<1, 0, 0, 0, 0, 0, 0>>),
    [cells |-> Sbn(5, DataCommand) \o <<0, 4, 1, 5, 1, 1, 0>>, use |-> "other", pdh |-> NoHeader],
    Noise(<<Start>>), Noise(<<0>>), Noise(<<Start, Start, 4>>), Noise(<<Start, 4, DataCommand>>),
    Noise(Sbn(4, DataCommand)), Noise(Sbn(4, 1))}

Length(pieces) == Len(FlattenSeq([i \in DOMAIN pieces |-> pieces[i].cells]))

Received(pieces, cut) ==
    LET all == FlattenSeq([i \in DOMAIN pieces |-> pieces[i].cells])
        before(i) == Length(SubSeq(pieces, 1, i - 1))
        piece(i) == [at |-> before(i) + 1, to |-> before(i) + Len(pieces[i].cells),
                     pdh |-> pieces[i].pdh]
    IN  [cells |-> SubSeq(all, 1, Len(all) - cut),
         ends |-> {n \in {Length(SubSeq(pieces, 1, i)) : i \in 0..Len(pieces)} : n <= Len(all) - cut},
         frames |-> {piece(i) : i \in {j \in DOMAIN pieces : pieces[j].use = "handled"}},
         skipped |-> {piece(i) : i \in {j \in DOMAIN pieces : pieces[j].use = "skipped"}}]

\* Inputs of frames only are well-formed, and no others.
ASSUME \A p, q \in Good \union Bad, cut \in {0, 1, 6} :
    WellFormed(Received(<<p, q, First>>, cut)) <=> {p, q} \subseteq Good

\* Any two pieces, and a frame, perhaps cut off in its data or in its headers.
SomeInputs ==
    {Received(<<p, q, r>>, cut) :
        p \in Good \union Bad, q \in Good \union Bad, r \in {First, OnlyPdh}, cut \in {0, 1, 6}}
=============================================================================
