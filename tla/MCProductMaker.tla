--------------------------- MODULE MCProductMaker ---------------------------
(***************************************************************************)
(* Small instances of ProductMaker for TLC.                                *)
(***************************************************************************)
EXTENDS ProductMaker

Item(id, kind, frags, sizes, trailer, fault) ==
    [id |-> id, kind |-> kind, frags |-> frags, sizes |-> sizes,
     trailer |-> trailer, fault |-> fault]

Text == Item(1, "text", 3, <<1, 1, 2>>, TRUE, "none")
Bulletin == Item(2, "text", 0, <<2>>, FALSE, "none")
Image == Item(3, "image", 3, <<1, 1, 1>>, FALSE, "none")
Zipped == Item(4, "zipped", 2, <<1, 2>>, FALSE, "none")
LargeText == Item(5, "text", 3, <<1, 9, 1>>, FALSE, "none")
BadHeader == Item(6, "image", 2, <<1, 1>>, FALSE, "psh")
BadImage == Item(7, "image", 2, <<1, 1>>, FALSE, "pdb")

Products == {Text, Bulletin, Image, Zipped, LargeText, BadHeader, BadImage}

\* A timing block, whose header would read as BadHeader's, comes after the first
\* frame of an image.
Frames(p, run) ==
    LET frame(b) == [type |-> IF b = 0 THEN "header" ELSE "block",
                     product |-> p, block |-> b, runno |-> run]
        timing == [frame(0) EXCEPT !.type = "skipped", !.product = BadHeader]
        blocks == [n \in DOMAIN p.sizes |-> frame(n - 1)]
    IN  IF p.kind = "image" THEN <<blocks[1], timing>> \o Tail(blocks) ELSE blocks

\* Three products, the last one with another run number.
ThreeProducts ==
    {Frames(p[1], 0) \o Frames(p[2], 0) \o Frames(p[3], 1) :
        p \in {q \in [1..3 -> Products] : /\ Cardinality({q[1], q[2], q[3]}) = 3
                                         /\ q[3] \in {Text, Zipped}}}
=============================================================================
