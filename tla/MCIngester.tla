----------------------------- MODULE MCIngester -----------------------------
(***************************************************************************)
(* Small instances of Ingester for TLC.                                    *)
(***************************************************************************)
EXTENDS Ingester

\* A start byte, then two bytes.
ShortFrame == <<1, 2>>
=============================================================================
