--------------------------- MODULE MCNoaaportLog ---------------------------
(***************************************************************************)
(* Small instances of NoaaportLog for TLC.                                 *)
(***************************************************************************)
EXTENDS NoaaportLog

CONSTANTS Reader, Stat, Main, \* threads
          a, b, l              \* messages

\* noaaportIngester, with two of its threads, and readnoaaport.
TwoPrograms == {{Reader, Stat}, {Main}}

\* Each of the two threads has a short message of its own, so that it shows who
\* said what.
Says == [t \in {Reader, Stat, Main} |->
            CASE t = Reader -> {a, l} [] t = Stat -> {b} [] t = Main -> {a, b, l}]
FewCalls == [t \in {Reader, Stat, Main} |-> IF t = Main THEN 4 ELSE 2]
=============================================================================
