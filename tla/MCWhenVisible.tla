--------------------------- MODULE MCWhenVisible ---------------------------
(* Two elements, each with its own whenVisible observer.  MCBatched lets  *)
(* two entries pile up before the notify task runs (the initial entry and *)
(* the one of a first scroll into view); MCUnbatched is the case where    *)
(* the task always runs before the next rendering update.                 *)
EXTENDS WhenVisible

CONSTANTS e1, e2

MCElements == {e1, e2}
MCBatched == 2
MCUnbatched == 1
=============================================================================
