------------------------- MODULE MCAsyncReadHandler -------------------------
(* Instances of AsyncReadHandler for TLC. *)
EXTENDS AsyncReadHandler

CONSTANTS t1, t2, t3

MCTasks == {t1, t2, t3}
MCTwoTasks == {t1, t2}
MCBadRecords == {1}
=============================================================================
