------------------------------- MODULE MCMtCopy -------------------------------
(* A queue of two blocks and files of up to four: the queue fills up and its *)
(* indices wrap around.                                                      *)
EXTENDS MtCopy

CONSTANTS d1, d2

SmallFiles == {<<>>, <<d1>>, <<d1, d2>>, <<d2, d1, d1, d2>>}
=============================================================================
