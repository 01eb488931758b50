----------------------------- MODULE MCRmtGroup -----------------------------
(* The lists of a small instance of RmtGroup: two channels; one of them      *)
(* twice; one that is not configured; one that does not exist.               *)
EXTENDS RmtGroup

MCLists == {<<0, 2>>, <<2, 0, 2>>, <<1>>, <<3, 0>>}

=============================================================================
