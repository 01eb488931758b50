------------------------------ MODULE MCRunner ------------------------------
(* The seqs of a small instance of RunnerLink.                             *)
EXTENDS RunnerLink

MCSeqs == [sess : 1 .. MaxSessions, n : 1 .. MaxExecs]
MCNoSeq == [sess |-> 0, n |-> 0]

=============================================================================
