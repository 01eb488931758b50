------------------------------ MODULE CallStack ------------------------------
(***************************************************************************)
(* What the windowed-register ABI promises a program: a call hides the     *)
(* caller's low registers and hands over the rest, a return brings the     *)
(* caller's low registers back and leaves the callee's in the rest (its    *)
(* result among them); the words a frame keeps on the stack are its own.   *)
(* No ring, no overflow, no save area.  Registers come in units of four,   *)
(* the step of WindowBase: unit 0 is a0..a3.                               *)
(***************************************************************************)
EXTENDS Naturals, Sequences

VARIABLES regs,     \* the four units the running function sees
          locals,   \* the words of its stack frame
          kept      \* one entry per suspended caller, innermost last

Units == 0 .. 3

(* ENTRY after CALL4, CALL8 or CALL12 (m = 1, 2, 3).                        *)
Enter(m) ==
    /\ kept' = Append(kept, [regs |-> [u \in 0 .. m - 1 |-> regs[u]], locals |-> locals])
    /\ \A u \in 0 .. 3 - m : regs'[u] = regs[u + m]

Leave ==
    /\ kept # <<>>
    /\ LET caller == kept[Len(kept)]
       IN  /\ \E m \in 1 .. 3 :
                 /\ DOMAIN caller.regs = 0 .. m - 1
                 /\ \A u \in Units : regs'[u] = IF u < m THEN caller.regs[u] ELSE regs[u - m]
           /\ locals' = caller.locals
    /\ kept' = SubSeq(kept, 1, Len(kept) - 1)

(* The running function computes: its own registers and words change.      *)
Work == UNCHANGED kept /\ <<regs, locals>>' # <<regs, locals>>

Next == Leave \/ Work \/ \E m \in 1 .. 3 : Enter(m)

Spec == kept = <<>> /\ [][Next]_<<regs, locals, kept>>
=============================================================================
