------------------------------ MODULE WireFrame ------------------------------
(***************************************************************************)
(* What one channel of the driver promises its caller, with no RAM window, *)
(* no interrupt and no transmitter in sight: a frame that is begun goes    *)
(* out on the wire bit by bit, in order, closed by one latch, and is       *)
(* reported complete only then, unless the caller itself gives it up.      *)
(***************************************************************************)
EXTENDS Integers, Sequences

CONSTANTS FrameBits,   \* the frames' lengths, in bits
          Latch        \* the word that ends a frame on the wire, not a bit's index

VARIABLES status,      \* "idle", "sending", or "leaving" once given up
          total,       \* bits of the frame in flight, or of the last one
          wire         \* its words on the wire so far

wireVars == <<status, total, wire>>

\* The words of a frame of n bits.
Stream(n) == [i \in 1 .. n + 1 |-> IF i <= n THEN i - 1 ELSE Latch]

Init == status = "idle" /\ total = 0 /\ wire = << >>

Begin(n) ==
    /\ status = "idle" /\ status' = "sending"
    /\ total' = n /\ wire' = << >>

Send ==
    /\ status \in {"sending", "leaving"} /\ Len(wire) <= total
    /\ wire' = Append(wire, Stream(total)[Len(wire) + 1])
    /\ UNCHANGED <<status, total>>

Complete ==
    /\ status = "sending" /\ Len(wire) = total + 1
    /\ status' = "idle"
    /\ UNCHANGED <<total, wire>>

GiveUp ==
    /\ status = "sending" /\ status' = "leaving"
    /\ UNCHANGED <<total, wire>>

Leave ==
    /\ status = "leaving" /\ status' = "idle"
    /\ UNCHANGED <<total, wire>>

Next == (\E n \in FrameBits : Begin(n)) \/ Send \/ Complete \/ GiveUp \/ Leave

\* A frame in flight moves on, and a caller that gives up gets away.
Spec == Init /\ [][Next]_wireVars /\ WF_wireVars(Send \/ Complete) /\ WF_wireVars(Leave)

=============================================================================
