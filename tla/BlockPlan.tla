------------------------------ MODULE BlockPlan ------------------------------
(***************************************************************************)
(* BlockPlan::new (src/lp-ws281x/src/blocks.rs), the check that no two     *)
(* channels of the RMT group are given the same memory block, as the loop  *)
(* it is; and BlockPlan::uniform, which builds a plan and hands it to new. *)
(* A channel with w blocks owns block ch and the w - 1 that follow it.     *)
(***************************************************************************)
EXTENDS Integers

CONSTANTS N,          \* channels of the group, and its memory blocks
          MaxBlocks,  \* the largest count a caller gives one channel
          BlockWords  \* RAM words of a block

ASSUME GroupAssumption == N \in Nat /\ MaxBlocks \in Nat /\ BlockWords \in Nat \ {0}

Channels == 0 .. N - 1
Asks == 0 .. MaxBlocks

VARIABLES blocks,     \* the per-channel counts
          step,       \* uniform's blocks_each; 0 if the caller gave the counts
          ch, claimed, any,
          verdict     \* "filling" in uniform, "checking" in new, or the result

vars == <<blocks, step, ch, claimed, any, verdict>>

\* new is called with any counts; uniform with any blocks_each but 0, which it
\* rejects before anything else.
Init ==
    /\ ch = 0 /\ claimed = {} /\ any = FALSE
    /\ \/ blocks \in [Channels -> Asks] /\ step = 0 /\ verdict = "checking"
       \/ blocks = [c \in Channels |-> 0] /\ step \in Asks \ {0} /\ verdict = "filling"

-----------------------------------------------------------------------------
(***************************************************************************)
(* uniform: every step-th channel gets step blocks while they fit.         *)
(***************************************************************************)

Fill ==
    /\ verdict = "filling" /\ ch + step <= N
    /\ blocks' = [blocks EXCEPT ![ch] = step]
    /\ ch' = ch + step
    /\ UNCHANGED <<step, claimed, any, verdict>>

Filled ==
    /\ verdict = "filling" /\ ~(ch + step <= N)
    /\ verdict' = "checking" /\ ch' = 0
    /\ UNCHANGED <<blocks, step, claimed, any>>

-----------------------------------------------------------------------------
(***************************************************************************)
(* new.                                                                    *)
(***************************************************************************)

AtChannel == verdict = "checking" /\ ch < N
Extent(c) == c .. c + blocks[c] - 1

\* Mutant: the group's end is one block too near.
TooMany_Early(c) == blocks[c] >= N - c
TooMany(c) == blocks[c] > N - c

Skip ==
    /\ AtChannel /\ blocks[ch] = 0
    /\ ch' = ch + 1
    /\ UNCHANGED <<blocks, step, claimed, any, verdict>>

Overlap ==
    /\ AtChannel /\ blocks[ch] # 0 /\ ch \in claimed
    /\ verdict' = "overlap"
    /\ UNCHANGED <<blocks, step, ch, claimed, any>>

OutOfBlocks ==
    /\ AtChannel /\ blocks[ch] # 0 /\ ch \notin claimed /\ TooMany(ch)
    /\ verdict' = "out_of_blocks"
    /\ UNCHANGED <<blocks, step, ch, claimed, any>>

\* Mutant: only the channel's own block is marked.
Claim_FirstOnly ==
    /\ AtChannel /\ blocks[ch] # 0 /\ ch \notin claimed /\ ~TooMany(ch)
    /\ claimed' = claimed \cup {ch}
    /\ any' = TRUE /\ ch' = ch + 1
    /\ UNCHANGED <<blocks, step, verdict>>

Claim ==
    /\ AtChannel /\ blocks[ch] # 0 /\ ch \notin claimed /\ ~TooMany(ch)
    /\ claimed' = claimed \cup Extent(ch)
    /\ any' = TRUE /\ ch' = ch + 1
    /\ UNCHANGED <<blocks, step, verdict>>

Conclude ==
    /\ verdict = "checking" /\ ch = N
    /\ verdict' = IF any THEN "ok" ELSE "empty"
    /\ UNCHANGED <<blocks, step, ch, claimed, any>>

Next == Fill \/ Filled \/ Skip \/ Overlap \/ OutOfBlocks \/ Claim \/ Conclude

Spec == Init /\ [][Next]_vars

-----------------------------------------------------------------------------
\* The loop never looks at, or claims, a block outside the group.
TypeOK ==
    /\ blocks \in [Channels -> Asks] /\ step \in Asks
    /\ ch \in 0 .. N /\ claimed \subseteq Channels /\ any \in BOOLEAN
    /\ verdict \in {"filling", "checking", "ok", "overlap", "out_of_blocks", "empty"}

is_available(c) == blocks[c] # 0
window_start(c) == c * BlockWords
window_words(c) == blocks[c] * BlockWords

\* An accepted plan gives every available channel a RAM window of its own inside
\* the group's RAM: the backends' pointer arithmetic rests on it.
WindowsDisjoint ==
    verdict = "ok" => \A c \in Channels : is_available(c) =>
        /\ window_start(c) + window_words(c) <= N * BlockWords
        /\ \A d \in c + 1 .. N - 1 : is_available(d) =>
             window_start(c) + window_words(c) <= window_start(d)

\* An error names a channel that really is in the way (the BlockPlanError docs):
\* one a lower channel extends into, or the first whose window passes the group's
\* end; and a plan that is refused for its windows could not have been accepted.
ErrorNamesCulprit ==
    /\ verdict = "overlap" =>
         is_available(ch) /\ \E c \in Channels : c < ch /\ is_available(c) /\ ch \in Extent(c)
    /\ verdict = "out_of_blocks" =>
         is_available(ch) /\ ~(Extent(ch) \subseteq Channels)
    /\ verdict = "empty" => \A c \in Channels : ~is_available(c)

=============================================================================
