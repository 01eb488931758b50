----------------------------- MODULE SetupProofs -----------------------------
(***************************************************************************)
(* What is settled before a frame can start: the pulse codes an accepted   *)
(* timing compiles to (Pulses), and the RAM an accepted plan gives each    *)
(* channel (BlockPlan), for any timing, clock, group size and counts.      *)
(***************************************************************************)
EXTENDS BlockPlan, Pulses, TLAPS

------------------------------------------------------------------------------
\* PulseCodes::new

Timing == [t0h_ns : Nat, t0l_ns : Nat, t1h_ns : Nat, t1l_ns : Nat,
           latch_us : Nat, color_order : STRING]

\* A duration the 15-bit field holds.
Fits(ticks) == ticks \in Nat /\ ticks < 32768

\* A half with a legal duration survives the packing.
LEMMA HighRoundTrip ==
    ASSUME NEW ticks, Fits(ticks)
    PROVE  HalfPulse(HalfWord(TRUE, ticks)) = High(ticks)
<1>1. ticks \in Nat /\ ticks < 32768
  BY DEF Fits
<1>2. ticks % 32768 = ticks /\ (32768 + ticks) % 32768 = ticks
  BY <1>1
<1>4. 32768 + ticks >= 32768
  BY <1>1
<1>5. \A half \in Int : half >= 32768 => HalfPulse(half) = High(half % 32768)
  BY DEF HalfPulse
<1> DEFINE half == HalfWord(TRUE, ticks)
<1>6. half = 32768 + ticks
  BY <1>2 DEF HalfWord
<1> HIDE DEF half
<1>7. HalfPulse(half) = High(ticks)
  BY <1>1, <1>2, <1>4, <1>5, <1>6
<1> QED
  BY <1>7 DEF half

LEMMA LowRoundTrip ==
    ASSUME NEW ticks, Fits(ticks)
    PROVE  /\ HalfPulse(HalfWord(FALSE, ticks)) = Low(ticks)
           /\ ticks # 0 => HalfWord(FALSE, ticks) # 0
<1>1. ticks \in Nat /\ ticks < 32768
  BY DEF Fits
<1>2. ticks % 32768 = ticks
  BY <1>1
<1>3. HalfWord(FALSE, ticks) = ticks
  BY <1>1, <1>2 DEF HalfWord
<1>4. ~(ticks >= 32768)
  BY <1>1
<1>5. \A half \in Int : ~(half >= 32768) => HalfPulse(half) = Low(half % 32768)
  BY DEF HalfPulse
<1>6. HalfPulse(ticks) = Low(ticks % 32768)
  BY <1>1, <1>4, <1>5
<1>7. HalfPulse(ticks) = Low(ticks)
  BY <1>2, <1>6
<1> QED
  BY <1>3, <1>7

\* A word whose second half is low and lasts is not the stop word.
LEMMA WordRoundTrip ==
    ASSUME NEW level, NEW first, NEW second,
           Fits(second), second # 0
    PROVE  decode_word(pulse_code(level, first, FALSE, second))
             = <<HalfPulse(HalfWord(level, first)), Low(second)>>
<1> DEFINE word == pulse_code(level, first, FALSE, second)
<1>1. word[1] = HalfWord(level, first) /\ word[2] = HalfWord(FALSE, second)
  BY DEF pulse_code
<1>2. HalfPulse(HalfWord(FALSE, second)) = Low(second) /\ HalfWord(FALSE, second) # 0
  BY LowRoundTrip
<1>3. word # STOP_WORD
  <2>1. STOP_WORD[2] = 0
    BY DEF STOP_WORD
  <2> HIDE DEF word
  <2> QED
    BY <1>1, <1>2, <2>1
<1> HIDE DEF word
<1> QED
  BY <1>1, <1>2, <1>3 DEF decode_word, word

\* A duration TicksError lets through fits a half, and is not zero.
LEMMA TicksFit ==
    ASSUME NEW ns \in Nat, NEW mhz \in Nat,
           TicksError(ns_to_ticks(ns, mhz)) = "none"
    PROVE  Fits(ns_to_ticks(ns, mhz)) /\ ns_to_ticks(ns, mhz) # 0
<1> DEFINE ticks == ns_to_ticks(ns, mhz)
<1>1. ticks \in Nat
  <2>1. \A x \in Nat : x \div 1000 \in Nat
    OBVIOUS
  <2> QED
    BY <2>1 DEF ns_to_ticks
<1> HIDE DEF ticks
<1>2. ticks # 0 /\ ~(ticks > 32767)
  BY DEF TicksError, ticks, MAX_DURATION_TICKS
<1>3. ticks < 32768
  BY <1>1, <1>2
<1> QED
  BY <1>1, <1>2, <1>3 DEF ticks, Fits

\* An accepted timing compiles to three words none of which is the stop word:
\* a zero, a one and a latch that play exactly the durations of the timing, and
\* a latch as long as the timing asks for.
THEOREM CodesPlayTheTiming ==
    ASSUME NEW timing \in Timing, NEW mhz \in Nat,
           TimingError(timing, mhz) = "none"
    PROVE  LET codes == PulseCodes(timing, mhz)
               latch == decode_word(codes.latch)
           IN  /\ decode_word(codes.zero)
                    = <<High(ns_to_ticks(timing.t0h_ns, mhz)),
                        Low(ns_to_ticks(timing.t0l_ns, mhz))>>
               /\ decode_word(codes.one)
                    = <<High(ns_to_ticks(timing.t1h_ns, mhz)),
                        Low(ns_to_ticks(timing.t1l_ns, mhz))>>
               /\ Len(latch) = 2
               /\ ~latch[1].level /\ ~latch[2].level
               /\ latch[1].ticks + latch[2].ticks = timing.latch_us * mhz
<1> DEFINE t == PhaseTicks(timing, mhz)
           a == LatchFirst(timing, mhz)
           b == LatchSecond(timing, mhz)
           total == timing.latch_us * mhz
           bad == {i \in 1 .. 4 : TicksError(t[i]) # "none"}
<1>1. timing.t0h_ns \in Nat /\ timing.t0l_ns \in Nat /\ timing.t1h_ns \in Nat
      /\ timing.t1l_ns \in Nat /\ timing.latch_us \in Nat
  BY DEF Timing
<1>2. t[1] = ns_to_ticks(timing.t0h_ns, mhz) /\ t[2] = ns_to_ticks(timing.t0l_ns, mhz)
      /\ t[3] = ns_to_ticks(timing.t1h_ns, mhz) /\ t[4] = ns_to_ticks(timing.t1l_ns, mhz)
  BY DEF PhaseTicks
<1>3. bad = {} /\ ~(b > 32767) /\ b # 0
  <2>1. mhz # 0
    BY DEF TimingError
  <2>2. SUFFICES ASSUME bad # {} PROVE FALSE
    BY <2>1 DEF TimingError, MAX_DURATION_TICKS
  <2>3. PICK i \in bad : TRUE
    BY <2>2
  <2>4. TimingError(timing, mhz)
          = TicksError(t[CHOOSE j \in bad : \A k \in bad : j <= k])
    BY <2>1, <2>2 DEF TimingError
  <2>5. \E j \in bad : \A k \in bad : j <= k
    <3>1. CASE 1 \in bad
      BY <3>1
    <3>2. CASE 1 \notin bad /\ 2 \in bad
      BY <3>2
    <3>3. CASE 1 \notin bad /\ 2 \notin bad /\ 3 \in bad
      BY <3>3
    <3>4. CASE 1 \notin bad /\ 2 \notin bad /\ 3 \notin bad
      BY <3>4, <2>2
    <3> QED
      BY <3>1, <3>2, <3>3, <3>4
  <2>6. (CHOOSE j \in bad : \A k \in bad : j <= k) \in bad
    BY <2>5
  <2> QED
    BY <2>4, <2>6
<1>4. \A i \in 1 .. 4 : TicksError(t[i]) = "none"
  BY <1>3
<1>5. /\ Fits(t[1]) /\ Fits(t[2]) /\ Fits(t[3]) /\ Fits(t[4])
      /\ t[2] # 0 /\ t[4] # 0
  <2>1. TicksError(t[1]) = "none" /\ TicksError(t[2]) = "none"
        /\ TicksError(t[3]) = "none" /\ TicksError(t[4]) = "none"
    BY <1>4
  <2> HIDE DEF t
  <2> QED
    BY <1>1, <1>2, <2>1, TicksFit
<1>6. total \in Nat
  BY <1>1
<1>7. a = total \div 2 /\ b = total - a
  BY DEF LatchFirst, LatchSecond, latch_ticks
<1>8. Fits(a) /\ Fits(b) /\ b # 0 /\ a + b = total
  <2>1. ~(b > 32767) /\ b # 0
    BY <1>3
  <2> HIDE DEF a, b, total, bad, t
  <2>2. total \div 2 \in Nat /\ total - (total \div 2) \in Nat /\ total \div 2 <= total - (total \div 2)
    BY <1>6
  <2>3. a \in Nat /\ b \in Nat /\ a + b = total /\ a <= b
    BY <1>6, <1>7, <2>2
  <2>4. b < 32768
    BY <2>1, <2>3
  <2>5. a < 32768
    BY <2>3, <2>4
  <2> QED
    BY <2>1, <2>3, <2>4, <2>5 DEF Fits
<1> DEFINE codes == PulseCodes(timing, mhz)
<1>9. codes.zero = pulse_code(TRUE, t[1], FALSE, t[2])
      /\ codes.one = pulse_code(TRUE, t[3], FALSE, t[4])
      /\ codes.latch = pulse_code(FALSE, a, FALSE, b)
  BY DEF PulseCodes
<1> HIDE DEF t, a, b, codes, total
<1>10. decode_word(codes.zero) = <<High(t[1]), Low(t[2])>>
  <2>1. decode_word(pulse_code(TRUE, t[1], FALSE, t[2]))
          = <<HalfPulse(HalfWord(TRUE, t[1])), Low(t[2])>>
    BY <1>5, WordRoundTrip
  <2>2. HalfPulse(HalfWord(TRUE, t[1])) = High(t[1])
    BY <1>5, HighRoundTrip
  <2> QED
    BY <1>9, <2>1, <2>2, Zenon
<1>11. decode_word(codes.one) = <<High(t[3]), Low(t[4])>>
  <2>1. decode_word(pulse_code(TRUE, t[3], FALSE, t[4]))
          = <<HalfPulse(HalfWord(TRUE, t[3])), Low(t[4])>>
    BY <1>5, WordRoundTrip
  <2>2. HalfPulse(HalfWord(TRUE, t[3])) = High(t[3])
    BY <1>5, HighRoundTrip
  <2> QED
    BY <1>9, <2>1, <2>2, Zenon
<1>12. decode_word(codes.latch) = <<Low(a), Low(b)>>
  <2>1. decode_word(pulse_code(FALSE, a, FALSE, b))
          = <<HalfPulse(HalfWord(FALSE, a)), Low(b)>>
    BY <1>8, WordRoundTrip
  <2>2. HalfPulse(HalfWord(FALSE, a)) = Low(a)
    BY <1>8, LowRoundTrip
  <2> QED
    BY <1>9, <2>1, <2>2, Zenon
<1>13. a + b = timing.latch_us * mhz
  BY <1>8 DEF total
<1> QED
  BY <1>2, <1>10, <1>11, <1>12, <1>13 DEF codes, Low, Pulse

------------------------------------------------------------------------------
\* BlockPlan::new

USE GroupAssumption
USE DEF Channels, Asks

\* The channels before ch whose claim was accepted.
Seen == {c \in Channels : c < ch /\ blocks[c] # 0}

\* In new: claimed is the union of the accepted windows, and these are in order
\* and inside the group.
LoopInv ==
    /\ \A b \in Channels : b \in claimed <=> \E c \in Seen : b \in Extent(c)
    /\ \A c \in Seen : c + blocks[c] <= N /\ \A d \in Seen : c < d => c + blocks[c] <= d

\* What each result says of the channel the loop stopped at.
ResultInv ==
    /\ verdict \in {"ok", "empty"} => ch = N
    /\ verdict = "overlap" => ch < N /\ blocks[ch] # 0 /\ ch \in claimed
    /\ verdict = "out_of_blocks" => ch < N /\ blocks[ch] # 0 /\ TooMany(ch)

EmptyInv == (verdict = "empty" => ~any) /\ (~any => Seen = {} \/ verdict = "filling")

PlanInv ==
    /\ TypeOK /\ ResultInv /\ EmptyInv
    /\ IF verdict = "filling" THEN claimed = {} /\ ~any ELSE LoopInv

\* The loop starts with nothing claimed.
LEMMA PlanInit == Init => PlanInv
<1> SUFFICES ASSUME Init PROVE PlanInv
  OBVIOUS
<1>1. TypeOK
  <2>1. blocks \in [Channels -> Asks] /\ step \in Asks /\ ch \in 0 .. N
    BY DEF Init
  <2>2. any \in BOOLEAN
    BY DEF Init
  <2> QED
    BY <2>1, <2>2 DEF Init, TypeOK
<1>2. ResultInv
  BY DEF Init, ResultInv
<1>3. Seen = {}
  BY DEF Init, Seen
<1> QED
  BY <1>1, <1>2, <1>3 DEF Init, PlanInv, EmptyInv, LoopInv

\* Every step of uniform and of new keeps the invariant.
LEMMA PlanStep == PlanInv /\ [Next]_vars => PlanInv'
<1> SUFFICES ASSUME PlanInv, [Next]_vars PROVE PlanInv'
  OBVIOUS
<1>0. TypeOK
  BY DEF PlanInv
<1>10. blocks \in [Channels -> Asks] /\ step \in Asks /\ ch \in 0 .. N /\ claimed \subseteq Channels
  BY <1>0 DEF TypeOK
<1>1. CASE Fill
  <2>1. verdict = "filling" /\ UNCHANGED <<step, claimed, any, verdict>>
    BY <1>1 DEF Fill
  <2>2. ch + step <= N /\ ch' = ch + step /\ blocks' = [blocks EXCEPT ![ch] = step]
    BY <1>1 DEF Fill
  <2>3. blocks' \in [Channels -> Asks]
    BY <1>10, <2>2
  <2>4. ch' \in 0 .. N
    BY <1>10, <2>2
  <2>5. TypeOK'
    BY <1>0, <2>1, <2>3, <2>4 DEF TypeOK
  <2> QED
    BY <2>1, <2>5 DEF PlanInv, ResultInv, EmptyInv
<1>2. CASE Filled
  <2>1. Seen' = {}
    BY <1>0, <1>2 DEF Filled, Seen, TypeOK
  <2>2. TypeOK' /\ ResultInv'
    BY <1>0, <1>2 DEF TypeOK, ResultInv, Filled
  <2> QED
    BY <1>2, <2>1, <2>2 DEF PlanInv, EmptyInv, LoopInv, Filled
<1>3. CASE Skip
  <2>1. Seen' = Seen /\ \A c \in Channels : Extent(c)' = Extent(c)
    BY <1>0, <1>3 DEF Skip, AtChannel, Seen, TypeOK, Extent
  <2>2. TypeOK' /\ ResultInv'
    BY <1>0, <1>3 DEF TypeOK, ResultInv, Skip, AtChannel
  <2>3. LoopInv'
    BY <1>3, <2>1 DEF PlanInv, LoopInv, Skip, AtChannel, Seen
  <2> QED
    BY <1>3, <2>1, <2>2, <2>3 DEF PlanInv, EmptyInv, Skip, AtChannel
<1>4. CASE Overlap \/ OutOfBlocks
  <2>1. UNCHANGED <<blocks, step, ch, claimed, any>> /\ verdict = "checking"
    BY <1>4 DEF Overlap, OutOfBlocks, AtChannel
  <2>2. Seen' = Seen /\ LoopInv' = LoopInv
    BY <2>1 DEF Seen, LoopInv, Extent
  <2>3. TypeOK'
    BY <1>0, <1>4 DEF TypeOK, Overlap, OutOfBlocks
  <2>4. ResultInv'
    BY <1>4 DEF ResultInv, Overlap, OutOfBlocks, AtChannel, TooMany
  <2>5. verdict' \notin {"filling", "empty"}
    BY <1>4 DEF Overlap, OutOfBlocks
  <2> QED
    BY <2>1, <2>2, <2>3, <2>4, <2>5 DEF PlanInv, EmptyInv
<1>5. CASE Claim
  <2>1. /\ verdict = "checking" /\ ch \in Channels /\ blocks[ch] \in Nat \ {0}
        /\ ch + blocks[ch] <= N /\ ch \notin claimed
        /\ claimed' = claimed \cup Extent(ch) /\ ch' = ch + 1
        /\ UNCHANGED <<blocks, step, verdict>>
    BY <1>0, <1>5 DEF Claim, AtChannel, TooMany, TypeOK
  <2>2. Seen' = Seen \cup {ch}
    BY <1>0, <2>1 DEF Seen, TypeOK
  <2>3. TypeOK'
    <3>1. ch' \in 0 .. N
      BY <2>1
    <3>2. claimed' \subseteq Channels
      <4>1. Extent(ch) \subseteq Channels
        BY <2>1 DEF Extent
      <4> QED
        BY <1>10, <2>1, <4>1
    <3>3. any' \in BOOLEAN
      BY <1>5 DEF Claim
    <3> QED
      BY <1>0, <2>1, <3>1, <3>2, <3>3 DEF TypeOK
  <2>4. ResultInv'
    BY <2>1 DEF ResultInv
  <2>5. \A c \in Channels : Extent(c)' = Extent(c)
    BY <2>1 DEF Extent
  <2>6. \A b \in Channels : b \in claimed' <=> \E c \in Seen' : b \in Extent(c)'
    BY <2>1, <2>2, <2>5 DEF PlanInv, LoopInv, Seen
  <2>7. \A c \in Seen : c + blocks[c] <= ch
    <3> SUFFICES ASSUME NEW c \in Seen PROVE c + blocks[c] <= ch
      OBVIOUS
    <3>1. ch \notin Extent(c)
      BY <2>1 DEF PlanInv, LoopInv
    <3> QED
      BY <1>0, <2>1, <3>1 DEF Extent, Seen, TypeOK
  <2>8. \A c \in Seen' : c + blocks'[c] <= N /\ \A d \in Seen' : c < d => c + blocks'[c] <= d
    BY <2>1, <2>2, <2>7 DEF PlanInv, LoopInv, Seen
  <2>9. LoopInv'
    BY <2>6, <2>8 DEF LoopInv
  <2>10. EmptyInv'
    BY <1>5, <2>1 DEF Claim, EmptyInv
  <2> QED
    BY <2>1, <2>3, <2>4, <2>9, <2>10 DEF PlanInv
<1>6. CASE Conclude
  <2>1. UNCHANGED <<blocks, step, ch, claimed, any>> /\ verdict = "checking" /\ ch = N
    BY <1>6 DEF Conclude
  <2>2. Seen' = Seen /\ LoopInv' = LoopInv
    BY <2>1 DEF Seen, LoopInv, Extent
  <2>3. verdict' = IF any THEN "ok" ELSE "empty"
    BY <1>6 DEF Conclude
  <2>4. TypeOK' /\ ResultInv'
    BY <1>0, <2>1, <2>3 DEF TypeOK, ResultInv
  <2>5. EmptyInv'
    BY <2>1, <2>2, <2>3 DEF PlanInv, EmptyInv
  <2> QED
    BY <2>1, <2>2, <2>3, <2>4, <2>5 DEF PlanInv
<1>7. CASE UNCHANGED vars
  BY <1>7 DEF vars, PlanInv, TypeOK, ResultInv, EmptyInv, LoopInv, Seen, Extent, TooMany
<1> QED
  BY <1>1, <1>2, <1>3, <1>4, <1>5, <1>6, <1>7 DEF Next

\* The inductive invariant of both loops.
LEMMA PlanInvariant == Spec => []PlanInv
  BY PlanInit, PlanStep, PTL DEF Spec

\* Multiplying by the block size keeps the order of block numbers.
LEMMA Scaled == \A x, y \in Nat : x <= y => x * BlockWords <= y * BlockWords
  OBVIOUS

\* For a group of any size, an accepted plan (BlockPlan::new returning Ok) gives
\* every available channel RAM words no other channel has, inside the group's RAM.
THEOREM PlanSafe == Spec => []WindowsDisjoint
<1>1. PlanInv => WindowsDisjoint
  <2> SUFFICES ASSUME PlanInv, verdict = "ok", NEW c \in Channels, blocks[c] # 0
               PROVE  /\ window_start(c) + window_words(c) <= N * BlockWords
                      /\ \A d \in c + 1 .. N - 1 : blocks[d] # 0 =>
                           window_start(c) + window_words(c) <= window_start(d)
    BY DEF WindowsDisjoint, is_available
  <2>1. /\ c \in Seen /\ c + blocks[c] \in Nat /\ c + blocks[c] <= N
        /\ \A d \in Channels : blocks[d] # 0 /\ c < d => c + blocks[c] <= d
    BY DEF PlanInv, LoopInv, ResultInv, Seen, TypeOK
  <2>2. window_start(c) + window_words(c) = (c + blocks[c]) * BlockWords
    BY DEF PlanInv, TypeOK, window_start, window_words
  <2>3. \A d \in c + 1 .. N - 1 : d \in Channels /\ c < d
    BY DEF Channels
  <2> QED
    BY <2>1, <2>2, <2>3, Scaled DEF window_start
<1> QED
  BY <1>1, PlanInvariant, PTL

\* A refused plan is refused for a reason its error names truly: no legal plan is
\* turned away.
THEOREM RefusalJust == Spec => []ErrorNamesCulprit
<1>1. PlanInv => ErrorNamesCulprit
  <2> SUFFICES ASSUME PlanInv PROVE ErrorNamesCulprit
    OBVIOUS
  <2>1. CASE verdict = "overlap"
    <3>1. ch \in Channels /\ blocks[ch] # 0 /\ \E c \in Seen : ch \in Extent(c)
      BY <2>1 DEF PlanInv, ResultInv, LoopInv, TypeOK
    <3> QED
      BY <2>1, <3>1 DEF ErrorNamesCulprit, is_available, Seen
  <2>2. CASE verdict = "out_of_blocks"
    <3>1. ch \in Channels /\ blocks[ch] \in Nat \ {0} /\ blocks[ch] > N - ch
      BY <2>2 DEF PlanInv, ResultInv, TypeOK, TooMany
    <3>2. ch + blocks[ch] - 1 \in Extent(ch) /\ ch + blocks[ch] - 1 \notin Channels
      BY <3>1 DEF Extent
    <3> QED
      BY <2>2, <3>1, <3>2 DEF ErrorNamesCulprit, is_available
  <2>3. CASE verdict = "empty"
    <3>1. Seen = {} /\ ch = N
      BY <2>3 DEF PlanInv, EmptyInv, ResultInv
    <3> QED
      BY <2>3, <3>1 DEF ErrorNamesCulprit, is_available, Seen
  <2> QED
    BY <2>1, <2>2, <2>3 DEF ErrorNamesCulprit
<1> QED
  BY <1>1, PlanInvariant, PTL

==============================================================================
