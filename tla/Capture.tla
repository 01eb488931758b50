------------------------------ MODULE Capture ------------------------------
(***************************************************************************)
(* How the lab firmware turns what its instruments saw of a wire into      *)
(* bits and judges them (src/fw/led-lab-esp32/src/loopback.rs, diag.rs).   *)
(* An RMT receiver hands over items, pairs of pulses; the CPU witness      *)
(* hands over the times of the edges it sampled.  Both become sequences of *)
(* [high, low] bits.  A byte has ByteBits bits: eight in the code.         *)
(***************************************************************************)
EXTENDS Pulses, SequencesExt, FiniteSets

CONSTANTS ByteBits,  \* bits of a byte
          RX_CODES   \* items of a capture buffer: one RX memory block

ASSUME CaptureAssumption == ByteBits \in Nat \ {0} /\ RX_CODES \in Nat \ {0}

TOL_TICKS == 2
IDLE_THRESHOLD_TICKS == 30000
WITNESS_PERIOD_TICKS == 72 .. 128
MAX_EDGES == 2 * RX_CODES

LOCAL Lowest(S) == CHOOSE x \in S : \A y \in S : x <= y
LOCAL Distance(a, b) == IF a >= b THEN a - b ELSE b - a

-----------------------------------------------------------------------------
\* Decoded from the words the driver transmits, so that the oracle and the
\* transmitter cannot disagree about what was configured.
Nominal(timing) ==
    LET codes == at_default_clock(timing)
        zero == decode_word(codes.zero)
        one == decode_word(codes.one)
        latch == decode_word(codes.latch)
    IN  [t0h |-> zero[1].ticks, t0l |-> zero[2].ticks,
         t1h |-> one[1].ticks, t1l |-> one[2].ticks,
         mid |-> (zero[1].ticks + one[1].ticks) \div 2,
         latch |-> latch[1].ticks + latch[2].ticks]

IsOne(bit, nom) == bit.high >= nom.mid

\* The bytes a strip receives for a frame, and the bits of a byte string, the
\* highest of each byte first.
wire_bytes(frame, order) ==
    [i \in 1 .. 3 * (Len(frame) \div 3) |->
        frame[3 * ((i - 1) \div 3) + source_index(order, ((i - 1) % 3) + 1)]]

wire_bit(bytes, i) ==
    (bytes[(i \div ByteBits) + 1] \div 2 ^ (ByteBits - 1 - (i % ByteBits))) % 2 = 1

wire_bits(bytes) == [i \in 1 .. Len(bytes) * ByteBits |-> wire_bit(bytes, i - 1)]

\* The frames of the soaks: another stream per channel and per frame.
fill_frame(f, c, len) ==
    [j \in 1 .. len |-> ((f * 31 + (j - 1) * 7 + c * 97 + 3) % 251) % 2 ^ ByteBits]

-----------------------------------------------------------------------------
\* The pulses of the captured items, up to the first of no duration.
Halves(items) ==
    LET flat == [i \in 1 .. 2 * Len(items) |-> items[(i + 1) \div 2][2 - (i % 2)]]
        ends == {i \in DOMAIN flat : flat[i].ticks = 0}
    IN  IF ends = {} THEN flat ELSE SubSeq(flat, 1, Lowest(ends) - 1)

\* A high after a low opens a bit, and what follows adds to it; lows before the
\* first high are no part of the waveform.
AddHalf(bits, half) ==
    LET n == Len(bits)
    IN  IF half.level
        THEN IF n > 0 /\ bits[n].low = 0
             THEN [bits EXCEPT ![n].high = @ + half.ticks]
             ELSE Append(bits, [high |-> half.ticks, low |-> 0])
        ELSE IF n = 0 THEN bits ELSE [bits EXCEPT ![n].low = @ + half.ticks]

parse(items) == FoldLeft(AddHalf, <<>>, Halves(items))
too_many_bits(bits, max) == Len(bits) > max

ended_high(bits) == bits # <<>> /\ bits[Len(bits)].low = 0
trailing_low(bits) == IF bits = <<>> THEN 0 ELSE bits[Len(bits)].low

-----------------------------------------------------------------------------
\* loopback.rs: the bytes of a capture, and the first bit out of tolerance.
byte_aligned(bits) == Len(bits) % ByteBits = 0

decode(bits, nom) ==
    [i \in 1 .. Len(bits) \div ByteBits |->
        FoldLeft(LAMBDA byte, bit : 2 * byte + (IF IsOne(bit, nom) THEN 1 ELSE 0), 0,
                 SubSeq(bits, (i - 1) * ByteBits + 1, i * ByteBits))]

\* The period of the last bit runs into the latch: only its high is judged.
OutOfTolerance(bits, nom, i) ==
    LET high == IF IsOne(bits[i], nom) THEN nom.t1h ELSE nom.t0h
        period == IF IsOne(bits[i], nom) THEN nom.t1h + nom.t1l ELSE nom.t0h + nom.t0l
    IN  \/ Distance(bits[i].high, high) > TOL_TICKS
        \/ i < Len(bits) /\ Distance(bits[i].high + bits[i].low, period) > TOL_TICKS

timing_violation(bits, nom) == \E i \in DOMAIN bits : OutOfTolerance(bits, nom, i)

latch_seen(bits) ==
    IF ended_high(bits) THEN IDLE_THRESHOLD_TICKS ELSE trailing_low(bits)

-----------------------------------------------------------------------------
\* diag.rs: the index of the first bit a witness disagrees about, OK if none.
OK == -1
FirstOf(bad) == IF bad = {} THEN OK ELSE Lowest(bad)
Misread(bits, bytes, nom, i, offset) ==
    IsOne(bits[i + 1], nom) # wire_bit(bytes, i + offset)

\* The first observed bit is wire bit offset.
check_from(bits, bytes, nom, offset) ==
    LET want == Len(bytes) * ByteBits
        seen == Len(bits)
        last == IF seen > want - offset THEN seen ELSE want - offset
    IN  FirstOf({i + offset : i \in {j \in 0 .. last - 1 :
                    j + offset >= want \/ j >= seen \/ Misread(bits, bytes, nom, j, offset)}})

check(bits, bytes, nom) == check_from(bits, bytes, nom, 0)

\* A whole capture judged over the bits from first on, those the CPU saw too.
check_range(bits, bytes, nom, first) ==
    LET want == Len(bytes) * ByteBits
    IN  IF Len(bits) # want THEN IF Len(bits) < want THEN Len(bits) ELSE want
        ELSE FirstOf({i \in first .. want - 1 : Misread(bits, bytes, nom, i, 0)})

\* The bits whose period shows that no edge of theirs was missed.
Gap(bits, i) == bits[i + 1].high + bits[i + 1].low \notin WITNESS_PERIOD_TICKS
interrupted(bits) == \E i \in 0 .. Len(bits) - 2 : Gap(bits, i)

check_usable(bits, bytes, nom, offset) ==
    LET usable == {i \in 0 .. Len(bits) - 2 :
                      ~Gap(bits, i) /\ i + offset < Len(bytes) * ByteBits}
    IN  [checked |-> Cardinality(usable),
         bad |-> Cardinality({i \in usable : Misread(bits, bytes, nom, i, offset)})]

-----------------------------------------------------------------------------
(***************************************************************************)
(* The CPU's own witness: a loop that samples the pad every SAMPLE ticks.  *)
(* It opens some ticks after the wire's first rising edge (before it, if   *)
(* negative), and is blind for BLINK ticks from time blink on.             *)
(***************************************************************************)
SAMPLE == 14
BLINK == 150
WITNESS_IDLE_TICKS == 400

\* The wire's bits as the times of their rising and falling edges.
Edges(pulses) ==
    LET Add(edges, p) ==
            LET n == Len(edges)
                rise == IF n = 0 THEN 0 ELSE edges[n].fall + edges[n].low
            IN  Append(edges, [rise |-> rise, fall |-> rise + p.high, low |-> p.low])
    IN  FoldLeft(Add, <<>>, pulses)

\* The edges the loop records, why it ended, and the level at its first sample:
\* the pad's low ends it once it has lasted, and a pad with no edge its timeout.
witness_edges(pulses, opening, blink) ==
    LET edges == Edges(pulses)
        time(k) == opening + SAMPLE * k + (IF opening + SAMPLE * k >= blink THEN BLINK ELSE 0)
        high(k) == \E i \in DOMAIN edges : edges[i].rise <= time(k) /\ time(k) < edges[i].fall
        end == IF edges = <<>> THEN 0 ELSE edges[Len(edges)].fall + WITNESS_IDLE_TICKS
        last == (end - opening) \div SAMPLE
        levels == [k \in 0 .. last |-> high(k)]
        changes == SelectSeq([k \in 1 .. last |-> k], LAMBDA k : levels[k] # levels[k - 1])
        seen == IF Len(changes) > MAX_EDGES THEN SubSeq(changes, 1, MAX_EDGES) ELSE changes
    IN  [edges |-> [i \in DOMAIN seen |-> time(seen[i])],
         reason |-> IF Len(changes) > MAX_EDGES THEN "full"
                    ELSE IF changes = <<>> THEN "timeout" ELSE "idle",
         started_high |-> end > opening /\ levels[0]]

\* Whole bits only: a high that had begun before the first sample is dropped.
witness_bits(run) ==
    LET from == IF run.started_high THEN 2 ELSE 1
        n == Len(run.edges)
        count == IF n < from THEN 0 ELSE (n + 1 - from) \div 2
        at(k) == from + 2 * (k - 1)
    IN  [k \in 1 .. count |->
            [high |-> run.edges[at(k) + 1] - run.edges[at(k)],
             low |-> IF at(k) + 2 <= n THEN run.edges[at(k) + 2] - run.edges[at(k) + 1]
                     ELSE 0]]

=============================================================================
