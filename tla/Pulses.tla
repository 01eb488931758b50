------------------------------- MODULE Pulses -------------------------------
(***************************************************************************)
(* The words the RMT transmitter plays (src/lp-ws281x/src/pulse.rs) and    *)
(* the timings compiled into them (src/lp-ws281x/src/timing.rs).  A word   *)
(* of 32 bits is the pair of its 16-bit halves, the low one first; a half  *)
(* is a level in its top bit and a duration in ticks.  The clock is given  *)
(* in MHz: the rates of the three chips are whole megahertz.               *)
(***************************************************************************)
EXTENDS Integers, Sequences

MAX_DURATION_TICKS == 32767

Pulse(level, ticks) == [level |-> level, ticks |-> ticks]
High(ticks) == Pulse(TRUE, ticks)
Low(ticks) == Pulse(FALSE, ticks)

HalfWord(level, ticks) == (IF level THEN 32768 ELSE 0) + (ticks % 32768)
HalfPulse(half) == IF half >= 32768 THEN High(half % 32768) ELSE Low(half % 32768)

pulse_code(level1, ticks1, level2, ticks2) ==
    <<HalfWord(level1, ticks1), HalfWord(level2, ticks2)>>

STOP_WORD == <<0, 0>>

\* The two pulses of a word; none for the stop word.
decode_word(word) ==
    IF word = STOP_WORD THEN <<>> ELSE <<HalfPulse(word[1]), HalfPulse(word[2])>>

-----------------------------------------------------------------------------
\* The RGB byte each of a pixel's three wire slots carries.
ColorOrder ==
    [Rgb |-> <<1, 2, 3>>, Rbg |-> <<1, 3, 2>>, Grb |-> <<2, 1, 3>>,
     Gbr |-> <<2, 3, 1>>, Brg |-> <<3, 1, 2>>, Bgr |-> <<3, 2, 1>>]

source_index(order, slot) == ColorOrder[order][slot]

WS2812 == [t0h_ns |-> 400, t0l_ns |-> 850, t1h_ns |-> 800, t1l_ns |-> 450,
           latch_us |-> 300, color_order |-> "Grb"]
WS2811 == [t0h_ns |-> 300, t0l_ns |-> 950, t1h_ns |-> 900, t1l_ns |-> 350,
           latch_us |-> 300, color_order |-> "Rgb"]

with_color_order(timing, order) == [timing EXCEPT !.color_order = order]

-----------------------------------------------------------------------------
\* The result of ns_to_ticks: the ticks, and what it refuses them for.
ns_to_ticks(ns, mhz) == (ns * mhz) \div 1000

TicksError(ticks) ==
    IF ticks = 0 THEN "PulseTooShort"
    ELSE IF ticks > MAX_DURATION_TICKS THEN "PulseTooLong" ELSE "none"

\* The four phases in the order they are compiled: the first bad one is named.
PhaseTicks(timing, mhz) ==
    <<ns_to_ticks(timing.t0h_ns, mhz), ns_to_ticks(timing.t0l_ns, mhz),
      ns_to_ticks(timing.t1h_ns, mhz), ns_to_ticks(timing.t1l_ns, mhz)>>

\* The latch is one word of two low halves, the odd tick in the second.
latch_ticks(timing, mhz) == timing.latch_us * mhz
LatchFirst(timing, mhz) == latch_ticks(timing, mhz) \div 2
LatchSecond(timing, mhz) == latch_ticks(timing, mhz) - LatchFirst(timing, mhz)

TimingError(timing, mhz) ==
    LET ticks == PhaseTicks(timing, mhz)
        bad == {i \in 1 .. 4 : TicksError(ticks[i]) # "none"}
        second == LatchSecond(timing, mhz)
    IN  IF mhz = 0 THEN "ZeroClock"
        ELSE IF bad # {}
        THEN TicksError(ticks[CHOOSE i \in bad : \A j \in bad : i <= j])
        ELSE IF second > MAX_DURATION_TICKS THEN "LatchTooLong"
        ELSE IF second = 0 THEN "PulseTooShort" ELSE "none"

\* The three words of an accepted timing.
PulseCodes(timing, mhz) ==
    LET ticks == PhaseTicks(timing, mhz)
    IN  [zero |-> pulse_code(TRUE, ticks[1], FALSE, ticks[2]),
         one |-> pulse_code(TRUE, ticks[3], FALSE, ticks[4]),
         latch |-> pulse_code(FALSE, LatchFirst(timing, mhz),
                              FALSE, LatchSecond(timing, mhz))]

DEFAULT_CLOCK_MHZ == 80
at_default_clock(timing) == PulseCodes(timing, DEFAULT_CLOCK_MHZ)

=============================================================================
