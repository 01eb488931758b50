------------------------------ MODULE LabBench ------------------------------
(***************************************************************************)
(* The bench the programs of src/fw/led-lab-esp32 run on: the driver's     *)
(* frames and counters (src/lp-ws281x/src/driver.rs) seen from thread      *)
(* context, the wires, and the RMT receivers that watch them (esp-hal, not *)
(* under src/).  A program's set-up follows the block plan its build asks  *)
(* for.  What goes wrong in a round of frames is a set of faults, chosen   *)
(* when the round is armed: any of them together, on one channel or on     *)
(* several, and at most Upsets of the program in a behaviour.              *)
(***************************************************************************)
EXTENDS BlockPlan, Capture

CONSTANTS Programs,   \* the features the firmware is built with, one at a time
          Upsets,     \* how many faults a behaviour of each may have
          FaultBits   \* bits of a frame a fault may hit, counted from one

ASSUME BenchAssumption ==
    /\ Programs \subseteq {"demo", "loopback", "diag", "sweep", "stress"}
    /\ Upsets \in [Programs -> Nat] /\ FaultBits \subseteq Nat \ {0}

VARIABLES
    program,  \* the build's feature: which program main runs
    pc,       \* where its thread is
    at,       \* its loop variables, and what is fixed for the round
    sent,     \* the RGB bytes of each channel's frame this round
    tx,       \* "idle" or "busy", for each channel: what is_complete tells a poll
    rx,       \* "parked", "armed", "done" or "lost", for each receiver slot
    upset,    \* the faults of this round
    budget,
    stats,    \* ChannelState's counters, for each channel
    log,      \* what the program has counted and said
    truth     \* what really happened, as far as the program should know it

labVars == <<program, pc, at, sent, tx, rx, upset, budget, stats, log, truth>>

channel_timings ==
    LET cycle == <<WS2812, with_color_order(WS2812, "Rgb"), WS2811,
                   with_color_order(WS2812, "Bgr")>>
    IN  [c \in Channels |-> cycle[(c % 4) + 1]]

nom == [c \in Channels |-> Nominal(channel_timings[c])]

Every(value) == [c \in Channels |-> value]
NoStats == [frames |-> 0, trips |-> 0, errors |-> 0]

-----------------------------------------------------------------------------
(***************************************************************************)
(* The wires.                                                              *)
(***************************************************************************)
expect(c) == wire_bytes(sent[c], channel_timings[c].color_order)
Meant(c) == wire_bits(expect(c))

Hits(kind, who, bit) == [kind |-> kind, on |-> who, bit |-> bit] \in upset
Is(kind, who) == \E fault \in upset : fault.kind = kind /\ fault.on = who

\* The bits that go out on the wire, and whose codes they are played in: a stop
\* word that strayed into the channel's RAM cuts the frame, a foreign word adds
\* a bit or changes one, and a crossed channel plays its neighbour's frame.
Neighbour(c) == (c + 1) % N
Plays(c) == IF Is("cross", c) THEN Neighbour(c) ELSE c
Damaged(fault, bits) ==
    LET n == fault.bit
    IN  IF n > Len(bits) THEN bits
        ELSE CASE fault.kind = "flip" -> [i \in DOMAIN bits |-> bits[i] # (i = n)]
               [] fault.kind = "extra" -> InsertAt(bits, n, TRUE)
               [] fault.kind = "cut" -> SubSeq(bits, 1, n)
Carried(c) ==
    FoldSet(Damaged, Meant(Plays(c)),
            {fault \in upset : fault.on = c /\ fault.kind \in {"flip", "extra", "cut"}})

\* What a wire should carry and does, where the truncation test makes the
\* transmitter of a victim walk into its guard: after the window filled before
\* the start, and the one half whose refill was served.
TRUNC_EXPECT_BITS == BlockWords + (BlockWords \div 2)
Due(bits, c) ==
    IF c \in at.victims /\ Len(bits) > TRUNC_EXPECT_BITS
    THEN SubSeq(bits, 1, TRUNC_EXPECT_BITS) ELSE bits

Bit(one, n) == IF one THEN [high |-> n.t1h, low |-> n.t1l] ELSE [high |-> n.t0h, low |-> n.t0l]

\* A stretched pulse is out of tolerance and still on its side of mid.
PulsesOf(bits, c) ==
    [i \in DOMAIN bits |->
        LET pulse == Bit(bits[i], nom[Plays(c)])
        IN  IF Hits("stretch", c, i)
            THEN [pulse EXCEPT !.high = @ + TOL_TICKS + 1] ELSE pulse]

\* A word that is not in the codebook of the channel whose window it is in.
ram_word_ok(word, c) ==
    LET codes == at_default_clock(channel_timings[c])
    IN  word \in {STOP_WORD, codes.zero, codes.one, codes.latch}

-----------------------------------------------------------------------------
(***************************************************************************)
(* The receivers.  Slot s of a program watches the wire its set-up bound   *)
(* to it.  A receiver ends once its wire has been idle for the threshold;  *)
(* it may also have recorded the low before the frame and the one after.   *)
(***************************************************************************)
Received(s, bits) ==
    [i \in DOMAIN bits |-> bits[i] # Hits("misread", s, i)]

Items(pulses, ragged) ==
    LET n == Len(pulses)
        level(i) == IF i % 2 = 1
                    THEN High(pulses[(i + 1) \div 2].high)
                    ELSE Low(IF i < 2 * n THEN pulses[i \div 2].low
                             ELSE IF ragged THEN IDLE_THRESHOLD_TICKS ELSE 0)
        lead == IF ragged THEN <<Low(7)>> ELSE <<>>
        halves == lead \o [i \in 1 .. 2 * n |-> level(i)]
        padded == IF Len(halves) % 2 = 0 THEN halves ELSE Append(halves, Low(0))
    IN  [i \in 1 .. Len(padded) \div 2 |-> <<padded[2 * i - 1], padded[2 * i]>>]

\* What receiver s, bound to wire w, hands over; nothing if it was lost.
Seen(s, w) == Received(s, Due(Carried(w), w))
Captured(s, w) ==
    IF rx[s] # "parked" THEN <<>> ELSE Items(PulsesOf(Seen(s, w), w), at.ragged)

-----------------------------------------------------------------------------
(***************************************************************************)
(* A round: faults, starts and ends.                                       *)
(***************************************************************************)
BitFaults == {"flip", "stretch", "extra", "cut"}
WireFaults == {"cross", "hang", "tx_err"}
SlotFaults == {"refuse", "rx_err", "slow"}

\* The faults of a round that transmits on wires and arms slots.
Faults(wires, slots) ==
    [kind : BitFaults, on : wires, bit : FaultBits]
    \cup [kind : WireFaults, on : wires, bit : {1}]
    \cup [kind : {"misread"}, on : slots, bit : FaultBits]
    \cup [kind : SlotFaults, on : slots, bit : {1}]

\* Some of the faults, as many as the budget has, join those that remain.
Joins(remaining, faults) ==
    \E n \in 0 .. budget[program] : \E few \in [1 .. n -> faults] :
        LET joining == {few[i] : i \in 1 .. n}
        IN  /\ upset' = remaining \cup joining
            /\ budget' = [budget EXCEPT ![program] = @ - Cardinality(joining)]
Weather(faults) == Joins({}, faults)

\* start_frame refuses a channel whose frame is in flight; then every program
\* aborts the set it had begun to start.
Refused(wires) == \E c \in wires : tx[c] = "busy"
StartAll(wires) ==
    tx' = [c \in Channels |->
              IF c \in wires THEN IF Refused(wires) THEN "idle" ELSE "busy" ELSE tx[c]]

\* The frames whose end event arrives.  The lost event of a hung frame is the
\* only thing that keeps a program polling past the frame's length.
Ending == {c \in Channels : tx[c] = "busy" /\ ~Is("hang", c)}

\* finish: a frame that stopped at a guard is counted as one too.
Finish(ends) ==
    /\ tx' = [c \in Channels |-> IF c \in ends THEN "idle" ELSE tx[c]]
    /\ stats' = [c \in Channels |->
           IF c \notin ends THEN stats[c]
           ELSE [frames |-> stats[c].frames + 1,
                 trips |-> stats[c].trips + (IF Is("late", c) \/ c \in at.victims THEN 1 ELSE 0),
                 errors |-> stats[c].errors + (IF Is("tx_err", c) THEN 1 ELSE 0)]]

all_complete == \A c \in Channels : tx[c] = "idle"
Hung == \E c \in Channels : tx[c] = "busy" /\ Is("hang", c)

\* Mutant: the frames are given up, and the transmitters run on.
AbortAll_Not == UNCHANGED tx

AbortAll == tx' = Every("idle")

Armed == {s \in Channels : rx[s] = "armed"}

\* wait() on every transaction: the receivers come back, but the one in error.
Collected ==
    [s \in Channels |->
        IF rx[s] # "done" THEN rx[s] ELSE IF Is("rx_err", s) THEN "lost" ELSE "parked"]

\* Receivers given up with their transactions.
Dropped(slots) == [s \in Channels |-> IF s \in slots THEN "lost" ELSE rx[s]]

-----------------------------------------------------------------------------
LabInit ==
    /\ program = "off" /\ pc = "off"
    /\ at = [victims |-> {}] /\ log = [said |-> ""] /\ truth = [first |-> ""]
    /\ sent = Every(<<>>) /\ tx = Every("idle") /\ rx = Every("parked")
    /\ upset = {} /\ budget = Upsets /\ stats = Every(NoStats)

\* configure_default_clock on every channel, in order; a channel the plan left
\* without a window is refused, and the program halts.
configure(c) == is_available(c) /\ window_words(c) >= 4 /\ window_words(c) % 2 = 0

configured == \A c \in Channels : configure(c)

-----------------------------------------------------------------------------
\* The handler, at any moment of a round.  The programs that wait for all the
\* frames only see the last of them end; the free-running demo sees each.
TxEnd ==
    /\ Ending # {} /\ (program = "demo" => at.mode = "simultaneous") /\ Finish(Ending)
    /\ UNCHANGED <<program, pc, at, sent, rx, upset, budget, log, truth>>

\* The receivers whose wires have gone idle: a slow one ends after the deadline.
RxEnd ==
    LET ready == {s \in Armed : pc = "collecting" \/ ~Is("slow", s)}
    IN  /\ pc \in {"sending", "receiving", "collecting"} /\ Ending = {} /\ ready # {}
        /\ rx' = [s \in Channels |-> IF s \in ready THEN "done" ELSE rx[s]]
        /\ UNCHANGED <<program, pc, at, sent, tx, upset, budget, stats, log, truth>>

=============================================================================
