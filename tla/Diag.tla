-------------------------------- MODULE Diag --------------------------------
(***************************************************************************)
(* The diagnostic program (src/fw/led-lab-esp32/src/diag.rs): four phases  *)
(* of experiments.  A block sends frames on some channels, arms some       *)
(* receivers and counts the captures that disagree; a witness block also   *)
(* watches one pad from the CPU and files every frame in a 2x2 table.      *)
(***************************************************************************)
EXTENDS LabBench

CONSTANTS Labels,    \* the experiments that are run; the others are skipped
          MaxRun,    \* how many of them in a behaviour
          FRAMES,    \* frames of an experiment
          Openings   \* when the CPU loop opens, in ticks from the first edge

ASSUME DiagAssumption ==
    MaxRun \in Nat /\ FRAMES \in Nat \ {0} /\ Openings \subseteq Int

SOAK_LEDS == [c \in Channels |-> IF c % 2 = 0 THEN 2 ELSE 1]
SHORT_LEDS == Every(1)

\* What an experiment varies.  The stagger between two starts is not modelled:
\* it delays edges and no poll.
Base(label) ==
    [kind |-> "block", label |-> label, tx_on |-> Channels, arm |-> Channels,
     leds |-> SOAK_LEDS, ram_check |-> FALSE, wire |-> 0]
Short(label) == [Base(label) EXCEPT !.leds = SHORT_LEDS]

Pairs == <<<<0, 1>>, <<0, 2>>, <<0, 3>>, <<1, 2>>, <<1, 3>>, <<2, 3>>>>
Joining == <<{}, {0}, {0, 2}, {0, 2, 3}>>

phase_matrix ==
    <<Base("x1_baseline"), [Base("x6_ram_scan") EXCEPT !.ram_check = TRUE]>>
    \o [solo \in 1 .. 4 |-> [Base("x2_rx_only") EXCEPT !.arm = {solo - 1}]]
    \o [p \in 1 .. 6 |-> [Base("x2b_rx_pair") EXCEPT !.arm = {Pairs[p][1], Pairs[p][2]}]]
    \o [out \in 1 .. 4 |-> [Base("x2c_no_rx") EXCEPT !.arm = Channels \ {out - 1}]]
    \o [n \in 1 .. 4 |->
            [Base("x3_tx") EXCEPT !.tx_on = {1} \cup Joining[n], !.arm = {1}]]
    \o [stagger \in 1 .. 3 |-> Base("x8_stagger")]
    \o <<Short("x1s_short_frames")>>

phase_remap == <<Base("x4_remap"), Short("x4_remap_short")>>
phase_spread_pins == <<Base("x7_spread"), Short("x7_spread_short")>>

Witness(label, wire, arm) ==
    [Short(label) EXCEPT !.kind = "witness", !.wire = wire, !.arm = arm]
phase_witness ==
    [i \in 1 .. 12 |->
        LET wire == (i - 1) \div 3
        IN  CASE i % 3 = 1 -> Witness("x5_rx4", wire, Channels)
              [] i % 3 = 2 -> Witness("x9_rx1", wire, {wire})
              [] i % 3 = 0 -> Witness("x9_rx0", wire, {})]

\* The phases in their order, and the wire each receiver slot watches in them.
Phases == <<phase_matrix, phase_remap, phase_witness, phase_spread_pins>>
wire_of(s) == IF at.phase = 2 THEN N - 1 - s ELSE s

cfg == at.cfg
NoTable == [both_bad |-> 0, rx_only |-> 0, cpu_only |-> 0, clean |-> 0]
NewLog == [misses |-> Every(0), ram_hits |-> 0, plumbing |-> "ok", table |-> NoTable,
           agree_at |-> 0, blind |-> 0, checked |-> 0, wrong |-> 0, view |-> <<>>]
NewTruth == [bad |-> Every(0), foreign |-> 0, table |-> NoTable, agree_at |-> 0,
             broken |-> FALSE, lost |-> FALSE, shifted |-> FALSE]

Running == program = "diag"
Fails(reason) == log' = [log EXCEPT !.plumbing = reason]

-----------------------------------------------------------------------------
\* run: each phase! sets the peripheral up afresh, then runs its experiments.
RunDiag(ragged) ==
    /\ program = "off" /\ "diag" \in Programs /\ configured
    /\ program' = "diag" /\ pc' = "choosing"
    /\ at' = [phase |-> 1, next |-> 1, ran |-> 0, f |-> 0, cfg |-> Base("none"),
              ragged |-> ragged, victims |-> {}]
    /\ log' = NewLog /\ truth' = NewTruth
    /\ UNCHANGED <<sent, tx, rx, upset, budget, stats>>

Experiment ==
    /\ Running /\ pc = "choosing" /\ at.ran < MaxRun
    /\ pc' = "arming"
    /\ \E i \in at.next .. Len(Phases[at.phase]) :
         /\ Phases[at.phase][i].label \in Labels
         /\ at' = [at EXCEPT !.next = i + 1, !.ran = @ + 1, !.f = 0,
                             !.cfg = Phases[at.phase][i]]
    /\ log' = NewLog /\ truth' = NewTruth
    /\ UNCHANGED <<program, sent, tx, rx, upset, budget, stats>>

NextPhase ==
    /\ Running /\ pc = "choosing" /\ at.phase < Len(Phases)
    /\ at' = [at EXCEPT !.phase = @ + 1, !.next = 1]
    /\ rx' = Every("parked")
    /\ UNCHANGED <<program, pc, sent, tx, upset, budget, stats, log, truth>>

DiagDone ==
    /\ Running /\ pc = "choosing" /\ at.phase = Len(Phases)
    /\ pc' = "done"
    /\ UNCHANGED <<program, at, sent, tx, rx, upset, budget, stats, log, truth>>

-----------------------------------------------------------------------------
(***************************************************************************)
(* The frames of a round, its receivers, and send_round.                   *)
(***************************************************************************)
LoadFrames ==
    sent' = [c \in Channels |->
                IF c \in cfg.tx_on THEN fill_frame(at.f, c, 3 * cfg.leds[c]) ELSE <<>>]

Loaded == {s \in cfg.arm : rx[s] # "lost"}
Missing == cfg.arm \ Loaded

Troubles ==
    Faults(cfg.tx_on, Loaded)
    \cup (IF cfg.ram_check THEN [kind : {"foreign"}, on : cfg.tx_on, bit : {1}] ELSE {})
    \cup (IF cfg.kind = "witness"
          THEN [kind : {"blink"}, on : {cfg.wire}, bit : FaultBits] ELSE {})

\* A block arms the receivers it still has; a witness block must have them all.
\* When one refuses, the transactions begun so far are given up with it.
Needs == IF cfg.kind = "block" THEN {} ELSE Missing
Refusing == {s \in Loaded : Is("refuse", s)'}
GivenUp ==
    IF cfg.kind = "block" THEN {s \in Loaded : \A r \in Refusing : s <= r}
    ELSE {s \in Loaded : \A m \in Missing : s < m}

BeginRound ==
    /\ Running /\ pc = "arming" /\ LoadFrames /\ Weather(Troubles)
    /\ truth' = [truth EXCEPT
           !.lost = @ \/ Missing # {},
           !.broken = @ \/ Needs # {} \/ \E fault \in upset' :
                          fault.kind \in {"refuse", "rx_err", "slow", "hang"}]
    /\ UNCHANGED <<program, at, tx, stats>>

Arm ==
    /\ BeginRound /\ Refusing = {} /\ Needs = {}
    /\ rx' = [s \in Channels |-> IF s \in Loaded THEN "armed" ELSE rx[s]]
    /\ pc' = "starting" /\ UNCHANGED log

ArmFails ==
    /\ BeginRound /\ Refusing \cup Needs # {}
    /\ rx' = Dropped(GivenUp)
    /\ Fails(IF Needs # {} THEN "rx_missing" ELSE "rx_receive")
    /\ pc' = "reporting"

StartBlock ==
    /\ Running /\ pc = "starting" /\ cfg.kind = "block"
    /\ StartAll(cfg.tx_on)
    /\ IF Refused(cfg.tx_on) THEN Fails("tx_start") ELSE UNCHANGED log
    /\ pc' = IF Refused(cfg.tx_on) THEN "receiving" ELSE "sending"
    /\ UNCHANGED <<program, at, sent, rx, upset, budget, stats, truth>>

\* The frames are started and watched with every RMT cause masked: no handler
\* runs before the witness loop is over.  A blink begins after an edge was seen
\* and is over before the last bit: at either end of the frame it would leave no
\* gap, and go unnoticed.
StartWitness(opening) ==
    /\ Running /\ pc = "starting" /\ cfg.kind = "witness"
    /\ tx' = Every("busy")
    /\ LET blinks == {n \in FaultBits : Hits("blink", cfg.wire, n)}
           blink == IF blinks = {} THEN 10000 ELSE 210 + 30 * FirstOf(blinks)
           view == witness_edges(PulsesOf(Carried(cfg.wire), cfg.wire), opening, blink)
       IN  log' = [log EXCEPT !.view = view,
                              !.plumbing = IF Refused(Channels) THEN "tx_start" ELSE @]
    /\ pc' = "sending"
    /\ UNCHANGED <<program, at, sent, rx, upset, budget, stats, truth>>

AllSent ==
    /\ Running /\ pc = "sending" /\ all_complete
    /\ pc' = "receiving"
    /\ UNCHANGED <<program, at, sent, tx, rx, upset, budget, stats, log, truth>>

SendTimeout ==
    /\ Running /\ pc = "sending" /\ Ending = {} /\ Hung
    /\ AbortAll /\ Fails("tx_timeout") /\ pc' = "receiving"
    /\ UNCHANGED <<program, at, sent, rx, upset, budget, stats, truth>>

\* A block does not poll on once the sending has failed; wait() still blocks.
AllReceived ==
    /\ Running /\ pc = "receiving"
    /\ Armed = {} \/ (cfg.kind = "block" /\ log.plumbing # "ok")
    /\ pc' = "collecting"
    /\ UNCHANGED <<program, at, sent, tx, rx, upset, budget, stats, log, truth>>

ReceiveTimeout ==
    /\ Running /\ pc = "receiving" /\ \E s \in Armed : Is("slow", s)
    /\ Fails("rx_no_idle") /\ pc' = "collecting"
    /\ UNCHANGED <<program, at, sent, tx, rx, upset, budget, stats, truth>>

Collect ==
    /\ Running /\ pc = "collecting" /\ Armed = {}
    /\ rx' = Collected
    /\ IF \E s \in Channels : rx[s] = "done" /\ Is("rx_err", s)
       THEN Fails("rx_error") ELSE UNCHANGED log
    /\ pc' = IF log'.plumbing = "ok" THEN "judging" ELSE "reporting"
    /\ UNCHANGED <<program, at, sent, tx, upset, budget, stats, truth>>

-----------------------------------------------------------------------------
(***************************************************************************)
(* The judgement of a round.                                               *)
(***************************************************************************)
NextFrame ==
    /\ at' = [at EXCEPT !.f = @ + 1]
    /\ pc' = IF at.f + 1 < FRAMES THEN "arming" ELSE "reporting"

\* Mutant: the capture of slot s is judged as wire s.
Agrees_BySlot(s) ==
    LET bits == parse(Captured(s, wire_of(s)))
    IN  ~too_many_bits(bits, RX_CODES) /\ check(bits, expect(s), nom[s]) = OK

Agrees(s) ==
    LET bits == parse(Captured(s, wire_of(s)))
        w == wire_of(s)
    IN  ~too_many_bits(bits, RX_CODES) /\ check(bits, expect(w), nom[w]) = OK

\* The foreign word of an upset is a one of the neighbour's: the scan sees it
\* only if it is not a word of the channel's own.
ForeignIn(c) == Is("foreign", c)
scan_ram ==
    {c \in cfg.tx_on : ForeignIn(c) /\
        ~ram_word_ok(at_default_clock(channel_timings[Neighbour(c)]).one, c)}

JudgeBlock ==
    /\ Running /\ pc = "judging" /\ cfg.kind = "block"
    /\ LET missed == {s \in cfg.arm : ~Agrees(s)}
           wrong == {s \in cfg.arm : Seen(s, wire_of(s)) # Meant(wire_of(s))}
           On(slots, w) == Cardinality({s \in slots : wire_of(s) = w})
       IN  /\ log' = [log EXCEPT
                 !.misses = [w \in Channels |-> @[w] + On(missed, w)],
                 !.ram_hits = @ + (IF cfg.ram_check THEN Cardinality(scan_ram) ELSE 0)]
           /\ truth' = [truth EXCEPT
                 !.bad = [w \in Channels |-> @[w] + On(wrong, w)],
                 !.foreign = @ + Cardinality({c \in Channels : ForeignIn(c)})]
    /\ NextFrame
    /\ UNCHANGED <<program, sent, tx, rx, upset, budget, stats>>

Cell(cpu_bad, rx_bad) ==
    IF cpu_bad THEN IF rx_bad THEN "both_bad" ELSE "cpu_only"
    ELSE IF rx_bad THEN "rx_only" ELSE "clean"

\* The CPU's bits are taken for the last of the frame.
cpu_bits == witness_bits(log.view)
want_bits == Len(expect(cfg.wire)) * ByteBits
\* Mutant: for the first.
offset_Start == 0

offset == IF Len(cpu_bits) > want_bits THEN 0 ELSE want_bits - Len(cpu_bits)

cpu_verdict == check_from(cpu_bits, expect(cfg.wire), nom[cfg.wire], offset)
rx_verdict ==
    LET bits == parse(Captured(cfg.wire, cfg.wire))
    IN  IF cfg.wire \notin cfg.arm THEN OK
        ELSE IF too_many_bits(bits, RX_CODES) THEN 0
        ELSE check_range(bits, expect(cfg.wire), nom[cfg.wire], offset)

blinded ==
    \/ log.view.reason # "idle" \/ cpu_bits = <<>>
    \/ Len(cpu_bits) > want_bits \/ interrupted(cpu_bits)

\* The same cell, from what the wire carried and the receiver made of it.
FirstWrong(bits) ==
    LET w == cfg.wire
        wrong == {i \in offset + 1 .. want_bits : bits[i] # Meant(w)[i]}
    IN  FirstOf({i - 1 : i \in wrong})

TruthOfFrame ==
    LET w == cfg.wire
        cpu == FirstWrong(Carried(w))
        seen == IF w \in cfg.arm THEN FirstWrong(Seen(w, w)) ELSE OK
        cell == Cell(cpu # OK, seen # OK)
    IN  [truth EXCEPT !.table[cell] = @ + 1,
                      !.agree_at = @ + (IF cell = "both_bad" /\ cpu = seen THEN 1 ELSE 0)]

JudgeWitness ==
    /\ Running /\ pc = "judging" /\ cfg.kind = "witness"
    /\ IF blinded
       THEN log' = [log EXCEPT !.blind = @ + 1] /\ UNCHANGED truth
       ELSE /\ LET cell == Cell(cpu_verdict # OK, rx_verdict # OK)
                   usable == check_usable(cpu_bits, expect(cfg.wire), nom[cfg.wire], offset)
               IN  log' = [log EXCEPT
                      !.table[cell] = @ + 1,
                      !.agree_at = @ + (IF cell = "both_bad" /\ cpu_verdict = rx_verdict
                                        THEN 1 ELSE 0),
                      !.checked = @ + usable.checked, !.wrong = @ + usable.bad]
            /\ truth' = IF Len(Carried(cfg.wire)) # want_bits
                        THEN [truth EXCEPT !.shifted = TRUE] ELSE TruthOfFrame
    /\ NextFrame
    /\ UNCHANGED <<program, sent, tx, rx, upset, budget, stats>>

\* The line of an experiment, whatever ended it.
Report ==
    /\ Running /\ pc = "reporting"
    /\ pc' = "choosing"
    /\ UNCHANGED <<program, at, sent, tx, rx, upset, budget, stats, log, truth>>

DiagNext ==
    \/ \E ragged \in BOOLEAN : RunDiag(ragged)
    \/ Experiment \/ NextPhase \/ DiagDone \/ Arm \/ ArmFails \/ StartBlock
    \/ \E opening \in Openings : StartWitness(opening)
    \/ AllSent \/ SendTimeout \/ AllReceived \/ ReceiveTimeout \/ Collect
    \/ JudgeBlock \/ JudgeWitness \/ Report

=============================================================================
