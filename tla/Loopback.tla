------------------------------ MODULE Loopback ------------------------------
(***************************************************************************)
(* The loopback self-test (src/fw/led-lab-esp32/src/loopback.rs): a known  *)
(* answer on each channel in turn, a comparison across channels, a soak    *)
(* with one witness at a time, then a truncation forced on one channel.    *)
(* A miss is noted and the suite goes on; broken plumbing is fatal.        *)
(***************************************************************************)
EXTENDS LabBench

CONSTANT SOAK_FRAMES
ASSUME LoopbackAssumption == SOAK_FRAMES \in Nat \ {0}

VICTIM == 2
TRUNC_LEDS == 8
TEST_LEDS == [c \in Channels |-> IF c % 2 = 0 THEN 2 ELSE 1]
TEST_FRAMES ==
    [c \in Channels |-> SubSeq(<<<<1, 0, 3, 1, 0, 3>>, <<2, 3, 0, 0, 0, 0>>,
                                 <<1, 2, 0, 0, 2, 3>>, <<2, 1, 3, 0, 0, 0>>>>[c + 1],
                               1, 3 * TEST_LEDS[c])]
TruncFrame == [j \in 1 .. 3 * TRUNC_LEDS |-> (((j - 1) * 37 + 11) % 251) % 2 ^ ByteBits]

Testing == program = "loopback"
Stage(name, where) == Testing /\ pc = where /\ at.stage = name

\* The receivers a stage arms, and the wires they watch: the truncation test's
\* first receiver, two blocks large, watches the victim.
Armable == IF at.stage = "truncation" THEN {0, 1, 2} ELSE {at.wire}
Watches(s) == IF at.stage = "truncation" THEN <<VICTIM, 0, 1>>[s + 1] ELSE s

Fail(name) == IF log.first_fail = "" THEN name ELSE log.first_fail
Fatal(reason) == pc' = "fatal" /\ log' = [log EXCEPT !.said = reason]
Trouble(name) == IF truth.first = "" THEN name ELSE truth.first

-----------------------------------------------------------------------------
\* run and main_phase's set-up.
RunLoopback(ragged) ==
    /\ program = "off" /\ "loopback" \in Programs /\ configured
    /\ program' = "loopback" /\ pc' = "arming"
    /\ at' = [stage |-> "known_answer", wire |-> 0, f |-> 0, ragged |-> ragged,
              victims |-> {}]
    /\ log' = [first_fail |-> "", said |-> "", decoded |-> Every(<<>>),
               mismatches |-> Every(0), before |-> stats]
    /\ truth' = [first |-> "", soak |-> FALSE, fatal |-> ""]
    /\ UNCHANGED <<sent, tx, rx, upset, budget, stats>>

LoadRound ==
    sent' = [c \in Channels |->
                IF at.stage = "soak" THEN fill_frame(at.f, c, 3 * TEST_LEDS[c])
                ELSE IF c \in at.victims THEN TruncFrame ELSE TEST_FRAMES[c]]

\* capture: the receivers first, every driver channel, then the receivers' ends.
Strikes(kind) == \E fault \in upset : fault.kind = kind
FatalOf ==
    IF Strikes("refuse") THEN "rx_receive" ELSE IF Strikes("hang") THEN "tx_timeout"
    ELSE IF Strikes("slow") THEN "rx_no_idle" ELSE IF Strikes("rx_err") THEN "rx_error" ELSE ""

BeginCapture ==
    /\ Testing /\ pc = "arming" /\ LoadRound /\ Weather(Faults(Channels, Armable))
    /\ truth' = [truth EXCEPT !.fatal = FatalOf']
    /\ UNCHANGED <<program, at, tx, stats>>

CaptureArm ==
    /\ BeginCapture /\ ~Strikes("refuse")'
    /\ rx' = [s \in Channels |-> IF s \in Armable THEN "armed" ELSE rx[s]]
    /\ pc' = "starting" /\ UNCHANGED log

CaptureRefused ==
    /\ BeginCapture /\ Strikes("refuse")'
    /\ LET refusing == {s \in Armable : Is("refuse", s)'}
       IN  rx' = Dropped({s \in Armable : \A r \in refusing : s <= r})
    /\ Fatal("rx_receive")

CaptureStart ==
    /\ Testing /\ pc = "starting"
    /\ StartAll(Channels)
    /\ IF Refused(Channels) THEN Fatal("tx_start") ELSE pc' = "sending" /\ UNCHANGED log
    /\ UNCHANGED <<program, at, sent, rx, upset, budget, stats, truth>>

CaptureSent ==
    /\ Testing /\ pc = "sending" /\ all_complete
    /\ pc' = "receiving"
    /\ UNCHANGED <<program, at, sent, tx, rx, upset, budget, stats, log, truth>>

\* The poll past FRAME_TIMEOUT aborts every channel; the send returns, and the
\* capture is given up.
CaptureHung ==
    /\ Testing /\ pc = "sending" /\ Ending = {} /\ Hung
    /\ AbortAll /\ Fatal("tx_timeout")
    /\ UNCHANGED <<program, at, sent, rx, upset, budget, stats, truth>>

CaptureNoIdle ==
    /\ Testing /\ pc = "receiving" /\ \E s \in Armed : Is("slow", s)
    /\ Fatal("rx_no_idle")
    /\ UNCHANGED <<program, at, sent, tx, rx, upset, budget, stats, truth>>

CaptureCollect ==
    /\ Testing /\ pc = "receiving" /\ Armed = {}
    /\ rx' = Collected
    /\ IF \E s \in Channels : rx[s] = "done" /\ Is("rx_err", s)
       THEN Fatal("rx_error") ELSE pc' = "judging" /\ UNCHANGED log
    /\ UNCHANGED <<program, at, sent, tx, upset, budget, stats, truth>>

-----------------------------------------------------------------------------
(***************************************************************************)
(* The judgements.                                                         *)
(***************************************************************************)
Got(s) == parse(Captured(s, Watches(s)))
\* Mutant: any decode of the right length will do.
DecodesTo_Length(bits, w, bytes) == byte_aligned(bits) /\ Len(bits) = Len(bytes) * ByteBits

DecodesTo(bits, w, bytes) == byte_aligned(bits) /\ decode(bits, nom[w]) = bytes

\* What really came of the capture on slot s: the first thing wrong with it.
BitsWrong(s) == Seen(s, Watches(s)) # Due(Meant(Watches(s)), Watches(s))
Stretched(s) == \E n \in DOMAIN Carried(Watches(s)) : Hits("stretch", Watches(s), n)

KnownAnswer ==
    /\ Stage("known_answer", "judging")
    /\ LET w == at.wire
           bits == Got(w)
           wrong == IF ~DecodesTo(bits, w, expect(w)) THEN "decode"
                    ELSE IF timing_violation(bits, nom[w]) THEN "timing"
                    ELSE IF latch_seen(bits) < nom[w].latch THEN "latch" ELSE ""
       IN  /\ IF too_many_bits(bits, 2 * RX_CODES)
              THEN Fatal("too_many_bits") /\ UNCHANGED at
              ELSE /\ log' = [log EXCEPT
                        !.first_fail = IF wrong = "" THEN @ ELSE Fail(wrong),
                        !.decoded[w] = IF byte_aligned(bits) THEN decode(bits, nom[w]) ELSE @]
                   /\ pc' = IF w + 1 < N THEN "arming" ELSE "comparing"
                   /\ at' = [at EXCEPT !.wire = (w + 1) % N]
           /\ truth' = [truth EXCEPT !.first = IF BitsWrong(w) THEN Trouble("decode")
                                               ELSE IF Stretched(w) THEN Trouble("timing") ELSE @]
    /\ UNCHANGED <<program, sent, tx, rx, upset, budget, stats>>

\* No channel decoded to another's frame; the frames must differ for that to
\* mean anything.  The soak starts from the counters of this moment.
CrossTalk ==
    /\ Stage("known_answer", "comparing")
    /\ LET pairs == {p \in Channels \X Channels : p[1] # p[2]}
           distinct == \A p \in pairs : expect(p[1]) # expect(p[2])
           crossed == {p \in pairs : log.decoded[p[1]] # <<>> /\
                                     log.decoded[p[1]] = expect(p[2])}
       IN  log' = [log EXCEPT !.before = stats,
                              !.first_fail = IF distinct /\ crossed = {} THEN @
                                             ELSE Fail("cross_talk")]
    /\ at' = [at EXCEPT !.stage = "soak", !.f = 0]
    /\ pc' = "arming"
    /\ UNCHANGED <<program, sent, tx, rx, upset, budget, stats, truth>>

SoakFrame ==
    /\ Stage("soak", "judging")
    /\ LET w == at.wire
           bits == Got(w)
           ok == ~too_many_bits(bits, 2 * RX_CODES) /\ DecodesTo(bits, w, expect(w))
           last == at.f + 1 = SOAK_FRAMES
       IN  /\ log' = [log EXCEPT !.mismatches[w] = IF ok THEN @ ELSE @ + 1]
           /\ truth' = [truth EXCEPT !.soak = @ \/ BitsWrong(w) \/ Strikes("tx_err")]
           /\ at' = [at EXCEPT !.f = IF last THEN 0 ELSE @ + 1,
                               !.wire = IF last THEN (w + 1) % N ELSE w]
           /\ pc' = IF last /\ w + 1 = N THEN "concluding" ELSE "arming"
    /\ UNCHANGED <<program, sent, tx, rx, upset, budget, stats>>

Since(c, counter) == stats[c][counter] - log.before[c][counter]

\* The soak's verdict ends the first phase.  The second sets the peripheral up
\* again, and swallows one threshold interrupt of the victim.
SoakVerdict ==
    /\ Stage("soak", "concluding")
    /\ LET ok == \A c \in Channels :
               log.mismatches[c] = 0 /\ Since(c, "trips") = 0 /\ Since(c, "errors") = 0
       IN  log' = [log EXCEPT !.first_fail = IF ok THEN @ ELSE Fail("soak"),
                              !.before = stats]
    /\ truth' = [truth EXCEPT !.first = IF truth.soak THEN Trouble("soak") ELSE @]
    /\ at' = [at EXCEPT !.stage = "truncation", !.victims = {VICTIM}]
    /\ rx' = Every("parked") /\ pc' = "arming"
    /\ UNCHANGED <<program, sent, tx, upset, budget, stats>>

\* The victim stopped where it must, on a clean prefix, and counted it; those
\* beside it are whole and counted nothing; the unobserved one by its counters.
IsPrefixOf(bytes, whole) == Len(bytes) <= Len(whole) /\ SubSeq(whole, 1, Len(bytes)) = bytes
Isolated(s) ==
    LET w == Watches(s)
        bits == Got(s)
        decoded == /\ ~too_many_bits(bits, 2 * RX_CODES) /\ byte_aligned(bits)
                   /\ IsPrefixOf(decode(bits, nom[w]), expect(w))
    IN  /\ decoded
        /\ Since(w, "trips") = (IF w = VICTIM THEN 1 ELSE 0)
        /\ Len(bits) = IF w = VICTIM THEN TRUNC_EXPECT_BITS ELSE Len(expect(w)) * ByteBits
Unobserved ==
    Since(3, "frames") = 1 /\ Since(3, "trips") = 0 /\ Since(3, "errors") = 0

Truncation ==
    /\ Stage("truncation", "judging")
    /\ LET ok == (\A s \in Armable : Isolated(s)) /\ Unobserved
       IN  log' = [log EXCEPT !.first_fail = IF ok THEN @ ELSE Fail("truncation")]
    /\ truth' = [truth EXCEPT !.first =
           IF (\E s \in Armable : BitsWrong(s)) \/ Is("tx_err", 3)
           THEN Trouble("truncation") ELSE @]
    /\ pc' = "verdict"
    /\ UNCHANGED <<program, at, sent, tx, rx, upset, budget, stats>>

FinalVerdict ==
    /\ Testing /\ pc = "verdict"
    /\ log' = [log EXCEPT !.said = IF log.first_fail = "" THEN "PASS" ELSE "FAIL"]
    /\ pc' = "done"
    /\ UNCHANGED <<program, at, sent, tx, rx, upset, budget, stats, truth>>

LoopbackNext ==
    \/ \E ragged \in BOOLEAN : RunLoopback(ragged)
    \/ CaptureArm \/ CaptureRefused \/ CaptureStart \/ CaptureSent \/ CaptureHung
    \/ CaptureNoIdle \/ CaptureCollect
    \/ KnownAnswer \/ CrossTalk \/ SoakFrame \/ SoakVerdict \/ Truncation \/ FinalVerdict

=============================================================================
