--------------------------------- MODULE Lab ---------------------------------
(***************************************************************************)
(* The firmware of src/fw/led-lab-esp32: a block plan is checked when the  *)
(* firmware is built, and the program the build's feature selects runs on  *)
(* the driver it configures.  The programs' modules share the bench.       *)
(***************************************************************************)
EXTENDS Diag, Loopback, Soaks

LabVars == <<vars, labVars>>

\* Every program takes the peripheral, gives every channel its memory and then
\* its timing, and halts at the first refusal: of esp-hal, at its discretion, or
\* of configure_default_clock, which refuses a channel without a window, so that
\* the programs' own first steps require `configured`.
SetUpFails(name) ==
    /\ program = "off"
    /\ program' = name /\ pc' = "halt"
    /\ UNCHANGED <<at, sent, tx, rx, upset, budget, stats, log, truth>>

main ==
    \/ \E name \in Programs : SetUpFails(name)
    \/ DiagNext \/ LoopbackNext \/ SoaksNext \/ TxEnd \/ RxEnd

\* The plan first, then the program: only BlockPlan::uniform's plans are built.
LabNext ==
    \/ Next /\ UNCHANGED labVars
    \/ verdict = "ok" /\ step # 0 /\ main /\ UNCHANGED vars

\* Where the firmware may stop: the build refused the plan, or took the counts
\* from a caller no program has; the program is at an end of its own; or the
\* bound on the demo's rounds is reached.  TLC reports any other stop.
Ended ==
    \/ verdict \notin {"filling", "checking", "ok"} \/ (verdict = "ok" /\ step = 0)
    \/ pc \in {"done", "fatal", "halt", "bounded"}
Rest == Ended /\ UNCHANGED LabVars

\* The build with its plan, and a board that has not begun to run.
Built == Init /\ LabInit

LabSpec == Built /\ [][LabNext \/ Rest]_LabVars

-----------------------------------------------------------------------------
Reporting == program = "diag" /\ pc = "reporting"

\* A line of diag blames the bench (plumbing) if and only if something of the
\* bench broke, and counts as misses just the captures that differ from what the
\* strip should have got: not one for the low before a frame or the idle after
\* it, a frame longer than the buffer, or the next phase's crossed wiring.  A
\* receiver that was lost counts too.  A word is reported foreign only if one was.
MissesTruthful ==
    Reporting =>
        /\ log.plumbing = "ok" <=> ~truth.broken
        /\ ~truth.lost => log.misses = truth.bad
        /\ log.ram_hits > 0 => truth.foreign > 0

\* A frame is filed under the witness that erred: bits the CPU loop did not see,
\* because it opened late or inside a pulse or was blind for a while, make
\* neither it nor the receiver disagree with the wire.  Frames with a pulse too
\* many or too few are left out: the table is wrong about those.
WitnessTruthful ==
    Reporting /\ ~truth.shifted =>
        log.table = truth.table /\ log.agree_at = truth.agree_at

\* The self-test's one verdict: the suite names the first thing that really went
\* wrong, in whatever stage, and nothing else; it passes if nothing did, and a
\* fatal end names what broke.
VerdictTruthful ==
    program = "loopback" /\ pc # "halt" =>
        /\ log.first_fail = truth.first
        /\ pc = "done" => log.said = IF truth.first = "" THEN "PASS" ELSE "FAIL"
        /\ pc = "fatal" => log.said = truth.fatal

\* What the demo says of the last second, from counters that only grow, and what
\* a scenario or a cell says of its run, is what became of the frames started in
\* it.  A scenario or a cell counts the frames that ended, whole and short; its
\* timeouts are the sets of frames with some missing, not the missing frames.
\* The demo names the worst that happened, and its timeouts are no fewer than
\* the frames missing, but for those aborted at a change of mode.
ReportsTruthful ==
    LET ended == truth.rounds * Cardinality(active) - truth.hung
    IN  pc = "reported" =>
        /\ log.result.trips = truth.late /\ log.result.errors = truth.errors
        /\ Demo => /\ log.result.said =
                         IF truth.advanced # Channels THEN "frames_stalled"
                         ELSE IF truth.late > 0 THEN "idle_guard_trip"
                         ELSE IF truth.errors > 0 THEN "tx_err"
                         ELSE IF truth.hung > truth.drained THEN "frame_timeout" ELSE "PASS"
                   /\ log.result.hangs >= truth.hung - truth.drained
        /\ Soaking => /\ log.result.frames = ended
                      /\ log.result.complete = ended - truth.late
                      /\ log.result.hangs = truth.spoilt

\* The contract start_frame leaves to its caller: a program touches the bytes of
\* a frame, judges it, or ends, only when no handler reads them any more; also
\* after a frame that hung, or a set that could not be started.
BuffersAtRest ==
    pc \in {"arming", "starting", "judging", "comparing", "concluding", "reporting",
            "choosing", "verdict", "done", "fatal"} => all_complete

=============================================================================
