-------------------------------- MODULE Soaks --------------------------------
(***************************************************************************)
(* The programs that only send and count, all in src/fw/led-lab-esp32: the *)
(* demo (main.rs), which starts its channels together for a while and then *)
(* each on its own, and reports every second; the stress harness           *)
(* (stress.rs), one result per scenario; and the channel-count sweep       *)
(* (sweep.rs), one per cell.  Their clocks are choices: how many rounds go *)
(* before a report, which channels are due.                                *)
(***************************************************************************)
EXTENDS LabBench

CONSTANTS Rounds,    \* rounds of the demo, and of a scenario or a cell
          DueSets    \* the sets of channels that fall due together

ASSUME SoaksAssumption == Rounds \in Nat \ {0} /\ DueSets \subseteq SUBSET Channels

SCENARIOS == <<"S0", "S1", "S2", "S3">>
SLOT_STRIDE == step
USABLE_CHANNELS == N \div SLOT_STRIDE
Cells == 2 * USABLE_CHANNELS

Demo == program = "demo"
Soaking == program \in {"stress", "sweep"}
active == IF program = "sweep" THEN {i * SLOT_STRIDE : i \in 0 .. at.count - 1} ELSE Channels
SendFaults(wires) == [kind : {"late", "hang", "tx_err"}, on : wires, bit : {1}]

\* The frames that are never counted, and those that end with a fault.
Hanging == {c \in Channels : Is("hang", c)}
EndWith(kind) == {c \in Channels : Is(kind, c)} \ Hanging

\* Frames that stopped at their guards or erred, that hung, and that hung and
\* were drained; the sets of frames in which some hung; the channels that sent.
Nothing == [rounds |-> 0, late |-> 0, errors |-> 0, hung |-> 0, drained |-> 0,
            spoilt |-> 0, advanced |-> {}]

NoResult == [said |-> "", frames |-> 0, complete |-> 0, trips |-> 0, errors |-> 0, hangs |-> 0]

-----------------------------------------------------------------------------
(***************************************************************************)
(* A round of frames started together and waited for: send_blocking_all,   *)
(* or the sweep's send_staggered.                                          *)
(***************************************************************************)
BeginRounds(name, loops) ==
    /\ program = "off" /\ name \in Programs /\ configured
    /\ program' = name /\ pc' = "starting" /\ at' = loops
    /\ truth' = Nothing
    /\ UNCHANGED <<sent, tx, rx, upset, budget>>

\* A set with a refused channel is given up: what had been started is aborted,
\* so every channel is as it was.
SoakStart ==
    /\ Demo \/ Soaking
    /\ pc = "starting" /\ Weather(SendFaults(active))
    /\ truth' = [truth EXCEPT
           !.rounds = @ + 1,
           !.late = @ + Cardinality(EndWith("late")'),
           !.errors = @ + Cardinality(EndWith("tx_err")'),
           !.hung = @ + Cardinality(Hanging'),
           !.spoilt = @ + (IF Hanging' = {} THEN 0 ELSE 1),
           !.advanced = @ \cup (active \ Hanging')]
    /\ IF Soaking /\ at.stagger
       THEN pc' = "staggering" /\ at' = [at EXCEPT !.next = 0] /\ UNCHANGED tx
       ELSE /\ IF Refused(active) THEN pc' = "tail" /\ UNCHANGED tx
               ELSE pc' = "sending" /\ StartAll(active)
            /\ UNCHANGED at
    /\ UNCHANGED <<program, sent, rx, stats, log>>

\* The handler runs between two starts, and may end a frame there.
StaggeredStart ==
    /\ Soaking /\ pc = "staggering"
    /\ LET c == at.next * SLOT_STRIDE
       IN  IF tx[c] = "busy" THEN AbortAll /\ pc' = "tail" /\ UNCHANGED at
           ELSE /\ tx' = [tx EXCEPT ![c] = "busy"]
                /\ at' = [at EXCEPT !.next = @ + 1]
                /\ pc' = IF at.next + 1 = at.count THEN "sending" ELSE pc
    /\ UNCHANGED <<program, sent, rx, upset, budget, stats, log, truth>>

SoakSent ==
    /\ Demo \/ Soaking
    /\ pc = "sending" /\ all_complete
    /\ pc' = "tail"
    /\ UNCHANGED <<program, at, sent, tx, rx, upset, budget, stats, log, truth>>

\* One timeout for the set, however many of its frames are missing; the demo
\* counts it for each of the channels it waited for.
TimedOut == IF Demo THEN [c \in Channels |-> log.timeouts[c] + 1] ELSE log.timeouts + 1

SoakHung ==
    /\ Demo \/ Soaking
    /\ pc = "sending" /\ Ending = {} /\ Hung
    /\ AbortAll /\ log' = [log EXCEPT !.timeouts = TimedOut] /\ pc' = "tail"
    /\ UNCHANGED <<program, at, sent, rx, upset, budget, stats, truth>>

-----------------------------------------------------------------------------
(***************************************************************************)
(* The demo, free-running: a sweep starts the channels that are complete   *)
(* and due; another aborts those that are overdue.                         *)
(***************************************************************************)
RunDemo ==
    /\ BeginRounds("demo", [mode |-> "simultaneous", left |-> Rounds, victims |-> {}])
    /\ log' = [timeouts |-> Every(0), last |-> stats, last_timeouts |-> Every(0),
               result |-> NoResult]
    /\ UNCHANGED stats

FreeRunning == Demo /\ pc # "halt" /\ at.mode = "free_running"

\* A fault stays with the frame it befell.
FreeSweep(due) ==
    /\ FreeRunning /\ pc = "sweeping"
    /\ LET ready == {c \in due : tx[c] = "idle"}
       IN  /\ tx' = [c \in Channels |-> IF c \in ready THEN "busy" ELSE tx[c]]
           /\ Joins({fault \in upset : tx[fault.on] = "busy"}, SendFaults(ready))
    /\ pc' = "watching"
    /\ UNCHANGED <<program, at, sent, rx, stats, log, truth>>

FreeEnd(c) ==
    /\ FreeRunning /\ pc # "reported" /\ c \in Ending
    /\ Finish({c})
    /\ truth' = [truth EXCEPT !.advanced = @ \cup {c},
                              !.late = @ + (IF Is("late", c) THEN 1 ELSE 0),
                              !.errors = @ + (IF Is("tx_err", c) THEN 1 ELSE 0)]
    /\ UNCHANGED <<program, pc, at, sent, rx, upset, budget, log>>

\* Frames overdue are aborted, each counted for its own channel.
FreeWatch ==
    /\ FreeRunning /\ pc = "watching"
    /\ \E overdue \in SUBSET {c \in Channels : tx[c] = "busy" /\ Is("hang", c)} :
          /\ tx' = [c \in Channels |-> IF c \in overdue THEN "idle" ELSE tx[c]]
          /\ log' = [log EXCEPT !.timeouts =
                 [c \in Channels |-> IF c \in overdue THEN @[c] + 1 ELSE @[c]]]
          /\ truth' = [truth EXCEPT !.hung = @ + Cardinality(overdue)]
    /\ pc' = "tail"
    /\ UNCHANGED <<program, at, sent, rx, upset, budget, stats>>

-----------------------------------------------------------------------------
(***************************************************************************)
(* The end of the demo's loop body.                                        *)
(***************************************************************************)
Delta(counter) == SumFunction([c \in Channels |-> stats[c][counter] - log.last[c][counter]])
DeltaTimeouts == SumFunction([c \in Channels |-> log.timeouts[c] - log.last_timeouts[c]])

Verdict ==
    IF \E c \in Channels : stats[c].frames = log.last[c].frames THEN "frames_stalled"
    ELSE IF Delta("trips") # 0 THEN "idle_guard_trip"
    ELSE IF Delta("errors") # 0 THEN "tx_err"
    ELSE IF DeltaTimeouts # 0 THEN "frame_timeout" ELSE "PASS"

DemoResult == [NoResult EXCEPT !.said = Verdict, !.trips = Delta("trips"),
                               !.errors = Delta("errors"), !.hangs = DeltaTimeouts]

\* Mutant: the timeouts of the earlier reports are counted again.
DemoReport_Stale ==
    /\ Demo /\ pc = "tail"
    /\ log' = [log EXCEPT !.result = DemoResult, !.last = stats]
    /\ pc' = "reported"
    /\ UNCHANGED <<program, at, sent, tx, rx, upset, budget, stats, truth>>

DemoReport ==
    /\ Demo /\ pc = "tail"
    /\ log' = [log EXCEPT !.result = DemoResult, !.last = stats, !.last_timeouts = log.timeouts]
    /\ pc' = "reported"
    /\ UNCHANGED <<program, at, sent, tx, rx, upset, budget, stats, truth>>

Turning == Demo /\ pc \in {"tail", "reported"}
LoopTop(mode) == IF mode = "simultaneous" THEN "starting" ELSE "sweeping"
Forget == truth' = IF pc = "reported" THEN Nothing ELSE truth

DemoAgain ==
    /\ Turning /\ Forget
    /\ at' = [at EXCEPT !.left = @ - 1]
    /\ pc' = IF at.left > 1 THEN LoopTop(at.mode) ELSE "bounded"
    /\ UNCHANGED <<program, sent, tx, rx, upset, budget, stats, log>>

\* The other mode, once every frame has ended or the wait for them has been
\* given up; a frame aborted here is no timeout to any counter.
DemoTurn ==
    /\ Turning /\ Forget /\ pc' = "draining"
    /\ UNCHANGED <<program, at, sent, tx, rx, upset, budget, stats, log>>

Flip ==
    LET mode == IF at.mode = "simultaneous" THEN "free_running" ELSE "simultaneous"
    IN  /\ at' = [at EXCEPT !.mode = mode, !.left = @ - 1]
        /\ pc' = IF at.left > 1 THEN LoopTop(mode) ELSE "bounded"

Drained ==
    /\ Demo /\ pc = "draining" /\ all_complete /\ Flip
    /\ UNCHANGED <<program, sent, tx, rx, upset, budget, stats, log, truth>>

DrainTimeout ==
    /\ Demo /\ pc = "draining" /\ Ending = {} /\ Hung /\ Flip
    /\ AbortAll
    /\ LET lost == Cardinality({c \in Channels : tx[c] = "busy"})
       IN  truth' = [truth EXCEPT !.hung = @ + lost, !.drained = @ + lost]
    /\ UNCHANGED <<program, sent, rx, upset, budget, stats, log>>

-----------------------------------------------------------------------------
(***************************************************************************)
(* The stress scenarios and the sweep's cells: counters reset, rounds, and *)
(* a result.  An odd cell has the short strips; the stagger is the build's.*)
(***************************************************************************)
FreshCounters == stats' = Every(NoStats)
FreshLog == log' = [timeouts |-> 0, result |-> NoResult]

RunStress ==
    /\ BeginRounds("stress", [unit |-> 1, count |-> N, left |-> Rounds, stagger |-> FALSE,
                              next |-> 0, victims |-> {}])
    /\ FreshCounters /\ FreshLog

RunSweep(stagger) ==
    /\ BeginRounds("sweep", [unit |-> 1, count |-> 1, left |-> Rounds, stagger |-> stagger,
                             next |-> 0, victims |-> {}])
    /\ FreshCounters /\ FreshLog

SoakAgain ==
    /\ Soaking /\ pc = "tail" /\ at.left > 1
    /\ at' = [at EXCEPT !.left = @ - 1] /\ pc' = "starting"
    /\ UNCHANGED <<program, sent, tx, rx, upset, budget, stats, log, truth>>

Total(counter) == SumFunction([c \in active |-> stats[c][counter]])
Least(a, b) == IF a <= b THEN a ELSE b

\* finish, and report_cell.
SoakResult ==
    /\ Soaking /\ pc = "tail"
    /\ log' = [log EXCEPT !.result =
           [said |-> "RESULT", frames |-> Total("frames"),
            complete |-> Total("frames") - Least(Total("trips"), Total("frames")),
            trips |-> Total("trips"), errors |-> Total("errors"), hangs |-> log.timeouts]]
    /\ pc' = "reported"
    /\ UNCHANGED <<program, at, sent, tx, rx, upset, budget, stats, truth>>

NextUnit(count, units) ==
    /\ Soaking /\ pc = "reported" /\ truth' = Nothing /\ FreshCounters /\ FreshLog
    /\ at' = [at EXCEPT !.unit = @ + 1, !.count = count, !.left = Rounds]
    /\ pc' = IF at.unit < units THEN "starting" ELSE "done"
    /\ UNCHANGED <<program, sent, tx, rx, upset, budget>>

NextScenario == program = "stress" /\ NextUnit(N, Len(SCENARIOS))
NextCell == program = "sweep" /\ NextUnit((at.unit % USABLE_CHANNELS) + 1, Cells)

\* Between the second scenario and the third the radio is brought up, or not.
RadioFails ==
    /\ program = "stress" /\ pc = "reported" /\ at.unit = 2
    /\ pc' = "halt"
    /\ UNCHANGED <<program, at, sent, tx, rx, upset, budget, stats, log, truth>>

SoaksNext ==
    \/ SoakStart \/ StaggeredStart \/ SoakSent \/ SoakHung
    \/ RunDemo \/ (\E due \in DueSets : FreeSweep(due)) \/ (\E c \in Channels : FreeEnd(c))
    \/ FreeWatch \/ DemoReport \/ DemoAgain \/ DemoTurn \/ Drained \/ DrainTimeout
    \/ RunStress \/ (\E stagger \in BOOLEAN : RunSweep(stagger))
    \/ SoakAgain \/ SoakResult \/ NextScenario \/ NextCell \/ RadioFails

=============================================================================
