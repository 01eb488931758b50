---------------------------- MODULE RunnerDevice ----------------------------
(***************************************************************************)
(* The resident payload runner of one board: xt-runner-core's Ledger (the  *)
(* cells in RTC RAM, which a reset keeps) and Runner (announce, dispatch,  *)
(* the payload flow), with the panic handler and the watchdog of the       *)
(* firmware crates.  pc is the next store or call of the firmware, so that *)
(* a reset can fall between any two of them.                               *)
(*                                                                         *)
(* A request is what its handling depends on: "LoadExec" with the fate of  *)
(* its payload, or "Query" (Ping and Info: answered at once, no state; its *)
(* seq is history, the wire has none).                                     *)
(* "Torn" is a frame cut off before its delimiter.  Bytes, COBS and the    *)
(* three words of an exception are left out; a panic handler that reads    *)
(* EXCCAUSE stores a value <= 63, so a CRASHED ledger reads as Exception.  *)
(***************************************************************************)
EXTENDS Naturals, Sequences

CONSTANTS Seqs,        \* sequence numbers of requests (caller-chosen)
          Fates,       \* what payloads do, a subset of AllFates
          NoSeq        \* the zeroed SEQ cell

AllFates == {"returns", "slow", "hangs", "faults", "tooBig", "panics"}

ASSUME SeqAssumption == NoSeq \notin Seqs
ASSUME FateAssumption == Fates \subseteq AllFates

LoadExec(s, f) == [kind |-> "LoadExec", seq |-> s, fate |-> f]
Query(s) == [kind |-> "Query", seq |-> s, fate |-> "returns"]
Torn == [kind |-> "Torn", seq |-> NoSeq, fate |-> "returns"]
NoRequest == [kind |-> "None", seq |-> NoSeq, fate |-> "returns"]

Reply(k, s) == [kind |-> k, seq |-> s]
NoReport == Reply("None", NoSeq)

VARIABLES ledger,    \* the RTC cells: the build they belong to, STATE, SEQ
          build,     \* the build id of the flashed firmware
          pc,        \* the next step of the firmware
          req,       \* the request being handled
          pending,   \* Runner.pending_crash
          wdt,       \* the RWDT counts
          inbox,     \* frames on their way to the board
          outbox,    \* frames on their way to the host
          cut        \* history: where the run that the last reset ended was

deviceVars == <<ledger, build, pc, req, pending, wdt, cut>>
vars == <<deviceVars, inbox, outbox>>

(* From the store of RUNNING to the store of IDLE. *)
Blamed == {"armWdt", "call", "disarmWdt", "disarm", "blame"}
(* The reset handler's own steps before STATE is read and cleared. *)
Booting == {"stamp", "clear", "swap"}
Places == Blamed \cup Booting
            \cup {"announce", "idle", "armSeq", "armState", "drain", "reply"}

Blank == [build |-> 0, state |-> "IDLE", seq |-> NoSeq]
Uncut == [ran |-> FALSE, faulted |-> FALSE, seq |-> NoSeq,
          wiped |-> TRUE, flashed |-> TRUE, torn |-> FALSE]

Init ==
    /\ ledger = Blank /\ build = 1 /\ pc = "stamp" /\ wdt = FALSE
    /\ req = NoRequest /\ pending = NoReport
    /\ inbox = <<>> /\ outbox = <<>> /\ cut = Uncut

Goto(from, to) == pc = from /\ pc' = to
Say(r) == outbox' = Append(outbox, r)

(***************************************************************************)
(* Ledger::boot, store by store, then the announcement of Runner::run.     *)
(***************************************************************************)
Stamp ==
    /\ pc = "stamp"
    /\ pc' = IF ledger.build = build THEN "swap" ELSE "clear"
    /\ ledger' = [ledger EXCEPT !.build = build]
    /\ UNCHANGED <<build, req, pending, wdt, inbox, outbox, cut>>

(* Mutant: the ledger of a new build keeps STATE.                          *)
Clear_KeepsState ==
    /\ Goto("clear", "swap")
    /\ UNCHANGED <<ledger, build, req, pending, wdt, inbox, outbox, cut>>

Clear ==
    /\ Goto("clear", "swap")
    /\ ledger' = [ledger EXCEPT !.state = "IDLE"]
    /\ UNCHANGED <<build, req, pending, wdt, inbox, outbox, cut>>

ReportOf(l) == CASE l.state = "RUNNING" -> Reply("Timeout", l.seq)
                 [] l.state = "CRASHED" -> Reply("Exception", l.seq)
                 [] OTHER -> NoReport

(* Mutant: boot reads STATE and leaves it.                                 *)
AfterSwap_Read(l) == l

AfterSwap(l) == [l EXCEPT !.state = "IDLE"]

Swap ==
    /\ Goto("swap", "announce")
    /\ pending' = ReportOf(ledger)
    /\ ledger' = AfterSwap(ledger)
    /\ UNCHANGED <<build, req, wdt, inbox, outbox, cut>>

Announce ==
    /\ Goto("announce", "idle")
    /\ IF pending = NoReport THEN UNCHANGED outbox ELSE Say(pending)
    /\ pending' = NoReport
    /\ UNCHANGED <<ledger, build, req, wdt, inbox, cut>>

(***************************************************************************)
(* Runner::run and handle_frame.  A torn frame and the frame after it are  *)
(* one undecodable frame.  CodeMem::load is the first thing that may fail: *)
(* with TooLarge, or with a Rust panic (the S3 allocates).                 *)
(***************************************************************************)
Undecodable ==
    /\ pc = "idle" /\ Len(inbox) >= 2 /\ Head(inbox) = Torn
    /\ inbox' = Tail(Tail(inbox))
    /\ UNCHANGED <<deviceVars, outbox>>

Query_ ==
    /\ pc = "idle" /\ inbox # <<>> /\ Head(inbox).kind = "Query"
    /\ inbox' = Tail(inbox)
    /\ Say(Reply("Info", Head(inbox).seq))
    /\ UNCHANGED deviceVars

Load ==
    /\ pc = "idle" /\ inbox # <<>> /\ Head(inbox).kind = "LoadExec"
    /\ inbox' = Tail(inbox)
    /\ req' = Head(inbox)
    /\ pc' = CASE Head(inbox).fate = "tooBig" -> "reply"
               [] Head(inbox).fate = "panics" -> "blame"
               [] OTHER -> "armSeq"
    /\ UNCHANGED <<ledger, build, pending, wdt, outbox, cut>>

(***************************************************************************)
(* run_payload: Ledger::arm is two stores, then the watchdog, the call.    *)
(***************************************************************************)
ArmSeq ==
    /\ Goto("armSeq", "armState")
    /\ ledger' = [ledger EXCEPT !.seq = req.seq]
    /\ UNCHANGED <<build, req, pending, wdt, inbox, outbox, cut>>

ArmState ==
    /\ Goto("armState", "armWdt")
    /\ ledger' = [ledger EXCEPT !.state = "RUNNING"]
    /\ UNCHANGED <<build, req, pending, wdt, inbox, outbox, cut>>

(* Mutant: the watchdog is configured and never enabled.                   *)
ArmWdt_Never ==
    /\ Goto("armWdt", "call")
    /\ UNCHANGED <<ledger, build, req, pending, wdt, inbox, outbox, cut>>

ArmWdt ==
    /\ Goto("armWdt", "call")
    /\ wdt' = TRUE
    /\ UNCHANGED <<ledger, build, req, pending, inbox, outbox, cut>>

Return ==
    /\ Goto("call", "disarmWdt")
    /\ req.fate \in {"returns", "slow"}
    /\ UNCHANGED <<ledger, build, req, pending, wdt, inbox, outbox, cut>>

(* Mutant: the ledger is disarmed with the watchdog still counting.        *)
DisarmWdt_Never ==
    /\ Goto("disarmWdt", "disarm")
    /\ UNCHANGED <<ledger, build, req, pending, wdt, inbox, outbox, cut>>

DisarmWdt ==
    /\ Goto("disarmWdt", "disarm")
    /\ wdt' = FALSE
    /\ UNCHANGED <<ledger, build, req, pending, inbox, outbox, cut>>

Disarm ==
    /\ Goto("disarm", "reply")
    /\ ledger' = [ledger EXCEPT !.state = "IDLE"]
    /\ UNCHANGED <<build, req, pending, wdt, inbox, outbox, cut>>

Answer ==
    /\ Goto("reply", "idle")
    /\ Say(Reply(IF req.fate = "tooBig" THEN "Error" ELSE "Ok", req.seq))
    /\ req' = NoRequest
    /\ UNCHANGED <<ledger, build, pending, wdt, inbox, cut>>

(***************************************************************************)
(* The panic handler: record_crash stores the fault, then moves STATE from *)
(* RUNNING, and only from RUNNING, to CRASHED; then the TX FIFO drains.    *)
(***************************************************************************)
Fault ==
    /\ Goto("call", "blame")
    /\ req.fate = "faults"
    /\ UNCHANGED <<ledger, build, req, pending, wdt, inbox, outbox, cut>>

Blame ==
    /\ Goto("blame", "drain")
    /\ ledger' = IF ledger.state = "RUNNING" THEN [ledger EXCEPT !.state = "CRASHED"]
                                             ELSE ledger
    /\ UNCHANGED <<build, req, pending, wdt, inbox, outbox, cut>>

(***************************************************************************)
(* Resets.  RAM is lost, the RTC cells are kept unless the power went; of  *)
(* the frames on their way to the board some of the oldest are lost.       *)
(***************************************************************************)
Executing == pc \in Blamed /\ req.fate # "panics"
Faulted == pc = "drain" /\ req.fate = "faults"

CutHere(power, flash) ==
    IF pc \in Booting
    THEN [cut EXCEPT !.wiped = @ \/ power, !.flashed = @ \/ flash,
                     !.torn = @ \/ pc = "clear"]
    ELSE [ran |-> Executing, faulted |-> Faulted, seq |-> req.seq,
          wiped |-> power, flashed |-> flash, torn |-> FALSE]

Reset(power, flash) ==
    /\ pc' = "stamp"
    /\ ledger' = IF power THEN Blank ELSE ledger
    /\ build' = IF flash THEN build + 1 ELSE build
    /\ req' = NoRequest /\ pending' = NoReport /\ wdt' = FALSE
    /\ \E k \in 1 .. Len(inbox) + 1 : inbox' = SubSeq(inbox, k, Len(inbox))
    /\ cut' = CutHere(power, flash)

SoftwareReset == pc = "drain" /\ Reset(FALSE, FALSE)

(* PAYLOAD_WATCHDOG_MS: only a payload that takes that long sees it fire,  *)
(* or one that left the watchdog counting when it faulted.                 *)
Expired == \/ pc = "call" /\ req.fate \in {"hangs", "slow"}
           \/ pc \in {"disarmWdt", "disarm", "reply"} /\ req.fate = "slow"
           \/ pc = "drain" /\ req.fate = "faults"

WatchdogFires == wdt /\ Expired /\ Reset(FALSE, FALSE)

Firmware ==
    \/ Stamp \/ Clear \/ Swap \/ Announce
    \/ Undecodable \/ Query_ \/ Load
    \/ ArmSeq \/ ArmState \/ ArmWdt \/ Return \/ DisarmWdt \/ Disarm \/ Answer
    \/ Fault \/ Blame

-----------------------------------------------------------------------------

(***************************************************************************)
(* What the announcement says is what happened to the payload that the     *)
(* reset ended: its own seq, Exception exactly when its fault had been     *)
(* recorded, Timeout exactly when it was cut off between the stores of     *)
(* RUNNING and IDLE, nothing when none was running - and, unless the cells *)
(* were wiped or another build was flashed, it is said (Ledger).           *)
(***************************************************************************)
Deserved == IF cut.faulted THEN Reply("Exception", cut.seq)
            ELSE IF cut.ran THEN Reply("Timeout", cut.seq)
            ELSE NoReport

ReportTruth ==
    pc = "announce" =>
        \/ pending = Deserved
        \/ pending = NoReport /\ (cut.wiped \/ cut.flashed)

(* A freshly flashed firmware does not report a payload of the firmware    *)
(* before it (Ledger::boot, the build-id), but for a reset between the     *)
(* store of the build-id and the store of IDLE.                            *)
NoForeignReport ==
    pc = "announce" /\ cut.flashed /\ ~cut.torn => pending = NoReport

=============================================================================
