----------------------------- MODULE RunnerLink -----------------------------
(***************************************************************************)
(* The host client (xt-runner-client, as xt-testkit drives it) over one    *)
(* serial port to a RunnerDevice.  A session is one Harness: it opens the  *)
(* port, repeats the Info handshake until the runner answers, and then     *)
(* sends payloads, one load_exec at a time, with seqs that start again in  *)
(* every session.  A seq here is [sess, n]; the wire carries n alone (and  *)
(* nothing with an Info), so the client compares only n and sess is        *)
(* history.  Nothing is discarded between two sessions: what the first has *)
(* not read is there for the second.                                       *)
(*                                                                         *)
(* Both transports are covered: over USB-CDC a reset drops the port, and   *)
(* the client's handle is dead until it reopens it; over a UART bridge the *)
(* port stays, and opening it may itself reset the board.                  *)
(***************************************************************************)
EXTENDS RunnerDevice

CONSTANTS MaxSessions,   \* bound: sessions
          MaxExecs,      \* bound: load_execs of session 1; a later one makes one fewer
          MaxTries,      \* handshake attempts before its 8 s are over
          MaxResets,     \* bound: resets nobody on the board asked for
          MaxLate,       \* bound: deadlines that pass with an answer still to come
          Kills          \* TRUE: the host process may be killed in mid-call

ASSUME BudgetAssumption == MaxResets \in Nat /\ MaxLate \in Nat

VARIABLES usb,        \* the transport: USB-CDC, not a UART bridge
          hpc,        \* where the client is
          sess, n,    \* session, and TestBoard.seq
          tries,      \* handshake attempts of this session
          greeted,    \* history: its handshake ended with the answer to an Info of its own
          dead,       \* the open handle is that of a dropped port
          got,        \* the outcome of the session's last load_exec
          budget      \* what is left of the bounds: [resets, late]

clientVars == <<hpc, sess, n, tries, greeted, got>>
linkVars == <<vars, usb, clientVars, dead, budget>>

HostPlaces == {"closed", "hello", "helloWait", "ready", "exec"}
Nothing == [out |-> "none", from |-> NoSeq, ask |-> NoRequest]

LinkInit ==
    /\ Init /\ usb \in BOOLEAN
    /\ hpc = "closed" /\ sess = 0 /\ n = 0 /\ tries = 0 /\ dead = FALSE
    /\ got = Nothing /\ greeted = FALSE
    /\ budget = [resets |-> MaxResets, late |-> MaxLate]

(* What a reset does to the port: a USB-CDC port goes away with every      *)
(* frame the host has not read.                                            *)
PortDrops ==
    /\ outbox' = IF usb THEN <<>> ELSE outbox
    /\ dead' = (dead \/ (usb /\ hpc # "closed"))

BoardStep ==
    \/ Firmware /\ UNCHANGED dead
    \/ (SoftwareReset \/ WatchdogFires) /\ PortDrops

Board == BoardStep /\ UNCHANGED <<usb, clientVars, budget>>

(* The reset button, a flashing tool, a brown-out.                         *)
OutsideReset ==
    /\ budget.resets > 0
    /\ budget' = [budget EXCEPT !.resets = @ - 1]
    /\ \E power, flash \in BOOLEAN : Reset(power, flash)
    /\ PortDrops
    /\ UNCHANGED <<usb, clientVars>>

(* A port nobody has open: what the board says may be lost.                *)
Unheard ==
    /\ hpc = "closed" /\ outbox # <<>>
    /\ outbox' = Tail(outbox)
    /\ UNCHANGED <<deviceVars, inbox, usb, clientVars, dead, budget>>

Seq_(k) == [sess |-> sess, n |-> k]

(***************************************************************************)
(* open_port discards nothing; over a UART bridge it may reset the board.  *)
(***************************************************************************)
OpenPort ==
    /\ dead' = FALSE
    /\ \/ UNCHANGED <<deviceVars, inbox, budget>>
       \/ /\ ~usb /\ budget.resets > 0
          /\ budget' = [budget EXCEPT !.resets = @ - 1]
          /\ \E power \in BOOLEAN : Reset(power, FALSE)
    /\ UNCHANGED <<outbox, usb>>

(***************************************************************************)
(* Runner::open_with_baud and the handshake of open_board.                 *)
(***************************************************************************)
Open ==
    /\ hpc = "closed" /\ sess < MaxSessions
    /\ OpenPort
    /\ hpc' = "hello" /\ sess' = sess + 1 /\ n' = 0 /\ tries' = 0
    /\ got' = Nothing /\ greeted' = FALSE

SendInfo ==
    /\ hpc = "hello" /\ tries < MaxTries /\ ~dead
    /\ hpc' = "helloWait" /\ tries' = tries + 1
    /\ inbox' = Append(inbox, Query(Seq_(0)))
    /\ UNCHANGED <<deviceVars, outbox, usb, sess, n, greeted, got, dead, budget>>

(* A frame that is not Info is an Unexpected error: the handshake tries    *)
(* again.  Any Info ends it, also the answer to an earlier session's.      *)
RecvInfo ==
    /\ hpc = "helloWait" /\ ~dead /\ outbox # <<>>
    /\ IF Head(outbox).kind = "Info" THEN hpc' = "ready" /\ tries' = 0
                                     ELSE hpc' = "hello" /\ UNCHANGED tries
    /\ greeted' = (Head(outbox).seq.sess = sess)
    /\ outbox' = Tail(outbox)
    /\ UNCHANGED <<deviceVars, inbox, usb, sess, n, got, dead, budget>>

InfoTimeout ==
    /\ hpc = "helloWait" /\ ~dead /\ outbox = <<>>
    /\ hpc' = "hello"
    /\ UNCHANGED <<vars, usb, sess, n, tries, greeted, got, dead, budget>>

(* The handshake never reopens: a dropped port lasts until its deadline.   *)
Unreachable ==
    /\ hpc \in {"hello", "helloWait"} /\ (dead \/ (hpc = "hello" /\ tries = MaxTries))
    /\ hpc' = "closed" /\ tries' = 0
    /\ UNCHANGED <<vars, usb, sess, n, greeted, got, dead, budget>>

(***************************************************************************)
(* Runner::load_exec: the request is sent once; every frame that is not an *)
(* answer with this seq is skipped; a dropped port is reopened; after 10 s *)
(* it gives up, which is longer than any payload, reset and boot take.     *)
(***************************************************************************)
SendExec ==
    /\ hpc = "ready" /\ ~dead /\ n + sess <= MaxExecs
    /\ hpc' = "exec" /\ n' = n + 1
    /\ \E f \in Fates :
          /\ inbox' = Append(inbox, LoadExec(Seq_(n'), f))
          /\ got' = [out |-> "none", from |-> NoSeq, ask |-> LoadExec(Seq_(n'), f)]
    /\ UNCHANGED <<deviceVars, outbox, usb, sess, tries, greeted, dead, budget>>

(* Mutant: the next answer is taken for this payload's.                    *)
Mine_AnySeq(r) == r.kind \in {"Ok", "Error", "Timeout", "Exception"}

Mine(r) == r.kind \in {"Ok", "Error", "Timeout", "Exception"} /\ r.seq.n = n

RecvExec ==
    /\ hpc = "exec" /\ ~dead /\ outbox # <<>>
    /\ outbox' = Tail(outbox)
    /\ IF Mine(Head(outbox))
       THEN /\ hpc' = "ready"
            /\ got' = [got EXCEPT !.out = Head(outbox).kind, !.from = Head(outbox).seq]
       ELSE UNCHANGED <<hpc, got>>
    /\ UNCHANGED <<deviceVars, inbox, usb, sess, n, tries, greeted, dead, budget>>

Reopen ==
    /\ hpc = "exec" /\ dead
    /\ OpenPort
    /\ UNCHANGED clientVars

(* Nothing is under way any more. *)
Settled == ~dead /\ pc = "idle" /\ outbox = <<>> /\ inbox \in {<<>>, <<Torn>>}

Deadline(out) ==
    /\ hpc = "exec"
    /\ hpc' \in {"ready", "closed"}
    /\ got' = [got EXCEPT !.out = out]
    /\ UNCHANGED <<vars, usb, sess, n, tries, greeted, dead>>

ExecTimeout == Settled /\ Deadline("nothing") /\ UNCHANGED budget

ExecLate ==
    /\ budget.late > 0 /\ ~Settled
    /\ Deadline("late")
    /\ budget' = [budget EXCEPT !.late = @ - 1]

(* A session ends: its calls are made, a send on a dead handle fails, or   *)
(* the process is killed - in the middle of a write, it may be.            *)
Close ==
    /\ hpc = "ready"
    /\ hpc' = "closed"
    /\ UNCHANGED <<vars, usb, sess, n, tries, greeted, got, dead, budget>>

Kill ==
    /\ Kills /\ hpc # "closed"
    /\ hpc' = "closed" /\ tries' = 0
    /\ inbox' \in {inbox, IF dead THEN inbox ELSE Append(inbox, Torn)}
    /\ UNCHANGED <<deviceVars, outbox, usb, sess, n, greeted, got, dead, budget>>

Client ==
    \/ Open \/ SendInfo \/ RecvInfo \/ InfoTimeout \/ Unreachable
    \/ SendExec \/ RecvExec \/ Reopen \/ ExecTimeout \/ ExecLate \/ Close \/ Kill

LinkNext == Board \/ OutsideReset \/ Unheard \/ Client

(***************************************************************************)
(* The board's processor runs and its watchdog counts; a client that is in *)
(* load_exec goes on reading, reopening and watching its deadline.         *)
(***************************************************************************)
LinkFairness ==
    /\ WF_linkVars(Board)
    /\ WF_linkVars(RecvExec \/ Reopen \/ ExecTimeout)

LinkSpec == LinkInit /\ [][LinkNext]_linkVars /\ LinkFairness

-----------------------------------------------------------------------------

(***************************************************************************)
(* What load_exec returns is the outcome of the very payload it sent, also *)
(* when an earlier session used the same seq, provided the answer to one   *)
(* of its own Infos ended the session's handshake: what an earlier session *)
(* still had coming is then behind it.  And whatever is said under the     *)
(* payload's seq is true of it: Ok only if it returned, Exception only if  *)
(* it faulted, Timeout only if it ran over the watchdog's window or        *)
(* somebody else reset the board.                                          *)
(***************************************************************************)
MayEnd(f) == CASE f \in {"returns"} -> {"Ok"}
               [] f = "slow" -> {"Ok", "Timeout"}
               [] f = "hangs" -> {"Timeout"}
               [] f = "faults" -> {"Exception"}
               [] f = "tooBig" -> {"Error"}
               [] f = "panics" -> {}

OutcomeTruth ==
    got.out \notin {"none", "nothing", "late"} =>
        /\ greeted => got.from = got.ask.seq
        /\ got.from = got.ask.seq =>
              \/ got.out \in MayEnd(got.ask.fate)
              \/ got.out = "Timeout" /\ budget.resets < MaxResets

(* The deadline of load_exec passes with nothing said about the payload    *)
(* only if the runner itself panicked, somebody else reset the board, an   *)
(* earlier deadline had already cut off an answer, or the session never    *)
(* had an answer to an Info of its own.                                    *)
Undisturbed == budget = [resets |-> MaxResets, late |-> MaxLate]

NoAnswerLost ==
    got.out = "nothing" /\ Undisturbed /\ greeted => got.ask.fate = "panics"

(* Whatever the payload does, load_exec ends without its deadline cutting  *)
(* off an answer: the board answers, or comes back from its reset.         *)
Answered == hpc = "exec" ~> hpc # "exec"

=============================================================================
