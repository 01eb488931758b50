---------------------------- MODULE RunnerProofs ----------------------------
(***************************************************************************)
(* Proofs about the crash ledger and about what load_exec returns, for     *)
(* every number of sessions, payloads, resets and late deadlines, and both *)
(* transports.  The ledger: outside the boot, STATE and SEQ are a function *)
(* of where the firmware is (CellsFollow); a reset freezes them, so that   *)
(* while the board boots they say what the run that it ended deserves      *)
(* (BootTells), until another build's boot clears them.  The outcome: the  *)
(* wire is a queue, so a session that has the answer to an Info of its own *)
(* (greeted) has outlived the payloads of the sessions before it           *)
(* (WireOrder, SeqsOwn), and what comes under the seq of its last payload  *)
(* is about that payload (Fits); while nobody disturbs the board, that     *)
(* payload is at one place at a time (Followed), which no step leaves      *)
(* without an answer.                                                      *)
(***************************************************************************)
EXTENDS RunnerLink, TLAPS

CutOK == cut = [ran |-> cut.ran, faulted |-> cut.faulted, seq |-> cut.seq,
                wiped |-> cut.wiped, flashed |-> cut.flashed, torn |-> cut.torn]

BuildsOK ==
    /\ build \in Nat /\ ledger.build \in Nat
    /\ ledger.build <= build
    /\ pc # "stamp" => ledger.build = build

FateOK ==
    /\ pc \in {"armSeq", "armState", "armWdt", "call", "disarmWdt", "disarm"} =>
          req.fate # "panics"
    /\ pc \in {"blame", "drain"} => req.fate \in {"panics", "faults"}

CellsFollow ==
    /\ pc \in {"announce", "idle", "armSeq", "armState", "reply"} => ledger.state = "IDLE"
    /\ pc \in {"armWdt", "call", "disarmWdt", "disarm"} => ledger.state = "RUNNING"
    /\ pc \in {"blame", "drain"} /\ req.fate = "panics" => ledger.state = "IDLE"
    /\ pc = "blame" /\ req.fate = "faults" => ledger.state = "RUNNING"
    /\ pc = "drain" /\ req.fate = "faults" => ledger.state = "CRASHED"
    /\ pc \in {"armState", "armWdt", "call", "disarmWdt", "disarm", "blame", "drain"}
          /\ req.fate # "panics" => ledger.seq = req.seq

BootTells ==
    /\ pc \in Booting =>
          \/ ReportOf(ledger) = Deserved
          \/ ReportOf(ledger) = NoReport /\ (cut.wiped \/ cut.flashed)
    /\ pc = "stamp" /\ ledger.build # build => cut.wiped \/ cut.flashed
    /\ pc = "clear" => cut.wiped \/ cut.flashed

BootForgets ==
    /\ pc = "stamp" /\ cut.flashed /\ ~cut.torn =>
          ledger.build # build \/ ReportOf(ledger) = NoReport
    /\ pc = "swap" /\ cut.flashed /\ ~cut.torn => ReportOf(ledger) = NoReport

LedgerShape == ledger = [build |-> ledger.build, state |-> ledger.state, seq |-> ledger.seq]

LedgerInv ==
    /\ pc \in Places /\ LedgerShape /\ CutOK
    /\ BuildsOK /\ FateOK /\ CellsFollow /\ BootTells /\ BootForgets
    /\ ReportTruth /\ NoForeignReport

LEMMA InitLedger == LinkInit => LedgerInv
BY DEF LinkInit, Init, LedgerInv, Places, LedgerShape, CutOK, BuildsOK, FateOK, CellsFollow,
       BootTells, BootForgets, ReportTruth, NoForeignReport, Blank, Uncut, Booting, Blamed,
       ReportOf, Deserved, NoReport, Reply

(* What a reset writes down of the run it ends, field by field.            *)
LEMMA CutEarly ==
    ASSUME CutOK, NEW power \in BOOLEAN, NEW flash \in BOOLEAN, pc \in Booting,
           cut' = CutHere(power, flash)
    PROVE  /\ CutOK' /\ Deserved' = Deserved
           /\ cut'.wiped <=> (cut.wiped \/ power)
           /\ cut'.flashed <=> (cut.flashed \/ flash)
           /\ cut'.torn <=> (cut.torn \/ pc = "clear")
BY DEF CutOK, CutHere, Deserved

LEMMA CutLate ==
    ASSUME NEW power \in BOOLEAN, NEW flash \in BOOLEAN, pc \notin Booting,
           cut' = CutHere(power, flash)
    PROVE  /\ CutOK'
           /\ Deserved' = IF Faulted THEN Reply("Exception", req.seq)
                          ELSE IF Executing THEN Reply("Timeout", req.seq) ELSE NoReport
           /\ (cut'.wiped <=> power) /\ (cut'.flashed <=> flash) /\ ~cut'.torn
<1>1. cut' = [ran |-> Executing, faulted |-> Faulted, seq |-> req.seq,
              wiped |-> power, flashed |-> flash, torn |-> FALSE]
  BY DEF CutHere
<1>2. CutOK' /\ (cut'.wiped <=> power) /\ (cut'.flashed <=> flash) /\ ~cut'.torn
  BY <1>1 DEF CutOK
<1>3. (cut'.faulted <=> Faulted) /\ (cut'.ran <=> Executing) /\ cut'.seq = req.seq
  BY <1>1
<1>4. Deserved' = IF Faulted THEN Reply("Exception", req.seq)
                  ELSE IF Executing THEN Reply("Timeout", req.seq) ELSE NoReport
  <2>1. CASE Faulted
    <3>1. ~Executing
      BY <2>1 DEF Faulted, Executing, Blamed
    <3> QED BY <1>3, <2>1, <3>1 DEF Deserved
  <2>2. CASE ~Faulted /\ Executing
    BY <1>3, <2>2 DEF Deserved
  <2>3. CASE ~Faulted /\ ~Executing
    BY <1>3, <2>3 DEF Deserved
  <2> QED BY <2>1, <2>2, <2>3
<1> QED BY <1>2, <1>4

LEMMA ResetLedger ==
    ASSUME LedgerInv, NEW power \in BOOLEAN, NEW flash \in BOOLEAN, Reset(power, flash)
    PROVE  LedgerInv'
<1> USE DEF LedgerInv
<1>c. cut' = CutHere(power, flash)
  BY DEF Reset
<1>1. (pc \in Places /\ LedgerShape)'
  BY DEF Reset, Places, LedgerShape, Blank, Booting
<1>2. (BuildsOK /\ FateOK /\ CellsFollow)'
  BY DEF Reset, BuildsOK, FateOK, CellsFollow, Blank
<1>3. CutOK' /\ BootTells' /\ BootForgets'
  <2>1. CASE power
    <3>1. ReportOf(ledger)' = NoReport /\ pc' = "stamp"
      BY <2>1 DEF Reset, Blank, ReportOf
    <3>2. CutOK' /\ cut'.wiped
      BY <1>c, <2>1, CutEarly, CutLate
    <3> QED BY <3>1, <3>2 DEF BootTells, BootForgets
  <2>2. CASE ~power /\ pc \in Booting
    <3>1. pc' = "stamp" /\ ledger' = ledger /\ build' = IF flash THEN build + 1 ELSE build
      BY <2>2 DEF Reset
    <3>2. ReportOf(ledger)' = ReportOf(ledger)
      BY <3>1 DEF ReportOf
    <3>3. /\ CutOK' /\ Deserved' = Deserved
          /\ cut'.wiped <=> cut.wiped
          /\ cut'.flashed <=> (cut.flashed \/ flash)
          /\ cut'.torn <=> (cut.torn \/ pc = "clear")
      BY <1>c, <2>2, CutEarly
    <3>4. BootTells'
      BY <2>2, <3>1, <3>2, <3>3 DEF BootTells, BuildsOK, Booting
    <3>5. BootForgets'
      BY <2>2, <3>1, <3>2, <3>3 DEF BootForgets, BuildsOK, Booting
    <3> QED BY <3>3, <3>4, <3>5
  <2>3. CASE ~power /\ pc \notin Booting
    <3>1. pc' = "stamp" /\ ledger' = ledger /\ build' = IF flash THEN build + 1 ELSE build
      BY <2>3 DEF Reset
    <3>2. ReportOf(ledger)' = ReportOf(ledger)
      BY <3>1 DEF ReportOf
    <3>3. /\ CutOK'
          /\ Deserved' = IF Faulted THEN Reply("Exception", req.seq)
                         ELSE IF Executing THEN Reply("Timeout", req.seq) ELSE NoReport
          /\ (cut'.flashed <=> flash) /\ ~cut'.torn
      BY <1>c, <2>3, CutLate
    <3>4. ReportOf(ledger) = IF Faulted THEN Reply("Exception", req.seq)
                             ELSE IF Executing THEN Reply("Timeout", req.seq) ELSE NoReport
      BY <2>3 DEF CellsFollow, FateOK, ReportOf, Faulted, Executing, Blamed, Booting, Places
    <3>5. BootTells'
      BY <2>3, <3>1, <3>2, <3>3, <3>4 DEF BootTells, BuildsOK, Booting
    <3>6. BootForgets'
      BY <2>3, <3>1, <3>3 DEF BootForgets, BuildsOK, Booting
    <3> QED BY <3>3, <3>5, <3>6
  <2> QED BY <2>1, <2>2, <2>3
<1>5. (ReportTruth /\ NoForeignReport)'
  BY DEF Reset, ReportTruth, NoForeignReport
<1> QED BY <1>1, <1>2, <1>3, <1>5

(* Every step of the firmware keeps the invariant.                         *)
LEMMA FirmwareLedger ==
    ASSUME LedgerInv, Firmware
    PROVE  LedgerInv'
<1> USE DEF LedgerInv, LedgerShape, CutOK, BuildsOK, FateOK, CellsFollow, BootTells,
            BootForgets, ReportTruth, NoForeignReport, Goto, Places, Booting, Blamed
<1>1. CASE Stamp
  BY <1>1 DEF Stamp, ReportOf, Deserved
<1>2. CASE Clear
  BY <1>2 DEF Clear, ReportOf, Deserved
<1>3. CASE Swap
  BY <1>3 DEF Swap, AfterSwap, ReportOf, Deserved
<1>4. CASE Announce
  BY <1>4 DEF Announce
<1>5. CASE Undecodable
  BY <1>5 DEF Undecodable, deviceVars
<1>6. CASE Query_
  BY <1>6 DEF Query_, deviceVars
<1>7. CASE Load
  BY <1>7 DEF Load
<1>8. CASE ArmSeq
  BY <1>8 DEF ArmSeq
<1>9. CASE ArmState
  BY <1>9 DEF ArmState
<1>10. CASE ArmWdt
  BY <1>10 DEF ArmWdt
<1>11. CASE Return
  BY <1>11 DEF Return
<1>12. CASE DisarmWdt
  BY <1>12 DEF DisarmWdt
<1>13. CASE Disarm
  BY <1>13 DEF Disarm
<1>14. CASE Answer
  BY <1>14 DEF Answer
<1>15. CASE Fault
  BY <1>15 DEF Fault
<1>16. CASE Blame
  BY <1>16 DEF Blame
<1> QED BY <1>1, <1>2, <1>3, <1>4, <1>5, <1>6, <1>7, <1>8, <1>9, <1>10, <1>11, <1>12,
           <1>13, <1>14, <1>15, <1>16 DEF Firmware

(* What the client does leaves the board alone, but for the reset that     *)
(* opening a UART bridge may cause.                                        *)
LEMMA ClientLedger ==
    ASSUME LedgerInv, Client
    PROVE  LedgerInv'
<1>1. UNCHANGED deviceVars \/ (\E power \in BOOLEAN : Reset(power, FALSE))
  BY DEF Client, Open, OpenPort, SendInfo, RecvInfo, InfoTimeout, Unreachable, SendExec,
         RecvExec, Reopen, ExecTimeout, ExecLate, Deadline, Close, Kill, vars
<1>2. CASE UNCHANGED deviceVars
  BY <1>2 DEF deviceVars, LedgerInv, LedgerShape, CutOK, BuildsOK, FateOK, CellsFollow,
              BootTells, BootForgets, ReportTruth, NoForeignReport, Deserved
<1>3. CASE \E power \in BOOLEAN : Reset(power, FALSE)
  BY <1>3, ResetLedger
<1> QED BY <1>1, <1>2, <1>3

LEMMA NextLedger == LedgerInv /\ [LinkNext]_linkVars => LedgerInv'
<1> SUFFICES ASSUME LedgerInv, [LinkNext]_linkVars PROVE LedgerInv'
  OBVIOUS
<1>1. CASE Board
  <2>1. CASE Firmware
    BY <2>1, FirmwareLedger
  <2>2. CASE SoftwareReset \/ WatchdogFires
    <3>1. Reset(FALSE, FALSE)
      BY <2>2 DEF SoftwareReset, WatchdogFires
    <3> QED BY <3>1, ResetLedger
  <2> QED BY <1>1, <2>1, <2>2 DEF Board, BoardStep
<1>2. CASE OutsideReset
  BY <1>2, ResetLedger DEF OutsideReset
<1>3. CASE Client
  BY <1>3, ClientLedger
<1>4. CASE Unheard \/ UNCHANGED linkVars
  BY <1>4 DEF Unheard, linkVars, vars, deviceVars, LedgerInv, LedgerShape, CutOK, BuildsOK,
              FateOK, CellsFollow, BootTells, BootForgets, ReportTruth, NoForeignReport, Deserved
<1> QED BY <1>1, <1>2, <1>3, <1>4 DEF LinkNext

LEMMA LedgerAlways == LinkSpec => []LedgerInv
BY InitLedger, NextLedger, PTL DEF LinkSpec

(***************************************************************************)
(* Whatever the payloads, the resets and the host do, the crash report a   *)
(* board announces is the one the interrupted payload deserves: its own    *)
(* seq and its own fate, or nothing (Ledger::boot, arm, disarm and         *)
(* record_crash).                                                          *)
(***************************************************************************)
THEOREM ReportsAreTrue == LinkSpec => []ReportTruth
<1>1. LedgerInv => ReportTruth
  BY DEF LedgerInv
<1> QED BY <1>1, LedgerAlways, PTL

(* A newly flashed build never announces a payload of an older one, save   *)
(* for a reset in the middle of its first boot (the build-id).             *)
THEOREM ReportsAreOwn == LinkSpec => []NoForeignReport
<1>1. LedgerInv => NoForeignReport
  BY DEF LedgerInv
<1> QED BY <1>1, LedgerAlways, PTL

-----------------------------------------------------------------------------
(***************************************************************************)
(* What load_exec returns.  The messages, and the seqs a session may meet. *)
(***************************************************************************)
AllSeqs == [sess : Nat, n : Nat]
Execs == [kind : {"LoadExec"}, seq : AllSeqs, fate : Fates]
Said == {"Ok", "Error", "Timeout", "Exception"}
Answers == [kind : Said, seq : AllSeqs]
Queries == [kind : {"Query"}, seq : AllSeqs, fate : {"returns"}]
Infos == [kind : {"Info"}, seq : AllSeqs]

Exec(m) == m.kind = "LoadExec"
Asks(m) == m.kind = "Query"
IsInfo(r) == r.kind = "Info"
(* Of the handshake of session e. *)
Hails(m, e) == m.kind \in {"Query", "Info"} /\ m.seq.sess = e

Handling == Places \ (Booting \cup {"announce", "idle"})

Msgs == {Torn} \cup Queries \cup Execs
Replies == Infos \cup Answers

BoardTypes ==
    /\ inbox \in Seq(Msgs) /\ outbox \in Seq(Replies)
    /\ pc \in Handling => req \in Execs
    /\ ledger.state \in {"IDLE", "RUNNING", "CRASHED"}
    /\ pc \in Booting /\ ledger.state # "IDLE" => ledger.seq \in AllSeqs
    /\ pc = "announce" => pending \in {NoReport} \cup Answers

ClientTypes ==
    /\ sess \in Nat /\ n \in Nat /\ hpc \in HostPlaces /\ (dead => usb)
    /\ budget = [resets |-> budget.resets, late |-> budget.late]
    /\ budget.resets \in 0 .. MaxResets /\ budget.late \in 0 .. MaxLate

(* The payload whose outcome the board still has to announce or answer.    *)
Owed ==
    CASE pc \in Booting -> IF ledger.state = "IDLE" THEN {} ELSE {ledger.seq}
      [] pc = "announce" -> IF pending = NoReport THEN {} ELSE {pending.seq}
      [] pc = "idle" -> {}
      [] OTHER -> {req.seq}

Asked(s) == {s[i].seq : i \in {j \in 1 .. Len(s) : Exec(s[j])}}
Told(s) == {s[i].seq : i \in {j \in 1 .. Len(s) : ~IsInfo(s[j])}}
Under == Asked(inbox) \cup Owed \cup Told(outbox)

(* Every seq under way was given out, and a session whose handshake ended  *)
(* with the answer to an Info of its own meets its own only.               *)
Known(q) == q \in AllSeqs /\ (q.sess < sess \/ (q.sess = sess /\ q.n <= n))
SeqsKnown == \A q \in Under : Known(q)
SeqsOwn == hpc \in {"ready", "exec"} /\ greeted => \A q \in Under : q.sess = sess

(* The order in which the wire holds payloads and the handshake of e.      *)
ExecsFirst(s, e) == \A i, j \in 1 .. Len(s) : i < j /\ Hails(s[i], e) => ~Exec(s[j])
NoExec(s) == \A i \in 1 .. Len(s) : ~Exec(s[i])
Unhailed(s, e) == \A i \in 1 .. Len(s) : ~Hails(s[i], e)
Untorn(s) == \A i \in 1 .. Len(s) - 1 : s[i] = Torn => ~Exec(s[i + 1])

(* While a session shakes hands, the payloads of those before it are ahead *)
(* of the first Info that answers one of its own.                          *)
Handshake ==
    /\ ExecsFirst(inbox, sess)
    /\ \A i \in 1 .. Len(outbox) : Hails(outbox[i], sess) =>
          /\ NoExec(inbox) /\ Owed = {}
          /\ \A j \in i .. Len(outbox) : IsInfo(outbox[j])
          /\ Undisturbed => pc = "idle"

(* Nothing of a session to come is on its way.                             *)
Foretold == \A e \in Nat : e > sess => Unhailed(inbox, e) /\ Unhailed(outbox, e)

WireOrder == Foretold /\ (hpc \in {"hello", "helloWait"} => Handshake)

(* A torn frame never spoils a payload: the handshake comes between.       *)
WireTorn ==
    /\ Untorn(inbox)
    /\ hpc \in {"helloWait", "ready", "exec"} /\ inbox # <<>> => inbox[Len(inbox)] # Torn

(* What may be said of the session's last payload.                         *)
Fitting == MayEnd(got.ask.fate) \cup {k \in {"Timeout"} : budget.resets < MaxResets}

LastAsked ==
    /\ got.ask = NoRequest \/ (got.ask = LoadExec(Seq_(n), got.ask.fate) /\ got.ask.fate \in Fates)
    /\ got = [out |-> got.out, from |-> got.from, ask |-> got.ask]
    /\ hpc = "exec" => got.ask # NoRequest
    /\ hpc \in {"hello", "helloWait", "exec"} => got.out = "none"
    /\ n = 0 => got.ask = NoRequest

(* Every message about it is its own, or a report that fits.               *)
Own(m) == m.seq = Seq_(n)
Fits ==
    /\ \A i \in 1 .. Len(inbox) : Exec(inbox[i]) /\ Own(inbox[i]) => inbox[i] = got.ask
    /\ pc \in Handling /\ Own(req) => req = got.ask
    /\ pc \in Booting /\ ledger.state # "IDLE" /\ Own(ledger) => ReportOf(ledger).kind \in Fitting
    /\ pc = "announce" /\ pending # NoReport /\ Own(pending) => pending.kind \in Fitting
    /\ \A i \in 1 .. Len(outbox) :
          ~IsInfo(outbox[i]) /\ Own(outbox[i]) => outbox[i].kind \in Fitting

(* Only what returned, or was refused, is answered with Ok or Error. *)
Ran ==
    /\ pc \in {"disarmWdt", "disarm"} => req.fate \in {"returns", "slow"}
    /\ pc = "reply" => req.fate \in {"returns", "slow", "tooBig"}

OutcomeInv ==
    /\ BoardTypes /\ ClientTypes /\ SeqsKnown /\ SeqsOwn /\ WireOrder
    /\ LastAsked /\ Ran /\ Fits /\ OutcomeTruth

(* The board has nothing to do but answer Info. *)
Quiet == pc = "idle" /\ NoExec(inbox)

WdtOff == pc \in Places \ {"call", "disarmWdt", "blame", "drain"} => ~wdt

(* Where the payload that load_exec waits for may be.                      *)
Queued ==
    /\ inbox # <<>> /\ inbox[Len(inbox)] = got.ask
    /\ \A i \in 1 .. Len(inbox) - 1 : ~Exec(inbox[i])
Recorded == pc \in {"stamp", "swap"} /\ ledger.build = build /\ ledger.state # "IDLE" /\ Own(ledger)
Reported == pc = "announce" /\ pending # NoReport /\ Own(pending)
Answering == \E i \in 1 .. Len(outbox) : ~IsInfo(outbox[i]) /\ Own(outbox[i])

Followed ==
    \/ pc = "idle" /\ Queued
    \/ NoExec(inbox) /\ ((pc \in Handling /\ req = got.ask) \/ Recorded \/ Reported)
    \/ Answering

Track ==
    greeted =>
        /\ hpc = "ready" => Quiet
        /\ hpc = "exec" /\ got.ask.fate # "panics" => Followed /\ (Answering => Quiet)

LostInv == WdtOff /\ WireTorn /\ (Undisturbed => Track) /\ NoAnswerLost

(* What is left of a sequence when its head, or more, is gone.             *)
Left(s, t) ==
    Len(t) <= Len(s) /\ \A i \in 1 .. Len(t) : t[i] = s[Len(s) - Len(t) + i]

LEMMA LeftBySubSeq ==
    ASSUME NEW M, NEW s \in Seq(M), NEW k \in 1 .. Len(s) + 1
    PROVE  SubSeq(s, k, Len(s)) \in Seq(M) /\ Left(s, SubSeq(s, k, Len(s)))
<1> DEFINE t == SubSeq(s, k, Len(s))
<1>1. t \in Seq(M) /\ Len(t) = Len(s) - k + 1
  OBVIOUS
<1>2. \A i \in 1 .. Len(t) : t[i] = s[i + k - 1]
  BY <1>1
<1> HIDE DEF t
<1>3. Len(t) <= Len(s) /\ \A i \in 1 .. Len(t) : t[i] = s[Len(s) - Len(t) + i]
  BY <1>1, <1>2
<1> QED BY <1>1, <1>3 DEF Left, t

LEMMA LeftByTail ==
    ASSUME NEW M, NEW s \in Seq(M), s # <<>>
    PROVE  /\ Tail(s) \in Seq(M) /\ Left(s, Tail(s)) /\ Len(Tail(s)) = Len(s) - 1
           /\ Head(s) = s[1] /\ 1 \in 1 .. Len(s)
<1>1. /\ Tail(s) \in Seq(M) /\ Len(Tail(s)) = Len(s) - 1 /\ Len(s) \in Nat /\ Len(s) >= 1
      /\ \A i \in 1 .. Len(s) - 1 : Tail(s)[i] = s[i + 1]
  OBVIOUS
<1>2. Head(s) = s[1]
  OBVIOUS
<1>3. \A i \in 1 .. Len(Tail(s)) : Len(s) - Len(Tail(s)) + i = i + 1
  BY <1>1
<1> QED BY <1>1, <1>2, <1>3 DEF Left

LEMMA LeftTwice ==
    ASSUME NEW M, NEW s \in Seq(M), NEW t \in Seq(M), NEW u \in Seq(M), Left(s, t), Left(t, u)
    PROVE  Left(s, u)
<1>1. Len(s) \in Nat /\ Len(t) \in Nat /\ Len(u) \in Nat /\ Len(u) <= Len(t) /\ Len(t) <= Len(s)
  BY DEF Left
<1>2. ASSUME NEW i \in 1 .. Len(u) PROVE u[i] = s[Len(s) - Len(u) + i]
  <2>1. u[i] = t[Len(t) - Len(u) + i] /\ Len(t) - Len(u) + i \in 1 .. Len(t)
    BY <1>1 DEF Left
  <2>2. t[Len(t) - Len(u) + i] = s[Len(s) - Len(t) + (Len(t) - Len(u) + i)]
    BY <2>1 DEF Left
  <2>3. Len(s) - Len(t) + (Len(t) - Len(u) + i) = Len(s) - Len(u) + i
    BY <1>1
  <2> QED BY <2>1, <2>2, <2>3
<1> QED BY <1>1, <1>2 DEF Left

LEMMA Appended ==
    ASSUME NEW M, NEW s \in Seq(M), NEW m
    PROVE  LET t == Append(s, m)
           IN  /\ Len(t) = Len(s) + 1 /\ t[Len(s) + 1] = m /\ m \in M => t \in Seq(M)
               /\ \A i \in 1 .. Len(s) : t[i] = s[i]
OBVIOUS

(* The order of the wire, seen as a property of what is on it, is kept by  *)
(* what is left of it.                                                     *)
LEMMA LeftOrder ==
    ASSUME NEW M, NEW s \in Seq(M), NEW t \in Seq(M), Left(s, t)
    PROVE  /\ \A e : ExecsFirst(s, e) => ExecsFirst(t, e)
           /\ \A e : Unhailed(s, e) => Unhailed(t, e)
           /\ NoExec(s) => NoExec(t)
           /\ Untorn(s) => Untorn(t)
           /\ \A i \in 1 .. Len(t) : \E j \in 1 .. Len(s) : t[i] = s[j]
           /\ t # <<>> => s # <<>> /\ t[Len(t)] = s[Len(s)]
<1> DEFINE d == Len(s) - Len(t)
<1>1. Len(s) \in Nat /\ Len(t) \in Nat /\ d \in Nat
  BY DEF Left
<1>2. \A i \in 1 .. Len(t) : t[i] = s[d + i]
  BY DEF Left
<1>3. \A i \in 1 .. Len(t) : d + i \in 1 .. Len(s)
  BY <1>1
<1>4. \A i, j \in 1 .. Len(t) : i < j => d + i < d + j
  BY <1>1
<1>5. ASSUME NEW e, ExecsFirst(s, e) PROVE ExecsFirst(t, e)
  BY <1>2, <1>3, <1>4, <1>5 DEF ExecsFirst
<1>6. \A e : Unhailed(s, e) => Unhailed(t, e)
  BY <1>2, <1>3 DEF Unhailed
<1>7. NoExec(s) => NoExec(t)
  BY <1>2, <1>3 DEF NoExec
<1>8. \A i \in 1 .. Len(t) - 1 :
        /\ d + i \in 1 .. Len(s) - 1 /\ (d + i) + 1 = d + (i + 1)
        /\ i \in 1 .. Len(t) /\ i + 1 \in 1 .. Len(t)
  BY <1>1
<1>9. Untorn(s) => Untorn(t)
  BY <1>2, <1>8 DEF Untorn
<1>10. \A i \in 1 .. Len(t) : \E j \in 1 .. Len(s) : t[i] = s[j]
  BY <1>2, <1>3
<1>11. t # <<>> => s # <<>> /\ t[Len(t)] = s[Len(s)]
  <2> SUFFICES ASSUME t # <<>> PROVE s # <<>> /\ t[Len(t)] = s[Len(s)]
    OBVIOUS
  <2>1. Len(t) \in 1 .. Len(t)
    OBVIOUS
  <2>2. t[Len(t)] = s[d + Len(t)] /\ d + Len(t) = Len(s) /\ Len(s) # 0
    BY <1>1, <1>2, <2>1
  <2> QED BY <2>2
<1> QED BY <1>5, <1>6, <1>7, <1>9, <1>10, <1>11

LEMMA MsgKinds ==
    /\ \A m \in Msgs : /\ Exec(m) => m \in Execs /\ m # Torn /\ ~Asks(m)
                       /\ Asks(m) => m \in Queries
                       /\ m \in Execs => Exec(m)
                       /\ \A e : Hails(m, e) => Asks(m) /\ m.seq.sess = e
    /\ \A m \in Queries : m \in Msgs /\ Asks(m) /\ ~Exec(m) /\ m # Torn /\ m.seq \in AllSeqs
    /\ ~Exec(Torn) /\ ~Asks(Torn) /\ Torn \in Msgs
    /\ \A q \in AllSeqs : Query(q) \in Queries /\ Query(q).seq = q
BY DEF Msgs, Execs, Queries, Exec, Asks, Hails, Query, Torn

LEMMA ReplyKinds ==
    /\ \A r \in Replies : /\ ~IsInfo(r) => r \in Answers
                          /\ \A e : Hails(r, e) => IsInfo(r) /\ r.seq.sess = e
    /\ \A r \in Infos : IsInfo(r) /\ r \in Replies
    /\ \A r \in Answers : ~IsInfo(r) /\ r.seq \in AllSeqs /\ r.kind \in Said /\ r \in Replies
    /\ \A k \in Said, s \in AllSeqs : Reply(k, s) \in Answers
                                       /\ Reply(k, s).seq = s /\ Reply(k, s).kind = k
    /\ \A k \in Said, s \in AllSeqs : Reply(k, s) # NoReport
BY DEF Replies, Answers, Infos, IsInfo, Hails, Said, Reply, NoReport

LEMMA HailsAppended ==
    ASSUME NEW M, NEW s \in Seq(M), NEW m
    PROVE  \A e : Unhailed(s, e) /\ ~Hails(m, e) => Unhailed(Append(s, m), e)
<1> DEFINE t == Append(s, m)
<1>1. Len(s) \in Nat /\ Len(t) = Len(s) + 1 /\ t[Len(s) + 1] = m
      /\ \A i \in 1 .. Len(s) : t[i] = s[i]
  BY Appended
<1> HIDE DEF t
<1>2. \A i \in 1 .. Len(t) : i \in 1 .. Len(s) \/ t[i] = m
  BY <1>1
<1>3. \A e : Unhailed(s, e) /\ ~Hails(m, e) => Unhailed(t, e)
  BY <1>1, <1>2 DEF Unhailed
<1> QED BY <1>3 DEF t

(* The steps of the firmware that neither read nor write a frame.          *)
Inner == \/ Stamp \/ Clear \/ Swap \/ ArmSeq \/ ArmState \/ ArmWdt \/ Return
         \/ DisarmWdt \/ Disarm \/ Fault \/ Blame

LEMMA InnerFlow ==
    ASSUME LedgerInv, BoardTypes, Inner
    PROVE  /\ BoardTypes' /\ UNCHANGED <<inbox, outbox>>
           /\ pc # "idle" /\ pc' # "idle" /\ Owed' \subseteq Owed
<1> USE DEF LedgerInv, LedgerShape, CellsFollow, FateOK, Goto, Places, Booting, Blamed,
            BoardTypes, Handling, Owed
<1>1. CASE Stamp
  BY <1>1 DEF Stamp
<1>2. CASE Clear
  BY <1>2 DEF Clear
<1>3. CASE Swap
  <2>1. /\ pc = "swap" /\ pc' = "announce" /\ pending' = ReportOf(ledger)
        /\ UNCHANGED <<inbox, outbox>> /\ ledger'.state = "IDLE"
    BY <1>3 DEF Swap, AfterSwap
  <2>2. CASE ledger.state = "IDLE"
    BY <2>1, <2>2 DEF ReportOf
  <2>3. CASE ledger.state # "IDLE"
    <3>1. ledger.seq \in AllSeqs /\ \E k \in Said : pending' = Reply(k, ledger.seq)
      BY <2>1, <2>3 DEF ReportOf, Said
    <3>2. pending' \in Answers /\ pending'.seq = ledger.seq /\ pending' # NoReport
      BY <3>1, ReplyKinds
    <3> QED BY <2>1, <2>3, <3>2
  <2> QED BY <2>2, <2>3
<1>4. CASE ArmSeq \/ ArmState \/ ArmWdt \/ Return
  BY <1>4 DEF ArmSeq, ArmState, ArmWdt, Return
<1>5. CASE DisarmWdt \/ Disarm \/ Fault \/ Blame
  BY <1>5 DEF DisarmWdt, Disarm, Fault, Blame
<1> QED BY <1>1, <1>2, <1>3, <1>4, <1>5 DEF Inner

(* The two steps after which the board waits again: at most one frame, of  *)
(* the payload that was owed.                                              *)
Speak == Announce \/ Answer

LEMMA SpeakFlow ==
    ASSUME LedgerInv, BoardTypes, Speak
    PROVE  /\ BoardTypes' /\ UNCHANGED inbox
           /\ pc # "idle" /\ pc' = "idle" /\ Owed' = {}
           /\ \/ UNCHANGED outbox
              \/ \E r \in Answers : outbox' = Append(outbox, r) /\ Owed = {r.seq}
<1> USE DEF LedgerInv, CellsFollow, Places, Booting, Blamed, Goto, Handling, Owed
<1>1. /\ UNCHANGED <<inbox, ledger>> /\ pc # "idle" /\ pc' = "idle"
  BY DEF Speak, Announce, Answer
<1>2. \/ UNCHANGED outbox
      \/ \E r \in Answers : outbox' = Append(outbox, r) /\ Owed = {r.seq}
  <2>1. CASE Announce
    BY <2>1 DEF Announce, Say, BoardTypes
  <2>2. CASE Answer
    <3>1. pc = "reply" /\ req.seq \in AllSeqs
      BY <2>2 DEF Answer, BoardTypes, Execs
    <3>2. \E k \in Said : outbox' = Append(outbox, Reply(k, req.seq))
      BY <2>2 DEF Answer, Say, Said
    <3> QED BY <3>1, <3>2, ReplyKinds
  <2> QED BY <2>1, <2>2 DEF Speak
<1>3. outbox' \in Seq(Replies)
  BY <1>2, Appended DEF BoardTypes, Replies
<1>4. Owed' = {} /\ pc' \notin Handling /\ pc' \notin Booting
  BY <1>1
<1> QED BY <1>1, <1>2, <1>3, <1>4 DEF BoardTypes

LEMMA QueryFlow ==
    ASSUME BoardTypes, Query_
    PROVE  /\ BoardTypes' /\ inbox # <<>> /\ Asks(Head(inbox)) /\ inbox' = Tail(inbox)
           /\ \E r \in Infos : outbox' = Append(outbox, r) /\ r.seq = Head(inbox).seq
           /\ pc = "idle" /\ pc' = "idle" /\ Owed' = Owed /\ Owed = {}
<1> PICK r : r = Reply("Info", Head(inbox).seq)
  OBVIOUS
<1>1. /\ inbox # <<>> /\ Asks(Head(inbox)) /\ inbox' = Tail(inbox)
      /\ outbox' = Append(outbox, r) /\ pc = "idle"
      /\ UNCHANGED <<pc, req, ledger, pending>>
  BY DEF Query_, Say, Asks, deviceVars
<1>2. inbox' \in Seq(Msgs) /\ Head(inbox) \in Queries
  <2>1. inbox \in Seq(Msgs)
    BY DEF BoardTypes
  <2>2. Head(inbox) \in Msgs
    BY <1>1, <2>1
  <2> QED BY <1>1, <2>1, <2>2, LeftByTail, MsgKinds
<1>3. r \in Infos /\ r.seq = Head(inbox).seq
  BY <1>2 DEF Queries, Infos, Reply
<1>4. outbox' \in Seq(Replies)
  BY <1>1, <1>3, Appended, ReplyKinds DEF BoardTypes
<1>5. Owed = {} /\ Owed' = {}
  BY <1>1 DEF Owed, Booting
<1> QED BY <1>1, <1>2, <1>3, <1>4, <1>5 DEF BoardTypes, Handling, Booting

LEMMA TornFlow ==
    ASSUME BoardTypes, Undecodable
    PROVE  /\ BoardTypes' /\ Left(inbox, inbox') /\ UNCHANGED outbox
           /\ pc = "idle" /\ pc' = "idle" /\ Owed' = Owed /\ Owed = {}
           /\ Len(inbox) >= 2 /\ inbox[1] = Torn /\ inbox' = Tail(Tail(inbox))
<1>1. /\ Len(inbox) >= 2 /\ Head(inbox) = Torn /\ inbox' = Tail(Tail(inbox))
      /\ UNCHANGED outbox /\ pc = "idle" /\ UNCHANGED <<pc, req, ledger, pending>>
  BY DEF Undecodable, deviceVars
<1>2. inbox \in Seq(Msgs) /\ inbox # <<>>
  BY <1>1 DEF BoardTypes
<1>3. /\ Tail(inbox) \in Seq(Msgs) /\ Left(inbox, Tail(inbox)) /\ Len(Tail(inbox)) = Len(inbox) - 1
      /\ Head(inbox) = inbox[1]
  BY <1>2, LeftByTail
<1>4. Tail(inbox) # <<>>
  <2>1. Len(inbox) \in Nat
    BY <1>2
  <2>2. Len(Tail(inbox)) # 0
    BY <1>1, <1>3, <2>1
  <2>3. Len(<<>>) = 0
    OBVIOUS
  <2> QED BY <2>2, <2>3
<1>5. inbox' \in Seq(Msgs) /\ Left(Tail(inbox), inbox')
  BY <1>1, <1>3, <1>4, LeftByTail
<1>6. Left(inbox, inbox')
  BY <1>2, <1>3, <1>5, LeftTwice
<1>7. Owed = {} /\ Owed' = {}
  BY <1>1 DEF Owed, Booting
<1> QED BY <1>1, <1>3, <1>5, <1>6, <1>7 DEF BoardTypes, Handling, Booting

LEMMA LoadFlow ==
    ASSUME LedgerInv, BoardTypes, Load
    PROVE  /\ BoardTypes' /\ inbox # <<>> /\ Exec(Head(inbox)) /\ inbox' = Tail(inbox)
           /\ req' = Head(inbox) /\ Owed' = {Head(inbox).seq} /\ Owed = {}
           /\ UNCHANGED outbox /\ pc = "idle" /\ pc' \in Handling \ {"call", "disarmWdt", "drain"}
<1>1. /\ inbox # <<>> /\ Exec(Head(inbox)) /\ inbox' = Tail(inbox)
      /\ req' = Head(inbox) /\ UNCHANGED <<outbox, ledger, pending>> /\ pc = "idle"
      /\ pc' \in {"reply", "blame", "armSeq"}
  BY DEF Load, Exec
<1>2. inbox' \in Seq(Msgs) /\ Head(inbox) \in Msgs
  BY <1>1, LeftByTail DEF BoardTypes
<1>3. req' \in Execs
  BY <1>1, <1>2, MsgKinds
<1>4. Owed = {} /\ Owed' = {req'.seq} /\ pc' \in Handling \ {"call", "disarmWdt", "drain"}
  BY <1>1 DEF Owed, Booting, Handling, Places, Blamed
<1> QED BY <1>1, <1>2, <1>3, <1>4 DEF BoardTypes, Handling, Booting

(* A reset owes what the ledger kept, which was owed before it.            *)
LEMMA ResetFlow ==
    ASSUME LedgerInv, BoardTypes, NEW power \in BOOLEAN, NEW flash \in BOOLEAN, Reset(power, flash),
           outbox' \in {outbox, <<>>}
    PROVE  BoardTypes' /\ Left(inbox, inbox') /\ pc' = "stamp" /\ Owed' \subseteq Owed
<1>1. /\ pc' = "stamp" /\ ledger' = IF power THEN Blank ELSE ledger
      /\ \E k \in 1 .. Len(inbox) + 1 : inbox' = SubSeq(inbox, k, Len(inbox))
  BY DEF Reset
<1>2. inbox' \in Seq(Msgs) /\ Left(inbox, inbox')
  BY <1>1, LeftBySubSeq DEF BoardTypes
<1>3. outbox' \in Seq(Replies)
  <2>1. <<>> \in Seq(Replies)
    OBVIOUS
  <2> QED BY <2>1 DEF BoardTypes
<1>4. Owed' = IF ledger'.state = "IDLE" THEN {} ELSE {ledger'.seq}
  BY <1>1 DEF Owed, Booting
<1>5. /\ Owed' \subseteq Owed /\ ledger'.state \in {"IDLE", "RUNNING", "CRASHED"}
      /\ ledger'.state # "IDLE" => ledger'.seq \in AllSeqs
  <2>1. CASE ledger'.state = "IDLE"
    BY <1>4, <2>1
  <2>2. CASE ledger'.state # "IDLE"
    <3>1. ledger' = ledger
      BY <1>1, <2>2 DEF Blank
    <3>2. CASE pc \in Booting
      <4>1. Owed = {ledger.seq}
        BY <2>2, <3>1, <3>2 DEF Owed, Booting
      <4>2. ledger.seq \in AllSeqs /\ ledger.state \in {"IDLE", "RUNNING", "CRASHED"}
        BY <2>2, <3>1, <3>2 DEF BoardTypes
      <4>3. Owed' = {ledger.seq}
        BY <1>4, <2>2, <3>1
      <4>4. Owed' \subseteq Owed
        BY <4>1, <4>3
      <4>5. ledger'.seq \in AllSeqs /\ ledger'.state \in {"IDLE", "RUNNING", "CRASHED"}
        BY <3>1, <4>2
      <4> QED BY <4>4, <4>5
    <3>3. CASE pc \notin Booting
      <4>1. pc \in Handling /\ ledger.seq = req.seq /\ pc # "announce" /\ pc # "idle"
        BY <2>2, <3>1, <3>3 DEF BoardTypes, LedgerInv, CellsFollow, FateOK, Handling, Places,
             Blamed, Booting
      <4>2. Owed = {req.seq} /\ req.seq \in AllSeqs
        BY <3>3, <4>1 DEF Owed, BoardTypes, Execs
      <4> QED BY <1>4, <2>2, <3>1, <4>1, <4>2 DEF BoardTypes
    <3> QED BY <3>2, <3>3
  <2> QED BY <2>1, <2>2
<1> QED BY <1>1, <1>2, <1>3, <1>5 DEF BoardTypes, Handling, Booting

LEMMA LeftAsked ==
    ASSUME NEW M, NEW s \in Seq(M), NEW t \in Seq(M), Left(s, t)
    PROVE  Asked(t) \subseteq Asked(s) /\ Told(t) \subseteq Told(s)
<1>1. \A i \in 1 .. Len(t) : \E j \in 1 .. Len(s) : t[i] = s[j]
  BY LeftOrder
<1> QED BY <1>1 DEF Asked, Told

LEMMA AppendAsked ==
    ASSUME NEW M, NEW s \in Seq(M), NEW m \in M
    PROVE  /\ Asked(Append(s, m)) \subseteq Asked(s) \cup (IF Exec(m) THEN {m.seq} ELSE {})
           /\ Told(Append(s, m)) \subseteq Told(s) \cup (IF ~IsInfo(m) THEN {m.seq} ELSE {})
<1> DEFINE t == Append(s, m)
<1>1. /\ Len(t) = Len(s) + 1 /\ t[Len(s) + 1] = m
      /\ \A i \in 1 .. Len(s) : t[i] = s[i]
  BY Appended
<1> HIDE DEF t
<1>2. \A i \in 1 .. Len(t) : i \in 1 .. Len(s) \/ i = Len(s) + 1
  BY <1>1
<1>3. \A i \in 1 .. Len(t) : t[i] = m \/ \E j \in 1 .. Len(s) : t[i] = s[j]
  BY <1>1, <1>2
<1> QED BY <1>3 DEF Asked, Told, t

LEMMA EmptyAsked == Asked(<<>>) = {} /\ Told(<<>>) = {}
BY DEF Asked, Told

Bursts == Inner \/ Speak \/ Query_ \/ Undecodable \/ Load

LEMMA FirmwareIs == Firmware => Bursts
BY DEF Firmware, Bursts, Inner, Speak

LEMMA FirmwareUnder ==
    ASSUME LedgerInv, BoardTypes, Firmware
    PROVE  BoardTypes' /\ Under' \subseteq Under
<1> USE DEF Under
<1>0. inbox \in Seq(Msgs) /\ outbox \in Seq(Replies)
  BY DEF BoardTypes
<1>1. CASE Inner
  BY <1>1, InnerFlow
<1>2. CASE Speak
  <2>1. BoardTypes' /\ UNCHANGED inbox /\ Owed' = {}
    BY <1>2, SpeakFlow
  <2>2. CASE UNCHANGED outbox
    BY <2>1, <2>2
  <2>3. CASE \E r \in Answers : outbox' = Append(outbox, r) /\ Owed = {r.seq}
    <3> PICK r \in Answers : outbox' = Append(outbox, r) /\ Owed = {r.seq}
      BY <2>3
    <3>1. Told(outbox') \subseteq Told(outbox) \cup {r.seq}
      BY <1>0, AppendAsked, ReplyKinds DEF Replies
    <3> QED BY <2>1, <3>1
  <2> QED BY <1>2, <2>2, <2>3, SpeakFlow
<1>3. CASE Query_
  <2>1. /\ BoardTypes' /\ inbox # <<>> /\ inbox' = Tail(inbox) /\ Owed' = Owed
        /\ \E r \in Infos : outbox' = Append(outbox, r)
    BY <1>3, QueryFlow
  <2>2. Asked(inbox') \subseteq Asked(inbox)
    BY <1>0, <2>1, LeftByTail, LeftAsked
  <2>3. Told(outbox') \subseteq Told(outbox)
    BY <1>0, <2>1, AppendAsked, ReplyKinds
  <2> QED BY <2>1, <2>2, <2>3
<1>4. CASE Undecodable
  <2>1. BoardTypes' /\ Left(inbox, inbox') /\ outbox' = outbox /\ Owed' = Owed
    BY <1>4, TornFlow
  <2>2. Asked(inbox') \subseteq Asked(inbox)
    BY <1>0, <2>1, LeftAsked DEF BoardTypes
  <2> QED BY <2>1, <2>2
<1>5. CASE Load
  <2>1. /\ BoardTypes' /\ inbox # <<>> /\ Exec(Head(inbox)) /\ inbox' = Tail(inbox)
        /\ Owed' = {Head(inbox).seq} /\ outbox' = outbox
    BY <1>5, LoadFlow
  <2>2. Asked(inbox') \subseteq Asked(inbox) /\ Head(inbox) = inbox[1] /\ 1 \in 1 .. Len(inbox)
    BY <1>0, <2>1, LeftByTail, LeftAsked
  <2>3. Head(inbox).seq \in Asked(inbox)
    BY <2>1, <2>2 DEF Asked
  <2> QED BY <2>1, <2>2, <2>3
<1> QED BY <1>1, <1>2, <1>3, <1>4, <1>5, FirmwareIs DEF Bursts

LEMMA ResetUnder ==
    ASSUME LedgerInv, BoardTypes, NEW power \in BOOLEAN, NEW flash \in BOOLEAN, Reset(power, flash),
           outbox' \in {outbox, <<>>}
    PROVE  Under' \subseteq Under
<1>1. BoardTypes' /\ Left(inbox, inbox') /\ Owed' \subseteq Owed
  BY ResetFlow
<1>2. Asked(inbox') \subseteq Asked(inbox)
  BY <1>1, LeftAsked DEF BoardTypes
<1>3. Told(outbox') \subseteq Told(outbox)
  BY EmptyAsked
<1> QED BY <1>1, <1>2, <1>3 DEF Under

(* An Info that the shaking host has not read: the older payloads are done. *)
LEMMA HandshakeIs ==
    ASSUME Handshake, NEW i \in 1 .. Len(outbox), Hails(outbox[i], sess)
    PROVE  NoExec(inbox) /\ Owed = {} /\ (Undisturbed => pc = "idle")
BY DEF Handshake

LEMMA HeadGone ==
    ASSUME NEW M, NEW s \in Seq(M), NEW e, s # <<>>, ExecsFirst(s, e), Hails(Head(s), e)
    PROVE  NoExec(Tail(s))
<1>1. Len(s) \in Nat /\ Len(Tail(s)) = Len(s) - 1 /\ \A i \in 1 .. Len(s) - 1 : Tail(s)[i] = s[i + 1]
  OBVIOUS
<1>2. Head(s) = s[1] /\ 1 \in 1 .. Len(s)
  BY LeftByTail
<1>3. \A i \in 1 .. Len(s) - 1 : 1 < i + 1 /\ i + 1 \in 1 .. Len(s)
  BY <1>1
<1> QED BY <1>1, <1>2, <1>3 DEF ExecsFirst, NoExec

LEMMA FirmwareForetold ==
    ASSUME LedgerInv, BoardTypes, Foretold, Firmware, UNCHANGED sess
    PROVE  Foretold'
<1>0. inbox \in Seq(Msgs) /\ outbox \in Seq(Replies)
  BY DEF BoardTypes
<1>1. CASE Inner
  BY <1>1, InnerFlow DEF Foretold
<1>2. CASE Speak
  <2>1. CASE UNCHANGED outbox
    BY <1>2, <2>1, SpeakFlow DEF Foretold
  <2>2. CASE \E r \in Answers : outbox' = Append(outbox, r)
    <3> PICK r \in Answers : outbox' = Append(outbox, r)
      BY <2>2
    <3>1. \A e : ~Hails(r, e)
      BY ReplyKinds
    <3>2. \A e : Unhailed(outbox, e) => Unhailed(outbox', e)
      BY <1>0, <3>1, HailsAppended
    <3> QED BY <1>2, <3>2, SpeakFlow DEF Foretold
  <2> QED BY <1>2, <2>1, <2>2, SpeakFlow
<1>3. CASE Query_
  <2>1. /\ inbox # <<>> /\ Asks(Head(inbox)) /\ inbox' = Tail(inbox)
        /\ \E r \in Infos : outbox' = Append(outbox, r) /\ r.seq = Head(inbox).seq
    BY <1>3, QueryFlow
  <2> PICK r \in Infos : outbox' = Append(outbox, r) /\ r.seq = Head(inbox).seq
    BY <2>1
  <2>2. Head(inbox) = inbox[1] /\ 1 \in 1 .. Len(inbox) /\ Left(inbox, inbox') /\ inbox' \in Seq(Msgs)
    BY <1>0, <2>1, LeftByTail
  <2>3. \A e : Hails(r, e) => Hails(Head(inbox), e)
    BY <2>1 DEF Hails, Asks
  <2>4. ASSUME NEW e, Unhailed(inbox, e), Unhailed(outbox, e)
        PROVE  Unhailed(inbox', e) /\ Unhailed(outbox', e)
    <3>1. ~Hails(r, e)
      BY <2>2, <2>3, <2>4 DEF Unhailed
    <3>2. Unhailed(outbox', e)
      BY <1>0, <2>4, <3>1, HailsAppended
    <3>3. Unhailed(inbox', e)
      BY <1>0, <2>2, <2>4, LeftOrder
    <3> QED BY <3>2, <3>3
  <2> QED BY <2>4 DEF Foretold
<1>4. CASE Undecodable \/ Load
  <2>1. inbox' \in Seq(Msgs) /\ Left(inbox, inbox') /\ outbox' = outbox
    BY <1>0, <1>4, TornFlow, LoadFlow, LeftByTail DEF BoardTypes
  <2>2. \A e : Unhailed(inbox, e) => Unhailed(inbox', e)
    BY <1>0, <2>1, LeftOrder
  <2> QED BY <2>1, <2>2 DEF Foretold
<1> QED BY <1>1, <1>2, <1>3, <1>4, FirmwareIs DEF Bursts

LEMMA FirmwareOrder ==
    ASSUME LedgerInv, BoardTypes, hpc \in HostPlaces, WireOrder, Firmware,
           UNCHANGED <<hpc, sess, budget>>
    PROVE  WireOrder'
<1>0. inbox \in Seq(Msgs) /\ outbox \in Seq(Replies) /\ (Undisturbed' <=> Undisturbed)
  BY DEF BoardTypes, Undisturbed
<1>f. Foretold'
  BY FirmwareForetold DEF WireOrder
<1>1. CASE Inner
  <2>1. UNCHANGED <<inbox, outbox>> /\ pc # "idle" /\ Owed' \subseteq Owed
    BY <1>1, InnerFlow
  <2>2. Handshake => Handshake'
    BY <1>0, <2>1 DEF Handshake
  <2> QED BY <1>f, <2>1, <2>2 DEF WireOrder
<1>2. CASE Speak
  <2>1. UNCHANGED inbox /\ pc # "idle" /\ pc' = "idle" /\ Owed' = {}
    BY <1>2, SpeakFlow
  <2>2. Handshake => Handshake'
    <3>1. CASE UNCHANGED outbox
      BY <1>0, <2>1, <3>1 DEF Handshake
    <3>2. CASE \E r \in Answers : outbox' = Append(outbox, r) /\ Owed = {r.seq}
      <4> SUFFICES ASSUME Handshake PROVE Handshake'
        OBVIOUS
      <4> PICK r \in Answers : outbox' = Append(outbox, r) /\ Owed = {r.seq}
        BY <3>2
      <4>1. Unhailed(outbox, sess) /\ ~Hails(r, sess)
        BY HandshakeIs, ReplyKinds DEF Unhailed
      <4>2. Unhailed(outbox', sess)
        BY <1>0, <4>1, HailsAppended
      <4> QED BY <2>1, <4>2 DEF Handshake, Unhailed
    <3> QED BY <1>2, <3>1, <3>2, SpeakFlow
  <2> QED BY <1>f, <2>1, <2>2 DEF WireOrder
<1>3. CASE Query_
  <2>1. /\ inbox # <<>> /\ Asks(Head(inbox)) /\ inbox' = Tail(inbox)
        /\ \E r \in Infos : outbox' = Append(outbox, r) /\ r.seq = Head(inbox).seq
        /\ pc' = "idle" /\ Owed' = {}
    BY <1>3, QueryFlow
  <2> PICK r \in Infos : outbox' = Append(outbox, r) /\ r.seq = Head(inbox).seq
    BY <2>1
  <2>2. Left(inbox, inbox') /\ inbox' \in Seq(Msgs)
    BY <1>0, <2>1, LeftByTail
  <2>3. Handshake => Handshake'
    <3> SUFFICES ASSUME Handshake PROVE Handshake'
      OBVIOUS
    <3>1. Len(outbox) \in Nat /\ Len(outbox') = Len(outbox) + 1 /\ outbox'[Len(outbox) + 1] = r
          /\ \A i \in 1 .. Len(outbox) : outbox'[i] = outbox[i]
      BY <1>0, Appended
    <3>r. IsInfo(r)
      BY ReplyKinds
    <3>2. ExecsFirst(inbox', sess)
      BY <1>0, <2>2, LeftOrder DEF Handshake
    <3>3. ASSUME NEW i \in 1 .. Len(outbox'), Hails(outbox'[i], sess)
          PROVE  NoExec(inbox') /\ \A j \in i .. Len(outbox') : IsInfo(outbox'[j])
      <4>1. CASE i = Len(outbox) + 1
        <5>1. Hails(Head(inbox), sess)
          BY <2>1, <3>1, <3>3, <4>1 DEF Hails, Asks
        <5>2. NoExec(inbox')
          BY <1>0, <2>1, <5>1, HeadGone DEF Handshake
        <5>3. \A j \in i .. Len(outbox') : j = Len(outbox) + 1
          BY <3>1, <4>1
        <5> QED BY <3>1, <3>r, <5>2, <5>3
      <4>2. CASE i # Len(outbox) + 1
        <5>1. i \in 1 .. Len(outbox)
          BY <3>1, <4>2
        <5>2. NoExec(inbox) /\ \A j \in i .. Len(outbox) : IsInfo(outbox[j])
          BY <3>1, <3>3, <5>1 DEF Handshake
        <5>3. \A j \in i .. Len(outbox') :
                 j = Len(outbox) + 1 \/ (j \in 1 .. Len(outbox) /\ j \in i .. Len(outbox))
          BY <3>1, <5>1
        <5>4. NoExec(inbox')
          BY <1>0, <2>2, <5>2, LeftOrder
        <5> QED BY <3>1, <3>r, <5>2, <5>3, <5>4
      <4> QED BY <4>1, <4>2
    <3> QED BY <2>1, <3>2, <3>3 DEF Handshake
  <2> QED BY <1>f, <2>3 DEF WireOrder
<1>4. CASE Undecodable
  <2>1. /\ inbox' \in Seq(Msgs) /\ Left(inbox, inbox') /\ outbox' = outbox
        /\ pc' = "idle" /\ Owed' = Owed
    BY <1>4, TornFlow DEF BoardTypes
  <2>2. /\ ExecsFirst(inbox, sess) => ExecsFirst(inbox', sess)
        /\ NoExec(inbox) => NoExec(inbox')
    BY <1>0, <2>1, LeftOrder
  <2>3. Handshake => Handshake'
    BY <2>1, <2>2 DEF Handshake
  <2> QED BY <1>f, <2>3 DEF WireOrder
<1>5. CASE Load
  <2>1. /\ inbox # <<>> /\ Exec(Head(inbox)) /\ inbox' = Tail(inbox) /\ outbox' = outbox
    BY <1>5, LoadFlow
  <2>2. ExecsFirst(inbox, sess) => ExecsFirst(inbox', sess)
    BY <1>0, <2>1, LeftByTail, LeftOrder
  <2>3. ~NoExec(inbox)
    BY <1>0, <2>1, LeftByTail DEF NoExec
  <2>4. Handshake => Handshake'
    BY <2>1, <2>2, <2>3 DEF Handshake
  <2> QED BY <1>f, <2>4 DEF WireOrder
<1> QED BY <1>1, <1>2, <1>3, <1>4, <1>5, FirmwareIs DEF Bursts

LEMMA ResetOrder ==
    ASSUME LedgerInv, BoardTypes, NEW power \in BOOLEAN, NEW flash \in BOOLEAN, Reset(power, flash),
           outbox' \in {outbox, <<>>}, WireOrder, UNCHANGED <<hpc, sess>>,
           Undisturbed' => Owed # {}
    PROVE  WireOrder'
<1>1. BoardTypes' /\ Left(inbox, inbox') /\ Owed' \subseteq Owed
  BY ResetFlow
<1>2. /\ \A e : ExecsFirst(inbox, e) => ExecsFirst(inbox', e)
      /\ \A e : Unhailed(inbox, e) => Unhailed(inbox', e)
      /\ NoExec(inbox) => NoExec(inbox')
  BY <1>1, LeftOrder DEF BoardTypes
<1>3. (Handshake => Handshake') /\ Foretold'
  <2>1. CASE outbox' = <<>>
    <3>1. 1 .. Len(outbox') = {}
      BY <2>1
    <3>2. Handshake => Handshake'
      BY <1>2, <3>1 DEF Handshake
    <3>3. Foretold'
      BY <1>2, <3>1 DEF WireOrder, Foretold, Unhailed
    <3> QED BY <3>2, <3>3
  <2>2. CASE outbox' = outbox
    BY <1>1, <1>2, <2>2 DEF Handshake, WireOrder, Foretold
  <2> QED BY <2>1, <2>2
<1> QED BY <1>3 DEF WireOrder

LEMMA RanFirmware ==
    ASSUME LedgerInv, BoardTypes, Ran, Firmware
    PROVE  Ran'
<1> USE DEF Ran, Goto
<1>1. CASE Stamp \/ Clear \/ Swap \/ Announce
  BY <1>1 DEF Stamp, Clear, Swap, Announce
<1>2. CASE Undecodable \/ Query_
  BY <1>2 DEF Undecodable, Query_, deviceVars
<1>3. CASE Load
  <2>1. Head(inbox).fate \in Fates
    <3>1. Head(inbox) \in Execs
      BY <1>3, LoadFlow, LeftByTail, MsgKinds DEF BoardTypes
    <3> QED BY <3>1 DEF Execs
  <2> QED BY <1>3, <2>1, FateAssumption DEF Load, AllFates
<1>4. CASE ArmSeq \/ ArmState \/ ArmWdt \/ Return \/ DisarmWdt \/ Disarm
  BY <1>4 DEF ArmSeq, ArmState, ArmWdt, Return, DisarmWdt, Disarm
<1>5. CASE Answer \/ Fault \/ Blame
  BY <1>5 DEF Answer, Fault, Blame
<1> QED BY <1>1, <1>2, <1>3, <1>4, <1>5 DEF Firmware

CallStays == UNCHANGED <<sess, n, got, budget>>

LEMMA FittingStays == CallStays => Fitting' = Fitting /\ \A m : Own(m)' <=> Own(m)
BY DEF CallStays, Fitting, MayEnd, Own, Seq_

LEMMA SaidFits ==
    ASSUME LedgerInv, BoardTypes, Ran, Fits, pc = "reply", Own(req)
    PROVE  (IF req.fate = "tooBig" THEN "Error" ELSE "Ok") \in Fitting
<1>1. req = got.ask
  BY DEF Fits, Handling, Places, Booting
<1> QED BY <1>1 DEF Ran, Fitting, MayEnd

LEMMA FirmwareFits ==
    ASSUME LedgerInv, BoardTypes, Ran, Fits, Firmware, CallStays
    PROVE  Fits'
<1>0. /\ inbox \in Seq(Msgs) /\ outbox \in Seq(Replies)
      /\ Fitting' = Fitting /\ got' = got /\ n' = n /\ sess' = sess
  BY FittingStays DEF BoardTypes, CallStays
<1>o. \A i \in 1 .. Len(inbox) : Exec(inbox[i]) /\ Own(inbox[i]) => inbox[i] = got.ask
  BY DEF Fits
<1>1. CASE Inner /\ ~Swap
  <2>1. /\ UNCHANGED <<inbox, outbox>> /\ pc' # "announce"
        /\ pc' \in Handling => pc \in Handling /\ req' = req
        /\ pc' \in Booting =>
              /\ pc \in Booting
              /\ (ledger'.state = ledger.state /\ ledger'.seq = ledger.seq) \/ ledger'.state = "IDLE"
    BY <1>1 DEF Inner, Stamp, Clear, ArmSeq, ArmState, ArmWdt, Return, DisarmWdt, Disarm, Fault, Blame,
       Goto, Booting, Handling, Places, Blamed, LedgerInv, LedgerShape
  <2>2. ASSUME pc' \in Booting, ledger'.state # "IDLE", ledger'.seq = Seq_(n)
        PROVE  ReportOf(ledger').kind \in Fitting
    <3>1. ReportOf(ledger').kind = ReportOf(ledger).kind
      BY <2>1, <2>2 DEF ReportOf, Reply, NoReport
    <3> QED BY <2>1, <2>2, <3>1 DEF Fits, Own
  <2>3. pc' \in Handling /\ req'.seq = Seq_(n) => req' = got.ask
    BY <2>1 DEF Fits, Own
  <2>4. \A i \in 1 .. Len(outbox) : ~IsInfo(outbox[i]) /\ Own(outbox[i]) => outbox[i].kind \in Fitting
    BY DEF Fits
  <2> QED BY <1>0, <1>o, <2>1, <2>2, <2>3, <2>4 DEF Fits, Own, Seq_
<1>2. CASE Swap
  <2>1. /\ pc = "swap" /\ pc' = "announce" /\ pending' = ReportOf(ledger) /\ UNCHANGED <<inbox, outbox>>
    BY <1>2 DEF Swap, Goto
  <2>2. pending' # NoReport => ledger.state # "IDLE" /\ pending'.seq = ledger.seq
    BY <2>1 DEF ReportOf, Reply, NoReport
  <2>3. pc \in Booting /\ pc' \notin Booting /\ pc' \notin Handling
    BY <2>1 DEF Booting, Handling
  <2> QED BY <1>0, <2>1, <2>2, <2>3 DEF Fits, Own, Seq_
<1>3. CASE Speak
  <2>1. UNCHANGED inbox /\ pc' = "idle" /\ pc' \notin Booting /\ pc' \notin Handling
    BY <1>3, SpeakFlow DEF Booting, Handling
  <2>2. \/ UNCHANGED outbox
        \/ \E r \in Replies : outbox' = Append(outbox, r) /\ (Own(r) => r.kind \in Fitting)
    <3>1. CASE Announce
      BY <3>1 DEF Announce, Say, Goto, Fits, BoardTypes, Replies
    <3>2. CASE Answer
      <4> DEFINE k == IF req.fate = "tooBig" THEN "Error" ELSE "Ok"
      <4>1. pc = "reply" /\ outbox' = Append(outbox, Reply(k, req.seq)) /\ req.seq \in AllSeqs
        BY <3>2 DEF Answer, Goto, Say, BoardTypes, Execs, Handling, Places, Booting
      <4>2. k \in Said /\ (Own(req) => k \in Fitting)
        BY <4>1, SaidFits DEF Said
      <4> HIDE DEF k
      <4>3. Reply(k, req.seq) \in Replies /\ Reply(k, req.seq).kind = k /\ Reply(k, req.seq).seq = req.seq
        BY <4>1, <4>2, ReplyKinds DEF Replies
      <4> QED BY <4>1, <4>2, <4>3 DEF Own
    <3> QED BY <1>3, <3>1, <3>2 DEF Speak
  <2>3. \A i \in 1 .. Len(outbox') : ~IsInfo(outbox'[i]) /\ Own(outbox'[i]) => outbox'[i].kind \in Fitting
    <3>1. CASE UNCHANGED outbox
      BY <3>1 DEF Fits
    <3>2. CASE \E r \in Replies : outbox' = Append(outbox, r) /\ (Own(r) => r.kind \in Fitting)
      <4> PICK r \in Replies : outbox' = Append(outbox, r) /\ (Own(r) => r.kind \in Fitting)
        BY <3>2
      <4>1. Len(outbox) \in Nat /\ Len(outbox') = Len(outbox) + 1 /\ outbox'[Len(outbox) + 1] = r
            /\ \A i \in 1 .. Len(outbox) : outbox'[i] = outbox[i]
        BY <1>0, Appended
      <4>2. \A i \in 1 .. Len(outbox') : i \in 1 .. Len(outbox) \/ outbox'[i] = r
        BY <4>1
      <4> QED BY <4>1, <4>2 DEF Fits
    <3> QED BY <2>2, <3>1, <3>2
  <2> QED BY <1>0, <1>o, <2>1, <2>3 DEF Fits, Own, Seq_
<1>4. CASE Query_
  <2>1. /\ inbox' \in Seq(Msgs) /\ inbox # <<>> /\ inbox' = Tail(inbox)
        /\ \E r \in Infos : outbox' = Append(outbox, r)
        /\ pc' = "idle" /\ pc' \notin Booting /\ pc' \notin Handling
    BY <1>4, QueryFlow DEF BoardTypes, Booting, Handling
  <2> PICK r \in Infos : outbox' = Append(outbox, r)
    BY <2>1
  <2>2. \A i \in 1 .. Len(inbox') : \E j \in 1 .. Len(inbox) : inbox'[i] = inbox[j]
    BY <1>0, <2>1, LeftByTail, LeftOrder
  <2>3. Len(outbox) \in Nat /\ Len(outbox') = Len(outbox) + 1 /\ outbox'[Len(outbox) + 1] = r
        /\ \A i \in 1 .. Len(outbox) : outbox'[i] = outbox[i]
    BY <1>0, Appended
  <2>r. IsInfo(r)
    BY ReplyKinds
  <2>4. \A i \in 1 .. Len(outbox') : ~IsInfo(outbox'[i]) => i \in 1 .. Len(outbox)
    BY <2>3, <2>r
  <2> QED BY <1>0, <2>1, <2>2, <2>3, <2>4 DEF Fits, Own, Seq_
<1>5. CASE Undecodable
  <2>1. /\ inbox' \in Seq(Msgs) /\ Left(inbox, inbox') /\ outbox' = outbox
        /\ pc' = "idle" /\ pc' \notin Booting /\ pc' \notin Handling
    BY <1>5, TornFlow DEF BoardTypes, Booting, Handling
  <2>2. \A i \in 1 .. Len(inbox') : \E j \in 1 .. Len(inbox) : inbox'[i] = inbox[j]
    BY <1>0, <2>1, LeftOrder
  <2> QED BY <1>0, <2>1, <2>2 DEF Fits, Own, Seq_
<1>6. CASE Load
  <2>1. /\ inbox' \in Seq(Msgs) /\ inbox # <<>> /\ Exec(Head(inbox)) /\ inbox' = Tail(inbox)
        /\ req' = Head(inbox) /\ outbox' = outbox
        /\ pc' \in Handling /\ pc' \notin Booting /\ pc' # "announce"
    BY <1>6, LoadFlow DEF BoardTypes, Booting, Handling
  <2>2. \A i \in 1 .. Len(inbox') : \E j \in 1 .. Len(inbox) : inbox'[i] = inbox[j]
    BY <1>0, <2>1, LeftByTail, LeftOrder
  <2>3. req' = inbox[1] /\ 1 \in 1 .. Len(inbox) /\ Exec(inbox[1])
    BY <1>0, <2>1, LeftByTail
  <2> QED BY <1>0, <2>1, <2>2, <2>3 DEF Fits, Own, Seq_
<1> QED BY <1>1, <1>2, <1>3, <1>4, <1>5, <1>6, FirmwareIs DEF Bursts

(* A reset leaves a report that fits: Exception of a fault, Timeout of a   *)
(* payload that ran over the window - or of any, when the reset came from  *)
(* outside.                                                                *)
LEMMA ResetFits ==
    ASSUME LedgerInv, BoardTypes, Ran, Fits, NEW power \in BOOLEAN, NEW flash \in BOOLEAN,
           Reset(power, flash), outbox' \in {outbox, <<>>}, UNCHANGED <<sess, n, got>>,
           Fitting \subseteq Fitting',
           \/ "Timeout" \in Fitting'
           \/ pc \in Handling /\ ledger.state = "RUNNING" => req.fate \in {"slow", "hangs"}
    PROVE  Fits' /\ Ran'
<1>1. /\ pc' = "stamp" /\ ledger' = IF power THEN Blank ELSE ledger
  BY DEF Reset
<1>2. BoardTypes' /\ Left(inbox, inbox')
  BY ResetFlow
<1>3. \A i \in 1 .. Len(inbox') : \E j \in 1 .. Len(inbox) : inbox'[i] = inbox[j]
  BY <1>2, LeftOrder DEF BoardTypes
<1>4. ASSUME ledger'.state # "IDLE", ledger'.seq = Seq_(n) PROVE ReportOf(ledger').kind \in Fitting'
  <2>1. ledger' = ledger
    BY <1>1, <1>4 DEF Blank
  <2>2. CASE pc \in Booting
    BY <1>4, <2>1, <2>2 DEF Fits, Own
  <2>3. CASE pc \notin Booting
    <3>1. /\ pc \in Handling /\ ledger.seq = req.seq /\ ledger.state \in {"RUNNING", "CRASHED"}
          /\ ledger.state = "CRASHED" => req.fate = "faults"
      BY <1>4, <2>1, <2>3 DEF BoardTypes, LedgerInv, CellsFollow, FateOK, Handling, Places,
             Blamed, Booting
    <3>2. req = got.ask
      BY <1>4, <2>1, <3>1 DEF Fits, Own
    <3>3. CASE ledger.state = "CRASHED"
      <4>1. ReportOf(ledger).kind = "Exception" /\ "Exception" \in Fitting
        BY <3>1, <3>2, <3>3 DEF ReportOf, Reply, Fitting, MayEnd
      <4> QED BY <2>1, <4>1
    <3>4. CASE ledger.state = "RUNNING"
      <4>1. ReportOf(ledger).kind = "Timeout"
        BY <3>4 DEF ReportOf, Reply
      <4>2. req.fate \in {"slow", "hangs"} => "Timeout" \in Fitting
        BY <3>2 DEF Fitting, MayEnd
      <4> QED BY <2>1, <3>1, <3>4, <4>1, <4>2
    <3> QED BY <3>1, <3>3, <3>4
  <2> QED BY <2>2, <2>3
<1>5. \A i \in 1 .. Len(outbox') : ~IsInfo(outbox'[i]) /\ Own(outbox'[i]) => outbox'[i].kind \in Fitting'
  <2>1. CASE outbox' = outbox
    BY <2>1 DEF Fits
  <2>2. CASE outbox' = <<>>
    BY <2>2
  <2> QED BY <2>1, <2>2
<1>6. pc' \notin Handling /\ pc' # "announce"
  BY <1>1 DEF Handling, Booting
<1> QED BY <1>1, <1>3, <1>4, <1>5, <1>6 DEF Fits, Own, Seq_, Ran

LEMMA OutcomeInit == LinkInit => OutcomeInv
<1> SUFFICES ASSUME LinkInit PROVE OutcomeInv
  OBVIOUS
<1>1. /\ inbox = <<>> /\ outbox = <<>> /\ pc = "stamp" /\ ledger.state = "IDLE"
      /\ sess = 0 /\ n = 0 /\ hpc = "closed" /\ got = Nothing
      /\ budget = [resets |-> MaxResets, late |-> MaxLate]
  BY DEF LinkInit, Init, Blank
<1>2. BoardTypes /\ ClientTypes
  <2>1. <<>> \in Seq(Msgs) /\ <<>> \in Seq(Replies)
    OBVIOUS
  <2>2. ~dead
    BY DEF LinkInit
  <2> QED BY <1>1, <2>1, <2>2, BudgetAssumption DEF BoardTypes, ClientTypes, Handling, Booting,
             HostPlaces
<1>3. Owed = {} /\ Under = {}
  BY <1>1, EmptyAsked DEF Owed, Under, Booting
<1>4. Foretold
  BY <1>1 DEF Foretold, Unhailed
<1>5. LastAsked /\ OutcomeTruth
  BY <1>1 DEF LastAsked, OutcomeTruth, Nothing
<1>6. Fits /\ Ran
  BY <1>1 DEF Fits, Ran, Handling, Booting
<1> QED BY <1>1, <1>2, <1>3, <1>4, <1>5, <1>6 DEF OutcomeInv, SeqsKnown, SeqsOwn, WireOrder

LEMMA BoardSeqs ==
    ASSUME SeqsKnown, SeqsOwn, Under' \subseteq Under, UNCHANGED <<sess, n, hpc, greeted>>
    PROVE  SeqsKnown' /\ SeqsOwn'
BY DEF SeqsKnown, SeqsOwn, Known

LEMMA LastStays ==
    ASSUME LastAsked, UNCHANGED <<sess, n, hpc, got>>
    PROVE  LastAsked'
BY DEF LastAsked, Seq_, LoadExec

(* A reset that the watchdog, or the panic handler, asks for. *)
OwnReset == SoftwareReset \/ WatchdogFires

LEMMA OwnResetIs ==
    ASSUME LedgerInv, OwnReset
    PROVE  /\ Reset(FALSE, FALSE) /\ pc \in Handling /\ Owed = {req.seq}
           /\ ledger.state = "RUNNING" => req.fate \in {"slow", "hangs"}
           /\ ledger.state = "IDLE" => pc = "reply" \/ (pc = "drain" /\ req.fate = "panics")
<1>1. Reset(FALSE, FALSE) /\ (pc = "drain" \/ (wdt /\ Expired))
  BY DEF OwnReset, SoftwareReset, WatchdogFires
<1> QED BY <1>1 DEF Expired, LedgerInv, CellsFollow, FateOK, Handling, Owed, Places, Blamed, Booting

LEMMA BoardOutcome ==
    ASSUME LedgerInv, OutcomeInv, Board
    PROVE  OutcomeInv'
<1> USE DEF OutcomeInv
<1>0. UNCHANGED <<usb, hpc, sess, n, tries, greeted, got, budget>> /\ CallStays /\ ClientTypes'
  <2>1. UNCHANGED <<usb, hpc, sess, n, tries, greeted, got, budget>>
    BY DEF Board, clientVars
  <2>2. dead' => dead \/ usb
    BY DEF Board, BoardStep, PortDrops
  <2> QED BY <2>1, <2>2 DEF CallStays, ClientTypes
<1>1. LastAsked' /\ OutcomeTruth'
  BY <1>0, LastStays DEF OutcomeTruth, MayEnd
<1>2. CASE Firmware
  <2>1. BoardTypes' /\ Under' \subseteq Under
    BY <1>2, FirmwareUnder
  <2>2. WireOrder'
    BY <1>0, <1>2, FirmwareOrder DEF ClientTypes
  <2>3. Fits' /\ Ran'
    BY <1>0, <1>2, FirmwareFits, RanFirmware
  <2> QED BY <1>0, <1>1, <2>1, <2>2, <2>3, BoardSeqs
<1>3. CASE OwnReset /\ PortDrops
  <2>1. Reset(FALSE, FALSE) /\ outbox' \in {outbox, <<>>} /\ Owed # {}
    BY <1>3, OwnResetIs DEF PortDrops
  <2>2. BoardTypes' /\ Under' \subseteq Under
    BY <2>1, ResetFlow, ResetUnder
  <2>3. WireOrder'
    BY <1>0, <2>1, ResetOrder
  <2>4. Fits' /\ Ran'
    BY <1>0, <1>3, <2>1, OwnResetIs, ResetFits, FittingStays
  <2> QED BY <1>0, <1>1, <2>2, <2>3, <2>4, BoardSeqs
<1> QED BY <1>2, <1>3 DEF Board, BoardStep, OwnReset

(* A reset from outside: from now on any payload may have been cut off.    *)
LEMMA BudgetSpent ==
    ASSUME ClientTypes, budget.resets > 0, budget' = [budget EXCEPT !.resets = @ - 1]
    PROVE  /\ budget' = [resets |-> budget'.resets, late |-> budget'.late]
           /\ budget'.resets \in 0 .. MaxResets /\ budget'.late \in 0 .. MaxLate
           /\ budget'.resets < MaxResets /\ ~Undisturbed'
<1> DEFINE r == budget.resets
<1>1. r \in 0 .. MaxResets /\ r > 0 /\ budget.late \in 0 .. MaxLate
  BY DEF ClientTypes
<1>2. budget' = [resets |-> r - 1, late |-> budget.late]
  BY DEF ClientTypes
<1> HIDE DEF r
<1>3. r - 1 \in 0 .. MaxResets /\ r - 1 < MaxResets /\ r - 1 # MaxResets
  BY <1>1, BudgetAssumption
<1>4. budget'.resets = r - 1 /\ budget'.late = budget.late
  BY <1>2
<1>5. ~Undisturbed'
  BY <1>3, <1>4 DEF Undisturbed
<1> QED BY <1>1, <1>2, <1>3, <1>4, <1>5

LEMMA OutsideOutcome ==
    ASSUME LedgerInv, OutcomeInv, OutsideReset
    PROVE  OutcomeInv'
<1> USE DEF OutcomeInv
<1>0. /\ UNCHANGED <<usb, hpc, sess, n, tries, greeted, got>> /\ outbox' \in {outbox, <<>>}
      /\ budget.resets > 0 /\ budget' = [budget EXCEPT !.resets = @ - 1]
      /\ (dead' => dead \/ usb)
  BY DEF OutsideReset, clientVars, PortDrops
<1>1. ClientTypes' /\ budget'.resets < MaxResets /\ ~Undisturbed'
  BY <1>0, BudgetSpent DEF ClientTypes
<1>2. Fitting \subseteq Fitting' /\ "Timeout" \in Fitting'
  BY <1>0, <1>1 DEF Fitting, MayEnd
<1>3. LastAsked' /\ OutcomeTruth'
  BY <1>0, <1>1, LastStays DEF OutcomeTruth, MayEnd
<1> PICK power, flash \in BOOLEAN : Reset(power, flash)
  BY DEF OutsideReset
<1>4. BoardTypes' /\ Under' \subseteq Under
  BY <1>0, ResetFlow, ResetUnder
<1>5. WireOrder'
  BY <1>0, <1>1, ResetOrder
<1>6. Fits' /\ Ran'
  BY <1>0, <1>2, ResetFits
<1> QED BY <1>0, <1>1, <1>3, <1>4, <1>5, <1>6, BoardSeqs

(* A step of the client that leaves the board alone, asks for no payload   *)
(* and begins no session.                                                  *)
OwnQueries == {m \in Queries : m.seq.sess = sess}
Nearby(s, t) ==
    \A i \in 1 .. Len(t) : t[i] \in OwnQueries \cup {Torn} \/ \E j \in 1 .. Len(s) : t[i] = s[j]

LEMMA NearbyIs ==
    ASSUME NEW M, NEW s \in Seq(M)
    PROVE  /\ Nearby(s, s)
           /\ s # <<>> => Nearby(s, Tail(s))
           /\ \A m \in OwnQueries \cup {Torn} : Nearby(s, Append(s, m))
<1>1. Nearby(s, s)
  BY DEF Nearby
<1>2. ASSUME s # <<>> PROVE Nearby(s, Tail(s))
  BY <1>2, LeftByTail, LeftOrder DEF Nearby
<1>3. ASSUME NEW m \in OwnQueries \cup {Torn} PROVE Nearby(s, Append(s, m))
  <2> DEFINE t == Append(s, m)
  <2>1. /\ Len(s) \in Nat /\ Len(t) = Len(s) + 1 /\ t[Len(s) + 1] = m
        /\ \A i \in 1 .. Len(s) : t[i] = s[i]
    BY Appended
  <2> HIDE DEF t
  <2>2. \A i \in 1 .. Len(t) : i \in 1 .. Len(s) \/ t[i] = m
    BY <2>1
  <2>3. Nearby(s, t)
    BY <2>1, <2>2 DEF Nearby
  <2> QED BY <2>3 DEF t
<1> QED BY <1>1, <1>2, <1>3

LEMMA ClientKeeps ==
    ASSUME OutcomeInv, UNCHANGED <<deviceVars, sess, n>>, got'.ask = got.ask,
           budget'.resets = budget.resets,
           inbox' \in Seq(Msgs), Nearby(inbox, inbox'), outbox' \in Seq(Replies), Left(outbox, outbox')
    PROVE  /\ BoardTypes' /\ Under' \subseteq Under /\ SeqsKnown' /\ Owed' = Owed /\ Fits' /\ Ran'
           /\ Fitting' = Fitting /\ Foretold'
<1> USE DEF OutcomeInv
<1>0. UNCHANGED <<ledger, build, pc, req, pending>>
  BY DEF deviceVars
<1>1. BoardTypes' /\ Owed' = Owed /\ Ran'
  BY <1>0 DEF BoardTypes, Owed, Ran
<1>2. Asked(inbox') \subseteq Asked(inbox)
  BY MsgKinds DEF Nearby, OwnQueries, Asked
<1>3. Told(outbox') \subseteq Told(outbox)
  BY LeftAsked DEF BoardTypes
<1>4. Under' \subseteq Under
  BY <1>1, <1>2, <1>3 DEF Under
<1>5. SeqsKnown'
  BY <1>4 DEF SeqsKnown, Known
<1>6. Fitting' = Fitting
  BY DEF Fitting, MayEnd
<1>7. \A i \in 1 .. Len(outbox') : \E j \in 1 .. Len(outbox) : outbox'[i] = outbox[j]
  BY LeftOrder DEF BoardTypes
<1>8. \A i \in 1 .. Len(inbox') : Exec(inbox'[i]) => \E j \in 1 .. Len(inbox) : inbox'[i] = inbox[j]
  BY MsgKinds DEF Nearby, OwnQueries
<1>9. Fits'
  BY <1>0, <1>6, <1>7, <1>8 DEF Fits, Own, Seq_
<1>10. Foretold'
  <2>1. ASSUME NEW e \in Nat, e > sess, NEW i \in 1 .. Len(inbox') PROVE ~Hails(inbox'[i], e)
    <3>1. CASE inbox'[i] \in OwnQueries
      <4>1. inbox'[i].seq.sess = sess /\ sess \in Nat /\ sess # e
        BY <2>1, <3>1 DEF OwnQueries, ClientTypes
      <4> QED BY <4>1 DEF Hails
    <3>2. CASE inbox'[i] = Torn
      BY <3>2 DEF Hails, Torn
    <3>3. CASE \E j \in 1 .. Len(inbox) : inbox'[i] = inbox[j]
      BY <2>1, <3>3 DEF WireOrder, Foretold, Unhailed
    <3> QED BY <3>1, <3>2, <3>3 DEF Nearby
  <2> QED BY <1>7, <2>1 DEF WireOrder, Foretold, Unhailed
<1> QED BY <1>1, <1>4, <1>5, <1>6, <1>9, <1>10

LEMMA LeftSelf ==
    ASSUME NEW M, NEW s \in Seq(M)
    PROVE  Left(s, s)
<1>1. Len(s) \in Nat /\ \A i \in 1 .. Len(s) : Len(s) - Len(s) + i = i
  OBVIOUS
<1> QED BY <1>1 DEF Left

LEMMA HandshakeOutcome ==
    ASSUME OutcomeInv, SendInfo \/ RecvInfo \/ InfoTimeout \/ Unreachable
    PROVE  OutcomeInv'
<1> USE DEF OutcomeInv
<1>0. /\ UNCHANGED <<deviceVars, usb, dead, sess, n, got, budget>>
      /\ inbox \in Seq(Msgs) /\ outbox \in Seq(Replies)
      /\ hpc \in {"hello", "helloWait"} /\ hpc' \in HostPlaces /\ hpc' # "exec"
      /\ UNCHANGED <<ledger, pc, req, pending>>
  BY DEF SendInfo, RecvInfo, InfoTimeout, Unreachable, vars, deviceVars, HostPlaces, BoardTypes
<1>1. ClientTypes'
  BY <1>0 DEF ClientTypes
<1>2. LastAsked'
  BY <1>0 DEF LastAsked, Seq_, LoadExec
<1>h. Handshake
  BY <1>0 DEF WireOrder
<1>t. OutcomeTruth'
  <2>1. CASE RecvInfo
    <3>1. got.out \in {"none", "nothing", "late"}
      BY <1>0 DEF LastAsked
    <3> QED BY <1>0, <3>1 DEF OutcomeTruth
  <2>2. CASE SendInfo \/ InfoTimeout \/ Unreachable
    <3>1. UNCHANGED <<got, greeted, budget>>
      BY <2>2 DEF SendInfo, InfoTimeout, Unreachable
    <3> QED BY <3>1 DEF OutcomeTruth, MayEnd
  <2> QED BY <2>1, <2>2
<1>3. CASE SendInfo
  <2> PICK m : m = Query(Seq_(0))
    OBVIOUS
  <2>1. inbox' = Append(inbox, m) /\ outbox' = outbox /\ hpc' = "helloWait"
    BY <1>3 DEF SendInfo
  <2>m. m \in OwnQueries /\ m \in Msgs /\ ~Exec(m)
    <3>1. Seq_(0) \in AllSeqs /\ Seq_(0).sess = sess
      BY DEF ClientTypes, Seq_, AllSeqs
    <3>2. m \in Queries /\ m.seq = Seq_(0)
      BY <3>1, MsgKinds
    <3> QED BY <3>1, <3>2, MsgKinds DEF OwnQueries
  <2>2. inbox' \in Seq(Msgs) /\ Nearby(inbox, inbox') /\ Left(outbox, outbox')
    BY <1>0, <2>1, <2>m, Appended, NearbyIs, LeftSelf
  <2>3. /\ BoardTypes' /\ SeqsKnown' /\ Owed' = Owed /\ Fits' /\ Ran' /\ Foretold'
    BY <1>0, <2>1, <2>2, ClientKeeps
  <2>4. Len(inbox) \in Nat /\ Len(inbox') = Len(inbox) + 1 /\ inbox'[Len(inbox) + 1] = m
        /\ \A i \in 1 .. Len(inbox) : inbox'[i] = inbox[i]
    BY <1>0, <2>1, Appended
  <2>5. \A i \in 1 .. Len(inbox') : Exec(inbox'[i]) => i \in 1 .. Len(inbox) /\ Exec(inbox[i])
    BY <2>4, <2>m
  <2>6. \A i, j \in 1 .. Len(inbox') : i < j /\ j \in 1 .. Len(inbox) => i \in 1 .. Len(inbox)
    BY <2>4
  <2>7. ExecsFirst(inbox, sess) => ExecsFirst(inbox', sess)
    BY <2>4, <2>5, <2>6 DEF ExecsFirst
  <2>8. NoExec(inbox) => NoExec(inbox')
    BY <2>5 DEF NoExec
  <2>9. Handshake'
    BY <1>0, <1>h, <2>1, <2>3, <2>7, <2>8 DEF Handshake, Undisturbed
  <2> QED BY <1>1, <1>2, <1>t, <2>1, <2>3, <2>9 DEF SeqsOwn, WireOrder
<1>4. CASE RecvInfo
  <2>1. /\ inbox' = inbox /\ outbox # <<>> /\ outbox' = Tail(outbox)
        /\ hpc' = IF Head(outbox).kind = "Info" THEN "ready" ELSE "hello"
        /\ greeted' <=> Head(outbox).seq.sess = sess
    BY <1>4 DEF RecvInfo
  <2>2. /\ outbox' \in Seq(Replies) /\ Left(outbox, outbox') /\ Nearby(inbox, inbox')
        /\ Head(outbox) = outbox[1] /\ 1 \in 1 .. Len(outbox) /\ outbox[1] \in Replies
    BY <1>0, <2>1, LeftByTail, NearbyIs
  <2>3. /\ BoardTypes' /\ SeqsKnown' /\ Owed' = Owed /\ Fits' /\ Ran' /\ Foretold'
    BY <1>0, <2>1, <2>2, ClientKeeps
  <2>4. CASE Head(outbox).kind = "Info"
    <3>1. hpc' = "ready"
      BY <2>1, <2>4
    <3>2. ASSUME greeted' PROVE \A q \in Under' : q.sess = sess'
      <4>1. Hails(outbox[1], sess)
        BY <2>1, <2>2, <2>4, <3>2 DEF Hails
      <4>2. NoExec(inbox) /\ Owed = {} /\ \A j \in 1 .. Len(outbox) : IsInfo(outbox[j])
        BY <1>h, <2>2, <4>1 DEF Handshake
      <4>3. \A i \in 1 .. Len(outbox') : IsInfo(outbox'[i])
        BY <1>0, <2>2, <4>2, LeftOrder
      <4>4. Asked(inbox') = {} /\ Told(outbox') = {}
        BY <2>1, <4>2, <4>3 DEF NoExec, Asked, Told
      <4> QED BY <2>3, <4>2, <4>4 DEF Under
    <3> QED BY <1>1, <1>2, <1>t, <2>3, <3>1, <3>2 DEF WireOrder, SeqsOwn
  <2>5. CASE Head(outbox).kind # "Info"
    <3>1. hpc' = "hello"
      BY <2>1, <2>5
    <3>2. Len(outbox) \in Nat /\ Len(outbox') = Len(outbox) - 1
          /\ \A i \in 1 .. Len(outbox') : outbox'[i] = outbox[i + 1]
      BY <1>0, <2>1
    <3>3. \A i \in 1 .. Len(outbox') : i + 1 \in 1 .. Len(outbox)
                                       /\ \A j \in i .. Len(outbox') : j + 1 \in i + 1 .. Len(outbox)
                                                                       /\ j \in 1 .. Len(outbox')
      BY <3>2
    <3>4. Handshake'
      BY <1>0, <1>h, <2>1, <2>3, <3>2, <3>3 DEF Handshake, Undisturbed
    <3> QED BY <1>1, <1>2, <1>t, <2>3, <3>1, <3>4 DEF SeqsOwn, WireOrder
  <2> QED BY <2>4, <2>5
<1>5. CASE InfoTimeout \/ Unreachable
  <2>1. UNCHANGED <<inbox, outbox>> /\ hpc' \in {"hello", "closed"}
    BY <1>5 DEF InfoTimeout, Unreachable, vars
  <2>2. /\ BoardTypes' /\ SeqsKnown' /\ Owed' = Owed /\ Fits' /\ Ran' /\ Foretold'
    BY <1>0, <2>1, ClientKeeps, NearbyIs, LeftSelf
  <2>3. Handshake'
    BY <1>0, <1>h, <2>1, <2>2 DEF Handshake, Undisturbed
  <2> QED BY <1>1, <1>2, <1>t, <2>1, <2>2, <2>3 DEF SeqsOwn, WireOrder
<1> QED BY <1>3, <1>4, <1>5

(* load_exec reopens only a port that dropped, which is not a bridge's.     *)
LEMMA ReopenIs ==
    ASSUME OutcomeInv
    PROVE  Reopen => /\ UNCHANGED <<deviceVars, inbox, outbox, budget, usb, clientVars>>
                     /\ hpc = "exec" /\ ~dead'
BY DEF OutcomeInv, ClientTypes, Reopen, OpenPort

LEMMA CallOutcome ==
    ASSUME OutcomeInv, RecvExec \/ Reopen \/ ExecTimeout \/ ExecLate \/ Close \/ Kill
    PROVE  OutcomeInv'
<1> USE DEF OutcomeInv
<1>0. /\ UNCHANGED <<deviceVars, sess, n>> /\ inbox \in Seq(Msgs) /\ outbox \in Seq(Replies)
      /\ UNCHANGED <<ledger, pc, req, pending>> /\ got'.ask = got.ask
      /\ got' = [out |-> got'.out, from |-> got'.from, ask |-> got.ask]
      /\ hpc' \in HostPlaces /\ (hpc' = "exec" => got' = got /\ hpc = "exec")
      /\ hpc' \in {"ready", "exec"} => hpc \in {"ready", "exec"}
      /\ hpc' \notin {"hello", "helloWait"} /\ (greeted' <=> greeted) /\ (dead' => usb')
  <2>1. CASE Reopen
    <3>1. /\ UNCHANGED <<deviceVars, sess, n, hpc, got, greeted>>
          /\ hpc = "exec" /\ ~dead'
      BY <2>1, ReopenIs DEF clientVars
    <3>2. UNCHANGED <<ledger, pc, req, pending>>
      BY <3>1 DEF deviceVars
    <3> QED BY <3>1, <3>2 DEF HostPlaces, BoardTypes, LastAsked
  <2>2. CASE RecvExec \/ Close \/ Kill
    <3>1. /\ UNCHANGED <<deviceVars, sess, n, usb, dead, greeted>> /\ hpc # "closed"
          /\ \/ got' = got
             \/ hpc' = "ready" /\ \E k, s : got' = [got EXCEPT !.out = k, !.from = s]
          /\ hpc' = hpc => hpc = "exec" /\ got' = got
          /\ hpc' # hpc => hpc' \in {"ready", "closed"}
          /\ hpc' = "ready" => hpc = "exec"
      BY <2>2 DEF RecvExec, Close, Kill, vars
    <3>2. UNCHANGED <<ledger, pc, req, pending>>
      BY <3>1 DEF deviceVars
    <3>3. got = [out |-> got.out, from |-> got.from, ask |-> got.ask] /\ (dead => usb)
          /\ hpc \in HostPlaces /\ inbox \in Seq(Msgs) /\ outbox \in Seq(Replies)
      BY DEF LastAsked, ClientTypes, BoardTypes
    <3>4. /\ got'.ask = got.ask
          /\ got' = [out |-> got'.out, from |-> got'.from, ask |-> got.ask]
      BY <3>1, <3>3
    <3> QED BY <3>1, <3>2, <3>3, <3>4 DEF HostPlaces
  <2>3. CASE ExecTimeout \/ ExecLate
    BY <2>3 DEF ExecTimeout, ExecLate, Deadline, vars, deviceVars, HostPlaces, BoardTypes,
                LastAsked, ClientTypes
  <2> QED BY <2>1, <2>2, <2>3
<1>1. ClientTypes' /\ budget'.resets = budget.resets
  <2>1. budget' = budget \/ (budget.late > 0 /\ budget' = [budget EXCEPT !.late = @ - 1])
    BY ReopenIs DEF RecvExec, ExecTimeout, ExecLate, Close, Kill
  <2>2. CASE budget' = budget
    BY <1>0, <2>2 DEF ClientTypes
  <2>3. CASE budget.late > 0 /\ budget' = [budget EXCEPT !.late = @ - 1]
    <3>1. budget' = [resets |-> budget.resets, late |-> budget.late - 1]
      BY <2>3 DEF ClientTypes
    <3>2. budget.late - 1 \in 0 .. MaxLate
      BY <2>3, BudgetAssumption DEF ClientTypes
    <3> QED BY <1>0, <3>1, <3>2 DEF ClientTypes
  <2> QED BY <2>1, <2>2, <2>3
<1>2. LastAsked'
  BY <1>0 DEF LastAsked, Seq_, LoadExec
<1>3. /\ inbox' \in Seq(Msgs) /\ Nearby(inbox, inbox')
      /\ outbox' \in Seq(Replies) /\ Left(outbox, outbox')
  <2>1. CASE RecvExec
    BY <1>0, <2>1, LeftByTail, NearbyIs DEF RecvExec
  <2>2. CASE Kill
    <3>1. outbox' = outbox /\ (inbox' = inbox \/ inbox' = Append(inbox, Torn))
      BY <2>2 DEF Kill
    <3>2. Left(outbox, outbox') /\ outbox' \in Seq(Replies)
      BY <1>0, <3>1, LeftSelf
    <3>3. Torn \in Msgs /\ Nearby(inbox, inbox) /\ Nearby(inbox, Append(inbox, Torn))
      BY <1>0, NearbyIs, MsgKinds
    <3>4. Append(inbox, Torn) \in Seq(Msgs)
      BY <1>0, <3>3
    <3> QED BY <1>0, <3>1, <3>2, <3>3, <3>4
  <2>3. CASE Reopen \/ ExecTimeout \/ ExecLate \/ Close
    <3>1. UNCHANGED <<inbox, outbox>>
      BY <2>3, ReopenIs DEF ExecTimeout, ExecLate, Deadline, Close, vars
    <3> QED BY <1>0, <3>1, LeftSelf, NearbyIs
  <2> QED BY <2>1, <2>2, <2>3
<1>4. /\ BoardTypes' /\ Under' \subseteq Under /\ SeqsKnown' /\ Owed' = Owed /\ Fits' /\ Ran'
      /\ Fitting' = Fitting /\ Foretold'
  BY <1>0, <1>1, <1>3, ClientKeeps
<1>5. SeqsOwn'
  BY <1>0, <1>4 DEF SeqsOwn
<1>6. WireOrder'
  BY <1>0, <1>4 DEF WireOrder
<1>7. OutcomeTruth'
  <2>1. CASE got' = got
    BY <1>0, <1>1, <2>1 DEF OutcomeTruth, MayEnd
  <2>2. CASE got'.out \in {"none", "nothing", "late"}
    BY <2>2 DEF OutcomeTruth
  <2>3. CASE RecvExec /\ Mine(Head(outbox))
    <3> DEFINE r == Head(outbox)
    <3>1. /\ hpc = "exec" /\ outbox # <<>> /\ got' = [got EXCEPT !.out = r.kind, !.from = r.seq]
          /\ r.kind \in Said /\ r.seq.n = n
      BY <2>3 DEF RecvExec, Mine, Said
    <3>2. r = outbox[1] /\ 1 \in 1 .. Len(outbox) /\ r \in Replies
      BY <1>0, <3>1, LeftByTail
    <3>3. ~IsInfo(r) /\ r \in Answers /\ r.seq \in AllSeqs
      BY <3>1, <3>2, ReplyKinds DEF IsInfo, Said
    <3>4. r.seq \in Told(outbox)
      BY <3>2, <3>3 DEF Told
    <3>5. greeted => r.seq = Seq_(n)
      <4>1. greeted => r.seq.sess = sess
        BY <3>1, <3>4 DEF SeqsOwn, Under
      <4> QED BY <3>1, <3>3, <4>1 DEF AllSeqs, Seq_
    <3>6. r.seq = Seq_(n) => r.kind \in Fitting
      BY <3>2, <3>3 DEF Fits, Own
    <3>7. got.ask.seq = Seq_(n)
      <4>1. got.ask = LoadExec(Seq_(n), got.ask.fate)
        BY <3>1 DEF LastAsked
      <4>2. \A q, f : LoadExec(q, f).seq = q
        BY DEF LoadExec
      <4> QED BY <4>1, <4>2
    <3> HIDE DEF r
    <3>8. got'.out = r.kind /\ got'.from = r.seq
      BY <3>1 DEF LastAsked
    <3> QED BY <1>0, <1>1, <3>5, <3>6, <3>7, <3>8 DEF OutcomeTruth, Fitting, MayEnd
  <2> QED BY <2>1, <2>2, <2>3, ReopenIs DEF RecvExec, ExecTimeout, ExecLate, Deadline, Close, Kill,
          clientVars, LastAsked
<1> QED BY <1>1, <1>2, <1>4, <1>5, <1>6, <1>7

LEMMA SendOutcome ==
    ASSUME OutcomeInv, SendExec
    PROVE  OutcomeInv'
<1> USE DEF OutcomeInv
<1>0. /\ UNCHANGED <<deviceVars, outbox, usb, dead, sess, greeted, budget>>
      /\ hpc = "ready" /\ hpc' = "exec" /\ n' = n + 1
      /\ UNCHANGED <<ledger, pc, req, pending>> /\ inbox \in Seq(Msgs) /\ n \in Nat /\ sess \in Nat
  BY DEF SendExec, deviceVars, BoardTypes, ClientTypes
<1>q. [sess |-> sess, n |-> n + 1] \in AllSeqs
  BY <1>0 DEF AllSeqs
<1> PICK q \in AllSeqs : q = [sess |-> sess, n |-> n + 1]
  BY <1>q
<1> PICK f \in Fates : /\ inbox' = Append(inbox, LoadExec(q, f))
                       /\ got' = [out |-> "none", from |-> NoSeq, ask |-> LoadExec(q, f)]
  BY DEF SendExec, Seq_
<1> PICK m : m = LoadExec(q, f)
  OBVIOUS
<1>1. /\ m \in Execs /\ m \in Msgs /\ m.seq = q /\ Exec(m) /\ m.fate = f /\ m # NoRequest
      /\ \A e : ~Hails(m, e)
  BY DEF LoadExec, Execs, Msgs, Exec, Hails, NoRequest
<1>2. /\ inbox' = Append(inbox, m) /\ inbox' \in Seq(Msgs)
      /\ Len(inbox) \in Nat /\ Len(inbox') = Len(inbox) + 1 /\ inbox'[Len(inbox) + 1] = m
      /\ \A i \in 1 .. Len(inbox) : inbox'[i] = inbox[i]
  BY <1>0, <1>1, Appended
<1>3. got' = [out |-> "none", from |-> NoSeq, ask |-> m] /\ q.sess = sess /\ q.n = n + 1
  BY <1>0
<1>4. Owed' = Owed /\ Ran' /\ BoardTypes' /\ ClientTypes'
  BY <1>0, <1>2 DEF Owed, Ran, BoardTypes, ClientTypes, HostPlaces
<1>5. Under' \subseteq Under \cup {q}
  <2>1. Asked(inbox') \subseteq Asked(inbox) \cup {q}
    BY <1>0, <1>1, <1>2, AppendAsked
  <2> QED BY <1>0, <1>4, <2>1 DEF Under
<1>6. \A p \in Under : Known(p) /\ (greeted => p.sess = sess) /\ p # q
  BY <1>0, <1>3 DEF SeqsKnown, SeqsOwn, Known, AllSeqs
<1>7. SeqsKnown'
  <2>1. \A p : Known(p) => Known(p)'
    BY <1>0 DEF Known, AllSeqs
  <2>2. Known(q)'
    BY <1>0, <1>3 DEF Known
  <2> QED BY <1>5, <1>6, <2>1, <2>2 DEF SeqsKnown
<1>8. SeqsOwn'
  BY <1>0, <1>3, <1>5, <1>6 DEF SeqsOwn
<1>9. WireOrder'
  <2>1. \A e : Unhailed(inbox, e) => Unhailed(inbox', e)
    BY <1>0, <1>1, <1>2, HailsAppended
  <2> QED BY <1>0, <2>1 DEF WireOrder, Foretold
<1>10. LastAsked' /\ OutcomeTruth'
  <2>1. /\ got'.out = "none" /\ got'.ask = m /\ got'.from = NoSeq
        /\ Seq_(n)' = q /\ m = LoadExec(q, m.fate)
    BY <1>0, <1>1, <1>3 DEF Seq_
  <2>2. n' # 0 /\ got' = [out |-> got'.out, from |-> got'.from, ask |-> got'.ask]
    BY <1>0, <1>3, <2>1
  <2> QED BY <1>0, <1>1, <2>1, <2>2 DEF LastAsked, OutcomeTruth
<1>11. Fits'
  <2>1. got'.ask = m /\ Seq_(n)' = q
    BY <1>0, <1>3 DEF Seq_
  <2>2. ASSUME NEW i \in 1 .. Len(inbox'), Exec(inbox'[i]), inbox'[i].seq = q PROVE inbox'[i] = m
    <3>1. CASE i \in 1 .. Len(inbox)
      <4>1. inbox[i].seq \in Under /\ inbox[i].seq = q
        BY <1>2, <2>1, <2>2, <3>1 DEF Under, Asked
      <4> QED BY <1>6, <4>1
    <3>2. CASE i \notin 1 .. Len(inbox)
      BY <1>2, <3>2
    <3> QED BY <3>1, <3>2
  <2>3. pc \in Handling => req.seq # q
    <3>1. pc \in Handling => req.seq \in Under
      BY DEF Under, Owed, Handling
    <3> QED BY <1>6, <3>1
  <2>4. pc \in Booting /\ ledger.state # "IDLE" => ledger.seq # q
    <3>1. pc \in Booting /\ ledger.state # "IDLE" => ledger.seq \in Under
      BY DEF Under, Owed, Booting
    <3> QED BY <1>6, <3>1
  <2>5. pc = "announce" /\ pending # NoReport => pending.seq # q
    <3>1. pc = "announce" /\ pending # NoReport => pending.seq \in Under
      BY DEF Under, Owed, Booting
    <3> QED BY <1>6, <3>1
  <2>6. \A i \in 1 .. Len(outbox) : ~IsInfo(outbox[i]) => outbox[i].seq # q
    <3>1. \A i \in 1 .. Len(outbox) : ~IsInfo(outbox[i]) => outbox[i].seq \in Under
      BY DEF Under, Told
    <3> QED BY <1>6, <3>1
  <2> QED BY <1>0, <2>1, <2>2, <2>3, <2>4, <2>5, <2>6 DEF Fits, Own
<1> QED BY <1>4, <1>7, <1>8, <1>9, <1>10, <1>11

(* A session opens the port, and resets the board by it, it may be.        *)
LEMMA OpenOutcome ==
    ASSUME LedgerInv, OutcomeInv, Open
    PROVE  OutcomeInv'
<1> USE DEF OutcomeInv
<1>0. /\ hpc = "closed" /\ hpc' = "hello" /\ sess' = sess + 1 /\ n' = 0 /\ got' = Nothing
      /\ outbox' = outbox /\ ~dead' /\ inbox \in Seq(Msgs) /\ outbox \in Seq(Replies)
      /\ n \in Nat /\ sess \in Nat
  BY DEF Open, OpenPort, BoardTypes, ClientTypes
<1>2. /\ BoardTypes' /\ ClientTypes' /\ Under' \subseteq Under /\ Ran' /\ Left(inbox, inbox')
      /\ pc' \in Places
  <2>1. CASE UNCHANGED <<deviceVars, inbox, budget>>
    <3>1. UNCHANGED <<ledger, pc, req, pending, inbox, budget>>
      BY <2>1 DEF deviceVars
    <3>2. BoardTypes' /\ ClientTypes' /\ Owed' = Owed /\ Ran' /\ pc' \in Places
      BY <1>0, <3>1 DEF BoardTypes, ClientTypes, Owed, Ran, HostPlaces, LedgerInv
    <3>3. Left(inbox, inbox')
      BY <1>0, <3>1, LeftSelf
    <3> QED BY <1>0, <3>1, <3>2, <3>3 DEF Under
  <2>2. CASE /\ budget.resets > 0 /\ budget' = [budget EXCEPT !.resets = @ - 1]
             /\ \E power \in BOOLEAN : Reset(power, FALSE)
    <3> PICK power \in BOOLEAN : Reset(power, FALSE)
      BY <2>2
    <3>1. BoardTypes' /\ Left(inbox, inbox') /\ Under' \subseteq Under /\ pc' = "stamp"
      BY <1>0, ResetFlow, ResetUnder
    <3>2. ClientTypes'
      BY <1>0, <2>2, BudgetSpent DEF ClientTypes, HostPlaces
    <3> QED BY <3>1, <3>2 DEF Ran, Places, Booting
  <2> QED BY <2>1, <2>2 DEF Open, OpenPort
<1>3. \A q \in Under' : q \in AllSeqs /\ q.sess < sess' /\ q # Seq_(n)'
  <2>1. \A q \in Under : q \in AllSeqs /\ q.sess < sess + 1
    BY <1>0 DEF SeqsKnown, Known, AllSeqs
  <2>2. Seq_(n)'.sess = sess + 1
    BY <1>0 DEF Seq_
  <2> QED BY <1>0, <1>2, <2>1, <2>2 DEF AllSeqs
<1>4. SeqsKnown' /\ SeqsOwn'
  BY <1>0, <1>3 DEF SeqsKnown, SeqsOwn, Known
<1>5. WireOrder'
  <2>1. \A e : Unhailed(inbox, e) => Unhailed(inbox', e)
    BY <1>0, <1>2, LeftOrder DEF BoardTypes
  <2>2. \A e \in Nat : e > sess => Unhailed(inbox', e) /\ Unhailed(outbox', e)
    BY <1>0, <2>1 DEF WireOrder, Foretold
  <2>3. sess' \in Nat /\ sess' > sess /\ \A e \in Nat : e > sess' => e > sess
    BY <1>0
  <2>4. Unhailed(inbox', sess') /\ Unhailed(outbox', sess')
    BY <2>2, <2>3
  <2> QED BY <2>2, <2>3, <2>4 DEF WireOrder, Foretold, Handshake, ExecsFirst, Unhailed
<1>6. LastAsked' /\ OutcomeTruth'
  BY <1>0 DEF LastAsked, OutcomeTruth, Nothing
<1>7. Fits'
  <2>1. \A i \in 1 .. Len(inbox') : Exec(inbox'[i]) => inbox'[i].seq \in Under'
    BY DEF Under, Asked
  <2>2. pc' \in Handling => req'.seq \in Under'
    BY DEF Under, Owed, Handling
  <2>3. pc' \in Booting /\ ledger'.state # "IDLE" => ledger'.seq \in Under'
    BY DEF Under, Owed, Booting
  <2>4. pc' = "announce" /\ pending' # NoReport => pending'.seq \in Under'
    BY DEF Under, Owed, Booting
  <2>5. \A i \in 1 .. Len(outbox') : ~IsInfo(outbox'[i]) => outbox'[i].seq \in Under'
    BY DEF Under, Told
  <2> QED BY <1>3, <2>1, <2>2, <2>3, <2>4, <2>5 DEF Fits, Own
<1> QED BY <1>2, <1>4, <1>5, <1>6, <1>7

(* A port nobody reads.                                                    *)
LEMMA UnheardOutcome ==
    ASSUME OutcomeInv, Unheard
    PROVE  OutcomeInv'
<1> USE DEF OutcomeInv
<1>0. /\ UNCHANGED <<deviceVars, inbox, usb, dead, hpc, sess, n, greeted, got, budget>>
      /\ hpc = "closed" /\ inbox \in Seq(Msgs) /\ outbox \in Seq(Replies)
      /\ outbox # <<>> /\ outbox' = Tail(outbox)
  BY DEF Unheard, clientVars, BoardTypes
<1>1. ClientTypes' /\ OutcomeTruth'
  BY <1>0 DEF ClientTypes, OutcomeTruth, MayEnd
<1>2. LastAsked'
  BY <1>0, LastStays
<1>3. outbox' \in Seq(Replies) /\ Left(outbox, outbox') /\ Nearby(inbox, inbox')
  BY <1>0, LeftByTail, NearbyIs
<1>4. BoardTypes' /\ SeqsKnown' /\ Fits' /\ Ran' /\ Foretold'
  BY <1>0, <1>3, ClientKeeps
<1>5. SeqsOwn' /\ WireOrder'
  BY <1>0, <1>4 DEF SeqsOwn, WireOrder
<1> QED BY <1>1, <1>2, <1>4, <1>5

LEMMA OutcomeNext ==
    LedgerInv /\ OutcomeInv /\ [LinkNext]_linkVars => OutcomeInv'
<1> SUFFICES ASSUME LedgerInv, OutcomeInv, [LinkNext]_linkVars PROVE OutcomeInv'
  OBVIOUS
<1>1. CASE Board \/ OutsideReset \/ Unheard
  BY <1>1, BoardOutcome, OutsideOutcome, UnheardOutcome
<1>2. CASE Client
  BY <1>2, OpenOutcome, SendOutcome, CallOutcome, HandshakeOutcome DEF Client
<1>3. CASE UNCHANGED linkVars
  <2>1. UNCHANGED <<ledger, pc, req, pending, inbox, outbox, usb, dead, sess, n, hpc, greeted, got,
                    budget>>
    BY <1>3 DEF linkVars, vars, deviceVars, clientVars
  <2>2. BoardTypes' /\ ClientTypes' /\ Owed' = Owed /\ Ran'
    BY <2>1 DEF OutcomeInv, BoardTypes, ClientTypes, Owed, Ran
  <2>3. SeqsKnown' /\ SeqsOwn'
    BY <2>1, <2>2 DEF OutcomeInv, SeqsKnown, SeqsOwn, Under, Known
  <2>4. WireOrder'
    BY <2>1, <2>2 DEF OutcomeInv, WireOrder, Foretold, Handshake, Undisturbed
  <2>5. LastAsked' /\ OutcomeTruth'
    BY <2>1, LastStays DEF OutcomeInv, OutcomeTruth, MayEnd
  <2>6. Fits'
    BY <2>1 DEF OutcomeInv, Fits, Own, Seq_, Fitting, MayEnd, ReportOf
  <2> QED BY <2>2, <2>3, <2>4, <2>5, <2>6 DEF OutcomeInv
<1> QED BY <1>1, <1>2, <1>3 DEF LinkNext

LEMMA OutcomeAlways == LinkSpec => []OutcomeInv
BY OutcomeInit, OutcomeNext, LedgerAlways, PTL DEF LinkSpec

(***************************************************************************)
(* What load_exec returns to a session that the answer to an Info of its   *)
(* own greeted is the outcome of the payload it sent, and what it returns  *)
(* under that payload's seq is true of it in any session: for any number   *)
(* of them that use the same seqs over a port nothing is discarded from,   *)
(* of resets and of deadlines that cut an answer off (Runner::load_exec    *)
(* and open_board).                                                        *)
(***************************************************************************)
THEOREM OutcomesAreTrue == LinkSpec => []OutcomeTruth
<1>1. OutcomeInv => OutcomeTruth
  BY DEF OutcomeInv
<1> QED BY <1>1, OutcomeAlways, PTL

(* A frame is lost to noise only behind a torn one, and a payload is not.  *)
LEMMA TornBoard ==
    ASSUME LedgerInv, BoardTypes, WireTorn, UNCHANGED hpc,
           Firmware \/ (\E p, f \in BOOLEAN : Reset(p, f))
    PROVE  WireTorn'
<1>1. inbox' \in Seq(Msgs) /\ Left(inbox, inbox')
  <2>0. inbox \in Seq(Msgs)
    BY DEF BoardTypes
  <2>1. CASE Inner \/ Speak
    BY <2>0, <2>1, InnerFlow, SpeakFlow, LeftSelf
  <2>2. CASE Query_ \/ Load
    BY <2>0, <2>2, QueryFlow, LoadFlow, LeftByTail
  <2>3. CASE Undecodable
    BY <2>3, TornFlow DEF BoardTypes
  <2>4. CASE \E p, f \in BOOLEAN : Reset(p, f)
    BY <2>0, <2>4, LeftBySubSeq DEF Reset
  <2> QED BY <2>1, <2>2, <2>3, <2>4, FirmwareIs DEF Bursts
<1>2. /\ Untorn(inbox) => Untorn(inbox')
      /\ inbox' # <<>> => inbox # <<>> /\ inbox'[Len(inbox')] = inbox[Len(inbox)]
  BY <1>1, LeftOrder DEF BoardTypes
<1> QED BY <1>2 DEF WireTorn

LEMMA WdtBoard ==
    ASSUME WdtOff, Firmware \/ (\E p, f \in BOOLEAN : Reset(p, f))
    PROVE  WdtOff'
<1> USE DEF WdtOff, Goto, Places, Blamed, Booting
<1>1. CASE Stamp \/ Clear \/ Swap \/ Announce
  BY <1>1 DEF Stamp, Clear, Swap, Announce
<1>2. CASE Undecodable \/ Query_ \/ Load
  BY <1>2 DEF Undecodable, Query_, Load, deviceVars
<1>3. CASE ArmSeq \/ ArmState \/ ArmWdt \/ Return \/ DisarmWdt \/ Disarm
  BY <1>3 DEF ArmSeq, ArmState, ArmWdt, Return, DisarmWdt, Disarm
<1>4. CASE Answer \/ Fault \/ Blame
  BY <1>4 DEF Answer, Fault, Blame
<1>5. CASE \E p, f \in BOOLEAN : Reset(p, f)
  BY <1>5 DEF Reset
<1> QED BY <1>1, <1>2, <1>3, <1>4, <1>5 DEF Firmware

(* What is queued last stays last while the board works towards it.        *)
LEMMA QueuedLeft ==
    ASSUME inbox \in Seq(Msgs), inbox' \in Seq(Msgs), Left(inbox, inbox'), inbox' # <<>>, Queued,
           got' = got
    PROVE  Queued'
<1> DEFINE d == Len(inbox) - Len(inbox')
<1>1. /\ Len(inbox) \in Nat /\ Len(inbox') \in Nat /\ d \in Nat
      /\ \A i \in 1 .. Len(inbox') : inbox'[i] = inbox[d + i]
  BY DEF Left
<1>2. inbox'[Len(inbox')] = inbox[Len(inbox)]
  BY LeftOrder
<1>3. \A i \in 1 .. Len(inbox') - 1 : d + i \in 1 .. Len(inbox) - 1 /\ i \in 1 .. Len(inbox')
  BY <1>1
<1> QED BY <1>1, <1>2, <1>3 DEF Queued

LEMMA TrackFirmware ==
    ASSUME LedgerInv, OutcomeInv, WireTorn, Track, Firmware, CallStays, UNCHANGED <<hpc, greeted>>
    PROVE  Track'
<1> USE DEF OutcomeInv
<1>0. /\ inbox \in Seq(Msgs) /\ outbox \in Seq(Replies) /\ got' = got /\ hpc' = hpc
      /\ (greeted' <=> greeted) /\ Seq_(n)' = Seq_(n)
  BY DEF BoardTypes, CallStays, Seq_
<1>q. CASE hpc = "ready" /\ greeted
  <2>1. pc = "idle" /\ NoExec(inbox)
    BY <1>q DEF Track, Quiet
  <2>2. ~Load
    <3>1. Load => inbox # <<>> /\ Exec(Head(inbox))
      BY LoadFlow
    <3> QED BY <1>0, <2>1, <3>1, LeftByTail DEF NoExec
  <2>3. Query_ \/ Undecodable
    BY <2>1, <2>2, FirmwareIs, InnerFlow, SpeakFlow DEF Bursts
  <2>4. pc' = "idle" /\ inbox' \in Seq(Msgs) /\ Left(inbox, inbox')
    BY <1>0, <2>3, QueryFlow, TornFlow, LeftByTail DEF BoardTypes
  <2>5. NoExec(inbox')
    BY <1>0, <2>1, <2>4, LeftOrder
  <2> QED BY <1>0, <1>q, <2>4, <2>5 DEF Track, Quiet
<1>e. CASE hpc = "exec" /\ greeted /\ got.ask.fate # "panics"
  <2>0. Followed /\ (Answering => Quiet) /\ got.ask \in Execs /\ got.ask.seq = Seq_(n) /\ Exec(got.ask)
    <3>1. got.ask = LoadExec(Seq_(n), got.ask.fate) /\ got.ask.fate \in Fates
      BY <1>e DEF LastAsked
    <3>2. Seq_(n) \in AllSeqs
      BY DEF ClientTypes, Seq_, AllSeqs
    <3>3. \A q \in AllSeqs, f \in Fates : LoadExec(q, f) \in Execs /\ LoadExec(q, f).seq = q
                                          /\ Exec(LoadExec(q, f))
      BY DEF LoadExec, Execs, Exec
    <3>4. got.ask \in Execs /\ got.ask.seq = Seq_(n) /\ Exec(got.ask)
      BY <3>1, <3>2, <3>3
    <3> QED BY <1>e, <3>4 DEF Track
  <2> SUFFICES Followed' /\ (Answering' => Quiet')
    BY <1>0, <1>e DEF Track
  <2>1. CASE Inner
    <3>1. UNCHANGED <<inbox, outbox>> /\ pc # "idle"
      BY <2>1, InnerFlow
    <3>2. ~Answering /\ ~Answering'
      BY <1>0, <2>0, <3>1 DEF Answering, Quiet, Own
    <3>3. NoExec(inbox) /\ ((pc \in Handling /\ req = got.ask) \/ Recorded \/ Reported)
      BY <2>0, <3>1, <3>2 DEF Followed
    <3>4. CASE pc \in Handling /\ req = got.ask
      <4>1. pc' \in Handling /\ req' = req
        BY <2>1, <3>4 DEF Inner, Stamp, Clear, Swap, ArmSeq, ArmState, ArmWdt, Return, DisarmWdt, Disarm,
           Fault, Blame, Goto, Handling, Places, Blamed, Booting
      <4> QED BY <1>0, <3>1, <3>2, <3>3, <3>4, <4>1 DEF Followed
    <3>5. CASE Recorded
      <4>1. CASE pc = "stamp"
        <5>1. Stamp
          BY <2>1, <4>1 DEF Inner, Clear, Swap, ArmSeq, ArmState, ArmWdt, Return, DisarmWdt, Disarm,
             Fault, Blame, Goto
        <5>2. /\ pc' = "swap" /\ ledger'.build = build'
              /\ ledger'.state = ledger.state /\ ledger'.seq = ledger.seq
          BY <3>5, <5>1 DEF Stamp, Recorded, LedgerInv, LedgerShape
        <5> QED BY <1>0, <3>1, <3>2, <3>3, <3>5, <5>2 DEF Followed, Recorded, Own
      <4>2. CASE pc = "swap"
        <5>1. Swap
          BY <2>1, <4>2 DEF Inner, Stamp, Clear, ArmSeq, ArmState, ArmWdt, Return, DisarmWdt, Disarm,
             Fault, Blame, Goto
        <5>2. pc' = "announce" /\ pending' = ReportOf(ledger)
          BY <5>1 DEF Swap, Goto
        <5>3. /\ \E k \in Said : ReportOf(ledger) = Reply(k, ledger.seq)
              /\ ledger.seq \in AllSeqs
          BY <3>5, <4>2 DEF Recorded, ReportOf, BoardTypes, Booting, Said
        <5>4. pending' # NoReport /\ pending'.seq = ledger.seq
          BY <5>2, <5>3, ReplyKinds
        <5> QED BY <1>0, <3>1, <3>2, <3>3, <3>5, <5>2, <5>4 DEF Followed, Recorded, Reported, Own
      <4> QED BY <3>5, <4>1, <4>2 DEF Recorded
    <3>6. CASE Reported
      BY <2>1, <3>6 DEF Reported, Inner, Stamp, Clear, Swap, ArmSeq, ArmState, ArmWdt, Return, DisarmWdt,
         Disarm, Fault, Blame, Goto
    <3> QED BY <3>3, <3>4, <3>5, <3>6
  <2>2. CASE Speak
    <3>1. UNCHANGED inbox /\ pc # "idle" /\ pc' = "idle"
      BY <2>2, SpeakFlow
    <3>2. NoExec(inbox) /\ ((pc \in Handling /\ req = got.ask) \/ Recorded \/ Reported)
      BY <2>0, <3>1 DEF Followed, Quiet
    <3>3. \E r \in Answers : outbox' = Append(outbox, r) /\ r.seq = Seq_(n)
      <4>1. CASE Announce
        <5>1. Reported /\ pending # NoReport /\ pending \in Answers /\ outbox' = Append(outbox, pending)
          BY <3>2, <4>1 DEF Announce, Goto, Say, Reported, Recorded, Handling, BoardTypes
        <5> QED BY <5>1 DEF Reported, Own
      <4>2. CASE Answer
        <5> DEFINE k == IF req.fate = "tooBig" THEN "Error" ELSE "Ok"
        <5>1. pc = "reply" /\ req = got.ask /\ outbox' = Append(outbox, Reply(k, req.seq))
          BY <3>2, <4>2 DEF Answer, Goto, Say, Reported, Recorded
        <5>2. k \in Said
          BY DEF Said
        <5>3. got.ask.seq \in AllSeqs
          BY <2>0 DEF Execs
        <5> HIDE DEF k
        <5> QED BY <2>0, <5>1, <5>2, <5>3, ReplyKinds
      <4> QED BY <2>2, <4>1, <4>2 DEF Speak
    <3> PICK r \in Answers : outbox' = Append(outbox, r) /\ r.seq = Seq_(n)
      BY <3>3
    <3>4. Len(outbox') = Len(outbox) + 1 /\ outbox'[Len(outbox) + 1] = r /\ Len(outbox) \in Nat
      BY <1>0, Appended
    <3>5. Len(outbox) + 1 \in 1 .. Len(outbox') /\ ~IsInfo(r)
      BY <3>4, ReplyKinds
    <3>6. Answering'
      BY <1>0, <3>4, <3>5 DEF Answering, Own
    <3> QED BY <3>1, <3>2, <3>6 DEF Followed, Quiet
  <2>3. CASE Query_
    <3>1. /\ inbox # <<>> /\ Asks(Head(inbox)) /\ inbox' = Tail(inbox) /\ inbox' \in Seq(Msgs)
          /\ pc = "idle" /\ pc' = "idle" /\ \E r \in Infos : outbox' = Append(outbox, r)
      BY <2>3, QueryFlow DEF BoardTypes
    <3> PICK r \in Infos : outbox' = Append(outbox, r)
      BY <3>1
    <3>2. /\ Left(inbox, inbox') /\ Len(inbox') = Len(inbox) - 1
          /\ ~Exec(inbox[1]) /\ Len(inbox) \in Nat
      <4>1. Head(inbox) = inbox[1] /\ Head(inbox) \in Msgs
        BY <1>0, <3>1, LeftByTail
      <4> QED BY <1>0, <3>1, <4>1, LeftByTail, MsgKinds
    <3>3. /\ Len(outbox) \in Nat /\ Len(outbox') = Len(outbox) + 1 /\ outbox'[Len(outbox) + 1] = r
          /\ \A i \in 1 .. Len(outbox) : outbox'[i] = outbox[i]
      BY <1>0, Appended
    <3>r. IsInfo(r)
      BY ReplyKinds
    <3>4. \A i \in 1 .. Len(outbox') : i \in 1 .. Len(outbox) \/ IsInfo(outbox'[i])
      BY <3>3, <3>r
    <3>5. \A i \in 1 .. Len(outbox) : i \in 1 .. Len(outbox')
      BY <3>3
    <3>6. Answering <=> Answering'
      BY <1>0, <3>3, <3>4, <3>5 DEF Answering, Own
    <3>7. Quiet => Quiet'
      BY <1>0, <3>1, <3>2, LeftOrder DEF Quiet
    <3>8. CASE Queued
      <4>1. Len(inbox) # 1
        BY <2>0, <3>2, <3>8 DEF Queued
      <4>2. inbox' # <<>>
        <5>1. Len(inbox') # 0 /\ Len(<<>>) = 0
          BY <3>2, <4>1
        <5> QED BY <5>1
      <4>3. Queued'
        BY <1>0, <3>1, <3>2, <3>8, <4>2, QueuedLeft
      <4> QED BY <2>0, <3>1, <3>6, <3>7, <4>3 DEF Followed
    <3>9. CASE Answering
      BY <2>0, <3>6, <3>7, <3>9 DEF Followed
    <3> QED BY <2>0, <3>1, <3>8, <3>9 DEF Followed, Handling, Booting, Recorded, Reported
  <2>4. CASE Undecodable
    <3>1. /\ Left(inbox, inbox') /\ outbox' = outbox /\ pc = "idle" /\ pc' = "idle"
          /\ inbox' \in Seq(Msgs)
          /\ Len(inbox) >= 2 /\ inbox[1] = Torn /\ inbox' = Tail(Tail(inbox))
      BY <2>4, TornFlow DEF BoardTypes
    <3>2. Answering <=> Answering'
      BY <1>0, <3>1 DEF Answering, Own
    <3>3. Quiet => Quiet'
      BY <1>0, <3>1, LeftOrder DEF Quiet
    <3>4. CASE Queued
      <4>1. Len(inbox) \in Nat /\ 1 \in 1 .. Len(inbox) - 1 /\ ~Exec(inbox[1 + 1])
        BY <1>0, <3>1 DEF WireTorn, Untorn
      <4>2. Len(inbox) # 2
        <5>1. inbox[Len(inbox)] = got.ask
          BY <3>4 DEF Queued
        <5>2. Len(inbox) = 2 => Exec(inbox[2])
          BY <2>0, <5>1
        <5>3. ~Exec(inbox[2])
          BY <4>1
        <5> QED BY ONLY <5>2, <5>3
      <4>3. inbox # <<>> /\ Len(Tail(inbox)) = Len(inbox) - 1 /\ Tail(inbox) \in Seq(Msgs)
        BY <1>0, <3>1, LeftByTail
      <4>4. Len(<<>>) = 0 /\ Tail(inbox) # <<>>
        BY <3>1, <4>1, <4>3
      <4>5. Len(inbox') = Len(Tail(inbox)) - 1
        BY <3>1, <4>3, <4>4, LeftByTail
      <4>6. inbox' # <<>>
        <5>1. Len(inbox') # 0
          BY <3>1, <4>1, <4>2, <4>3, <4>5
        <5> QED BY <4>4, <5>1
      <4>7. Queued'
        BY <1>0, <3>1, <3>4, <4>6, QueuedLeft
      <4> QED BY <2>0, <3>1, <3>2, <3>3, <4>7 DEF Followed
    <3>5. CASE Answering
      BY <2>0, <3>2, <3>3, <3>5 DEF Followed
    <3> QED BY <2>0, <3>1, <3>4, <3>5 DEF Followed, Handling, Booting, Recorded, Reported
  <2>5. CASE Load
    <3>1. /\ inbox # <<>> /\ Exec(Head(inbox)) /\ inbox' = Tail(inbox) /\ req' = Head(inbox)
          /\ outbox' = outbox /\ pc = "idle" /\ pc' \in Handling
      BY <2>5, LoadFlow
    <3>2. Head(inbox) = inbox[1] /\ 1 \in 1 .. Len(inbox) /\ Len(inbox') = Len(inbox) - 1
      BY <1>0, <3>1, LeftByTail
    <3>3. ~Answering /\ ~Answering'
      BY <1>0, <2>0, <3>1, <3>2 DEF Answering, Own, Quiet, NoExec
    <3>4. Queued
      BY <2>0, <3>1, <3>3 DEF Followed, Handling, Booting, Recorded, Reported
    <3>5. Len(inbox) = 1 /\ inbox[1] = got.ask
      <4>1. Len(inbox) \in Nat /\ (Len(inbox) # 1 => 1 \in 1 .. Len(inbox) - 1)
        BY <1>0, <3>2
      <4> QED BY <3>1, <3>2, <3>4, <4>1 DEF Queued
    <3>6. NoExec(inbox')
      BY <3>2, <3>5 DEF NoExec
    <3> QED BY <1>0, <3>1, <3>2, <3>3, <3>5, <3>6 DEF Followed
  <2> QED BY <2>1, <2>2, <2>3, <2>4, <2>5, FirmwareIs DEF Bursts
<1> QED BY <1>0, <1>q, <1>e DEF Track

(* The resets of the board's own leave the payload's fate in the ledger.   *)
LEMMA TrackReset ==
    ASSUME LedgerInv, OutcomeInv, WdtOff, Track, OwnReset, PortDrops, CallStays,
           UNCHANGED <<hpc, greeted>>
    PROVE  Track'
<1> USE DEF OutcomeInv
<1>0. /\ inbox \in Seq(Msgs) /\ got' = got /\ hpc' = hpc /\ Seq_(n)' = Seq_(n)
      /\ (greeted' <=> greeted)
      /\ outbox' \in {outbox, <<>>}
  BY DEF BoardTypes, CallStays, Seq_, PortDrops
<1>1. /\ Reset(FALSE, FALSE) /\ pc \in Handling /\ pc # "idle"
      /\ ledger.state = "IDLE" => pc = "reply" \/ (pc = "drain" /\ req.fate = "panics")
  BY OwnResetIs DEF Handling
<1>2. greeted => hpc # "ready"
  BY <1>1 DEF Track, Quiet
<1>3. ASSUME hpc = "exec", greeted, got.ask.fate # "panics" PROVE Followed' /\ ~Answering'
  <2>1. ~Answering /\ NoExec(inbox) /\ req = got.ask
    BY <1>1, <1>3 DEF Track, Followed, Quiet, Recorded, Reported, Handling, Booting
  <2>2. pc # "reply"
    BY <1>1 DEF OwnReset, SoftwareReset, WatchdogFires, WdtOff, Places, Blamed, Booting
  <2>3. ledger.state # "IDLE" /\ ledger.seq = req.seq /\ ledger.build = build
    BY <1>1, <1>3, <2>1, <2>2 DEF LedgerInv, BuildsOK, CellsFollow, BoardTypes, Handling,
             Places, Blamed, Booting
  <2>4. got.ask.seq = Seq_(n)
    <3>1. got.ask = LoadExec(Seq_(n), got.ask.fate)
      BY <1>3 DEF LastAsked
    <3>2. \A q, f : LoadExec(q, f).seq = q
      BY DEF LoadExec
    <3> QED BY <3>1, <3>2
  <2>5. pc' = "stamp" /\ ledger' = ledger /\ build' = build
    BY <1>1 DEF Reset
  <2>6. NoExec(inbox')
    <3>1. inbox' \in Seq(Msgs) /\ Left(inbox, inbox')
      BY <1>0, <1>1, LeftBySubSeq DEF Reset
    <3> QED BY <1>0, <2>1, <3>1, LeftOrder
  <2>7. ~Answering'
    BY <1>0, <2>1 DEF Answering, Own
  <2> QED BY <1>0, <2>1, <2>3, <2>4, <2>5, <2>6, <2>7 DEF Followed, Recorded, Own
<1> QED BY <1>0, <1>2, <1>3 DEF Track

LEMMA LostBoard ==
    ASSUME LedgerInv, OutcomeInv, LostInv, Board
    PROVE  LostInv'
<1> USE DEF LostInv, OutcomeInv
<1>0. /\ UNCHANGED <<hpc, greeted, got, budget>> /\ CallStays
      /\ (Undisturbed' <=> Undisturbed)
  BY DEF Board, clientVars, CallStays, Undisturbed
<1>1. NoAnswerLost'
  BY <1>0 DEF NoAnswerLost
<1>2. CASE Firmware
  BY <1>0, <1>1, <1>2, TornBoard, WdtBoard, TrackFirmware
<1>3. CASE OwnReset /\ PortDrops
  BY <1>0, <1>1, <1>3, TornBoard, WdtBoard, TrackReset, OwnResetIs
<1> QED BY <1>2, <1>3 DEF Board, BoardStep, OwnReset

LEMMA LostOutside ==
    ASSUME LedgerInv, OutcomeInv, LostInv, OutsideReset
    PROVE  LostInv'
<1> USE DEF LostInv, OutcomeInv
<1>1. hpc' = hpc /\ (\E p, f \in BOOLEAN : Reset(p, f)) /\ ~Undisturbed'
  BY BudgetSpent DEF OutsideReset, clientVars
<1> QED BY <1>1, TornBoard, WdtBoard DEF NoAnswerLost

LEMMA LostHandshake ==
    ASSUME OutcomeInv, LostInv, SendInfo \/ RecvInfo \/ InfoTimeout \/ Unreachable
    PROVE  LostInv'
<1> USE DEF LostInv, OutcomeInv
<1>0. /\ UNCHANGED <<deviceVars, got, budget>> /\ inbox \in Seq(Msgs) /\ outbox \in Seq(Replies)
      /\ hpc \in {"hello", "helloWait"} /\ hpc' # "exec" /\ got.out = "none"
      /\ hpc = "hello" => hpc' \in {"helloWait", "closed"}
      /\ UNCHANGED <<pc, wdt>>
  BY DEF SendInfo, RecvInfo, InfoTimeout, Unreachable, vars, deviceVars, BoardTypes, LastAsked
<1>1. NoAnswerLost' /\ WdtOff'
  BY <1>0 DEF NoAnswerLost, Undisturbed, WdtOff
<1>2. CASE SendInfo
  <2> PICK m : m = Query(Seq_(0))
    OBVIOUS
  <2>1. inbox' = Append(inbox, m) /\ hpc' = "helloWait"
    BY <1>2 DEF SendInfo
  <2>m. ~Exec(m) /\ m # Torn
    BY DEF Query, Torn, Exec
  <2>2. Len(inbox) \in Nat /\ Len(inbox') = Len(inbox) + 1 /\ inbox'[Len(inbox) + 1] = m
        /\ \A i \in 1 .. Len(inbox) : inbox'[i] = inbox[i]
    BY <1>0, <2>1, Appended
  <2>3. ASSUME NEW i \in 1 .. Len(inbox') - 1, inbox'[i] = Torn PROVE ~Exec(inbox'[i + 1])
    <3>1. CASE i + 1 = Len(inbox) + 1
      BY <2>2, <2>m, <3>1
    <3>2. CASE i + 1 # Len(inbox) + 1
      <4>1. i \in 1 .. Len(inbox) - 1 /\ i \in 1 .. Len(inbox) /\ i + 1 \in 1 .. Len(inbox)
        BY <2>2, <3>2
      <4> QED BY <2>2, <2>3, <4>1 DEF WireTorn, Untorn
    <3> QED BY <3>1, <3>2
  <2>4. WireTorn'
    <3>1. inbox'[Len(inbox')] # Torn
      BY <2>2, <2>m
    <3> QED BY <2>3, <3>1 DEF WireTorn, Untorn
  <2> QED BY <1>1, <2>1, <2>4 DEF Track
<1>3. CASE RecvInfo
  <2>1. /\ inbox' = inbox /\ outbox # <<>> /\ hpc = "helloWait"
        /\ hpc' = IF Head(outbox).kind = "Info" THEN "ready" ELSE "hello"
        /\ greeted' <=> Head(outbox).seq.sess = sess
    BY <1>3 DEF RecvInfo
  <2>2. WireTorn'
    BY <2>1 DEF WireTorn
  <2>3. CASE hpc' = "ready" /\ greeted'
    <3>1. Head(outbox) = outbox[1] /\ 1 \in 1 .. Len(outbox)
      BY <1>0, <2>1, LeftByTail
    <3>2. Hails(outbox[1], sess)
      BY <2>1, <2>3, <3>1 DEF Hails
    <3>3. NoExec(inbox) /\ (Undisturbed => pc = "idle")
      BY <1>0, <3>1, <3>2 DEF WireOrder, Handshake
    <3> QED BY <1>0, <1>1, <2>1, <2>2, <3>3 DEF Track, Quiet, Undisturbed
  <2> QED BY <1>0, <1>1, <2>1, <2>2, <2>3 DEF Track
<1>4. CASE InfoTimeout \/ Unreachable
  <2>1. inbox' = inbox /\ hpc' \in {"hello", "closed"}
    BY <1>4 DEF InfoTimeout, Unreachable, vars
  <2> QED BY <1>1, <2>1 DEF WireTorn, Track
<1> QED BY <1>2, <1>3, <1>4

LEMMA LostOpen ==
    ASSUME LedgerInv, OutcomeInv, LostInv, Open
    PROVE  LostInv'
<1> USE DEF LostInv, OutcomeInv
<1>1. hpc' = "hello" /\ got' = Nothing
  BY DEF Open
<1>2. WdtOff' /\ WireTorn'
  <2>1. CASE UNCHANGED <<deviceVars, inbox, budget>>
    BY <1>1, <2>1 DEF deviceVars, WdtOff, WireTorn
  <2>2. CASE \E p \in BOOLEAN : Reset(p, FALSE)
    <3>1. \E p, f \in BOOLEAN : Reset(p, f)
      BY <2>2
    <3>2. WdtOff'
      BY <3>1, WdtBoard
    <3>3. inbox' \in Seq(Msgs) /\ Left(inbox, inbox')
      BY <3>1, LeftBySubSeq DEF Reset, BoardTypes
    <3> QED BY <1>1, <3>2, <3>3, LeftOrder DEF WireTorn, BoardTypes
  <2> QED BY <2>1, <2>2 DEF Open, OpenPort
<1> QED BY <1>1, <1>2 DEF Track, NoAnswerLost, Nothing

LEMMA NotLast ==
    ASSUME NEW k \in Nat, NEW i \in 1 .. k, i # k
    PROVE  i \in 1 .. k - 1 /\ i \in 1 .. k /\ i + 1 \in 1 .. k
OBVIOUS

LEMMA LostSend ==
    ASSUME OutcomeInv, LostInv, SendExec
    PROVE  LostInv'
<1> USE DEF LostInv, OutcomeInv
<1>0. /\ UNCHANGED <<deviceVars, outbox, budget, sess, greeted>>
      /\ hpc = "ready" /\ hpc' = "exec" /\ n' = n + 1 /\ UNCHANGED <<pc, wdt>> /\ inbox \in Seq(Msgs) /\ n \in Nat /\ sess \in Nat
  BY DEF SendExec, deviceVars, BoardTypes, ClientTypes
<1>m. \E f \in Fates : LET m == LoadExec(Seq_(n'), f)
                      IN  inbox' = Append(inbox, m) /\ got' = [out |-> "none", from |-> NoSeq, ask |-> m]
  BY DEF SendExec
<1>x. \A q, f : Exec(LoadExec(q, f))
  BY DEF LoadExec, Exec
<1> PICK m : /\ inbox' = Append(inbox, m) /\ Exec(m)
             /\ got' = [out |-> "none", from |-> NoSeq, ask |-> m]
  BY <1>m, <1>x
<1>1. NoAnswerLost' /\ WdtOff' /\ (Undisturbed' <=> Undisturbed) /\ got'.ask = m
  BY <1>0 DEF NoAnswerLost, Undisturbed, WdtOff
<1>2. Len(inbox) \in Nat /\ Len(inbox') = Len(inbox) + 1 /\ inbox'[Len(inbox) + 1] = m
      /\ \A i \in 1 .. Len(inbox) : inbox'[i] = inbox[i]
  BY <1>0, Appended
<1>3. inbox' # <<>> /\ inbox'[Len(inbox')] = m /\ m # Torn
  BY <1>2, MsgKinds
<1>4. WireTorn'
  <2>1. ASSUME NEW i \in 1 .. Len(inbox') - 1, inbox'[i] = Torn PROVE ~Exec(inbox'[i + 1])
    <3>1. CASE i = Len(inbox)
      <4>1. inbox # <<>> /\ Len(inbox) \in 1 .. Len(inbox)
        BY <1>0, <1>2, <2>1, <3>1
      <4> QED BY <1>0, <1>2, <2>1, <3>1, <4>1 DEF WireTorn
    <3>2. CASE i # Len(inbox)
      <4>1. i \in 1 .. Len(inbox) - 1 /\ i \in 1 .. Len(inbox) /\ i + 1 \in 1 .. Len(inbox)
        <5>1. Len(inbox) \in Nat /\ i \in 1 .. Len(inbox)
          BY <1>2, <2>1
        <5> QED BY ONLY <3>2, <5>1, NotLast
      <4> QED BY <1>2, <2>1, <4>1 DEF WireTorn, Untorn
    <3> QED BY <3>1, <3>2
  <2> QED BY <1>3, <2>1 DEF WireTorn, Untorn
<1>5. ASSUME Undisturbed, greeted PROVE Track'
  <2>1. pc = "idle" /\ NoExec(inbox)
    BY <1>0, <1>5 DEF Track, Quiet
  <2>2. \A i \in 1 .. Len(inbox') - 1 : ~Exec(inbox'[i])
    BY <1>2, <2>1 DEF NoExec
  <2>3. Queued'
    BY <1>1, <1>3, <2>2 DEF Queued
  <2>4. \A i \in 1 .. Len(outbox) : ~IsInfo(outbox[i]) => outbox[i].seq # Seq_(n)'
    <3>1. \A i \in 1 .. Len(outbox) : ~IsInfo(outbox[i]) => Known(outbox[i].seq)
      BY DEF SeqsKnown, Under, Told
    <3>2. Seq_(n)'.n = n + 1 /\ Seq_(n)'.sess = sess
      BY <1>0 DEF Seq_
    <3> QED BY <1>0, <3>1, <3>2 DEF Known, AllSeqs
  <2>5. ~Answering'
    BY <1>0, <2>4 DEF Answering, Own
  <2> QED BY <1>0, <2>1, <2>3, <2>5 DEF Track, Followed
<1>6. ~greeted => Track'
  BY <1>0 DEF Track
<1> QED BY <1>1, <1>4, <1>5, <1>6

LEMMA EmptyNoExec == NoExec(<<>>)
BY DEF NoExec

LEMMA TornNoExec == NoExec(<<Torn>>)
<1>1. Len(<<Torn>>) = 1 /\ <<Torn>>[1] = Torn
  OBVIOUS
<1>2. \A i \in 1 .. Len(<<Torn>>) : <<Torn>>[i] = Torn
  BY <1>1
<1> QED BY ONLY <1>2, MsgKinds DEF NoExec

LEMMA LostCall ==
    ASSUME OutcomeInv, LostInv, RecvExec \/ Reopen \/ ExecTimeout \/ ExecLate \/ Close \/ Kill
    PROVE  LostInv'
<1> USE DEF LostInv, OutcomeInv
<1>0. /\ UNCHANGED <<deviceVars, sess, n>> /\ inbox \in Seq(Msgs) /\ outbox \in Seq(Replies)
      /\ UNCHANGED <<ledger, build, pc, req, pending, wdt>> /\ got'.ask = got.ask /\ Seq_(n)' = Seq_(n)
      /\ (greeted' <=> greeted)
  <2>1. UNCHANGED <<deviceVars, sess, n, greeted>>
    BY ReopenIs DEF RecvExec, ExecTimeout, ExecLate, Deadline, Close, Kill, vars, clientVars
  <2>2. got'.ask = got.ask
    <3>1. \/ got' = got
          \/ \E k : got' = [got EXCEPT !.out = k]
          \/ \E k, s : got' = [got EXCEPT !.out = k, !.from = s]
      BY ReopenIs DEF RecvExec, ExecTimeout, ExecLate, Deadline, Close, Kill, clientVars
    <3>2. got = [out |-> got.out, from |-> got.from, ask |-> got.ask]
      BY DEF LastAsked
    <3> QED BY <3>1, <3>2
  <2> QED BY <2>1, <2>2 DEF deviceVars, BoardTypes, Seq_
<1>1. WdtOff'
  BY <1>0 DEF WdtOff
<1>2. CASE ExecLate
  <2>1. inbox' = inbox /\ hpc = "exec" /\ budget.late > 0 /\ budget'.late = budget.late - 1
    BY <1>2 DEF ExecLate, Deadline, vars, ClientTypes
  <2>2. ~Undisturbed'
    <3>1. budget'.late # MaxLate
      BY <2>1, BudgetAssumption DEF ClientTypes
    <3> QED BY <3>1 DEF Undisturbed
  <2>3. WireTorn'
    BY <2>1 DEF WireTorn
  <2> QED BY <1>1, <2>2, <2>3 DEF NoAnswerLost
<1>3. CASE Close \/ Kill
  <2>1. hpc' = "closed" /\ UNCHANGED <<got, budget>> /\ (inbox' = inbox \/ inbox' = Append(inbox, Torn))
    BY <1>3 DEF Close, Kill, vars
  <2>2. Untorn(inbox')
    <3>1. CASE inbox' = Append(inbox, Torn)
      <4>1. Len(inbox) \in Nat /\ Len(inbox') = Len(inbox) + 1 /\ inbox'[Len(inbox) + 1] = Torn
            /\ \A i \in 1 .. Len(inbox) : inbox'[i] = inbox[i]
        BY <1>0, <3>1, Appended
      <4>2. ASSUME NEW i \in 1 .. Len(inbox') - 1, inbox'[i] = Torn PROVE ~Exec(inbox'[i + 1])
        <5>1. CASE i + 1 = Len(inbox) + 1
          BY <4>1, <5>1, MsgKinds
        <5>2. CASE i + 1 # Len(inbox) + 1
          <6>1. i \in 1 .. Len(inbox) - 1 /\ i \in 1 .. Len(inbox) /\ i + 1 \in 1 .. Len(inbox)
            BY <4>1, <5>2
          <6> QED BY <4>1, <4>2, <6>1 DEF WireTorn, Untorn
        <5> QED BY <5>1, <5>2
      <4> QED BY <4>2 DEF Untorn
    <3> QED BY <2>1, <3>1 DEF WireTorn
  <2> QED BY <1>0, <1>1, <2>1, <2>2 DEF WireTorn, Track, NoAnswerLost, Undisturbed
<1>4. CASE Reopen
  <2>1. UNCHANGED <<hpc, got, budget, inbox, outbox>>
    BY <1>4, ReopenIs DEF clientVars
  <2>2. WireTorn' /\ NoAnswerLost' /\ (Undisturbed' <=> Undisturbed)
    BY <1>0, <2>1 DEF WireTorn, NoAnswerLost, Undisturbed
  <2>3. (Quiet' <=> Quiet) /\ (Answering' <=> Answering) /\ (Queued' <=> Queued)
    BY <1>0, <2>1 DEF Quiet, Answering, Queued, Own
  <2>4. (Recorded' <=> Recorded) /\ (Reported' <=> Reported)
    BY <1>0, <2>1 DEF Recorded, Reported, Own
  <2>5. Track => Track'
    BY <1>0, <2>1, <2>3, <2>4 DEF Track, Followed, Quiet
  <2> QED BY <1>1, <2>2, <2>5
<1>5. CASE ExecTimeout
  <2>1. /\ UNCHANGED <<budget, inbox, outbox>> /\ hpc = "exec" /\ hpc' \in {"ready", "closed"} /\ Settled
    BY <1>5 DEF ExecTimeout, Deadline, vars
  <2>2. pc = "idle" /\ outbox = <<>> /\ NoExec(inbox)
    <3>1. NoExec(<<>>) /\ NoExec(<<Torn>>)
      BY EmptyNoExec, TornNoExec
    <3> QED BY <2>1, <3>1 DEF Settled
  <2>3. ASSUME Undisturbed, greeted PROVE got.ask.fate = "panics"
    <3>1. ~Answering
      BY <2>2 DEF Answering
    <3>2. ~Queued
      <4>1. Queued => Exec(got.ask)
        BY <2>1 DEF LastAsked, LoadExec, Exec
      <4>2. inbox # <<>> => Len(inbox) \in 1 .. Len(inbox)
        BY <1>0
      <4> QED BY <2>2, <4>1, <4>2 DEF Queued, NoExec
    <3>3. ~Followed
      BY <2>2, <3>1, <3>2 DEF Followed, Recorded, Reported, Handling
    <3> QED BY <2>1, <2>3, <3>3 DEF Track
  <2>4. NoAnswerLost'
    BY <1>0, <2>1, <2>3 DEF NoAnswerLost, Undisturbed
  <2> QED BY <1>0, <1>1, <2>1, <2>2, <2>4 DEF WireTorn, Track, Quiet
<1>6. CASE RecvExec
  <2>1. /\ hpc = "exec" /\ outbox # <<>> /\ outbox' = Tail(outbox) /\ UNCHANGED <<inbox, budget>>
        /\ IF Mine(Head(outbox)) THEN hpc' = "ready" /\ got'.out \in Said ELSE UNCHANGED <<hpc, got>>
    BY <1>6 DEF RecvExec, Mine, Said, LastAsked
  <2>2. NoAnswerLost' /\ WireTorn' /\ (Undisturbed' <=> Undisturbed)
    BY <1>0, <2>1 DEF NoAnswerLost, Undisturbed, WireTorn, Said
  <2>3. Head(outbox) = outbox[1] /\ 1 \in 1 .. Len(outbox) /\ outbox[1] \in Replies
    BY <1>0, <2>1, LeftByTail
  <2>4. ASSUME Undisturbed, greeted, Mine(Head(outbox)) PROVE Track'
    <3>1. ~IsInfo(outbox[1]) /\ outbox[1] \in Answers /\ outbox[1].seq.n = n
      BY <2>3, <2>4, ReplyKinds DEF Mine, IsInfo
    <3>2. outbox[1].seq.sess = sess /\ outbox[1].seq \in AllSeqs
      BY <2>1, <2>3, <2>4, <3>1, ReplyKinds DEF SeqsOwn, Under, Told
    <3>3. Own(outbox[1])
      BY <3>1, <3>2 DEF AllSeqs, Own, Seq_
    <3>4. Answering /\ outbox[1].kind \in Fitting
      BY <2>3, <3>1, <3>3 DEF Answering, Fits
    <3>5. budget.resets = MaxResets /\ ~(budget.resets < MaxResets)
      BY <2>4, BudgetAssumption DEF Undisturbed
    <3>6. got.ask.fate # "panics"
      BY <3>4, <3>5 DEF Fitting, MayEnd
    <3> QED BY <1>0, <2>1, <2>4, <3>4, <3>6 DEF Track, Quiet
  <2>5. ASSUME Undisturbed, greeted, ~Mine(Head(outbox)) PROVE Track'
    <3>1. IsInfo(outbox[1]) \/ ~Own(outbox[1])
      <4>1. CASE ~IsInfo(outbox[1])
        <5>1. outbox[1].kind \in Said /\ outbox[1].seq.n # n
          BY <2>3, <2>5, <4>1, ReplyKinds DEF Mine, Said
        <5>2. Seq_(n).n = n
          BY DEF Seq_
        <5> QED BY <5>1, <5>2 DEF Own
      <4> QED BY <4>1
    <3>2. Len(outbox) \in Nat /\ Len(outbox') = Len(outbox) - 1
          /\ \A i \in 1 .. Len(outbox') : outbox'[i] = outbox[i + 1]
      BY <1>0, <2>1
    <3>3. \A i \in 1 .. Len(outbox) : i = 1 \/ (i - 1 \in 1 .. Len(outbox') /\ (i - 1) + 1 = i)
      BY <3>2
    <3>4. \A i \in 1 .. Len(outbox') : i + 1 \in 1 .. Len(outbox)
      BY <3>2
    <3>5. Answering => Answering'
      BY <1>0, <3>1, <3>2, <3>3 DEF Answering, Own
    <3>6. Answering' => Answering
      BY <1>0, <3>2, <3>4 DEF Answering, Own
    <3> QED BY <1>0, <2>1, <2>5, <3>5, <3>6 DEF Track, Quiet, Followed, Queued, Recorded, Reported, Own
  <2>6. ~greeted => Track'
    BY <1>0 DEF Track
  <2> QED BY <1>1, <2>2, <2>4, <2>5, <2>6
<1> QED BY <1>2, <1>3, <1>4, <1>5, <1>6

LEMMA LostUnheard ==
    ASSUME LostInv, Unheard
    PROVE  LostInv'
<1>1. /\ UNCHANGED <<pc, wdt, inbox, hpc, greeted, got, budget>> /\ hpc = "closed"
  BY DEF Unheard, deviceVars, clientVars
<1> QED BY <1>1 DEF LostInv, WdtOff, WireTorn, Track, NoAnswerLost, Undisturbed

LEMMA LostInit == LinkInit => LostInv
BY DEF LinkInit, Init, LostInv, WdtOff, WireTorn, Untorn, Track, NoAnswerLost, Nothing

LEMMA LostNext ==
    LedgerInv /\ OutcomeInv /\ LostInv /\ [LinkNext]_linkVars => LostInv'
<1> SUFFICES ASSUME LedgerInv, OutcomeInv, LostInv, [LinkNext]_linkVars PROVE LostInv'
  OBVIOUS
<1>1. CASE Board \/ OutsideReset
  BY <1>1, LostBoard, LostOutside
<1>u. CASE Unheard
  BY <1>u, LostUnheard
<1>2. CASE Client
  BY <1>2, LostOpen, LostHandshake, LostSend, LostCall DEF Client
<1>3. CASE UNCHANGED linkVars
  BY <1>3 DEF linkVars, vars, deviceVars, clientVars, LostInv, WdtOff, WireTorn, Track, NoAnswerLost,
     Undisturbed, Quiet, Followed, Queued, Recorded, Reported, Answering, Own, Seq_
<1> QED BY <1>1, <1>u, <1>2, <1>3 DEF LinkNext

(***************************************************************************)
(* The deadline of load_exec passes in silence only for a payload on which *)
(* the runner itself panics, unless somebody reset the board or an earlier *)
(* deadline cut an answer off, or no Info of the session's own was         *)
(* answered: no reset of the board's own, no dropped port and no torn      *)
(* frame of a killed client, before a busy board or an idle one, loses an  *)
(* answer.                                                                 *)
(***************************************************************************)
THEOREM SilenceIsPanic == LinkSpec => []NoAnswerLost
<1>1. LostInv => NoAnswerLost
  BY DEF LostInv
<1> QED BY <1>1, LostInit, LostNext, LedgerAlways, OutcomeAlways, PTL DEF LinkSpec

=============================================================================
