------------------------------ MODULE LabProofs ------------------------------
(***************************************************************************)
(* The programs of the lab keep start_frame's contract, and those that     *)
(* send and count report what happened: for any number of channels, and    *)
(* any sets of the bench's faults, on several channels of a round at once. *)
(***************************************************************************)
EXTENDS Lab, FiniteSetTheorems, WellFoundedInduction, TLAPS

(* The places where a frame may no longer be on its way.  BuffersAtRest is *)
(* not inductive: that arming finds every frame ended rests on what came   *)
(* before it, the wait for the receivers, or the end of a loop body - which *)
(* only the free-running demo reaches with frames in flight.               *)
Touching == {"arming", "starting", "judging", "comparing", "concluding", "reporting",
             "choosing", "verdict", "done", "fatal"}

Settled ==
    \/ program = "off"
    \/ pc \in Touching \cup {"receiving", "collecting"}
    \/ pc \in {"tail", "reported"} /\ ~(Demo /\ at.mode = "free_running")

RestInv == Settled => all_complete

LEMMA AllEnded == all_complete' => RestInv'
BY DEF RestInv

(* A step that moves no program leaves what has ended as it is.            *)
LEMMA StillEnded ==
    ASSUME RestInv, UNCHANGED <<program, pc, at>>, all_complete => all_complete'
    PROVE  RestInv'
BY DEF RestInv, Settled, Demo

LEMMA EndsKeep ==
    ASSUME NEW ends, Finish(ends)
    PROVE  all_complete => all_complete'
BY DEF Finish, all_complete

LEMMA AbortEnds == AbortAll => all_complete'
BY DEF AbortAll, Every, all_complete

(* A refused set leaves every channel that was complete as it was.         *)
LEMMA RefusedEnds ==
    ASSUME NEW wires, all_complete, StartAll(wires), Refused(wires)
    PROVE  all_complete'
BY DEF StartAll, Refused, all_complete

LEMMA HardwareStep == RestInv /\ (TxEnd \/ RxEnd) => RestInv'
<1> SUFFICES ASSUME RestInv, TxEnd \/ RxEnd PROVE RestInv'
  OBVIOUS
<1>1. CASE TxEnd
  BY <1>1, EndsKeep, StillEnded DEF TxEnd
<1>2. CASE RxEnd
  BY <1>2, StillEnded DEF RxEnd, all_complete
<1> QED
  BY <1>1, <1>2

LEMMA DiagStep == RestInv /\ DiagNext => RestInv'
<1> SUFFICES ASSUME RestInv, DiagNext PROVE RestInv'
  OBVIOUS
<1>1. CASE \E ragged \in BOOLEAN : RunDiag(ragged)
  BY <1>1, AllEnded DEF RunDiag, RestInv, Settled, all_complete
<1>2. CASE Experiment
  BY <1>2, AllEnded DEF Experiment, RestInv, Settled, Touching, all_complete
<1>3. CASE NextPhase \/ DiagDone \/ Report
  BY <1>3, AllEnded DEF NextPhase, DiagDone, Report, RestInv, Settled, Touching, all_complete
<1>4. CASE Arm \/ ArmFails
  BY <1>4, AllEnded DEF Arm, ArmFails, BeginRound, RestInv, Settled, Touching, all_complete
<1>5. CASE StartBlock
  <2>1. CASE Refused(cfg.tx_on)
    BY <1>5, <2>1, AllEnded, RefusedEnds DEF StartBlock, RestInv, Settled, Touching
  <2>2. CASE ~Refused(cfg.tx_on)
    BY <1>5, <2>2 DEF StartBlock, RestInv, Settled, Touching, Running
  <2> QED
    BY <2>1, <2>2
<1>6. CASE \E opening \in Openings : StartWitness(opening)
  BY <1>6 DEF StartWitness, RestInv, Settled, Touching, Running
<1>7. CASE AllSent
  BY <1>7, AllEnded DEF AllSent, all_complete
<1>8. CASE SendTimeout
  BY <1>8, AllEnded, AbortEnds DEF SendTimeout
<1>9. CASE AllReceived \/ ReceiveTimeout
  BY <1>9, AllEnded DEF AllReceived, ReceiveTimeout, RestInv, Settled, all_complete
<1>10. CASE Collect
  BY <1>10, AllEnded DEF Collect, RestInv, Settled, all_complete
<1>11. CASE JudgeBlock \/ JudgeWitness
  BY <1>11, AllEnded DEF JudgeBlock, JudgeWitness, RestInv, Settled, Touching, all_complete
<1> QED
  BY <1>1, <1>2, <1>3, <1>4, <1>5, <1>6, <1>7, <1>8, <1>9, <1>10, <1>11 DEF DiagNext

LEMMA LoopbackStep == RestInv /\ LoopbackNext => RestInv'
<1> SUFFICES ASSUME RestInv, LoopbackNext PROVE RestInv'
  OBVIOUS
<1>1. CASE \E ragged \in BOOLEAN : RunLoopback(ragged)
  BY <1>1, AllEnded DEF RunLoopback, RestInv, Settled, all_complete
<1>2. CASE CaptureArm \/ CaptureRefused
  BY <1>2, AllEnded DEF CaptureArm, CaptureRefused, BeginCapture, RestInv, Settled, Touching,
     all_complete
<1>3. CASE CaptureStart
  <2>1. CASE Refused(Channels)
    BY <1>3, <2>1, AllEnded, RefusedEnds DEF CaptureStart, RestInv, Settled, Touching
  <2>2. CASE ~Refused(Channels)
    BY <1>3, <2>2 DEF CaptureStart, RestInv, Settled, Touching, Testing
  <2> QED
    BY <2>1, <2>2
<1>4. CASE CaptureSent
  BY <1>4, AllEnded DEF CaptureSent, all_complete
<1>5. CASE CaptureHung
  BY <1>5, AllEnded, AbortEnds DEF CaptureHung
<1>6. CASE CaptureNoIdle \/ CaptureCollect
  BY <1>6, AllEnded DEF CaptureNoIdle, CaptureCollect, RestInv, Settled, all_complete
<1>7. CASE KnownAnswer
  BY <1>7, AllEnded DEF KnownAnswer, Stage, RestInv, Settled, Touching, all_complete
<1>8. CASE CrossTalk \/ SoakFrame \/ SoakVerdict \/ Truncation \/ FinalVerdict
  <2>1. pc \in Touching /\ UNCHANGED tx
    BY <1>8 DEF CrossTalk, SoakFrame, SoakVerdict, Truncation, FinalVerdict, Stage, Touching
  <2> QED
    BY <2>1, AllEnded DEF RestInv, Settled, all_complete
<1> QED
  BY <1>1, <1>2, <1>3, <1>4, <1>5, <1>6, <1>7, <1>8 DEF LoopbackNext

LEMMA SoaksStep == RestInv /\ SoaksNext => RestInv'
<1> SUFFICES ASSUME RestInv, SoaksNext PROVE RestInv'
  OBVIOUS
<1>1. CASE RunDemo \/ RunStress \/ \E stagger \in BOOLEAN : RunSweep(stagger)
  BY <1>1, AllEnded DEF RunDemo, RunStress, RunSweep, BeginRounds, RestInv, Settled, all_complete
<1>2. CASE SoakStart
  <2>1. all_complete
    BY <1>2 DEF SoakStart, RestInv, Settled, Touching
  <2>2. CASE UNCHANGED tx
    BY <2>1, <2>2, AllEnded DEF all_complete
  <2>3. CASE pc' = "sending"
    BY <1>2, <2>3 DEF SoakStart, RestInv, Settled, Touching, Demo, Soaking
  <2> QED
    BY <1>2, <2>2, <2>3 DEF SoakStart
<1>3. CASE StaggeredStart
  <2>1. CASE AbortAll
    BY <2>1, AllEnded, AbortEnds
  <2>2. CASE pc' \in {"sending", "staggering"}
    BY <1>3, <2>2 DEF StaggeredStart, RestInv, Settled, Touching, Soaking
  <2> QED
    BY <1>3, <2>1, <2>2 DEF StaggeredStart
<1>4. CASE SoakSent
  BY <1>4, AllEnded DEF SoakSent, all_complete
<1>5. CASE SoakHung
  BY <1>5, AllEnded, AbortEnds DEF SoakHung
<1>6. CASE \E due \in DueSets : FreeSweep(due)
  BY <1>6 DEF FreeSweep, FreeRunning, Demo, RestInv, Settled, Touching
<1>7. CASE \E c \in Channels : FreeEnd(c)
  BY <1>7, EndsKeep, StillEnded DEF FreeEnd
<1>8. CASE FreeWatch
  BY <1>8 DEF FreeWatch, FreeRunning, Demo, RestInv, Settled, Touching
<1>9. CASE DemoReport
  BY <1>9 DEF DemoReport, Demo, RestInv, Settled, Touching, all_complete
<1>10. CASE DemoAgain
  <2>1. CASE at.mode = "simultaneous"
    BY <1>10, <2>1, AllEnded DEF DemoAgain, Turning, RestInv, Settled, all_complete
  <2>2. CASE at.mode # "simultaneous"
    BY <1>10, <2>2 DEF DemoAgain, Turning, Demo, LoopTop, RestInv, Settled, Touching
  <2> QED
    BY <2>1, <2>2
<1>11. CASE DemoTurn
  BY <1>11 DEF DemoTurn, Turning, Demo, RestInv, Settled, Touching
<1>12. CASE Drained
  BY <1>12, AllEnded DEF Drained, all_complete
<1>13. CASE DrainTimeout
  BY <1>13, AllEnded, AbortEnds DEF DrainTimeout
<1>14. CASE SoakAgain \/ SoakResult
  BY <1>14, AllEnded DEF SoakAgain, SoakResult, Soaking, Demo, RestInv, Settled, all_complete
<1>15. CASE NextScenario \/ NextCell
  BY <1>15, AllEnded DEF NextScenario, NextCell, NextUnit, Soaking, Demo, RestInv, Settled,
     all_complete
<1>16. CASE RadioFails
  BY <1>16 DEF RadioFails, RestInv, Settled, Touching
<1> QED
  BY <1>1, <1>2, <1>3, <1>4, <1>5, <1>6, <1>7, <1>8, <1>9, <1>10, <1>11, <1>12, <1>13, <1>14,
     <1>15, <1>16 DEF SoaksNext

\* start_frame's safety contract, kept by the five programs: frame bytes are
\* written, judged or left behind only while every channel reports complete.
THEOREM FramesRest == LabSpec => []BuffersAtRest
<1>1. Built => RestInv
  BY DEF Built, LabInit, Every, RestInv, all_complete
<1>2. RestInv /\ [LabNext \/ Rest]_LabVars => RestInv'
  <2> SUFFICES ASSUME RestInv, [LabNext \/ Rest]_LabVars PROVE RestInv'
    OBVIOUS
  <2>1. CASE UNCHANGED labVars
    BY <2>1, StillEnded DEF labVars, all_complete
  <2>2. CASE main
    <3>1. CASE \E name \in Programs : SetUpFails(name)
      <4>1. UNCHANGED tx /\ program = "off"
        BY <3>1 DEF SetUpFails
      <4> QED
        BY <4>1, AllEnded DEF RestInv, Settled, all_complete
    <3> QED
      BY <2>2, <3>1, DiagStep, LoopbackStep, SoaksStep, HardwareStep DEF main
  <2> QED
    BY <2>1, <2>2 DEF LabNext, Rest, LabVars
<1>3. RestInv => BuffersAtRest
  BY DEF RestInv, Settled, Touching, BuffersAtRest
<1> QED
  BY <1>1, <1>2, <1>3, PTL DEF LabSpec


-----------------------------------------------------------------------------
\* Sums

Picked(s) == CHOOSE x \in s : TRUE

\* What a fold of + over the subsets of S computes, subset by subset.
Tally(F, S) ==
    CHOOSE iter : iter = [s \in SUBSET S |->
        IF s = {} THEN 0 ELSE LET x == CHOOSE x \in s : TRUE IN F[x] + iter[s \ {x}]]

Unwinds(F, S, g) ==
   g = [s \in SUBSET S |-> IF s = {} THEN 0 ELSE F[Picked(s)] + g[s \ {Picked(s)}]]

LEMMA FoldIsTally == ASSUME NEW F, NEW S PROVE SumFunctionOnSet(F, S) = Tally(F, S)[S]
BY DEF SumFunctionOnSet, FoldFunctionOnSet, MapThenFoldSet, Tally

\* A set of finite sets has a smallest member.
LEMMA LeastSet ==
    ASSUME NEW S, NEW T, T \subseteq FiniteSubsetsOf(S), T # {}
    PROVE  \E U \in T : \A V \in T : V \subseteq U => V = U
<1>1. \E U \in T : \A V \in T : <<V, U>> \notin StrictSubsetOrdering(S)
  BY FS_StrictSubsetOrderingWellFounded, WFMin
<1> QED
  BY <1>1 DEF StrictSubsetOrdering, FiniteSubsetsOf

LEMMA LeastNat ==
    ASSUME NEW T, T \subseteq Nat, T # {}
    PROVE  \E n \in T : \A m \in T : n <= m
<1> DEFINE Below == {0 .. n : n \in T}
<1>1. Below \subseteq FiniteSubsetsOf(Nat) /\ Below # {}
  <2>1. \A n \in T : IsFiniteSet(0 .. n) /\ 0 .. n \subseteq Nat
    BY FS_Interval
  <2> QED
    BY <2>1 DEF FiniteSubsetsOf
<1>2. PICK U \in Below : \A V \in Below : V \subseteq U => V = U
  <2> HIDE DEF Below
  <2> QED
    BY <1>1, LeastSet
<1>3. PICK n \in T : U = 0 .. n
  BY <1>2
<1>4. ASSUME NEW m \in T PROVE n <= m
  <2>1. SUFFICES ASSUME m < n PROVE FALSE
    BY <1>3, <1>4
  <2>2. 0 .. m \subseteq 0 .. n /\ n \in 0 .. n /\ n \notin 0 .. m
    BY <1>3, <2>1
  <2> QED
    BY <1>2, <1>3, <2>2
<1> QED
  BY <1>4

LEMMA TallyIs == ASSUME NEW F, NEW S, \E g : Unwinds(F, S, g) PROVE Unwinds(F, S, Tally(F, S))
BY DEF Tally, Unwinds, Picked

LEMMA PickedIn == ASSUME NEW s, s # {} PROVE Picked(s) \in s
BY DEF Picked

(* Unwound as often as S has members, the fold has a solution.             *)
LEMMA TallyExists ==
    ASSUME NEW F, NEW S, IsFiniteSet(S)
    PROVE  \E g : Unwinds(F, S, g)
<1> DEFINE Unwound(g) == [s \in SUBSET S |-> IF s = {} THEN 0 ELSE F[Picked(s)] + g[s \ {Picked(s)}]]
           Upto(g, n) == \A s \in SUBSET S : Cardinality(s) <= n => g[s] = Unwound(g)[s]
           Bad == {n \in Nat : ~\E g : Upto(g, n)}
<1>1. Bad = {}
  <2> SUFFICES ASSUME Bad # {} PROVE FALSE
    OBVIOUS
  <2>1. PICK n \in Bad : \A m \in Bad : n <= m
    BY LeastNat
  <2>2. n # 0
    <3>1. ASSUME NEW s \in SUBSET S, Cardinality(s) <= 0 PROVE s = {}
      BY <3>1, FS_Subset, FS_EmptySet, FS_CardinalityType
    <3>2. Upto([s \in SUBSET S |-> 0], 0)
      BY <3>1
    <3> HIDE DEF Upto
    <3>3. 0 \notin Bad
      BY <3>2
    <3> QED
      BY <2>1, <3>3
  <2>3. n - 1 \in Nat /\ n - 1 \notin Bad
    <3>1. n \in Nat /\ Bad \subseteq Nat
      BY <2>1
    <3> HIDE DEF Bad
    <3> QED
      BY <2>1, <2>2, <3>1
  <2>4. PICK g : Upto(g, n - 1)
    BY <2>3
  <2>5. ASSUME NEW s \in SUBSET S, Cardinality(s) <= n PROVE Unwound(g)[s] = Unwound(Unwound(g))[s]
    <3>1. CASE s = {}
      BY <3>1
    <3>2. CASE s # {}
      <4> DEFINE rest == s \ {Picked(s)}
      <4>1. rest \in SUBSET S /\ Cardinality(rest) <= n - 1
        BY <2>1, <2>5, <3>2, PickedIn, FS_Subset, FS_RemoveElement, FS_CardinalityType
      <4>2. g[rest] = Unwound(g)[rest]
        BY <2>4, <4>1
      <4> QED
        BY <3>2, <4>2
    <3> QED
      BY <3>1, <3>2
  <2> QED
    BY <2>1, <2>5
<1>2. Cardinality(S) \in Nat
  BY FS_CardinalityType
<1>3. PICK g : Upto(g, Cardinality(S))
  BY <1>1, <1>2
<1>4. \A s \in SUBSET S : Cardinality(s) <= Cardinality(S)
  BY FS_Subset
<1>5. Unwinds(F, S, Unwound(g))
  <2>1. \A s \in SUBSET S : g[s] = Unwound(g)[s]
    BY <1>3, <1>4
  <2>2. \A s \in SUBSET S : s \ {Picked(s)} \in SUBSET S
    OBVIOUS
  <2> QED
    BY <2>1, <2>2 DEF Unwinds
<1> QED
  BY <1>5

LEMMA TallySteps ==
    ASSUME NEW F, NEW S, IsFiniteSet(S)
    PROVE  /\ Tally(F, S)[{}] = 0
           /\ \A s \in SUBSET S : s # {} =>
                 Tally(F, S)[s] = F[Picked(s)] + Tally(F, S)[s \ {Picked(s)}]
<1>1. Unwinds(F, S, Tally(F, S))
  BY TallyExists, TallyIs
<1> QED
  BY <1>1 DEF Unwinds

\* What holds of the empty set, and of a set once it holds of the set without
\* the member the fold picks, holds of every finite set.
LEMMA ByPicking ==
    ASSUME NEW S, IsFiniteSet(S), NEW Good, {} \in Good,
           \A s \in SUBSET S : s # {} /\ s \ {Picked(s)} \in Good => s \in Good
    PROVE  S \in Good
<1> DEFINE Bad == (SUBSET S) \ Good
<1>1. Bad = {}
  <2> SUFFICES ASSUME Bad # {} PROVE FALSE
    OBVIOUS
  <2>1. Bad \subseteq FiniteSubsetsOf(S)
    BY FS_FiniteSubsetsOfFinite
  <2>2. PICK s \in Bad : \A t \in Bad : t \subseteq s => t = s
    <3> HIDE DEF Bad
    <3> QED
      BY <2>1, LeastSet
  <2>3. s # {} /\ s \in SUBSET S
    BY <2>2
  <2>4. s \ {Picked(s)} \subseteq s /\ s \ {Picked(s)} # s
    BY <2>3, PickedIn
  <2>5. s \ {Picked(s)} \notin Bad
    BY <2>2, <2>4
  <2> QED
    BY <2>2, <2>3, <2>5
<1> QED
  BY <1>1

LEMMA SumInt ==
    ASSUME NEW S, IsFiniteSet(S), NEW F \in [S -> Int]
    PROVE  SumFunction(F) \in Int
<1> DEFINE Good == {s \in SUBSET S : Tally(F, S)[s] \in Int}
<1>1. {} \in Good
  BY TallySteps
<1>2. ASSUME NEW s \in SUBSET S, s # {}, s \ {Picked(s)} \in Good PROVE s \in Good
  <2>1. F[Picked(s)] \in Int
    BY <1>2, PickedIn
  <2>2. Tally(F, S)[s] = F[Picked(s)] + Tally(F, S)[s \ {Picked(s)}]
    BY <1>2, TallySteps
  <2> QED
    BY <1>2, <2>1, <2>2
<1>3. S \in Good
  <2> HIDE DEF Good
  <2> QED
    BY <1>1, <1>2, ByPicking
<1> QED
  BY <1>3, FoldIsTally DEF SumFunction

LEMMA SumPlus ==
    ASSUME NEW S, IsFiniteSet(S), NEW F \in [S -> Int], NEW G \in [S -> Int], NEW H \in [S -> Int],
           \A x \in S : H[x] = F[x] + G[x]
    PROVE  SumFunction(H) = SumFunction(F) + SumFunction(G)
<1> DEFINE Good == {s \in SUBSET S : /\ Tally(F, S)[s] \in Int /\ Tally(G, S)[s] \in Int
                                     /\ Tally(H, S)[s] = Tally(F, S)[s] + Tally(G, S)[s]}
<1>1. {} \in Good
  BY TallySteps
<1>2. ASSUME NEW s \in SUBSET S, s # {}, s \ {Picked(s)} \in Good PROVE s \in Good
  <2>1. Picked(s) \in S
    BY <1>2, PickedIn
  <2>2. F[Picked(s)] \in Int /\ G[Picked(s)] \in Int /\ H[Picked(s)] = F[Picked(s)] + G[Picked(s)]
    BY <2>1
  <2>3. /\ Tally(F, S)[s] = F[Picked(s)] + Tally(F, S)[s \ {Picked(s)}]
        /\ Tally(G, S)[s] = G[Picked(s)] + Tally(G, S)[s \ {Picked(s)}]
        /\ Tally(H, S)[s] = H[Picked(s)] + Tally(H, S)[s \ {Picked(s)}]
    <3>1. \A X : Tally(X, S)[s] = X[Picked(s)] + Tally(X, S)[s \ {Picked(s)}]
      BY <1>2, TallySteps
    <3> QED
      BY <3>1
  <2> QED
    BY <1>2, <2>2, <2>3
<1>3. S \in Good
  <2> HIDE DEF Good
  <2> QED
    BY <1>1, <1>2, ByPicking
<1> QED
  BY <1>3, FoldIsTally DEF SumFunction

LEMMA SumNat ==
    ASSUME NEW S, IsFiniteSet(S), NEW F \in [S -> Nat]
    PROVE  SumFunction(F) \in Nat /\ (SumFunction(F) = 0 <=> \A x \in S : F[x] = 0)
<1> DEFINE Good == {s \in SUBSET S : /\ Tally(F, S)[s] \in Nat
                                     /\ Tally(F, S)[s] = 0 <=> \A x \in s : F[x] = 0}
<1>1. {} \in Good
  BY TallySteps
<1>2. ASSUME NEW s \in SUBSET S, s # {}, s \ {Picked(s)} \in Good PROVE s \in Good
  <2>1. Picked(s) \in s /\ F[Picked(s)] \in Nat
    BY <1>2, PickedIn
  <2>2. Tally(F, S)[s] = F[Picked(s)] + Tally(F, S)[s \ {Picked(s)}]
    BY <1>2, TallySteps
  <2>3. Tally(F, S)[s] \in Nat
        /\ (Tally(F, S)[s] = 0 <=> F[Picked(s)] = 0 /\ Tally(F, S)[s \ {Picked(s)}] = 0)
    BY <1>2, <2>1, <2>2
  <2> QED
    BY <1>2, <2>1, <2>3
<1>3. S \in Good
  <2> HIDE DEF Good
  <2> QED
    BY <1>1, <1>2, ByPicking
<1> QED
  BY <1>3, FoldIsTally DEF SumFunction

\* Counting: one for each member of E, none for the others.
LEMMA SumOnes ==
    ASSUME NEW S, IsFiniteSet(S), NEW E \in SUBSET S, NEW F \in [S -> Int],
           \A x \in S : F[x] = IF x \in E THEN 1 ELSE 0
    PROVE  SumFunction(F) = Cardinality(E)
<1> DEFINE Good == {s \in SUBSET S : Tally(F, S)[s] = Cardinality(E \cap s)}
<1>1. {} \in Good
  BY TallySteps, FS_EmptySet
<1>2. ASSUME NEW s \in SUBSET S, s # {}, s \ {Picked(s)} \in Good PROVE s \in Good
  <2> DEFINE x == Picked(s)
             part == E \cap (s \ {x})
  <2>1. x \in s
    BY <1>2, PickedIn
  <2>2. IsFiniteSet(part) /\ Cardinality(part) \in Nat
    BY FS_Subset, FS_CardinalityType
  <2>3. E \cap s = IF x \in E THEN part \cup {x} ELSE part
    BY <2>1
  <2>4. x \notin part
    OBVIOUS
  <2>5. Cardinality(part \cup {x}) = Cardinality(part) + 1
    <3> HIDE DEF part, x
    <3> QED
      BY <2>2, <2>4, FS_AddElement
  <2>6. Cardinality(E \cap s) = (IF x \in E THEN 1 ELSE 0) + Cardinality(part)
    <3> HIDE DEF part, x
    <3>1. Cardinality(E \cap s)
            = IF x \in E THEN Cardinality(part \cup {x}) ELSE Cardinality(part)
      BY <2>3, Zenon
    <3> QED
      BY <2>2, <2>5, <3>1
  <2>7. Tally(F, S)[s] = F[Picked(s)] + Tally(F, S)[s \ {Picked(s)}]
    <3>1. /\ s \in SUBSET S /\ s # {}
          /\ \A t \in SUBSET S : t # {} =>
                Tally(F, S)[t] = F[Picked(t)] + Tally(F, S)[t \ {Picked(t)}]
      BY <1>2, TallySteps
    <3> QED
      BY <3>1
  <2> QED
    BY <1>2, <2>1, <2>6, <2>7
<1>3. S \in Good
  <2> HIDE DEF Good
  <2> QED
    BY <1>1, <1>2, ByPicking
<1>4. E \cap S = E
  OBVIOUS
<1> QED
  BY <1>3, <1>4, FoldIsTally DEF SumFunction

-----------------------------------------------------------------------------
Counters == [frames : Nat, trips : Nat, errors : Nat]
Truths == [rounds : Nat, late : Nat, errors : Nat, hung : Nat, drained : Nat, spoilt : Nat,
           advanced : SUBSET Channels]
SoakLoops == [unit : Nat, count : 1 .. N, left : Int, stagger : BOOLEAN, next : 0 .. N,
              victims : {{}}]
DemoLoops == [mode : {"simultaneous", "free_running"}, left : Int, victims : {{}}]

\* Of a uniform plan that gives every channel a window, each has one block.
PlanFacts ==
    /\ blocks \in [Channels -> Nat] /\ step \in Nat /\ ch \in Nat
    /\ verdict = "filling" => ch = 0 \/ ch >= step
    /\ step # 0 => \A c \in Channels : blocks[c] # 0 => (c = 0 \/ c >= step) /\ c + step <= N
    /\ any => N > 0
    /\ verdict = "ok" => any

Counting == Demo \/ Soaking
Live == Counting /\ pc # "halt"

Simultaneous == Soaking \/ at.mode = "simultaneous"

\* The frames of a round that have been started, or are about to be, and whose
\* ends have not been counted yet.
OnTheWay ==
    IF Simultaneous
    THEN {c \in Channels : \/ tx[c] = "busy"
                           \/ pc = "staggering" /\ c \in at.next .. at.count - 1}
    ELSE {}

\* Those of them that will end so, or never end: a frame that hangs does nothing
\* else.  And whether the set will be one with some of its frames missing.
Fate(kind) == IF kind = "hang" THEN Hanging ELSE EndWith(kind)
Ahead(kind) == Cardinality(OnTheWay \cap Fate(kind))
Spoiling == IF OnTheWay \cap Hanging = {} THEN 0 ELSE 1

RoundInv ==
    /\ stats \in [Channels -> Counters]
    /\ tx \in [Channels -> {"idle", "busy"}]
    /\ truth \in Truths
    /\ at.victims = {}
    /\ OnTheWay \subseteq active
    /\ Simultaneous =>
          /\ pc \notin {"sending", "staggering"} => all_complete
          /\ pc \in {"sending", "staggering"} => Hanging \subseteq OnTheWay

DemoTypes ==
    /\ at \in DemoLoops
    /\ pc \in (IF at.mode = "simultaneous" THEN {"starting", "sending"}
                                           ELSE {"sweeping", "watching"})
              \cup {"tail", "reported", "draining", "bounded"}
    /\ log = [timeouts |-> log.timeouts, last |-> log.last,
              last_timeouts |-> log.last_timeouts, result |-> log.result]
    /\ log.timeouts \in [Channels -> Nat] /\ log.last_timeouts \in [Channels -> Nat]
    /\ log.last \in [Channels -> Counters]

SoakTypes ==
    /\ at \in SoakLoops
    /\ program = "stress" => at.count = N
    /\ pc \in {"starting", "sending", "staggering", "tail", "reported", "done"}
    /\ pc = "staggering" =>
          at.next < at.count /\ \A c \in Channels : c >= at.next => tx[c] = "idle"
    /\ log = [timeouts |-> log.timeouts, result |-> log.result]
    /\ log.timeouts \in Nat

\* What happened since the demo's last report.
SinceReport == IF pc = "reported" THEN Nothing ELSE truth

DemoCounts ==
    /\ Delta("trips") + Ahead("late") = SinceReport.late
    /\ Delta("errors") + Ahead("tx_err") = SinceReport.errors
    /\ \A c \in Channels :
          /\ stats[c].frames >= log.last[c].frames
          /\ c \in SinceReport.advanced <=>
                \/ stats[c].frames > log.last[c].frames
                \/ c \in OnTheWay /\ ~Is("hang", c)
          /\ log.timeouts[c] >= log.last_timeouts[c]
    /\ SinceReport.hung - Ahead("hang") >= SinceReport.drained
    /\ SinceReport.hung - Ahead("hang") > SinceReport.drained <=>
          \E c \in Channels : log.timeouts[c] > log.last_timeouts[c]
    /\ SinceReport.hung - Ahead("hang") <= SinceReport.drained + DeltaTimeouts

SoakCounts ==
    /\ Total("trips") + Ahead("late") = truth.late
    /\ Total("errors") + Ahead("tx_err") = truth.errors
    /\ Total("frames") + Cardinality(OnTheWay)
          = truth.rounds * Cardinality(active) - truth.hung + Ahead("hang")
    /\ log.timeouts + Spoiling = truth.spoilt
    /\ \A c \in Channels : stats[c].trips <= stats[c].frames

ReportInv ==
    /\ PlanFacts
    /\ program # "off" => verdict = "ok" /\ step # 0
    /\ program = "off" => /\ stats = Every(NoStats) /\ upset = {} /\ tx = Every("idle")
                          /\ pc = "off"
    /\ Live => step = 1 /\ N > 0 /\ RoundInv
    /\ Live /\ Demo => DemoTypes /\ DemoCounts
    /\ Live /\ Soaking => SoakTypes /\ SoakCounts
    /\ pc = "reported" => Live
    /\ ReportsTruthful

-----------------------------------------------------------------------------
LEMMA SumGrows ==
    ASSUME NEW S, IsFiniteSet(S), NEW F \in [S -> Int], NEW H \in [S -> Int], NEW E \in SUBSET S,
           \A x \in S : H[x] = F[x] + IF x \in E THEN 1 ELSE 0
    PROVE  /\ SumFunction(F) \in Int /\ SumFunction(H) = SumFunction(F) + Cardinality(E)
           /\ Cardinality(E) \in Nat
<1> DEFINE G == [x \in S |-> IF x \in E THEN 1 ELSE 0]
<1>1. G \in [S -> Int] /\ \A x \in S : G[x] = IF x \in E THEN 1 ELSE 0
  OBVIOUS
<1>2. Cardinality(E) \in Nat
  BY FS_Subset, FS_CardinalityType
<1> HIDE DEF G
<1>3. SumFunction(G) = Cardinality(E)
  BY <1>1, SumOnes
<1>4. SumFunction(H) = SumFunction(F) + SumFunction(G)
  BY <1>1, SumPlus
<1> QED
  BY <1>2, <1>3, <1>4, SumInt

LEMMA SumZero ==
    ASSUME NEW S, IsFiniteSet(S), NEW F \in [S -> Int], \A x \in S : F[x] = 0
    PROVE  SumFunction(F) = 0
<1>1. F \in [S -> Nat]
  OBVIOUS
<1> QED
  BY <1>1, SumNat

\* Parts of what is on its way, and no part of nothing.
LEMMA NoneAhead ==
    OnTheWay = {} => /\ Ahead("late") = 0 /\ Ahead("tx_err") = 0 /\ Ahead("hang") = 0
                     /\ Spoiling = 0 /\ Cardinality(OnTheWay) = 0
<1> SUFFICES ASSUME OnTheWay = {}
             PROVE  /\ Ahead("late") = 0 /\ Ahead("tx_err") = 0 /\ Ahead("hang") = 0
                    /\ Spoiling = 0 /\ Cardinality(OnTheWay) = 0
  OBVIOUS
<1>1. \A S : OnTheWay \cap S = {}
  OBVIOUS
<1>2. Cardinality({}) = 0
  BY FS_EmptySet
<1>3. \A S : Cardinality(OnTheWay \cap S) = 0
  BY <1>1, <1>2, Zenon
<1>4. \A kind : Ahead(kind) = 0
  BY <1>3, Zenon DEF Ahead
<1>5. Spoiling = 0
  BY <1>1 DEF Spoiling
<1>6. Cardinality(OnTheWay) = 0
  BY <1>2, Zenon
<1> QED
  BY <1>4, <1>5, <1>6, Zenon

LEMMA NoneAheadNext ==
    (OnTheWay = {})' => (/\ Ahead("late") = 0 /\ Ahead("tx_err") = 0 /\ Ahead("hang") = 0
                         /\ Spoiling = 0 /\ Cardinality(OnTheWay) = 0)'
BY NoneAhead, PTL

LEMMA CounterTypes ==
    \A r \in Counters, counter \in {"frames", "trips", "errors"} : r[counter] \in Nat
BY DEF Counters

\* What finish does to the counters of the channels whose frames end.
LEMMA Ended1 ==
    ASSUME stats \in [Channels -> Counters], tx \in [Channels -> {"idle", "busy"}],
           at.victims = {}, NEW ends \in SUBSET Channels, Finish(ends)
    PROVE  /\ stats' \in [Channels -> Counters] /\ tx' \in [Channels -> {"idle", "busy"}]
           /\ \A c \in Channels :
                 /\ tx'[c] = IF c \in ends THEN "idle" ELSE tx[c]
                 /\ stats'[c].frames = stats[c].frames + IF c \in ends THEN 1 ELSE 0
                 /\ stats'[c].trips
                      = stats[c].trips + IF c \in {d \in ends : Is("late", d)} THEN 1 ELSE 0
                 /\ stats'[c].errors
                      = stats[c].errors + IF c \in {d \in ends : Is("tx_err", d)} THEN 1 ELSE 0
<1>1. tx' = [c \in Channels |-> IF c \in ends THEN "idle" ELSE tx[c]]
  BY DEF Finish
<1>2. \A c \in Channels : stats'[c] =
           IF c \notin ends THEN stats[c]
           ELSE [frames |-> stats[c].frames + 1,
                 trips |-> stats[c].trips + (IF Is("late", c) THEN 1 ELSE 0),
                 errors |-> stats[c].errors + (IF Is("tx_err", c) THEN 1 ELSE 0)]
  BY DEF Finish
<1>3. stats' = [c \in Channels |-> stats'[c]]
  BY DEF Finish
<1>4. \A c \in Channels : stats[c] \in Counters
  OBVIOUS
<1>5. ASSUME NEW c \in Channels
      PROVE  /\ stats'[c] \in Counters
             /\ stats'[c].frames = stats[c].frames + IF c \in ends THEN 1 ELSE 0
             /\ stats'[c].trips
                  = stats[c].trips + IF c \in {d \in ends : Is("late", d)} THEN 1 ELSE 0
             /\ stats'[c].errors
                  = stats[c].errors + IF c \in {d \in ends : Is("tx_err", d)} THEN 1 ELSE 0
  <2>1. stats[c] \in [frames : Nat, trips : Nat, errors : Nat]
    BY <1>4 DEF Counters
  <2>2. CASE c \in ends
    <3>1. stats'[c] = [frames |-> stats[c].frames + 1,
                 trips |-> stats[c].trips + (IF Is("late", c) THEN 1 ELSE 0),
                 errors |-> stats[c].errors + (IF Is("tx_err", c) THEN 1 ELSE 0)]
      BY <1>2, <2>2
    <3> QED
      BY <2>1, <2>2, <3>1 DEF Counters
  <2>3. CASE c \notin ends
    <3>1. stats'[c] = stats[c]
      BY <1>2, <2>3
    <3> QED
      BY <2>1, <2>3, <3>1 DEF Counters
  <2> QED
    BY <2>2, <2>3
<1>6. stats' \in [Channels -> Counters]
  BY <1>3, <1>5
<1>7. tx' \in [Channels -> {"idle", "busy"}] /\ \A c \in Channels : tx'[c] = IF c \in ends THEN "idle" ELSE tx[c]
  BY <1>1
<1> QED
  BY <1>5, <1>6, <1>7

LEMMA ChannelsFinite ==
    /\ IsFiniteSet(Channels)
    /\ \A S \in SUBSET Channels : IsFiniteSet(S) /\ Cardinality(S) \in Nat
<1>1. IsFiniteSet(Channels)
  BY GroupAssumption, FS_Interval DEF Channels
<1> QED
  BY <1>1, FS_Subset, FS_CardinalityType

LEMMA AheadNat ==
    /\ Ahead("late") \in Nat /\ Ahead("tx_err") \in Nat /\ Ahead("hang") \in Nat
    /\ Cardinality(OnTheWay) \in Nat /\ IsFiniteSet(OnTheWay)
<1>1. OnTheWay \in SUBSET Channels /\ \A S : OnTheWay \cap S \in SUBSET Channels
  BY DEF OnTheWay
<1>2. \A kind : Ahead(kind) \in Nat
  BY <1>1, ChannelsFinite DEF Ahead
<1> QED
  BY <1>1, <1>2, ChannelsFinite

LEMMA AheadNatNext ==
    (/\ Ahead("late") \in Nat /\ Ahead("tx_err") \in Nat /\ Ahead("hang") \in Nat
     /\ Cardinality(OnTheWay) \in Nat /\ IsFiniteSet(OnTheWay))'
BY AheadNat, PTL

\* Nothing ahead changes if the frames on their way and their faults do not.
LEMMA SameAhead ==
    ASSUME OnTheWay' = OnTheWay, UNCHANGED upset
    PROVE  /\ \A kind : Ahead(kind)' = Ahead(kind)
           /\ Spoiling' = Spoiling
<1>1. Hanging' = Hanging
  BY DEF Hanging, Is
<1>2. \A kind : EndWith(kind)' = EndWith(kind)
  BY <1>1 DEF EndWith, Is
<1>3. \A kind : Fate(kind)' = Fate(kind)
  BY <1>1, <1>2 DEF Fate
<1>4. \A kind : Ahead(kind)' = Ahead(kind)
  BY <1>3 DEF Ahead
<1>5. Spoiling' = Spoiling
  BY <1>1 DEF Spoiling
<1> QED
  BY <1>4, <1>5

LEMMA TotalGrows ==
    ASSUME stats \in [Channels -> Counters], stats' \in [Channels -> Counters],
           active \subseteq Channels, active' = active,
           NEW counter \in {"frames", "trips", "errors"}, NEW E \in SUBSET active,
           \A c \in active : stats'[c][counter] = stats[c][counter] + IF c \in E THEN 1 ELSE 0
    PROVE  /\ Total(counter) \in Int /\ Total(counter)' = Total(counter) + Cardinality(E)
           /\ Cardinality(E) \in Nat
<1> DEFINE F == [c \in active |-> stats[c][counter]]
           H == [c \in active |-> stats'[c][counter]]
<1>1. F \in [active -> Int] /\ H \in [active -> Int]
  <2>1. \A c \in active : stats[c] \in Counters /\ stats'[c] \in Counters
    OBVIOUS
  <2>2. \A c \in active : stats[c][counter] \in Int /\ stats'[c][counter] \in Int
    BY <2>1, CounterTypes
  <2> QED
    BY <2>2
<1>2. \A c \in active : H[c] = F[c] + IF c \in E THEN 1 ELSE 0
  OBVIOUS
<1>3. Total(counter) = SumFunction(F) /\ Total(counter)' = SumFunction(H)
  BY DEF Total
<1>4. IsFiniteSet(active)
  BY ChannelsFinite
<1> HIDE DEF F, H
<1>5. /\ SumFunction(F) \in Int /\ SumFunction(H) = SumFunction(F) + Cardinality(E)
      /\ Cardinality(E) \in Nat
  BY <1>1, <1>2, <1>4, SumGrows
<1> QED
  BY <1>3, <1>5

LEMMA DeltaInt ==
    ASSUME stats \in [Channels -> Counters], log.last \in [Channels -> Counters],
           NEW counter \in {"frames", "trips", "errors"}
    PROVE  Delta(counter) \in Int
<1> DEFINE F == [c \in Channels |-> stats[c][counter] - log.last[c][counter]]
<1>1. F \in [Channels -> Int]
  <2>1. \A c \in Channels : stats[c] \in Counters /\ log.last[c] \in Counters
    OBVIOUS
  <2>2. \A c \in Channels : stats[c][counter] \in Nat /\ log.last[c][counter] \in Nat
    BY <2>1, CounterTypes
  <2> QED
    BY <2>2
<1>2. IsFiniteSet(Channels)
  BY ChannelsFinite
<1>3. Delta(counter) = SumFunction(F)
  BY DEF Delta
<1> HIDE DEF F
<1> QED
  BY <1>1, <1>2, <1>3, SumInt

LEMMA TotalInt ==
    ASSUME stats \in [Channels -> Counters], active \subseteq Channels,
           NEW counter \in {"frames", "trips", "errors"}
    PROVE  Total(counter) \in Int
<1> DEFINE F == [c \in active |-> stats[c][counter]]
<1>1. F \in [active -> Int]
  <2>1. \A c \in active : stats[c] \in Counters
    OBVIOUS
  <2>2. \A c \in active : stats[c][counter] \in Int
    BY <2>1, CounterTypes
  <2> QED
    BY <2>2
<1>2. IsFiniteSet(active)
  BY ChannelsFinite
<1>3. Total(counter) = SumFunction(F)
  BY DEF Total
<1> HIDE DEF F
<1> QED
  BY <1>1, <1>2, <1>3, SumInt

LEMMA DeltaGrows ==
    ASSUME stats \in [Channels -> Counters], stats' \in [Channels -> Counters],
           log.last \in [Channels -> Counters], log'.last = log.last,
           NEW counter \in {"frames", "trips", "errors"}, NEW E \in SUBSET Channels,
           \A c \in Channels : stats'[c][counter] = stats[c][counter] + IF c \in E THEN 1 ELSE 0
    PROVE  /\ Delta(counter) \in Int /\ Delta(counter)' = Delta(counter) + Cardinality(E)
           /\ Cardinality(E) \in Nat
<1> DEFINE F == [c \in Channels |-> stats[c][counter] - log.last[c][counter]]
           H == [c \in Channels |-> stats'[c][counter] - log.last[c][counter]]
<1>1. \A c \in Channels : /\ stats[c][counter] \in Nat /\ stats'[c][counter] \in Nat
                          /\ log.last[c][counter] \in Nat
  <2>1. \A c \in Channels : /\ stats[c] \in Counters /\ stats'[c] \in Counters
                            /\ log.last[c] \in Counters
    OBVIOUS
  <2> QED
    BY <2>1, CounterTypes
<1>2. F \in [Channels -> Int] /\ H \in [Channels -> Int]
  BY <1>1
<1>3. \A c \in Channels : H[c] = F[c] + IF c \in E THEN 1 ELSE 0
  BY <1>1
<1>4. Delta(counter) = SumFunction(F) /\ Delta(counter)' = SumFunction(H)
  BY DEF Delta
<1>5. IsFiniteSet(Channels)
  BY ChannelsFinite
<1> HIDE DEF F, H
<1>6. /\ SumFunction(F) \in Int /\ SumFunction(H) = SumFunction(F) + Cardinality(E)
      /\ Cardinality(E) \in Nat
  <2>1. E \in SUBSET Channels
    OBVIOUS
  <2> QED
    BY ONLY <2>1, <1>2, <1>3, <1>5, SumGrows
<1> QED
  BY <1>4, <1>6

LEMMA TimeoutsInt ==
    ASSUME log.timeouts \in [Channels -> Nat], log.last_timeouts \in [Channels -> Nat]
    PROVE  DeltaTimeouts \in Int
<1> DEFINE F == [c \in Channels |-> log.timeouts[c] - log.last_timeouts[c]]
<1>1. F \in [Channels -> Int] /\ IsFiniteSet(Channels)
  BY ChannelsFinite
<1>2. DeltaTimeouts = SumFunction(F)
  BY DEF DeltaTimeouts
<1> HIDE DEF F
<1> QED
  BY <1>1, <1>2, SumInt

LEMMA TimeoutsGrow ==
    ASSUME log.timeouts \in [Channels -> Nat], log'.timeouts \in [Channels -> Nat],
           log.last_timeouts \in [Channels -> Nat], log'.last_timeouts = log.last_timeouts,
           NEW E \in SUBSET Channels,
           \A c \in Channels : log'.timeouts[c] = log.timeouts[c] + IF c \in E THEN 1 ELSE 0
    PROVE  /\ DeltaTimeouts \in Int /\ DeltaTimeouts' = DeltaTimeouts + Cardinality(E)
           /\ Cardinality(E) \in Nat
<1> DEFINE F == [c \in Channels |-> log.timeouts[c] - log.last_timeouts[c]]
           H == [c \in Channels |-> log'.timeouts[c] - log.last_timeouts[c]]
<1>1. \A c \in Channels : /\ log.timeouts[c] \in Nat /\ log'.timeouts[c] \in Nat
                          /\ log.last_timeouts[c] \in Nat
  OBVIOUS
<1>2. F \in [Channels -> Int] /\ H \in [Channels -> Int]
  BY <1>1
<1>3. \A c \in Channels : H[c] = F[c] + IF c \in E THEN 1 ELSE 0
  BY <1>1
<1>4. DeltaTimeouts = SumFunction(F) /\ DeltaTimeouts' = SumFunction(H)
  BY DEF DeltaTimeouts
<1>5. IsFiniteSet(Channels)
  BY ChannelsFinite
<1> HIDE DEF F, H
<1>6. /\ SumFunction(F) \in Int /\ SumFunction(H) = SumFunction(F) + Cardinality(E)
      /\ Cardinality(E) \in Nat
  <2>1. E \in SUBSET Channels
    OBVIOUS
  <2> QED
    BY ONLY <2>1, <1>2, <1>3, <1>5, SumGrows
<1> QED
  BY <1>4, <1>6

-----------------------------------------------------------------------------
SoakInv == Soaking /\ step = 1 /\ N > 0 /\ RoundInv /\ SoakTypes /\ SoakCounts

Grown(t, a, b, d, e, A) ==
    [t EXCEPT !.rounds = @ + 1, !.late = @ + a, !.errors = @ + b, !.hung = @ + d,
              !.spoilt = @ + e, !.advanced = @ \cup A]

LEMMA TruthGrows ==
    ASSUME NEW t \in Truths, NEW a \in Nat, NEW b \in Nat, NEW d \in Nat, NEW e \in Nat,
           NEW A \in SUBSET Channels
    PROVE  LET u == Grown(t, a, b, d, e, A)
           IN  /\ u \in Truths /\ u.rounds = t.rounds + 1 /\ u.late = t.late + a
               /\ u.errors = t.errors + b /\ u.hung = t.hung + d /\ u.drained = t.drained
               /\ u.spoilt = t.spoilt + e /\ u.advanced = t.advanced \cup A
<1> SUFFICES ASSUME NEW u, u = Grown(t, a, b, d, e, A)
             PROVE  /\ u \in Truths /\ u.rounds = t.rounds + 1 /\ u.late = t.late + a
                    /\ u.errors = t.errors + b /\ u.hung = t.hung + d /\ u.drained = t.drained
                    /\ u.spoilt = t.spoilt + e /\ u.advanced = t.advanced \cup A
  BY Zenon
<1>1. /\ t.rounds \in Nat /\ t.late \in Nat /\ t.errors \in Nat /\ t.hung \in Nat
      /\ t.drained \in Nat /\ t.spoilt \in Nat /\ t.advanced \in SUBSET Channels
  BY DEF Truths
<1>2. u = [rounds |-> t.rounds + 1, late |-> t.late + a, errors |-> t.errors + b,
           hung |-> t.hung + d, drained |-> t.drained, spoilt |-> t.spoilt + e,
           advanced |-> t.advanced \cup A]
  BY DEF Grown, Truths
<1>3. t.advanced \cup A \in SUBSET Channels
  BY <1>1
<1>4. /\ u.rounds = t.rounds + 1 /\ u.late = t.late + a
      /\ u.errors = t.errors + b /\ u.hung = t.hung + d /\ u.drained = t.drained
      /\ u.spoilt = t.spoilt + e /\ u.advanced = t.advanced \cup A
  BY <1>2
<1> QED
  BY <1>1, <1>2, <1>3, <1>4 DEF Truths

LEMMA TruthTypes ==
    ASSUME NEW t \in Truths
    PROVE  /\ t.rounds \in Nat /\ t.late \in Nat /\ t.errors \in Nat /\ t.hung \in Nat
           /\ t.drained \in Nat /\ t.spoilt \in Nat /\ t.advanced \in SUBSET Channels
BY DEF Truths

LEMMA SoakLoopTypes ==
    ASSUME NEW r \in SoakLoops
    PROVE  /\ r.unit \in Nat /\ r.count \in 1 .. N /\ r.left \in Int /\ r.stagger \in BOOLEAN
           /\ r.next \in 0 .. N /\ r.victims = {}
BY DEF SoakLoops

LEMMA SoakLoopNext ==
    ASSUME NEW r \in SoakLoops, NEW n \in 0 .. N
    PROVE  LET s == [r EXCEPT !.next = n]
           IN  /\ s \in SoakLoops /\ s.next = n
               /\ s.unit = r.unit /\ s.count = r.count /\ s.left = r.left /\ s.stagger = r.stagger
BY DEF SoakLoops

LEMMA SoakActive ==
    ASSUME Soaking, step = 1, SoakTypes
    PROVE  /\ active = 0 .. at.count - 1 /\ active \subseteq Channels
           /\ at.count \in 1 .. N /\ at.next \in 0 .. N
           /\ IsFiniteSet(active) /\ Cardinality(active) \in Nat
<1>1. at.count \in 1 .. N /\ at.next \in 0 .. N /\ (program = "stress" => at.count = N)
  BY SoakLoopTypes DEF SoakTypes
<1>2. active = 0 .. at.count - 1
  <2>1. CASE program = "sweep"
    <3>1. \A i \in Int : i * 1 = i
      OBVIOUS
    <3>2. active = {i * 1 : i \in 0 .. at.count - 1}
      BY <2>1 DEF active, SLOT_STRIDE
    <3>3. 0 .. at.count - 1 \subseteq Int
      OBVIOUS
    <3> QED
      BY <3>1, <3>2, <3>3
  <2>2. CASE program # "sweep"
    BY <1>1, <2>2 DEF active, Soaking, Channels
  <2> QED
    BY <2>1, <2>2
<1>3. active \subseteq Channels
  BY <1>1, <1>2, GroupAssumption DEF Channels
<1> QED
  BY <1>1, <1>2, <1>3, ChannelsFinite

\* The counters agree as before if a step moves none of what they speak of.
LEMMA SoakSame ==
    ASSUME SoakCounts, UNCHANGED <<stats, truth>>, active' = active, OnTheWay' = OnTheWay,
           UNCHANGED upset, log'.timeouts = log.timeouts
    PROVE  SoakCounts'
<1>1. /\ Ahead("late")' = Ahead("late") /\ Ahead("tx_err")' = Ahead("tx_err")
      /\ Ahead("hang")' = Ahead("hang") /\ Spoiling' = Spoiling
  BY SameAhead
<1>2. Cardinality(OnTheWay)' = Cardinality(OnTheWay)
  OBVIOUS
<1> QED
  BY <1>1, <1>2 DEF SoakCounts, Total

\* The faults of a round are on the channels that send in it, and what they are
\* ahead of is counted channel by channel.
LEMMA RoundStarts ==
    ASSUME NEW S \in SUBSET Channels, OnTheWay' = S, Weather(SendFaults(S))
    PROVE  /\ Hanging' \subseteq S
           /\ Ahead("late")' = Cardinality(EndWith("late")')
           /\ Ahead("tx_err")' = Cardinality(EndWith("tx_err")')
           /\ Ahead("hang")' = Cardinality(Hanging')
           /\ Spoiling' = IF Hanging' = {} THEN 0 ELSE 1
<1>1. \A fault \in upset' : fault.on \in S
  <2>1. upset' \subseteq SendFaults(S)
    BY DEF Weather, Joins
  <2> QED
    BY <2>1 DEF SendFaults
<1>2. Hanging' = {c \in Channels : \E fault \in upset' : fault.kind = "hang" /\ fault.on = c}
  BY DEF Hanging, Is
<1>3. \A kind : EndWith(kind)' =
         {c \in Channels : \E fault \in upset' : fault.kind = kind /\ fault.on = c} \ Hanging'
  BY DEF EndWith, Is
<1>4. S \cap Hanging' = Hanging' /\ Hanging' \subseteq S
  BY <1>1, <1>2
<1>5. \A kind : S \cap EndWith(kind)' = EndWith(kind)'
  BY <1>1, <1>3
<1>6. /\ Ahead("late")' = Cardinality(S \cap EndWith("late")')
      /\ Ahead("tx_err")' = Cardinality(S \cap EndWith("tx_err")')
      /\ Ahead("hang")' = Cardinality(S \cap Hanging')
  BY DEF Ahead, Fate
<1>7. Spoiling' = IF S \cap Hanging' = {} THEN 0 ELSE 1
  BY DEF Spoiling
<1> QED
  BY <1>4, <1>5, <1>6, <1>7, Zenon

LEMMA SoakStartKeeps ==
    ASSUME SoakInv, SoakStart, UNCHANGED vars
    PROVE  SoakInv' /\ pc' # "reported"
<1>1. /\ Soaking /\ step = 1 /\ N > 0 /\ pc = "starting" /\ RoundInv /\ SoakTypes /\ SoakCounts
      /\ Weather(SendFaults(active))
      /\ UNCHANGED <<program, sent, rx, stats, log, step>>
  BY DEF SoakInv, SoakStart, vars
<1>2. all_complete /\ ~Refused(active) /\ OnTheWay = {}
  <2>1. all_complete
    BY <1>1 DEF RoundInv, Simultaneous
  <2> QED
    BY <1>1, <2>1, SoakActive DEF all_complete, Refused, OnTheWay
<1>3. /\ active = 0 .. at.count - 1 /\ active \subseteq Channels /\ at.count \in 1 .. N
      /\ Cardinality(active) \in Nat
  BY <1>1, SoakActive
<1>4. \/ pc' = "staggering" /\ at' = [at EXCEPT !.next = 0] /\ UNCHANGED tx
      \/ pc' = "sending" /\ at' = at /\ tx' = [c \in Channels |-> IF c \in active THEN "busy" ELSE tx[c]]
  BY <1>1, <1>2 DEF SoakStart, StartAll
<1>5. at' \in SoakLoops /\ at'.count = at.count /\ at'.victims = {}
      /\ (pc' = "staggering" => at'.next = 0)
  <2>1. at \in SoakLoops /\ 0 \in 0 .. N
    BY <1>1, GroupAssumption DEF SoakTypes
  <2>2. at' = [at EXCEPT !.next = 0] \/ (at' = at /\ pc' = "sending")
    BY <1>4
  <2>3. CASE at' = [at EXCEPT !.next = 0]
    <3>1. [at EXCEPT !.next = 0] \in SoakLoops /\ [at EXCEPT !.next = 0].next = 0
          /\ [at EXCEPT !.next = 0].count = at.count
      BY <2>1, SoakLoopNext
    <3> QED
      BY <2>3, <3>1, SoakLoopTypes
  <2>4. CASE at' = at /\ pc' = "sending"
    BY <2>1, <2>4, SoakLoopTypes
  <2> QED
    BY <2>2, <2>3, <2>4
<1>17. SoakTypes'
  <2>1. pc' \in {"staggering", "sending"} /\ log' = log /\ program' = program
    BY <1>1, <1>4
  <2>2. pc' = "staggering" => at'.next < at'.count /\ \A c \in Channels : tx'[c] = "idle"
    BY <1>2, <1>3, <1>4, <1>5 DEF all_complete
  <2> QED
    BY <1>1, <1>5, <2>1, <2>2 DEF SoakTypes
<1>6. active' = active
  <2>1. program' = program /\ at'.count = at.count /\ step' = step
    BY <1>1, <1>5
  <2> QED
    BY <2>1 DEF active, SLOT_STRIDE
<1>7. OnTheWay' = active
  <2>1. Simultaneous'
    BY <1>1 DEF Simultaneous, Soaking
  <2>2. CASE pc' = "staggering" /\ at'.next = 0 /\ at'.count = at.count /\ UNCHANGED tx
    BY <1>2, <1>3, <2>1, <2>2 DEF OnTheWay, all_complete
  <2>3. CASE pc' = "sending" /\ tx' = [c \in Channels |-> IF c \in active THEN "busy" ELSE tx[c]]
    BY <1>2, <1>3, <2>1, <2>3 DEF OnTheWay, all_complete
  <2> QED
    BY <1>4, <1>5, <2>2, <2>3
<1> DEFINE L == Cardinality(EndWith("late")')
           E == Cardinality(EndWith("tx_err")')
           H == Cardinality(Hanging')
           K == IF Hanging' = {} THEN 0 ELSE 1
           A == active \ Hanging'
<1>8. /\ Hanging' \subseteq active
      /\ Ahead("late")' = L /\ Ahead("tx_err")' = E /\ Ahead("hang")' = H /\ Spoiling' = K
  BY <1>1, <1>3, <1>7, RoundStarts
<1>9. truth' = Grown(truth, L, E, H, K, A)
  BY DEF SoakStart, Grown
<1>10. L \in Nat /\ E \in Nat /\ H \in Nat /\ K \in Nat /\ A \in SUBSET Channels
  BY <1>3, <1>8, AheadNatNext
<1> HIDE DEF L, E, H, K, A
<1>11. /\ truth'.rounds = truth.rounds + 1 /\ truth'.late = truth.late + L
       /\ truth'.errors = truth.errors + E /\ truth'.hung = truth.hung + H
       /\ truth'.spoilt = truth.spoilt + K
       /\ truth' \in Truths
       /\ truth.rounds \in Nat /\ truth.late \in Nat /\ truth.errors \in Nat /\ truth.hung \in Nat
       /\ truth.spoilt \in Nat
  <2>1. truth \in Truths
    BY <1>1 DEF RoundInv
  <2>2. LET u == Grown(truth, L, E, H, K, A)
        IN  /\ u \in Truths /\ u.rounds = truth.rounds + 1 /\ u.late = truth.late + L
            /\ u.errors = truth.errors + E /\ u.hung = truth.hung + H
            /\ u.spoilt = truth.spoilt + K
    BY ONLY <1>10, <2>1, TruthGrows
  <2>3. /\ truth.rounds \in Nat /\ truth.late \in Nat /\ truth.errors \in Nat
        /\ truth.hung \in Nat /\ truth.spoilt \in Nat
    BY <2>1, TruthTypes
  <2> QED
    BY <1>9, <2>2, <2>3
<1>13. RoundInv'
  <2>1. tx' \in [Channels -> {"idle", "busy"}] /\ stats' \in [Channels -> Counters]
        /\ at'.victims = {} /\ pc' \in {"sending", "staggering"}
    BY <1>1, <1>4, <1>5 DEF RoundInv
  <2> QED
    BY <1>6, <1>7, <1>8, <1>11, <2>1 DEF RoundInv
<1>15. \A counter : Total(counter)' = Total(counter)
  BY <1>1, <1>6 DEF Total
<1>16. SoakCounts'
  <2> DEFINE p == truth.rounds * Cardinality(active)
             q == truth'.rounds * Cardinality(active)
  <2>1. /\ Total("trips") + 0 = truth.late /\ Total("errors") + 0 = truth.errors
        /\ Total("frames") + 0 = p - truth.hung + 0
        /\ log.timeouts + 0 = truth.spoilt
        /\ \A c \in Channels : stats[c].trips <= stats[c].frames
    <3>1. /\ Ahead("late") = 0 /\ Ahead("tx_err") = 0 /\ Ahead("hang") = 0
          /\ Spoiling = 0 /\ Cardinality(OnTheWay) = 0
      BY <1>2, NoneAhead
    <3> QED
      BY <1>1, <3>1 DEF SoakCounts
  <2>2. /\ Total("trips") \in Int /\ Total("errors") \in Int /\ Total("frames") \in Int
        /\ log.timeouts \in Nat
    BY <1>1, <1>3, TotalInt DEF RoundInv, SoakTypes
  <2>3. q = p + Cardinality(active) /\ p \in Int
    <3>1. \A r, n \in Int : (r + 1) * n = r * n + n /\ r * n \in Int
      OBVIOUS
    <3>2. truth.rounds \in Int /\ Cardinality(active) \in Int
      BY <1>3, <1>11
    <3>3. truth'.rounds = truth.rounds + 1
      BY <1>11
    <3> QED
      BY ONLY <3>1, <3>2, <3>3
  <2> HIDE DEF p, q
  <2>4. Total("frames") + Cardinality(active) = q - truth'.hung + H
    <3>1. Total("frames") = p - truth.hung
      BY <1>11, <2>1, <2>2, <2>3
    <3>2. \A f, k, x, h, o \in Int : f = x - h => f + k = (x + k) - (h + o) + o
      OBVIOUS
    <3>3. /\ truth.hung \in Int /\ H \in Int /\ Cardinality(active) \in Int
          /\ Total("frames") \in Int /\ p \in Int
      BY <1>3, <1>10, <1>11, <2>2, <2>3
    <3>4. Total("frames") + Cardinality(active) = (p + Cardinality(active)) - (truth.hung + H) + H
      BY ONLY <3>1, <3>2, <3>3
    <3>5. q = p + Cardinality(active) /\ truth'.hung = truth.hung + H
      BY <1>11, <2>3
    <3> QED
      BY ONLY <3>4, <3>5
  <2>5. /\ Total("trips") + L = truth'.late /\ Total("errors") + E = truth'.errors
        /\ log.timeouts + K = truth'.spoilt
    BY <1>10, <1>11, <2>1, <2>2
  <2>6. /\ Total("trips")' = Total("trips") /\ Total("errors")' = Total("errors")
        /\ Total("frames")' = Total("frames") /\ stats' = stats /\ log' = log
        /\ Cardinality(OnTheWay)' = Cardinality(active) /\ active' = active
    BY <1>1, <1>6, <1>7, <1>15
  <2> QED
    BY <1>8, <2>1, <2>4, <2>5, <2>6 DEF SoakCounts, q
<1> QED
  <2>1. program' = program /\ step' = step /\ pc' # "reported"
    BY <1>1, <1>4
  <2> QED
    BY <1>1, <1>13, <1>16, <1>17, <2>1 DEF SoakInv, Soaking

\* The channels of a soak stay as they are while its loop variables do.
LEMMA ActiveStays ==
    ASSUME UNCHANGED <<program, step>>, at'.count = at.count
    PROVE  active' = active
BY DEF active, SLOT_STRIDE

LEMMA StaggeredStartKeeps ==
    ASSUME SoakInv, StaggeredStart, UNCHANGED vars
    PROVE  SoakInv' /\ pc' # "reported"
<1> DEFINE c == at.next
<1>1. /\ Soaking /\ step = 1 /\ N > 0 /\ pc = "staggering" /\ RoundInv /\ SoakTypes /\ SoakCounts
      /\ UNCHANGED <<program, sent, rx, upset, stats, log, truth, step>>
  BY DEF SoakInv, StaggeredStart, vars
<1>2. /\ active = 0 .. at.count - 1 /\ active \subseteq Channels /\ at.count \in 1 .. N
      /\ c \in active /\ c \in Channels /\ c \in 0 .. N
  BY <1>1, SoakActive, GroupAssumption DEF SoakTypes, Channels
<1>3. tx[c] = "idle"
  BY <1>1, <1>2 DEF SoakTypes, Channels
<1>4. /\ tx' = [tx EXCEPT ![c] = "busy"] /\ at' = [at EXCEPT !.next = @ + 1]
      /\ pc' = IF c + 1 = at.count THEN "sending" ELSE "staggering"
  <2>1. c * SLOT_STRIDE = c
    BY <1>1, <1>2 DEF SLOT_STRIDE
  <2> QED
    BY <1>1, <1>3, <2>1 DEF StaggeredStart
<1>5. at' \in SoakLoops /\ at'.count = at.count /\ at'.victims = {} /\ at'.next = c + 1
  <2>1. at \in SoakLoops /\ c + 1 \in 0 .. N
    BY <1>1, <1>2, GroupAssumption DEF SoakTypes, Channels
  <2>2. at' = [at EXCEPT !.next = c + 1]
    BY <1>4
  <2>3. LET s == [at EXCEPT !.next = c + 1]
        IN  s \in SoakLoops /\ s.next = c + 1 /\ s.count = at.count
    BY <2>1, SoakLoopNext
  <2> QED
    BY <2>2, <2>3, SoakLoopTypes
<1>6. active' = active
  BY <1>1, <1>5, ActiveStays
<1>7. tx' \in [Channels -> {"idle", "busy"}] /\ \A d \in Channels : tx'[d] = IF d = c THEN "busy" ELSE tx[d]
  BY <1>1, <1>2, <1>4 DEF RoundInv
<1>8. SoakTypes'
  <2>1. pc' \in {"staggering", "sending"} /\ log' = log /\ program' = program
    BY <1>1, <1>4
  <2>2. pc' = "staggering" => c + 1 < at.count
    BY <1>2, <1>4
  <2>3. \A d \in Channels : d >= c + 1 => tx'[d] = "idle"
    BY <1>1, <1>2, <1>7 DEF SoakTypes, Channels
  <2> QED
    BY <1>1, <1>5, <2>1, <2>2, <2>3 DEF SoakTypes
<1>9. OnTheWay' = OnTheWay
  <2>1. Simultaneous /\ Simultaneous'
    BY <1>1 DEF Simultaneous, Soaking
  <2>2. OnTheWay = {d \in Channels : tx[d] = "busy" \/ (c <= d /\ d <= at.count - 1)}
    BY <1>1, <1>2, <2>1 DEF OnTheWay, Channels
  <2>3. OnTheWay' = {d \in Channels : tx'[d] = "busy"
                        \/ (pc' = "staggering" /\ c + 1 <= d /\ d <= at.count - 1)}
    BY <1>1, <1>2, <1>5, <2>1 DEF OnTheWay, Channels
  <2>4. ASSUME NEW d \in Channels
        PROVE  (tx'[d] = "busy" \/ (pc' = "staggering" /\ c + 1 <= d /\ d <= at.count - 1))
                 <=> (tx[d] = "busy" \/ (c <= d /\ d <= at.count - 1))
    BY <1>2, <1>4, <1>7 DEF Channels
  <2> HIDE DEF c
  <2> QED
    BY <2>2, <2>3, <2>4
<1>10. RoundInv'
  <2>1. pc' \in {"sending", "staggering"} /\ pc \in {"sending", "staggering"}
    BY <1>1, <1>4
  <2>2. Hanging' = Hanging
    BY <1>1 DEF Hanging, Is
  <2> QED
    BY <1>1, <1>5, <1>6, <1>7, <1>9, <2>1, <2>2 DEF RoundInv, Simultaneous, Soaking
<1>11. SoakCounts'
  BY <1>1, <1>6, <1>9, SoakSame
<1> QED
  BY <1>1, <1>4, <1>8, <1>10, <1>11 DEF SoakInv, Soaking

LEMMA SoakSentKeeps ==
    ASSUME SoakInv, SoakSent, UNCHANGED vars
    PROVE  SoakInv' /\ pc' # "reported"
<1>1. /\ Soaking /\ step = 1 /\ N > 0 /\ pc = "sending" /\ RoundInv /\ SoakTypes /\ SoakCounts
      /\ UNCHANGED <<program, at, sent, tx, rx, upset, budget, stats, log, truth, step>>
      /\ all_complete /\ pc' = "tail"
  BY DEF SoakInv, SoakSent, vars
<1>2. active' = active
  BY <1>1, ActiveStays
<1>3. OnTheWay = {} /\ OnTheWay' = {}
  BY <1>1 DEF OnTheWay, all_complete
<1>4. RoundInv'
  BY <1>1, <1>2, <1>3 DEF RoundInv, all_complete
<1>5. SoakTypes'
  BY <1>1 DEF SoakTypes
<1>6. SoakCounts'
  BY <1>1, <1>2, <1>3, SoakSame
<1> QED
  BY <1>1, <1>4, <1>5, <1>6 DEF SoakInv, Soaking

\* When nothing more will end, what is on its way hangs, and there is some of it.
LEMMA HungAlone ==
    ASSUME Simultaneous, pc = "sending", tx \in [Channels -> {"idle", "busy"}], Ending = {}, Hung
    PROVE  /\ OnTheWay \subseteq Hanging /\ OnTheWay # {}
           /\ Ahead("late") = 0 /\ Ahead("tx_err") = 0
           /\ Ahead("hang") = Cardinality(OnTheWay) /\ Spoiling = 1
           /\ Cardinality(OnTheWay) \in Nat \ {0}
<1>1. OnTheWay \subseteq Hanging /\ OnTheWay # {}
  BY DEF Ending, Hung, OnTheWay, Hanging
<1>2. \A kind : OnTheWay \cap EndWith(kind) = {}
  BY <1>1 DEF EndWith
<1>3. OnTheWay \cap Hanging = OnTheWay
  BY <1>1
<1>4. Cardinality({}) = 0
  BY FS_EmptySet
<1>5. Ahead("late") = 0 /\ Ahead("tx_err") = 0
  <2>1. /\ Ahead("late") = Cardinality(OnTheWay \cap EndWith("late"))
        /\ Ahead("tx_err") = Cardinality(OnTheWay \cap EndWith("tx_err"))
    BY DEF Ahead, Fate
  <2> QED
    BY <1>2, <1>4, <2>1, Zenon
<1>6. Ahead("hang") = Cardinality(OnTheWay)
  BY <1>3, Zenon DEF Ahead, Fate
<1>7. Spoiling = 1
  BY <1>1, <1>3 DEF Spoiling
<1>8. Cardinality(OnTheWay) \in Nat \ {0}
  <2>1. IsFiniteSet(OnTheWay) /\ Cardinality(OnTheWay) \in Nat
    BY AheadNat
  <2>2. Cardinality(OnTheWay) = 0 <=> OnTheWay = {}
    BY <2>1, FS_EmptySet
  <2> QED
    BY <1>1, <2>1, <2>2
<1> QED
  BY <1>1, <1>5, <1>6, <1>7, <1>8

LEMMA SoakHungKeeps ==
    ASSUME SoakInv, SoakHung, UNCHANGED vars
    PROVE  SoakInv' /\ pc' # "reported"
<1>1. /\ Soaking /\ step = 1 /\ N > 0 /\ pc = "sending" /\ RoundInv /\ SoakTypes /\ SoakCounts
      /\ UNCHANGED <<program, at, sent, rx, upset, budget, stats, truth, step>>
      /\ Ending = {} /\ Hung /\ AbortAll /\ pc' = "tail"
  BY DEF SoakInv, SoakHung, vars
<1>2. log' = [log EXCEPT !.timeouts = log.timeouts + 1]
  BY <1>1 DEF SoakHung, TimedOut, Demo, Soaking
<1>3. log' = [timeouts |-> log.timeouts + 1, result |-> log.result] /\ log.timeouts \in Nat
  <2>1. log = [timeouts |-> log.timeouts, result |-> log.result] /\ log.timeouts \in Nat
    BY <1>1 DEF SoakTypes
  <2> QED
    BY <1>2, <2>1
<1>4. active' = active
  BY <1>1, ActiveStays
<1>5. OnTheWay' = {} /\ all_complete' /\ tx' \in [Channels -> {"idle", "busy"}]
  <2>1. all_complete' /\ tx' \in [Channels -> {"idle", "busy"}]
    BY <1>1 DEF AbortAll, Every, all_complete
  <2> QED
    BY <1>1, <2>1 DEF OnTheWay, all_complete
<1>6. RoundInv'
  BY <1>1, <1>4, <1>5 DEF RoundInv
<1>7. SoakTypes'
  BY <1>1, <1>3 DEF SoakTypes
<1>8. /\ Ahead("late") = 0 /\ Ahead("tx_err") = 0 /\ Ahead("hang") = Cardinality(OnTheWay)
      /\ Spoiling = 1 /\ Cardinality(OnTheWay) \in Nat
  <2>1. Simultaneous /\ tx \in [Channels -> {"idle", "busy"}]
    BY <1>1 DEF Simultaneous, RoundInv
  <2> QED
    BY <1>1, <2>1, HungAlone
<1>9. /\ Ahead("late")' = 0 /\ Ahead("tx_err")' = 0 /\ Ahead("hang")' = 0
      /\ Spoiling' = 0 /\ Cardinality(OnTheWay)' = 0
  BY <1>5, NoneAheadNext
<1>10. \A counter : Total(counter)' = Total(counter)
  BY <1>1, <1>4 DEF Total
<1>11. SoakCounts'
  <2>1. /\ Total("trips") \in Int /\ Total("errors") \in Int /\ Total("frames") \in Int
        /\ truth.hung \in Nat /\ truth.rounds * Cardinality(active) \in Int
    <3>1. active \subseteq Channels /\ Cardinality(active) \in Nat
      BY <1>1, SoakActive
    <3>2. truth.hung \in Nat /\ truth.rounds \in Nat
      BY <1>1, TruthTypes DEF RoundInv
    <3> QED
      BY <1>1, <3>1, <3>2, TotalInt DEF RoundInv
  <2> DEFINE q == truth.rounds * Cardinality(active)
             k == Cardinality(OnTheWay)
  <2>2. /\ Total("trips") + 0 = truth.late /\ Total("errors") + 0 = truth.errors
        /\ Total("frames") + k = q - truth.hung + k
        /\ log.timeouts + 1 = truth.spoilt
        /\ \A c \in Channels : stats[c].trips <= stats[c].frames
    BY <1>1, <1>8 DEF SoakCounts
  <2>3. q \in Int /\ k \in Int
    BY <1>8, <2>1
  <2>4. q' = q /\ log'.timeouts = log.timeouts + 1 /\ UNCHANGED <<truth, stats>>
    BY <1>1, <1>3, <1>4
  <2>5. Total("frames") + 0 = q - truth.hung + 0
    <3> HIDE DEF q, k
    <3> QED
      BY <2>1, <2>2, <2>3
  <2>6. log'.timeouts + 0 = truth.spoilt
    BY <1>3, <2>2, <2>4
  <2> HIDE DEF k
  <2> QED
    BY <1>9, <1>10, <2>2, <2>4, <2>5, <2>6 DEF SoakCounts
<1> QED
  BY <1>1, <1>6, <1>7, <1>11 DEF SoakInv, Soaking

\* Counting the ends of frames takes them off what is on its way.
LEMMA EndsCount ==
    ASSUME Simultaneous, RoundInv, Finish(Ending), UNCHANGED <<program, pc, at, upset>>,
           \A c \in Channels : pc = "staggering" /\ c \in at.next .. at.count - 1 => tx[c] = "idle"
    PROVE  /\ OnTheWay' = OnTheWay \ Ending /\ Ending \subseteq OnTheWay
           /\ Ending \subseteq Channels
           /\ \A kind \in {"late", "tx_err"} :
                 Ahead(kind)' + Cardinality({c \in Ending : Is(kind, c)}) = Ahead(kind)
           /\ Ahead("hang")' = Ahead("hang") /\ Spoiling' = Spoiling
           /\ Cardinality(OnTheWay)' + Cardinality(Ending) = Cardinality(OnTheWay)
           /\ Cardinality(OnTheWay) \in Nat /\ Cardinality(OnTheWay)' \in Nat
           /\ Cardinality(Ending) \in Nat
<1>1. Ending \subseteq OnTheWay /\ Ending \subseteq Channels
  BY DEF Ending, OnTheWay
<1>2. \A c \in Channels : tx'[c] = IF c \in Ending THEN "idle" ELSE tx[c]
  BY <1>1, Ended1 DEF RoundInv
<1>4. Simultaneous'
  BY DEF Simultaneous, Soaking
<1>3. OnTheWay' = OnTheWay \ Ending
  <2>1. OnTheWay' = {c \in Channels : tx'[c] = "busy"
                        \/ (pc = "staggering" /\ c \in at.next .. at.count - 1)}
    BY <1>4 DEF OnTheWay
  <2>2. OnTheWay = {c \in Channels : tx[c] = "busy"
                        \/ (pc = "staggering" /\ c \in at.next .. at.count - 1)}
    BY DEF OnTheWay
  <2>3. \A c \in Ending : tx[c] = "busy"
    BY DEF Ending
  <2> DEFINE Starting(c) == pc = "staggering" /\ c \in at.next .. at.count - 1
  <2>4. \A c \in Channels : Starting(c) => c \notin Ending
    BY <2>3
  <2> HIDE DEF Starting
  <2>5. \A c \in Channels : (tx'[c] = "busy" \/ Starting(c))
                               <=> (tx[c] = "busy" \/ Starting(c)) /\ c \notin Ending
    BY <1>2, <2>4
  <2>6. /\ OnTheWay' = {c \in Channels : tx'[c] = "busy" \/ Starting(c)}
        /\ OnTheWay = {c \in Channels : tx[c] = "busy" \/ Starting(c)}
    BY <2>1, <2>2 DEF Starting
  <2> QED
    BY ONLY <2>5, <2>6
<1>11. Hanging' = Hanging /\ \A kind : EndWith(kind)' = EndWith(kind)
  <2>1. Hanging' = Hanging
    BY DEF Hanging, Is
  <2> QED
    BY <2>1 DEF EndWith, Is
<1>5. ASSUME NEW kind \in {"late", "tx_err"}
      PROVE  Ahead(kind)' + Cardinality({c \in Ending : Is(kind, c)}) = Ahead(kind)
  <2> DEFINE Each == OnTheWay \cap EndWith(kind)
             These == {c \in Ending : Is(kind, c)}
  <2>1. These \subseteq Each
    <3>1. \A c \in Ending : c \in Channels \ Hanging
      BY DEF Ending, Hanging
    <3> QED
      BY <1>1, <3>1 DEF EndWith
  <2>2. (OnTheWay \ Ending) \cap EndWith(kind) = Each \ These
    BY DEF EndWith
  <2>3. Ahead(kind)' = Cardinality((OnTheWay \ Ending) \cap EndWith(kind))
    BY <1>3, <1>11 DEF Ahead, Fate
  <2>4. Ahead(kind) = Cardinality(Each)
    BY DEF Ahead, Fate
  <2>5. Each \in SUBSET Channels /\ These \in SUBSET Channels
    BY <1>1 DEF OnTheWay
  <2> HIDE DEF Each, These
  <2>6. IsFiniteSet(Each) /\ Cardinality(Each) \in Nat /\ Cardinality(These) \in Nat
    BY <2>5, ChannelsFinite
  <2>7. Each \cap These = These
    BY <2>1
  <2>8. Cardinality(Each \ These) = Cardinality(Each) - Cardinality(Each \cap These)
    BY <2>6, FS_Difference
  <2>9. Cardinality(Each \ These) = Cardinality(Each) - Cardinality(These)
    BY <2>7, <2>8
  <2>10. Ahead(kind)' = Cardinality(Each) - Cardinality(These)
    BY ONLY <2>2, <2>3, <2>9
  <2> QED
    BY <2>4, <2>6, <2>10 DEF These
<1>6. Ahead("hang")' = Ahead("hang") /\ Spoiling' = Spoiling
  <2>1. (OnTheWay \ Ending) \cap Hanging = OnTheWay \cap Hanging
    BY DEF Ending, Hanging
  <2>2. OnTheWay' \cap Hanging' = OnTheWay \cap Hanging
    BY <1>3, <1>11, <2>1
  <2>3. Ahead("hang")' = Cardinality(OnTheWay' \cap Hanging')
    BY DEF Ahead, Fate
  <2>4. Ahead("hang") = Cardinality(OnTheWay \cap Hanging)
    BY DEF Ahead, Fate
  <2> QED
    BY <2>2, <2>3, <2>4 DEF Spoiling
<1>7. OnTheWay \in SUBSET Channels /\ OnTheWay' \in SUBSET Channels /\ Ending \in SUBSET Channels
  BY <1>1, <1>3 DEF OnTheWay
<1>8. /\ IsFiniteSet(OnTheWay) /\ Cardinality(OnTheWay) \in Nat
      /\ Cardinality(OnTheWay') \in Nat /\ Cardinality(Ending) \in Nat
  BY <1>7, ChannelsFinite
<1>9. Cardinality(OnTheWay \ Ending) = Cardinality(OnTheWay) - Cardinality(Ending)
  <2>1. OnTheWay \cap Ending = Ending
    BY <1>1
  <2>2. Cardinality(OnTheWay \ Ending) = Cardinality(OnTheWay) - Cardinality(OnTheWay \cap Ending)
    BY <1>8, FS_Difference
  <2> QED
    BY <2>1, <2>2
<1>10. Cardinality(OnTheWay') = Cardinality(OnTheWay \ Ending)
  BY <1>3
<1> QED
  BY <1>1, <1>3, <1>5, <1>6, <1>8, <1>9, <1>10

LEMMA SoakTxEndKeeps ==
    ASSUME SoakInv, TxEnd, UNCHANGED vars
    PROVE  SoakInv' /\ pc # "reported" /\ pc' = pc
<1>1. /\ Soaking /\ step = 1 /\ N > 0 /\ RoundInv /\ SoakTypes /\ SoakCounts /\ Simultaneous
      /\ UNCHANGED <<program, pc, at, sent, rx, upset, budget, log, truth, step>>
      /\ Ending # {} /\ Finish(Ending)
  BY DEF SoakInv, TxEnd, vars, Simultaneous
<1>2. pc \in {"sending", "staggering"}
  BY <1>1 DEF RoundInv, all_complete, Ending
<1>3. active' = active /\ active \subseteq Channels /\ Cardinality(active) \in Nat
  BY <1>1, SoakActive, ActiveStays
<1>4. /\ OnTheWay' = OnTheWay \ Ending /\ Ending \subseteq OnTheWay /\ Ending \subseteq Channels
      /\ Ahead("late")' + Cardinality({c \in Ending : Is("late", c)}) = Ahead("late")
      /\ Ahead("tx_err")' + Cardinality({c \in Ending : Is("tx_err", c)}) = Ahead("tx_err")
      /\ Ahead("hang")' = Ahead("hang") /\ Spoiling' = Spoiling
      /\ Cardinality(OnTheWay)' + Cardinality(Ending) = Cardinality(OnTheWay)
      /\ Cardinality(OnTheWay) \in Nat /\ Cardinality(OnTheWay)' \in Nat
      /\ Cardinality(Ending) \in Nat
  <2>1. /\ OnTheWay' = OnTheWay \ Ending /\ Ending \subseteq OnTheWay /\ Ending \subseteq Channels
        /\ \A kind \in {"late", "tx_err"} :
                 Ahead(kind)' + Cardinality({c \in Ending : Is(kind, c)}) = Ahead(kind)
        /\ Ahead("hang")' = Ahead("hang") /\ Spoiling' = Spoiling
        /\ Cardinality(OnTheWay)' + Cardinality(Ending) = Cardinality(OnTheWay)
        /\ Cardinality(OnTheWay) \in Nat /\ Cardinality(OnTheWay)' \in Nat
        /\ Cardinality(Ending) \in Nat
    <3>1. \A c \in Channels : pc = "staggering" /\ c \in at.next .. at.count - 1
                                => tx[c] = "idle"
      <4>1. at.next \in Int
        BY <1>1, SoakActive, GroupAssumption
      <4> QED
        BY <1>1, <4>1 DEF SoakTypes
    <3> QED
      BY <1>1, <3>1, EndsCount
  <2> QED
    BY <2>1
<1>5. /\ stats' \in [Channels -> Counters] /\ tx' \in [Channels -> {"idle", "busy"}]
      /\ \A c \in Channels :
            /\ tx'[c] = IF c \in Ending THEN "idle" ELSE tx[c]
            /\ stats'[c].frames = stats[c].frames + IF c \in Ending THEN 1 ELSE 0
            /\ stats'[c].trips
                 = stats[c].trips + IF c \in {d \in Ending : Is("late", d)} THEN 1 ELSE 0
            /\ stats'[c].errors
                 = stats[c].errors + IF c \in {d \in Ending : Is("tx_err", d)} THEN 1 ELSE 0
  BY <1>1, <1>4, Ended1 DEF RoundInv
<1>6. SoakTypes'
  <2>1. pc = "staggering" => \A c \in Channels : c >= at.next => tx'[c] = "idle"
    BY <1>1, <1>5 DEF SoakTypes
  <2> QED
    BY <1>1, <2>1 DEF SoakTypes
<1>7. RoundInv'
  <2>1. Hanging' \subseteq OnTheWay \ Ending
    <3>1. Hanging \subseteq OnTheWay
      BY <1>1, <1>2 DEF RoundInv
    <3>2. Hanging' = Hanging /\ Hanging \cap Ending = {}
      BY <1>1 DEF Hanging, Is, Ending
    <3> QED
      BY <3>1, <3>2
  <2> QED
    BY <1>1, <1>2, <1>3, <1>4, <1>5, <2>1 DEF RoundInv
<1>8. Ending \subseteq active
  BY <1>1, <1>4 DEF RoundInv
<1>9. /\ Total("frames")' = Total("frames") + Cardinality(Ending) /\ Total("frames") \in Int
      /\ Total("trips")' = Total("trips") + Cardinality({c \in Ending : Is("late", c)})
      /\ Total("errors")' = Total("errors") + Cardinality({c \in Ending : Is("tx_err", c)})
      /\ Total("trips") \in Int /\ Total("errors") \in Int
      /\ Cardinality({c \in Ending : Is("late", c)}) \in Nat
      /\ Cardinality({c \in Ending : Is("tx_err", c)}) \in Nat
  <2>1. Total("frames")' = Total("frames") + Cardinality(Ending) /\ Total("frames") \in Int
    BY <1>1, <1>3, <1>5, <1>8, TotalGrows DEF RoundInv
  <2> DEFINE L == {c \in Ending : Is("late", c)}
             E == {c \in Ending : Is("tx_err", c)}
  <2>2. L \in SUBSET active /\ E \in SUBSET active
    BY <1>8
  <2> HIDE DEF L, E
  <2>3. (\A c \in active : stats'[c].trips = stats[c].trips + IF c \in L THEN 1 ELSE 0)
        /\ (\A c \in active : stats'[c].errors = stats[c].errors + IF c \in E THEN 1 ELSE 0)
    BY <1>3, <1>5 DEF L, E
  <2>4. Total("trips")' = Total("trips") + Cardinality(L) /\ Total("trips") \in Int
        /\ Cardinality(L) \in Nat
    BY <1>1, <1>3, <1>5, <2>2, <2>3, TotalGrows DEF RoundInv
  <2>5. Total("errors")' = Total("errors") + Cardinality(E) /\ Total("errors") \in Int
        /\ Cardinality(E) \in Nat
    BY <1>1, <1>3, <1>5, <2>2, <2>3, TotalGrows DEF RoundInv
  <2> QED
    BY <2>1, <2>4, <2>5 DEF L, E
<1>10. Ahead("late")' \in Nat /\ Ahead("tx_err")' \in Nat /\ Ahead("hang") \in Nat
  BY AheadNat, AheadNatNext
<1>11. \A c \in Channels : stats'[c].trips <= stats'[c].frames
  <2> SUFFICES ASSUME NEW c \in Channels PROVE stats'[c].trips <= stats'[c].frames
    OBVIOUS
  <2>1. stats[c].trips <= stats[c].frames /\ stats[c].trips \in Nat /\ stats[c].frames \in Nat
    <3>1. stats[c] \in Counters
      BY <1>1 DEF RoundInv
    <3> QED
      BY <1>1, <3>1 DEF SoakCounts, Counters
  <2> QED
    BY <1>5, <2>1
<1>12. SoakCounts'
  <2> DEFINE q == truth.rounds * Cardinality(active) - truth.hung
  <2>1. /\ Total("trips") + Ahead("late") = truth.late
        /\ Total("errors") + Ahead("tx_err") = truth.errors
        /\ Total("frames") + Cardinality(OnTheWay) = q + Ahead("hang")
        /\ log.timeouts + Spoiling = truth.spoilt
    BY <1>1 DEF SoakCounts
  <2>2. q' = q /\ log' = log /\ truth' = truth
    BY <1>1, <1>3
  <2> HIDE DEF q
  <2>3. /\ Total("trips")' + Ahead("late")' = truth.late
        /\ Total("errors")' + Ahead("tx_err")' = truth.errors
        /\ Total("frames")' + Cardinality(OnTheWay)' = q + Ahead("hang")
    BY <1>4, <1>9, <1>10, <2>1
  <2> QED
    BY <1>4, <1>11, <2>1, <2>2, <2>3 DEF SoakCounts, q
<1> QED
  BY <1>1, <1>2, <1>6, <1>7, <1>12 DEF SoakInv, Soaking

LEMMA SoakStill ==
    ASSUME SoakInv, UNCHANGED <<program, pc, at, tx, upset, stats, log, truth, step>>
    PROVE  SoakInv'
<1>1. OnTheWay' = OnTheWay /\ active' = active /\ Simultaneous' = Simultaneous
  BY DEF OnTheWay, active, SLOT_STRIDE, Simultaneous, Soaking
<1>2. RoundInv'
  <2>1. Hanging' = Hanging
    BY DEF Hanging, Is
  <2> QED
    BY <1>1, <2>1 DEF SoakInv, RoundInv, all_complete
<1>3. SoakCounts'
  BY <1>1, SoakSame DEF SoakInv
<1>4. SoakTypes'
  BY DEF SoakInv, SoakTypes
<1> QED
  BY <1>2, <1>3, <1>4 DEF SoakInv, Soaking

\* The total of the trips is no more than the total of the frames.
LEMMA TripsAreFrames ==
    ASSUME stats \in [Channels -> Counters], active \subseteq Channels,
           \A c \in Channels : stats[c].trips <= stats[c].frames
    PROVE  Total("trips") <= Total("frames") /\ Total("trips") \in Int /\ Total("frames") \in Int
<1> DEFINE F == [c \in active |-> stats[c]["trips"]]
           H == [c \in active |-> stats[c]["frames"]]
           G == [c \in active |-> stats[c]["frames"] - stats[c]["trips"]]
<1>1. \A c \in active : /\ stats[c].trips \in Nat /\ stats[c].frames \in Nat
                        /\ stats[c].trips <= stats[c].frames
  <2>1. \A c \in active : stats[c] \in Counters
    OBVIOUS
  <2> QED
    BY <2>1 DEF Counters
<1>2. F \in [active -> Int] /\ H \in [active -> Int] /\ G \in [active -> Nat] /\ G \in [active -> Int]
  BY <1>1
<1>3. \A c \in active : H[c] = F[c] + G[c]
  BY <1>1
<1>4. Total("trips") = SumFunction(F) /\ Total("frames") = SumFunction(H)
  BY DEF Total
<1>5. IsFiniteSet(active)
  BY ChannelsFinite
<1> HIDE DEF F, G, H
<1>6. SumFunction(H) = SumFunction(F) + SumFunction(G)
  BY <1>2, <1>3, <1>5, SumPlus
<1>7. SumFunction(G) \in Nat
  BY <1>2, <1>5, SumNat
<1>8. SumFunction(F) \in Int /\ SumFunction(H) \in Int
  BY <1>2, <1>5, SumInt
<1> QED
  BY <1>4, <1>6, <1>7, <1>8

LEMMA SoakAgainKeeps ==
    ASSUME SoakInv, SoakAgain, UNCHANGED vars
    PROVE  SoakInv' /\ pc' # "reported"
<1>1. /\ Soaking /\ step = 1 /\ N > 0 /\ pc = "tail" /\ RoundInv /\ SoakTypes /\ SoakCounts
      /\ UNCHANGED <<program, sent, tx, rx, upset, budget, stats, log, truth, step>>
      /\ at' = [at EXCEPT !.left = @ - 1] /\ pc' = "starting"
  BY DEF SoakInv, SoakAgain, vars
<1>2. at' \in SoakLoops /\ at'.count = at.count /\ at'.victims = {}
  <2>1. at \in SoakLoops
    BY <1>1 DEF SoakTypes
  <2> QED
    BY <1>1, <2>1 DEF SoakLoops
<1>3. active' = active
  BY <1>1, <1>2, ActiveStays
<1>4. all_complete /\ all_complete' /\ OnTheWay = {} /\ OnTheWay' = {}
  BY <1>1 DEF RoundInv, Simultaneous, OnTheWay, all_complete
<1>5. RoundInv'
  BY <1>1, <1>2, <1>3, <1>4 DEF RoundInv
<1>6. SoakTypes'
  BY <1>1, <1>2 DEF SoakTypes
<1>7. SoakCounts'
  BY <1>1, <1>3, <1>4, SoakSame
<1> QED
  BY <1>1, <1>5, <1>6, <1>7 DEF SoakInv, Soaking

\* finish and report_cell: the line counts the frames that ended, and the sets of
\* frames with some missing.
LEMMA SoakResultKeeps ==
    ASSUME SoakInv, SoakResult, UNCHANGED vars
    PROVE  SoakInv' /\ ReportsTruthful'
<1>1. /\ Soaking /\ step = 1 /\ N > 0 /\ pc = "tail" /\ RoundInv /\ SoakTypes /\ SoakCounts
      /\ UNCHANGED <<program, at, sent, tx, rx, upset, budget, stats, truth, step>>
      /\ pc' = "reported"
  BY DEF SoakInv, SoakResult, vars
<1> DEFINE line == [said |-> "RESULT", frames |-> Total("frames"),
            complete |-> Total("frames") - Least(Total("trips"), Total("frames")),
            trips |-> Total("trips"), errors |-> Total("errors"), hangs |-> log.timeouts]
<1>2. log' = [timeouts |-> log.timeouts, result |-> line]
  <2>1. log = [timeouts |-> log.timeouts, result |-> log.result]
    BY <1>1 DEF SoakTypes
  <2>2. log' = [log EXCEPT !.result = line]
    BY DEF SoakResult
  <2> HIDE DEF line
  <2> QED
    BY <2>1, <2>2
<1>3. active' = active /\ active \subseteq Channels /\ Cardinality(active) \in Nat
  BY <1>1, SoakActive, ActiveStays
<1>4. all_complete /\ all_complete' /\ OnTheWay = {} /\ OnTheWay' = {}
  BY <1>1 DEF RoundInv, Simultaneous, OnTheWay, all_complete
<1>5. RoundInv'
  BY <1>1, <1>3, <1>4 DEF RoundInv
<1>6. SoakTypes'
  <2> HIDE DEF line
  <2> QED
    BY <1>1, <1>2 DEF SoakTypes
<1>7. SoakCounts'
  <2> HIDE DEF line
  <2>1. log'.timeouts = log.timeouts
    BY <1>2
  <2> QED
    BY <1>1, <1>3, <1>4, <2>1, SoakSame
<1>8. Total("trips") <= Total("frames") /\ Total("trips") \in Int /\ Total("frames") \in Int
  BY <1>1, <1>3, TripsAreFrames DEF RoundInv, SoakCounts
<1>9. /\ Total("trips") = truth.late /\ Total("errors") = truth.errors
      /\ Total("frames") = truth.rounds * Cardinality(active) - truth.hung
      /\ log.timeouts = truth.spoilt
  <2>3. truth.rounds * Cardinality(active) - truth.hung \in Int
    <3>1. truth.rounds \in Nat /\ truth.hung \in Nat
      BY <1>1, TruthTypes DEF RoundInv
    <3>2. truth.rounds * Cardinality(active) \in Int
      BY <1>3, <3>1
    <3> QED
      BY <3>1, <3>2
  <2>4. Total("errors") \in Int /\ log.timeouts \in Int
    BY <1>1, <1>3, TotalInt DEF RoundInv, SoakTypes
  <2> DEFINE q == truth.rounds * Cardinality(active) - truth.hung
  <2>5. /\ Total("trips") + 0 = truth.late /\ Total("errors") + 0 = truth.errors
        /\ Total("frames") + 0 = q + 0 /\ log.timeouts + 0 = truth.spoilt
    BY <1>1, <1>4, NoneAhead DEF SoakCounts
  <2>6. q \in Int
    BY <2>3
  <2> HIDE DEF q
  <2> QED
    BY <1>8, <2>4, <2>5, <2>6 DEF q
<1>10. /\ line.frames = Total("frames") /\ line.complete = Total("frames") - Total("trips")
       /\ line.trips = Total("trips") /\ line.errors = Total("errors") /\ line.hangs = log.timeouts
  BY <1>8 DEF Least
<1>11. log'.result = line
  <2> HIDE DEF line
  <2> QED
    BY <1>2
<1>12. ~Demo'
  BY <1>1 DEF Demo, Soaking
<1> HIDE DEF line
<1>13. ReportsTruthful'
  BY <1>1, <1>3, <1>9, <1>10, <1>11, <1>12 DEF ReportsTruthful
<1> QED
  BY <1>1, <1>5, <1>6, <1>7, <1>13 DEF SoakInv, Soaking

LEMMA NothingTypes == Nothing \in Truths
BY DEF Nothing, Truths

SoakLooping == Soaking /\ step = 1 /\ SoakTypes
SoakSet == active \subseteq Channels /\ Cardinality(active) \in Nat /\ IsFiniteSet(active)

LEMMA SoakActiveKnown == SoakLooping => SoakSet
BY SoakActive DEF SoakLooping, SoakSet

LEMMA SoakActiveNext == SoakLooping' => SoakSet'
BY SoakActiveKnown, PTL

Advanced(r, n, m) == [r EXCEPT !.unit = @ + 1, !.count = n, !.left = m]

LEMMA SoakLoopUnit ==
    ASSUME NEW r \in SoakLoops, NEW n \in 1 .. N, NEW m \in Int
    PROVE  Advanced(r, n, m) \in SoakLoops /\ Advanced(r, n, m).count = n
<1> SUFFICES ASSUME NEW s, s = Advanced(r, n, m)
             PROVE  s \in SoakLoops /\ s.count = n
  BY Zenon
<1>1. s = [unit |-> r.unit + 1, count |-> n, left |-> m, stagger |-> r.stagger,
           next |-> r.next, victims |-> r.victims]
  BY DEF SoakLoops, Advanced
<1>2. /\ r.unit \in Nat /\ r.stagger \in BOOLEAN /\ r.next \in 0 .. N /\ r.victims \in {{}}
  BY DEF SoakLoops
<1> QED
  BY <1>1, <1>2 DEF SoakLoops

\* A scenario or a cell begins with nothing counted and nothing to account for.
LEMMA SoakBegins ==
    ASSUME Soaking', step' = 1, N > 0, all_complete', tx' \in [Channels -> {"idle", "busy"}],
           truth' = Nothing, FreshCounters, FreshLog,
           at' \in SoakLoops, program' = "stress" => at'.count = N, pc' \in {"starting", "done"}
    PROVE  SoakInv' /\ pc' # "reported"
<1>1. stats' = [c \in Channels |-> [frames |-> 0, trips |-> 0, errors |-> 0]]
  BY DEF FreshCounters, Every, NoStats
<1>2. stats' \in [Channels -> Counters]
  BY <1>1 DEF Counters
<1>3. log' = [timeouts |-> 0, result |-> NoResult]
  BY DEF FreshLog
<1>4. SoakTypes'
  BY <1>3 DEF SoakTypes
<1>5. OnTheWay' = {}
  BY DEF OnTheWay, all_complete
<1>6. RoundInv'
  BY <1>2, <1>5, NothingTypes, SoakLoopTypes DEF RoundInv
<1>7. (active \subseteq Channels)' /\ Cardinality(active') \in Nat /\ IsFiniteSet(active')
  BY <1>4, SoakActiveNext DEF SoakLooping, SoakSet
<1>8. Total("frames")' = 0 /\ Total("trips")' = 0 /\ Total("errors")' = 0
  <2>1. ASSUME NEW counter \in {"frames", "trips", "errors"} PROVE Total(counter)' = 0
    <3> DEFINE F == [c \in active' |-> stats'[c][counter]]
    <3>1. \A c \in active' : stats'[c][counter] = 0
      BY <1>1, <1>7
    <3>2. F \in [active' -> Int] /\ \A c \in active' : F[c] = 0
      BY <3>1
    <3>3. Total(counter)' = SumFunction(F)
      BY DEF Total
    <3> HIDE DEF F
    <3> QED
      BY <1>7, <3>2, <3>3, SumZero
  <2> QED
    BY <2>1
<1>9. /\ Ahead("late")' = 0 /\ Ahead("tx_err")' = 0 /\ Ahead("hang")' = 0
      /\ Spoiling' = 0 /\ Cardinality(OnTheWay)' = 0
  BY <1>5, NoneAheadNext
<1>11. /\ truth'.late = 0 /\ truth'.errors = 0 /\ truth'.rounds = 0 /\ truth'.hung = 0
       /\ truth'.spoilt = 0
       /\ log'.timeouts = 0 /\ \A c \in Channels : stats'[c].trips = 0 /\ stats'[c].frames = 0
  BY <1>1, <1>3 DEF Nothing
<1>12. truth'.rounds * Cardinality(active') = 0
  BY <1>7, <1>11
<1>13. SoakCounts'
  BY <1>8, <1>9, <1>11, <1>12 DEF SoakCounts
<1> QED
  BY <1>4, <1>6, <1>13 DEF SoakInv

LEMMA NextUnitKeeps ==
    ASSUME SoakInv, NextScenario \/ NextCell, UNCHANGED vars
    PROVE  SoakInv' /\ pc' # "reported"
<1>1. /\ Soaking /\ step = 1 /\ N > 0 /\ pc = "reported" /\ RoundInv /\ SoakTypes
      /\ UNCHANGED <<program, sent, tx, rx, upset, budget, step>>
      /\ truth' = Nothing /\ FreshCounters /\ FreshLog
      /\ pc' \in {"starting", "done"}
  BY DEF SoakInv, NextScenario, NextCell, NextUnit, vars
<1>2. at \in SoakLoops /\ at.unit \in Nat
  BY <1>1, SoakLoopTypes DEF SoakTypes
<1>3. PICK count \in 1 .. N : /\ at' = [at EXCEPT !.unit = @ + 1, !.count = count, !.left = Rounds]
                              /\ program = "stress" => count = N
  <2>1. N \in Nat
    BY GroupAssumption
  <2>2. CASE NextScenario
    <3>1. N \in 1 .. N
      BY <1>1, <2>1
    <3>2. at' = [at EXCEPT !.unit = @ + 1, !.count = N, !.left = Rounds]
      BY <2>2 DEF NextScenario, NextUnit
    <3> QED
      BY <3>1, <3>2
  <2>3. CASE NextCell
    <3>1. USABLE_CHANNELS = N
      BY <1>1, <2>1 DEF USABLE_CHANNELS, SLOT_STRIDE
    <3>2. (at.unit % N) + 1 \in 1 .. N
      BY <1>1, <1>2, <2>1
    <3>3. at' = [at EXCEPT !.unit = @ + 1, !.count = (at.unit % N) + 1, !.left = Rounds]
          /\ program # "stress"
      BY <2>3, <3>1 DEF NextCell, NextUnit
    <3> QED
      BY <3>2, <3>3
  <2> QED
    BY <2>2, <2>3
<1>4. at' \in SoakLoops /\ at'.count = count
  <2>1. Rounds \in Int
    BY SoaksAssumption
  <2>2. at' = Advanced(at, count, Rounds)
    BY <1>3 DEF Advanced
  <2> QED
    BY <1>2, <2>1, <2>2, SoakLoopUnit
<1>5. all_complete /\ all_complete'
  BY <1>1 DEF RoundInv, Simultaneous, all_complete
<1> QED
  BY <1>1, <1>3, <1>4, <1>5, SoakBegins DEF RoundInv, Soaking

-----------------------------------------------------------------------------
DemoInv == Demo /\ N > 0 /\ RoundInv /\ DemoTypes /\ DemoCounts

LEMMA DemoActive == Demo => active = Channels /\ ~Soaking
BY DEF Demo, active, Soaking

LEMMA DemoLoopTypes ==
    ASSUME NEW r \in DemoLoops
    PROVE  /\ r.mode \in {"simultaneous", "free_running"} /\ r.left \in Int /\ r.victims = {}
BY DEF DemoLoops

\* The counters agree as before if a step moves none of what they speak of.
LEMMA DemoSame ==
    ASSUME DemoCounts, UNCHANGED stats, SinceReport' = SinceReport, OnTheWay' = OnTheWay,
           UNCHANGED upset \/ OnTheWay = {},
           log'.timeouts = log.timeouts, log'.last = log.last,
           log'.last_timeouts = log.last_timeouts
    PROVE  DemoCounts'
<1>1. /\ Ahead("late")' = Ahead("late") /\ Ahead("tx_err")' = Ahead("tx_err")
      /\ Ahead("hang")' = Ahead("hang")
  <2>1. CASE UNCHANGED upset
    BY <2>1, SameAhead
  <2>2. CASE OnTheWay = {}
    BY <2>2, NoneAhead, NoneAheadNext
  <2> QED
    BY <2>1, <2>2
<1>2. (\A counter : Delta(counter)' = Delta(counter)) /\ DeltaTimeouts' = DeltaTimeouts
  BY DEF Delta, DeltaTimeouts
<1>3. \A c \in Channels : (c \in OnTheWay /\ ~Is("hang", c))' <=> c \in OnTheWay /\ ~Is("hang", c)
  BY DEF Is
<1> QED
  BY <1>1, <1>2, <1>3 DEF DemoCounts

LEMMA DemoStill ==
    ASSUME DemoInv, UNCHANGED <<program, pc, at, tx, upset, stats, log, truth>>
    PROVE  DemoInv'
<1>1. OnTheWay' = OnTheWay /\ active' = active /\ Simultaneous' = Simultaneous
      /\ SinceReport' = SinceReport
  BY DemoActive DEF OnTheWay, active, Simultaneous, Soaking, DemoInv, Demo, SinceReport
<1>2. RoundInv'
  <2>1. Hanging' = Hanging
    BY DEF Hanging, Is
  <2> QED
    BY <1>1, <2>1 DEF DemoInv, RoundInv, all_complete
<1>3. DemoCounts'
  BY <1>1, DemoSame DEF DemoInv
<1>4. DemoTypes'
  BY DEF DemoInv, DemoTypes
<1> QED
  BY <1>2, <1>3, <1>4 DEF DemoInv, Demo

LEMMA DemoStartKeeps ==
    ASSUME DemoInv, SoakStart
    PROVE  DemoInv' /\ pc' # "reported"
<1>1. /\ Demo /\ N > 0 /\ pc = "starting" /\ RoundInv /\ DemoTypes /\ DemoCounts
      /\ Weather(SendFaults(active))
      /\ UNCHANGED <<program, sent, rx, stats, log>>
  BY DEF DemoInv, SoakStart
<1>2. active = Channels /\ active' = Channels /\ ~Soaking /\ Demo'
  BY <1>1, DemoActive DEF Demo, active
<1>3. at \in DemoLoops /\ at.mode = "simultaneous" /\ at.victims = {} /\ Simultaneous
  BY <1>1, DemoLoopTypes DEF DemoTypes, Simultaneous
<1>4. all_complete /\ ~Refused(active) /\ OnTheWay = {}
  <2>1. all_complete
    BY <1>1, <1>3 DEF RoundInv
  <2> QED
    BY <1>1, <1>2, <2>1 DEF all_complete, Refused, OnTheWay
<1>5. pc' = "sending" /\ at' = at /\ tx' = [c \in Channels |-> "busy"]
  BY <1>2, <1>4 DEF SoakStart, StartAll
<1>6. DemoTypes'
  BY <1>1, <1>3, <1>5 DEF DemoTypes
<1>7. OnTheWay' = Channels
  BY <1>3, <1>5 DEF OnTheWay, Simultaneous
<1> DEFINE L == Cardinality(EndWith("late")')
           E == Cardinality(EndWith("tx_err")')
           H == Cardinality(Hanging')
           K == IF Hanging' = {} THEN 0 ELSE 1
           A == Channels \ Hanging'
<1>8. /\ Hanging' \subseteq Channels
      /\ Ahead("late")' = L /\ Ahead("tx_err")' = E /\ Ahead("hang")' = H
  BY <1>1, <1>2, <1>7, RoundStarts
<1>9. L \in Nat /\ E \in Nat /\ H \in Nat /\ K \in Nat /\ A \in SUBSET Channels
  BY <1>8, AheadNatNext
<1>15. ASSUME NEW c \in Channels
       PROVE  c \in A <=> c \in OnTheWay' /\ ~Is("hang", c)'
  BY <1>7 DEF Hanging
<1>17. truth' = Grown(truth, L, E, H, K, A)
  BY <1>2 DEF Grown, SoakStart
<1> HIDE DEF L, E, H, K, A
<1>10. /\ truth' \in Truths /\ truth'.late = truth.late + L
       /\ truth'.errors = truth.errors + E /\ truth'.hung = truth.hung + H
       /\ truth'.drained = truth.drained /\ truth'.advanced = truth.advanced \cup A
       /\ truth.late \in Nat /\ truth.errors \in Nat /\ truth.hung \in Nat /\ truth.drained \in Nat
  <2>1. truth \in Truths
    BY <1>1 DEF RoundInv
  <2>2. LET u == Grown(truth, L, E, H, K, A)
        IN  /\ u \in Truths /\ u.late = truth.late + L
            /\ u.errors = truth.errors + E /\ u.hung = truth.hung + H
            /\ u.drained = truth.drained /\ u.advanced = truth.advanced \cup A
    BY ONLY <1>9, <2>1, TruthGrows
  <2>3. /\ truth.late \in Nat /\ truth.errors \in Nat /\ truth.hung \in Nat
        /\ truth.drained \in Nat
    BY <2>1, TruthTypes
  <2> QED
    BY <1>17, <2>2, <2>3
<1>11. RoundInv'
  <2>1. tx' \in [Channels -> {"idle", "busy"}] /\ stats' \in [Channels -> Counters]
        /\ at'.victims = {} /\ pc' = "sending"
    BY <1>1, <1>3, <1>5 DEF RoundInv
  <2> QED
    BY <1>2, <1>7, <1>8, <1>10, <2>1 DEF RoundInv
<1>12. Ahead("late") = 0 /\ Ahead("tx_err") = 0 /\ Ahead("hang") = 0
  BY <1>4, NoneAhead
<1>13. (\A counter : Delta(counter)' = Delta(counter)) /\ DeltaTimeouts' = DeltaTimeouts
  BY <1>1 DEF Delta, DeltaTimeouts
<1>14. SinceReport = truth /\ SinceReport' = truth'
  BY <1>1, <1>5 DEF SinceReport
<1>16. DemoCounts'
  <2>1. /\ Delta("trips") + 0 = truth.late /\ Delta("errors") + 0 = truth.errors
        /\ \A c \in Channels :
              /\ stats[c].frames >= log.last[c].frames
              /\ c \in truth.advanced <=> stats[c].frames > log.last[c].frames
              /\ log.timeouts[c] >= log.last_timeouts[c]
        /\ truth.hung - 0 >= truth.drained
        /\ truth.hung - 0 > truth.drained <=>
              \E c \in Channels : log.timeouts[c] > log.last_timeouts[c]
        /\ truth.hung - 0 <= truth.drained + DeltaTimeouts
    BY <1>1, <1>4, <1>12, <1>14 DEF DemoCounts
  <2>2. Delta("trips") \in Int /\ Delta("errors") \in Int
    BY <1>1, DeltaInt DEF RoundInv, DemoTypes
  <2>3. /\ Delta("trips")' + Ahead("late")' = truth'.late
        /\ Delta("errors")' + Ahead("tx_err")' = truth'.errors
    BY <1>8, <1>9, <1>10, <1>13, <2>1, <2>2
  <2>4. truth'.hung - Ahead("hang")' = truth.hung
    BY <1>8, <1>9, <1>10
  <2>5. /\ truth'.hung - Ahead("hang")' >= truth'.drained
        /\ truth'.hung - Ahead("hang")' > truth'.drained <=>
              \E c \in Channels : log.timeouts[c] > log.last_timeouts[c]
        /\ truth'.hung - Ahead("hang")' <= truth'.drained + DeltaTimeouts'
    BY <1>10, <1>13, <2>1, <2>4
  <2>6. \A c \in Channels : c \in truth'.advanced <=>
                \/ stats[c].frames > log.last[c].frames
                \/ c \in OnTheWay' /\ ~Is("hang", c)'
    BY <1>10, <1>15, <2>1
  <2>7. stats' = stats /\ log' = log
    BY <1>1
  <2> QED
    BY <1>14, <2>1, <2>3, <2>5, <2>6, <2>7 DEF DemoCounts
<1> QED
  BY <1>1, <1>2, <1>5, <1>6, <1>11, <1>16 DEF DemoInv

LEMMA DemoSentKeeps ==
    ASSUME DemoInv, SoakSent
    PROVE  DemoInv' /\ pc' # "reported"
<1>1. /\ Demo /\ N > 0 /\ pc = "sending" /\ RoundInv /\ DemoTypes /\ DemoCounts
      /\ UNCHANGED <<program, at, sent, tx, rx, upset, budget, stats, log, truth>>
      /\ all_complete /\ pc' = "tail"
  BY DEF DemoInv, SoakSent
<1>2. active' = active
  BY <1>1, DemoActive DEF active, Demo
<1>3. OnTheWay = {} /\ OnTheWay' = {}
  BY <1>1 DEF OnTheWay, all_complete
<1>4. RoundInv'
  BY <1>1, <1>2, <1>3 DEF RoundInv, all_complete
<1>5. DemoTypes'
  BY <1>1 DEF DemoTypes
<1>6. DemoCounts'
  <2>1. SinceReport' = SinceReport
    BY <1>1 DEF SinceReport
  <2> QED
    BY <1>1, <1>3, <2>1, DemoSame
<1> QED
  BY <1>1, <1>4, <1>5, <1>6 DEF DemoInv, Demo

LEMMA DemoHungKeeps ==
    ASSUME DemoInv, SoakHung
    PROVE  DemoInv' /\ pc' # "reported"
<1>1. /\ Demo /\ N > 0 /\ pc = "sending" /\ RoundInv /\ DemoTypes /\ DemoCounts
      /\ UNCHANGED <<program, at, sent, rx, upset, budget, stats, truth>>
      /\ Ending = {} /\ Hung /\ AbortAll /\ pc' = "tail"
  BY DEF DemoInv, SoakHung
<1>2. Simultaneous /\ at.mode = "simultaneous"
  BY <1>1, DemoLoopTypes DEF DemoTypes, Simultaneous
<1> DEFINE counts == [c \in Channels |-> log.timeouts[c] + 1]
<1>3. log' = [timeouts |-> counts, last |-> log.last,
              last_timeouts |-> log.last_timeouts, result |-> log.result]
  <2>1. log = [timeouts |-> log.timeouts, last |-> log.last,
               last_timeouts |-> log.last_timeouts, result |-> log.result]
    BY <1>1 DEF DemoTypes
  <2>2. log' = [log EXCEPT !.timeouts = counts]
    BY <1>1 DEF SoakHung, TimedOut
  <2> HIDE DEF counts
  <2> QED
    BY <2>1, <2>2
<1>4. /\ counts \in [Channels -> Nat] /\ \A c \in Channels : counts[c] = log.timeouts[c] + 1
      /\ \A c \in Channels : log.timeouts[c] \in Nat /\ log.last_timeouts[c] \in Nat
  BY <1>1 DEF DemoTypes
<1>5. active' = active
  BY <1>1, DemoActive DEF active, Demo
<1>6. OnTheWay' = {} /\ all_complete' /\ tx' \in [Channels -> {"idle", "busy"}]
  <2>1. all_complete' /\ tx' \in [Channels -> {"idle", "busy"}]
    BY <1>1 DEF AbortAll, Every, all_complete
  <2> QED
    BY <1>1, <2>1 DEF OnTheWay, all_complete
<1> HIDE DEF counts
<1>7. RoundInv'
  BY <1>1, <1>5, <1>6 DEF RoundInv
<1>8. DemoTypes'
  <2>1. log'.timeouts = counts /\ log'.last = log.last /\ log'.last_timeouts = log.last_timeouts
        /\ log'.result = log.result
    BY <1>3
  <2> QED
    BY <1>1, <1>2, <1>3, <1>4, <2>1 DEF DemoTypes
<1> DEFINE k == Cardinality(OnTheWay)
<1>9. /\ Ahead("late") = 0 /\ Ahead("tx_err") = 0 /\ Ahead("hang") = k
      /\ OnTheWay \subseteq Hanging /\ k \in Nat \ {0}
  <2>1. tx \in [Channels -> {"idle", "busy"}]
    BY <1>1 DEF RoundInv
  <2> QED
    BY <1>1, <1>2, <2>1, HungAlone
<1>13. Ahead("late")' = 0 /\ Ahead("tx_err")' = 0 /\ Ahead("hang")' = 0
  BY <1>6, NoneAheadNext
<1>10. \A counter : Delta(counter)' = Delta(counter)
  BY <1>1, <1>3 DEF Delta
<1>14. DeltaTimeouts' = DeltaTimeouts + Cardinality(Channels) /\ DeltaTimeouts \in Int
       /\ Cardinality(Channels) \in Nat /\ k <= Cardinality(Channels)
  <2>1. /\ log.timeouts \in [Channels -> Nat] /\ log'.timeouts = counts
        /\ log.last_timeouts \in [Channels -> Nat] /\ log'.last_timeouts = log.last_timeouts
    BY <1>1, <1>3 DEF DemoTypes
  <2>2. Channels \in SUBSET Channels
    OBVIOUS
  <2>3. /\ DeltaTimeouts \in Int /\ DeltaTimeouts' = DeltaTimeouts + Cardinality(Channels)
        /\ Cardinality(Channels) \in Nat
    BY <1>4, <2>1, <2>2, TimeoutsGrow
  <2>4. OnTheWay \subseteq Channels
    BY DEF OnTheWay
  <2>5. Cardinality(OnTheWay) <= Cardinality(Channels)
    BY <2>4, ChannelsFinite, FS_Subset
  <2> QED
    BY <2>3, <2>5
<1> HIDE DEF k
<1>11. SinceReport = truth /\ SinceReport' = truth
  BY <1>1 DEF SinceReport
<1>12. DemoCounts'
  <2>1. /\ Delta("trips") + 0 = truth.late /\ Delta("errors") + 0 = truth.errors
        /\ \A c \in Channels :
              /\ stats[c].frames >= log.last[c].frames
              /\ c \in truth.advanced <=>
                    \/ stats[c].frames > log.last[c].frames
                    \/ c \in OnTheWay /\ ~Is("hang", c)
              /\ log.timeouts[c] >= log.last_timeouts[c]
        /\ truth.hung - k >= truth.drained
        /\ truth.hung - k <= truth.drained + DeltaTimeouts
    BY <1>1, <1>9, <1>11 DEF DemoCounts
  <2>2. \A c \in Channels : c \in truth.advanced <=> stats[c].frames > log.last[c].frames
    BY <1>9, <2>1 DEF Hanging
  <2>3. \A c \in Channels : /\ counts[c] >= log.last_timeouts[c]
                            /\ counts[c] > log.last_timeouts[c]
    BY <1>4, <2>1
  <2>4. /\ truth.hung - 0 >= truth.drained /\ truth.hung - 0 > truth.drained
        /\ truth.hung - 0 <= truth.drained + DeltaTimeouts'
    <3>1. truth.hung \in Nat /\ truth.drained \in Nat
      BY <1>1, TruthTypes DEF RoundInv
    <3>2. truth.hung - k >= truth.drained /\ truth.hung - k <= truth.drained + DeltaTimeouts
      BY <2>1
    <3>3. k \in Nat \ {0}
      BY <1>9
    <3> QED
      BY ONLY <1>14, <3>1, <3>2, <3>3
  <2>6. Channels # {}
    BY <1>1, GroupAssumption DEF Channels
  <2>5. stats' = stats /\ log'.last = log.last /\ log'.timeouts = counts
        /\ log'.last_timeouts = log.last_timeouts
    BY <1>1, <1>3
  <2> QED
    BY <1>6, <1>10, <1>11, <1>13, <2>1, <2>2, <2>3, <2>4, <2>5, <2>6 DEF DemoCounts
<1> QED
  BY <1>1, <1>7, <1>8, <1>12 DEF DemoInv, Demo

\* What finish does to the counters the demo reports on.
LEMMA DemoEnded ==
    ASSUME RoundInv, DemoTypes, UNCHANGED log, NEW ends \in SUBSET Channels, Finish(ends)
    PROVE  /\ stats' \in [Channels -> Counters] /\ tx' \in [Channels -> {"idle", "busy"}]
           /\ \A c \in Channels : tx'[c] = IF c \in ends THEN "idle" ELSE tx[c]
           /\ \A c \in Channels :
                 /\ stats[c].frames \in Nat /\ log.last[c].frames \in Nat
                 /\ stats'[c].frames = stats[c].frames + IF c \in ends THEN 1 ELSE 0
           /\ Delta("trips")' = Delta("trips") + Cardinality({d \in ends : Is("late", d)})
           /\ Delta("errors")' = Delta("errors") + Cardinality({d \in ends : Is("tx_err", d)})
           /\ Delta("trips") \in Int /\ Delta("errors") \in Int
           /\ Cardinality({d \in ends : Is("late", d)}) \in Nat
           /\ Cardinality({d \in ends : Is("tx_err", d)}) \in Nat
<1>1. /\ stats \in [Channels -> Counters] /\ log.last \in [Channels -> Counters]
      /\ log'.last = log.last
  BY DEF RoundInv, DemoTypes
<1>2. /\ stats' \in [Channels -> Counters] /\ tx' \in [Channels -> {"idle", "busy"}]
      /\ \A c \in Channels :
            /\ tx'[c] = IF c \in ends THEN "idle" ELSE tx[c]
            /\ stats'[c].frames = stats[c].frames + IF c \in ends THEN 1 ELSE 0
            /\ stats'[c].trips
                 = stats[c].trips + IF c \in {d \in ends : Is("late", d)} THEN 1 ELSE 0
            /\ stats'[c].errors
                 = stats[c].errors + IF c \in {d \in ends : Is("tx_err", d)} THEN 1 ELSE 0
  BY Ended1 DEF RoundInv
<1>3. \A c \in Channels : stats[c].frames \in Nat /\ log.last[c].frames \in Nat
  <2>1. \A c \in Channels : stats[c] \in Counters /\ log.last[c] \in Counters
    BY <1>1
  <2> QED
    BY <2>1 DEF Counters
<1> DEFINE L == {d \in ends : Is("late", d)}
           E == {d \in ends : Is("tx_err", d)}
<1>4. L \in SUBSET Channels /\ E \in SUBSET Channels
  OBVIOUS
<1> HIDE DEF L, E
<1>5. (\A c \in Channels : stats'[c].trips = stats[c].trips + IF c \in L THEN 1 ELSE 0)
      /\ (\A c \in Channels : stats'[c].errors = stats[c].errors + IF c \in E THEN 1 ELSE 0)
  BY <1>2 DEF L, E
<1>6. /\ Delta("trips") \in Int /\ Delta("trips")' = Delta("trips") + Cardinality(L)
      /\ Cardinality(L) \in Nat
  BY <1>1, <1>2, <1>4, <1>5, DeltaGrows
<1>7. /\ Delta("errors") \in Int /\ Delta("errors")' = Delta("errors") + Cardinality(E)
      /\ Cardinality(E) \in Nat
  BY <1>1, <1>2, <1>4, <1>5, DeltaGrows
<1> QED
  BY <1>2, <1>3, <1>6, <1>7 DEF L, E

LEMMA DemoTxEndKeeps ==
    ASSUME DemoInv, TxEnd
    PROVE  DemoInv' /\ pc # "reported" /\ pc' = pc
<1>1. /\ Demo /\ N > 0 /\ RoundInv /\ DemoTypes /\ DemoCounts
      /\ UNCHANGED <<program, pc, at, sent, rx, upset, budget, log, truth>>
      /\ Ending # {} /\ at.mode = "simultaneous" /\ Finish(Ending)
  BY DEF DemoInv, TxEnd, Demo
<1>2. Simultaneous /\ pc = "sending"
  <2>1. Simultaneous
    BY <1>1 DEF Simultaneous
  <2>2. pc \in {"sending", "staggering"}
    BY <1>1, <2>1 DEF RoundInv, all_complete, Ending
  <2>3. pc # "staggering"
    BY <1>1 DEF DemoTypes
  <2> QED
    BY <2>1, <2>2, <2>3
<1>3. active' = active
  BY <1>1, DemoActive DEF active, Demo
<1>4. /\ OnTheWay' = OnTheWay \ Ending /\ Ending \subseteq OnTheWay /\ Ending \subseteq Channels
      /\ Ahead("late")' + Cardinality({c \in Ending : Is("late", c)}) = Ahead("late")
      /\ Ahead("tx_err")' + Cardinality({c \in Ending : Is("tx_err", c)}) = Ahead("tx_err")
      /\ Ahead("hang")' = Ahead("hang")
  BY <1>1, <1>2, EndsCount
<1>5. /\ stats' \in [Channels -> Counters] /\ tx' \in [Channels -> {"idle", "busy"}]
      /\ \A c \in Channels :
            /\ stats[c].frames \in Nat /\ log.last[c].frames \in Nat
            /\ stats'[c].frames = stats[c].frames + IF c \in Ending THEN 1 ELSE 0
      /\ Delta("trips")' = Delta("trips") + Cardinality({d \in Ending : Is("late", d)})
      /\ Delta("errors")' = Delta("errors") + Cardinality({d \in Ending : Is("tx_err", d)})
      /\ Delta("trips") \in Int /\ Delta("errors") \in Int
      /\ Cardinality({d \in Ending : Is("late", d)}) \in Nat
      /\ Cardinality({d \in Ending : Is("tx_err", d)}) \in Nat
  BY <1>1, <1>4, DemoEnded
<1>6. DemoTypes'
  BY <1>1 DEF DemoTypes
<1>7. RoundInv'
  <2>1. Hanging' \subseteq OnTheWay \ Ending
    <3>1. Hanging \subseteq OnTheWay
      BY <1>1, <1>2 DEF RoundInv
    <3>2. Hanging' = Hanging /\ Hanging \cap Ending = {}
      BY <1>1 DEF Hanging, Is, Ending
    <3> QED
      BY <3>1, <3>2
  <2> QED
    BY <1>1, <1>2, <1>3, <1>4, <1>5, <2>1 DEF RoundInv
<1>8. SinceReport = truth /\ SinceReport' = truth
  BY <1>1, <1>2 DEF SinceReport
<1>9. \A c \in Channels :
         (stats'[c].frames > log.last[c].frames \/ (c \in OnTheWay \ Ending /\ ~Is("hang", c)))
            <=> (stats[c].frames > log.last[c].frames \/ (c \in OnTheWay /\ ~Is("hang", c)))
  <2> SUFFICES ASSUME NEW c \in Channels
               PROVE (stats'[c].frames > log.last[c].frames
                         \/ (c \in OnTheWay \ Ending /\ ~Is("hang", c)))
            <=> (stats[c].frames > log.last[c].frames \/ (c \in OnTheWay /\ ~Is("hang", c)))
    OBVIOUS
  <2>1. c \in Ending => c \in OnTheWay /\ ~Is("hang", c)
    BY <1>4 DEF Ending
  <2>2. stats[c].frames >= log.last[c].frames
    BY <1>1 DEF DemoCounts
  <2> QED
    BY <1>5, <2>1, <2>2
<1>10. Ahead("late")' \in Nat /\ Ahead("tx_err")' \in Nat /\ DeltaTimeouts' = DeltaTimeouts
  BY <1>1, AheadNatNext DEF DeltaTimeouts
<1>11. DemoCounts'
  <2>1. /\ Delta("trips") + Ahead("late") = truth.late
        /\ Delta("errors") + Ahead("tx_err") = truth.errors
        /\ \A c \in Channels :
              /\ stats[c].frames >= log.last[c].frames
              /\ c \in truth.advanced <=>
                    \/ stats[c].frames > log.last[c].frames
                    \/ c \in OnTheWay /\ ~Is("hang", c)
              /\ log.timeouts[c] >= log.last_timeouts[c]
        /\ truth.hung - Ahead("hang") >= truth.drained
        /\ truth.hung - Ahead("hang") > truth.drained <=>
              \E c \in Channels : log.timeouts[c] > log.last_timeouts[c]
        /\ truth.hung - Ahead("hang") <= truth.drained + DeltaTimeouts
    BY <1>1, <1>8 DEF DemoCounts
  <2>2. /\ Delta("trips")' + Ahead("late")' = truth.late
        /\ Delta("errors")' + Ahead("tx_err")' = truth.errors
    BY <1>4, <1>5, <1>10, <2>1
  <2>3. \A c \in Channels : stats'[c].frames >= log.last[c].frames
    BY <1>5, <2>1
  <2>4. \A c \in Channels : (Is("hang", c))' <=> Is("hang", c)
    BY <1>1 DEF Is
  <2> QED
    BY <1>1, <1>4, <1>8, <1>9, <1>10, <2>1, <2>2, <2>3, <2>4 DEF DemoCounts
<1> QED
  BY <1>1, <1>2, <1>6, <1>7, <1>11 DEF DemoInv, Demo

\* Where no round is being waited for, nothing is on its way.
LEMMA NothingOnTheWay ==
    ASSUME Demo, RoundInv, DemoTypes, pc # "sending"
    PROVE  OnTheWay = {}
<1>1. CASE Simultaneous
  <2>1. pc # "staggering"
    BY DEF DemoTypes
  <2> QED
    BY <1>1, <2>1 DEF RoundInv, OnTheWay, all_complete
<1>2. CASE ~Simultaneous
  BY <1>2 DEF OnTheWay
<1> QED
  BY <1>1, <1>2

LEMMA FreeSweepKeeps ==
    ASSUME DemoInv, NEW due \in DueSets, FreeSweep(due)
    PROVE  DemoInv' /\ pc' # "reported"
<1>1. /\ Demo /\ N > 0 /\ pc = "sweeping" /\ RoundInv /\ DemoTypes /\ DemoCounts
      /\ UNCHANGED <<program, at, sent, rx, stats, log, truth>>
      /\ pc' = "watching" /\ at.mode = "free_running"
  BY DEF DemoInv, FreeSweep, FreeRunning
<1> DEFINE ready == {c \in due : tx[c] = "idle"}
<1>2. tx' = [c \in Channels |-> IF c \in ready THEN "busy" ELSE tx[c]]
  BY DEF FreeSweep
<1>4. tx' \in [Channels -> {"idle", "busy"}]
  BY <1>1, <1>2 DEF RoundInv
<1>5. ~Simultaneous /\ ~Simultaneous'
  BY <1>1 DEF Simultaneous, Demo, Soaking
<1>6. OnTheWay = {} /\ OnTheWay' = {}
  BY <1>5 DEF OnTheWay
<1>7. RoundInv'
  BY <1>1, <1>4, <1>5, <1>6 DEF RoundInv
<1>8. DemoTypes'
  BY <1>1 DEF DemoTypes
<1>9. DemoCounts'
  <2>1. SinceReport' = SinceReport
    BY <1>1 DEF SinceReport
  <2> QED
    BY <1>1, <1>6, <2>1, DemoSame
<1> QED
  BY <1>1, <1>7, <1>8, <1>9 DEF DemoInv, Demo

Passed(t, a, b, A) ==
    [t EXCEPT !.advanced = @ \cup A, !.late = @ + a, !.errors = @ + b]

LEMMA TruthPasses ==
    ASSUME NEW t \in Truths, NEW a \in Nat, NEW b \in Nat, NEW A \in SUBSET Channels
    PROVE  /\ Passed(t, a, b, A) \in Truths
           /\ Passed(t, a, b, A).late = t.late + a /\ Passed(t, a, b, A).errors = t.errors + b
           /\ Passed(t, a, b, A).hung = t.hung /\ Passed(t, a, b, A).drained = t.drained
           /\ Passed(t, a, b, A).advanced = t.advanced \cup A
<1> SUFFICES ASSUME NEW u, u = Passed(t, a, b, A)
             PROVE  /\ u \in Truths /\ u.late = t.late + a /\ u.errors = t.errors + b
                    /\ u.hung = t.hung /\ u.drained = t.drained /\ u.advanced = t.advanced \cup A
  BY Zenon
<1>1. /\ t.rounds \in Nat /\ t.late \in Nat /\ t.errors \in Nat /\ t.hung \in Nat
      /\ t.drained \in Nat /\ t.spoilt \in Nat /\ t.advanced \in SUBSET Channels
  BY TruthTypes
<1>2. u = [rounds |-> t.rounds, late |-> t.late + a, errors |-> t.errors + b,
           hung |-> t.hung, drained |-> t.drained, spoilt |-> t.spoilt,
           advanced |-> t.advanced \cup A]
  BY DEF Passed, Truths
<1>3. t.advanced \cup A \in SUBSET Channels
  BY <1>1
<1>4. /\ u.late = t.late + a /\ u.errors = t.errors + b
      /\ u.hung = t.hung /\ u.drained = t.drained /\ u.advanced = t.advanced \cup A
  BY <1>2
<1> QED
  BY <1>1, <1>2, <1>3, <1>4 DEF Truths

LEMMA FreeEndKeeps ==
    ASSUME DemoInv, NEW c \in Channels, FreeEnd(c)
    PROVE  DemoInv' /\ pc' # "reported"
<1>1. /\ Demo /\ N > 0 /\ pc # "reported" /\ RoundInv /\ DemoTypes /\ DemoCounts
      /\ UNCHANGED <<program, pc, at, sent, rx, upset, budget, log>>
      /\ at.mode = "free_running" /\ c \in Ending /\ Finish({c})
  BY DEF DemoInv, FreeEnd, FreeRunning
<1> DEFINE a == IF Is("late", c) THEN 1 ELSE 0
           b == IF Is("tx_err", c) THEN 1 ELSE 0
<1>2. truth' = Passed(truth, a, b, {c})
  BY DEF FreeEnd, Passed
<1>3. a \in Nat /\ b \in Nat
  OBVIOUS
<1>4. /\ Cardinality({d \in {c} : Is("late", d)}) = a
      /\ Cardinality({d \in {c} : Is("tx_err", d)}) = b
  <2>1. ASSUME NEW kind
        PROVE  Cardinality({d \in {c} : Is(kind, d)}) = IF Is(kind, c) THEN 1 ELSE 0
    <3>1. {d \in {c} : Is(kind, d)} = IF Is(kind, c) THEN {c} ELSE {}
      OBVIOUS
    <3>2. Cardinality({c}) = 1 /\ Cardinality({}) = 0
      BY FS_Singleton, FS_EmptySet
    <3> QED
      BY <3>1, <3>2, Zenon
  <2> QED
    BY <2>1
<1> HIDE DEF a, b
<1>5. /\ truth' \in Truths
      /\ truth'.late = truth.late + a /\ truth'.errors = truth.errors + b
      /\ truth'.hung = truth.hung /\ truth'.drained = truth.drained
      /\ truth'.advanced = truth.advanced \cup {c}
      /\ truth.late \in Nat /\ truth.errors \in Nat
  <2>1. truth \in Truths /\ {c} \in SUBSET Channels
    BY <1>1 DEF RoundInv
  <2>2. LET u == Passed(truth, a, b, {c})
        IN  /\ u \in Truths /\ u.late = truth.late + a /\ u.errors = truth.errors + b
            /\ u.hung = truth.hung /\ u.drained = truth.drained
            /\ u.advanced = truth.advanced \cup {c}
    BY ONLY <1>3, <2>1, TruthPasses
  <2> QED
    BY <1>2, <2>1, <2>2, TruthTypes
<1>6. /\ stats' \in [Channels -> Counters] /\ tx' \in [Channels -> {"idle", "busy"}]
      /\ \A d \in Channels :
            /\ stats[d].frames \in Nat /\ log.last[d].frames \in Nat
            /\ stats'[d].frames = stats[d].frames + IF d \in {c} THEN 1 ELSE 0
      /\ Delta("trips")' = Delta("trips") + Cardinality({d \in {c} : Is("late", d)})
      /\ Delta("errors")' = Delta("errors") + Cardinality({d \in {c} : Is("tx_err", d)})
      /\ Delta("trips") \in Int /\ Delta("errors") \in Int
  <2>1. {c} \in SUBSET Channels
    OBVIOUS
  <2> QED
    BY <1>1, <2>1, DemoEnded
<1>7. ~Simultaneous /\ ~Simultaneous'
  BY <1>1 DEF Simultaneous, Demo, Soaking
<1>8. OnTheWay = {} /\ OnTheWay' = {}
  BY <1>7 DEF OnTheWay
<1>9. RoundInv'
  BY <1>1, <1>5, <1>6, <1>7, <1>8 DEF RoundInv
<1>10. DemoTypes'
  BY <1>1 DEF DemoTypes
<1>11. SinceReport = truth /\ SinceReport' = truth'
  BY <1>1 DEF SinceReport
<1>12. /\ Ahead("late") = 0 /\ Ahead("tx_err") = 0 /\ Ahead("hang") = 0
       /\ Ahead("late")' = 0 /\ Ahead("tx_err")' = 0 /\ Ahead("hang")' = 0
  BY <1>8, NoneAhead, NoneAheadNext
<1>14. DeltaTimeouts' = DeltaTimeouts
  BY <1>1 DEF DeltaTimeouts
<1>13. DemoCounts'
  <2>1. /\ Delta("trips") + 0 = truth.late
        /\ Delta("errors") + 0 = truth.errors
        /\ \A d \in Channels :
              /\ stats[d].frames >= log.last[d].frames
              /\ d \in truth.advanced <=> stats[d].frames > log.last[d].frames
              /\ log.timeouts[d] >= log.last_timeouts[d]
        /\ truth.hung - 0 >= truth.drained
        /\ truth.hung - 0 > truth.drained <=>
              \E d \in Channels : log.timeouts[d] > log.last_timeouts[d]
        /\ truth.hung - 0 <= truth.drained + DeltaTimeouts
    BY <1>1, <1>8, <1>11, <1>12 DEF DemoCounts
  <2>2. Delta("trips")' + 0 = truth'.late /\ Delta("errors")' + 0 = truth'.errors
    BY <1>3, <1>4, <1>5, <1>6, <2>1
  <2>3. \A d \in Channels :
              /\ stats'[d].frames >= log.last[d].frames
              /\ d \in truth'.advanced <=> stats'[d].frames > log.last[d].frames
    BY <1>5, <1>6, <2>1
  <2> QED
    BY <1>1, <1>5, <1>8, <1>11, <1>12, <1>14, <2>1, <2>2, <2>3 DEF DemoCounts
<1> QED
  BY <1>1, <1>9, <1>10, <1>13 DEF DemoInv, Demo

Missed(t, n, m) == [t EXCEPT !.hung = @ + n, !.drained = @ + m]

LEMMA TruthMisses ==
    ASSUME NEW t \in Truths, NEW n \in Nat, NEW m \in Nat
    PROVE  /\ Missed(t, n, m) \in Truths
           /\ Missed(t, n, m).late = t.late /\ Missed(t, n, m).errors = t.errors
           /\ Missed(t, n, m).hung = t.hung + n /\ Missed(t, n, m).drained = t.drained + m
           /\ Missed(t, n, m).advanced = t.advanced
<1> SUFFICES ASSUME NEW u, u = Missed(t, n, m)
             PROVE  /\ u \in Truths /\ u.late = t.late /\ u.errors = t.errors
                    /\ u.hung = t.hung + n /\ u.drained = t.drained + m
                    /\ u.advanced = t.advanced
  BY Zenon
<1>1. /\ t.rounds \in Nat /\ t.late \in Nat /\ t.errors \in Nat /\ t.hung \in Nat
      /\ t.drained \in Nat /\ t.spoilt \in Nat /\ t.advanced \in SUBSET Channels
  BY TruthTypes
<1>2. u = [rounds |-> t.rounds, late |-> t.late, errors |-> t.errors, hung |-> t.hung + n,
           drained |-> t.drained + m, spoilt |-> t.spoilt, advanced |-> t.advanced]
  BY DEF Missed, Truths
<1> QED
  BY <1>1, <1>2 DEF Truths

LEMMA FreeWatchKeeps ==
    ASSUME DemoInv, FreeWatch
    PROVE  DemoInv' /\ pc' # "reported"
<1>1. /\ Demo /\ N > 0 /\ pc = "watching" /\ RoundInv /\ DemoTypes /\ DemoCounts
      /\ UNCHANGED <<program, at, sent, rx, upset, budget, stats>>
      /\ at.mode = "free_running" /\ pc' = "tail"
  BY DEF DemoInv, FreeWatch, FreeRunning
<1>2. PICK overdue \in SUBSET {c \in Channels : tx[c] = "busy" /\ Is("hang", c)} :
          /\ tx' = [c \in Channels |-> IF c \in overdue THEN "idle" ELSE tx[c]]
          /\ log' = [log EXCEPT !.timeouts =
                 [c \in Channels |-> IF c \in overdue THEN @[c] + 1 ELSE @[c]]]
          /\ truth' = [truth EXCEPT !.hung = @ + Cardinality(overdue)]
  BY DEF FreeWatch
<1> DEFINE counts == [c \in Channels |-> IF c \in overdue THEN log.timeouts[c] + 1
                                                          ELSE log.timeouts[c]]
<1>3. log' = [timeouts |-> counts, last |-> log.last,
              last_timeouts |-> log.last_timeouts, result |-> log.result]
  <2>1. log = [timeouts |-> log.timeouts, last |-> log.last,
               last_timeouts |-> log.last_timeouts, result |-> log.result]
    BY <1>1 DEF DemoTypes
  <2>2. log' = [log EXCEPT !.timeouts = counts]
    BY <1>2
  <2> HIDE DEF counts
  <2> QED
    BY <2>1, <2>2
<1>4. /\ counts \in [Channels -> Nat]
      /\ \A c \in Channels :
            /\ counts[c] = IF c \in overdue THEN log.timeouts[c] + 1 ELSE log.timeouts[c]
            /\ log.timeouts[c] \in Nat /\ log.last_timeouts[c] \in Nat
  BY <1>1 DEF DemoTypes
<1> HIDE DEF counts
<1>5. overdue \subseteq Channels /\ Cardinality(overdue) \in Nat
      /\ (Cardinality(overdue) = 0 <=> overdue = {})
  BY ChannelsFinite, FS_EmptySet
<1>6. /\ truth' \in Truths /\ truth'.late = truth.late /\ truth'.errors = truth.errors
      /\ truth'.hung = truth.hung + Cardinality(overdue) /\ truth'.drained = truth.drained
      /\ truth'.advanced = truth.advanced
      /\ truth.hung \in Nat /\ truth.drained \in Nat
  <2>1. truth \in Truths
    BY <1>1 DEF RoundInv
  <2>2. LET u == Missed(truth, Cardinality(overdue), 0)
        IN  /\ u \in Truths /\ u.late = truth.late /\ u.errors = truth.errors
            /\ u.hung = truth.hung + Cardinality(overdue) /\ u.drained = truth.drained + 0
            /\ u.advanced = truth.advanced
    BY <1>5, <2>1, TruthMisses
  <2>3. truth.drained \in Nat /\ truth.hung \in Nat
    BY <2>1, TruthTypes
  <2>4. truth' = Missed(truth, Cardinality(overdue), 0)
    <3>1. truth.drained + 0 = truth.drained
      BY <2>3
    <3>2. \A x : x = truth.drained =>
             [truth EXCEPT !.hung = @ + Cardinality(overdue), !.drained = x]
               = [truth EXCEPT !.hung = @ + Cardinality(overdue)]
      BY <2>1 DEF Truths
    <3> QED
      BY <1>2, <3>1, <3>2 DEF Missed
  <2> QED
    BY <2>2, <2>3, <2>4
<1>7. ~Simultaneous /\ ~Simultaneous'
  BY <1>1 DEF Simultaneous, Demo, Soaking
<1>8. OnTheWay = {} /\ OnTheWay' = {}
  BY <1>7 DEF OnTheWay
<1>9. RoundInv'
  <2>1. tx' \in [Channels -> {"idle", "busy"}]
    BY <1>1, <1>2 DEF RoundInv
  <2> QED
    BY <1>1, <1>6, <1>7, <1>8, <2>1 DEF RoundInv
<1>10. DemoTypes'
  <2>1. log'.timeouts = counts /\ log'.last = log.last /\ log'.last_timeouts = log.last_timeouts
        /\ log'.result = log.result
    BY <1>3
  <2> QED
    BY <1>1, <1>3, <1>4, <2>1 DEF DemoTypes
<1>11. SinceReport = truth /\ SinceReport' = truth'
  BY <1>1 DEF SinceReport
<1>12. /\ Ahead("late") = 0 /\ Ahead("tx_err") = 0 /\ Ahead("hang") = 0
       /\ Ahead("late")' = 0 /\ Ahead("tx_err")' = 0 /\ Ahead("hang")' = 0
  BY <1>8, NoneAhead, NoneAheadNext
<1>15. DeltaTimeouts \in Int /\ DeltaTimeouts' = DeltaTimeouts + Cardinality(overdue)
  <2>1. /\ log.timeouts \in [Channels -> Nat] /\ log'.timeouts = counts
        /\ log.last_timeouts \in [Channels -> Nat] /\ log'.last_timeouts = log.last_timeouts
    BY <1>1, <1>3 DEF DemoTypes
  <2>2. \A c \in Channels : counts[c] = log.timeouts[c] + IF c \in overdue THEN 1 ELSE 0
    BY <1>4
  <2> QED
    BY <1>4, <1>5, <2>1, <2>2, TimeoutsGrow
<1>13. \A counter : Delta(counter)' = Delta(counter)
  BY <1>1, <1>3 DEF Delta
<1>14. DemoCounts'
  <2>1. /\ Delta("trips") + 0 = truth.late
        /\ Delta("errors") + 0 = truth.errors
        /\ \A d \in Channels :
              /\ stats[d].frames >= log.last[d].frames
              /\ d \in truth.advanced <=> stats[d].frames > log.last[d].frames
              /\ log.timeouts[d] >= log.last_timeouts[d]
        /\ truth.hung - 0 >= truth.drained
        /\ truth.hung - 0 > truth.drained <=>
              \E d \in Channels : log.timeouts[d] > log.last_timeouts[d]
        /\ truth.hung - 0 <= truth.drained + DeltaTimeouts
    BY <1>1, <1>8, <1>11, <1>12 DEF DemoCounts
  <2>2. (\E d \in Channels : counts[d] > log.last_timeouts[d])
           <=> overdue # {} \/ \E d \in Channels : log.timeouts[d] > log.last_timeouts[d]
    BY <1>4, <1>5, <2>1
  <2>3. \A d \in Channels : counts[d] >= log.last_timeouts[d]
    BY <1>4, <2>1
  <2>4. /\ truth'.hung - 0 >= truth'.drained
        /\ truth'.hung - 0 > truth'.drained <=> overdue # {} \/ truth.hung > truth.drained
    BY <1>5, <1>6, <2>1
  <2>7. truth'.hung - 0 <= truth'.drained + DeltaTimeouts'
    BY <1>5, <1>6, <1>15, <2>1
  <2>5. stats' = stats /\ log'.last = log.last /\ log'.timeouts = counts
        /\ log'.last_timeouts = log.last_timeouts
    BY <1>1, <1>3
  <2>6. truth.hung - 0 = truth.hung
    BY <1>6
  <2> QED
    BY <1>6, <1>8, <1>11, <1>12, <1>13, <2>1, <2>2, <2>3, <2>4, <2>5, <2>6, <2>7
    DEF DemoCounts
<1> QED
  BY <1>1, <1>9, <1>10, <1>14 DEF DemoInv, Demo

\* A report brings the marks up to the counters: nothing is outstanding.
LEMMA DemoFresh ==
    ASSUME stats' \in [Channels -> Counters], SinceReport' = Nothing, OnTheWay' = {},
           log'.last = stats', log'.timeouts \in [Channels -> Nat],
           log'.last_timeouts = log'.timeouts
    PROVE  DemoCounts'
<1>1. Delta("trips")' = 0 /\ Delta("errors")' = 0
  <2>1. ASSUME NEW counter \in {"frames", "trips", "errors"} PROVE Delta(counter)' = 0
    <3> DEFINE F == [c \in Channels |-> stats'[c][counter] - stats'[c][counter]]
    <3>1. \A c \in Channels : stats'[c] \in Counters
      OBVIOUS
    <3>2. \A c \in Channels : stats'[c][counter] \in Nat
      BY <3>1, CounterTypes
    <3>3. F \in [Channels -> Int] /\ \A c \in Channels : F[c] = 0
      BY <3>2
    <3>4. Delta(counter)' = SumFunction(F)
      BY DEF Delta
    <3> HIDE DEF F
    <3> QED
      BY <3>3, <3>4, ChannelsFinite, SumZero
  <2> QED
    BY <2>1
<1>2. Ahead("late")' = 0 /\ Ahead("tx_err")' = 0 /\ Ahead("hang")' = 0
  BY NoneAheadNext
<1>5. DeltaTimeouts' = 0
  <2> DEFINE F == [c \in Channels |-> log'.timeouts[c] - log'.timeouts[c]]
  <2>1. F \in [Channels -> Int] /\ \A c \in Channels : F[c] = 0
    OBVIOUS
  <2>2. DeltaTimeouts' = SumFunction(F)
    BY DEF DeltaTimeouts
  <2> HIDE DEF F
  <2> QED
    BY <2>1, <2>2, ChannelsFinite, SumZero
<1>3. \A c \in Channels : log'.timeouts[c] \in Nat /\ stats'[c].frames \in Nat
  <2>1. \A c \in Channels : stats'[c] \in Counters
    OBVIOUS
  <2> QED
    BY <2>1 DEF Counters
<1>4. /\ SinceReport'.late = 0 /\ SinceReport'.errors = 0 /\ SinceReport'.advanced = {}
      /\ SinceReport'.hung = 0 /\ SinceReport'.drained = 0
  BY DEF Nothing
<1> QED
  BY <1>1, <1>2, <1>3, <1>4, <1>5 DEF DemoCounts

\* The verdict of the demo on the last second.
LEMMA DemoReportKeeps ==
    ASSUME DemoInv, DemoReport
    PROVE  DemoInv' /\ ReportsTruthful'
<1>1. /\ Demo /\ N > 0 /\ pc = "tail" /\ RoundInv /\ DemoTypes /\ DemoCounts
      /\ UNCHANGED <<program, at, sent, tx, rx, upset, budget, stats, truth>>
      /\ pc' = "reported"
  BY DEF DemoInv, DemoReport
<1> DEFINE line == DemoResult
<1>2. log' = [timeouts |-> log.timeouts, last |-> stats, last_timeouts |-> log.timeouts,
              result |-> line]
  <2>1. log = [timeouts |-> log.timeouts, last |-> log.last,
               last_timeouts |-> log.last_timeouts, result |-> log.result]
    BY <1>1 DEF DemoTypes
  <2>2. log' = [log EXCEPT !.result = line, !.last = stats, !.last_timeouts = log.timeouts]
    BY DEF DemoReport
  <2> HIDE DEF line
  <2> QED
    BY <2>1, <2>2
<1>3. /\ log'.timeouts = log.timeouts /\ log'.last = stats /\ log'.last_timeouts = log.timeouts
      /\ log'.result = line
  <2> HIDE DEF line
  <2> QED
    BY <1>2
<1>4. OnTheWay = {} /\ OnTheWay' = {}
  <2>1. OnTheWay = {} /\ (Simultaneous' <=> Simultaneous)
    BY <1>1, NothingOnTheWay DEF Simultaneous, Soaking
  <2>2. CASE Simultaneous
    BY <1>1, <2>1, <2>2 DEF RoundInv, OnTheWay, all_complete
  <2>3. CASE ~Simultaneous
    BY <2>1, <2>3 DEF OnTheWay
  <2> QED
    BY <2>1, <2>2, <2>3
<1>5. active' = active
  BY <1>1, DemoActive DEF active, Demo
<1>6. RoundInv'
  BY <1>1, <1>4, <1>5 DEF RoundInv, Simultaneous, Soaking, all_complete
<1>7. DemoTypes'
  <2> HIDE DEF line
  <2>1. stats \in [Channels -> Counters] /\ log.timeouts \in [Channels -> Nat]
    BY <1>1 DEF RoundInv, DemoTypes
  <2> QED
    BY <1>1, <1>2, <1>3, <2>1 DEF DemoTypes
<1>8. SinceReport = truth /\ SinceReport' = Nothing
  BY <1>1 DEF SinceReport
<1>9. DemoCounts'
  <2> HIDE DEF line
  <2>1. stats' \in [Channels -> Counters] /\ log'.timeouts \in [Channels -> Nat]
    BY <1>1, <1>3 DEF RoundInv, DemoTypes
  <2>2. log'.last = stats' /\ log'.last_timeouts = log'.timeouts
    BY <1>1, <1>3
  <2> QED
    BY <1>4, <1>8, <2>1, <2>2, DemoFresh
<1>10. Ahead("late") = 0 /\ Ahead("tx_err") = 0 /\ Ahead("hang") = 0
  BY <1>4, NoneAhead
<1>11. /\ truth.late \in Nat /\ truth.errors \in Nat /\ truth.hung \in Nat
       /\ truth.drained \in Nat /\ truth.advanced \in SUBSET Channels
  BY <1>1, TruthTypes DEF RoundInv
<1>12. /\ Delta("trips") = truth.late /\ Delta("errors") = truth.errors
       /\ \A c \in Channels :
             /\ stats[c].frames >= log.last[c].frames
             /\ c \in truth.advanced <=> stats[c].frames > log.last[c].frames
             /\ log.timeouts[c] >= log.last_timeouts[c]
       /\ truth.hung > truth.drained <=>
             \E c \in Channels : log.timeouts[c] > log.last_timeouts[c]
       /\ DeltaTimeouts >= truth.hung - truth.drained
  <2>1. /\ Delta("trips") + 0 = truth.late /\ Delta("errors") + 0 = truth.errors
        /\ \A c \in Channels :
              /\ stats[c].frames >= log.last[c].frames
              /\ c \in truth.advanced <=> stats[c].frames > log.last[c].frames
              /\ log.timeouts[c] >= log.last_timeouts[c]
        /\ truth.hung - 0 > truth.drained <=>
             \E c \in Channels : log.timeouts[c] > log.last_timeouts[c]
        /\ truth.hung - 0 <= truth.drained + DeltaTimeouts
    BY <1>1, <1>4, <1>8, <1>10 DEF DemoCounts
  <2>2. Delta("trips") \in Int /\ Delta("errors") \in Int
    BY <1>1, DeltaInt DEF RoundInv, DemoTypes
  <2>3. truth.hung - 0 = truth.hung
    BY <1>11
  <2>4. DeltaTimeouts \in Int
    BY <1>1, TimeoutsInt DEF DemoTypes
  <2>5. DeltaTimeouts >= truth.hung - truth.drained
    <3>1. truth.hung <= truth.drained + DeltaTimeouts
      BY <2>1, <2>3
    <3> QED
      BY ONLY <1>11, <2>4, <3>1
  <2> QED
    BY <2>1, <2>2, <2>3, <2>5
<1>13. (\E c \in Channels : stats[c].frames = log.last[c].frames) <=> truth.advanced # Channels
  <2>1. \A c \in Channels : stats[c].frames \in Nat /\ log.last[c].frames \in Nat
    <3>1. \A c \in Channels : stats[c] \in Counters /\ log.last[c] \in Counters
      BY <1>1 DEF RoundInv, DemoTypes
    <3> QED
      BY <3>1 DEF Counters
  <2>2. \A c \in Channels : stats[c].frames = log.last[c].frames <=> c \notin truth.advanced
    BY <1>12, <2>1
  <2> QED
    BY <1>11, <2>2
<1>14. DeltaTimeouts = 0 <=> ~(truth.hung > truth.drained)
  <2> DEFINE F == [c \in Channels |-> log.timeouts[c] - log.last_timeouts[c]]
  <2>1. \A c \in Channels : log.timeouts[c] \in Nat /\ log.last_timeouts[c] \in Nat
    BY <1>1 DEF DemoTypes
  <2>2. \A c \in Channels : /\ log.timeouts[c] - log.last_timeouts[c] \in Nat
                            /\ log.timeouts[c] - log.last_timeouts[c] = 0
                                 <=> ~(log.timeouts[c] > log.last_timeouts[c])
    BY <1>12, <2>1
  <2>3. F \in [Channels -> Nat]
    BY <2>2
  <2>4. DeltaTimeouts = SumFunction(F)
    BY DEF DeltaTimeouts
  <2>5. \A c \in Channels : F[c] = 0 <=> ~(log.timeouts[c] > log.last_timeouts[c])
    BY <2>2
  <2> HIDE DEF F
  <2>6. SumFunction(F) = 0 <=> \A c \in Channels : F[c] = 0
    BY <2>3, ChannelsFinite, SumNat
  <2> QED
    BY <1>12, <2>4, <2>5, <2>6
<1>15. /\ line.trips = Delta("trips") /\ line.errors = Delta("errors") /\ line.said = Verdict
       /\ line.hangs = DeltaTimeouts
  BY DEF DemoResult, NoResult
<1>16. Verdict = IF truth.advanced # Channels THEN "frames_stalled"
                 ELSE IF truth.late > 0 THEN "idle_guard_trip"
                 ELSE IF truth.errors > 0 THEN "tx_err"
                 ELSE IF truth.hung > truth.drained THEN "frame_timeout" ELSE "PASS"
  <2>1. (Delta("trips") # 0 <=> truth.late > 0) /\ (Delta("errors") # 0 <=> truth.errors > 0)
    BY <1>11, <1>12
  <2> QED
    BY <1>13, <1>14, <2>1, Zenon DEF Verdict
<1>17. ~Soaking'
  BY <1>1 DEF Demo, Soaking
<1> HIDE DEF line
<1>18. ReportsTruthful'
  BY <1>1, <1>3, <1>12, <1>15, <1>16, <1>17 DEF ReportsTruthful
<1> QED
  BY <1>1, <1>6, <1>7, <1>9, <1>18 DEF DemoInv, Demo

Turned(r, mode) == [r EXCEPT !.mode = mode, !.left = @ - 1]

LEMMA DemoLoopTurns ==
    ASSUME NEW r \in DemoLoops, NEW mode \in {"simultaneous", "free_running"}
    PROVE  Turned(r, mode) \in DemoLoops /\ Turned(r, mode).mode = mode
<1> SUFFICES ASSUME NEW s, s = Turned(r, mode)
             PROVE  s \in DemoLoops /\ s.mode = mode
  BY Zenon
<1>1. s = [mode |-> mode, left |-> r.left - 1, victims |-> r.victims]
  BY DEF DemoLoops, Turned
<1>2. r.left \in Int /\ r.victims \in {{}}
  BY DEF DemoLoops
<1> QED
  BY <1>1, <1>2 DEF DemoLoops

\* The turns of the demo's loop move no counter.
LEMMA DemoTurnsKeep ==
    ASSUME DemoInv, DemoAgain \/ DemoTurn \/ Drained
    PROVE  DemoInv' /\ pc' # "reported"
<1>1. /\ Demo /\ N > 0 /\ RoundInv /\ DemoTypes /\ DemoCounts
      /\ UNCHANGED <<program, sent, tx, rx, upset, budget, stats, log>>
      /\ pc \in {"tail", "reported", "draining"}
  BY DEF DemoInv, DemoAgain, DemoTurn, Drained, Turning
<1>2. at \in DemoLoops
  BY <1>1 DEF DemoTypes
<1>3. /\ at' \in DemoLoops /\ at'.victims = {}
      /\ pc' \in (IF at'.mode = "simultaneous" THEN {"starting"} ELSE {"sweeping"})
                   \cup {"draining", "bounded"}
      /\ at'.mode = at.mode \/ all_complete
  <2>1. CASE DemoAgain
    <3>1. at' \in DemoLoops /\ at'.mode = at.mode
      BY <1>2, <2>1 DEF DemoAgain, DemoLoops
    <3>2. pc' = "bounded" \/ pc' = LoopTop(at.mode)
      BY <2>1 DEF DemoAgain
    <3> QED
      BY <3>1, <3>2, DemoLoopTypes DEF LoopTop
  <2>2. CASE DemoTurn
    BY <1>2, <2>2, DemoLoopTypes DEF DemoTurn
  <2>3. CASE Drained
    <3> DEFINE mode == IF at.mode = "simultaneous" THEN "free_running" ELSE "simultaneous"
    <3>1. at' = [at EXCEPT !.mode = mode, !.left = @ - 1] /\ all_complete
          /\ (pc' = "bounded" \/ pc' = LoopTop(mode))
      BY <2>3 DEF Drained, Flip
    <3>2. mode \in {"simultaneous", "free_running"}
      OBVIOUS
    <3> HIDE DEF mode
    <3>3. at' \in DemoLoops /\ at'.mode = mode
      <4>1. at' = Turned(at, mode)
        BY <3>1 DEF Turned
      <4> QED
        BY <1>2, <3>2, <4>1, DemoLoopTurns
    <3> QED
      BY <3>1, <3>2, <3>3, DemoLoopTypes DEF LoopTop
  <2> QED
    BY <2>1, <2>2, <2>3
<1>4. /\ Simultaneous' => all_complete'
      /\ OnTheWay = {} /\ OnTheWay' = {}
  <2>1. OnTheWay = {}
    BY <1>1, NothingOnTheWay
  <2>2. (Simultaneous <=> at.mode = "simultaneous") /\ (Simultaneous' <=> at'.mode = "simultaneous")
    BY <1>1 DEF Simultaneous, Demo, Soaking
  <2>3. Simultaneous' => all_complete
    BY <1>1, <1>3, <2>2 DEF RoundInv
  <2>4. Simultaneous' => all_complete'
    BY <1>1, <2>3 DEF all_complete
  <2>5. OnTheWay' = {}
    BY <1>3, <2>4 DEF OnTheWay, all_complete
  <2> QED
    BY <2>1, <2>4, <2>5
<1>5. active' = active
  BY <1>1, DemoActive DEF active, Demo
<1>6. pc' # "reported" /\ pc' \notin {"sending", "staggering"}
  BY <1>3
<1>7. SinceReport' = SinceReport /\ truth' \in Truths
  <2>1. truth' = SinceReport
    BY <1>1 DEF DemoAgain, DemoTurn, Drained, Forget, SinceReport
  <2> QED
    BY <1>1, <1>6, <2>1, NothingTypes DEF SinceReport, RoundInv
<1>8. RoundInv'
  BY <1>1, <1>3, <1>4, <1>5, <1>6, <1>7 DEF RoundInv
<1>9. DemoTypes'
  BY <1>1, <1>3 DEF DemoTypes
<1>10. DemoCounts'
  BY <1>1, <1>4, <1>7, DemoSame
<1> QED
  BY <1>1, <1>6, <1>8, <1>9, <1>10 DEF DemoInv, Demo

LEMMA DrainTimeoutKeeps ==
    ASSUME DemoInv, DrainTimeout
    PROVE  DemoInv' /\ pc' # "reported"
<1>1. /\ Demo /\ N > 0 /\ RoundInv /\ DemoTypes /\ DemoCounts /\ pc = "draining"
      /\ UNCHANGED <<program, sent, rx, upset, budget, stats, log>>
      /\ AbortAll
  BY DEF DemoInv, DrainTimeout
<1>2. at \in DemoLoops
  BY <1>1 DEF DemoTypes
<1>3. /\ at' \in DemoLoops /\ at'.victims = {}
      /\ pc' \in (IF at'.mode = "simultaneous" THEN {"starting"} ELSE {"sweeping"})
                   \cup {"bounded"}
  <2> DEFINE mode == IF at.mode = "simultaneous" THEN "free_running" ELSE "simultaneous"
  <2>1. at' = [at EXCEPT !.mode = mode, !.left = @ - 1]
        /\ (pc' = "bounded" \/ pc' = LoopTop(mode))
    BY DEF DrainTimeout, Flip
  <2>2. mode \in {"simultaneous", "free_running"}
    OBVIOUS
  <2> HIDE DEF mode
  <2>3. at' \in DemoLoops /\ at'.mode = mode
    <3>1. at' = Turned(at, mode)
      BY <2>1 DEF Turned
    <3> QED
      BY <1>2, <2>2, <3>1, DemoLoopTurns
  <2> QED
    BY <2>1, <2>2, <2>3, DemoLoopTypes DEF LoopTop
<1>4. /\ all_complete' /\ tx' \in [Channels -> {"idle", "busy"}]
      /\ pc' \notin {"sending", "staggering", "reported"}
      /\ OnTheWay = {} /\ OnTheWay' = {}
  <2>1. OnTheWay = {}
    BY <1>1, NothingOnTheWay
  <2>2. all_complete' /\ tx' \in [Channels -> {"idle", "busy"}]
    BY <1>1 DEF AbortAll, Every, all_complete
  <2>3. pc' \notin {"sending", "staggering", "reported"}
    BY <1>3
  <2> QED
    BY <2>1, <2>2, <2>3 DEF OnTheWay, all_complete
<1>5. active' = active
  BY <1>1, DemoActive DEF active, Demo
<1> DEFINE k == Cardinality({c \in Channels : tx[c] = "busy"})
<1>13. k \in Nat
  BY ChannelsFinite
<1>14. truth' = Missed(truth, k, k)
  BY DEF DrainTimeout, Missed
<1> HIDE DEF k
<1>6. /\ truth' \in Truths /\ truth'.late = truth.late /\ truth'.errors = truth.errors
      /\ truth'.hung = truth.hung + k /\ truth'.drained = truth.drained + k
      /\ truth'.advanced = truth.advanced
      /\ truth.hung \in Nat /\ truth.drained \in Nat
  <2>1. truth \in Truths
    BY <1>1 DEF RoundInv
  <2>3. LET u == Missed(truth, k, k)
        IN  /\ u \in Truths /\ u.late = truth.late /\ u.errors = truth.errors
            /\ u.hung = truth.hung + k /\ u.drained = truth.drained + k
            /\ u.advanced = truth.advanced
    BY <1>13, <2>1, TruthMisses
  <2> QED
    BY <1>14, <2>1, <2>3, TruthTypes
<1>7. RoundInv'
  BY <1>1, <1>3, <1>4, <1>5, <1>6 DEF RoundInv
<1>8. DemoTypes'
  BY <1>1, <1>3 DEF DemoTypes
<1>9. SinceReport = truth /\ SinceReport' = truth'
  BY <1>1, <1>4 DEF SinceReport
<1>10. /\ Ahead("late") = 0 /\ Ahead("tx_err") = 0 /\ Ahead("hang") = 0
       /\ Ahead("late")' = 0 /\ Ahead("tx_err")' = 0 /\ Ahead("hang")' = 0
  BY <1>4, NoneAhead, NoneAheadNext
<1>11. (\A counter : Delta(counter)' = Delta(counter)) /\ DeltaTimeouts' = DeltaTimeouts
  BY <1>1 DEF Delta, DeltaTimeouts
<1>12. DemoCounts'
  <2>1. /\ Delta("trips") + 0 = truth.late
        /\ Delta("errors") + 0 = truth.errors
        /\ \A d \in Channels :
              /\ stats[d].frames >= log.last[d].frames
              /\ d \in truth.advanced <=> stats[d].frames > log.last[d].frames
              /\ log.timeouts[d] >= log.last_timeouts[d]
        /\ truth.hung - 0 >= truth.drained
        /\ truth.hung - 0 > truth.drained <=>
              \E d \in Channels : log.timeouts[d] > log.last_timeouts[d]
        /\ truth.hung - 0 <= truth.drained + DeltaTimeouts
    BY <1>1, <1>4, <1>9, <1>10 DEF DemoCounts
  <2>2. /\ truth'.hung - 0 >= truth'.drained
        /\ truth'.hung - 0 > truth'.drained <=> truth.hung - 0 > truth.drained
        /\ truth'.hung - 0 <= truth'.drained + DeltaTimeouts
    <3>1. DeltaTimeouts \in Int
      BY <1>1, TimeoutsInt DEF DemoTypes
    <3> QED
      BY <1>6, <1>13, <2>1, <3>1
  <2> QED
    BY <1>1, <1>4, <1>6, <1>9, <1>10, <1>11, <2>1, <2>2 DEF DemoCounts
<1> QED
  BY <1>1, <1>4, <1>7, <1>8, <1>12 DEF DemoInv, Demo

-----------------------------------------------------------------------------
\* The plan a program runs on.

LEMMA PlanBegins == Init => PlanFacts
<1> SUFFICES ASSUME Init PROVE PlanFacts
  OBVIOUS
<1>1. blocks \in [Channels -> Nat] /\ step \in Nat /\ ch = 0 /\ any = FALSE /\ verdict # "ok"
  BY GroupAssumption DEF Init, Asks
<1>2. step # 0 => \A c \in Channels : blocks[c] = 0
  BY DEF Init
<1> QED
  BY <1>1, <1>2 DEF PlanFacts

LEMMA PlanFactsStep == PlanFacts /\ [Next]_vars => PlanFacts'
<1> SUFFICES ASSUME PlanFacts, [Next]_vars PROVE PlanFacts'
  OBVIOUS
<1>1. CASE Fill
  <2>1. /\ verdict = "filling" /\ ch + step <= N /\ ch' = ch + step
        /\ blocks' = [blocks EXCEPT ![ch] = step] /\ UNCHANGED <<step, claimed, any, verdict>>
    BY <1>1 DEF Fill
  <2>2. blocks' \in [Channels -> Nat]
    BY <2>1 DEF PlanFacts
  <2>3. step # 0 => \A c \in Channels : blocks'[c] # 0 => (c = 0 \/ c >= step) /\ c + step <= N
    BY <2>1 DEF PlanFacts
  <2>4. ch' \in Nat /\ (ch' = 0 \/ ch' >= step)
    BY <2>1 DEF PlanFacts
  <2> QED
    BY <2>1, <2>2, <2>3, <2>4 DEF PlanFacts
<1>2. CASE Filled \/ Overlap \/ OutOfBlocks \/ Conclude
  BY <1>2 DEF Filled, Overlap, OutOfBlocks, Conclude, PlanFacts
<1>3. CASE Skip \/ Claim
  <2>1. /\ verdict = "checking" /\ ch < N /\ ch' = ch + 1 /\ UNCHANGED <<blocks, step, verdict>>
        /\ ch \in Nat /\ N \in Nat
    BY <1>3, GroupAssumption DEF Skip, Claim, AtChannel, PlanFacts
  <2>2. N > 0 /\ ch' \in Nat
    BY <2>1
  <2> QED
    BY <2>1, <2>2 DEF PlanFacts
<1>4. CASE UNCHANGED vars
  BY <1>4 DEF vars, PlanFacts
<1> QED
  BY <1>1, <1>2, <1>3, <1>4 DEF Next

\* A uniform plan that gives every channel a window gives each one block: the
\* programs' slot stride is one wherever they get past configure.
LEMMA PlanReady ==
    ASSUME PlanFacts, verdict = "ok", step # 0, configured
    PROVE  step = 1 /\ N > 0
<1>1. N > 0 /\ N \in Nat /\ step \in Nat
  BY GroupAssumption DEF PlanFacts
<1>2. \A c \in Channels : blocks[c] # 0
  BY DEF configured, configure, is_available
<1>3. \A c \in Channels : (c = 0 \/ c >= step) /\ c + step <= N
  BY <1>2 DEF PlanFacts
<1>4. CASE N = 1
  <2>1. 0 \in Channels
    BY <1>4 DEF Channels
  <2> QED
    BY <1>1, <1>3, <1>4, <2>1
<1>5. CASE N > 1
  <2>1. 1 \in Channels
    BY <1>1, <1>5 DEF Channels
  <2> QED
    BY <1>1, <1>3, <2>1
<1> QED
  BY <1>1, <1>4, <1>5

-----------------------------------------------------------------------------
\* The reports.

Planned == PlanFacts /\ (program # "off" => verdict = "ok" /\ step # 0)
Fresh == program = "off" => /\ stats = Every(NoStats) /\ upset = {} /\ tx = Every("idle")
                            /\ pc = "off"
Alive == (DemoInv /\ step = 1) \/ SoakInv

Whole ==
    /\ Planned /\ Fresh /\ (Live => Alive)
    /\ pc = "reported" => Live
    /\ ReportsTruthful

LEMMA Parts == ReportInv <=> Whole
<1>1. Live <=> (Demo \/ Soaking) /\ pc # "halt"
  BY DEF Live, Counting
<1>2. ~(Demo /\ Soaking)
  BY DEF Demo, Soaking
<1> QED
  BY <1>1, <1>2 DEF ReportInv, Whole, Planned, Fresh, Alive, DemoInv, SoakInv

LEMMA PartsNext == Whole' => ReportInv'
BY Parts, PTL

LEMMA SilentBefore == pc' # "reported" => ReportsTruthful'
BY DEF ReportsTruthful

LEMMA DemoBegins ==
    ASSUME PlanFacts, verdict = "ok", step # 0, Fresh, RunDemo, UNCHANGED vars
    PROVE  DemoInv' /\ step' = 1 /\ pc' # "reported"
<1>1. step = 1 /\ N > 0 /\ step' = step
  BY PlanReady DEF RunDemo, BeginRounds, vars
<1>2. /\ program' = "demo" /\ pc' = "starting" /\ truth' = Nothing
      /\ at' = [mode |-> "simultaneous", left |-> Rounds, victims |-> {}]
      /\ tx' = Every("idle") /\ upset' = {} /\ stats' = Every(NoStats) /\ stats' = stats
      /\ log' = [timeouts |-> Every(0), last |-> stats, last_timeouts |-> Every(0),
                 result |-> NoResult]
  BY DEF RunDemo, BeginRounds, Fresh
<1>3. at' \in DemoLoops /\ at'.mode = "simultaneous" /\ at'.victims = {}
  BY <1>2, SoaksAssumption DEF DemoLoops
<1>4. stats' \in [Channels -> Counters]
  BY <1>2 DEF Every, NoStats, Counters
<1>5. tx' \in [Channels -> {"idle", "busy"}] /\ all_complete'
  BY <1>2 DEF Every, all_complete
<1>7. OnTheWay' = {}
  BY <1>2, <1>5 DEF OnTheWay, all_complete
<1>8. RoundInv'
  BY <1>2, <1>3, <1>4, <1>5, <1>7, NothingTypes DEF RoundInv
<1>9. /\ log'.timeouts = Every(0) /\ log'.last = stats' /\ log'.last_timeouts = Every(0)
      /\ log'.result = NoResult /\ Every(0) \in [Channels -> Nat]
  BY <1>2 DEF Every
<1>10. DemoTypes'
  BY <1>2, <1>3, <1>4, <1>9 DEF DemoTypes
<1>11. SinceReport' = Nothing
  BY <1>2 DEF SinceReport
<1>12. DemoCounts'
  BY <1>4, <1>7, <1>9, <1>11, DemoFresh
<1> QED
  BY <1>1, <1>2, <1>8, <1>10, <1>12 DEF DemoInv, Demo

LEMMA SoaksBegin ==
    ASSUME PlanFacts, verdict = "ok", step # 0, Fresh, UNCHANGED vars,
           RunStress \/ \E stagger \in BOOLEAN : RunSweep(stagger)
    PROVE  SoakInv' /\ step' = 1 /\ pc' # "reported"
<1>1. step = 1 /\ N > 0 /\ N \in Nat /\ step' = step
  BY PlanReady, GroupAssumption DEF RunStress, RunSweep, BeginRounds, vars
<1>2. PICK count \in 1 .. N, stagger \in BOOLEAN :
         /\ at' = [unit |-> 1, count |-> count, left |-> Rounds, stagger |-> stagger,
                   next |-> 0, victims |-> {}]
         /\ program' = "stress" => count = N
  <2>1. 1 \in 1 .. N /\ N \in 1 .. N
    BY <1>1
  <2>2. CASE RunStress
    BY <2>1, <2>2 DEF RunStress, BeginRounds
  <2>3. CASE \E stagger \in BOOLEAN : RunSweep(stagger)
    BY <2>1, <2>3 DEF RunSweep, BeginRounds
  <2> QED
    BY <2>2, <2>3
<1>3. /\ program' \in {"stress", "sweep"} /\ pc' = "starting" /\ truth' = Nothing
      /\ tx' = Every("idle") /\ upset' = {} /\ FreshCounters /\ FreshLog
  BY DEF RunStress, RunSweep, BeginRounds, Fresh
<1>4. at' \in SoakLoops /\ at'.count = count
  <2>1. 0 \in 0 .. N /\ Rounds \in Int
    BY <1>1, SoaksAssumption
  <2> QED
    BY <1>2, <2>1 DEF SoakLoops
<1>5. tx' \in [Channels -> {"idle", "busy"}] /\ all_complete'
  BY <1>3 DEF Every, all_complete
<1>7. Soaking'
  BY <1>3 DEF Soaking
<1> QED
  BY <1>1, <1>2, <1>3, <1>4, <1>5, <1>7, SoakBegins

\* A step of a program that counts, while it runs.
LEMMA DemoStep ==
    ASSUME DemoInv, SoaksNext, UNCHANGED vars
    PROVE  DemoInv' /\ step' = step /\ ReportsTruthful'
<1>1. program = "demo" /\ step' = step
  BY DEF DemoInv, Demo, vars
<1>2. CASE SoakStart
  BY <1>1, <1>2, DemoStartKeeps, SilentBefore
<1>3. CASE SoakSent
  BY <1>1, <1>3, DemoSentKeeps, SilentBefore
<1>4. CASE SoakHung
  BY <1>1, <1>4, DemoHungKeeps, SilentBefore
<1>5. CASE \E due \in DueSets : FreeSweep(due)
  BY <1>1, <1>5, FreeSweepKeeps, SilentBefore
<1>6. CASE \E c \in Channels : FreeEnd(c)
  BY <1>1, <1>6, FreeEndKeeps, SilentBefore
<1>7. CASE FreeWatch
  BY <1>1, <1>7, FreeWatchKeeps, SilentBefore
<1>8. CASE DemoReport
  BY <1>1, <1>8, DemoReportKeeps
<1>9. CASE DemoAgain \/ DemoTurn \/ Drained
  BY <1>1, <1>9, DemoTurnsKeep, SilentBefore
<1>10. CASE DrainTimeout
  BY <1>1, <1>10, DrainTimeoutKeeps, SilentBefore
<1>11. ~StaggeredStart /\ ~SoakAgain /\ ~SoakResult /\ ~NextScenario /\ ~NextCell
       /\ ~RadioFails /\ ~RunDemo /\ ~RunStress /\ ~\E stagger \in BOOLEAN : RunSweep(stagger)
  BY <1>1 DEF StaggeredStart, SoakAgain, SoakResult, NextScenario, NextCell, RadioFails,
     RunDemo, RunStress, RunSweep, BeginRounds, Soaking
<1> QED
  BY <1>2, <1>3, <1>4, <1>5, <1>6, <1>7, <1>8, <1>9, <1>10, <1>11 DEF SoaksNext

LEMMA SoakStep ==
    ASSUME SoakInv, SoaksNext, UNCHANGED vars
    PROVE  /\ step' = step /\ ReportsTruthful' /\ program' = program
           /\ SoakInv' \/ (pc' = "halt")
<1>1. program \in {"stress", "sweep"} /\ step' = step
  BY DEF SoakInv, Soaking, vars
<1>2. CASE SoakStart
  BY <1>1, <1>2, SoakStartKeeps, SilentBefore DEF SoakStart
<1>3. CASE StaggeredStart
  BY <1>1, <1>3, StaggeredStartKeeps, SilentBefore DEF StaggeredStart
<1>4. CASE SoakSent
  BY <1>1, <1>4, SoakSentKeeps, SilentBefore DEF SoakSent
<1>5. CASE SoakHung
  BY <1>1, <1>5, SoakHungKeeps, SilentBefore DEF SoakHung
<1>6. CASE SoakAgain
  BY <1>1, <1>6, SoakAgainKeeps, SilentBefore DEF SoakAgain
<1>7. CASE SoakResult
  BY <1>1, <1>7, SoakResultKeeps DEF SoakResult
<1>8. CASE NextScenario \/ NextCell
  BY <1>1, <1>8, NextUnitKeeps, SilentBefore DEF NextScenario, NextCell, NextUnit
<1>9. CASE RadioFails
  BY <1>1, <1>9, SilentBefore DEF RadioFails
<1>10. /\ ~\E due \in DueSets : FreeSweep(due)
       /\ ~\E c \in Channels : FreeEnd(c)
       /\ ~FreeWatch /\ ~DemoReport /\ ~DemoAgain /\ ~DemoTurn /\ ~Drained /\ ~DrainTimeout
       /\ ~RunDemo /\ ~RunStress /\ ~\E stagger \in BOOLEAN : RunSweep(stagger)
  BY <1>1 DEF FreeSweep, FreeEnd, FreeWatch, FreeRunning, DemoReport, DemoAgain, DemoTurn,
     Turning, Drained, DrainTimeout, Demo, RunDemo, RunStress, RunSweep, BeginRounds
<1> QED
  BY <1>2, <1>3, <1>4, <1>5, <1>6, <1>7, <1>8, <1>9, <1>10 DEF SoaksNext

LEMMA OthersAreSilent ==
    ASSUME DiagNext \/ LoopbackNext \/ \E name \in Programs : SetUpFails(name)
    PROVE  program' # "off" /\ ~Live' /\ pc' # "reported"
<1>1. CASE \E name \in Programs : SetUpFails(name)
  <2>1. "off" \notin Programs
    BY BenchAssumption
  <2> QED
    BY <1>1, <2>1 DEF SetUpFails, Live
<1>2. CASE DiagNext
  <2>1. program' = "diag" /\ pc' # "reported"
    <3>1. CASE \E ragged \in BOOLEAN : RunDiag(ragged)
      BY <3>1 DEF RunDiag
    <3>2. CASE Experiment
      BY <3>2 DEF Experiment, Running
    <3>3. CASE NextPhase \/ DiagDone \/ Report
      BY <3>3 DEF NextPhase, DiagDone, Report, Running
    <3>4. CASE Arm \/ ArmFails
      BY <3>4 DEF Arm, ArmFails, BeginRound, Running
    <3>5. CASE StartBlock
      BY <3>5 DEF StartBlock, Running
    <3>8. CASE \E opening \in Openings : StartWitness(opening)
      BY <3>8 DEF StartWitness, Running
    <3>6. CASE AllSent \/ SendTimeout \/ AllReceived \/ ReceiveTimeout \/ Collect
      BY <3>6 DEF AllSent, SendTimeout, AllReceived, ReceiveTimeout, Collect, Running
    <3>7. CASE JudgeBlock \/ JudgeWitness
      BY <3>7 DEF JudgeBlock, JudgeWitness, NextFrame, Running
    <3> QED
      BY <1>2, <3>1, <3>2, <3>3, <3>4, <3>5, <3>6, <3>7, <3>8
         DEF DiagNext
  <2> QED
    BY <2>1 DEF Live, Counting, Demo, Soaking
<1>3. CASE LoopbackNext
  <2>1. program' = "loopback" /\ pc' # "reported"
    BY <1>3 DEF LoopbackNext, RunLoopback, CaptureArm, CaptureRefused, BeginCapture,
       CaptureStart, CaptureSent, CaptureHung, CaptureNoIdle, CaptureCollect, KnownAnswer,
       CrossTalk, SoakFrame, SoakVerdict, Truncation, FinalVerdict, Fatal, Stage, Testing
  <2> QED
    BY <2>1 DEF Live, Counting, Demo, Soaking
<1> QED
  BY <1>1, <1>2, <1>3

LEMMA SoaksRun ==
    SoaksNext => RunDemo \/ RunStress \/ (\E stagger \in BOOLEAN : RunSweep(stagger)) \/ Live
BY DEF SoaksNext, SoakStart, StaggeredStart, SoakSent, SoakHung, FreeSweep, FreeEnd, FreeWatch,
   FreeRunning, DemoReport, DemoAgain, DemoTurn, Turning, Drained, DrainTimeout, SoakAgain,
   SoakResult, NextScenario, NextCell, NextUnit, RadioFails, Live, Counting, Soaking

LEMMA PlanStep ==
    ASSUME Planned, Fresh, Next, UNCHANGED labVars
    PROVE  Planned' /\ program' = "off"
<1>1. program = "off"
  BY DEF Planned, Next, Fill, Filled, Skip, Overlap, OutOfBlocks, Claim, Conclude, AtChannel
<1>2. PlanFacts' /\ program' = program
  BY PlanFactsStep DEF Planned, labVars
<1> QED
  BY <1>1, <1>2 DEF Planned

LEMMA PlanKept == Planned /\ UNCHANGED vars /\ program' # "off" /\ verdict = "ok" /\ step # 0
                     => Planned' /\ Fresh'
<1> SUFFICES ASSUME Planned, UNCHANGED vars, program' # "off", verdict = "ok", step # 0
             PROVE  Planned' /\ Fresh'
  OBVIOUS
<1>1. PlanFacts' /\ verdict' = verdict /\ step' = step
  BY PlanFactsStep DEF Planned, vars
<1> QED
  BY <1>1 DEF Planned, Fresh

LEMMA LabReportStep == ReportInv /\ [LabNext \/ Rest]_LabVars => ReportInv'
<1> SUFFICES ASSUME ReportInv, [LabNext \/ Rest]_LabVars PROVE ReportInv'
  OBVIOUS
<1>1. Planned /\ Fresh /\ (Live => Alive) /\ (pc = "reported" => Live) /\ ReportsTruthful
  BY Parts DEF Whole
<1>2. CASE UNCHANGED LabVars
  <2>1. UNCHANGED vars /\ UNCHANGED labVars
    BY <1>2 DEF LabVars
  <2>2. Planned'
    BY <1>1, <2>1, PlanFactsStep DEF Planned, labVars, vars
  <2>3. Fresh' /\ (pc' = "reported" => Live') /\ (Live' => Live)
    BY <1>1, <2>1 DEF Fresh, Live, Counting, Demo, Soaking, labVars, vars
  <2>4. Live' => Alive'
    BY <1>1, <2>1, <2>3, DemoStill, SoakStill DEF Alive, labVars, vars
  <2>5. ReportsTruthful'
    BY <1>1, <2>1 DEF ReportsTruthful, labVars, vars, Demo, Soaking, active, SLOT_STRIDE
  <2> QED
    BY <2>2, <2>3, <2>4, <2>5, PartsNext DEF Whole
<1>3. CASE Next /\ UNCHANGED labVars
  <2>1. Planned' /\ program' = "off"
    BY <1>1, <1>3, PlanStep
  <2>2. Fresh' /\ ~Live' /\ pc' # "reported"
    BY <1>1, <1>3, <2>1 DEF Fresh, Live, Counting, Demo, Soaking, labVars
  <2> QED
    BY <2>1, <2>2, SilentBefore, PartsNext DEF Whole
<1>4. ASSUME verdict = "ok", step # 0, UNCHANGED vars,
             DiagNext \/ LoopbackNext \/ \E name \in Programs : SetUpFails(name)
      PROVE  ReportInv'
  BY <1>1, <1>4, OthersAreSilent, PlanKept, SilentBefore, PartsNext DEF Whole
<1>5. ASSUME verdict = "ok", step # 0, UNCHANGED vars, SoaksNext PROVE ReportInv'
  <2>1. CASE RunDemo
    <3>1. DemoInv' /\ step' = 1 /\ pc' # "reported"
      BY <1>1, <1>5, <2>1, DemoBegins DEF Planned
    <3>2. program' # "off"
      BY <3>1 DEF DemoInv, Demo
    <3> QED
      BY <1>1, <1>5, <3>1, <3>2, PlanKept, SilentBefore, PartsNext DEF Whole, Alive
  <2>2. CASE RunStress \/ \E stagger \in BOOLEAN : RunSweep(stagger)
    <3>1. SoakInv' /\ step' = 1 /\ pc' # "reported"
      BY <1>1, <1>5, <2>2, SoaksBegin DEF Planned
    <3>2. program' # "off"
      BY <3>1 DEF SoakInv, Soaking
    <3> QED
      BY <1>1, <1>5, <3>1, <3>2, PlanKept, SilentBefore, PartsNext DEF Whole, Alive
  <2>3. CASE DemoInv /\ step = 1
    <3>1. DemoInv' /\ step' = 1 /\ ReportsTruthful'
      BY <1>5, <2>3, DemoStep
    <3>2. program' # "off" /\ (pc' = "reported" => Live')
      BY <3>1 DEF DemoInv, Demo, Live, Counting
    <3> QED
      BY <1>1, <1>5, <3>1, <3>2, PlanKept, PartsNext DEF Whole, Alive
  <2>4. CASE SoakInv
    <3>1. /\ step' = step /\ ReportsTruthful' /\ program' = program
          /\ SoakInv' \/ pc' = "halt"
      BY <1>5, <2>4, SoakStep
    <3>2. /\ program' # "off" /\ (pc' = "reported" => Live') /\ (Live' => SoakInv')
      BY <2>4, <3>1 DEF SoakInv, Soaking, Live, Counting
    <3> QED
      BY <1>1, <1>5, <3>1, <3>2, PlanKept, PartsNext DEF Whole, Alive
  <2> QED
    BY <1>1, <1>5, <2>1, <2>2, <2>3, <2>4, SoaksRun DEF Alive
<1>6. ASSUME verdict = "ok", step # 0, UNCHANGED vars, TxEnd PROVE ReportInv'
  <2>1. program # "off" /\ program' = program /\ pc' = pc
    BY <1>1, <1>6 DEF TxEnd, Fresh, Ending, Every
  <2>2. CASE ~Live
    <3>1. ~Live' /\ pc' # "reported"
      BY <1>1, <2>1, <2>2 DEF Live, Counting, Demo, Soaking
    <3> QED
      BY <1>1, <1>6, <2>1, <3>1, PlanKept, SilentBefore, PartsNext DEF Whole
  <2>3. CASE Live
    <3>1. Alive' /\ pc' # "reported"
      BY <1>1, <1>6, <2>3, DemoTxEndKeeps, SoakTxEndKeeps DEF Alive, vars
    <3> QED
      BY <1>1, <1>6, <2>1, <3>1, PlanKept, SilentBefore, PartsNext DEF Whole
  <2> QED
    BY <2>2, <2>3
<1>7. ASSUME verdict = "ok", step # 0, UNCHANGED vars, RxEnd PROVE ReportInv'
  <2>1. /\ UNCHANGED <<program, pc, at, sent, tx, upset, budget, stats, log, truth>>
        /\ pc # "reported" /\ pc # "off"
    BY <1>7 DEF RxEnd
  <2>2. program # "off" /\ program' = program /\ pc' = pc
    BY <1>1, <2>1 DEF Fresh
  <2>3. CASE ~Live
    <3>1. ~Live' /\ pc' # "reported"
      BY <1>1, <2>1, <2>3 DEF Live, Counting, Demo, Soaking
    <3> QED
      BY <1>1, <1>7, <2>2, <3>1, PlanKept, SilentBefore, PartsNext DEF Whole
  <2>4. CASE Live
    <3>1. Alive' /\ pc' # "reported"
      BY <1>1, <1>7, <2>1, <2>4, DemoStill, SoakStill DEF Alive, vars
    <3> QED
      BY <1>1, <1>7, <2>2, <3>1, PlanKept, SilentBefore, PartsNext DEF Whole
  <2> QED
    BY <2>3, <2>4
<1> QED
  BY <1>2, <1>3, <1>4, <1>5, <1>6, <1>7 DEF LabNext, Rest, main

\* The demo's line of the last second, and the result line of every stress
\* scenario and every cell of the sweep, agree with what became of the frames
\* that were started: for any number of channels and rounds, any staggering, and
\* any set of late, hung and erring frames in each round, several channels'
\* together.  The timeouts of a result are its sets of frames with some missing,
\* and those of the demo no fewer than the frames missing but for the drained
\* (Verdict of main.rs, finish of stress.rs, report_cell of sweep.rs).
THEOREM ReportsAreTrue == LabSpec => []ReportsTruthful
<1>1. Built => ReportInv
  <2> SUFFICES ASSUME Built PROVE ReportInv
    OBVIOUS
  <2>1. PlanFacts /\ program = "off" /\ pc = "off"
    BY PlanBegins DEF Built, LabInit
  <2>2. Planned /\ Fresh /\ ~Live /\ pc # "reported" /\ ReportsTruthful
    BY <2>1 DEF Built, LabInit, Planned, Fresh, Live, Counting, Demo, Soaking, ReportsTruthful
  <2> QED
    BY <2>2, Parts DEF Whole
<1>2. ReportInv /\ [LabNext \/ Rest]_LabVars => ReportInv'
  BY LabReportStep
<1>3. ReportInv => ReportsTruthful
  BY DEF ReportInv
<1> QED
  BY <1>1, <1>2, <1>3, PTL DEF LabSpec

=============================================================================
