---------------------------- MODULE RmtGroupProofs ----------------------------
(***************************************************************************)
(* What send_blocking_all leaves behind, for a driver of any number of     *)
(* channels, frames of any length and interrupts of any latency; and that  *)
(* channels on one interrupt line do not harm each other, for any latency  *)
(* and any cost of a refill with which the handler keeps up.               *)
(***************************************************************************)
EXTENDS RmtGroup, TLAPS, FiniteSetTheorems, WellFoundedInduction

(* SetReturned speaks of the moment the call is over.  What makes it true  *)
(* is the guard's bookkeeping: a frame of the call that is in flight is in *)
(* `started`, at every step of the call.                                   *)
Shapes == complete \in [Channels -> BOOLEAN] /\ owner \in [Channels -> {"none", "call", "other"}]
Places == pc \in {"idle", "start", "wait", "abort"} /\ (pc = "idle" => started = {})
Guarded == \A c \in Channels : owner[c] = "call" /\ ~complete[c] => c \in started
Ours == started \subseteq {c \in Channels : owner[c] = "call"}
CutOurs == cut \subseteq {c \in Channels : owner[c] = "call"}
CutLate == pc \in {"start", "wait"} => cut = {} /\ out = "none"
OkIsWhole == out = "ok" => cut = {} /\ \A c \in started : complete[c]

GuardInv == Shapes /\ Places /\ Guarded /\ Ours /\ CutOurs /\ CutLate /\ OkIsWhole

USE DEF GuardInv, Shapes, Places, Guarded, Ours, CutOurs, CutLate, OkIsWhole

LEMMA GuardInit == Init => GuardInv
  BY DEF Init, Each

(* The variables GuardInv speaks of. *)
guardVars == <<complete, owner, pc, started, cut, out>>

LEMMA GuardStutter == GuardInv /\ UNCHANGED guardVars => GuardInv'
  BY DEF guardVars

(* A frame that ends leaves the set of those in flight, and nothing else.  *)
LEMMA GuardIsr == GuardInv /\ Isr => GuardInv'
  <1> SUFFICES ASSUME GuardInv, Isr PROVE GuardInv'
    OBVIOUS
  <1>1. CASE Finish
    <2>1. /\ complete' = [complete EXCEPT ![Current] = TRUE]
          /\ UNCHANGED <<owner, pc, started, cut, out>>
      BY <1>1 DEF Finish, wireVars, threadVars, historyVars, boundVars
    <2>2. Shapes'
      BY <2>1
    <2>3. \A c \in Channels : complete[c] => complete'[c]
      BY <2>1
    <2> QED
      BY <2>1, <2>2, <2>3
  <1>2. CASE TakeInterrupts \/ SkipComplete \/ RefillBegin \/ RefillEnd
    <2>1. UNCHANGED guardVars
      BY <1>2 DEF TakeInterrupts, SkipComplete, RefillBegin, RefillEnd, stateVars, threadVars,
           historyVars, guardVars
    <2> QED
      BY <2>1, GuardStutter
  <1> QED
    BY <1>1, <1>2 DEF Isr

(* start_frame on a channel that is complete: `who` owns it now.           *)
LEMMA StartEffect ==
  ASSUME NEW c, NEW w, NEW who \in {"call", "other"}, GuardInv, MayStart(c), StartFrame(c, w, who)
  PROVE  /\ c \in Channels /\ Shapes'
         /\ owner'[c] = who /\ ~complete'[c] /\ complete[c]
         /\ \A d \in Channels \ {c} : owner'[d] = owner[d] /\ complete'[d] = complete[d]
         /\ cut' = cut \ {c}
  <1>1. c \in Channels /\ complete[c]
    BY DEF MayStart
  <1>2. /\ complete' = [complete EXCEPT ![c] = FALSE] /\ owner' = [owner EXCEPT ![c] = who]
        /\ cut' = cut \ {c}
    BY DEF StartFrame
  <1> QED
    BY <1>1, <1>2

LEMMA GuardThread ==
  ASSUME GuardInv, \/ InCall \/ Unwind
                   \/ \E c \in Channels, w \in Lens : StartOther(c, w)
                   \/ \E channels \in Lists : SendAll(channels)
  PROVE  GuardInv'
  <1>1. CASE \E c \in Channels, w \in Lens : StartOther(c, w)
    <2> PICK c \in Channels, w \in Lens : StartOther(c, w)
      BY <1>1
    <2>1. pc = "idle" /\ UNCHANGED <<pc, started, out>> /\ MayStart(c) /\ StartFrame(c, w, "other")
      BY DEF StartOther, threadVars
    <2> QED
      BY <2>1, StartEffect
  <1>2. CASE \E channels \in Lists : SendAll(channels)
    BY <1>2 DEF SendAll, stateVars
  <1>3. CASE \E w \in Lens : StartNext(w)
    <2> PICK w \in Lens : StartNext(w)
      BY <1>3
    <2> DEFINE c == Head(list)
    <2>1. /\ pc = "start" /\ UNCHANGED <<pc, out>> /\ started' = started \cup {c}
          /\ MayStart(c) /\ StartFrame(c, w, "call")
      BY DEF StartNext
    <2> HIDE DEF c
    <2> QED
      BY <2>1, StartEffect
  <1>4. CASE StartError \/ AllStarted \/ AllComplete \/ Unwind \/ Leave
    BY <1>4 DEF StartError, AllStarted, AllComplete, Unwind, Leave, stateVars, historyVars
  <1>5. CASE \E c \in Channels : AbortNext(c)
    <2> PICK c \in Channels : AbortNext(c)
      BY <1>5
    <2>1. /\ pc = "abort" /\ c \in started /\ UNCHANGED <<pc, out, owner>>
          /\ complete' = [complete EXCEPT ![c] = TRUE]
          /\ cut' = (IF complete[c] THEN cut ELSE cut \cup {c})
          /\ started' = started \ {c}
      BY DEF AbortNext
    <2>2. Shapes' /\ complete'[c] /\ \A d \in Channels \ {c} : complete'[d] = complete[d]
      BY <2>1
    <2> QED
      BY <2>1, <2>2
  <1> QED
    BY <1>1, <1>2, <1>3, <1>4, <1>5 DEF InCall

LEMMA GuardNext == GuardInv /\ [Next]_vars => GuardInv'
  <1> SUFFICES ASSUME GuardInv, [Next]_vars PROVE GuardInv'
    OBVIOUS
  <1>1. CASE Tick \/ (\E c \in Channels : LoseThreshold(c)) \/ UNCHANGED vars
    <2>1. UNCHANGED guardVars
      BY <1>1 DEF Tick, LoseThreshold, vars, stateVars, threadVars, historyVars, guardVars
    <2> QED
      BY <2>1, GuardStutter
  <1> QED
    BY <1>1, GuardIsr, GuardThread DEF Next

LEMMA GuardAlways == Spec => []GuardInv
  BY GuardInit, GuardNext, PTL DEF Spec

(* However send_blocking_all ends, no channel it started is in flight      *)
(* afterwards: driver.rs's claim that the call "cannot return (normally or *)
(* by unwind) while the frame is in flight", for a set of channels.        *)
THEOREM SetIsReturned == Spec => []SetReturned
  <1>1. GuardInv => SetReturned
    BY DEF SetReturned
  <1> QED
    BY <1>1, GuardAlways, PTL

(* The guard of a failed call aborts that call's frames only, and that of  *)
(* a call which succeeded aborts none.                                     *)
THEOREM AbortsAreOwn == Spec => []AbortsOwn
  <1>1. GuardInv => AbortsOwn
    BY DEF AbortsOwn
  <1> QED
    BY <1>1, GuardAlways, PTL

-----------------------------------------------------------------------------
HIDE DEF GuardInv, Shapes, Places, Guarded, Ours, CutOurs, CutLate, OkIsWhole

(***************************************************************************)
(* Isolated.  Every cause must be served within a half of its being        *)
(* raised: a schedulability argument.  The handler keeps up with all the   *)
(* channels that may send: it has at least a tick to spend on each, and a  *)
(* pass over all of them between two waits fits a half.                    *)
(***************************************************************************)
Keeps == Cost >= 1 /\ Cost * Cardinality(Configured) + 2 * MaxLat <= Half

\* Words since the channel last passed a boundary of its halves.
Phase(c) == at[c] % Half

Waits(c) == c \in thr \cup flags.thr
Refilling(c) == isr = "refill" /\ c = Current

\* Words since the channel's cause was raised; below zero, words until the next
\* one can be.
Age(c) ==
    IF Refilling(c) THEN (before % Half) + clock
    ELSE IF Waits(c) THEN Phase(c) ELSE Phase(c) - Half

\* The ticks left before the next snapshot, at most.
Ahead == IF isr = "idle" THEN MaxLat - clock
         ELSE Cost * Cardinality(flags.thr) - (IF isr = "refill" THEN clock ELSE 0) + MaxLat

\* The ages of the causes by then; T is what is left of the snapshot before.
Dues == [c \in Configured |-> Age(c) + Ahead]

\* The channels that may be in that snapshot.
Coming(T, due) == {c \in Configured \ T : due[c] >= 0}

\* The pass after it serves all of them within a half of their causes.
Timely(T, due) ==
    /\ \A c \in T : due[c] < Half
    /\ \A c \in Coming(T, due) : due[c] + MaxLat + Cost * Cardinality(Coming(T, due)) < Half

\* No cause can be raised before the last tick of this pass.
Clear(T, due) ==
    /\ \A c \in T : due[c] <= Half
    /\ \A c \in Configured \ T : due[c] <= 0

\* All causes were raised since the handler was last done.
Recent(due) == \A c \in Configured : due[c] <= MaxLat

Schedule ==
    /\ isr # "idle" => Timely(flags.thr, Dues) \/ Clear(flags.thr, Dues)
    /\ isr = "idle" /\ Pending => Timely(flags.thr, Dues) \/ Recent(Dues)

\* How the channels, their causes and the handler belong together.
Kinds ==
    /\ on \in [Channels -> BOOLEAN] /\ complete \in [Channels -> BOOLEAN]
    /\ at \in [Channels -> Nat] /\ lim \in [Channels -> Nat]
    /\ len \in [Channels -> Nat] /\ good \in [Channels -> Nat] /\ guard \in [Channels -> Nat]
    /\ thr \subseteq Configured /\ end \subseteq Channels
    /\ flags.thr \subseteq Configured /\ flags.end \subseteq Channels
    /\ isr \in {"idle", "scan", "refill"} /\ (isr = "idle" <=> Flagged = {})
    /\ before \in Nat /\ clock \in Nat

Sending ==
    /\ \A c \in Channels : on[c] => c \in Configured /\ ~complete[c] /\ good[c] >= Ram
    /\ \A c \in end \cup flags.end : ~on[c]
    /\ \A c \in Channels : lim[c] % Half = 0

Handling ==
    /\ isr = "idle" /\ Pending => clock <= MaxLat
    /\ isr = "refill" => Current \in flags.thr /\ ~complete[Current] /\ clock <= Cost
    /\ \A c \in thr \cap flags.thr : Refilling(c)

\* What passes while a channel is refilled.
Passing ==
    isr = "refill" =>
        LET b == (before % Half) + clock
        IN  /\ on[Current] => Phase(Current) = b \/ (b = Half /\ Phase(Current) = 0)
            /\ Phase(Current) <= b
            /\ Current \in thr => b = Half /\ Phase(Current) = 0

\* A frame that lost no interrupt: which words are written, and where the guard is.
\* That matters as long as it is sent or has a refill to come; the last of them, which
\* lays the STOP behind the latch, is one of these.
OnTrack(c) ==
    LET written == IF Refilling(c) THEN lim[c] ELSE lim[c] + Half
        live == on[c] \/ Waits(c)
    IN  /\ at[c] <= len[c]
        /\ live => good[c] = written
        /\ on[c] => guard[c] = 0 \/ guard[c] >= written
        /\ live => IF ~Refilling(c) /\ Waits(c) THEN at[c] = lim[c] + Phase(c)
                   ELSE IF c \in thr THEN at[c] = lim[c]
                   ELSE lim[c] - Half <= at[c] /\ at[c] < lim[c]
        /\ Refilling(c) => /\ before = lim[c] - Half + (before % Half)
                           /\ on[c] => at[c] = before + clock

Tracked == \A c \in Channels : ~complete[c] /\ c \notin missed => OnTrack(c)

TimeInv == Kinds /\ Sending /\ Handling /\ Passing /\ Schedule
IsoInv == TimeInv /\ Tracked /\ Isolated
-----------------------------------------------------------------------------
\* Positions on the window's ring.
LEMMA DivMod ==
    ASSUME NEW R \in Nat \ {0}, NEW a \in Int
    PROVE  /\ a \div R \in Int /\ (a % R) \in 0 .. R - 1
           /\ a = R * (a \div R) + (a % R)
OBVIOUS

LEMMA ModIs ==
    ASSUME NEW R \in Nat \ {0}, NEW q \in Int, NEW r \in 0 .. R - 1
    PROVE  (R * q + r) % R = r
OBVIOUS

LEMMA ModNext ==
    ASSUME NEW R \in Nat \ {0}, NEW a \in Int
    PROVE  (a + 1) % R = IF (a % R) + 1 = R THEN 0 ELSE (a % R) + 1
<1>1. PICK q \in Int : a = R * q + (a % R)
  BY DivMod
<1>2. (a % R) \in 0 .. R - 1
  BY DivMod
<1>3. CASE (a % R) + 1 = R
  <2>1. PICK p \in Int : p = q + 1
    OBVIOUS
  <2>2. a + 1 = R * p + 0
    BY <1>1, <1>2, <1>3, <2>1
  <2>3. (R * p + 0) % R = 0
    BY ModIs
  <2> QED
    BY <2>2, <2>3, <1>3
<1>4. CASE (a % R) + 1 # R
  <2>1. PICK r \in 0 .. R - 1 : r = (a % R) + 1
    BY <1>2, <1>4
  <2>2. a + 1 = R * q + r
    BY <1>1, <2>1
  <2> QED
    BY <2>1, <2>2, <1>4, ModIs
<1> QED
  BY <1>3, <1>4

LEMMA ModShift ==
    ASSUME NEW R \in Nat \ {0}, NEW a \in Int, NEW k \in Int
    PROVE  (a + R * k) % R = (a % R)
<1>1. PICK q \in Int : a = R * q + (a % R)
  BY DivMod
<1>2. PICK r \in 0 .. R - 1 : r = (a % R)
  BY DivMod
<1>3. PICK p \in Int : p = q + k
  OBVIOUS
<1>4. a + R * k = R * p + r
  BY <1>1, <1>2, <1>3
<1>5. (R * p + r) % R = r
  BY ModIs
<1> QED
  BY <1>2, <1>4, <1>5

\* Two positions at one place of a window are at one place of a half, and are
\* whole windows apart.
LEMMA SamePlace ==
    ASSUME NEW R \in Nat \ {0}, NEW a \in Int, NEW b \in Int, (a % (2 * R)) = (b % (2 * R))
    PROVE  (a % R) = (b % R) /\ \E k \in Int : a = b + 2 * R * k
<1>1. 2 * R \in Nat \ {0}
  OBVIOUS
<1>2. PICK q \in Int : a = 2 * R * q + (a % (2 * R))
  BY <1>1, DivMod
<1>3. PICK p \in Int : b = 2 * R * p + (b % (2 * R))
  BY <1>1, DivMod
<1>4. (b % (2 * R)) \in Int
  BY <1>1, DivMod
<1>5. PICK k \in Int : k = q - p
  OBVIOUS
<1>6. a = b + 2 * R * k
  BY <1>2, <1>3, <1>4, <1>5
<1>7. PICK m \in Int : m = 2 * k
  OBVIOUS
<1>8. a = b + R * m
  BY <1>6, <1>7
<1>9. (b + R * m) % R = (b % R)
  BY ModShift
<1> QED
  BY <1>6, <1>8, <1>9

\* A transmitter in the half that ends with the threshold reaches it at its end.
LEMMA Reaches ==
    ASSUME NEW R \in Nat \ {0}, NEW a \in Int, NEW b \in Int, b - R < a, a <= b
    PROVE  (a % (2 * R)) = (b % (2 * R)) <=> a = b
<1> SUFFICES ASSUME (a % (2 * R)) = (b % (2 * R)) PROVE a = b
  OBVIOUS
<1>1. PICK k \in Int : a = b + 2 * R * k
  BY SamePlace
<1>2. 2 * R * k <= 0 /\ - R < 2 * R * k
  BY <1>1
<1>3. k <= 0 /\ k > -1
  BY <1>2
<1> QED
  BY <1>1, <1>3

\* Where the half of a position ends.
LEMMA HalfEnd ==
    ASSUME NEW R \in Nat \ {0}, NEW a \in Int, NEW b \in Int, NEW r \in Int,
           0 <= r, r < R, (b % R) = 0, a = b + r
    PROVE  (a % R) = r /\ (a \div R) * R = b
<1>1. PICK q \in Int : b = R * q
  <2>1. b = R * (b \div R) + 0 /\ b \div R \in Int
    BY DivMod
  <2> QED
    BY <2>1
<1>2. (a % R) = r
  BY <1>1, ModIs
<1>3. a = R * (a \div R) + (a % R) /\ a \div R \in Int
  BY DivMod
<1> QED
  BY <1>2, <1>3

-----------------------------------------------------------------------------
\* A nonempty set of channels has a first one.
LEMMA FirstChannel ==
    ASSUME NEW S \in SUBSET Channels, S # {}
    PROVE  Min(S) \in S
<1>1. S \subseteq Nat /\ IsFiniteSet(S)
  <2>1. IsFiniteSet(0 .. N - 1)
    BY GroupAssumption, FS_Interval
  <2>2. S \in SUBSET (0 .. N - 1)
    BY DEF Channels
  <2>3. IsFiniteSet(S)
    BY <2>1, <2>2, FS_Subset
  <2> QED
    BY <2>2, <2>3
<1> DEFINE Below(x) == {y \in S : y < x}
           T == {Below(x) : x \in S}
           R == StrictSubsetOrdering(S)
<1>2. \A x \in S : Below(x) \in FiniteSubsetsOf(S)
  BY <1>1, FS_Subset DEF FiniteSubsetsOf
<1>3. T \subseteq FiniteSubsetsOf(S) /\ T # {}
  BY <1>2
<1>4. PICK t \in T : \A u \in T : ~ (<<u, t>> \in R)
  <2> HIDE DEF T
  <2> QED
    BY <1>3, FS_StrictSubsetOrderingWellFounded, WFMin
<1>5. PICK x \in S : t = Below(x)
  OBVIOUS
<1>6. \A y \in S : ~ (y < x)
  <2> SUFFICES ASSUME NEW y \in S, y < x PROVE FALSE
    OBVIOUS
  <2>1. y \in Below(x) /\ y \notin Below(y)
    BY <1>1
  <2>2. Below(y) \subseteq Below(x)
    <3> SUFFICES ASSUME NEW z \in S, z < y PROVE z < x
      OBVIOUS
    <3>1. x \in Nat /\ y \in Nat /\ z \in Nat
      BY <1>1
    <3> QED
      BY <3>1
  <2>3. <<Below(y), Below(x)>> \in R
    <3>1. Below(y) \in SUBSET S /\ Below(x) \in SUBSET S /\ Below(y) # Below(x)
      BY <2>1
    <3> HIDE DEF Below
    <3> QED
      BY <2>2, <3>1 DEF StrictSubsetOrdering
  <2> QED
    BY <2>3, <1>4, <1>5
<1>7. \A y \in S : x =< y
  BY <1>1, <1>6
<1> QED
  BY <1>7 DEF Min
-----------------------------------------------------------------------------
LEMMA ConfiguredIs == Configured \subseteq Channels /\ IsFiniteSet(Configured)
<1>1. IsFiniteSet(0 .. N - 1)
  BY GroupAssumption, FS_Interval
<1>2. Configured \in SUBSET (0 .. N - 1)
  BY GroupAssumption DEF Channels
<1>3. IsFiniteSet(Configured)
  BY <1>1, <1>2, FS_Subset
<1> QED
  BY <1>3, GroupAssumption

LEMMA Times ==
    ASSUME NEW x \in Nat, NEW y \in Nat
    PROVE  /\ Cost * x \in Nat
           /\ x <= y => Cost * x <= Cost * y
           /\ Cost * (x + 1) = Cost * x + Cost
           /\ Cost * (x + y) = Cost * x + Cost * y
<1>1. PICK a \in Nat : a = Cost
  BY LimitsAssumption
<1>2. a * x \in Nat /\ a * (x + 1) = a * x + a /\ a * (x + y) = a * x + a * y
  OBVIOUS
<1>3. x <= y => a * x <= a * y
  OBVIOUS
<1> QED
  BY <1>1, <1>2, <1>3

\* What a pass over some of the channels costs.
LEMMA Fewer ==
    ASSUME NEW S \in SUBSET Configured, NEW T \in SUBSET S
    PROVE  /\ Cardinality(S) \in Nat /\ Cardinality(T) \in Nat
           /\ Cost * Cardinality(S) \in Nat /\ Cost * Cardinality(T) \in Nat
           /\ Cost * Cardinality(T) <= Cost * Cardinality(S)
<1>1. IsFiniteSet(S)
  BY ConfiguredIs, FS_Subset
<1>2. IsFiniteSet(T) /\ Cardinality(T) <= Cardinality(S)
  BY <1>1, FS_Subset
<1>3. Cardinality(S) \in Nat /\ Cardinality(T) \in Nat
  BY <1>1, <1>2, FS_CardinalityType
<1> QED
  BY <1>2, <1>3, Times

LEMMA Less ==
    ASSUME NEW S \in SUBSET Configured, NEW c \in S
    PROVE  Cost * Cardinality(S \ {c}) + Cost = Cost * Cardinality(S)
<1>1. IsFiniteSet(S)
  BY ConfiguredIs, FS_Subset
<1>2. Cardinality(S) \in Nat /\ Cardinality(S \ {c}) \in Nat
  BY <1>1, FS_RemoveElement, FS_CardinalityType
<1>3. Cardinality(S) = Cardinality(S \ {c}) + 1
  <2>1. Cardinality(S \ {c}) = IF c \in S THEN Cardinality(S) - 1 ELSE Cardinality(S)
    BY <1>1, FS_RemoveElement
  <2> QED
    BY <2>1, <1>2
<1> QED
  BY <1>2, <1>3, Times

LEMMA Both ==
    ASSUME NEW S \in SUBSET Configured, NEW T \in SUBSET Configured, S \cap T = {}
    PROVE  Cost * Cardinality(S) + Cost * Cardinality(T) <= Cost * Cardinality(Configured)
<1>1. IsFiniteSet(S) /\ IsFiniteSet(T)
  BY ConfiguredIs, FS_Subset
<1>2. Cardinality(S) \in Nat /\ Cardinality(T) \in Nat /\ Cardinality(S \cup T) \in Nat
  BY <1>1, FS_Union, FS_CardinalityType
<1>3. Cardinality(S \cup T) = Cardinality(S) + Cardinality(T)
  BY <1>1, <1>2, FS_Union, FS_EmptySet
<1>4. Cost * Cardinality(S \cup T) = Cost * Cardinality(S) + Cost * Cardinality(T)
  BY <1>2, <1>3, Times
<1>5. Cost * Cardinality(S \cup T) <= Cost * Cardinality(Configured)
  BY Fewer
<1> QED
  BY <1>4, <1>5

-----------------------------------------------------------------------------
\* The schedule, as the ages and the snapshot change.
DueKind == [Configured -> Int]

\* No channel is due later than it was.
LEMMA Falls ==
    ASSUME NEW T \in SUBSET Configured, NEW due \in DueKind, NEW new \in DueKind,
           \A c \in Configured : new[c] <= due[c]
    PROVE  /\ Timely(T, due) => Timely(T, new)
           /\ Clear(T, due) => Clear(T, new)
           /\ Recent(due) => Recent(new)
<1>1. ASSUME Timely(T, due) PROVE Timely(T, new)
  <2>1. Coming(T, new) \subseteq Coming(T, due)
    BY DEF Coming, DueKind
  <2>2. PICK k \in Nat : k = Cost * Cardinality(Coming(T, due))
    BY Fewer DEF Coming
  <2>3. PICK l \in Nat : l = Cost * Cardinality(Coming(T, new)) /\ l <= k
    BY <2>1, <2>2, Fewer DEF Coming
  <2>4. \A c \in T : new[c] < Half
    BY <1>1, SizesAssumption DEF Timely, DueKind
  <2>5. \A c \in Coming(T, due) : due[c] + MaxLat + k < Half
    BY <1>1, <2>2 DEF Timely
  <2>6. \A c \in Coming(T, new) : new[c] + MaxLat + l < Half
    <3> TAKE c \in Coming(T, new)
    <3>1. c \in Configured /\ new[c] \in Int /\ due[c] \in Int /\ due[c] + MaxLat + k < Half
      BY <2>1, <2>5 DEF Coming, DueKind
    <3> QED
      BY <3>1, <2>3, LimitsAssumption, SizesAssumption
  <2> QED
    BY <2>3, <2>4, <2>6 DEF Timely
<1>2. ASSUME Clear(T, due) PROVE Clear(T, new)
  BY <1>2, SizesAssumption DEF Clear, DueKind
<1>3. ASSUME Recent(due) PROVE Recent(new)
  BY <1>3, LimitsAssumption DEF Recent, DueKind
<1> QED
  BY <1>1, <1>2, <1>3

\* A channel that leaves the snapshot is served: its next cause is a half away.
LEMMA Serves ==
    ASSUME NEW T \in SUBSET Configured, NEW due \in DueKind, NEW new \in DueKind, NEW c,
           \A d \in Configured : new[d] <= due[d],
           c \in T => new[c] <= due[c] - Half
    PROVE  /\ Timely(T, due) => Timely(T \ {c}, new)
           /\ Clear(T, due) => Clear(T \ {c}, new)
<1>1. ASSUME Timely(T, due) PROVE Timely(T \ {c}, new)
  <2> DEFINE U == T \ {c}
  <2>1. c \in T => new[c] < 0
    BY <1>1, SizesAssumption DEF Timely, DueKind
  <2>2. Coming(U, new) \subseteq Coming(T, due)
    BY <2>1 DEF Coming, DueKind
  <2>3. PICK k \in Nat : k = Cost * Cardinality(Coming(T, due))
    BY Fewer DEF Coming
  <2>4. PICK l \in Nat : l = Cost * Cardinality(Coming(U, new)) /\ l <= k
    BY <2>2, <2>3, Fewer DEF Coming
  <2>5. \A d \in U : new[d] < Half
    BY <1>1, SizesAssumption DEF Timely, DueKind
  <2>6. \A d \in Coming(T, due) : due[d] + MaxLat + k < Half
    BY <1>1, <2>3 DEF Timely
  <2>7. \A d \in Coming(U, new) : new[d] + MaxLat + l < Half
    <3> TAKE d \in Coming(U, new)
    <3>1. d \in Configured /\ new[d] \in Int /\ due[d] \in Int /\ due[d] + MaxLat + k < Half
      BY <2>2, <2>6 DEF Coming, DueKind
    <3> QED
      BY <3>1, <2>4, LimitsAssumption, SizesAssumption
  <2> QED
    BY <2>4, <2>5, <2>7 DEF Timely
<1>2. ASSUME Clear(T, due) PROVE Clear(T \ {c}, new)
  BY <1>2, SizesAssumption DEF Clear, DueKind
<1> QED
  BY <1>1, <1>2

\* A snapshot is taken, `k` ticks after its first cause.
LEMMA Takes ==
    ASSUME Keeps, NEW T \in SUBSET Configured, NEW age \in DueKind, NEW k \in 0 .. MaxLat,
           NEW due \in DueKind, NEW new \in DueKind,
           \A c \in T : age[c] >= 0, \A c \in Configured \ T : age[c] < 0,
           \A c \in Configured : due[c] = age[c] + (MaxLat - k),
           \A c \in Configured : new[c] = age[c] + (Cost * Cardinality(T) + MaxLat),
           Timely({}, due) \/ Recent(due)
    PROVE  Timely(T, new) \/ Clear(T, new)
<1>1. PICK m \in Nat : m = Cost * Cardinality(T)
  BY Fewer
<1>2. PICK l \in Nat : l = Cost * Cardinality(Coming(T, new))
  BY Fewer DEF Coming
<1>3. PICK n \in Nat : n = Cost * Cardinality(Configured)
  BY Fewer
<1>4. Cost \in Nat /\ Cost >= 1 /\ n + 2 * MaxLat <= Half /\ MaxLat \in Nat /\ Half \in Nat /\ k \in Nat
  BY <1>3, LimitsAssumption, SizesAssumption DEF Keeps
<1>5. m + l <= n
  BY <1>1, <1>2, <1>3, Both DEF Coming
<1>6. \A c \in Coming(T, new) : new[c] + MaxLat + l < Half
  <2> TAKE c \in Coming(T, new)
  <2>1. c \in Configured /\ age[c] \in Int /\ age[c] < 0 /\ new[c] = age[c] + (m + MaxLat)
    BY <1>1 DEF Coming, DueKind
  <2> QED
    BY <2>1, <1>4, <1>5
<1>7. CASE Timely({}, due)
  <2>1. T \subseteq Coming({}, due)
    BY <1>4 DEF Coming, DueKind
  <2>2. PICK j \in Nat : j = Cost * Cardinality(Coming({}, due)) /\ m <= j
    BY <1>1, <2>1, Fewer DEF Coming
  <2>3. \A c \in T : due[c] + MaxLat + j < Half
    BY <1>7, <2>1, <2>2 DEF Timely
  <2>4. \A c \in T : new[c] < Half
    <3> TAKE c \in T
    <3>1. /\ age[c] \in Int /\ new[c] = age[c] + (m + MaxLat)
          /\ due[c] = age[c] + (MaxLat - k) /\ due[c] + MaxLat + j < Half /\ k <= MaxLat
      BY <1>1, <2>3 DEF DueKind
    <3> QED
      BY <3>1, <2>2, <1>4
  <2> QED
    BY <1>2, <1>6, <2>4 DEF Timely
<1>8. CASE Recent(due)
  <2>1. \A c \in T : new[c] <= 2 * MaxLat + m
    <3> TAKE c \in T
    <3>1. /\ age[c] \in Int /\ new[c] = age[c] + (m + MaxLat)
          /\ due[c] = age[c] + (MaxLat - k) /\ due[c] <= MaxLat /\ k <= MaxLat
      BY <1>1, <1>8 DEF Recent, DueKind
    <3> QED
      BY <3>1, <1>1, <1>4
  <2>2. CASE T = Configured
    <3>1. \A c \in T : new[c] <= Half
      BY <2>1, <2>2, <1>1, <1>3, <1>4 DEF DueKind
    <3> QED
      BY <3>1, <2>2 DEF Clear
  <2>3. CASE T # Configured
    <3>1. PICK c \in Configured : c \notin T
      BY <2>3
    <3>2. m + Cost <= n
      <4>1. T \in SUBSET (Configured \ {c})
        BY <3>1
      <4>2. m <= Cost * Cardinality(Configured \ {c}) /\ Cost * Cardinality(Configured \ {c}) \in Nat
        BY <4>1, <1>1, Fewer
      <4>3. Cost * Cardinality(Configured \ {c}) + Cost = n
        BY <1>3, Less
      <4> QED
        BY <4>2, <4>3, <1>4
    <3>3. \A d \in T : new[d] < Half
      <4> TAKE d \in T
      <4>1. new[d] \in Int /\ new[d] <= 2 * MaxLat + m
        BY <2>1 DEF DueKind
      <4> QED
        BY <4>1, <3>2, <1>4
    <3> QED
      BY <1>2, <1>6, <3>3 DEF Timely
  <2> QED
    BY <2>2, <2>3
<1> QED
  BY <1>7, <1>8
-----------------------------------------------------------------------------
\* What the state says of ages; the same one step later.
AgeKind ==
    /\ \A c \in Channels : Phase(c) \in 0 .. Half - 1
    /\ \A c \in Configured :
          /\ Age(c) \in Int
          /\ Waits(c) \/ Refilling(c) => Age(c) >= 0
          /\ ~Waits(c) /\ ~Refilling(c) => Age(c) < 0
    /\ Ahead \in Int
    /\ Cost * Cardinality(flags.thr) \in Nat
    /\ Dues \in DueKind
    /\ \A c \in Configured : Dues[c] = Age(c) + Ahead

LEMMA AgeKinds == Kinds => AgeKind
<1> SUFFICES ASSUME Kinds PROVE AgeKind
  OBVIOUS
<1>1. \A c \in Channels : Phase(c) \in 0 .. Half - 1
  BY SizesAssumption, DivMod DEF Kinds, Phase
<1>2. \A c \in Configured :
         /\ Age(c) \in Int
         /\ Waits(c) \/ Refilling(c) => Age(c) >= 0
         /\ ~Waits(c) /\ ~Refilling(c) => Age(c) < 0
  <2> TAKE c \in Configured
  <2>1. Phase(c) \in 0 .. Half - 1
    BY <1>1, ConfiguredIs
  <2>2. (before % Half) \in 0 .. Half - 1 /\ clock \in Nat
    BY SizesAssumption, DivMod DEF Kinds
  <2> QED
    BY <2>1, <2>2, SizesAssumption DEF Age
<1>3. Cost * Cardinality(flags.thr) \in Nat
  BY Fewer DEF Kinds
<1>4. Ahead \in Int
  BY <1>3, LimitsAssumption DEF Ahead, Kinds
<1>5. Dues \in DueKind /\ \A c \in Configured : Dues[c] = Age(c) + Ahead
  BY <1>2, <1>4 DEF Dues, DueKind
<1> QED
  BY <1>1, <1>2, <1>3, <1>4, <1>5 DEF AgeKind

LEMMA AgeKindsNext == Kinds' => AgeKind'
  BY AgeKinds, PTL

LEMMA CurrentIs == Kinds /\ isr # "idle" => Current \in Channels /\ Current \in Flagged
<1> SUFFICES ASSUME Kinds, isr # "idle" PROVE Current \in Channels /\ Current \in Flagged
  OBVIOUS
<1>1. Flagged \in SUBSET Channels
  BY ConfiguredIs DEF Kinds, Flagged
<1>2. Flagged # {}
  BY DEF Kinds
<1>3. Min(Flagged) \in Flagged
  BY <1>1, <1>2, FirstChannel, Zenon
<1> QED
  BY <1>1, <1>3 DEF Current

\* While time passes there is time left.
LEMMA AheadIs ==
    ASSUME Keeps, Kinds, Handling, InTime, isr # "scan"
    PROVE  /\ isr = "idle" /\ Pending => Ahead >= 1
           /\ isr = "refill" => Ahead >= 1 /\ \A c \in flags.thr \ {Current} : Ahead >= 2
<1>1. Cost \in Nat /\ Cost >= 1 /\ MaxLat \in Nat /\ clock \in Nat
  BY LimitsAssumption DEF Keeps, Kinds
<1>2. isr = "idle" /\ Pending => Ahead >= 1
  BY <1>1 DEF InTime, Ahead
<1>3. ASSUME isr = "refill"
      PROVE  Ahead >= 1 /\ \A c \in flags.thr \ {Current} : Ahead >= 2
  <2> DEFINE T == flags.thr
  <2>1. T \in SUBSET Configured /\ Current \in T /\ clock < Cost
    BY <1>3 DEF Kinds, Handling, InTime
  <2>2. PICK m \in Nat : m = Cost * Cardinality(T)
    BY <2>1, Fewer
  <2>3. PICK n \in Nat : n = Cost * Cardinality(T \ {Current})
    BY <2>1, Fewer
  <2>4. m = n + Cost
    BY <2>1, <2>2, <2>3, Less
  <2>5. Ahead = m - clock + MaxLat
    BY <1>3, <2>2 DEF Ahead
  <2>6. ASSUME NEW c \in T \ {Current} PROVE n >= Cost
    <3>1. PICK p \in Nat : p = Cost * Cardinality((T \ {Current}) \ {c})
      BY <2>1, Fewer
    <3>2. p + Cost = n
      BY <3>1, <2>1, <2>3, Less
    <3> QED
      BY <3>1, <3>2, <1>1
  <2> QED
    BY <1>1, <2>1, <2>4, <2>5, <2>6
<1> QED
  BY <1>2, <1>3

\* A cause that waits, and a refill that runs, have a tick left before the
\* channel passes the next boundary.
LEMMA Headroom ==
    ASSUME Keeps, TimeInv, InTime, isr # "scan"
    PROVE  /\ \A c \in Channels : Waits(c) /\ ~Refilling(c) => Phase(c) + 1 < Half
           /\ isr = "refill" => /\ (before % Half) + clock < Half
                                /\ Current \notin thr
<1>1. /\ Kinds /\ Handling /\ Passing /\ Schedule /\ AgeKind
      /\ Half \in Nat /\ MaxLat \in Nat /\ Cost \in Nat /\ Cost >= 1 /\ clock \in Nat
  BY AgeKinds, SizesAssumption, LimitsAssumption DEF TimeInv, Keeps, Kinds
<1>2. ASSUME NEW c \in Channels, Waits(c), ~Refilling(c) PROVE Phase(c) + 1 < Half
  <2>1. c \in Configured
    BY <1>1, <1>2 DEF Waits, Kinds
  <2>2. PICK a \in Int : a = Phase(c) /\ a = Age(c) /\ a >= 0
    BY <1>1, <1>2, <2>1 DEF AgeKind, Age
  <2>3. PICK h \in Int : h = Ahead
    BY <1>1 DEF AgeKind
  <2>4. Dues[c] = a + h
    BY <1>1, <2>1, <2>2, <2>3 DEF AgeKind
  <2>5. CASE isr = "idle"
    <3>1. flags.thr = {} /\ Pending /\ h >= 1 /\ h = MaxLat - clock
      BY <1>1, <1>2, <2>3, <2>5, AheadIs DEF Kinds, Flagged, Waits, Pending, Ahead
    <3>2. CASE Timely({}, Dues)
      <4>1. c \in Coming({}, Dues)
        BY <2>1, <2>2, <2>4, <3>1 DEF Coming
      <4>2. PICK k \in Nat : k = Cost * Cardinality(Coming({}, Dues))
        BY Fewer DEF Coming
      <4>3. a + h + MaxLat + k < Half
        BY <3>2, <4>1, <4>2, <2>4 DEF Timely
      <4> QED
        BY <4>3, <2>2, <3>1, <1>1
    <3>3. CASE Recent(Dues)
      <4>1. a + h <= MaxLat
        BY <3>3, <2>1, <2>4 DEF Recent
      <4>2. PICK k \in Nat : k = Cost * Cardinality(Configured)
        BY Fewer
      <4>3. k + 2 * MaxLat <= Half
        BY <4>2 DEF Keeps
      <4>4. k >= 1
        <5>1. PICK n \in Nat : n = Cost * Cardinality(Configured \ {c})
          BY Fewer
        <5>2. n + Cost = k
          BY <5>1, <4>2, <2>1, Less
        <5> QED
          BY <5>1, <5>2, <1>1
      <4> QED
        BY <4>1, <4>3, <4>4, <2>2, <3>1, <1>1
    <3> QED
      BY <1>1, <2>5, <3>1, <3>2, <3>3 DEF Schedule
  <2>6. CASE isr = "refill"
    <3>1. h >= 1 /\ \A d \in flags.thr \ {Current} : h >= 2
      BY <1>1, <2>3, <2>6, AheadIs
    <3>2. Timely(flags.thr, Dues) \/ Clear(flags.thr, Dues)
      BY <1>1, <2>6 DEF Schedule
    <3>3. CASE c \in flags.thr
      <4>1. h >= 2
        BY <1>2, <2>6, <3>1, <3>3 DEF Refilling
      <4>2. a + h <= Half
        BY <3>2, <3>3, <2>4, <2>2, <2>3, <1>1 DEF Timely, Clear
      <4> QED
        BY <4>1, <4>2, <2>2, <2>3, <1>1
    <3>4. CASE c \notin flags.thr
      <4>1. ~Clear(flags.thr, Dues)
        BY <3>1, <3>4, <2>1, <2>2, <2>3, <2>4 DEF Clear
      <4>2. c \in Coming(flags.thr, Dues)
        BY <3>1, <3>4, <2>1, <2>2, <2>3, <2>4 DEF Coming
      <4>3. PICK k \in Nat : k = Cost * Cardinality(Coming(flags.thr, Dues))
        BY Fewer DEF Coming
      <4>4. a + h + MaxLat + k < Half
        BY <3>2, <4>1, <4>2, <4>3, <2>4 DEF Timely
      <4> QED
        BY <4>4, <3>1, <2>2, <2>3, <1>1
    <3> QED
      BY <3>3, <3>4
  <2> QED
    BY <1>1, <2>5, <2>6 DEF Kinds
<1>3. ASSUME isr = "refill" PROVE (before % Half) + clock < Half
  <2>1. Current \in flags.thr /\ Current \in Configured /\ Refilling(Current)
    BY <1>1, <1>3 DEF Handling, Kinds, Refilling
  <2>2. PICK a \in Int : a = (before % Half) + clock /\ a = Age(Current)
    BY <1>1, <2>1 DEF AgeKind, Age
  <2>3. PICK h \in Int : h = Ahead /\ h >= 1
    BY <1>1, <1>3, AheadIs DEF AgeKind
  <2>4. Dues[Current] = a + h
    BY <1>1, <2>1, <2>2, <2>3 DEF AgeKind
  <2>5. a + h <= Half
    BY <1>1, <1>3, <2>1, <2>2, <2>3, <2>4 DEF Schedule, Timely, Clear
  <2> QED
    BY <2>2, <2>3, <2>5, <1>1
<1>4. ASSUME isr = "refill" PROVE Current \notin thr
  <2>1. PICK b \in Int : b = (before % Half) + clock
    <3>1. before \in Int /\ clock \in Int /\ Half \in Nat \ {0}
      BY <1>1, SizesAssumption DEF Kinds
    <3>2. (before % Half) \in Int
      BY <3>1, DivMod
    <3> QED
      BY <3>1, <3>2
  <2>2. b < Half
    BY <1>3, <1>4, <2>1
  <2> QED
    BY <1>1, <1>4, <2>1, <2>2 DEF Passing
<1> QED
  BY <1>2, <1>3, <1>4
-----------------------------------------------------------------------------
(***************************************************************************)
(* A tick.                                                                 *)
(***************************************************************************)
Moves(c) == on[c] /\ ~Stops(c)

\* What happens to one channel.
Moved(c) ==
    /\ on'[c] <=> Moves(c)
    /\ Moves(c) => /\ at'[c] = NextAt(c) /\ NextAt(c) \in Nat
                   /\ at'[c] % Half = IF Phase(c) + 1 = Half THEN 0 ELSE Phase(c) + 1
    /\ ~Moves(c) => at'[c] = at[c]
    /\ c \in thr' <=> c \in thr \/ (Moves(c) /\ NextAt(c) % Ram = lim[c] % Ram)
    /\ c \in thr' \ thr => Moves(c) /\ c \in Configured /\ at'[c] % Half = 0
    /\ c \in end' <=> c \in end \/ (on[c] /\ Stops(c))

LEMMA TickMoves ==
    ASSUME Kinds, Sending, Tick, NEW c \in Channels
    PROVE  Moved(c)
<1>1. /\ on'[c] <=> Moves(c)
      /\ at'[c] = IF Moves(c) THEN NextAt(c) ELSE at[c]
      /\ c \in thr' <=> c \in thr \/ (Moves(c) /\ NextAt(c) % Ram = lim[c] % Ram)
      /\ c \in end' <=> c \in end \/ (on[c] /\ Stops(c))
  BY DEF Tick, Moves
<1>2. ASSUME Moves(c)
      PROVE  NextAt(c) \in Nat /\ NextAt(c) % Half = IF Phase(c) + 1 = Half THEN 0 ELSE Phase(c) + 1
  <2>1. on[c] /\ at[c] \in Nat /\ good[c] \in Nat /\ good[c] >= Ram
    BY <1>2 DEF Kinds, Sending, Moves
  <2>2. Half \in Nat \ {0} /\ Ram = 2 * Half
    BY SizesAssumption DEF Ram
  <2>3. (at[c] + 1) % Half = IF Phase(c) + 1 = Half THEN 0 ELSE Phase(c) + 1
    <3>1. PICK a \in Int : a = at[c]
      BY <2>1
    <3>2. (a + 1) % Half = IF (a % Half) + 1 = Half THEN 0 ELSE (a % Half) + 1
      BY <2>2, ModNext
    <3> QED
      BY <3>1, <3>2 DEF Phase
  <2>4. CASE Replays(c)
    <3>1. NextAt(c) = at[c] + 1 - 2 * Half /\ at[c] + 1 - 2 * Half \in Nat
      BY <2>1, <2>2, <2>4 DEF NextAt, Replays
    <3>2. PICK a \in Int, k \in Int : a = at[c] + 1 /\ k = 0 - 2 /\ NextAt(c) = a + Half * k
      BY <2>1, <2>2, <3>1
    <3>3. (a + Half * k) % Half = (a % Half)
      BY <2>2, ModShift
    <3> QED
      BY <3>1, <3>2, <3>3, <2>3
  <2>5. CASE ~Replays(c)
    BY <2>1, <2>3, <2>5 DEF NextAt
  <2> QED
    BY <2>4, <2>5
<1>3. ASSUME Moves(c), NextAt(c) % Ram = lim[c] % Ram
      PROVE  c \in Configured /\ NextAt(c) % Half = 0
  <2>1. c \in Configured /\ lim[c] \in Int /\ lim[c] % Half = 0 /\ NextAt(c) \in Int
    BY <1>2, <1>3 DEF Kinds, Sending, Moves
  <2>2. (NextAt(c) % Half) = (lim[c] % Half)
    BY <1>3, <2>1, SizesAssumption, SamePlace DEF Ram
  <2> QED
    BY <2>1, <2>2
<1> QED
  BY <1>1, <1>2, <1>3 DEF Moved

LEMMA TickSending ==
    ASSUME Keeps, TimeInv, Tick
    PROVE  Kinds' /\ Sending'
<1>1. /\ Kinds /\ Sending /\ \A c \in Channels : Moved(c)
  BY TickMoves DEF TimeInv
<1>2. UNCHANGED <<lim, len, good, guard, complete, isr, flags, before>>
  BY DEF Tick, stateVars
<1>3. on' \in [Channels -> BOOLEAN] /\ at' \in [Channels -> Nat]
  <2>1. /\ on' = [c \in Channels |-> Moves(c)]
        /\ at' = [c \in Channels |-> IF Moves(c) THEN NextAt(c) ELSE at[c]]
    BY DEF Tick, Moves
  <2>2. \A c \in Channels : (IF Moves(c) THEN NextAt(c) ELSE at[c]) \in Nat
    BY <1>1 DEF Moved, Kinds
  <2> QED
    BY <2>1, <2>2 DEF Moves
<1>4. thr' \subseteq Configured
  <2>1. thr' \subseteq Channels
    BY <1>1, ConfiguredIs DEF Tick, Kinds
  <2> QED
    BY <1>1, <2>1 DEF Moved, Kinds
<1>5. end' \subseteq Channels
  BY <1>1 DEF Tick, Kinds
<1>6. clock' \in Nat
  BY <1>1 DEF Tick, Kinds
<1>7. Kinds'
  BY <1>1, <1>2, <1>3, <1>4, <1>5, <1>6 DEF Kinds, Flagged
<1>8. \A c \in Channels : on'[c] => on[c]
  BY <1>1 DEF Moved, Moves
<1>9. \A c \in end' \cup flags.end : ~on'[c]
  <2> TAKE c \in end' \cup flags.end
  <2>1. c \in Channels /\ Moved(c)
    BY <1>1, <1>5 DEF Kinds
  <2> QED
    BY <1>1, <2>1 DEF Moved, Moves, Sending
<1> QED
  BY <1>1, <1>2, <1>7, <1>8, <1>9 DEF Sending

LEMMA TickHandling ==
    ASSUME Keeps, TimeInv, Tick
    PROVE  Handling' /\ Passing'
<1>1. /\ Kinds /\ Sending /\ Handling /\ Passing /\ AgeKind /\ \A c \in Channels : Moved(c)
      /\ InTime /\ isr # "scan" /\ Half \in Nat \ {0} /\ MaxLat \in Nat /\ clock \in Nat /\ Cost \in Nat
  BY TickMoves, AgeKinds, SizesAssumption, LimitsAssumption DEF TimeInv, Tick, Kinds
<1>2. /\ UNCHANGED <<lim, complete, isr, flags, before>> /\ Current' = Current
      /\ clock' = IF isr = "refill" \/ Pending THEN clock + 1 ELSE 0
  BY DEF Tick, stateVars, Current, Flagged
<1>3. /\ \A c \in Channels : Waits(c) /\ ~Refilling(c) => Phase(c) + 1 < Half
      /\ isr = "refill" => /\ (before % Half) + clock < Half
                           /\ Current \notin thr
  BY <1>1, Headroom
<1>4. (isr = "idle" /\ Pending => clock <= MaxLat)'
  BY <1>1, <1>2 DEF InTime
<1>5. (isr = "refill" => Current \in flags.thr /\ ~complete[Current] /\ clock <= Cost)'
  BY <1>1, <1>2 DEF InTime, Handling
<1>6. \A c \in thr' \cap flags.thr : isr = "refill" /\ c = Current
  <2> TAKE c \in thr' \cap flags.thr
  <2>1. c \in Channels /\ Waits(c)
    BY <1>1, ConfiguredIs DEF Kinds, Waits
  <2>2. CASE c \in thr
    BY <1>1, <2>2 DEF Handling, Refilling
  <2>3. CASE c \notin thr
    <3>1. Phase(c) + 1 = Half
      BY <1>1, <2>1, <2>3 DEF Moved, AgeKind
    <3>2. Refilling(c)
      BY <1>1, <1>3, <2>1, <3>1 DEF AgeKind
    <3> QED
      BY <3>2 DEF Refilling
  <2> QED
    BY <2>2, <2>3
<1>7. Handling'
  BY <1>2, <1>4, <1>5, <1>6 DEF Handling, Refilling
<1>8. ASSUME isr = "refill"
      PROVE  LET b == (before % Half) + clock + 1
                 p == at'[Current] % Half
             IN  /\ on'[Current] => p = b \/ (b = Half /\ p = 0)
                 /\ p <= b
                 /\ Current \in thr' => b = Half /\ p = 0
  <2>1. Current \in Channels /\ Moved(Current)
    BY <1>1, <1>8, ConfiguredIs DEF Handling, Kinds
  <2>2. PICK b \in Int : b = (before % Half) + clock /\ b < Half
    <3>1. (before % Half) \in Int
      BY <1>1, DivMod DEF Kinds
    <3> QED
      BY <3>1, <1>1, <1>3, <1>8
  <2>3. Current \notin thr
    BY <1>3, <1>8
  <2>4. PICK f \in Int : f = Phase(Current) /\ f >= 0 /\ f < Half
    BY <1>1, <2>1 DEF AgeKind
  <2>5. (on[Current] => f = b) /\ f <= b
    BY <1>1, <1>8, <2>2, <2>4 DEF Passing
  <2>6. CASE Moves(Current)
    <3>1. f = b /\ at'[Current] % Half = IF f + 1 = Half THEN 0 ELSE f + 1
      BY <2>1, <2>4, <2>5, <2>6 DEF Moved, Moves
    <3>2. Current \in thr' => at'[Current] % Half = 0
      BY <2>1, <2>3 DEF Moved
    <3> QED
      BY <3>1, <3>2, <2>2, <2>4, <1>1
  <2>7. CASE ~Moves(Current)
    <3>1. at'[Current] % Half = f /\ ~on'[Current] /\ Current \notin thr'
      BY <2>1, <2>3, <2>4, <2>7 DEF Moved, Phase
    <3> QED
      BY <3>1, <2>2, <2>4, <2>5
  <2> QED
    BY <2>6, <2>7
<1>9. Passing'
  <2> SUFFICES ASSUME isr' = "refill" PROVE
        LET b == (before' % Half) + clock'
        IN  /\ on'[Current'] => at'[Current'] % Half = b \/ (b = Half /\ at'[Current'] % Half = 0)
            /\ at'[Current'] % Half <= b
            /\ Current' \in thr' => b = Half /\ at'[Current'] % Half = 0
    BY DEF Passing, Phase
  <2>1. isr = "refill" /\ before' = before /\ Current' = Current /\ clock' = clock + 1
    BY <1>2
  <2>2. (before % Half) + clock + 1 = (before % Half) + (clock + 1)
    <3>1. (before % Half) \in Int
      BY <1>1, DivMod DEF Kinds
    <3> QED
      BY <3>1, <1>1
  <2> QED
    BY <2>1, <2>2, <1>8
<1> QED
  BY <1>7, <1>9
LEMMA TickSchedule ==
    ASSUME Keeps, TimeInv, Tick
    PROVE  Schedule'
<1>1. /\ Kinds /\ Schedule /\ AgeKind /\ AgeKind' /\ \A c \in Channels : Moved(c)
      /\ \A c \in Channels : Waits(c) /\ ~Refilling(c) => Phase(c) + 1 < Half
      /\ isr # "scan" /\ Half \in Nat \ {0} /\ MaxLat \in Nat /\ clock \in Nat
  BY TickMoves, TickSending, AgeKinds, AgeKindsNext, Headroom, SizesAssumption, LimitsAssumption
     DEF TimeInv, Tick, Kinds
<1>2. /\ UNCHANGED <<isr, flags, before>> /\ Current' = Current
      /\ clock' = IF isr = "refill" \/ Pending THEN clock + 1 ELSE 0
  BY DEF Tick, Current, Flagged
<1>3. isr = "idle" => flags.thr = {} /\ flags.end = {}
  BY <1>1 DEF Kinds, Flagged
<1>4. CASE isr = "idle" /\ ~Pending
  <2>1. \A c \in Configured : Dues'[c] <= MaxLat
    <3> TAKE c \in Configured
    <3>1. Ahead' = MaxLat
      BY <1>1, <1>2, <1>4 DEF Ahead
    <3>2. PICK a \in Int : a = Age(c)' /\ Dues'[c] = a + MaxLat
      BY <1>1, <3>1 DEF AgeKind
    <3>3. a <= 0
      <4>1. ~(Refilling(c)')
        BY <1>2, <1>4 DEF Refilling
      <4>2. CASE c \in thr'
        <5>1. at'[c] % Half = 0
          BY <1>1, <1>4, <4>2, ConfiguredIs DEF Moved, Pending
        <5> QED
          BY <5>1, <4>1, <4>2, <3>2 DEF Age, Waits, Phase
      <4>3. CASE c \notin thr'
        <5>1. ~(Waits(c)')
          BY <1>2, <1>3, <1>4, <4>3 DEF Waits
        <5> QED
          BY <5>1, <4>1, <3>2, <1>1 DEF AgeKind
      <4> QED
        BY <4>2, <4>3
    <3> QED
      BY <3>2, <3>3, <1>1
  <2> QED
    BY <2>1, <1>2, <1>4 DEF Schedule, Recent
<1>5. CASE isr = "refill" \/ Pending
  <2>1. PICK h \in Int : h = Ahead /\ Ahead' = h - 1
    <3>1. isr \in {"idle", "refill"}
      BY <1>1 DEF Kinds
    <3>2. PICK m \in Nat : m = Cost * Cardinality(flags.thr)
      BY <1>1 DEF AgeKind
    <3> QED
      BY <3>1, <3>2, <1>1, <1>2, <1>5 DEF Ahead
  <2>2. ASSUME NEW c \in Configured PROVE Dues'[c] <= Dues[c]
    <3>1. c \in Channels /\ Moved(c)
      BY <1>1, ConfiguredIs
    <3>2. PICK a \in Int : a = Age(c) /\ Dues[c] = a + h
      BY <1>1, <2>1 DEF AgeKind
    <3>3. PICK b \in Int : b = Age(c)' /\ Dues'[c] = b + (h - 1)
      BY <1>1, <2>1 DEF AgeKind
    <3>4. PICK f \in Int, g \in Int : f = Phase(c) /\ f >= 0 /\ f < Half /\ g = at'[c] % Half
      BY <1>1, <3>1 DEF AgeKind, Phase
    <3>5. g = f \/ g = f + 1 \/ (g = 0 /\ f + 1 = Half)
      BY <3>1, <3>4 DEF Moved, Phase
    <3>6. b <= a + 1
      <4>1. CASE Refilling(c)
        <5>1. Refilling(c)' /\ isr = "refill"
          BY <4>1, <1>2 DEF Refilling
        <5>2. (before % Half) \in Int
          BY <1>1, DivMod DEF Kinds
        <5> QED
          BY <4>1, <5>1, <5>2, <1>1, <1>2, <3>2, <3>3 DEF Age
      <4>2. CASE ~Refilling(c)
        <5>1. ~(Refilling(c)')
          BY <4>2, <1>2 DEF Refilling
        <5>2. Waits(c) => Waits(c)' /\ f + 1 < Half
          BY <1>1, <1>2, <3>1, <3>4, <4>2 DEF Waits, Moved
        <5>3. ~Waits(c) /\ Waits(c)' => g = 0 /\ f + 1 = Half
          <6>1. ~Waits(c) /\ Waits(c)' => g = 0 /\ Moves(c)
            BY <1>2, <3>1, <3>4 DEF Waits, Moved
          <6>2. Moves(c) => g = IF f + 1 = Half THEN 0 ELSE f + 1
            BY <3>1, <3>4 DEF Moved
          <6> QED
            BY <6>1, <6>2, <3>4
        <5>5. a = IF Waits(c) THEN f ELSE f - Half
          BY <4>2, <3>2, <3>4 DEF Age
        <5>6. b = IF Waits(c)' THEN g ELSE g - Half
          BY <5>1, <3>3, <3>4 DEF Age, Phase
        <5>7. CASE Waits(c)
          BY <5>2, <5>5, <5>6, <5>7, <3>4, <3>5, <1>1
        <5>8. CASE ~Waits(c) /\ Waits(c)'
          BY <5>3, <5>5, <5>6, <5>8, <3>4, <1>1
        <5>9. CASE ~Waits(c) /\ ~(Waits(c)')
          BY <5>5, <5>6, <5>9, <3>4, <3>5, <1>1
        <5> QED
          BY <5>7, <5>8, <5>9
      <4> QED
        BY <4>1, <4>2
    <3> QED
      BY <3>2, <3>3, <3>6, <2>1
  <2>3. flags.thr \in SUBSET Configured /\ Dues \in DueKind /\ Dues' \in DueKind
    BY <1>1 DEF Kinds, AgeKind
  <2>4. /\ Timely(flags.thr, Dues) => Timely(flags.thr, Dues')
        /\ Clear(flags.thr, Dues) => Clear(flags.thr, Dues')
        /\ Recent(Dues) => Recent(Dues')
    BY <2>2, <2>3, Falls
  <2> QED
    BY <1>1, <1>2, <1>5, <2>4 DEF Schedule, Timely, Clear, Recent, Coming
<1> QED
  BY <1>1, <1>4, <1>5 DEF Kinds
-----------------------------------------------------------------------------
(***************************************************************************)
(* The handler.                                                            *)
(***************************************************************************)
LEMMA TakeTime ==
    ASSUME Keeps, TimeInv, TakeInterrupts
    PROVE  TimeInv'
<1>1. /\ Kinds /\ Sending /\ Handling /\ Passing /\ Schedule /\ AgeKind
      /\ Half \in Nat \ {0} /\ MaxLat \in Nat /\ clock \in Nat
  BY AgeKinds, SizesAssumption, LimitsAssumption DEF TimeInv, Kinds
<1>2. /\ isr = "idle" /\ Pending /\ isr' = "scan" /\ flags'.thr = thr /\ flags'.end = end
      /\ thr' = {} /\ end' = {} /\ clock' = 0
      /\ UNCHANGED <<on, at, lim, len, good, guard, complete, before>>
  BY DEF TakeInterrupts, stateVars
<1>3. flags.thr = {} /\ flags.end = {}
  BY <1>1, <1>2 DEF Kinds, Flagged
<1>4. Kinds'
  <2>1. Flagged' # {}
    BY <1>2 DEF Flagged, Pending
  <2> QED
    BY <1>1, <1>2, <2>1 DEF Kinds
<1>5. Sending' /\ Handling' /\ Passing'
  BY <1>1, <1>2 DEF Sending, Handling, Passing
<1>6. AgeKind'
  BY <1>4, AgeKindsNext
<1>7. PICK age \in DueKind : age = [c \in Configured |-> Age(c)]
  BY <1>1 DEF AgeKind, DueKind
<1>8. /\ \A c \in thr : age[c] >= 0
      /\ \A c \in Configured \ thr : age[c] < 0
  BY <1>1, <1>2, <1>3, <1>7 DEF AgeKind, Waits, Refilling, Kinds
<1>9. \A c \in Configured : Dues[c] = age[c] + (MaxLat - clock)
  BY <1>1, <1>2, <1>7 DEF AgeKind, Ahead
<1>10. \A c \in Configured : Dues'[c] = age[c] + (Cost * Cardinality(thr) + MaxLat)
  <2> TAKE c \in Configured
  <2>1. Dues'[c] = Age(c)' + Ahead'
    BY <1>6 DEF AgeKind
  <2>2. Age(c)' = Age(c)
    BY <1>2, <1>3 DEF Age, Waits, Refilling, Phase
  <2>3. Ahead' = Cost * Cardinality(thr) + MaxLat
    <3>1. PICK m \in Nat : m = Cost * Cardinality(thr)
      BY <1>1, Fewer DEF Kinds
    <3> QED
      BY <3>1, <1>1, <1>2 DEF Ahead
  <2> QED
    BY <2>1, <2>2, <2>3, <1>7
<1>11. clock \in 0 .. MaxLat
  BY <1>1, <1>2 DEF Handling
<1>12. Timely({}, Dues) \/ Recent(Dues)
  BY <1>1, <1>2, <1>3 DEF Schedule
<1>13. thr \in SUBSET Configured /\ Dues \in DueKind /\ Dues' \in DueKind
  BY <1>1, <1>6 DEF AgeKind, Kinds
<1>14. Timely(thr, Dues') \/ Clear(thr, Dues')
  BY <1>8, <1>9, <1>10, <1>11, <1>12, <1>13, Takes
<1>15. Schedule'
  BY <1>2, <1>14 DEF Schedule, Timely, Clear, Coming
<1> QED
  BY <1>4, <1>5, <1>15 DEF TimeInv

LEMMA BeginIs ==
    ASSUME Kinds, RefillBegin
    PROVE  Current \in Configured /\ Current \in Channels /\ Current \in flags.thr /\ ~complete[Current]
  BY CurrentIs, ConfiguredIs DEF RefillBegin, Ended, Flagged, Kinds

LEMMA BeginTime ==
    ASSUME Keeps, TimeInv, RefillBegin
    PROVE  TimeInv'
<1>1. /\ Kinds /\ Sending /\ Handling /\ Schedule /\ AgeKind
      /\ Half \in Nat \ {0} /\ MaxLat \in Nat /\ Cost \in Nat
      /\ Current \in Configured /\ Current \in Channels /\ Current \in flags.thr /\ ~complete[Current]
  BY AgeKinds, BeginIs, SizesAssumption, LimitsAssumption DEF TimeInv
<1>2. /\ isr = "scan" /\ isr' = "refill" /\ before' = at[Current] /\ clock' = 0
      /\ lim' = [lim EXCEPT ![Current] = ((at[Current] \div Half) + 1) * Half]
      /\ UNCHANGED <<on, at, thr, end, flags, len, good, guard, complete>>
      /\ Current' = Current /\ Flagged' = Flagged
  BY DEF RefillBegin, stateVars, Current, Flagged
<1>3. ((at[Current] \div Half) + 1) * Half \in Nat /\ (((at[Current] \div Half) + 1) * Half) % Half = 0
  <2>1. PICK q \in Nat : q = at[Current] \div Half
    BY <1>1 DEF Kinds
  <2>2. PICK k \in Nat : k = q + 1
    OBVIOUS
  <2>3. PICK R \in Nat \ {0} : R = Half
    BY <1>1
  <2>4. k * R \in Nat /\ k * R = R * k + 0
    OBVIOUS
  <2>5. (R * k + 0) % R = 0
    BY ModIs
  <2> QED
    BY <2>1, <2>2, <2>3, <2>4, <2>5
<1>4. Kinds'
  <2>1. lim' \in [Channels -> Nat] /\ before' \in Nat
    BY <1>1, <1>2, <1>3 DEF Kinds
  <2> QED
    BY <1>1, <1>2, <2>1 DEF Kinds
<1>5. Sending'
  <2>1. \A c \in Channels : lim'[c] % Half = 0
    BY <1>1, <1>2, <1>3 DEF Sending, Kinds
  <2> QED
    BY <1>1, <1>2, <2>1 DEF Sending
<1>6. Current \notin thr
  BY <1>1, <1>2 DEF Handling, Refilling
<1>7. Handling'
  BY <1>1, <1>2 DEF Handling, Refilling
<1>8. Phase(Current) = (at[Current] % Half) + 0 /\ Phase(Current) \in 0 .. Half - 1
  BY <1>1 DEF Phase, AgeKind
<1>9. Passing'
  <2> SUFFICES
        LET b == (before' % Half) + clock'
        IN  /\ on'[Current'] => at'[Current'] % Half = b \/ (b = Half /\ at'[Current'] % Half = 0)
            /\ at'[Current'] % Half <= b
            /\ Current' \in thr' => b = Half /\ at'[Current'] % Half = 0
    BY DEF Passing, Phase
  <2>1. PICK f \in Int : f = at[Current] % Half /\ f + 0 = f
    BY <1>8 DEF Phase
  <2> QED
    BY <1>2, <1>6, <2>1
<1>10. AgeKind'
  BY <1>4, AgeKindsNext
<1>11. ASSUME NEW c \in Configured PROVE Dues'[c] <= Dues[c]
  <2>1. Dues'[c] = Age(c)' + Ahead' /\ Dues[c] = Age(c) + Ahead /\ Dues[c] \in Int
    BY <1>1, <1>10 DEF AgeKind, DueKind
  <2>2. Ahead' = Ahead
    BY <1>1, <1>2 DEF Ahead
  <2>3. CASE c = Current
    <3>1. Age(c) = Phase(c) /\ Age(c)' = (at[c] % Half) + 0
      BY <1>1, <1>2, <2>3 DEF Age, Waits, Refilling
    <3> QED
      BY <2>1, <2>2, <2>3, <3>1, <1>8
  <2>4. CASE c # Current
    <3>1. Age(c)' = Age(c)
      BY <1>2, <2>4 DEF Age, Waits, Refilling, Phase
    <3> QED
      BY <2>1, <2>2, <3>1
  <2> QED
    BY <2>3, <2>4
<1>12. flags.thr \in SUBSET Configured /\ Dues \in DueKind /\ Dues' \in DueKind
  BY <1>1, <1>10 DEF Kinds, AgeKind
<1>13. Timely(flags.thr, Dues') \/ Clear(flags.thr, Dues')
  BY <1>1, <1>2, <1>11, <1>12, Falls DEF Schedule
<1>14. Schedule'
  BY <1>2, <1>13 DEF Schedule, Timely, Clear, Coming
<1> QED
  BY <1>4, <1>5, <1>7, <1>9, <1>14 DEF TimeInv

\* One channel of the pass is done with.
LEMMA ServedTime ==
    ASSUME Keeps, TimeInv, Kinds', Sending', isr # "idle", Served(Current),
           UNCHANGED <<at, thr, end, before>>,
           isr = "refill" \/ Current \in flags.end \/ Current \in flags.thr
    PROVE  TimeInv'
<1>1. /\ Kinds /\ Sending /\ Handling /\ Passing /\ Schedule /\ AgeKind /\ AgeKind'
      /\ Half \in Nat \ {0} /\ MaxLat \in Nat /\ Cost \in Nat /\ clock \in Nat
  BY AgeKinds, AgeKindsNext, SizesAssumption, LimitsAssumption DEF TimeInv, Kinds
<1> DEFINE T == flags.thr
<1>2. PICK c : c = Current
  OBVIOUS
<1>3. /\ flags'.thr = T \ {c} /\ clock' = 0 /\ isr' \in {"idle", "scan"}
      /\ isr' = "idle" => flags'.thr = {}
  BY <1>2 DEF Served, Rest
<1>4. \A d : Refilling(d) => isr = "refill" /\ d = c
  BY <1>2 DEF Refilling
<1>5. \A d : ~(Refilling(d)')
  BY <1>3 DEF Refilling
<1>6. Handling' /\ Passing'
  <2>1. \A d \in thr' \cap flags'.thr : FALSE
    BY <1>1, <1>3, <1>4 DEF Handling
  <2> QED
    BY <1>1, <1>3, <2>1 DEF Handling, Passing
<1>7. PICK m \in Nat : m = Cost * Cardinality(T)
  BY <1>1 DEF AgeKind
<1>8. PICK n \in Nat : n = Cost * Cardinality(T \ {c})
  BY <1>1, Fewer DEF Kinds
<1>9. IF c \in T THEN n + Cost = m ELSE n = m
  <2>1. CASE c \in T
    BY <1>1, <1>7, <1>8, <2>1, Less DEF Kinds
  <2>2. CASE c \notin T
    <3>1. T \ {c} = T
      BY <2>2
    <3> QED
      BY <1>7, <1>8, <2>2, <3>1
  <2> QED
    BY <2>1, <2>2
<1>10. Ahead' = n + MaxLat
  <2>1. isr' = "idle" => n = 0
    <3>1. isr' = "idle" => Cardinality(T \ {c}) = 0
      BY <1>3, FS_EmptySet
    <3> QED
      BY <3>1, <1>8, <1>1
  <2>2. flags'.thr = T \ {c}
    BY <1>3
  <2> QED
    BY <1>1, <1>3, <1>8, <2>1, <2>2 DEF Ahead
<1>11. PICK h \in Int : h = Ahead /\ h = m - (IF isr = "refill" THEN clock ELSE 0) + MaxLat
  BY <1>1, <1>7 DEF Ahead
<1>12. n + MaxLat <= h
  BY <1>1, <1>2, <1>7, <1>8, <1>9, <1>11 DEF Handling
<1>13. ASSUME NEW d \in Configured
       PROVE  Dues'[d] <= Dues[d] /\ (d = c /\ c \in T => Dues'[d] <= Dues[d] - Half)
  <2>1. PICK a \in Int : a = Age(d) /\ Dues[d] = a + h
    BY <1>1, <1>11 DEF AgeKind
  <2>2. PICK b \in Int : b = Age(d)' /\ Dues'[d] = b + (n + MaxLat)
    BY <1>1, <1>10 DEF AgeKind
  <2>3. PICK f \in Int : f = Phase(d) /\ f = Phase(d)' /\ f >= 0 /\ f < Half
    BY <1>1, ConfiguredIs DEF AgeKind, Phase
  <2>4. b = IF d \in thr \cup (T \ {c}) THEN f ELSE f - Half
    BY <1>3, <1>5, <2>2, <2>3 DEF Age, Waits
  <2>5. CASE d # c \/ c \notin T
    <3>1. isr = "refill" => c \in T
      BY <1>1, <1>2 DEF Handling
    <3>2. a = IF d \in thr \cup T THEN f ELSE f - Half
      BY <1>4, <2>1, <2>3, <2>5, <3>1 DEF Age, Waits
    <3>3. a = b
      BY <2>4, <2>5, <3>2
    <3> QED
      BY <2>1, <2>2, <2>5, <3>3, <1>1, <1>8, <1>12
  <2>6. CASE d = c /\ c \in T /\ isr # "refill"
    <3>1. c \notin thr
      BY <1>1, <1>4, <2>6 DEF Handling
    <3>2. a = f /\ b = f - Half
      BY <1>4, <2>1, <2>3, <2>4, <2>6, <3>1 DEF Age, Waits
    <3> QED
      BY <2>1, <2>2, <2>3, <2>6, <3>2, <1>1, <1>8, <1>12
  <2>7. CASE d = c /\ c \in T /\ isr = "refill"
    <3>1. a = (before % Half) + clock
      BY <1>2, <2>1, <2>7 DEF Age, Refilling
    <3>2. f <= a /\ (c \in thr => a = Half /\ f = 0)
      BY <1>1, <1>2, <2>3, <2>7, <3>1 DEF Passing
    <3>3. b = IF c \in thr THEN f ELSE f - Half
      BY <2>4, <2>7
    <3>4. b <= a - Half
      BY <3>2, <3>3, <2>1, <2>3, <1>1
    <3> QED
      BY <3>4, <2>1, <2>2, <1>1, <1>8, <1>12
  <2> QED
    BY <2>5, <2>6, <2>7
<1>14. T \in SUBSET Configured /\ Dues \in DueKind /\ Dues' \in DueKind
  BY <1>1 DEF Kinds, AgeKind
<1>15. PICK due \in DueKind, new \in DueKind : due = Dues /\ new = Dues'
  BY <1>14
<1>16. /\ \A d \in Configured : new[d] <= due[d]
       /\ c \in T => new[c] <= due[c] - Half
  BY <1>13, <1>14, <1>15
<1>17. Timely(T \ {c}, new) \/ Clear(T \ {c}, new)
  <2>1. Timely(T, due) \/ Clear(T, due)
    BY <1>1, <1>15 DEF Schedule
  <2> HIDE DEF T
  <2> QED
    BY <2>1, <1>14, <1>16, Serves
<1>18. Schedule'
  <2>1. CASE isr' = "scan"
    BY <2>1, <1>3, <1>15, <1>17 DEF Schedule, Timely, Clear, Coming
  <2>2. CASE isr' = "idle"
    <3>1. T \ {c} = {}
      BY <1>3, <2>2
    <3>2. Timely({}, new) \/ Recent(new)
      <4>1. Clear({}, new) => Recent(new)
        BY <1>1 DEF Clear, Recent, DueKind
      <4> QED
        BY <4>1, <1>17, <3>1
    <3> QED
      BY <2>2, <1>3, <1>15, <3>2 DEF Schedule, Timely, Recent, Coming
  <2> QED
    BY <1>3, <2>1, <2>2
<1> QED
  BY <1>6, <1>18 DEF TimeInv
\* What a handler's step changes.
LEMMA CallsTime ==
    ASSUME Keeps, TimeInv, Finish \/ SkipComplete \/ RefillEnd
    PROVE  TimeInv'
<1>1. /\ Kinds /\ Sending /\ Handling
      /\ isr # "idle" /\ Current \in Channels /\ Current \in Flagged /\ Half \in Nat
  BY CurrentIs, SizesAssumption DEF TimeInv, Finish, SkipComplete, RefillEnd
<1>2. /\ Served(Current) /\ UNCHANGED <<on, at, lim, thr, end, len, before>>
      /\ isr = "refill" \/ Current \in flags.end \/ Current \in flags.thr
  BY <1>1 DEF Finish, SkipComplete, RefillEnd, wireVars, stateVars, Ended, Flagged
<1>3. /\ flags'.thr \subseteq flags.thr /\ flags'.end \subseteq flags.end
      /\ isr' \in {"idle", "scan"} /\ (isr' = "idle" <=> Flagged' = {}) /\ clock' = 0
  BY <1>2 DEF Served, Rest, Flagged
<1>4. /\ complete' \in [Channels -> BOOLEAN] /\ good' \in [Channels -> Nat] /\ guard' \in [Channels -> Nat]
      /\ \A c \in Channels : on[c] => complete'[c] = complete[c] /\ good'[c] >= good[c]
  <2>1. CASE Finish
    <3>1. ~on[Current]
      BY <1>1, <2>1 DEF Finish, Ended, Sending
    <3>2. complete' = [complete EXCEPT ![Current] = TRUE] /\ good' = good /\ guard' = guard
      BY <2>1 DEF Finish
    <3>3. complete' \in [Channels -> BOOLEAN] /\ \A c \in Channels : on[c] => complete'[c] = complete[c]
      BY <1>1, <3>1, <3>2 DEF Kinds
    <3>4. \A c \in Channels : good[c] >= good[c]
      BY <1>1 DEF Kinds
    <3> QED
      BY <1>1, <3>2, <3>3, <3>4 DEF Kinds
  <2>2. CASE SkipComplete
    BY <1>1, <2>2 DEF SkipComplete, stateVars, Kinds
  <2>3. CASE RefillEnd
    <3>1. /\ complete' = complete
          /\ good' = [good EXCEPT ![Current] = @ + Half]
          /\ guard' = [guard EXCEPT ![Current] = IF before % Half = 0 THEN 0
                                                 ELSE ((before \div Half) + 2) * Half]
      BY <2>3 DEF RefillEnd
    <3>2. ((before \div Half) + 2) * Half \in Nat
      <4>1. PICK q \in Nat : q = before \div Half
        BY SizesAssumption, <1>1 DEF Kinds
      <4>2. (q + 2) * Half \in Nat
        BY <1>1
      <4> QED
        BY <4>1, <4>2
    <3> QED
      BY <1>1, <3>1, <3>2 DEF Kinds
  <2> QED
    BY <2>1, <2>2, <2>3
<1>5. Kinds'
  BY <1>1, <1>2, <1>3, <1>4 DEF Kinds
<1>6. Sending'
  <2>1. \A c \in Channels : on[c] => good'[c] >= Ram
    <3> TAKE c \in Channels
    <3>1. on[c] => good[c] >= Ram /\ good'[c] >= good[c]
      BY <1>1, <1>4 DEF Sending
    <3>2. good[c] \in Nat /\ good'[c] \in Nat /\ Ram \in Nat
      BY <1>1, <1>4 DEF Kinds, Ram
    <3> QED
      BY <3>1, <3>2
  <2> QED
    BY <1>1, <1>2, <1>3, <1>4, <2>1 DEF Sending
<1> QED
  BY <1>1, <1>2, <1>5, <1>6, ServedTime

-----------------------------------------------------------------------------
(***************************************************************************)
(* The thread, and a lost cause: no channel is due later for them.         *)
(***************************************************************************)
LEMMA EarlierTime ==
    ASSUME Keeps, TimeInv, Kinds',
           isr' = isr, flags' = flags, before' = before, clock' = clock, thr' \subseteq thr,
           \A c \in Configured :
              \/ at'[c] = at[c]
              \/ isr = "idle" /\ at'[c] = 0 /\ c \notin thr',
           isr = "idle" /\ Pending' => Pending
    PROVE  Schedule'
<1>1. /\ Kinds /\ Schedule /\ AgeKind /\ AgeKind' /\ Half \in Nat \ {0} /\ Current' = Current
  BY AgeKinds, AgeKindsNext, SizesAssumption DEF TimeInv, Current, Flagged
<1>2. ASSUME NEW c \in Configured PROVE Dues'[c] <= Dues[c]
  <2>1. PICK h \in Int : h = Ahead /\ h = Ahead'
    BY <1>1 DEF AgeKind, Ahead
  <2>2. PICK a \in Int : a = Age(c) /\ Dues[c] = a + h
    BY <1>1, <2>1 DEF AgeKind
  <2>3. PICK b \in Int : b = Age(c)' /\ Dues'[c] = b + h
    BY <1>1, <2>1 DEF AgeKind
  <2>4. PICK f \in Int, g \in Int : f = Phase(c) /\ g = Phase(c)' /\ f >= 0 /\ f < Half /\ g >= 0
    BY <1>1, ConfiguredIs DEF AgeKind
  <2>5. b <= a
    <3>1. CASE isr = "refill" /\ c = Current
      BY <1>1, <3>1, <2>2, <2>3 DEF Age, Refilling
    <3>2. CASE ~(isr = "refill" /\ c = Current)
      <4>1. a = IF c \in thr \cup flags.thr THEN f ELSE f - Half
        BY <3>2, <2>2, <2>4 DEF Age, Refilling, Waits
      <4>2. b = IF c \in thr' \cup flags.thr THEN g ELSE g - Half
        BY <1>1, <3>2, <2>3, <2>4 DEF Age, Refilling, Waits
      <4>3. CASE at'[c] = at[c]
        <5>1. f = g
          BY <2>4, <4>3 DEF Phase
        <5> QED
          BY <4>1, <4>2, <5>1, <2>4, <1>1
      <4>4. CASE isr = "idle" /\ at'[c] = 0 /\ c \notin thr'
        <5>1. flags.thr = {} /\ g = 0
          BY <1>1, <2>4, <4>4, DivMod DEF Kinds, Flagged, Phase
        <5> QED
          BY <4>1, <4>2, <4>4, <5>1, <2>4, <1>1
      <4> QED
        BY <4>3, <4>4
    <3> QED
      BY <3>1, <3>2
  <2> QED
    BY <2>1, <2>2, <2>3, <2>5
<1>3. flags.thr \in SUBSET Configured /\ Dues \in DueKind /\ Dues' \in DueKind
  BY <1>1 DEF Kinds, AgeKind
<1>4. /\ Timely(flags.thr, Dues) => Timely(flags.thr, Dues')
      /\ Clear(flags.thr, Dues) => Clear(flags.thr, Dues')
      /\ Recent(Dues) => Recent(Dues')
  BY <1>2, <1>3, Falls
<1> QED
  BY <1>1, <1>4 DEF Schedule, Timely, Clear, Recent, Coming

LEMMA LoseTime ==
    ASSUME Keeps, TimeInv, NEW c \in Channels, LoseThreshold(c)
    PROVE  TimeInv'
<1>1. /\ thr' = thr \ {c}
      /\ UNCHANGED <<on, at, lim, end, len, good, guard, complete, isr, flags, before, clock>>
      /\ Current' = Current /\ Flagged' = Flagged
  BY DEF LoseThreshold, stateVars, isrVars, Current, Flagged
<1>2. Kinds /\ Sending /\ Handling /\ Passing
  BY DEF TimeInv
<1>3. Kinds' /\ Sending' /\ Handling'
  BY <1>1, <1>2 DEF Kinds, Sending, Handling, Refilling, Pending
<1>4. Passing'
  BY <1>1, <1>2 DEF Passing, Phase
<1>5. Schedule'
  BY <1>1, <1>3, EarlierTime DEF Pending
<1> QED
  BY <1>3, <1>4, <1>5 DEF TimeInv

LEMMA StartTime ==
    ASSUME Keeps, TimeInv, NEW c, NEW words \in Lens, NEW who, isr = "idle",
           MayStart(c), StartFrame(c, words, who), UNCHANGED isrVars
    PROVE  TimeInv'
<1>1. /\ on' = [on EXCEPT ![c] = TRUE] /\ at' = [at EXCEPT ![c] = 0]
      /\ lim' = [lim EXCEPT ![c] = Half] /\ thr' = thr \ {c} /\ end' = end \ {c}
      /\ len' = [len EXCEPT ![c] = words] /\ good' = [good EXCEPT ![c] = Ram]
      /\ guard' = [guard EXCEPT ![c] = 0] /\ complete' = [complete EXCEPT ![c] = FALSE]
      /\ UNCHANGED <<isr, flags, before, clock>>
      /\ c \in Channels /\ c \in Configured
  BY DEF StartFrame, MayStart, isrVars
<1>2. /\ Kinds /\ Sending /\ Handling /\ Passing /\ Half \in Nat \ {0} /\ words \in Nat /\ Ram \in Nat
  BY SizesAssumption DEF TimeInv, Ram
<1>3. flags.thr = {} /\ flags.end = {} /\ Flagged' = Flagged
  BY <1>1, <1>2 DEF Kinds, Flagged
<1>4. Kinds'
  BY <1>1, <1>2, <1>3 DEF Kinds
<1>5. Sending'
  <2>1. Half % Half = 0
    <3>1. PICK R \in Nat \ {0} : R = Half
      BY <1>2
    <3>2. R % R = 0
      OBVIOUS
    <3> QED
      BY <3>1, <3>2
  <2>2. \A d \in Channels : lim'[d] % Half = 0
    BY <1>1, <1>2, <2>1 DEF Sending, Kinds
  <2>3. \A d \in Channels : on'[d] => d \in Configured /\ ~complete'[d] /\ good'[d] >= Ram
    BY <1>1, <1>2 DEF Sending, Kinds
  <2>4. \A d \in end' \cup flags'.end : ~on'[d]
    BY <1>1, <1>2, <1>3 DEF Sending, Kinds
  <2> QED
    BY <2>2, <2>3, <2>4 DEF Sending
<1>6. Handling' /\ Passing'
  BY <1>1, <1>2, <1>3 DEF Handling, Passing, Pending
<1>7. Schedule'
  <2>1. \A d \in Configured : \/ at'[d] = at[d]
                              \/ isr = "idle" /\ at'[d] = 0 /\ d \notin thr'
    BY <1>1, <1>2, ConfiguredIs DEF Kinds
  <2> QED
    BY <1>1, <1>4, <2>1, EarlierTime DEF Pending
<1> QED
  BY <1>4, <1>5, <1>6, <1>7 DEF TimeInv

LEMMA AbortTime ==
    ASSUME Keeps, TimeInv, NEW c \in Channels, AbortNext(c)
    PROVE  TimeInv'
<1>1. /\ on' = [on EXCEPT ![c] = FALSE] /\ complete' = [complete EXCEPT ![c] = TRUE]
      /\ UNCHANGED <<at, lim, thr, end, len, good, guard, isr, flags, before, clock>>
      /\ Current' = Current /\ Flagged' = Flagged /\ Pending' = Pending /\ isr = "idle"
  BY DEF AbortNext, isrVars, Current, Flagged, Pending, ThreadRuns
<1>2. Kinds /\ Sending /\ Handling
  BY DEF TimeInv
<1>3. Kinds' /\ Sending' /\ Handling' /\ Passing'
  BY <1>1, <1>2 DEF Kinds, Sending, Handling, Passing, Refilling
<1>4. Schedule'
  BY <1>1, <1>3, EarlierTime
<1> QED
  BY <1>3, <1>4 DEF TimeInv
-----------------------------------------------------------------------------
(***************************************************************************)
(* The frames.                                                             *)
(***************************************************************************)
\* A channel that a step passes over.
LEMMA SameTrack ==
    ASSUME NEW c, OnTrack(c),
           on'[c] => on[c], at'[c] = at[c], lim'[c] = lim[c], len'[c] = len[c],
           good'[c] = good[c], guard'[c] = guard[c],
           Refilling(c)' <=> Refilling(c), Waits(c)' <=> Waits(c),
           Refilling(c) => /\ (c \in thr' <=> c \in thr) /\ before' = before
                           /\ on'[c] => clock' = clock
    PROVE  OnTrack(c)'
<1>1. Phase(c)' = Phase(c) /\ (c \in thr => Waits(c)) /\ (c \in thr' => Waits(c)')
  BY DEF Phase, Waits
<1>2. CASE Refilling(c)
  BY <1>1, <1>2 DEF OnTrack
<1>3. CASE ~Refilling(c)
  BY <1>1, <1>3 DEF OnTrack
<1> QED
  BY <1>2, <1>3

\* A frame on its track neither stops short nor starts again.
LEMMA TickTrack ==
    ASSUME Keeps, TimeInv, Tick, NEW c \in Channels, on[c], OnTrack(c)
    PROVE  /\ Stops(c) => at[c] = len[c]
           /\ ~Stops(c) => ~Replays(c)
           /\ OnTrack(c)'
<1>1. /\ Kinds /\ Sending /\ Handling /\ AgeKind /\ Moved(c) /\ Half \in Nat \ {0} /\ Ram = 2 * Half
      /\ Waits(c) /\ ~Refilling(c) => Phase(c) + 1 < Half
      /\ Refilling(c) => c \notin thr
  BY AgeKinds, TickMoves, Headroom, SizesAssumption DEF TimeInv, Tick, Ram, Refilling
<1>2. /\ UNCHANGED <<lim, len, good, guard, isr, flags, before>>
      /\ (Refilling(c)' <=> Refilling(c)) /\ (Refilling(c) => clock' = clock + 1)
  BY DEF Tick, stateVars, Refilling, Current, Flagged
<1>3. PICK a \in Nat, l \in Nat, g \in Nat, n \in Nat, u \in Nat, f \in Nat :
         /\ a = at[c] /\ l = lim[c] /\ g = good[c] /\ n = len[c] /\ u = guard[c] /\ f = Phase(c) /\ f < Half
  <2>1. at[c] \in Nat /\ lim[c] \in Nat /\ good[c] \in Nat /\ len[c] \in Nat /\ guard[c] \in Nat
    BY <1>1 DEF Kinds
  <2>2. Phase(c) \in Nat /\ Phase(c) < Half
    BY <1>1 DEF AgeKind
  <2> QED
    BY <2>1, <2>2
<1>4. PICK w \in Nat : w = IF Refilling(c) THEN l ELSE l + Half
  BY <1>1
<1>5. g = w /\ a <= n /\ (u = 0 \/ u >= w)
  BY <1>3, <1>4 DEF OnTrack
<1>6. IF ~Refilling(c) /\ Waits(c) THEN a = l + f ELSE l - Half <= a /\ a < l
  BY <1>1, <1>3 DEF OnTrack, Waits
<1>7. a < w
  BY <1>1, <1>3, <1>4, <1>6
<1>8. Stops(c) => a = n
  BY <1>3, <1>5, <1>7 DEF Stops
<1>9. ~Stops(c) => a < n /\ ~Replays(c)
  BY <1>3, <1>5, <1>7 DEF Stops, Replays
<1>10. CASE Stops(c)
  <2>1. ~on'[c] /\ at'[c] = at[c] /\ (c \in thr' <=> c \in thr)
    BY <1>1, <1>10 DEF Moved, Moves
  <2>2. (Waits(c)' <=> Waits(c)) /\ Phase(c)' = Phase(c)
    BY <1>2, <2>1 DEF Waits, Phase
  <2>3. /\ lim'[c] = lim[c] /\ len'[c] = len[c] /\ good'[c] = good[c] /\ guard'[c] = guard[c]
        /\ before' = before /\ (Refilling(c)' <=> Refilling(c))
    BY ONLY <1>2
  <2>4. OnTrack(c)
    OBVIOUS
  <2>5. OnTrack(c)'
    BY ONLY <2>1, <2>2, <2>3, <2>4, SameTrack
  <2> QED
    BY <1>3, <1>8, <1>9, <2>5
<1>11. CASE ~Stops(c)
  <2>1. /\ on'[c] /\ at'[c] = a + 1 /\ a + 1 <= n
        /\ at'[c] % Half = IF f + 1 = Half THEN 0 ELSE f + 1
        /\ c \in thr' <=> c \in thr \/ (a + 1) % Ram = l % Ram
        /\ c \in thr' \ thr => at'[c] % Half = 0
    BY <1>1, <1>3, <1>9, <1>11 DEF Moved, Moves, NextAt
  <2>2. Waits(c)' <=> c \in thr' \cup flags.thr
    BY <1>2 DEF Waits
  <2>3. l - Half <= a /\ a < l => ((a + 1) % Ram = l % Ram <=> a + 1 = l)
    <3> SUFFICES ASSUME l - Half <= a, a < l PROVE (a + 1) % Ram = l % Ram <=> a + 1 = l
      OBVIOUS
    <3>1. PICK b \in Int : b = a + 1 /\ l - Half < b /\ b <= l
      BY <1>1
    <3>2. (b % (2 * Half)) = (l % (2 * Half)) <=> b = l
      <4>1. Half \in Nat \ {0} /\ l \in Int /\ l - Half < b /\ b <= l
        BY <3>1, <1>1
      <4> QED
        BY <4>1, Reaches
    <3> QED
      BY <3>1, <3>2, <1>1
  <2>4. /\ g = w
        /\ a + 1 <= n
        /\ u = 0 \/ u >= w
    BY <1>5, <2>1
  <2>5. CASE ~Refilling(c) /\ Waits(c)
    <3>1. Waits(c)' /\ Phase(c)' = f + 1 /\ a + 1 = l + (f + 1)
      BY <1>1, <1>3, <1>6, <2>1, <2>2, <2>5 DEF Waits, Phase
    <3> QED
      BY <1>2, <1>3, <1>4, <1>9, <1>11, <2>1, <2>4, <2>5, <3>1 DEF OnTrack
  <2>6. CASE ~Refilling(c) /\ ~Waits(c)
    <3>1. (Waits(c)' <=> a + 1 = l) /\ (c \in thr' <=> a + 1 = l)
      BY <1>6, <2>1, <2>2, <2>3, <2>6 DEF Waits
    <3>2. Waits(c)' => Phase(c)' = 0
      BY <2>1, <2>2, <2>6 DEF Waits, Phase
    <3>3. a + 1 # l => l - Half <= a + 1 /\ a + 1 < l
      BY <1>1, <1>6, <2>6
    <3>4. l = l + 0
      OBVIOUS
    <3>5. CASE a + 1 = l
      BY <1>2, <1>3, <1>4, <1>9, <1>11, <2>1, <2>4, <2>6, <3>1, <3>2, <3>4, <3>5 DEF OnTrack
    <3>6. CASE a + 1 # l
      BY <1>2, <1>3, <1>4, <1>9, <1>11, <2>1, <2>4, <2>6, <3>1, <3>3, <3>6 DEF OnTrack
    <3> QED
      BY <3>5, <3>6
  <2>7. CASE Refilling(c)
    <3>1. IF c \in thr' THEN a + 1 = l ELSE l - Half <= a + 1 /\ a + 1 < l
      BY <1>1, <1>6, <2>1, <2>3, <2>7
    <3>2. PICK r \in Int : r = before % Half
      <4>1. (before % Half) \in Int
        BY <1>1, DivMod DEF Kinds
      <4> QED
        BY <4>1
    <3>3. PICK p \in Int, k \in Int : p = before /\ k = clock
      BY <1>1 DEF Kinds
    <3>4. p = l - Half + r /\ a = p + k
      BY <1>3, <2>7, <3>2, <3>3 DEF OnTrack
    <3>5. a + 1 = p + (k + 1)
      BY <3>3, <3>4
    <3>6. clock' = k + 1 /\ before' = p /\ before' % Half = r
      BY <1>2, <2>7, <3>2, <3>3
    <3> QED
      BY <1>2, <1>3, <1>4, <1>9, <1>11, <2>1, <2>4, <2>7, <3>1, <3>4, <3>5, <3>6 DEF OnTrack
  <2> QED
    BY <2>5, <2>6, <2>7
<1> QED
  BY <1>3, <1>8, <1>9, <1>10, <1>11

LEMMA TickFrames ==
    ASSUME Keeps, IsoInv, Tick
    PROVE  Tracked' /\ Isolated'
<1>1. TimeInv /\ Tracked /\ Isolated /\ Kinds /\ Sending
  BY DEF IsoInv, TimeInv
<1>2. /\ UNCHANGED <<lim, len, good, guard, complete, isr, flags, before, missed>>
      /\ spoilt' = spoilt \cup {c \in Channels : on[c] /\ Stops(c) /\ at[c] # len[c]}
                          \cup {c \in Channels : on[c] /\ ~Stops(c) /\ Replays(c)}
  BY DEF Tick, stateVars
<1>3. \A c \in Channels : on[c] /\ c \notin missed =>
         /\ OnTrack(c)'
         /\ Stops(c) => at[c] = len[c]
         /\ ~Stops(c) => ~Replays(c)
  BY <1>1, TickTrack DEF Tracked, Sending
<1>4. ASSUME NEW c \in Channels, ~complete[c], c \notin missed PROVE OnTrack(c)'
  <2>1. CASE on[c]
    BY <1>3, <1>4, <2>1
  <2>2. CASE ~on[c]
    <3>1. ~on'[c] /\ at'[c] = at[c] /\ (c \in thr' <=> c \in thr)
      BY <1>1, <2>2, TickMoves DEF Moved, Moves
    <3>2. OnTrack(c)
      BY <1>1, <1>4 DEF Tracked
    <3>3. (Waits(c)' <=> Waits(c)) /\ (Refilling(c)' <=> Refilling(c))
      BY <1>2, <3>1 DEF Waits, Refilling, Current, Flagged
    <3> QED
      BY <1>2, <2>2, <3>1, <3>2, <3>3, SameTrack
  <2> QED
    BY <2>1, <2>2
<1>5. Tracked'
  BY <1>2, <1>4 DEF Tracked
<1>6. Isolated'
  BY <1>1, <1>2, <1>3 DEF Isolated
<1> QED
  BY <1>5, <1>6

LEMMA BeginFrames ==
    ASSUME Keeps, IsoInv, RefillBegin
    PROVE  Tracked' /\ Isolated'
<1>1. /\ TimeInv /\ Tracked /\ Isolated /\ Kinds /\ Sending /\ AgeKind
      /\ Current \in Channels /\ Current \in flags.thr /\ Half \in Nat \ {0}
  BY AgeKinds, BeginIs, SizesAssumption DEF IsoInv, TimeInv
<1>2. /\ isr = "scan" /\ isr' = "refill" /\ before' = at[Current] /\ clock' = 0
      /\ lim' = [lim EXCEPT ![Current] = ((at[Current] \div Half) + 1) * Half]
      /\ UNCHANGED <<on, at, thr, end, flags, len, good, guard, complete, missed, spoilt>>
      /\ Current' = Current
  BY DEF RefillBegin, stateVars, historyVars, Current, Flagged
<1>3. ASSUME NEW c \in Channels, ~complete[c], c \notin missed PROVE OnTrack(c)'
  <2>1. OnTrack(c) /\ ~Refilling(c)
    BY <1>1, <1>2, <1>3 DEF Tracked, Refilling
  <2>2. CASE c # Current
    <3>1. ~(Refilling(c)') /\ (Waits(c)' <=> Waits(c)) /\ lim'[c] = lim[c]
      BY <1>1, <1>2, <2>2 DEF Refilling, Waits, Kinds
    <3> QED
      BY <1>2, <2>1, <3>1, SameTrack
  <2>4. CASE c = Current
    <3>1. PICK a \in Nat, l \in Nat, f \in Nat :
             a = at[c] /\ l = lim[c] /\ f = Phase(c) /\ f < Half
      BY <1>1 DEF Kinds, AgeKind
    <3>0. Waits(c) /\ c \notin thr
      BY <1>1, <1>2, <2>1, <2>4 DEF Waits, TimeInv, Handling, Refilling
    <3>2. a = l + f
      BY <2>1, <3>0, <3>1 DEF OnTrack
    <3>3. a % Half = f /\ (a \div Half) * Half = l
      <4>1. l % Half = 0
        BY <1>1, <3>1 DEF Sending
      <4>2. Half \in Nat \ {0} /\ a \in Int /\ l \in Int /\ f \in Int /\ 0 <= f /\ f < Half
        BY <1>1, <3>1
      <4> QED
        BY <3>2, <4>1, <4>2, HalfEnd
    <3>4. lim'[c] = l + Half
      <4>1. PICK q \in Int : q = a \div Half
        BY <1>1, <3>1, DivMod
      <4>2. q * Half = l
        BY <3>3, <4>1
      <4>3. (q + 1) * Half = l + Half
        BY <4>1, <4>2, <1>1
      <4>4. lim'[c] = (q + 1) * Half
        BY <1>1, <1>2, <2>4, <3>1, <4>1 DEF Kinds
      <4> QED
        BY <4>3, <4>4
    <3>5. Refilling(c)' /\ before' = a /\ clock' = 0 /\ at'[c] = a /\ before' % Half = f
      BY <1>2, <2>4, <3>1, <3>3 DEF Refilling
    <3>6. /\ good[c] = l + Half
          /\ at[c] <= len[c]
          /\ on[c] => guard[c] = 0 \/ guard[c] >= l + Half
      BY <2>1, <3>0, <3>1 DEF OnTrack
    <3>7. PICK m \in Int : m = l + Half /\ m - Half <= a /\ a < m /\ a = m - Half + f /\ a = a + 0
      <4>1. PICK h \in Nat : h = Half /\ f < h
        BY <1>1, <3>1
      <4>2. PICK m \in Int : m = l + h /\ m - h <= a /\ a < m /\ a = m - h + f /\ a = a + 0
        BY <4>1, <3>2
      <4> QED
        BY <4>1, <4>2
    <3>8. /\ lim'[c] = m /\ len'[c] = len[c] /\ good'[c] = good[c] /\ guard'[c] = guard[c]
          /\ good[c] = m /\ at'[c] <= len[c] /\ (on[c] => guard[c] = 0 \/ guard[c] >= m)
      BY <1>2, <3>1, <3>4, <3>5, <3>6, <3>7
    <3> QED
      BY <1>2, <3>0, <3>5, <3>7, <3>8 DEF OnTrack
  <2> QED
    BY <2>2, <2>4
<1>4. Tracked'
  BY <1>2, <1>3 DEF Tracked
<1>5. Isolated'
  BY <1>1, <1>2 DEF Isolated
<1> QED
  BY <1>4, <1>5

\* What a refill writes, and where it leaves the guard, fit the frame.
LEMMA EndFrames ==
    ASSUME Keeps, IsoInv, RefillEnd
    PROVE  Tracked' /\ Isolated'
<1>1. /\ TimeInv /\ Tracked /\ Isolated /\ Kinds /\ Sending /\ Handling /\ Passing /\ AgeKind
      /\ Half \in Nat \ {0} /\ Current \in Channels /\ Current \in Flagged
  BY AgeKinds, CurrentIs, SizesAssumption DEF IsoInv, TimeInv, RefillEnd
<1>2. /\ isr = "refill" /\ isr' \in {"idle", "scan"} /\ flags'.thr = flags.thr \ {Current}
      /\ good' = [good EXCEPT ![Current] = @ + Half]
      /\ guard' = [guard EXCEPT ![Current] = IF before % Half = 0 THEN 0
                                             ELSE ((before \div Half) + 2) * Half]
      /\ spoilt' = IF good[Current] # ((before \div Half) + 1) * Half
                   THEN spoilt \cup {Current} ELSE spoilt
      /\ UNCHANGED <<on, at, lim, thr, end, len, complete, missed>>
  BY DEF RefillEnd, Served, Rest, wireVars
<1>3. \A c : ~(Refilling(c)')
  BY <1>2 DEF Refilling
<1>4. PICK c \in Channels : c = Current
  BY <1>1
<1>5. PICK a \in Nat, l \in Nat, g \in Nat, n \in Nat, p \in Nat, k \in Nat :
         a = at[c] /\ l = lim[c] /\ g = good[c] /\ n = len[c] /\ p = before /\ k = clock
  BY <1>1 DEF Kinds
<1>6. PICK q \in Int, r \in Int : q = before \div Half /\ r = before % Half /\ 0 <= r /\ r < Half
  <2>1. before \div Half \in Int /\ (before % Half) \in 0 .. Half - 1
    BY <1>1, <1>5, DivMod
  <2> QED
    BY <2>1, <1>1
<1>7. /\ good'[c] = g + Half
      /\ guard'[c] = IF r = 0 THEN 0 ELSE (q + 2) * Half
      /\ spoilt' = IF g # (q + 1) * Half THEN spoilt \cup {c} ELSE spoilt
      /\ Waits(c)' <=> c \in thr
      /\ Refilling(c)
  BY <1>1, <1>2, <1>4, <1>5, <1>6 DEF Kinds, Waits, Refilling
<1>8. ASSUME c \notin missed
      PROVE  g = (q + 1) * Half /\ OnTrack(c)'
  <2>1. OnTrack(c)
    BY <1>1, <1>2, <1>4, <1>8 DEF Tracked, Handling
  <2>2. Waits(c)
    BY <1>1, <1>2, <1>4 DEF Handling, Waits
  <2>3. g = (q + 1) * Half /\ OnTrack(c)'
    <3>1. /\ g = l
          /\ a <= n
          /\ IF c \in thr THEN a = l ELSE l - Half <= a /\ a < l
          /\ p = l - Half + r
      BY <1>5, <1>7, <1>6, <2>1, <2>2 DEF OnTrack
    <3>2. (q + 1) * Half = l /\ (q + 2) * Half = l + Half
      <4>1. PICK m \in Int, j \in Int : m = l - Half /\ j = 0 - 1 /\ m = l + Half * j
        BY <1>1
      <4>2. (l + Half * j) % Half = (l % Half)
        <5>1. Half \in Nat \ {0} /\ l \in Int /\ j \in Int
          BY <1>1
        <5> QED
          BY <5>1, ModShift
      <4>3. m % Half = 0
        <5>1. l % Half = 0
          BY <1>1, <1>5 DEF Sending
        <5> QED
          BY <4>1, <4>2, <5>1
      <4>4. p = m + r
        BY <3>1, <4>1
      <4>5. (p \div Half) * Half = m
        <5>1. Half \in Nat \ {0} /\ p \in Int /\ m \in Int /\ r \in Int /\ 0 <= r /\ r < Half
          BY <1>1, <1>6
        <5> QED
          BY <5>1, <4>3, <4>4, HalfEnd
      <4>6. q * Half = m
        BY <1>5, <1>6, <4>5
      <4> QED
        BY <4>1, <4>6, <1>1
    <3>3. /\ good'[c] = l + Half
          /\ guard'[c] = 0 \/ guard'[c] >= l + Half
      <4>1. l + Half >= l + Half
        BY <1>1
      <4> QED
        BY <1>5, <1>7, <3>1, <3>2, <4>1
    <3>4. Phase(c)' = Phase(c)
      BY <1>2 DEF Phase
    <3>5. CASE c \in thr
      <4>1. Phase(c) = 0
        BY <1>1, <1>2, <1>4, <1>5, <1>6, <3>5 DEF Passing
      <4>2. a = l + 0
        BY <3>1, <3>5
      <4>3. at'[c] = lim'[c] + Phase(c)' /\ at'[c] <= len'[c]
        BY <1>2, <1>5, <3>1, <3>4, <4>1, <4>2
      <4>4. /\ Waits(c)' /\ ~(Refilling(c)')
            /\ lim'[c] = l /\ len'[c] = n /\ l + Half \in Int
        BY <1>1, <1>2, <1>3, <1>5, <1>7, <3>5
      <4> QED
        BY <3>1, <3>2, <3>3, <4>3, <4>4 DEF OnTrack
    <3>6. CASE c \notin thr
      BY <1>2, <1>3, <1>5, <1>7, <3>1, <3>2, <3>3, <3>6 DEF OnTrack
    <3> QED
      BY <3>1, <3>2, <3>5, <3>6
  <2> QED
    BY <2>3
<1>9. ASSUME NEW d \in Channels, ~complete[d], d \notin missed, d # c PROVE OnTrack(d)'
  <2>1. OnTrack(d) /\ ~Refilling(d)
    BY <1>1, <1>4, <1>9 DEF Tracked, Refilling
  <2>2. (Waits(d)' <=> Waits(d)) /\ good'[d] = good[d] /\ guard'[d] = guard[d]
    BY <1>1, <1>2, <1>4, <1>9 DEF Waits, Kinds
  <2> QED
    BY <1>2, <1>3, <2>1, <2>2, SameTrack
<1>10. Tracked'
  BY <1>2, <1>8, <1>9 DEF Tracked
<1>11. Isolated'
  BY <1>1, <1>2, <1>7, <1>8 DEF Isolated
<1> QED
  BY <1>10, <1>11

\* The other steps of the handler, and those of the thread.
LEMMA PassFrames ==
    ASSUME IsoInv, TakeInterrupts \/ Finish \/ SkipComplete
    PROVE  Tracked' /\ Isolated'
<1>1. /\ Tracked /\ Isolated /\ Kinds /\ isr \in {"idle", "scan"} /\ isr' # "refill"
      /\ UNCHANGED <<on, at, lim, len, good, guard, missed, spoilt>>
  BY DEF IsoInv, TimeInv, TakeInterrupts, Finish, SkipComplete, Served, wireVars, stateVars, historyVars
<1>2. ASSUME NEW c \in Channels, ~complete'[c], c \notin missed PROVE OnTrack(c)'
  <2>1. ~complete[c] /\ (Waits(c)' <=> Waits(c))
    <3>1. CASE TakeInterrupts
      <4>1. isr = "idle" /\ complete' = complete /\ thr' = {} /\ flags'.thr = thr
        BY <3>1 DEF TakeInterrupts, stateVars
      <4>2. flags.thr = {}
        BY <1>1, <4>1 DEF Kinds, Flagged
      <4> QED
        BY <1>2, <4>1, <4>2 DEF Waits
    <3>2. CASE Finish
      <4>1. /\ complete' = [complete EXCEPT ![Current] = TRUE] /\ thr' = thr
            /\ flags'.thr = flags.thr \ {Current}
        BY <3>2 DEF Finish, Served, Rest, wireVars
      <4>2. c # Current /\ ~complete[c]
        BY <1>1, <1>2, <4>1 DEF Kinds
      <4> QED
        BY <4>1, <4>2 DEF Waits
    <3>3. CASE SkipComplete
      <4>1. /\ complete[Current] /\ complete' = complete /\ thr' = thr
            /\ flags'.thr = flags.thr \ {Current}
        BY <3>3 DEF SkipComplete, Served, Rest, wireVars, stateVars
      <4>2. c # Current
        BY <1>2, <4>1
      <4> QED
        BY <1>2, <4>1, <4>2 DEF Waits
    <3> QED
      BY <3>1, <3>2, <3>3
  <2>2. OnTrack(c) /\ ~Refilling(c) /\ ~(Refilling(c)')
    BY <1>1, <1>2, <2>1 DEF Tracked, Refilling
  <2> QED
    BY <1>1, <2>1, <2>2, SameTrack
<1> QED
  BY <1>1, <1>2 DEF Tracked, Isolated

LEMMA LoseFrames ==
    ASSUME IsoInv, NEW c \in Channels, LoseThreshold(c)
    PROVE  Tracked' /\ Isolated'
<1>1. /\ Tracked /\ Isolated /\ thr' = thr \ {c} /\ missed' = missed \cup {c}
      /\ UNCHANGED <<on, at, lim, len, good, guard, complete, spoilt, isr, flags, before, clock>>
      /\ Current' = Current
  BY DEF IsoInv, LoseThreshold, stateVars, isrVars, Current, Flagged
<1>2. ASSUME NEW d \in Channels, ~complete[d], d \notin missed', OnTrack(d) PROVE OnTrack(d)'
  <2>1. d # c /\ (Waits(d)' <=> Waits(d)) /\ (Refilling(d)' <=> Refilling(d)) /\ (d \in thr' <=> d \in thr)
    BY <1>1, <1>2 DEF Waits, Refilling
  <2> QED
    BY <1>1, <1>2, <2>1, SameTrack
<1> QED
  BY <1>1, <1>2 DEF Tracked, Isolated

LEMMA StartFrames ==
    ASSUME IsoInv, NEW c, NEW words \in Lens, NEW who, isr = "idle",
           MayStart(c), StartFrame(c, words, who), UNCHANGED isrVars
    PROVE  Tracked' /\ Isolated'
<1>1. /\ on' = [on EXCEPT ![c] = TRUE] /\ at' = [at EXCEPT ![c] = 0]
      /\ lim' = [lim EXCEPT ![c] = Half] /\ thr' = thr \ {c}
      /\ len' = [len EXCEPT ![c] = words] /\ good' = [good EXCEPT ![c] = Ram]
      /\ guard' = [guard EXCEPT ![c] = 0] /\ complete' = [complete EXCEPT ![c] = FALSE]
      /\ UNCHANGED <<isr, flags>> /\ spoilt' = spoilt \ {c} /\ missed' = missed \ {c}
      /\ c \in Channels
  BY DEF StartFrame, MayStart, isrVars
<1>2. /\ Tracked /\ Isolated /\ Kinds /\ Half \in Nat \ {0} /\ words \in Nat /\ Ram = Half + Half
      /\ Half - Half = 0
  BY SizesAssumption DEF IsoInv, TimeInv, Ram
<1>3. flags.thr = {} /\ \A d : ~Refilling(d) /\ ~(Refilling(d)')
  BY <1>1, <1>2 DEF Kinds, Flagged, Refilling
<1>4. OnTrack(c)'
  <2>1. /\ on'[c] /\ at'[c] = 0 /\ lim'[c] = Half /\ len'[c] = words /\ good'[c] = Half + Half
        /\ guard'[c] = 0 /\ ~(Waits(c)') /\ c \notin thr'
    BY <1>1, <1>2, <1>3 DEF Kinds, Waits
  <2>2. 0 <= words /\ 0 <= 0 /\ 0 < Half
    BY <1>2
  <2> QED
    BY <1>2, <1>3, <2>1, <2>2 DEF OnTrack
<1>5. ASSUME NEW d \in Channels, d # c, ~complete'[d], d \notin missed' PROVE OnTrack(d)'
  <2>1. /\ on'[d] = on[d] /\ at'[d] = at[d] /\ lim'[d] = lim[d] /\ len'[d] = len[d]
        /\ good'[d] = good[d] /\ guard'[d] = guard[d] /\ (Waits(d)' <=> Waits(d))
    BY <1>1, <1>2, <1>5 DEF Kinds, Waits
  <2>2. OnTrack(d)
    BY <1>1, <1>2, <1>5 DEF Tracked, Kinds
  <2> QED
    BY <1>3, <2>1, <2>2, SameTrack
<1> QED
  BY <1>1, <1>2, <1>4, <1>5 DEF Tracked, Isolated

LEMMA AbortFrames ==
    ASSUME IsoInv, NEW c \in Channels, AbortNext(c)
    PROVE  Tracked' /\ Isolated'
<1>1. /\ on' = [on EXCEPT ![c] = FALSE] /\ complete' = [complete EXCEPT ![c] = TRUE]
      /\ UNCHANGED <<at, lim, thr, end, len, good, guard, isr, flags, before, clock, missed, spoilt>>
      /\ Current' = Current
      /\ Tracked /\ Isolated /\ Kinds
  BY DEF IsoInv, TimeInv, AbortNext, isrVars, Current, Flagged
<1>2. ASSUME NEW d \in Channels, ~complete'[d], d \notin missed' PROVE OnTrack(d)'
  <2>1. d # c /\ ~complete[d] /\ on'[d] = on[d]
    BY <1>1, <1>2 DEF Kinds
  <2>2. OnTrack(d) /\ (Waits(d)' <=> Waits(d)) /\ (Refilling(d)' <=> Refilling(d))
    BY <1>1, <1>2, <2>1 DEF Tracked, Waits, Refilling
  <2> QED
    BY <1>1, <2>1, <2>2, SameTrack
<1> QED
  BY <1>1, <1>2 DEF Tracked, Isolated

-----------------------------------------------------------------------------
LEMMA IsoInit == Init => IsoInv
<1> SUFFICES ASSUME Init PROVE IsoInv
  OBVIOUS
<1>1. Half \in Nat \ {0} /\ Half % Half = 0
  <2>1. PICK R \in Nat \ {0} : R = Half
    BY SizesAssumption
  <2>2. R % R = 0
    OBVIOUS
  <2> QED
    BY <2>1, <2>2
<1>2. Kinds
  BY <1>1 DEF Init, Each, NoFlags, Kinds, Flagged
<1>3. Sending /\ Handling /\ Passing /\ Schedule
  BY <1>1 DEF Init, Each, NoFlags, Sending, Handling, Passing, Schedule, Pending
<1>4. Tracked /\ Isolated
  BY DEF Init, Each, Tracked, Isolated
<1> QED
  BY <1>2, <1>3, <1>4 DEF IsoInv, TimeInv

\* What IsoInv speaks of.
isoVars == <<wireVars, stateVars, isrVars, spoilt, missed>>

LEMMA IsoStays == IsoInv /\ UNCHANGED isoVars => IsoInv'
<1> SUFFICES ASSUME IsoInv, UNCHANGED isoVars PROVE IsoInv'
  OBVIOUS
<1>1. /\ UNCHANGED <<on, at, lim, thr, end, len, good, guard, complete, isr, flags, before, clock,
                     spoilt, missed>>
      /\ Current' = Current /\ Flagged' = Flagged /\ Pending' = Pending
  BY DEF isoVars, wireVars, stateVars, isrVars, Current, Flagged, Pending
<1>2. \A c : /\ Phase(c)' = Phase(c) /\ (Waits(c)' <=> Waits(c)) /\ (Refilling(c)' <=> Refilling(c))
             /\ (OnTrack(c)' <=> OnTrack(c)) /\ Age(c)' = Age(c)
  BY <1>1 DEF Phase, Waits, Refilling, OnTrack, Age
<1>3. Ahead' = Ahead
  BY <1>1 DEF Ahead
<1>4. Dues' = Dues
  BY <1>2, <1>3 DEF Dues
<1>5. Kinds' /\ Sending' /\ Handling' /\ Passing'
  BY <1>1, <1>2 DEF IsoInv, TimeInv, Kinds, Sending, Handling, Passing
<1>6. Schedule'
  BY <1>1, <1>4 DEF IsoInv, TimeInv, Schedule, Timely, Clear, Recent, Coming
<1>7. Tracked' /\ Isolated'
  BY <1>1, <1>2 DEF IsoInv, Tracked, Isolated
<1> QED
  BY <1>5, <1>6, <1>7 DEF IsoInv, TimeInv

LEMMA IsoNext == Keeps /\ IsoInv /\ [Next]_vars => IsoInv'
<1> SUFFICES ASSUME Keeps, IsoInv, [Next]_vars PROVE IsoInv'
  OBVIOUS
<1>1. TimeInv
  BY DEF IsoInv
<1>2. CASE Tick
  BY <1>1, <1>2, TickSending, TickHandling, TickSchedule, TickFrames DEF IsoInv, TimeInv
<1>3. CASE \E c \in Channels : LoseThreshold(c)
  BY <1>1, <1>3, LoseTime, LoseFrames DEF IsoInv
<1>4. CASE TakeInterrupts
  BY <1>1, <1>4, TakeTime, PassFrames DEF IsoInv
<1>5. CASE Finish \/ SkipComplete
  BY <1>1, <1>5, CallsTime, PassFrames DEF IsoInv
<1>6. CASE RefillBegin
  BY <1>1, <1>6, BeginTime, BeginFrames DEF IsoInv
<1>7. CASE RefillEnd
  BY <1>1, <1>7, CallsTime, EndFrames DEF IsoInv
<1>8. CASE \E c \in Channels, w \in Lens : StartOther(c, w)
  <2> PICK c \in Channels, w \in Lens : StartOther(c, w)
    BY <1>8
  <2>1. isr = "idle" /\ MayStart(c) /\ StartFrame(c, w, "other") /\ UNCHANGED isrVars
    BY DEF StartOther, ThreadRuns
  <2> QED
    BY <1>1, <2>1, StartTime, StartFrames DEF IsoInv
<1>9. CASE \E w \in Lens : StartNext(w)
  <2> PICK w \in Lens : StartNext(w)
    BY <1>9
  <2> PICK c : c = Head(list)
    OBVIOUS
  <2>1. isr = "idle" /\ MayStart(c) /\ StartFrame(c, w, "call") /\ UNCHANGED isrVars
    BY DEF StartNext, ThreadRuns
  <2> QED
    BY <1>1, <2>1, StartTime, StartFrames DEF IsoInv
<1>10. CASE \E c \in Channels : AbortNext(c)
  BY <1>1, <1>10, AbortTime, AbortFrames DEF IsoInv
<1>11. CASE (\E channels \in Lists : SendAll(channels)) \/ StartError \/ AllStarted \/ AllComplete
            \/ Unwind \/ Leave \/ UNCHANGED vars
  <2>1. UNCHANGED isoVars
    BY <1>11 DEF SendAll, StartError, AllStarted, AllComplete, Unwind, Leave, vars, historyVars, isoVars
  <2> QED
    BY <2>1, IsoStays
<1> QED
  BY <1>2, <1>3, <1>4, <1>5, <1>6, <1>7, <1>8, <1>9, <1>10, <1>11 DEF Next, Isr, InCall

(***************************************************************************)
(* Channels that share the interrupt line do not harm each other, as long  *)
(* as the handler keeps up with all of them (driver.rs, on_interrupt): a   *)
(* frame that lost no interrupt of its own goes out whole.                 *)
(***************************************************************************)
THEOREM ChannelsIsolated == Keeps /\ Spec => []Isolated
<1> SUFFICES ASSUME Keeps PROVE Spec => []Isolated
  OBVIOUS
<1>1. IsoInv => Isolated
  BY DEF IsoInv
<1>2. IsoInv /\ [Next]_vars => IsoInv'
  BY IsoNext
<1> QED
  BY <1>1, <1>2, IsoInit, PTL DEF Spec

=============================================================================
