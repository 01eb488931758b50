-------------------------- MODULE RmtChannelProofs --------------------------
(***************************************************************************)
(* What holds of a channel for every window size, frame length, latency    *)
(* and number of lost interrupts; then what reaches the wire, with         *)
(* interrupts in time, arbitrarily late or lost, and prompt or lost.       *)
(***************************************************************************)
EXTENDS RmtChannelProps, TLAPS

USE HalfAssumption
USE DEF Ram, Slots, First, Second, LATCH, STOP, BLANK

-----------------------------------------------------------------------------
(***************************************************************************)
(* Type correctness.                                                       *)
(***************************************************************************)

\* A running fill_half stays inside the half it fills.
InHalf(f) ==
    IF f.stage = "off" THEN f = NoFill
    ELSE f.end \in {Half, Ram} /\ f.word \in f.end - Half .. f.end

\* Each context runs fill_half only where its control says so.
FillInv ==
    /\ \A c \in Contexts : InHalf(fill[c])
    /\ isr # "fill" => fill["isr"].stage = "off"
    /\ fill["thread"].stage # "off" => pc \in {"first", "second"}

TypeInv == TypeOK /\ FillInv

\* The initial state is well typed.
LEMMA TypeInit == Init => TypeInv
<1> SUFFICES ASSUME Init PROVE TypeInv
  OBVIOUS
<1>1. FlagsOK
  BY DEF Init, FlagsOK, NoCause
<1>2. PeripheralOK
  <2>1. ram \in [Slots -> Word]
    BY DEF Init, Word
  <2>2. wire \in Seq(Word)
    BY DEF Init
  <2> QED
    BY <2>1, <2>2 DEF Init, PeripheralOK
<1>3. ChannelOK
  BY DEF Init, ChannelOK
<1>4. ControlOK
  <2>1. NoFill \in FillLocals
    BY DEF Init, NoFill, FillLocals
  <2> QED
    BY <2>1, BoundsAssumption DEF Init, ControlOK, Contexts
<1>5. FillInv
  BY DEF Init, FillInv, InHalf, NoFill, Contexts
<1> QED
  BY <1>1, <1>2, <1>3, <1>4, <1>5 DEF TypeInv, TypeOK

\* The word fill_half writes for a frame bit is a RAM word.
LEMMA DataWordType == \A b \in Nat : DataWord(b) \in Word
  BY DEF DataWord, Word

\* What a step of fill_half leaves in the window, the cursor and its own locals.
LEMMA FillStepType ==
    ASSUME NEW c \in Contexts, TypeInv, FillData(c) \/ FillSettle(c) \/ FillStop(c)
    PROVE  /\ ram' \in [Slots -> Word] /\ bitCursor' \in 0 .. totalBits
           /\ latchWritten' \in BOOLEAN
           /\ \E g \in FillLocals : InHalf(g) /\ fill' = [fill EXCEPT ![c] = g]
<1>1. /\ fill[c] \in FillLocals /\ InHalf(fill[c]) /\ totalBits \in Nat
      /\ ram \in [Slots -> Word] /\ bitCursor \in 0 .. totalBits
  BY DEF TypeInv, TypeOK, ControlOK, PeripheralOK, ChannelOK, FillInv
<1>2. latchWritten \in BOOLEAN
  BY DEF TypeInv, TypeOK, FlagsOK
<1>3. fill[c].stage # "off" => /\ fill[c].word \in 0 .. Ram /\ fill[c].end \in {Half, Ram}
                              /\ fill[c].word \in fill[c].end - Half .. fill[c].end
                              /\ fill[c].cur \in 0 .. totalBits
  BY <1>1 DEF FillLocals, InHalf
<1>4. NoFill \in FillLocals /\ InHalf(NoFill)
  BY <1>1 DEF NoFill, FillLocals, InHalf
<1>5. CASE FillData(c)
  <2> DEFINE g == [fill[c] EXCEPT !.word = fill[c].word + 1, !.cur = fill[c].cur + 1]
  <2>1. fill[c].stage = "data" /\ fill[c].word < fill[c].end /\ fill[c].cur < totalBits
    BY <1>5 DEF FillData, MoreData
  <2>2. /\ g.stage = "data" /\ g.end = fill[c].end
        /\ g.word = fill[c].word + 1 /\ g.cur = fill[c].cur + 1
    BY <1>1, <2>1 DEF FillLocals
  <2>3. InHalf(g)
    <3>1. g.end \in {Half, Ram} /\ g.word \in g.end - Half .. g.end
      BY <1>3, <2>1, <2>2
    <3>2. g.stage # "off"
      BY <2>2
    <3> HIDE DEF g
    <3> QED
      BY <3>1, <3>2 DEF InHalf
  <2>4. fill[c].word + 1 \in 0 .. Ram /\ fill[c].cur + 1 \in 0 .. totalBits
    <3>1. /\ fill[c].word \in 0 .. Ram /\ fill[c].end <= Ram /\ fill[c].end \in Nat
          /\ fill[c].cur \in 0 .. totalBits
      BY <1>3, <2>1
    <3>2. \A w, n, m \in Nat : w < n /\ n <= m => w + 1 \in 0 .. m
      OBVIOUS
    <3>3. fill[c].word \in Nat /\ fill[c].cur \in Nat /\ Ram \in Nat
      BY <3>1
    <3> HIDE DEF Ram
    <3>4. fill[c].word + 1 \in 0 .. Ram
      BY <2>1, <3>1, <3>2, <3>3, Zenon
    <3>5. fill[c].cur + 1 \in 0 .. totalBits
      <4>1. fill[c].cur + 1 <= totalBits
        BY <1>1, <2>1, <3>3
      <4> QED
        BY <3>3, <4>1
    <3> QED
      BY <3>4, <3>5
  <2>5. g \in FillLocals
    <3>1. fill[c] \in FillLocals /\ fill[c].word + 1 \in 0 .. Ram
          /\ fill[c].cur + 1 \in 0 .. totalBits
      BY <1>1, <2>4
    <3> QED
      BY <3>1 DEF FillLocals
  <2>6. DataWord(fill[c].cur) \in Word
    BY <1>3, <2>1, DataWordType
  <2>7. ram' \in [Slots -> Word]
    BY <1>1, <1>5, <2>6 DEF FillData
  <2>8. UNCHANGED <<bitCursor, latchWritten>> /\ fill' = [fill EXCEPT ![c] = g]
    BY <1>5 DEF FillData
  <2> QED
    BY <1>1, <1>2, <2>3, <2>5, <2>7, <2>8
<1>6. CASE FillSettle(c)
  <2> DEFINE f == fill[c]
             needsMore == f.cur < totalBits \/ (~latchWritten /\ f.word = f.end)
             writesLatch == ~needsMore /\ ~latchWritten
             g == [f EXCEPT !.stage = "stop",
                            !.word = IF writesLatch THEN f.word + 1 ELSE f.word]
  <2>1. f.stage = "data"
    BY <1>6 DEF FillSettle
  <2>2. /\ bitCursor' = f.cur /\ latchWritten' = (latchWritten \/ writesLatch)
        /\ ram' = IF writesLatch THEN [ram EXCEPT ![f.word] = LATCH] ELSE ram
        /\ fill' = [fill EXCEPT ![c] = IF needsMore THEN NoFill ELSE g]
    BY <1>6 DEF FillSettle
  <2>3. bitCursor' \in 0 .. totalBits /\ latchWritten' \in BOOLEAN
    BY <1>3, <2>1, <2>2, <1>2
  <2>4. ram' \in [Slots -> Word]
    BY <1>1, <2>2 DEF Word
  <2>5. ~needsMore => g \in FillLocals /\ InHalf(g)
    <3> SUFFICES ASSUME ~needsMore PROVE g \in FillLocals /\ InHalf(g)
      OBVIOUS
    <3>1. writesLatch => f.word # f.end
      OBVIOUS
    <3>2. /\ g.stage = "stop" /\ g.end = f.end /\ g.cur = f.cur
          /\ g.word = IF writesLatch THEN f.word + 1 ELSE f.word
      BY <1>1 DEF FillLocals
    <3>3. g.word \in f.end - Half .. f.end /\ g.word \in 0 .. Ram
      BY <1>3, <2>1, <3>1, <3>2
    <3>4. InHalf(g)
      BY <1>3, <2>1, <3>2, <3>3 DEF InHalf
    <3>5. g \in FillLocals
      BY <1>1, <3>2, <3>3 DEF FillLocals
    <3> QED
      BY <3>4, <3>5
  <2> QED
    BY <1>4, <2>2, <2>3, <2>4, <2>5
<1>7. CASE FillStop(c)
  <2> DEFINE g == [fill[c] EXCEPT !.word = fill[c].word + 1]
  <2>1. fill[c].stage = "stop" /\ UNCHANGED <<bitCursor, latchWritten>>
    BY <1>7 DEF FillStop
  <2>2. CASE fill[c].word < fill[c].end
    <3>1. ram' = [ram EXCEPT ![fill[c].word] = STOP] /\ fill' = [fill EXCEPT ![c] = g]
      BY <1>7, <2>2 DEF FillStop
    <3>2. /\ g.stage = "stop" /\ g.end = fill[c].end
          /\ g.word = fill[c].word + 1 /\ g.cur = fill[c].cur
      BY <1>1, <2>1 DEF FillLocals
    <3>3. g.word \in fill[c].end - Half .. fill[c].end /\ g.word \in 0 .. Ram
      BY <1>3, <2>1, <2>2, <3>2
    <3>4. InHalf(g)
      BY <1>3, <2>1, <3>2, <3>3 DEF InHalf
    <3>5. g \in FillLocals
      BY <1>1, <3>2, <3>3 DEF FillLocals
    <3>6. ram' \in [Slots -> Word]
      BY <1>1, <3>1 DEF Word
    <3> QED
      BY <1>1, <1>2, <2>1, <3>1, <3>4, <3>5, <3>6
  <2>3. CASE ~(fill[c].word < fill[c].end)
    <3>1. ram' = ram /\ fill' = [fill EXCEPT ![c] = NoFill]
      BY <1>7, <2>3 DEF FillStop
    <3> QED
      BY <1>1, <1>2, <1>4, <2>1, <3>1
  <2> QED
    BY <2>2, <2>3
<1> QED
  BY <1>5, <1>6, <1>7

\* A step of fill_half, in either context, keeps the types and stays inside its
\* half.
LEMMA FillHalfType ==
    ASSUME NEW c \in Contexts, TypeInv, FillHalf(c),
           c = "isr" => isr = "fill", c = "thread" => pc \in {"first", "second"}
    PROVE  TypeInv'
<1>1. /\ ram' \in [Slots -> Word] /\ bitCursor' \in 0 .. totalBits
      /\ latchWritten' \in BOOLEAN
      /\ \E g \in FillLocals : InHalf(g) /\ fill' = [fill EXCEPT ![c] = g]
  BY FillStepType DEF FillHalf
<1>2. UNCHANGED <<totalBits, isr, pc>>
  BY DEF FillHalf, isrVars, threadVars
<1>3. FlagsOK'
  BY <1>1 DEF TypeInv, TypeOK, FlagsOK, FillHalf, threadVars
<1>4. PeripheralOK'
  BY <1>1 DEF TypeInv, TypeOK, PeripheralOK, FillHalf
<1>5. ChannelOK'
  BY <1>1 DEF TypeInv, TypeOK, ChannelOK, FillHalf, countVars
<1>6. FillLocals' = FillLocals
  BY <1>2 DEF FillLocals
<1>7. ControlOK'
  BY <1>1, <1>6 DEF TypeInv, TypeOK, ControlOK, FillHalf, isrVars, threadVars, boundVars
<1>8. FillInv'
  <2>1. PICK g \in FillLocals : InHalf(g) /\ fill' = [fill EXCEPT ![c] = g]
    BY <1>1
  <2>2. \A d \in Contexts : fill'[d] = IF d = c THEN g ELSE fill[d]
    BY <2>1 DEF TypeInv, TypeOK, ControlOK
  <2> QED
    BY <1>2, <2>1, <2>2 DEF TypeInv, FillInv, Contexts, InHalf
<1> QED
  BY <1>3, <1>4, <1>5, <1>7, <1>8 DEF TypeInv, TypeOK

\* Every action of the transmitter keeps the types.
LEMMA TransmitterType == TypeInv /\ (Transmitter \/ LoseThreshold) => TypeInv'
<1> SUFFICES ASSUME TypeInv, Transmitter \/ LoseThreshold PROVE TypeInv'
  OBVIOUS
<1>1. UNCHANGED <<frameVars, countVars, threadVars, fill, isr, posBefore, ram, txLim>>
  BY DEF Transmitter, Emit, Halt, LoseThreshold, hwVars, isrVars
<1>2. FlagsOK'
  BY <1>1 DEF TypeInv, TypeOK, FlagsOK, frameVars, threadVars, Transmitter, Emit, Halt, LoseThreshold
<1>3. pos' \in Slots
  <2>1. pos \in Slots
    BY DEF TypeInv, TypeOK, PeripheralOK
  <2>2. pos' = pos \/ pos' = (pos + 1) % Ram
    BY DEF Transmitter, Emit, Halt, LoseThreshold
  <2>3. Ram \in Nat \ {0} /\ pos + 1 \in Nat
    BY <2>1
  <2> QED
    BY <2>1, <2>2, <2>3
<1>4. lat' \in Nat
  BY DEF TypeInv, TypeOK, PeripheralOK, FlagsOK, Transmitter, Emit, Halt, LoseThreshold
<1>5. wire' \in Seq(Word)
  <2>1. ram[pos] \in Word /\ wire \in Seq(Word)
    BY DEF TypeInv, TypeOK, PeripheralOK
  <2>2. wire' = wire \/ wire' = Append(wire, ram[pos])
    BY DEF Transmitter, Emit, Halt, LoseThreshold
  <2> QED
    BY <2>1, <2>2
<1>e. entries' \in 0 .. Half - 1
  <2>0. Half \in Nat /\ Half >= 2 /\ entries \in 0 .. Half - 1
    BY HalfAssumption DEF TypeInv, TypeOK, PeripheralOK
  <2>1. entries' = entries \/ entries' = 0 \/ (entries' = entries + 1 /\ entries + 1 # Half)
    BY DEF Transmitter, Emit, Halt, LoseThreshold, AtThreshold
  <2> QED
    BY ONLY <2>0, <2>1, SMT
<1>f. ram' \in [Slots -> Word] /\ txLim' \in {Half, Ram}
  BY <1>1 DEF TypeInv, TypeOK, PeripheralOK
<1>6. PeripheralOK'
  BY ONLY <1>3, <1>4, <1>5, <1>e, <1>f DEF PeripheralOK
<1>7. ChannelOK'
  BY <1>1 DEF TypeInv, TypeOK, ChannelOK, frameVars, countVars
<1>8. adv' \in Nat /\ lost' \in 0 .. MaxLost /\ UNCHANGED <<started, aborts>>
  <2>1. MaxLost \in Nat
    BY BoundsAssumption
  <2>2. adv \in Nat /\ lost \in 0 .. MaxLost
    BY DEF TypeInv, TypeOK, ControlOK
  <2>3. CASE Emit
    BY <2>2, <2>3 DEF Emit, boundVars
  <2>4. CASE Halt
    BY <2>2, <2>4 DEF Halt, isrVars, boundVars
  <2>5. CASE LoseThreshold
    BY <2>1, <2>2, <2>5 DEF LoseThreshold, isrVars
  <2> QED
    BY <2>3, <2>4, <2>5 DEF Transmitter
<1>9. ControlOK'
  BY <1>1, <1>8 DEF TypeInv, TypeOK, ControlOK, FillLocals, frameVars, threadVars
<1>10. FillInv'
  BY <1>1 DEF TypeInv, FillInv, InHalf, threadVars
<1> QED
  BY <1>2, <1>6, <1>7, <1>9, <1>10 DEF TypeInv, TypeOK

\* Every action of the interrupt handler keeps the types.
LEMMA IsrType == TypeInv /\ Isr => TypeInv'
<1> SUFFICES ASSUME TypeInv, Isr PROVE TypeInv'
  OBVIOUS
<1>1. CASE RefillFill
  BY <1>1, FillHalfType DEF RefillFill, Contexts
<1>2. CASE Finish \/ RefillBegin \/ RefillLimit \/ RefillGuard \/ RefillEnd
  <2>1. /\ UNCHANGED <<threadVars, boundVars, pos, running, wire, frameLen, totalBits,
                      bitCursor, latchWritten>>
    BY <1>2 DEF Finish, RefillBegin, RefillLimit, RefillGuard, RefillEnd, hwVars, frameVars
  <2>2. /\ pend' = pend \/ pend' = NoCause
        /\ frameComplete' = frameComplete \/ frameComplete' = TRUE
    BY <1>2 DEF Finish, RefillBegin, RefillLimit, RefillGuard, RefillEnd, hwVars, frameVars
  <2>3. FlagsOK'
    <3>1. pend' \in [thr : BOOLEAN, end : BOOLEAN]
      <4>1. pend \in [thr : BOOLEAN, end : BOOLEAN] /\ (pend' = pend \/ pend' = NoCause)
        BY <2>2 DEF TypeInv, TypeOK, FlagsOK
      <4>2. NoCause \in [thr : BOOLEAN, end : BOOLEAN]
        BY DEF NoCause
      <4> QED
        BY <4>1, <4>2
    <3>2. frameComplete' \in BOOLEAN
      BY <2>2 DEF TypeInv, TypeOK, FlagsOK
    <3> QED
      BY <2>1, <3>1, <3>2 DEF TypeInv, TypeOK, FlagsOK, threadVars
  <2>4. ram' \in [Slots -> Word]
    BY <1>2 DEF TypeInv, TypeOK, PeripheralOK, Word, Finish, RefillBegin, RefillLimit, RefillGuard, RefillEnd, hwVars
  <2>5. txLim' \in {Half, Ram} /\ lat' \in Nat
    <3>0. txLim \in {Half, Ram} /\ lat \in Nat
      BY DEF TypeInv, TypeOK, PeripheralOK
    <3>1. CASE Finish
      BY <3>0, <3>1 DEF Finish
    <3>2. CASE RefillBegin
      BY <3>0, <3>2 DEF RefillBegin
    <3>3. CASE RefillLimit
      BY <3>0, <3>3 DEF RefillLimit, NextThreshold
    <3>4. CASE RefillGuard
      BY <3>0, <3>4 DEF RefillGuard
    <3>5. CASE RefillEnd
      BY <3>0, <3>5 DEF RefillEnd, hwVars
    <3> QED
      BY <1>2, <3>1, <3>2, <3>3, <3>4, <3>5
  <2>e. entries' \in 0 .. Half - 1
    <3>0. 0 \in 0 .. Half - 1 /\ entries \in 0 .. Half - 1
      BY HalfAssumption DEF TypeInv, TypeOK, PeripheralOK
    <3>1. entries' = entries \/ entries' = 0
      BY <1>2 DEF Finish, RefillBegin, RefillLimit, RefillGuard, RefillEnd, hwVars
    <3> QED
      BY ONLY <3>0, <3>1
  <2>f. pos' \in Slots /\ wire' \in Seq(Word)
    BY <2>1 DEF TypeInv, TypeOK, PeripheralOK
  <2>6. PeripheralOK'
    BY ONLY <2>4, <2>5, <2>e, <2>f DEF PeripheralOK
  <2>7. frames' \in Nat /\ guardTrips' \in Nat /\ guardSkips' \in Nat
    <3>0. frames \in Nat /\ guardTrips \in Nat /\ guardSkips \in Nat
      BY DEF TypeInv, TypeOK, ChannelOK
    <3>1. CASE Finish
      BY <3>0, <3>1 DEF Finish
    <3>2. CASE RefillBegin
      BY <3>0, <3>2 DEF RefillBegin, countVars
    <3>3. CASE RefillLimit
      BY <3>0, <3>3 DEF RefillLimit, countVars
    <3>4. CASE RefillGuard
      BY <3>0, <3>4 DEF RefillGuard
    <3>5. CASE RefillEnd
      BY <3>0, <3>5 DEF RefillEnd
    <3> QED
      BY <1>2, <3>1, <3>2, <3>3, <3>4, <3>5
  <2>8. lagMax' \in Slots
    <3>1. lagMax \in Slots /\ Advanced \in Slots
      <4>1. lagMax \in Slots /\ pos \in Nat /\ posBefore \in Slots
        BY DEF TypeInv, TypeOK, ChannelOK, PeripheralOK, ControlOK
      <4>2. pos + Ram - posBefore \in Nat /\ Ram \in Nat \ {0}
        BY <4>1
      <4> QED
        BY <4>1, <4>2 DEF Advanced
    <3>2. lagMax' = lagMax \/ lagMax' = Advanced
      BY <1>2 DEF Finish, RefillBegin, RefillLimit, RefillGuard, RefillEnd, countVars
    <3> QED
      BY <3>1, <3>2
  <2>9. ChannelOK'
    BY <2>1, <2>7, <2>8 DEF TypeInv, TypeOK, ChannelOK
  <2>10. /\ isr' \in {"idle", "limit", "guard", "fill"} /\ posBefore' \in Slots /\ adv' \in Nat
    <3>1. isr \in {"idle", "limit", "guard", "fill"} /\ posBefore \in Slots /\ pos \in Slots /\ adv \in Nat
      BY DEF TypeInv, TypeOK, ControlOK, PeripheralOK
    <3>2. /\ posBefore' \in {posBefore, pos, 0} /\ adv' \in {adv, 0}
          /\ isr' \in {isr, "limit", "guard", "fill", "idle"}
      BY <1>2 DEF Finish, RefillBegin, RefillLimit, RefillGuard, RefillEnd, isrVars
    <3> QED
      BY <3>1, <3>2
  <2>11. \/ /\ UNCHANGED fill
            /\ isr = "fill" /\ isr' # "fill" => fill["isr"].stage = "off"
            /\ isr' = "fill" => isr = "fill"
         \/ /\ isr' = "fill"
            /\ \E g \in FillLocals : InHalf(g) /\ fill' = [fill EXCEPT !["isr"] = g]
    <3>1. CASE RefillGuard
      <4>1. FillFrom(FreeHalf) \in FillLocals
        BY DEF TypeInv, TypeOK, ChannelOK, FillFrom, FreeHalf, FillLocals
      <4>2. InHalf(FillFrom(FreeHalf))
        BY DEF InHalf, FillFrom, FreeHalf
      <4> QED
        BY <3>1, <4>1, <4>2 DEF RefillGuard
    <3>2. CASE Finish \/ RefillBegin
      BY <3>2 DEF Finish, RefillBegin, MayTake, isrVars
    <3>3. CASE RefillLimit
      BY <3>3 DEF RefillLimit
    <3>4. CASE RefillEnd
      BY <3>4 DEF RefillEnd
    <3> QED
      BY <1>2, <3>1, <3>2, <3>3, <3>4
  <2>12. FillLocals' = FillLocals
    BY <2>1 DEF FillLocals
  <2>13. ControlOK'
    BY <2>1, <2>10, <2>11, <2>12 DEF TypeInv, TypeOK, ControlOK, threadVars, boundVars
  <2>14. FillInv'
    <3>1. CASE UNCHANGED fill
      BY <2>1, <2>11, <3>1 DEF TypeInv, TypeOK, ControlOK, FillInv, InHalf, threadVars
    <3>2. CASE fill' # fill
      <4>1. PICK g \in FillLocals : InHalf(g) /\ fill' = [fill EXCEPT !["isr"] = g]
        BY <2>11, <3>2
      <4>2. \A d \in Contexts : fill'[d] = IF d = "isr" THEN g ELSE fill[d]
        BY <4>1 DEF TypeInv, TypeOK, ControlOK
      <4> QED
        BY <2>1, <2>11, <3>2, <4>1, <4>2 DEF TypeInv, FillInv, InHalf, threadVars, Contexts
    <3> QED
      BY <3>1, <3>2
  <2> QED
    BY <2>3, <2>6, <2>9, <2>13, <2>14 DEF TypeInv, TypeOK
<1> QED
  BY <1>1, <1>2 DEF Isr

\* Every action of the calling thread keeps the types.
LEMMA ThreadType ==
    TypeInv /\ ((\E bits \in FrameBits : Arm(bits)) \/ GiveUp \/ InCall) => TypeInv'
<1> SUFFICES ASSUME TypeInv, (\E bits \in FrameBits : Arm(bits)) \/ GiveUp \/ InCall
             PROVE  TypeInv'
  OBVIOUS
<1>1. CASE \E bits \in FrameBits : Arm(bits)
  <2>1. PICK bits \in FrameBits : Arm(bits)
    BY <1>1
  <2>2. bits \in Nat /\ MaxFrames \in Nat
    BY FrameBitsAssumption, BoundsAssumption
  <2>3. UNCHANGED <<hwVars, countVars, isrVars, wipe, lost, aborts>>
    BY <2>1 DEF Arm
  <2> DEFINE g == [stage |-> "data", word |-> First, end |-> First + Half, cur |-> 0]
  <2>4. /\ pc' = "first" /\ totalBits' = bits /\ frameLen' = bits /\ bitCursor' = 0
        /\ fill' = [fill EXCEPT !["thread"] = g] /\ isr = "idle"
    BY <2>1 DEF Arm, ThreadRuns
  <2>5. FlagsOK'
    BY <2>1, <2>3 DEF TypeInv, TypeOK, FlagsOK, Arm, hwVars
  <2>6. PeripheralOK'
    BY <2>3 DEF TypeInv, TypeOK, PeripheralOK, hwVars
  <2>7. ChannelOK'
    BY <2>2, <2>3, <2>4 DEF TypeInv, TypeOK, ChannelOK, countVars
  <2>8. started' \in 0 .. MaxFrames
    BY <2>1, <2>2 DEF TypeInv, TypeOK, ControlOK, Arm
  <2>9. fill["isr"] = NoFill
    BY <2>4 DEF TypeInv, FillInv, InHalf, Contexts
  <2>10. g \in FillLocals' /\ NoFill \in FillLocals' /\ InHalf(g) /\ InHalf(NoFill)
    BY <2>2, <2>4 DEF FillLocals, InHalf, NoFill
  <2>11. fill' \in [Contexts -> FillLocals']
    BY <2>4, <2>9, <2>10 DEF TypeInv, TypeOK, ControlOK, Contexts
  <2>12. ControlOK'
    BY <2>3, <2>4, <2>8, <2>11 DEF TypeInv, TypeOK, ControlOK, isrVars
  <2>13. fill'["isr"] = NoFill /\ fill'["thread"] = g
    BY <2>4, <2>9 DEF TypeInv, TypeOK, ControlOK, Contexts
  <2>14. FillInv'
    BY <2>3, <2>4, <2>10, <2>13 DEF FillInv, Contexts, NoFill, isrVars, InHalf
  <2> QED
    BY <2>5, <2>6, <2>7, <2>12, <2>14 DEF TypeInv, TypeOK
<1>2. CASE Prefill
  BY <1>2, FillHalfType DEF Prefill, Contexts
<1>3. CASE PrefillSecond
  <2>1. UNCHANGED <<hwVars, frameVars, countVars, isrVars, wipe, borrowed, boundVars>>
    BY <1>3 DEF PrefillSecond
  <2>2. pc' = "second" /\ fill' = [fill EXCEPT !["thread"] = FillFrom(Second)]
    BY <1>3 DEF PrefillSecond
  <2>3. FillFrom(Second) \in FillLocals /\ InHalf(FillFrom(Second))
    BY DEF TypeInv, TypeOK, ChannelOK, FillFrom, FillLocals, InHalf
  <2>4. FillLocals' = FillLocals
    BY <2>1 DEF FillLocals, frameVars
  <2>5. FlagsOK'
    BY <2>1 DEF TypeInv, TypeOK, FlagsOK, hwVars, frameVars
  <2>6. PeripheralOK' /\ ChannelOK'
    BY <2>1 DEF TypeInv, TypeOK, PeripheralOK, ChannelOK, hwVars, frameVars, countVars
  <2>7. ControlOK'
    BY <2>1, <2>2, <2>3, <2>4 DEF TypeInv, TypeOK, ControlOK, isrVars, boundVars
  <2>8. fill'["isr"] = fill["isr"] /\ fill'["thread"] = FillFrom(Second)
    BY <2>2 DEF TypeInv, TypeOK, ControlOK, Contexts
  <2>9. FillInv'
    BY <2>1, <2>2, <2>3, <2>8 DEF TypeInv, FillInv, Contexts, InHalf, isrVars
  <2> QED
    BY <2>5, <2>6, <2>7, <2>9 DEF TypeInv, TypeOK
<1>4. CASE StartTx \/ Return \/ DropGuard \/ GiveUp \/ Abort
  <2>1. UNCHANGED <<countVars, isrVars, fill, totalBits, bitCursor, latchWritten>>
    BY <1>4 DEF StartTx, Return, DropGuard, GiveUp, Abort, StopTx, DropFrame,
                PublishComplete, frameVars
  <2>2. pend' = pend \/ pend' = NoCause
    BY <1>4 DEF StartTx, Return, DropGuard, GiveUp, Abort, StopTx, DropFrame,
                PublishComplete, hwVars
  <2>3. pend' \in [thr : BOOLEAN, end : BOOLEAN]
    <3>1. pend \in [thr : BOOLEAN, end : BOOLEAN]
      BY DEF TypeInv, TypeOK, FlagsOK
    <3>2. NoCause \in [thr : BOOLEAN, end : BOOLEAN]
      BY DEF NoCause
    <3> QED
      BY <2>2, <3>1, <3>2
  <2>4. running' \in BOOLEAN
    BY <1>4 DEF TypeInv, TypeOK, FlagsOK, StartTx, Return, DropGuard, GiveUp, Abort, StopTx,
                DropFrame, PublishComplete, hwVars
  <2>5. frameComplete' \in BOOLEAN /\ borrowed' \in BOOLEAN
    BY <1>4 DEF TypeInv, TypeOK, FlagsOK, StartTx, Return, DropGuard, GiveUp, Abort, StopTx,
                DropFrame, PublishComplete, frameVars
  <2>6. FlagsOK'
    BY <2>1, <2>3, <2>4, <2>5 DEF TypeInv, TypeOK, FlagsOK
  <2>7. ram' \in [Slots -> Word]
    BY <1>4 DEF TypeInv, TypeOK, PeripheralOK, Word, StartTx, Return, DropGuard, GiveUp, Abort,
                StopTx, DropFrame, PublishComplete, hwVars
  <2>8. /\ pos' \in Slots /\ txLim' \in {Half, Ram} /\ entries' \in 0 .. Half - 1
        /\ lat' \in Nat /\ wire' \in Seq(Word)
    <3>0. /\ pos \in Slots /\ txLim \in {Half, Ram} /\ entries \in 0 .. Half - 1
          /\ lat \in Nat /\ wire \in Seq(Word) /\ Half \in Nat /\ Half >= 2
      BY HalfAssumption DEF TypeInv, TypeOK, PeripheralOK
    <3>1. \/ UNCHANGED <<pos, txLim, entries, lat, wire>>
          \/ pos' = 0 /\ txLim' = Half /\ entries' = 0 /\ lat' = 0 /\ wire' = << >>
      BY <1>4 DEF StartTx, Return, DropGuard, GiveUp, Abort, StopTx, DropFrame,
                  PublishComplete, hwVars
    <3>2. CASE UNCHANGED <<pos, txLim, entries, lat, wire>>
      BY ONLY <3>0, <3>2
    <3>3. CASE pos' = 0 /\ txLim' = Half /\ entries' = 0 /\ lat' = 0 /\ wire' = << >>
      <4>1. wire' \in Seq(Word)
        BY ONLY <3>3
      <4>2. 0 \in Slots /\ 0 \in 0 .. Half - 1
        BY ONLY <3>0
      <4> QED
        BY ONLY <3>3, <4>1, <4>2
    <3> QED
      BY ONLY <3>1, <3>2, <3>3
  <2>9. PeripheralOK'
    BY <2>7, <2>8 DEF PeripheralOK
  <2>10. frameLen' \in Nat
    <3>1. frameLen' = frameLen \/ frameLen' = 0
      BY <1>4 DEF StartTx, Return, DropGuard, GiveUp, Abort, StopTx, DropFrame,
                  PublishComplete, frameVars
    <3> QED
      BY <3>1 DEF TypeInv, TypeOK, ChannelOK
  <2>11. ChannelOK'
    BY <2>1, <2>10 DEF TypeInv, TypeOK, ChannelOK, countVars
  <2>12. pc' \in {"idle", "poll", "stop", "disarm", "publish"}
    BY <1>4 DEF StartTx, Return, DropGuard, GiveUp, Abort, StopTx, DropFrame, PublishComplete
  <2>13. wipe' \in 0 .. Ram
    <3>1. wipe' = wipe \/ wipe' = 0 \/ (wipe < Ram /\ wipe' = wipe + 1)
      BY <1>4 DEF StartTx, Return, DropGuard, GiveUp, Abort, StopTx, DropFrame, PublishComplete
    <3> QED
      BY <3>1 DEF TypeInv, TypeOK, ControlOK
  <2>14. aborts' \in 0 .. MaxAborts /\ UNCHANGED <<started, lost>>
    <3>1. /\ aborts' = aborts \/ (aborts < MaxAborts /\ aborts' = aborts + 1)
          /\ UNCHANGED <<started, lost>>
      BY <1>4 DEF StartTx, Return, DropGuard, GiveUp, Abort, StopTx, DropFrame,
                  PublishComplete, boundVars
    <3>2. MaxAborts \in Nat
      BY BoundsAssumption
    <3> QED
      BY <3>1, <3>2 DEF TypeInv, TypeOK, ControlOK
  <2>15. ControlOK'
    BY <2>1, <2>12, <2>13, <2>14 DEF TypeInv, TypeOK, ControlOK, FillLocals, isrVars
  <2>16. fill["thread"].stage = "off"
    BY <1>4 DEF TypeInv, FillInv, StartTx, Return, DropGuard, GiveUp, Abort, StopTx,
                DropFrame, PublishComplete
  <2>17. FillInv'
    BY <2>1, <2>16 DEF TypeInv, FillInv, InHalf, isrVars
  <2> QED
    BY <2>6, <2>9, <2>11, <2>15, <2>17 DEF TypeInv, TypeOK
<1> QED
  BY <1>1, <1>2, <1>3, <1>4 DEF InCall

\* A step that changes nothing keeps the types.
LEMMA StutterType == TypeInv /\ UNCHANGED vars => TypeInv'
<1> SUFFICES ASSUME TypeInv, UNCHANGED vars PROVE TypeInv'
  OBVIOUS
<1>1. FlagsOK'
  BY DEF TypeInv, TypeOK, FlagsOK, vars, hwVars, frameVars, threadVars
<1>2. PeripheralOK' /\ ChannelOK'
  BY DEF TypeInv, TypeOK, PeripheralOK, ChannelOK, vars, hwVars, frameVars, countVars
<1>3. ControlOK'
  BY DEF TypeInv, TypeOK, ControlOK, FillLocals, vars, frameVars, isrVars, threadVars, boundVars
<1>4. FillInv'
  BY DEF TypeInv, FillInv, InHalf, vars, isrVars, threadVars
<1> QED
  BY <1>1, <1>2, <1>3, <1>4 DEF TypeInv, TypeOK

\* The inductive form of type correctness.
LEMMA TypeInvariant == Spec => []TypeInv
<1>1. Init => TypeInv
  BY TypeInit
<1>2. TypeInv /\ [Next]_vars => TypeInv'
  BY TransmitterType, IsrType, ThreadType, StutterType DEF Next
<1> QED
  BY <1>1, <1>2, PTL DEF Spec

\* However the transmitter, the handler and the thread interleave, and whatever is
\* lost or late, fill_half (driver.rs) never writes outside the channel's RAM
\* window and never takes the cursor past the end of the frame.
THEOREM TypeCorrect == Spec => []TypeOK
<1>1. TypeInv => TypeOK
  BY DEF TypeInv
<1> QED
  BY <1>1, TypeInvariant, PTL

-----------------------------------------------------------------------------
(***************************************************************************)
(* The frame buffer is read only while it is lent.                         *)
(***************************************************************************)

\* The buffer is the caller's own only once the channel is complete, and the
\* handler is inside a refill only while it is not.
BorrowInv ==
    /\ frameComplete \/ borrowed
    /\ isr = "idle" \/ ~frameComplete
    /\ pc = "idle" \/ borrowed

\* BorrowInv survives every step.  The thread moves only between two runs of the
\* handler (ThreadRuns), so taking the buffer back never meets a refill.
LEMMA BorrowStep == BorrowInv /\ [Next]_vars => BorrowInv'
<1> SUFFICES ASSUME BorrowInv, [Next]_vars PROVE BorrowInv'
  OBVIOUS
<1>1. CASE Transmitter \/ LoseThreshold
  <2>1. UNCHANGED <<frameComplete, borrowed, isr, pc>>
    BY <1>1 DEF Transmitter, Emit, Halt, LoseThreshold, frameVars, threadVars, isrVars
  <2> QED
    BY <2>1 DEF BorrowInv
<1>2. CASE Finish
  BY <1>2 DEF BorrowInv, Finish, MayTake, threadVars, isrVars
<1>3. CASE RefillBegin
  BY <1>3 DEF BorrowInv, RefillBegin, frameVars, threadVars, isrVars
<1>4. CASE RefillLimit \/ RefillGuard \/ RefillFill \/ RefillEnd
  <2>1. UNCHANGED <<frameComplete, borrowed, pc>> /\ isr # "idle"
    BY <1>4 DEF RefillLimit, RefillGuard, RefillFill, RefillEnd, FillHalf, frameVars, threadVars
  <2> QED
    BY <2>1 DEF BorrowInv
<1>5. CASE \E bits \in FrameBits : Arm(bits)
  BY <1>5 DEF BorrowInv, Arm, ThreadRuns, isrVars
<1>6. CASE Prefill
  BY <1>6 DEF BorrowInv, Prefill, FillHalf, isrVars, threadVars
<1>7. CASE PrefillSecond \/ StartTx \/ DropGuard \/ GiveUp \/ StopTx \/ DropFrame
  <2>1. UNCHANGED <<frameComplete, borrowed, isr>> /\ pc # "idle"
    BY <1>7 DEF PrefillSecond, StartTx, DropGuard, GiveUp, StopTx, DropFrame, frameVars, isrVars
  <2> QED
    BY <2>1 DEF BorrowInv
<1>8. CASE Return \/ PublishComplete
  <2>1. frameComplete' /\ isr' = "idle" /\ pc' = "idle"
    BY <1>8 DEF Return, PublishComplete, ThreadRuns, frameVars, isrVars
  <2> QED
    BY <2>1 DEF BorrowInv
<1>9. CASE UNCHANGED vars
  BY <1>9 DEF BorrowInv, vars, frameVars, threadVars, isrVars
<1> QED
  BY <1>1, <1>2, <1>3, <1>4, <1>5, <1>6, <1>7, <1>8, <1>9 DEF Next, Isr, InCall, Abort

\* start_frame's safety contract, kept by every safe caller: whatever the timing,
\* on every backend and even if interrupts are masked, neither the prefill nor a
\* refill dereferences the frame after the caller has its buffer back
\* (send_blocking's abort guard, ChannelState::disarm).
THEOREM BufferLent == Spec => []FrameReadsAlive
<1>1. Init => BorrowInv
  BY DEF Init, BorrowInv
<1>2. TypeInv /\ BorrowInv => FrameReadsAlive
  BY DEF TypeInv, FillInv, BorrowInv, FrameReadsAlive, Contexts
<1> QED
  BY <1>1, <1>2, BorrowStep, TypeInvariant, PTL DEF Spec

-----------------------------------------------------------------------------
(***************************************************************************)
(* Completion and the transmitter, where stop_tx stops at once and no      *)
(* interrupt is masked in the thread.                                      *)
(***************************************************************************)

\* A transmitter that runs has not raised its end yet, and outside the poll loop
\* and the stop that may follow it there is neither a running transmitter nor a
\* cause left over.
StopInv ==
    /\ pend.end => ~running
    /\ pc \notin {"poll", "stop"} => ~running /\ ~Pending
    /\ pc = "poll" /\ frameComplete => ~running
    /\ Prefilling => ~frameComplete

\* StopInv survives every step of a channel with an immediate stop.
LEMMA StopStep ==
    ASSUME ~Masked, ~Classic, TypeInv, StopInv, [Next]_vars
    PROVE  StopInv'
<1> USE DEF StopInv, Prefilling, Pending
<1>0. pend \in [thr : BOOLEAN, end : BOOLEAN]
  BY DEF TypeInv, TypeOK, FlagsOK
<1>1. CASE Emit
  <2>1. running /\ UNCHANGED <<running, pc, frameComplete>>
    BY <1>1 DEF Emit, MayMove, threadVars, frameVars
  <2>2. pend'.end = pend.end
    BY <1>0, <1>1 DEF Emit
  <2> QED
    BY <2>1, <2>2
<1>2. CASE Halt
  <2>1. running /\ ~running' /\ UNCHANGED <<pc, frameComplete>>
    BY <1>2 DEF Halt, MayMove, threadVars, frameVars
  <2> QED
    BY <2>1
<1>3. CASE LoseThreshold
  <2>1. UNCHANGED <<running, pc, frameComplete>> /\ pend.thr
    BY <1>3 DEF LoseThreshold, threadVars, frameVars
  <2>2. pend'.end = pend.end
    BY <1>0, <1>3 DEF LoseThreshold
  <2> QED
    BY <2>1, <2>2
<1>4. CASE Finish
  <2>1. UNCHANGED <<running, pc>> /\ pend.end /\ pend' = NoCause
    BY <1>4 DEF Finish, threadVars
  <2> QED
    BY <2>1 DEF NoCause
<1>5. CASE RefillBegin
  <2>1. UNCHANGED <<running, pc, frameComplete>> /\ pend' = NoCause
    BY <1>5 DEF RefillBegin, threadVars, frameVars
  <2> QED
    BY <2>1 DEF NoCause
<1>6. CASE RefillLimit \/ RefillGuard \/ RefillFill \/ RefillEnd \/ Prefill
  <2>1. UNCHANGED <<running, pc, pend, frameComplete>>
    BY <1>6 DEF RefillLimit, RefillGuard, RefillFill, RefillEnd, Prefill, FillHalf,
                hwVars, frameVars, threadVars
  <2> QED
    BY <2>1
<1>7. CASE \E bits \in FrameBits : Arm(bits)
  <2>1. pc = "idle" /\ pc' = "first" /\ ~frameComplete' /\ UNCHANGED <<running, pend>>
    BY <1>7 DEF Arm, hwVars
  <2> QED
    BY <2>1
<1>8. CASE PrefillSecond
  <2>1. pc = "first" /\ pc' = "second" /\ UNCHANGED <<running, pend, frameComplete>>
    BY <1>8 DEF PrefillSecond, hwVars, frameVars
  <2> QED
    BY <2>1
<1>9. CASE StartTx
  <2>1. pc = "second" /\ pc' = "poll" /\ pend' = NoCause /\ UNCHANGED frameComplete
    BY <1>9 DEF StartTx, frameVars
  <2> QED
    BY <2>1 DEF NoCause
<1>10. CASE Return
  <2>1. /\ pc = "poll" /\ pc' = "idle" /\ frameComplete /\ ~Pending
        /\ UNCHANGED <<running, pend, frameComplete>>
    BY <1>10 DEF Return, ThreadRuns, hwVars, frameVars
  <2> QED
    BY <2>1
<1>11. CASE DropGuard \/ GiveUp
  <2>1. pc = "poll" /\ pc' = "stop" /\ UNCHANGED <<running, pend, frameComplete>>
    BY <1>11 DEF DropGuard, GiveUp, hwVars, frameVars
  <2> QED
    BY <2>1
<1>12. CASE StopTx
  <2>1. /\ pc = "stop" /\ pc' = "disarm" /\ ~running' /\ ~Pending
        /\ UNCHANGED <<pend, frameComplete>>
    BY <1>12 DEF StopTx, ThreadRuns, frameVars
  <2> QED
    BY <2>1
<1>13. CASE DropFrame \/ PublishComplete
  <2>1. pc \in {"disarm", "publish"} /\ pc' \in {"publish", "idle"} /\ UNCHANGED <<running, pend>>
    BY <1>13 DEF DropFrame, PublishComplete, hwVars
  <2> QED
    BY <2>1
<1>14. CASE UNCHANGED vars
  BY <1>14 DEF vars, hwVars, frameVars, threadVars
<1> QED
  BY <1>1, <1>2, <1>3, <1>4, <1>5, <1>6, <1>7, <1>8, <1>9, <1>10, <1>11, <1>12, <1>13, <1>14
     DEF Next, Transmitter, Isr, InCall, Abort

\* On the chips whose stop_tx takes effect at once (S3, C6, the mock), with
\* interrupts open in the thread: StopInv is an invariant.
LEMMA StopInvariant == ~Masked /\ ~Classic /\ Spec => []StopInv
<1> SUFFICES ASSUME ~Masked, ~Classic PROVE Spec => []StopInv
  OBVIOUS
<1>1. Init => StopInv
  BY DEF Init, StopInv, Prefilling, Pending, NoCause
<1>2. TypeInv /\ StopInv /\ [Next]_vars => StopInv'
  BY StopStep
<1> QED
  BY <1>1, <1>2, TypeInvariant, PTL DEF Spec

\* There, a frame is never completed before its transmitter is started: no tx_end
\* of an aborted predecessor survives (start_tx's "genuinely this one's").
THEOREM EndIsOwn == ~Masked /\ ~Classic /\ Spec => []NoEarlyFinish
<1>1. StopInv => NoEarlyFinish
  BY DEF StopInv, NoEarlyFinish
<1> QED
  BY <1>1, StopInvariant, PTL

\* There, a channel that reports itself complete has a stopped transmitter: what
\* on_interrupt's finish and abort publish is true of the hardware.
THEOREM CompleteIsStopped == ~Masked /\ ~Classic /\ Spec => []CompleteMeansStopped
<1>1. StopInv => CompleteMeansStopped
  BY DEF StopInv, CompleteMeansStopped
<1> QED
  BY <1>1, StopInvariant, PTL

-----------------------------------------------------------------------------
(***************************************************************************)
(* The lag the handler measures.                                           *)
(***************************************************************************)

\* Outside a refill nothing is counted; during one the transmitter is at most
\* Burst words ahead of the refill's RAM writes, so it is where posBefore and the
\* words it sent since put it, at most one wrap further.
LagInv ==
    /\ isr = "idle" => adv = 0
    /\ adv <= Half + Burst
    /\ isr # "idle" => pos = posBefore + adv \/ pos = posBefore + adv - Ram

\* A refill makes at most Half RAM writes.
LEMMA RefilledBound == TypeInv => Refilled <= Half
<1> SUFFICES ASSUME TypeInv, isr = "fill" PROVE fill["isr"].word - (fill["isr"].end - Half) <= Half
  BY DEF Refilled
<1>1. fill["isr"] \in FillLocals /\ InHalf(fill["isr"])
  BY DEF TypeInv, TypeOK, ControlOK, FillInv, Contexts
<1> QED
  BY <1>1 DEF InHalf, FillLocals, NoFill

\* LagInv survives every step.
LEMMA LagStep ==
    ASSUME Burst < Half, TypeInv, LagInv, [Next]_vars
    PROVE  LagInv'
<1>0. /\ pos \in Slots /\ posBefore \in Slots /\ adv \in Nat /\ Burst \in Nat
  BY BoundsAssumption DEF TypeInv, TypeOK, PeripheralOK, ControlOK
<1>1. CASE Emit
  <2>1. pos' = (pos + 1) % Ram /\ UNCHANGED <<isr, posBefore>>
    BY <1>1 DEF Emit
  <2>2. CASE isr = "idle"
    <3>1. adv' = 0
      BY <1>1, <2>2 DEF Emit
    <3> QED
      BY <1>0, <2>1, <2>2, <3>1 DEF LagInv
  <2>3. CASE isr # "idle"
    <3>1. adv' = adv + 1
      BY <1>1, <2>3 DEF Emit
    <3>2. adv < Refilled + Burst
      BY <1>1, <2>3 DEF Emit, MayMove
    <3>3. Refilled \in Int /\ Refilled <= Half
      BY RefilledBound DEF TypeInv, TypeOK, ControlOK, Refilled, FillLocals, Contexts
    <3>4. adv' <= Half + Burst
      BY <1>0, <3>1, <3>2, <3>3
    <3>5. pos' = pos + 1 \/ (pos + 1 = Ram /\ pos' = 0)
      BY <1>0, <2>1
    <3>6. pos' = posBefore + adv' \/ pos' = posBefore + adv' - Ram
      BY <1>0, <2>3, <3>1, <3>4, <3>5 DEF LagInv
    <3> QED
      BY <2>1, <2>3, <3>4, <3>6 DEF LagInv
  <2> QED
    BY <2>2, <2>3
<1>2. CASE RefillBegin
  <2>1. isr = "idle" /\ pos' = pos
    BY <1>2 DEF RefillBegin, MayTake
  <2>2. UNCHANGED <<isr, posBefore, adv>> \/ (isr' = "limit" /\ posBefore' = pos /\ adv' = 0)
    BY <1>2 DEF RefillBegin, isrVars
  <2> QED
    BY <1>0, <2>1, <2>2 DEF LagInv
<1>3. CASE RefillLimit \/ RefillGuard
  <2>1. isr # "idle" /\ UNCHANGED <<pos, posBefore, adv>>
    BY <1>3 DEF RefillLimit, RefillGuard
  <2>2. isr' # "idle"
    BY <1>3 DEF RefillLimit, RefillGuard
  <2> QED
    BY <2>1, <2>2 DEF LagInv
<1>4. CASE RefillEnd
  <2>1. isr' = "idle" /\ adv' = 0
    BY <1>4 DEF RefillEnd
  <2> QED
    BY <1>0, <2>1 DEF LagInv
<1>5. CASE StartTx
  <2>1. isr = "idle" /\ UNCHANGED <<isr, posBefore, adv>>
    BY <1>5 DEF StartTx, ThreadRuns, isrVars
  <2> QED
    BY <2>1 DEF LagInv
<1>6. CASE Halt \/ LoseThreshold \/ Finish \/ RefillFill
  <2>1. UNCHANGED <<isr, posBefore, adv, pos>>
    BY <1>6 DEF Halt, LoseThreshold, Finish, RefillFill, FillHalf, isrVars
  <2> QED
    BY <2>1 DEF LagInv
<1>7. CASE (\E bits \in FrameBits : Arm(bits)) \/ GiveUp \/ Prefill \/ PrefillSecond
  <2>1. UNCHANGED <<isr, posBefore, adv, pos>>
    BY <1>7 DEF Arm, GiveUp, Prefill, PrefillSecond, FillHalf, isrVars, hwVars
  <2> QED
    BY <2>1 DEF LagInv
<1>8. CASE Return \/ DropGuard \/ Abort
  <2>1. UNCHANGED <<isr, posBefore, adv, pos>>
    BY <1>8 DEF Return, DropGuard, Abort, StopTx, DropFrame, PublishComplete, isrVars, hwVars
  <2> QED
    BY <2>1 DEF LagInv
<1>9. CASE UNCHANGED vars
  BY <1>9 DEF LagInv, vars, hwVars, isrVars
<1> QED
  BY <1>1, <1>2, <1>3, <1>4, <1>5, <1>6, <1>7, <1>8, <1>9 DEF Next, Transmitter, Isr, InCall

\* refill_lag_max is a true count as long as the transmitter gains less than a half
\* on the refill's RAM writes: the two ring positions refill reads then never differ
\* by a whole window (driver.rs, `(pos_after + ram - pos_before) % ram`).
THEOREM LagIsTrue == Burst < Half /\ Spec => []LagTruthful
<1> SUFFICES ASSUME Burst < Half PROVE Spec => []LagTruthful
  OBVIOUS
<1>1. Init => LagInv
  BY BoundsAssumption DEF Init, LagInv
<1>2. TypeInv /\ LagInv /\ [Next]_vars => LagInv'
  BY LagStep
<1>3. TypeInv /\ LagInv => LagTruthful
  <2> SUFFICES ASSUME TypeInv, LagInv, isr = "fill" PROVE Advanced = adv
    BY DEF LagTruthful
  <2>1. pos \in Slots /\ posBefore \in Slots /\ adv \in Nat /\ Burst \in Nat
    BY BoundsAssumption DEF TypeInv, TypeOK, PeripheralOK, ControlOK
  <2>2. adv \in 0 .. Ram - 1
    BY <2>1 DEF LagInv
  <2>3. pos + Ram - posBefore = adv + Ram \/ pos + Ram - posBefore = adv
    BY <2>1 DEF LagInv
  <2>4. adv % Ram = adv /\ (adv + Ram) % Ram = adv
    BY <2>2
  <2> QED
    BY <2>3, <2>4 DEF Advanced
<1> QED
  BY <1>1, <1>2, <1>3, TypeInvariant, PTL DEF Spec

-----------------------------------------------------------------------------
(*****************************************************************************)
(* The window as a ring: the words the transmitter has ahead of it.          *)
(*****************************************************************************)

\* A frame is being sent: start_tx is done and the frame not reported complete.
Live == pc \in {"poll", "stop"} /\ ~frameComplete

\* Word i of a frame, past its end the STOP words that fill the window up.
Content(i) == IF i < totalBits THEN i ELSE IF i = totalBits THEN LATCH ELSE STOP

\* How far fill_half's bit cursor is once n words of the frame are written.
Upto(n) == IF n < totalBits THEN n ELSE totalBits

\* The locals f of a fill_half and the published cursor stand where n words of
\* the frame leave them: bits first, then the latch, then STOPs.
Cursor(f, n) ==
    /\ f.stage = "off" => bitCursor = Upto(n)
    /\ f.stage = "data" => f.cur = Upto(n)
    /\ f.stage = "stop" => bitCursor = totalBits /\ n > totalBits
    /\ latchWritten <=> n > totalBits

\* Words of the frame on the wire, after k words of earlier replays of the window.
Sent(k) == Len(wire) - k

\* How many words the transmitter sends before it reaches slot s of the ring.
Ahead(s) == IF s >= pos THEN s - pos ELSE s + Ram - pos

\* Where the last refill planted its guard, told from the threshold it set.
GuardAt == IF txLim = Half THEN First ELSE Second

\* Where the half ends that the transmitter was in when the refill began.
HalfEnd == IF InSecond THEN Ram ELSE Half

\* The fresh words the transmitter has ahead of it.  Between refills they reach
\* up to the barrier, the first word of the half the last refill left; within
\* one, up to the word being written.  A transmitter that stands at the barrier
\* has sent everything (e = 0) or nothing (e = Ram): never nothing if interrupts
\* may be lost, never everything if none is and all are prompt.
Left(k, e) ==
    IF isr = "idle"
      THEN IF pos = GuardAt /\ (Sent(k) = 0 \/ e = Ram) THEN Ram ELSE Ahead(GuardAt)
      ELSE HalfEnd - posBefore - adv + Refilled

\* The fresh words are the next words of the frame, in order.
InWindow(k, e) == \A s \in Slots : Ahead(s) < Left(k, e) => ram[s] = Content(Sent(k) + Ahead(s))

\* What a running refill knows: it began with its half's end at least Burst words
\* away, the transmitter gained at most Burst words on it, and an event raised
\* since is for the end of that half.
InRefill ==
    /\ posBefore + Burst <= HalfEnd
    /\ adv <= Half + Burst
    /\ pos = posBefore + adv \/ pos = posBefore + adv - Ram
    /\ txLim = IF isr # "limit" THEN HalfEnd ELSE IF InSecond THEN Half ELSE Ram
    /\ fill["isr"].stage # "off" => fill["isr"].end = FreeHalf + Half
    /\ pend.thr => posBefore + adv >= HalfEnd

\* Where the count of words sent puts the transmitter: before the window is left
\* for the first time it is at that word, and a refill comes after the half
\* it refills was sent.
Place(k) ==
  /\ Sent(k) <= Ram => pos = Sent(k) \/ (Sent(k) = Ram /\ pos = 0)
  /\ txLim = Ram => Sent(k) >= Half
  /\ isr # "idle" => Sent(k) >= adv + (IF InSecond THEN Half ELSE Ram)
  /\ isr # "idle" /\ ~InSecond /\ posBefore # 0 => Sent(k) > adv + Ram

\* The ring invariant: the window holds the words of the frame that follow the
\* ones sent, as far as Left says, and the cursor is at the first one not written.
RingInv(k, e) ==
    /\ k \in 0 .. Len(wire)
    /\ frameLen = totalBits
    /\ Left(k, e) \in 0 .. Ram
    /\ Sent(k) <= totalBits + 1
    /\ isr = "idle" /\ pend.thr => Left(k, e) <= Half
    /\ isr # "idle" => InRefill
    /\ Cursor(fill["isr"], Sent(k) + Left(k, e))
    /\ InWindow(k, e)
    /\ Place(k)

\* The ranges that arithmetic on a channel's state needs.
RangesOK ==
    /\ pos \in 0 .. Ram - 1 /\ posBefore \in 0 .. Ram - 1 /\ adv \in Nat /\ lat \in Nat
    /\ txLim \in {Half, Ram} /\ totalBits \in Nat /\ frameLen \in Nat
    /\ bitCursor \in 0 .. totalBits /\ latchWritten \in BOOLEAN
    /\ ram \in [Slots -> Word] /\ wire \in Seq(Word) /\ Len(wire) \in Nat
    /\ MinLat \in Nat /\ MaxLat \in Nat /\ Burst \in Nat /\ MaxWire \in Nat
    /\ Refilled \in 0 .. Half /\ pend \in [thr : BOOLEAN, end : BOOLEAN]
    /\ fill["isr"].stage \in {"off", "data", "stop"} /\ fill["isr"].word \in 0 .. Ram
    /\ fill["isr"].end \in {0, Half, Ram} /\ fill["isr"].cur \in 0 .. totalBits
    /\ isr # "fill" => fill["isr"].stage = "off" /\ Refilled = 0
    /\ isr = "fill" /\ fill["isr"].stage = "off" => Refilled = Half
    /\ fill["isr"].stage # "off" => fill["isr"].word \in fill["isr"].end - Half .. fill["isr"].end
    /\ fill["isr"].stage # "off" => fill["isr"].end \in {Half, Ram}
    /\ isr \in {"idle", "limit", "guard", "fill"}
    /\ fill \in [Contexts -> FillLocals]

-----------------------------------------------------------------------------


\* The type invariant gives the ranges.
LEMMA Ranges == TypeInv => RangesOK
<1> SUFFICES ASSUME TypeInv PROVE RangesOK
  OBVIOUS
<1>1. fill["isr"] \in FillLocals /\ InHalf(fill["isr"]) /\ (isr # "fill" => fill["isr"].stage = "off")
  BY DEF TypeInv, TypeOK, ControlOK, FillInv, Contexts
<1>2. /\ fill["isr"].stage \in {"off", "data", "stop"} /\ fill["isr"].word \in 0 .. Ram
      /\ fill["isr"].end \in {0, Half, Ram} /\ fill["isr"].cur \in 0 .. totalBits
  BY <1>1 DEF FillLocals
<1>3. fill["isr"].stage = "off" => fill["isr"].word = 0 /\ fill["isr"].end = 0
  BY <1>1 DEF InHalf, NoFill
<1>4. fill["isr"].stage # "off" => /\ fill["isr"].word \in fill["isr"].end - Half .. fill["isr"].end
                                  /\ fill["isr"].end \in {Half, Ram}
  BY <1>1 DEF InHalf
<1>5. /\ Refilled \in 0 .. Half
      /\ isr # "fill" => Refilled = 0
      /\ isr = "fill" /\ fill["isr"].stage = "off" => Refilled = Half
  BY <1>2, <1>3, <1>4 DEF Refilled
<1>6. wire \in Seq(Word) /\ Len(wire) \in Nat
  <2>1. wire \in Seq(Word)
    BY DEF TypeInv, TypeOK, PeripheralOK
  <2> QED
    BY <2>1
<1>7. pend \in [thr : BOOLEAN, end : BOOLEAN] /\ latchWritten \in BOOLEAN
  BY DEF TypeInv, TypeOK, FlagsOK
<1>8. ram \in [Slots -> Word] /\ pos \in 0 .. Ram - 1 /\ txLim \in {Half, Ram} /\ lat \in Nat
  BY DEF TypeInv, TypeOK, PeripheralOK
<1>9. /\ totalBits \in Nat /\ frameLen \in Nat /\ bitCursor \in 0 .. totalBits
  BY DEF TypeInv, TypeOK, ChannelOK
<1>10. /\ posBefore \in 0 .. Ram - 1 /\ adv \in Nat /\ isr \in {"idle", "limit", "guard", "fill"}
       /\ fill \in [Contexts -> FillLocals]
  BY DEF TypeInv, TypeOK, ControlOK
<1> QED
  BY <1>1, <1>2, <1>4, <1>5, <1>6, <1>7, <1>8, <1>9, <1>10, BoundsAssumption DEF RangesOK

\* A step of the transmitter: one word out, every slot one word closer.
LEMMA EmitMoves ==
    ASSUME ~Classic, RangesOK, Emit, Len(wire) < MaxWire
    PROVE  /\ UNCHANGED <<isr, posBefore, txLim, ram, totalBits, fill, frameLen, bitCursor, latchWritten>>
           /\ IF pos = Ram - 1 THEN pos' = 0 ELSE pos' = pos + 1
           /\ \A s \in Slots : Ahead(s)' = IF s = pos THEN Ram - 1 ELSE Ahead(s) - 1
           /\ wire' = Append(wire, ram[pos]) /\ Len(wire') = Len(wire) + 1
           /\ adv' = (IF isr = "idle" THEN 0 ELSE adv + 1)
           /\ ram[pos] # STOP
           /\ isr # "idle" => adv < Refilled + Burst
           /\ pend'.thr => pend.thr \/ pos' = txLim \/ (txLim = Ram /\ pos' = 0)
<1>0. /\ pos \in 0 .. Ram - 1 /\ txLim \in {Half, Ram} /\ wire \in Seq(Word) /\ ram[pos] \in Word
      /\ pend \in [thr : BOOLEAN, end : BOOLEAN]
  BY DEF RangesOK
<1>1. UNCHANGED <<isr, posBefore, txLim, ram, totalBits, fill, frameLen, bitCursor, latchWritten>>
  BY DEF Emit, frameVars
<1>2. IF pos = Ram - 1 THEN pos' = 0 ELSE pos' = pos + 1
  <2>1. pos' = (pos + 1) % Ram
    BY DEF Emit
  <2>2. pos' = pos + 1 \/ (pos + 1 = Ram /\ pos' = 0)
    BY <1>0, <2>1
  <2>3. pos' \in 0 .. Ram - 1
    BY <1>0, <2>1
  <2> QED
    BY <1>0, <2>2, <2>3
<1>3. \A s \in Slots : Ahead(s)' = IF s = pos THEN Ram - 1 ELSE Ahead(s) - 1
  <2> SUFFICES ASSUME NEW s \in Slots PROVE Ahead(s)' = IF s = pos THEN Ram - 1 ELSE Ahead(s) - 1
    OBVIOUS
  <2> QED
    BY <1>0, <1>2 DEF Ahead
<1>4. wire' = Append(wire, ram[pos]) /\ Len(wire') = Len(wire) + 1
  <2>1. wire' = Append(wire, ram[pos])
    BY DEF Emit
  <2> QED
    BY <1>0, <2>1
<1>5. pend'.thr => pend.thr \/ pos' = txLim \/ (txLim = Ram /\ pos' = 0)
  <2> SUFFICES ASSUME pend'.thr, ~pend.thr PROVE pos' = txLim \/ (txLim = Ram /\ pos' = 0)
    OBVIOUS
  <2>1. AtThreshold
    BY DEF Emit
  <2>2. (pos + 1) % Ram = txLim % Ram
    BY <2>1 DEF AtThreshold
  <2>3. txLim % Ram = IF txLim = Ram THEN 0 ELSE txLim
    BY <1>0
  <2>4. (pos + 1) % Ram = pos'
    BY DEF Emit
  <2> QED
    BY <1>0, <2>2, <2>3, <2>4
<1> QED
  BY <1>1, <1>2, <1>3, <1>4, <1>5 DEF Emit, MayMove

\* The ring distance is within the window.
LEMMA AheadRange ==
    ASSUME RangesOK
    PROVE  \A s \in Slots : Ahead(s) \in 0 .. Ram - 1 /\ (Ahead(s) = 0 <=> s = pos)
<1>1. pos \in 0 .. Ram - 1
  BY DEF RangesOK
<1> QED
  BY <1>1 DEF Ahead

\* No two slots are equally far ahead.
LEMMA AheadInjective ==
    ASSUME RangesOK
    PROVE  \A s, t \in Slots : Ahead(s) = Ahead(t) => s = t
<1>1. pos \in 0 .. Ram - 1
  BY DEF RangesOK
<1> QED
  BY <1>1 DEF Ahead

\* The word sent is the next one of the frame, as long as a fresh one is left.
LEMMA RingEmit ==
    ASSUME ~Classic, RangesOK, NEW k, NEW e \in {0, Ram}, RingInv(k, e), Emit, Len(wire) < MaxWire,
           isr = "idle" => Left(k, e) > IF e = Ram THEN 1 ELSE 0
    PROVE  /\ RingInv(k, e)' /\ Left(k, e)' = Left(k, e) - 1
           /\ ram[pos] = Content(Sent(k)) /\ Sent(k) <= totalBits
<1>r. /\ pos \in 0 .. Ram - 1 /\ posBefore \in 0 .. Ram - 1 /\ adv \in Nat /\ Burst \in Nat
      /\ txLim \in {Half, Ram} /\ totalBits \in Nat /\ Len(wire) \in Nat /\ Refilled \in 0 .. Half
      /\ isr # "fill" => Refilled = 0
  BY DEF RangesOK
<1>0. /\ k \in 0 .. Len(wire) /\ frameLen = totalBits /\ Left(k, e) \in 0 .. Ram
      /\ isr # "idle" => InRefill
  BY <1>r DEF RingInv
<1>1. /\ UNCHANGED <<isr, posBefore, txLim, ram, totalBits, fill, frameLen, bitCursor, latchWritten>>
      /\ IF pos = Ram - 1 THEN pos' = 0 ELSE pos' = pos + 1
      /\ \A s \in Slots : Ahead(s)' = IF s = pos THEN Ram - 1 ELSE Ahead(s) - 1
      /\ Len(wire') = Len(wire) + 1
      /\ adv' = (IF isr = "idle" THEN 0 ELSE adv + 1)
      /\ ram[pos] # STOP
      /\ isr # "idle" => adv < Refilled + Burst
      /\ pend'.thr => pend.thr \/ pos' = txLim \/ (txLim = Ram /\ pos' = 0)
  BY EmitMoves
<1>2. Left(k, e) > 0
  BY <1>r, <1>0, <1>1 DEF InRefill, Left, HalfEnd
<1>3. Sent(k)' = Sent(k) + 1 /\ Sent(k) \in Nat
  BY <1>r, <1>0, <1>1 DEF Sent
<1>4. UNCHANGED <<GuardAt, HalfEnd, Refilled, FreeHalf>>
  BY <1>r, <1>1 DEF GuardAt, HalfEnd, Refilled, FreeHalf, InSecond
<1>5. Left(k, e)' = Left(k, e) - 1
  <2>1. CASE isr = "idle"
    <3>1. GuardAt \in Slots
      BY <1>r DEF GuardAt
    <3>2. Ahead(GuardAt)' = IF GuardAt = pos THEN Ram - 1 ELSE Ahead(GuardAt) - 1
      BY <1>r, <1>1, <1>4, <3>1 DEF Ahead
    <3>3. Ahead(GuardAt) \in 0 .. Ram - 1 /\ (Ahead(GuardAt) = 0 <=> pos = GuardAt)
      BY <1>r, <3>1, AheadRange
    <3>4. ~(pos' = GuardAt' /\ (Sent(k)' = 0 \/ e = Ram))
      <4>1. CASE e = 0
        BY <1>r, <1>3, <3>1, <4>1
      <4>2. CASE e = Ram
        <5>1. Left(k, e) > 1
          BY <1>r, <2>1, <4>2
        <5>2. Ahead(GuardAt) # 1
          BY <1>r, <2>1, <3>3, <5>1 DEF Left
        <5> QED
          BY <1>r, <1>1, <1>4, <3>1, <5>2 DEF Ahead
      <4> QED
        BY <1>r, <4>1, <4>2
    <3> QED
      BY <1>r, <1>1, <1>2, <1>4, <2>1, <3>2, <3>3, <3>4 DEF Left
  <2>2. CASE isr # "idle"
    BY <1>r, <1>1, <1>4, <2>2 DEF Left, HalfEnd
  <2> QED
    BY <1>r, <2>1, <2>2
<1>6. ram[pos] = Content(Sent(k)) /\ Sent(k) <= totalBits
  <2>1. Ahead(pos) = 0
    BY <1>r DEF Ahead
  <2>2. ram[pos] = Content(Sent(k) + 0)
    BY <1>r, <1>2, <2>1 DEF RingInv, InWindow
  <2>3. ram[pos] = Content(Sent(k))
    BY <1>r, <1>3, <2>2
  <2>4. Content(Sent(k)) # STOP /\ Sent(k) <= totalBits + 1
    BY <1>1, <2>3 DEF RingInv
  <2> QED
    BY <1>r, <1>3, <2>3, <2>4 DEF Content
<1>7. isr' # "idle" => InRefill'
  <2> SUFFICES ASSUME isr # "idle" PROVE InRefill'
    BY <1>r, <1>1
  <2>1. adv' <= Half + Burst /\ adv' = adv + 1
    BY <1>r, <1>1
  <2>2. /\ posBefore + Burst <= HalfEnd
        /\ (pos = posBefore + adv \/ pos = posBefore + adv - Ram)
        /\ txLim = IF isr # "limit" THEN HalfEnd ELSE IF InSecond THEN Half ELSE Ram
        /\ fill["isr"].stage # "off" => fill["isr"].end = FreeHalf + Half
        /\ pend.thr => posBefore + adv >= HalfEnd
    BY <1>r, <1>0 DEF InRefill
  <2>3. pos' = posBefore + adv' \/ pos' = posBefore + adv' - Ram
    <3>a. adv + 1 <= Half + Burst /\ HalfEnd <= Ram /\ posBefore + Burst <= HalfEnd
      BY <2>1, <2>2 DEF HalfEnd
    <3>b. posBefore + (adv + 1) <= Ram + Half
      BY <1>r, <3>a DEF HalfEnd
    <3>1. posBefore + adv' <= Ram + Half
      BY <2>1, <3>b
    <3>2. posBefore + adv' # 2 * Ram
      BY <1>r, <1>1, <3>1
    <3> QED
      BY <1>r, <1>1, <2>1, <2>2, <3>2
  <2>4. pend'.thr => posBefore + adv' >= HalfEnd
    <3>1. CASE pend.thr
      BY <1>r, <2>1, <2>2, <3>1 DEF HalfEnd
    <3>2. CASE pos' = txLim \/ (txLim = Ram /\ pos' = 0)
      <4>1. CASE isr = "limit"
        <5>1. posBefore + adv' <= HalfEnd
          BY <1>r, <1>1, <2>1, <2>2, <4>1 DEF HalfEnd
        <5> QED
          BY <1>r, <1>1, <2>1, <2>2, <2>3, <3>2, <4>1, <5>1 DEF HalfEnd, InSecond
      <4>2. CASE isr # "limit"
        BY <1>r, <1>1, <2>1, <2>2, <2>3, <3>2, <4>2 DEF HalfEnd, InSecond
      <4> QED
        BY <1>r, <4>1, <4>2
    <3> QED
      BY <1>r, <1>1, <3>1, <3>2
  <2>5. UNCHANGED InSecond
    BY <1>r, <1>1 DEF InSecond
  <2> QED
    BY <1>r, <1>1, <1>4, <2>1, <2>2, <2>3, <2>4, <2>5 DEF InRefill
<1>8. isr = "idle" /\ pend'.thr => Left(k, e)' <= Half
  <2> SUFFICES ASSUME isr = "idle", pend'.thr PROVE Left(k, e)' <= Half
    OBVIOUS
  <2>1. CASE pend.thr
    BY <1>r, <1>0, <1>5, <2>1 DEF RingInv
  <2>2. CASE pos' = txLim \/ (txLim = Ram /\ pos' = 0)
    <3>1. Left(k, e)' \in {Ram, Half}
      BY <1>r, <1>1, <2>2 DEF Left, Ahead, GuardAt
    <3> QED
      BY <1>r, <1>0, <1>5, <3>1
  <2> QED
    BY <1>r, <1>1, <2>1, <2>2
<1>11. Place(k)'
  <2>1. Place(k) /\ UNCHANGED InSecond
    BY <1>r, <1>1 DEF RingInv, InSecond
  <2>2. Sent(k)' <= Ram => pos' = Sent(k)' \/ (Sent(k)' = Ram /\ pos' = 0)
    BY <1>r, <1>1, <1>3, <2>1 DEF Place
  <2>3. txLim' = Ram => Sent(k)' >= Half
    BY <1>1, <1>3, <2>1 DEF Place
  <2>4. isr' # "idle" => Sent(k)' >= adv' + (IF InSecond' THEN Half ELSE Ram)
    BY <1>r, <1>1, <1>3, <2>1 DEF Place
  <2>5. isr' # "idle" /\ ~InSecond' /\ posBefore' # 0 => Sent(k)' > adv' + Ram
    BY <1>r, <1>1, <1>3, <2>1 DEF Place
  <2> QED
    BY <2>2, <2>3, <2>4, <2>5 DEF Place
<1>9. Cursor(fill["isr"], Sent(k) + Left(k, e))'
  <2>1. Sent(k)' + Left(k, e)' = Sent(k) + Left(k, e)
    BY <1>r, <1>0, <1>3, <1>5
  <2> QED
    BY <1>r, <1>1, <2>1 DEF RingInv, Cursor, Upto
<1>10. InWindow(k, e)'
  <2> SUFFICES ASSUME NEW s \in Slots, Ahead(s)' < Left(k, e)' PROVE ram[s] = Content(Sent(k)' + Ahead(s)')
    BY <1>r, <1>1 DEF InWindow, Content
  <2>1. s # pos
    BY <1>r, <1>0, <1>1, <1>5
  <2>3. Ahead(s) \in Nat
    BY <1>r, AheadRange
  <2>4. Ahead(s)' = Ahead(s) - 1
    BY <1>r, <1>1, <2>1
  <2>5. Ahead(s) < Left(k, e)
    BY <1>0, <1>5, <2>3, <2>4
  <2>2. Ahead(s) < Left(k, e) /\ Sent(k)' + Ahead(s)' = Sent(k) + Ahead(s)
    BY <1>3, <2>3, <2>4, <2>5
  <2> QED
    BY <1>r, <2>2 DEF RingInv, InWindow
<1>12. RingInv(k, e)'
  <2>1. Left(k, e)' \in 0 .. Ram
    BY <1>r, <1>0, <1>2, <1>5
  <2>2. Sent(k)' <= totalBits' + 1
    BY <1>r, <1>1, <1>3, <1>6
  <2>3. k \in 0 .. Len(wire')
    BY <1>r, <1>0, <1>1
  <2>4. frameLen' = totalBits' /\ (isr' = "idle" /\ pend'.thr => Left(k, e)' <= Half)
    BY <1>0, <1>1, <1>8
  <2> QED
    BY <1>7, <1>9, <1>10, <1>11, <2>1, <2>2, <2>3, <2>4 DEF RingInv
<1> QED
  BY <1>5, <1>6, <1>12

\* A step that leaves the ring alone keeps its invariant.
LEMMA RingStill ==
    ASSUME RangesOK, NEW k, NEW e \in {0, Ram}, RingInv(k, e), pend'.thr => pend.thr,
           UNCHANGED <<ram, pos, txLim, wire, frameLen, totalBits, bitCursor,
                       latchWritten, isr, posBefore, adv, fill>>
    PROVE  RingInv(k, e)' /\ Left(k, e)' = Left(k, e) /\ Sent(k)' = Sent(k)
<1>1. /\ Left(k, e)' = Left(k, e) /\ Sent(k)' = Sent(k) /\ HalfEnd' = HalfEnd
      /\ UNCHANGED <<InSecond, FreeHalf>>
  BY DEF Left, Sent, Ahead, GuardAt, HalfEnd, Refilled, InSecond, FreeHalf
<1>2. isr # "idle" => InRefill'
  BY <1>1 DEF RingInv, InRefill
<1>3. Cursor(fill["isr"], Sent(k) + Left(k, e))'
  BY <1>1 DEF RingInv, Cursor, Upto
<1>4. InWindow(k, e)'
  BY <1>1 DEF RingInv, InWindow, Ahead, Content
<1>5. Place(k)'
  BY <1>1 DEF RingInv, Place
<1> QED
  BY <1>1, <1>2, <1>3, <1>4, <1>5 DEF RingInv

\* refill up to the read of pos_before: the fresh words now end with the half.
LEMMA RingBegin ==
    ASSUME RangesOK, NEW k, NEW e \in {0, Ram}, RingInv(k, e), RefillBegin, ~frameComplete,
           Left(k, e) \in 1 .. Half, Burst <= Left(k, e)
    PROVE  /\ RingInv(k, e)' /\ Left(k, e)' = Left(k, e) /\ Sent(k)' = Sent(k)
           /\ isr' = "limit" /\ posBefore' = pos /\ adv' = 0 /\ pend' = NoCause /\ lat' = 0
<1>1. /\ isr = "idle" /\ isr' = "limit" /\ posBefore' = pos /\ adv' = 0 /\ pend' = NoCause
      /\ lat' = 0
      /\ UNCHANGED <<ram, pos, txLim, wire, frameLen, totalBits, bitCursor, latchWritten, fill>>
  BY DEF RefillBegin, MayTake, frameVars
<1>2. Sent(k)' = Sent(k)
  BY <1>1 DEF Sent
<1>3. pos \in 0 .. Ram - 1 /\ txLim \in {Half, Ram} /\ Burst \in Nat /\ Len(wire) \in Nat
      /\ k \in 0 .. Len(wire) /\ Sent(k) \in Nat
  BY DEF RangesOK, RingInv, Sent
<1>4. Left(k, e) = Ahead(GuardAt)
  BY <1>1 DEF Left
<1>5. IF txLim = Half THEN pos >= Half /\ Left(k, e) = Ram - pos
                      ELSE pos < Half /\ Left(k, e) = Half - pos
  BY <1>3, <1>4 DEF Ahead, GuardAt
<1>6. (InSecond' <=> pos >= Half) /\ HalfEnd' = (IF pos >= Half THEN Ram ELSE Half)
  BY <1>1 DEF InSecond, HalfEnd
<1>7. Left(k, e)' = Left(k, e)
  <2>1. Refilled' = 0
    BY <1>1 DEF Refilled
  <2> QED
    BY <1>1, <1>3, <1>5, <1>6, <2>1 DEF Left
<1>8. InRefill'
  <2>1. fill'["isr"].stage = "off"
    BY <1>1 DEF RangesOK
  <2>2. ~pend'.thr
    BY <1>1 DEF NoCause
  <2>3. posBefore' + Burst <= HalfEnd' /\ adv' <= Half + Burst
    BY <1>1, <1>3, <1>5, <1>6
  <2>4. txLim' = IF InSecond' THEN Half ELSE Ram
    BY <1>1, <1>3, <1>5, <1>6
  <2>5. pos' = posBefore' + adv'
    BY <1>1, <1>3
  <2> QED
    BY <1>1, <2>1, <2>2, <2>3, <2>4, <2>5 DEF InRefill
<1>9. Cursor(fill["isr"], Sent(k) + Left(k, e))'
  BY <1>1, <1>2, <1>7 DEF RingInv, Cursor, Upto
<1>10. InWindow(k, e)'
  BY <1>1, <1>2, <1>7 DEF RingInv, InWindow, Ahead, Content
<1>11. Place(k)'
  <2>1. /\ Sent(k) <= Ram => pos = Sent(k) \/ (Sent(k) = Ram /\ pos = 0)
        /\ txLim = Ram => Sent(k) >= Half
    BY DEF RingInv, Place
  <2>2. Sent(k) >= IF pos >= Half THEN Half ELSE Ram
    BY <1>3, <1>5, <2>1
  <2>3. pos < Half /\ pos # 0 => Sent(k) > Ram
    BY <1>3, <1>5, <2>1
  <2> QED
    BY <1>1, <1>2, <1>3, <1>6, <2>1, <2>2, <2>3 DEF Place
<1> QED
  BY <1>1, <1>2, <1>7, <1>8, <1>9, <1>10, <1>11 DEF RingInv

\* set_tx_threshold: the next event is for the end of the half being sent.
LEMMA RingLimit ==
    ASSUME RangesOK, NEW k, NEW e \in {0, Ram}, RingInv(k, e), RefillLimit
    PROVE  RingInv(k, e)' /\ Left(k, e)' = Left(k, e) /\ Sent(k)' = Sent(k)
<1>1. /\ isr = "limit" /\ isr' = "guard" /\ txLim' = NextThreshold
      /\ UNCHANGED <<ram, pos, wire, frameLen, totalBits, bitCursor, latchWritten, fill,
                     posBefore, adv, pend>>
  BY DEF RefillLimit, frameVars
<1>2. Sent(k)' = Sent(k) /\ UNCHANGED <<InSecond, HalfEnd, FreeHalf>> /\ NextThreshold = HalfEnd
  BY <1>1 DEF Sent, InSecond, HalfEnd, FreeHalf, NextThreshold
<1>3. Left(k, e)' = Left(k, e)
  BY <1>1, <1>2 DEF Left, Refilled
<1>4. InRefill'
  BY <1>1, <1>2 DEF RingInv, InRefill
<1>5. Cursor(fill["isr"], Sent(k) + Left(k, e))'
  BY <1>1, <1>2, <1>3 DEF RingInv, Cursor, Upto
<1>6. InWindow(k, e)'
  BY <1>1, <1>2, <1>3 DEF RingInv, InWindow, Ahead, Content
<1>7. Place(k)'
  <2>1. Place(k) /\ adv \in Nat /\ Sent(k) \in Int
    BY DEF RingInv, RangesOK, Sent
  <2> QED
    BY <1>1, <1>2, <2>1 DEF Place, HalfEnd
<1> QED
  BY <1>1, <1>2, <1>3, <1>4, <1>5, <1>6, <1>7 DEF RingInv

\* The guard goes into a word that was sent already.
LEMMA RingGuard ==
    ASSUME RangesOK, NEW k, NEW e \in {0, Ram}, RingInv(k, e), RefillGuard
    PROVE  /\ RingInv(k, e)' /\ Left(k, e)' = Left(k, e) /\ Sent(k)' = Sent(k)
           /\ isr' = "fill" /\ Refilled' = 0
           /\ posBefore # GuardSlot => ram'[GuardSlot] = STOP
<1>1. /\ isr = "guard" /\ isr' = "fill"
      /\ fill' = [fill EXCEPT !["isr"] = FillFrom(FreeHalf)]
      /\ UNCHANGED <<txLim, pos, wire, frameLen, totalBits, bitCursor, latchWritten,
                     posBefore, adv, pend>>
      /\ IF posBefore = GuardSlot THEN UNCHANGED ram ELSE ram' = [ram EXCEPT ![GuardSlot] = STOP]
  BY DEF RefillGuard, frameVars
<1>2. Sent(k)' = Sent(k) /\ UNCHANGED <<InSecond, HalfEnd, FreeHalf>>
  BY <1>1 DEF Sent, InSecond, HalfEnd, FreeHalf
<1>3. fill'["isr"] = FillFrom(FreeHalf)
  BY <1>1 DEF RangesOK, Contexts
<1>4. /\ fill'["isr"].stage = "data" /\ fill'["isr"].word = FreeHalf
      /\ fill'["isr"].end = FreeHalf + Half /\ fill'["isr"].cur = bitCursor
  BY <1>3 DEF FillFrom
<1>5. Refilled = 0 /\ Refilled' = 0 /\ fill["isr"].stage = "off"
  BY <1>1, <1>4 DEF Refilled, FreeHalf, RangesOK
<1>6. Left(k, e)' = Left(k, e)
  BY <1>1, <1>2, <1>5 DEF Left
<1>7. InRefill'
  BY <1>1, <1>2, <1>4 DEF RingInv, InRefill
<1>8. Cursor(fill["isr"], Sent(k) + Left(k, e))'
  BY <1>1, <1>2, <1>4, <1>5, <1>6 DEF RingInv, Cursor, Upto
<1>9. InWindow(k, e)'
  <2>1. CASE posBefore = GuardSlot
    BY <1>1, <1>2, <1>6, <2>1 DEF RingInv, InWindow, Ahead, Content
  <2>2. CASE posBefore # GuardSlot
    <3>1. GuardSlot = HalfEnd - Half /\ posBefore > GuardSlot /\ posBefore < HalfEnd
      BY <2>2 DEF GuardSlot, HalfEnd, InSecond, RangesOK
    <3>2. /\ Left(k, e) = HalfEnd - posBefore - adv /\ Left(k, e) >= 0
          /\ pos = posBefore + adv \/ pos = posBefore + adv - Ram
      BY <1>1, <1>5 DEF Left, RingInv, InRefill, HalfEnd, RangesOK
    <3>3. GuardSlot \in Slots /\ Ahead(GuardSlot) >= Left(k, e)
      BY <3>1, <3>2 DEF Ahead, RangesOK, HalfEnd
    <3>4. \A s \in Slots : Ahead(s)' = Ahead(s) /\ (s # GuardSlot => ram'[s] = ram[s])
      BY <1>1, <2>2, <3>3 DEF Ahead, RangesOK
    <3>5. \A s \in Slots : Ahead(s) \in Nat
      BY AheadRange
    <3> SUFFICES ASSUME NEW s \in Slots, Ahead(s) < Left(k, e)
                 PROVE  ram'[s] = Content(Sent(k) + Ahead(s))
      BY <1>1, <1>2, <1>6, <3>4 DEF InWindow, Content
    <3>6. s # GuardSlot
      BY <3>2, <3>3, <3>5 DEF RingInv
    <3> QED
      BY <3>4, <3>6 DEF RingInv, InWindow
  <2> QED
    BY <2>1, <2>2
<1>10. Place(k)'
  BY <1>1, <1>2 DEF RingInv, Place
<1>11. posBefore # GuardSlot => ram'[GuardSlot] = STOP
  BY <1>1 DEF RangesOK, GuardSlot
<1> QED
  BY <1>1, <1>2, <1>5, <1>6, <1>7, <1>8, <1>9, <1>10, <1>11 DEF RingInv

\* At the end of a refill the fresh words reach the guard it planted.
LEMMA RingEnd ==
    ASSUME RangesOK, NEW k, NEW e \in {0, Ram}, RingInv(k, e), RefillEnd,
           Left(k, e) = Ram => e = Ram, Left(k, e) = 0 => e = 0
    PROVE  /\ RingInv(k, e)' /\ Left(k, e)' = Left(k, e) /\ Sent(k)' = Sent(k)
           /\ isr' = "idle" /\ GuardAt' = GuardSlot
<1>1. /\ isr = "fill" /\ isr' = "idle" /\ fill["isr"].stage = "off" /\ adv' = 0
      /\ UNCHANGED <<ram, txLim, pos, wire, frameLen, totalBits, bitCursor, latchWritten,
                     fill, pend>>
  BY DEF RefillEnd, frameVars, hwVars
<1>2. Sent(k)' = Sent(k) /\ GuardAt' = GuardAt
  BY <1>1 DEF Sent, GuardAt
<1>3. /\ Refilled = Half /\ posBefore \in 0 .. Ram - 1 /\ adv \in Nat /\ pos \in 0 .. Ram - 1
      /\ k \in 0 .. Len(wire) /\ Len(wire) \in Nat /\ Left(k, e) \in 0 .. Ram
  BY <1>1 DEF RangesOK, RingInv
<1>4. /\ txLim = HalfEnd
      /\ pos = posBefore + adv \/ pos = posBefore + adv - Ram
      /\ pend.thr => posBefore + adv >= HalfEnd
      /\ Sent(k) >= adv + Half
  <2>1. InRefill /\ Place(k) /\ Sent(k) \in Int
    BY <1>1, <1>3 DEF RingInv, Sent
  <2>2. Sent(k) >= adv + Half
    BY <1>1, <1>3, <2>1 DEF Place
  <2> QED
    BY <1>1, <2>1, <2>2 DEF InRefill
<1>5. GuardAt = GuardSlot /\ GuardSlot = HalfEnd - Half /\ HalfEnd \in {Half, Ram}
  BY <1>4 DEF GuardAt, GuardSlot, HalfEnd
<1>6. Left(k, e) = GuardAt + Ram - (posBefore + adv)
  BY <1>1, <1>3, <1>5 DEF Left
<1>7. Left(k, e)' = Left(k, e)
  <2>1. Sent(k) # 0 /\ Ahead(GuardAt)' = Ahead(GuardAt)
    <3>1. Sent(k) # 0
      BY <1>3, <1>4
    <3> QED
      BY <1>1, <1>2, <3>1 DEF Ahead
  <2>2. pos = GuardAt <=> Left(k, e) \in {0, Ram}
    BY <1>3, <1>4, <1>5, <1>6
  <2>3. pos # GuardAt => Ahead(GuardAt) = Left(k, e)
    BY <1>3, <1>4, <1>5, <1>6 DEF Ahead
  <2>4. pos = GuardAt => Ahead(GuardAt) = 0
    BY <1>3 DEF Ahead
  <2> QED
    BY <1>1, <1>2, <2>1, <2>2, <2>3, <2>4 DEF Left
<1>8. pend.thr => Left(k, e) <= Half
  BY <1>3, <1>4, <1>5, <1>6
<1>9. Cursor(fill["isr"], Sent(k) + Left(k, e))'
  BY <1>1, <1>2, <1>7 DEF RingInv, Cursor, Upto
<1>10. InWindow(k, e)'
  BY <1>1, <1>2, <1>7 DEF RingInv, InWindow, Ahead, Content
<1>11. Place(k)'
  BY <1>1, <1>2 DEF RingInv, Place
<1> QED
  BY <1>1, <1>2, <1>5, <1>7, <1>8, <1>9, <1>10, <1>11 DEF RingInv

\* A step of fill_half writes word n of the frame, or none, and moves the cursor.
LEMMA FillContent ==
    ASSUME TypeInv, NEW c \in Contexts, NEW n \in Nat, frameLen = totalBits, Cursor(fill[c], n),
           FillHalf(c)
    PROVE  /\ fill[c].stage # "off" /\ fill[c].word \in 0 .. Ram
           /\ UNCHANGED <<totalBits, frameLen>>
           /\ \A d \in Contexts : d # c => fill'[d] = fill[d]
           /\ \/ /\ fill[c].word < fill[c].end
                 /\ ram' = [ram EXCEPT ![fill[c].word] = Content(n)]
                 /\ fill'[c].stage # "off" /\ fill'[c].word = fill[c].word + 1
                 /\ fill'[c].end = fill[c].end
                 /\ Cursor(fill[c], n + 1)'
              \/ /\ ram' = ram
                 /\ fill'[c].stage # "off" /\ fill'[c].word = fill[c].word
                 /\ fill'[c].end = fill[c].end
                 /\ Cursor(fill[c], n)'
              \/ /\ ram' = ram
                 /\ fill[c].word = fill[c].end /\ fill'[c] = NoFill
                 /\ Cursor(fill[c], n)'
<1> DEFINE f == fill[c]
<1>1. /\ f \in FillLocals /\ InHalf(f) /\ fill \in [Contexts -> FillLocals] /\ totalBits \in Nat
      /\ f.word \in 0 .. Ram /\ f.cur \in 0 .. totalBits /\ latchWritten \in BOOLEAN
  BY DEF TypeInv, TypeOK, ControlOK, ChannelOK, FlagsOK, FillInv, FillLocals
<1>2. f.stage # "off" => f.word <= f.end /\ f.end \in {Half, Ram}
  BY <1>1 DEF InHalf
<1>3. UNCHANGED <<totalBits, frameLen>>
  BY DEF FillHalf
<1>4. \A g : fill' = [fill EXCEPT ![c] = g] =>
                 fill'[c] = g /\ \A d \in Contexts : d # c => fill'[d] = fill[d]
  BY <1>1
<1>5. CASE FillData(c)
  <2>1. /\ f.stage = "data" /\ f.word < f.end /\ f.cur < totalBits
        /\ ram' = [ram EXCEPT ![f.word] = DataWord(f.cur)]
        /\ fill' = [fill EXCEPT ![c] = [f EXCEPT !.word = f.word + 1, !.cur = f.cur + 1]]
        /\ UNCHANGED <<bitCursor, latchWritten>>
    BY <1>5 DEF FillData, MoreData
  <2>2. /\ fill'[c].stage = "data" /\ fill'[c].word = f.word + 1
        /\ fill'[c].end = f.end /\ fill'[c].cur = f.cur + 1
    BY <1>1, <1>4, <2>1 DEF FillLocals
  <2>3. f.cur = n /\ n < totalBits
    BY <1>1, <2>1 DEF Cursor, Upto
  <2>4. DataWord(f.cur) = Content(n)
    BY <2>3 DEF DataWord, Content
  <2>5. Cursor(fill[c], n + 1)'
    BY <1>1, <1>3, <2>1, <2>2, <2>3 DEF Cursor, Upto
  <2> QED
    BY <1>1, <1>3, <1>4, <2>1, <2>2, <2>4, <2>5
<1>6. CASE FillSettle(c)
  <2> DEFINE needsMore == f.cur < totalBits \/ (~latchWritten /\ f.word = f.end)
             writesLatch == ~needsMore /\ ~latchWritten
             g == [f EXCEPT !.stage = "stop",
                            !.word = IF writesLatch THEN f.word + 1 ELSE f.word]
  <2>1. /\ f.stage = "data" /\ ~(f.word < f.end /\ f.cur < totalBits)
        /\ bitCursor' = f.cur /\ latchWritten' = (latchWritten \/ writesLatch)
        /\ ram' = (IF writesLatch THEN [ram EXCEPT ![f.word] = LATCH] ELSE ram)
        /\ fill' = [fill EXCEPT ![c] = IF needsMore THEN NoFill ELSE g]
    BY <1>6 DEF FillSettle, MoreData
  <2>2. f.cur = Upto(n) /\ (latchWritten <=> n > totalBits)
    BY <2>1 DEF Cursor
  <2> HIDE DEF g
  <2>3. CASE needsMore
    <3>1. f.word = f.end /\ latchWritten' = latchWritten /\ ram' = ram
      BY <1>1, <1>2, <2>1, <2>3
    <3>2. fill'[c] = NoFill
      BY <1>4, <2>1, <2>3
    <3>3. Cursor(fill[c], n)'
      BY <1>3, <2>1, <2>2, <3>1, <3>2 DEF Cursor, Upto, NoFill
    <3> QED
      BY <1>1, <1>3, <1>4, <2>1, <3>1, <3>2, <3>3
  <2>4. CASE ~needsMore
    <3>1. f.cur = totalBits /\ (writesLatch <=> ~latchWritten)
      BY <1>1, <2>4
    <3>2. fill'[c] = g
      BY <1>4, <2>1, <2>4
    <3>3. /\ g.stage = "stop" /\ g.end = f.end
          /\ g.word = IF writesLatch THEN f.word + 1 ELSE f.word
      BY <1>1 DEF g, FillLocals
    <3>4. CASE latchWritten
      <4>1. Cursor(fill[c], n)'
        BY <1>3, <2>1, <2>2, <3>1, <3>2, <3>3, <3>4 DEF Cursor
      <4> QED
        BY <1>1, <1>3, <1>4, <2>1, <3>1, <3>2, <3>3, <3>4, <4>1
    <3>5. CASE ~latchWritten
      <4>1. n = totalBits /\ f.word < f.end
        BY <1>1, <1>2, <2>1, <2>2, <2>4, <3>1, <3>5 DEF Upto
      <4>5. latchWritten'
        BY <2>1, <3>1, <3>5
      <4>4. latchWritten' /\ bitCursor' = totalBits' /\ n + 1 > totalBits'
        BY <1>1, <1>3, <2>1, <3>1, <4>1, <4>5
      <4>2. Cursor(fill[c], n + 1)'
        BY <3>2, <3>3, <4>4 DEF Cursor
      <4>3. LATCH = Content(n)
        BY <4>1 DEF Content
      <4> QED
        BY <1>1, <1>3, <1>4, <2>1, <3>1, <3>2, <3>3, <3>5, <4>1, <4>2, <4>3
    <3> QED
      BY <3>4, <3>5
  <2> QED
    BY <2>3, <2>4
<1>7. CASE FillStop(c)
  <2>1. f.stage = "stop" /\ UNCHANGED <<bitCursor, latchWritten>>
    BY <1>7 DEF FillStop
  <2>2. bitCursor = totalBits /\ n > totalBits
    BY <2>1 DEF Cursor
  <2>3. CASE f.word < f.end
    <3>1. /\ ram' = [ram EXCEPT ![f.word] = STOP]
          /\ fill' = [fill EXCEPT ![c] = [f EXCEPT !.word = f.word + 1]]
      BY <1>7, <2>3 DEF FillStop
    <3>2. fill'[c].stage = "stop" /\ fill'[c].word = f.word + 1 /\ fill'[c].end = f.end
      BY <1>1, <1>4, <2>1, <3>1 DEF FillLocals
    <3>3. Cursor(fill[c], n + 1)'
      BY <1>1, <1>3, <2>1, <2>2, <3>2 DEF Cursor
    <3>4. STOP = Content(n)
      BY <1>1, <2>2 DEF Content
    <3> QED
      BY <1>1, <1>3, <1>4, <2>1, <2>3, <3>1, <3>2, <3>3, <3>4
  <2>4. CASE ~(f.word < f.end)
    <3>1. ram' = ram /\ fill' = [fill EXCEPT ![c] = NoFill]
      BY <1>7, <2>4 DEF FillStop
    <3>2. fill'[c] = NoFill /\ f.word = f.end
      BY <1>1, <1>2, <1>4, <2>1, <2>4, <3>1
    <3>3. Cursor(fill[c], n)'
      BY <1>1, <1>3, <2>1, <2>2, <3>2 DEF Cursor, Upto, NoFill
    <3> QED
      BY <1>1, <1>3, <1>4, <2>1, <3>1, <3>2, <3>3
  <2> QED
    BY <2>3, <2>4
<1> QED
  BY <1>5, <1>6, <1>7 DEF FillHalf

\* A word written by the refill is the next fresh one.
LEMMA RingFill ==
    ASSUME TypeInv, NEW k, NEW e \in {0, Ram}, RingInv(k, e), RefillFill
    PROVE  /\ RingInv(k, e)' /\ Sent(k)' = Sent(k)
           /\ Left(k, e)' - Refilled' = Left(k, e) - Refilled
           /\ \A s \in Slots : ram'[s] # ram[s] =>
                 s \in FreeHalf .. FreeHalf + Half - 1
<1> DEFINE f == fill["isr"]
<1>1. /\ isr = "fill" /\ FillHalf("isr")
      /\ UNCHANGED <<txLim, pos, wire, isr, posBefore, adv, pend>>
  BY DEF RefillFill, FillHalf, isrVars
<1>r. RangesOK
  BY Ranges
<1>2. Sent(k)' = Sent(k) /\ UNCHANGED <<InSecond, HalfEnd, FreeHalf>>
  BY <1>1 DEF Sent, InSecond, HalfEnd, FreeHalf
<1>3. /\ posBefore \in 0 .. Ram - 1 /\ adv \in Nat /\ pos \in 0 .. Ram - 1 /\ Refilled \in 0 .. Half
      /\ k \in 0 .. Len(wire) /\ Len(wire) \in Nat /\ Sent(k) \in Nat
      /\ Left(k, e) \in 0 .. Ram /\ frameLen = totalBits /\ totalBits \in Nat
      /\ ram \in [Slots -> Word]
  BY <1>r DEF RangesOK, RingInv, Sent
<1>4. InRefill /\ Cursor(f, Sent(k) + Left(k, e)) /\ InWindow(k, e) /\ Place(k)
  BY <1>1 DEF RingInv
<1>5. PICK n \in Nat : n = Sent(k) + Left(k, e)
  BY <1>3
<1>6. /\ f.stage # "off" /\ f.word \in 0 .. Ram
      /\ UNCHANGED <<totalBits, frameLen>>
      /\ \/ /\ f.word < f.end
            /\ ram' = [ram EXCEPT ![f.word] = Content(n)]
            /\ f'.stage # "off" /\ f'.word = f.word + 1 /\ f'.end = f.end
            /\ Cursor(f, n + 1)'
         \/ /\ ram' = ram
            /\ f'.stage # "off" /\ f'.word = f.word /\ f'.end = f.end
            /\ Cursor(f, n)'
         \/ /\ ram' = ram
            /\ f.word = f.end /\ f' = NoFill
            /\ Cursor(f, n)'
  <2>1. Cursor(f, n) /\ "isr" \in Contexts
    BY <1>4, <1>5 DEF Contexts
  <2> QED
    BY <1>1, <1>3, <2>1, FillContent
<1>7. f.end = FreeHalf + Half /\ Refilled = f.word - FreeHalf /\ FreeHalf \in {0, Half}
  BY <1>1, <1>4, <1>6 DEF InRefill, Refilled, FreeHalf
<1>8. /\ pos = posBefore + adv \/ pos = posBefore + adv - Ram
      /\ Left(k, e) = HalfEnd - posBefore - adv + Refilled
      /\ HalfEnd = IF FreeHalf = 0 THEN Ram ELSE Half
      /\ InSecond <=> FreeHalf = 0
  BY <1>1, <1>4 DEF InRefill, Left, HalfEnd, FreeHalf
<1>w. f.word \in 0 .. Ram /\ HalfEnd \in {Half, Ram} /\ HalfEnd - posBefore <= Half
  BY <1>3, <1>6, <1>8 DEF InSecond
<1>9. ASSUME f'.stage # "off" => f'.end = f.end, Refilled' = Refilled, ram' = ram, Cursor(f, n)'
      PROVE  RingInv(k, e)'
  <2>1. Left(k, e)' = Left(k, e)
    BY <1>1, <1>2, <1>9 DEF Left
  <2>2. InRefill'
    BY <1>1, <1>2, <1>4, <1>6, <1>9 DEF InRefill
  <2>3. n = Sent(k)' + Left(k, e)'
    BY <1>2, <1>5, <2>1
  <2>4. Cursor(f, Sent(k) + Left(k, e))'
    BY <1>9, <2>3 DEF Cursor, Upto
  <2>5. InWindow(k, e)'
    BY <1>1, <1>2, <1>4, <1>6, <1>9, <2>1 DEF InWindow, Ahead, Content
  <2>6. Place(k)'
    BY <1>1, <1>2, <1>4 DEF Place
  <2> QED
    BY <1>1, <1>2, <1>3, <1>6, <2>1, <2>2, <2>4, <2>5, <2>6 DEF RingInv
<1>10. CASE /\ f.word < f.end
            /\ ram' = [ram EXCEPT ![f.word] = Content(n)]
            /\ f'.stage # "off" /\ f'.word = f.word + 1 /\ f'.end = f.end
            /\ Cursor(f, n + 1)'
  <2>0. f.word < f.end
    BY <1>10
  <2>e. /\ Refilled \in 0 .. Half - 1 /\ Refilled = f.word - FreeHalf /\ f.word = FreeHalf + Refilled
    <3>1. f.end = FreeHalf + Half /\ Refilled = f.word - FreeHalf
      BY <1>7
    <3>2. FreeHalf \in Int /\ f.word \in Int /\ Refilled \in Nat
      BY <1>3, <1>7, <1>w
    <3> HIDE DEF f
    <3> QED
      BY <2>0, <3>1, <3>2
  <2>1. Refilled' = Refilled + 1 /\ Left(k, e)' = Left(k, e) + 1
    <3>1. Refilled' = Refilled + 1
      BY <1>1, <1>w, <1>7, <1>10 DEF Refilled
    <3>2. Left(k, e)' = HalfEnd - posBefore - adv + Refilled'
      BY <1>1, <1>2 DEF Left
    <3>3. HalfEnd \in {Half, Ram}
      BY <1>8
    <3> QED
      BY <1>3, <1>8, <3>1, <3>2, <3>3
  <2>2. Refilled < Half /\ f.word \in Slots /\ Left(k, e) \in 0 .. Ram - 1
    <3>1. Refilled < Half /\ f.word \in Slots
      BY <1>w, <1>7, <1>10
    <3>2. Left(k, e) = HalfEnd - posBefore - adv + Refilled
      BY <1>8
    <3> QED
      BY <1>3, <1>w, <3>1, <3>2
  <2>3. Ahead(f.word) = Left(k, e)
    <3> HIDE DEF f
    <3>9. /\ posBefore \in Nat /\ adv \in Nat /\ pos \in Nat /\ f.word \in Nat /\ Left(k, e) \in 0 .. Ram - 1
      BY <1>3, <1>w, <2>2
    <3>1. CASE FreeHalf = 0
      <4>1. Left(k, e) = Ram - (posBefore + adv) + f.word
        BY <1>3, <1>8, <1>w, <2>e, <3>1
      <4> QED
        <5>1. pos = posBefore + adv \/ pos = posBefore + adv - Ram
          BY <1>8
        <5>2. Ahead(f.word) \in {f.word - pos, f.word + Ram - pos} /\ Ahead(f.word) \in 0 .. Ram - 1
          BY <1>r, <2>2, AheadRange DEF Ahead
        <5> QED
          BY <3>9, <4>1, <5>1, <5>2
    <3>2. CASE FreeHalf = Half
      <4>1. Left(k, e) = f.word - (posBefore + adv)
        <5>1. Left(k, e) = HalfEnd - posBefore - adv + Refilled /\ f.word = Half + Refilled
          BY <1>8, <2>e, <3>2
        <5>2. HalfEnd = Half
          BY <1>8, <3>2
        <5>3. Refilled \in Nat
          BY <2>e
        <5> PICK l \in Int, r \in Int, w \in Int : l = Left(k, e) /\ r = Refilled /\ w = f.word
          BY <3>9, <5>3
        <5>4. l = Half - posBefore - adv + r /\ w = Half + r
          BY <5>1, <5>2
        <5>5. l = w - (posBefore + adv)
          BY ONLY <5>4, <3>9, l \in Int, r \in Int, w \in Int, HalfAssumption
        <5> QED
          BY <5>5
      <4> QED
        <5>1. pos = posBefore + adv \/ pos = posBefore + adv - Ram
          BY <1>8
        <5>2. Ahead(f.word) \in {f.word - pos, f.word + Ram - pos} /\ Ahead(f.word) \in 0 .. Ram - 1
          BY <1>r, <2>2, AheadRange DEF Ahead
        <5> QED
          BY <3>9, <4>1, <5>1, <5>2
    <3> QED
      BY <1>7, <3>1, <3>2
  <2>4. \A s \in Slots : s # f.word => Ahead(s) # Left(k, e)
    BY <1>r, <2>2, <2>3, AheadInjective
  <2>5. InRefill'
    BY <1>1, <1>2, <1>4, <1>6, <1>10 DEF InRefill
  <2>6. Cursor(f, Sent(k) + Left(k, e))'
    <3>1. n + 1 = Sent(k)' + Left(k, e)'
      BY <1>2, <1>3, <1>5, <2>1
    <3> QED
      BY <1>10, <3>1 DEF Cursor, Upto
  <2>7. InWindow(k, e)'
    <3> SUFFICES ASSUME NEW s \in Slots, Ahead(s) < Left(k, e) + 1
                 PROVE  ram'[s] = Content(Sent(k) + Ahead(s))
      BY <1>1, <1>2, <1>6, <2>1 DEF InWindow, Ahead, Content
    <3>1. CASE s = f.word
      BY <1>3, <1>5, <1>10, <2>3, <3>1
    <3>2. CASE s # f.word
      <4>1. Ahead(s) \in Nat
        BY <1>r, AheadRange
      <4>2. Ahead(s) < Left(k, e)
        BY <1>3, <2>4, <3>2, <4>1
      <4> QED
        BY <1>3, <1>4, <1>10, <3>2, <4>2 DEF InWindow
    <3> QED
      BY <3>1, <3>2
  <2>8. Place(k)'
    BY <1>1, <1>2, <1>4 DEF Place
  <2>9. RingInv(k, e)'
    <3>1. Left(k, e)' \in 0 .. Ram /\ Sent(k)' <= totalBits' + 1
      <4>1. Left(k, e) + 1 \in 0 .. Ram
        BY <2>2
      <4>2. Sent(k) <= totalBits + 1
        BY DEF RingInv
      <4> QED
        BY <1>1, <1>2, <1>6, <2>1, <4>1, <4>2
    <3>2. k \in 0 .. Len(wire') /\ frameLen' = totalBits' /\ isr' # "idle"
      BY <1>1, <1>3, <1>6
    <3> QED
      BY <2>5, <2>6, <2>7, <2>8, <3>1, <3>2 DEF RingInv
  <2>10. \A s \in Slots : ram'[s] # ram[s] => s \in FreeHalf .. FreeHalf + Half - 1
    <3>1. f.word \in FreeHalf .. FreeHalf + Half - 1
      BY <1>7, <2>e
    <3> QED
      BY <1>3, <1>10, <3>1
  <2> QED
    BY <1>2, <1>3, <2>1, <2>9, <2>10
<1>11. CASE /\ ram' = ram
            /\ f'.stage # "off" /\ f'.word = f.word /\ f'.end = f.end
            /\ Cursor(f, n)'
  <2>1. Refilled' = Refilled
    BY <1>1, <1>11 DEF Refilled
  <2>2. RingInv(k, e)' /\ Left(k, e)' = Left(k, e)
    BY <1>1, <1>2, <1>9, <1>11, <2>1 DEF Left
  <2> QED
    BY <1>2, <1>11, <2>1, <2>2
<1>12. CASE /\ ram' = ram
            /\ f.word = f.end /\ f' = NoFill
            /\ Cursor(f, n)'
  <2>1. Refilled' = Refilled
    BY <1>1, <1>7, <1>12 DEF Refilled, NoFill
  <2>2. RingInv(k, e)' /\ Left(k, e)' = Left(k, e)
    BY <1>1, <1>2, <1>9, <1>12, <2>1 DEF Left, NoFill
  <2> QED
    BY <1>2, <1>12, <2>1, <2>2
<1> QED
  BY <1>6, <1>10, <1>11, <1>12

-----------------------------------------------------------------------------
(*****************************************************************************)
(* What start_frame and abort leave to the transmitter and the handler.      *)
(*****************************************************************************)


\* What start_frame and abort leave the handler: a completed frame has a stopped
\* transmitter, a stopped one whose frame is not complete has raised its tx_end,
\* the handler runs only during a frame, and the descriptor is the frame's.
CallInv ==
    /\ frameComplete => ~running
    /\ Live /\ ~running => pend.end
    /\ isr # "idle" => Live
    /\ pc \in {"first", "second", "poll", "stop"} => frameLen = totalBits

\* Every step keeps CallInv.
LEMMA CallStep ==
    ASSUME ~Masked, ~Classic, TypeInv, StopInv, CallInv, [Next]_vars
    PROVE  CallInv'
<1> USE DEF CallInv, Live
<1>0. /\ pend \in [thr : BOOLEAN, end : BOOLEAN]
      /\ pc \in {"idle", "first", "second", "poll", "stop", "disarm", "publish"}
  BY DEF TypeInv, TypeOK, FlagsOK, ControlOK
<1>1. CASE Emit \/ LoseThreshold
  <2>1. UNCHANGED <<running, pc, frameComplete, isr, frameLen, totalBits>>
    BY <1>1 DEF Emit, LoseThreshold, threadVars, frameVars, isrVars
  <2>2. pend'.end = pend.end
    BY <1>0, <1>1 DEF Emit, LoseThreshold
  <2> QED
    BY <2>1, <2>2
<1>2. CASE Halt
  <2>1. running /\ ~running' /\ UNCHANGED <<pc, frameComplete, isr, frameLen, totalBits>>
    BY <1>2 DEF Halt, MayMove, threadVars, frameVars, isrVars
  <2>2. pend'.end
    BY <1>0, <1>2 DEF Halt
  <2> QED
    BY <2>1, <2>2
<1>3. CASE Finish
  <2>1. /\ UNCHANGED <<running, pc, isr, frameLen, totalBits>> /\ pend.end /\ frameComplete'
        /\ isr = "idle"
    BY <1>3 DEF Finish, threadVars, isrVars, MayTake
  <2> QED
    BY <2>1 DEF StopInv
<1>4. CASE RefillBegin
  <2>1. /\ UNCHANGED <<running, pc, frameComplete, frameLen, totalBits>> /\ ~pend.end /\ Pending
        /\ isr = "idle" /\ (isr' # "idle" => ~frameComplete)
    BY <1>4 DEF RefillBegin, threadVars, frameVars, isrVars, MayTake
  <2>2. pc \in {"poll", "stop"}
    BY <2>1 DEF StopInv
  <2> QED
    BY <2>1, <2>2
<1>5. CASE RefillLimit \/ RefillGuard \/ RefillFill \/ RefillEnd
  <2>1. UNCHANGED <<running, pc, pend, frameComplete, frameLen, totalBits>> /\ isr # "idle"
    BY <1>5 DEF RefillLimit, RefillGuard, RefillFill, RefillEnd, FillHalf,
                hwVars, frameVars, threadVars
  <2> QED
    BY <2>1
<1>6. CASE \E bits \in FrameBits : Arm(bits)
  <2>1. pc = "idle" /\ pc' = "first" /\ ~frameComplete' /\ UNCHANGED isr /\ frameLen' = totalBits'
    BY <1>6 DEF Arm, isrVars
  <2> QED
    BY <2>1
<1>7. CASE Prefill \/ PrefillSecond
  <2>1. /\ UNCHANGED <<running, pend, isr, frameComplete, frameLen, totalBits>>
        /\ pc \in {"first", "second"} /\ pc' \in {"first", "second"}
    BY <1>7 DEF Prefill, PrefillSecond, FillHalf, hwVars, frameVars, isrVars, threadVars
  <2> QED
    BY <2>1
<1>8. CASE StartTx
  <2>1. /\ pc = "second" /\ pc' = "poll" /\ running' /\ UNCHANGED <<isr, frameComplete, frameLen, totalBits>>
    BY <1>8 DEF StartTx, frameVars, isrVars
  <2> QED
    BY <2>1 DEF StopInv, Prefilling
<1>9. CASE Return \/ DropGuard \/ GiveUp
  <2>1. /\ UNCHANGED <<running, pend, isr, frameComplete, frameLen, totalBits>> /\ isr = "idle"
        /\ pc = "poll" /\ pc' \in {"idle", "stop"}
    BY <1>9 DEF Return, DropGuard, GiveUp, ThreadRuns, hwVars, frameVars, isrVars
  <2> QED
    BY <2>1
<1>10. CASE StopTx \/ DropFrame \/ PublishComplete
  <2>1. pc' \in {"disarm", "publish", "idle"} /\ isr' = isr /\ isr = "idle"
    BY <1>10 DEF StopTx, DropFrame, PublishComplete, ThreadRuns, isrVars
  <2>2. CASE StopTx
    BY <2>1, <2>2 DEF StopTx
  <2>3. CASE DropFrame \/ PublishComplete
    <3>1. ~running /\ running' = running
      BY <2>3 DEF StopInv, DropFrame, PublishComplete, hwVars
    <3> QED
      BY <2>1, <3>1
  <2> QED
    BY <1>10, <2>2, <2>3
<1>11. CASE UNCHANGED vars
  BY <1>11 DEF vars, hwVars, frameVars, threadVars, isrVars
<1> QED
  BY <1>1, <1>2, <1>3, <1>4, <1>5, <1>6, <1>7, <1>8, <1>9, <1>10, <1>11
     DEF Next, Transmitter, Isr, InCall, Abort

\* The wire log has room for m words and the frame.
LogFits(m) ==
    pc \in {"first", "second", "poll", "stop"} => m + totalBits + 1 < MaxWire

\* Every frame started fits the log.
LEMMA LogStep ==
    ASSUME NEW m, \A b \in FrameBits : m + b + 1 < MaxWire, LogFits(m), [Next]_vars
    PROVE  LogFits(m)'
<1>1. CASE \E bits \in FrameBits : Arm(bits)
  BY <1>1 DEF LogFits, Arm
<1>2. CASE ~ \E bits \in FrameBits : Arm(bits)
  <2>1. totalBits' = totalBits
    BY <1>2 DEF Next, Transmitter, Isr, InCall, Abort, Emit, Halt, LoseThreshold, Finish, RefillBegin,
       RefillLimit, RefillGuard, RefillFill, RefillEnd, FillHalf, Prefill, PrefillSecond, StartTx,
       Return, DropGuard, GiveUp, StopTx, DropFrame, PublishComplete, frameVars, vars
  <2>2. /\ pc' \in {"first", "second", "poll", "stop"} => pc \in {"first", "second", "poll", "stop"}
    BY <1>2 DEF Next, Transmitter, Isr, InCall, Abort, Emit, Halt, LoseThreshold, Finish, RefillBegin,
       RefillLimit, RefillGuard, RefillFill, RefillEnd, FillHalf, Prefill, PrefillSecond, StartTx,
       Return, DropGuard, GiveUp, StopTx, DropFrame, PublishComplete, threadVars, vars
  <2> QED
    BY <2>1, <2>2 DEF LogFits
<1> QED
  BY <1>1, <1>2

\* The words of the window that start_frame has written.
Prefilled == IF fill["thread"].stage # "off" THEN fill["thread"].word
             ELSE IF pc = "first" THEN Half ELSE Ram

\* The prefill so far holds the first words of the frame.
PrefillInv ==
    Prefilling =>
        /\ \A s \in Slots : s < Prefilled => ram[s] = Content(s)
        /\ Cursor(fill["thread"], Prefilled)
        /\ fill["thread"].stage # "off" => fill["thread"].end = IF pc = "first" THEN Half ELSE Ram

\* Every step keeps the prefill.
LEMMA PrefillStep ==
    ASSUME ~Masked, ~Classic, TypeInv, StopInv, CallInv, PrefillInv, [Next]_vars
    PROVE  PrefillInv'
<1>0. /\ fill \in [Contexts -> FillLocals] /\ InHalf(fill["thread"]) /\ totalBits \in Nat
      /\ fill["thread"] \in FillLocals /\ fill["thread"].word \in 0 .. Ram /\ "thread" \in Contexts
      /\ ram \in [Slots -> Word]
  BY DEF TypeInv, TypeOK, ControlOK, ChannelOK, PeripheralOK, FillInv, FillLocals, Contexts
<1>1. CASE \E bits \in FrameBits : Arm(bits)
  <2>1. PICK bits \in FrameBits : Arm(bits)
    BY <1>1
  <2>2. /\ totalBits' = bits /\ bits \in Nat /\ bitCursor' = 0 /\ ~latchWritten' /\ pc' = "first"
        /\ fill'["thread"].stage = "data" /\ fill'["thread"].word = 0
        /\ fill'["thread"].end = Half /\ fill'["thread"].cur = 0
    BY <1>0, <2>1, FrameBitsAssumption DEF Arm
  <2>3. Cursor(fill["thread"], 0)'
    BY <2>2 DEF Cursor, Upto
  <2> QED
    BY <2>2, <2>3 DEF PrefillInv, Prefilled
<1>2. CASE PrefillSecond
  <2>1. /\ pc = "first" /\ pc' = "second" /\ fill["thread"].stage = "off"
        /\ fill' = [fill EXCEPT !["thread"] = FillFrom(Second)]
        /\ UNCHANGED <<ram, totalBits, bitCursor, latchWritten>>
    BY <1>2 DEF PrefillSecond, hwVars, frameVars
  <2>2. /\ fill'["thread"].stage = "data" /\ fill'["thread"].word = Half
        /\ fill'["thread"].end = Ram /\ fill'["thread"].cur = bitCursor
    BY <1>0, <2>1 DEF FillFrom
  <2>3. Prefilled = Half /\ Prefilled' = Half
    BY <2>1, <2>2 DEF Prefilled
  <2>4. Cursor(fill["thread"], Half)
    BY <2>1, <2>3 DEF PrefillInv, Prefilling
  <2>5. Cursor(fill["thread"], Half)'
    BY <2>1, <2>2, <2>4 DEF Cursor, Upto
  <2> QED
    BY <2>1, <2>2, <2>3, <2>5 DEF PrefillInv, Prefilling, Content
<1>3. CASE Prefill
  <2> DEFINE f == fill["thread"]
  <2>1. FillHalf("thread") /\ pc \in {"first", "second"} /\ pc' = pc /\ frameLen = totalBits
    BY <1>3 DEF Prefill, FillHalf, threadVars, CallInv
  <2>2. f.stage # "off"
    BY <2>1 DEF FillHalf, FillData, FillSettle, FillStop
  <2>3. PICK n \in Nat : n = f.word
    BY <1>0
  <2>4. /\ Prefilled = n /\ f.end = IF pc = "first" THEN Half ELSE Ram
        /\ Cursor(f, n) /\ \A s \in Slots : s < n => ram[s] = Content(s)
    BY <2>1, <2>2, <2>3 DEF Prefilled, PrefillInv, Prefilling
  <2>5. /\ UNCHANGED <<totalBits, frameLen>>
        /\ \/ /\ f.word < f.end
              /\ ram' = [ram EXCEPT ![f.word] = Content(n)]
              /\ f'.stage # "off" /\ f'.word = f.word + 1 /\ f'.end = f.end
              /\ Cursor(f, n + 1)'
           \/ /\ ram' = ram
              /\ f'.stage # "off" /\ f'.word = f.word /\ f'.end = f.end
              /\ Cursor(f, n)'
           \/ /\ ram' = ram
              /\ f.word = f.end /\ f' = NoFill
              /\ Cursor(f, n)'
    BY <1>0, <2>1, <2>4, FillContent
  <2>6. CASE /\ f.word < f.end
             /\ ram' = [ram EXCEPT ![f.word] = Content(n)]
             /\ f'.stage # "off" /\ f'.word = f.word + 1 /\ f'.end = f.end
             /\ Cursor(f, n + 1)'
    <3>1. Prefilled' = n + 1
      BY <2>3, <2>6 DEF Prefilled
    <3>2. \A s \in Slots : s < n + 1 => ram'[s] = Content(s)
      BY <1>0, <2>3, <2>4, <2>6
    <3> QED
      BY <2>1, <2>4, <2>5, <2>6, <3>1, <3>2 DEF PrefillInv, Content
  <2>7. CASE /\ ram' = ram
             /\ f'.stage # "off" /\ f'.word = f.word /\ f'.end = f.end
             /\ Cursor(f, n)'
    <3>1. Prefilled' = n
      BY <2>3, <2>7 DEF Prefilled
    <3> QED
      BY <2>1, <2>4, <2>5, <2>7, <3>1 DEF PrefillInv, Content
  <2>8. CASE /\ ram' = ram
             /\ f.word = f.end /\ f' = NoFill
             /\ Cursor(f, n)'
    <3>1. Prefilled' = n
      BY <2>1, <2>3, <2>4, <2>8 DEF Prefilled, NoFill
    <3> QED
      BY <2>1, <2>4, <2>5, <2>8, <3>1 DEF PrefillInv, Content, NoFill
  <2> QED
    BY <2>5, <2>6, <2>7, <2>8
<1>4. CASE Transmitter \/ LoseThreshold \/ Finish \/ RefillBegin
  <2>1. (running \/ Pending) /\ pc' = pc
    BY <1>4 DEF Transmitter, Emit, Halt, MayMove, LoseThreshold, Finish, RefillBegin, MayTake,
                Pending, threadVars
  <2>2. ~Prefilling'
    BY <2>1 DEF StopInv, Prefilling
  <2> QED
    BY <2>2 DEF PrefillInv
<1>5. CASE RefillLimit \/ RefillGuard \/ RefillFill \/ RefillEnd
  <2>1. isr # "idle" /\ pc' = pc
    BY <1>5 DEF RefillLimit, RefillGuard, RefillFill, RefillEnd, FillHalf, threadVars
  <2>2. ~Prefilling'
    BY <2>1 DEF CallInv, Live, Prefilling
  <2> QED
    BY <2>2 DEF PrefillInv
<1>6. CASE StartTx \/ Return \/ DropGuard \/ GiveUp \/ Abort
  <2>1. ~Prefilling'
    BY <1>6 DEF StartTx, Return, DropGuard, GiveUp, Abort, StopTx, DropFrame, PublishComplete,
                Prefilling
  <2> QED
    BY <2>1 DEF PrefillInv
<1>7. CASE UNCHANGED vars
  BY <1>7 DEF PrefillInv, Prefilling, Prefilled, Cursor, Upto, Content, vars, hwVars, frameVars,
              threadVars
<1> QED
  BY <1>1, <1>2, <1>3, <1>4, <1>5, <1>6, <1>7 DEF Next, Isr, InCall

\* start_tx finds the window full of the frame's first words.
LEMMA RingStart ==
    ASSUME ~Masked, TypeInv, StopInv, CallInv, PrefillInv, StartTx, NEW e \in {0, Ram}
    PROVE  /\ RingInv(0, e)' /\ Left(0, e)' = Ram /\ wire' = << >> /\ Live'
           /\ pos' = 0 /\ txLim' = Half /\ pend' = NoCause /\ lat' = 0 /\ isr' = "idle"
           /\ \A s \in Slots : ram'[s] = Content(s)'
<1>1. /\ pc = "second" /\ fill["thread"].stage = "off" /\ isr = "idle" /\ ~frameComplete
      /\ frameLen = totalBits /\ pc' = "poll" /\ txLim' = Half /\ pend' = NoCause /\ lat' = 0
      /\ pos' = 0 /\ wire' = << >>
      /\ UNCHANGED <<ram, isr, posBefore, adv, fill, frameLen, totalBits, bitCursor, latchWritten,
                     frameComplete>>
  BY DEF StartTx, ThreadRuns, isrVars, frameVars, StopInv, CallInv, Prefilling
<1>2. fill["isr"].stage = "off" /\ totalBits \in Nat
  BY <1>1 DEF TypeInv, TypeOK, ChannelOK, FillInv
<1>3. /\ \A s \in Slots : ram[s] = Content(s)
      /\ Cursor(fill["thread"], Ram)
  BY <1>1 DEF PrefillInv, Prefilling, Prefilled
<1>4. \A s \in Slots : ram'[s] = Content(s)' /\ Ahead(s)' = s
  BY <1>1, <1>3 DEF Content, Ahead
<1>5. Len(wire') = 0 /\ Sent(0)' = 0 /\ Left(0, e)' = Ram
  BY <1>1 DEF Sent, Left, GuardAt
<1>6. Cursor(fill["isr"], Sent(0) + Left(0, e))'
  BY <1>1, <1>2, <1>3, <1>5 DEF Cursor, Upto
<1>7. InWindow(0, e)'
  BY <1>4, <1>5 DEF InWindow, Content
<1>8. Place(0)'
  BY <1>1, <1>5 DEF Place
<1>9. ~pend'.thr
  BY <1>1 DEF NoCause
<1> QED
  BY <1>1, <1>2, <1>4, <1>5, <1>6, <1>7, <1>8, <1>9 DEF RingInv, Live

\* A step of the transmitter: what it does to the causes and the latency.
LEMMA EmitClock ==
    ASSUME ~Classic, RangesOK, Emit
    PROVE  /\ running /\ UNCHANGED <<running, pc, frameComplete, guardSkips, guardTrips, aborts, lost>>
           /\ pend.thr => lat < MaxLat
           /\ lat' = IF pend.thr THEN lat + 1 ELSE 0
           /\ pend'.end = pend.end
           /\ pend'.thr <=> pend.thr \/ pos' = (IF txLim = Ram THEN 0 ELSE Half)
<1>0. /\ pos \in 0 .. Ram - 1 /\ txLim \in {Half, Ram}
      /\ pend \in [thr : BOOLEAN, end : BOOLEAN]
  BY DEF RangesOK
<1>1. AtThreshold <=> pos' = (IF txLim = Ram THEN 0 ELSE Half)
  <2>1. AtThreshold <=> (pos + 1) % Ram = txLim % Ram
    BY DEF AtThreshold
  <2>2. txLim % Ram = IF txLim = Ram THEN 0 ELSE Half
    BY <1>0
  <2>3. (pos + 1) % Ram = pos'
    BY DEF Emit
  <2> QED
    BY <2>1, <2>2, <2>3
<1>2. (pend'.thr <=> pend.thr \/ AtThreshold) /\ pend'.end = pend.end
  <2>1. pend' = IF AtThreshold THEN [pend EXCEPT !.thr = TRUE] ELSE pend
    BY DEF Emit
  <2> QED
    BY <1>0, <2>1
<1> QED
  BY <1>1, <1>2 DEF Emit, MayMove, frameVars, countVars, threadVars, boundVars

-----------------------------------------------------------------------------
(*****************************************************************************)
(* Prompt interrupts: how far the handler may be behind.                     *)
(*****************************************************************************)

\* A refill begins within its half, and latency and refill together stay within one.
Prompt == MaxLat < Half /\ MaxLat + Burst <= Half

\* The clock of a prompt channel: a waiting event is lat words old, the transmitter
\* lat words past the threshold that raised it.
Pace(k, e) ==
    /\ pend.thr => lat <= MaxLat
    /\ isr = "idle" /\ pend.thr => Left(k, e) = Half - lat
    /\ isr # "idle" => posBefore - (HalfEnd - Half) <= MaxLat /\ adv <= Burst + Refilled
    /\ isr # "idle" /\ pend.thr => posBefore + adv = HalfEnd + lat

\* The transmitter keeps the clock.
LEMMA PaceEmit ==
    ASSUME ~Classic, Prompt, RangesOK, NEW k, NEW e \in {0, Ram}, RingInv(k, e), Pace(k, e), Emit,
           Len(wire) < MaxWire, isr = "idle" => Left(k, e) > IF e = Ram THEN 1 ELSE 0
    PROVE  Pace(k, e)'
<1>1. /\ UNCHANGED <<isr, posBefore, txLim, fill>>
      /\ IF pos = Ram - 1 THEN pos' = 0 ELSE pos' = pos + 1
      /\ adv' = (IF isr = "idle" THEN 0 ELSE adv + 1)
      /\ isr # "idle" => adv < Refilled + Burst
  BY EmitMoves
<1>2. /\ pend.thr => lat < MaxLat
      /\ lat' = IF pend.thr THEN lat + 1 ELSE 0
      /\ pend'.thr <=> pend.thr \/ pos' = (IF txLim = Ram THEN 0 ELSE Half)
  BY EmitClock
<1>3. /\ Left(k, e)' = Left(k, e) - 1 /\ Left(k, e) \in 0 .. Ram
      /\ RingInv(k, e)'
  BY RingEmit DEF RingInv
<1>4. /\ lat \in Nat /\ MaxLat \in Nat /\ posBefore \in 0 .. Ram - 1 /\ adv \in Nat /\ Burst \in Nat
      /\ Refilled \in 0 .. Half /\ pos \in 0 .. Ram - 1 /\ txLim \in {Half, Ram}
      /\ pos' \in 0 .. Ram - 1
  BY <1>1 DEF RangesOK
<1>5. UNCHANGED <<HalfEnd, Refilled, InSecond, GuardAt>> /\ HalfEnd \in {Half, Ram}
      /\ GuardAt \in {0, Half}
  BY <1>1 DEF HalfEnd, Refilled, InSecond, GuardAt
<1>6. pend'.thr => lat' <= MaxLat
  BY <1>2, <1>4
<1>7. ASSUME isr = "idle", pend'.thr PROVE Left(k, e)' = Half - lat'
  <2>1. CASE pend.thr
    BY <1>2, <1>3, <1>4, <1>7, <2>1 DEF Pace
  <2>2. CASE ~pend.thr
    <3>1. pos' = (IF txLim = Ram THEN 0 ELSE Half) /\ lat' = 0
      BY <1>2, <1>7, <2>2
    <3>2. Left(k, e)' \in {Ram, Half}
      BY <1>1, <1>4, <1>5, <1>7, <3>1 DEF Left, Ahead, GuardAt
    <3> QED
      BY <1>3, <3>1, <3>2
  <2> QED
    BY <2>1, <2>2
<1>8. ASSUME isr # "idle" PROVE posBefore - (HalfEnd - Half) <= MaxLat /\ adv' <= Burst + Refilled
  BY <1>1, <1>4, <1>8 DEF Pace
<1>9. ASSUME isr # "idle", pend'.thr PROVE posBefore + adv' = HalfEnd + lat'
  <2>1. CASE pend.thr
    BY <1>1, <1>2, <1>4, <1>5, <1>9, <2>1 DEF Pace
  <2>2. CASE ~pend.thr
    <3>1. pos' = (IF txLim = Ram THEN 0 ELSE Half) /\ lat' = 0
      BY <1>2, <1>9, <2>2
    <3>2. /\ pos' = posBefore + adv' \/ pos' = posBefore + adv' - Ram
          /\ txLim = IF isr # "limit" THEN HalfEnd ELSE IF InSecond THEN Half ELSE Ram
          /\ posBefore + adv' >= HalfEnd
          /\ posBefore + Burst <= HalfEnd /\ adv' <= Half + Burst
      <4>1. InRefill' /\ pend'.thr
        BY <1>1, <1>3, <1>9 DEF RingInv
      <4> QED
        BY <1>1, <1>5, <4>1 DEF InRefill
    <3>3. posBefore + adv' <= HalfEnd + Half
      BY <1>1, <1>4, <1>5, <1>9, <3>2
    <3>4. isr # "limit"
      <4> SUFFICES ASSUME isr = "limit" PROVE FALSE
        OBVIOUS
      <4>0. isr = "limit"
        OBVIOUS
      <4>1. adv' <= Burst
        BY <1>1, <1>4, <1>9 DEF Refilled
      <4>2. posBefore - (HalfEnd - Half) <= MaxLat
        BY <1>8, <1>9
      <4> QED
        <5>1. posBefore + adv' = HalfEnd
          BY <1>1, <1>4, <1>5, <1>9, <3>2, <4>1, <4>2 DEF Prompt
        <5>2. /\ HalfEnd = IF InSecond THEN Ram ELSE Half
              /\ txLim = IF InSecond THEN Half ELSE Ram
          BY <3>2, <4>0 DEF HalfEnd
        <5> QED
          BY <1>1, <1>4, <3>1, <3>2, <5>1, <5>2
    <3> QED
      BY <1>1, <1>4, <1>5, <1>9, <3>1, <3>2, <3>3, <3>4
  <2> QED
    BY <2>1, <2>2
<1> QED
  BY <1>1, <1>5, <1>6, <1>7, <1>8, <1>9 DEF Pace

\* A prompt refill begins lat words into its half.
LEMMA PaceBegin ==
    ASSUME Prompt, RangesOK, NEW k, NEW e \in {0, Ram}, RingInv(k, e), Pace(k, e), RefillBegin,
           ~frameComplete
    PROVE  /\ RingInv(k, e)' /\ Pace(k, e)' /\ Left(k, e)' = Left(k, e) /\ Sent(k)' = Sent(k)
           /\ Left(k, e) = Half - lat /\ lat <= MaxLat
           /\ isr' = "limit" /\ posBefore' = pos /\ adv' = 0 /\ ~pend'.thr /\ posBefore' + adv' < HalfEnd'
           /\ posBefore' = HalfEnd' - Half + lat
<1>1. pend.thr /\ isr = "idle"
  BY DEF RefillBegin, MayTake, Pending
<1>2. Left(k, e) = Half - lat /\ lat <= MaxLat /\ lat \in Nat /\ MaxLat \in Nat /\ Burst \in Nat
      /\ pos \in 0 .. Ram - 1
  BY <1>1 DEF Pace, RangesOK
<1>3. Left(k, e) \in 1 .. Half /\ Burst <= Left(k, e)
  BY <1>2 DEF Prompt
<1>4. /\ RingInv(k, e)' /\ Left(k, e)' = Left(k, e) /\ Sent(k)' = Sent(k)
      /\ isr' = "limit" /\ posBefore' = pos /\ adv' = 0 /\ pend' = NoCause /\ lat' = 0
  BY <1>3, RingBegin
<1>5. ~pend'.thr /\ Refilled' = 0
  BY <1>4 DEF NoCause, Refilled
<1> DEFINE half == IF pos >= Half THEN Ram ELSE Half
<1>6. HalfEnd' = half
  BY <1>4 DEF HalfEnd, InSecond
<1>7. half - pos = Half - lat
  BY <1>2, <1>4, <1>5, <1>6 DEF Left
<1>8. Pace(k, e)' /\ posBefore' + adv' < HalfEnd' /\ posBefore' = HalfEnd' - Half + lat
  BY <1>2, <1>3, <1>4, <1>5, <1>6, <1>7 DEF Pace
<1> QED
  BY <1>1, <1>2, <1>4, <1>5, <1>8

\* The handler's own steps keep the clock.
LEMMA PaceServe ==
    ASSUME TypeInv, NEW k, NEW e \in {0, Ram}, RingInv(k, e), Pace(k, e),
           RefillLimit \/ RefillGuard \/ RefillFill
    PROVE  /\ RingInv(k, e)' /\ Pace(k, e)' /\ Sent(k)' = Sent(k)
           /\ isr # "idle" /\ isr' # "idle" /\ Left(k, e)' - Refilled' = Left(k, e) - Refilled
           /\ UNCHANGED <<posBefore, adv, pend, lat, HalfEnd, running, wire, pos>>
<1>1. /\ isr # "idle" /\ isr' # "idle"
      /\ UNCHANGED <<posBefore, adv, pend, lat, running, wire, pos>>
  BY DEF RefillLimit, RefillGuard, RefillFill, FillHalf, isrVars
<1>r. RangesOK
  BY Ranges
<1>2. RingInv(k, e)' /\ Sent(k)' = Sent(k) /\ Left(k, e)' - Refilled' = Left(k, e) - Refilled
  <2>1. CASE RefillLimit
    <3>1. Refilled' = Refilled
      BY <2>1 DEF RefillLimit, Refilled
    <3> QED
      BY <1>r, <2>1, <3>1, RingLimit
  <2>2. CASE RefillGuard
    <3>1. Refilled = 0
      BY <2>2 DEF RefillGuard, Refilled
    <3> QED
      BY <1>r, <2>2, <3>1, RingGuard
  <2>3. CASE RefillFill
    BY <2>3, RingFill
  <2> QED
    BY <2>1, <2>2, <2>3
<1>3. UNCHANGED HalfEnd
  BY <1>1 DEF HalfEnd, InSecond
<1>4. \E d \in {0, 1} : Refilled' = Refilled + d
  <2>1. CASE RefillLimit
    BY <2>1 DEF RefillLimit, Refilled
  <2>2. CASE RefillGuard
    <3>1. Refilled = 0 /\ Refilled' = 0
      BY <1>r, <2>2, RingGuard DEF RefillGuard, Refilled
    <3> QED
      BY <3>1
  <2>3. CASE RefillFill
    <3> DEFINE f == fill["isr"]
    <3>1. /\ frameLen = totalBits /\ Cursor(f, Sent(k) + Left(k, e)) /\ isr' = "fill" /\ isr = "fill"
          /\ FillHalf("isr") /\ Sent(k) + Left(k, e) \in Nat
      BY <1>r, <2>3 DEF RingInv, RefillFill, FillHalf, isrVars, RangesOK, Sent
    <3>2. PICK n \in Nat : n = Sent(k) + Left(k, e)
      BY <3>1
    <3>3. /\ \/ f'.word = f.word + 1 /\ f'.end = f.end
             \/ f'.word = f.word /\ f'.end = f.end
             \/ f.word = f.end /\ f' = NoFill
          /\ f.word \in 0 .. Ram
      <4>1. Cursor(f, n) /\ "isr" \in Contexts
        BY <3>1, <3>2 DEF Contexts
      <4> QED
        BY <3>1, <4>1, FillContent
    <3>4. /\ f.end \in {0, Half, Ram} /\ Refilled = f.word - (f.end - Half)
          /\ Refilled' = f'.word - (f'.end - Half)
      BY <1>r, <3>1 DEF RangesOK, Refilled
    <3> HIDE DEF f
    <3>5. CASE f'.word = f.word + 1 /\ f'.end = f.end
      <4>1. Refilled' = Refilled + 1
        BY <3>3, <3>4, <3>5
      <4> QED
        BY <4>1
    <3>6. CASE f'.word = f.word /\ f'.end = f.end
      <4>1. Refilled' = Refilled + 0
        BY <3>3, <3>4, <3>6
      <4> QED
        BY <4>1
    <3>7. CASE f.word = f.end /\ f' = NoFill
      <4>1. f'.word = 0 /\ f'.end = 0
        BY <3>7 DEF NoFill
      <4>2. Refilled' = Refilled + 0
        BY <3>3, <3>4, <3>7, <4>1
      <4> QED
        BY <4>2
    <3> QED
      BY <3>3, <3>5, <3>6, <3>7
  <2> QED
    BY <2>1, <2>2, <2>3
<1>5. Burst \in Nat /\ adv \in Nat /\ Refilled \in Nat
  BY <1>r DEF RangesOK
<1>6. Pace(k, e)'
  <2>1. /\ pend.thr => lat <= MaxLat
        /\ posBefore - (HalfEnd - Half) <= MaxLat /\ adv <= Burst + Refilled
        /\ pend.thr => posBefore + adv = HalfEnd + lat
    BY <1>1 DEF Pace
  <2>2. PICK d \in {0, 1} : Refilled' = Refilled + d
    BY <1>4
  <2>3. adv <= Burst + (Refilled + d)
    BY <1>5, <2>1
  <2> QED
    BY <1>1, <1>3, <2>1, <2>2, <2>3 DEF Pace
<1> QED
  BY <1>1, <1>2, <1>3, <1>6

\* A prompt refill ends with fresh words left, or at the barrier.
LEMMA PaceEnd ==
    ASSUME Prompt, RangesOK, NEW k, NEW e \in {0, Ram}, RingInv(k, e), Pace(k, e), RefillEnd,
           posBefore = GuardSlot => e = Ram, e = 0 \/ MaxLat + Burst < Half
    PROVE  /\ RingInv(k, e)' /\ Pace(k, e)' /\ Sent(k)' = Sent(k) /\ isr' = "idle"
           /\ Left(k, e)' = HalfEnd + Half - (posBefore + adv) /\ GuardAt' = GuardSlot
           /\ UNCHANGED <<pend, lat, pos, wire, running>>
<1>1. /\ isr = "fill" /\ fill["isr"].stage = "off" /\ isr' = "idle"
      /\ UNCHANGED <<pend, lat, pos, wire, running>>
  BY DEF RefillEnd, hwVars
<1>2. /\ Refilled = Half /\ posBefore \in 0 .. Ram - 1 /\ adv \in Nat /\ lat \in Nat
      /\ MaxLat \in Nat /\ Burst \in Nat
  BY <1>1 DEF RangesOK
<1>3. posBefore - (HalfEnd - Half) <= MaxLat /\ adv <= Burst + Half
      /\ (pend.thr => posBefore + adv = HalfEnd + lat)
  BY <1>1, <1>2 DEF Pace
<1>4. HalfEnd \in {Half, Ram} /\ GuardSlot = HalfEnd - Half /\ posBefore >= GuardSlot
  BY <1>2 DEF HalfEnd, GuardSlot, InSecond
<1>5. Left(k, e) = HalfEnd + Half - (posBefore + adv)
  BY <1>1, <1>2, <1>4 DEF Left
<1>6. (Left(k, e) = 0 => e = 0) /\ (Left(k, e) = Ram => e = Ram)
  <2>1. Left(k, e) >= Ram - MaxLat - (Burst + Half)
    BY <1>2, <1>3, <1>4, <1>5
  <2>2. Left(k, e) = Ram => posBefore = GuardSlot
    BY <1>2, <1>4, <1>5
  <2> QED
    BY <1>2, <2>1, <2>2
<1>7. RingInv(k, e)' /\ Left(k, e)' = Left(k, e) /\ Sent(k)' = Sent(k) /\ GuardAt' = GuardSlot
  BY <1>6, RingEnd
<1>8. Pace(k, e)'
  BY <1>1, <1>2, <1>3, <1>4, <1>5, <1>7 DEF Pace
<1> QED
  BY <1>1, <1>5, <1>7, <1>8

\* What the ring invariant reads.
ringVars == <<ram, pos, txLim, wire, lat, frameLen, totalBits, bitCursor, latchWritten,
              isr, posBefore, adv, fill>>

\* A step that leaves the ring alone keeps the clock.
LEMMA PaceStill ==
    ASSUME RangesOK, NEW k, NEW e \in {0, Ram}, RingInv(k, e), Pace(k, e), pend'.thr = pend.thr,
           UNCHANGED ringVars
    PROVE  /\ RingInv(k, e)' /\ Pace(k, e)' /\ Left(k, e)' = Left(k, e) /\ Sent(k)' = Sent(k)
           /\ HalfEnd' = HalfEnd
<1>1. /\ UNCHANGED <<ram, pos, txLim, wire, lat, frameLen, totalBits, bitCursor, latchWritten,
                     isr, posBefore, adv, fill>>
  BY DEF ringVars
<1>2. RingInv(k, e)' /\ Left(k, e)' = Left(k, e) /\ Sent(k)' = Sent(k)
  BY <1>1, RingStill
<1>3. UNCHANGED <<HalfEnd, Refilled>>
  BY <1>1 DEF HalfEnd, InSecond, Refilled
<1> QED
  BY <1>1, <1>2, <1>3 DEF Pace

\* The transmitter and the handler run only during a frame.
LEMMA MovesLive ==
    ASSUME StopInv, CallInv, running \/ Pending, TypeInv
    PROVE  pc \in {"poll", "stop"} /\ (running => Live /\ ~pend.end)
BY DEF StopInv, CallInv, Live

\* A transmitter that moves during a refill has fresh words ahead.
LEMMA RefillMoves ==
    ASSUME RangesOK, NEW k, NEW e \in {0, Ram}, RingInv(k, e), MayMove, isr # "idle"
    PROVE  Left(k, e) > 0
<1>1. /\ posBefore \in 0 .. Ram - 1 /\ adv \in Nat /\ Refilled \in 0 .. Half /\ Burst \in Nat
      /\ adv < Refilled + Burst /\ InRefill
  BY DEF RangesOK, MayMove, RingInv
<1>2. Left(k, e) = HalfEnd - posBefore - adv + Refilled /\ HalfEnd \in {Half, Ram}
  BY DEF Left, HalfEnd
<1> QED
  BY <1>1, <1>2 DEF InRefill

\* A STOP among the fresh words is the end of the frame.
LEMMA HaltsAtEnd ==
    ASSUME RangesOK, NEW k, NEW e \in {0, Ram}, RingInv(k, e), ram[pos] = STOP, Left(k, e) > 0
    PROVE  Sent(k) = totalBits + 1
<1>1. Ahead(pos) = 0 /\ pos \in Slots
  BY DEF Ahead, RangesOK
<1>2. Sent(k) \in Nat /\ totalBits \in Nat /\ Sent(k) <= totalBits + 1
  BY DEF Sent, RingInv, RangesOK
<1>3. ram[pos] = Content(Sent(k) + 0)
  BY <1>1 DEF RingInv, InWindow
<1>4. STOP = Content(Sent(k))
  BY <1>2, <1>3
<1> QED
  BY <1>2, <1>4 DEF Content

\* With every interrupt served in time, the transmitter is in the half before
\* the threshold unless the threshold event waits.
Healthy(k, e) ==
    /\ isr = "idle" /\ ~pend.thr => Left(k, e) > Half
    /\ isr # "idle" /\ ~pend.thr => posBefore + adv < HalfEnd

\* A frame in time: it ends only when all of it is sent.
OnTime(k, e) ==
    /\ Live => RingInv(k, e) /\ Pace(k, e) /\ Healthy(k, e)
    /\ Live /\ pend.end => Len(wire) = totalBits + 1

\* In time, a transmitter that moves is before the barrier.
LEMMA HealthyAhead ==
    ASSUME Prompt, RangesOK, NEW k, NEW e \in {0, Ram}, k = 0, e = Ram, RingInv(k, e), Pace(k, e), Healthy(k, e), MayMove, isr = "idle"
    PROVE  Left(k, e) > 1
<1>1. lat \in Nat /\ MaxLat \in Nat /\ Burst \in Nat /\ Left(k, e) \in 0 .. Ram
  BY DEF RangesOK, RingInv
<1>2. CASE pend.thr
  BY <1>1, <1>2 DEF Pace, MayMove, Prompt
<1>3. CASE ~pend.thr
  BY <1>1, <1>3 DEF Healthy
<1> QED
  BY <1>2, <1>3

\* In time, the next word of the frame goes out.
LEMMA HealthyEmit ==
    ASSUME ~Classic, Prompt, MaxLat + Burst < Half, RangesOK, NEW k, NEW e \in {0, Ram}, k = 0, e = Ram,
           RingInv(k, e), Pace(k, e), Healthy(k, e), Emit, totalBits + 1 < MaxWire
    PROVE  /\ RingInv(k, e)' /\ Pace(k, e)' /\ Healthy(k, e)'
           /\ wire' = Append(wire, Content(Len(wire))) /\ Len(wire) <= totalBits
<1>0. /\ totalBits \in Nat /\ MaxWire \in Nat /\ Len(wire) \in Nat /\ Sent(k) = Len(wire)
      /\ pos \in 0 .. Ram - 1 /\ txLim \in {Half, Ram} /\ posBefore \in 0 .. Ram - 1 /\ adv \in Nat
      /\ Burst \in Nat /\ MaxLat \in Nat /\ Left(k, e) \in 0 .. Ram
  BY DEF RangesOK, Sent, RingInv
<1>1. MayMove /\ ram[pos] # STOP
  BY DEF Emit
<1>2. Left(k, e) > 0 /\ (isr = "idle" => Left(k, e) > 1)
  BY <1>0, <1>1, HealthyAhead, RefillMoves
<1>3. Len(wire) < MaxWire
  <2>1. Ahead(pos) = 0 /\ pos \in Slots
    BY <1>0 DEF Ahead
  <2>2. ram[pos] = Content(Len(wire) + 0)
    BY <1>0, <1>2, <2>1 DEF RingInv, InWindow
  <2>3. ram[pos] = Content(Len(wire))
    BY <1>0, <2>2
  <2> QED
    BY <1>0, <1>1, <2>3 DEF Content
<1>4. /\ RingInv(k, e)' /\ Left(k, e)' = Left(k, e) - 1
      /\ ram[pos] = Content(Sent(k)) /\ Sent(k) <= totalBits
  BY <1>2, <1>3, RingEmit
<1>5. Pace(k, e)'
  BY <1>2, <1>3, PaceEmit
<1>6. /\ UNCHANGED <<isr, posBefore, txLim, fill>>
      /\ IF pos = Ram - 1 THEN pos' = 0 ELSE pos' = pos + 1
      /\ adv' = (IF isr = "idle" THEN 0 ELSE adv + 1)
      /\ isr # "idle" => adv < Refilled + Burst
      /\ wire' = Append(wire, ram[pos])
  BY <1>3, EmitMoves
<1>7. pend'.thr <=> pend.thr \/ pos' = (IF txLim = Ram THEN 0 ELSE Half)
  BY EmitClock
<1>8. ASSUME isr = "idle", ~pend'.thr PROVE Left(k, e)' > Half
  <2>1. ~pend.thr /\ pos' # (IF txLim = Ram THEN 0 ELSE Half)
    BY <1>7, <1>8
  <2>2. Left(k, e) > Half
    BY <1>8, <2>1 DEF Healthy
  <2>3. Left(k, e)' # Half
    BY <1>0, <1>6, <1>8, <2>1 DEF Left, Ahead, GuardAt
  <2> QED
    BY <1>0, <1>4, <2>2, <2>3
<1>9. ASSUME isr # "idle", ~pend'.thr PROVE posBefore + adv' < HalfEnd
  <2>1. ~pend.thr /\ pos' # (IF txLim = Ram THEN 0 ELSE Half)
    BY <1>7, <1>9
  <2>2. posBefore + adv < HalfEnd /\ HalfEnd \in {Half, Ram}
    BY <1>9, <2>1 DEF Healthy, HalfEnd
  <2>3. /\ pos = posBefore + adv \/ pos = posBefore + adv - Ram
        /\ txLim = IF isr # "limit" THEN HalfEnd ELSE IF InSecond THEN Half ELSE Ram
    BY <1>9 DEF RingInv, InRefill
  <2>4. pos = posBefore + adv
    BY <1>0, <2>2, <2>3
  <2>5. CASE isr = "limit"
    <3>1. adv < Burst /\ posBefore - (HalfEnd - Half) <= MaxLat
      BY <1>0, <1>6, <2>5 DEF Pace, Refilled
    <3> QED
      BY <1>0, <1>6, <1>9, <2>2, <3>1
  <2>6. CASE isr # "limit"
    BY <1>0, <1>6, <1>9, <2>1, <2>2, <2>3, <2>4, <2>6
  <2> QED
    BY <2>5, <2>6
<1>10. Healthy(k, e)'
  BY <1>6, <1>8, <1>9 DEF Healthy, HalfEnd, InSecond
<1> QED
  BY <1>0, <1>4, <1>5, <1>6, <1>10

-----------------------------------------------------------------------------
(*****************************************************************************)
(* No interrupt lost: the abstract specification.                            *)
(*****************************************************************************)


\* The timing under which the driver implements its abstract specification: no
\* interrupt lost, latency and refill within one half, a log that holds the frame.
InTime == ~Classic /\ ~Masked /\ MaxLat + Burst < Half /\ MaxLost = 0
          /\ \A b \in FrameBits : b + 1 < MaxWire

\* What every step of a channel may use of the state it starts in.
FrameInv == TypeInv /\ StopInv /\ BorrowInv /\ CallInv /\ PrefillInv

\* The frame invariants hold throughout.
LEMMA FrameInvariant == ~Masked /\ ~Classic /\ Spec => []FrameInv
<1> SUFFICES ASSUME ~Masked, ~Classic PROVE Spec => []FrameInv
  OBVIOUS
<1>1. Init => CallInv /\ PrefillInv /\ BorrowInv
  BY DEF Init, CallInv, Live, PrefillInv, Prefilling, BorrowInv
<1>2. TypeInv /\ StopInv /\ CallInv /\ [Next]_vars => CallInv'
  BY CallStep
<1>3. TypeInv /\ StopInv /\ CallInv /\ PrefillInv /\ [Next]_vars => PrefillInv'
  BY PrefillStep
<1> QED
  BY <1>1, <1>2, <1>3, BorrowStep, TypeInvariant, StopInvariant, PTL DEF Spec, FrameInv

\* The steps that end within a frame.
LEMMA LiveCases ==
    ASSUME ~Masked, ~Classic, FrameInv, [Next]_vars, Live'
    PROVE  \/ Live /\ (Emit \/ Halt \/ LoseThreshold \/ RefillLimit \/ RefillGuard \/ RefillFill \/ RefillEnd)
           \/ Live /\ RefillBegin
           \/ Live /\ UNCHANGED <<ringVars, pend, running, guardSkips, lost>>
           \/ StartTx
<1> USE DEF FrameInv
<1>1. CASE Emit \/ Halt \/ LoseThreshold \/ RefillBegin
  <2>1. UNCHANGED <<pc, frameComplete>>
    BY <1>1 DEF Emit, Halt, LoseThreshold, RefillBegin, frameVars, threadVars
  <2> QED
    BY <1>1, <2>1 DEF Live
<1>2. CASE Finish
  <2>1. frameComplete'
    BY <1>2 DEF Finish
  <2> QED
    BY <2>1 DEF Live
<1>3. CASE RefillLimit \/ RefillGuard \/ RefillFill \/ RefillEnd
  <2>1. isr # "idle"
    BY <1>3 DEF RefillLimit, RefillGuard, RefillFill, RefillEnd
  <2> QED
    BY <1>3, <2>1 DEF CallInv
<1>4. CASE StartTx
  BY <1>4
<1>5. CASE (\E bits \in FrameBits : Arm(bits)) \/ Prefill \/ PrefillSecond \/ Return \/ Abort
  <2>1. pc' \notin {"poll", "stop"}
    BY <1>5 DEF Arm, Prefill, FillHalf, threadVars, PrefillSecond, Return, Abort, StopTx, DropFrame,
                PublishComplete
  <2> QED
    BY <2>1 DEF Live
<1>6. CASE DropGuard
  <2>1. frameComplete /\ frameComplete' = frameComplete
    BY <1>6 DEF DropGuard, frameVars
  <2> QED
    BY <2>1 DEF Live
<1>7. CASE GiveUp \/ UNCHANGED vars
  <2>1. UNCHANGED <<ringVars, pend, running, frameComplete, guardSkips, lost>>
    BY <1>7 DEF GiveUp, vars, ringVars, hwVars, frameVars, isrVars, countVars, boundVars
  <2>2. Live
    BY <1>7, <2>1 DEF Live, GiveUp, vars, threadVars
  <2> QED
    BY <2>1, <2>2
<1> QED
  BY <1>1, <1>2, <1>3, <1>4, <1>5, <1>6, <1>7 DEF Next, Transmitter, Isr, InCall

\* Every step keeps a frame in time.
LEMMA OnTimeStep ==
    ASSUME InTime, FrameInv, LogFits(0), NEW k, NEW e \in {0, Ram}, k = 0, e = Ram, OnTime(k, e),
           [Next]_vars
    PROVE  OnTime(k, e)'
<1> SUFFICES ASSUME Live' PROVE OnTime(k, e)'
  BY DEF OnTime
<1> USE DEF InTime, FrameInv
<1>r. RangesOK
  BY Ranges
<1>p. Prompt
  BY <1>r DEF Prompt, RangesOK
<1>1. CASE Live /\ (Emit \/ Halt)
  <2>1. RingInv(k, e) /\ Pace(k, e) /\ Healthy(k, e) /\ running /\ ~pend.end /\ MayMove
    BY <1>1, MovesLive DEF OnTime, Emit, Halt, MayMove
  <2>2. CASE Emit
    <3>1. totalBits + 1 < MaxWire
      BY <1>1, <1>r DEF LogFits, Live, RangesOK
    <3>2. RingInv(k, e)' /\ Pace(k, e)' /\ Healthy(k, e)'
      BY <1>p, <1>r, <2>1, <2>2, <3>1, HealthyEmit
    <3>3. ~pend'.end
      BY <1>r, <2>1, <2>2, EmitClock
    <3> QED
      BY <3>2, <3>3 DEF OnTime
  <2>3. CASE Halt
    <3>1. UNCHANGED ringVars /\ ram[pos] = STOP
      BY <2>3 DEF Halt, ringVars, isrVars, frameVars
    <3>2. pend'.thr = pend.thr
      BY <1>r, <2>3 DEF Halt, RangesOK
    <3>3. RingInv(k, e)' /\ Pace(k, e)' /\ Left(k, e)' = Left(k, e) /\ HalfEnd' = HalfEnd
      BY <1>r, <2>1, <3>1, <3>2, PaceStill
    <3>4. Left(k, e) > 0
      <4>1. CASE isr = "idle"
        <5>1. Left(k, e) > 1
          BY <1>p, <1>r, <2>1, <4>1, HealthyAhead
        <5> QED
          BY <2>1, <5>1 DEF RingInv
      <4>2. CASE isr # "idle"
        BY <1>r, <2>1, <4>2, RefillMoves
      <4> QED
        BY <4>1, <4>2
    <3>5. Sent(k) = totalBits + 1
      BY <1>r, <2>1, <3>1, <3>4, HaltsAtEnd
    <3>6. Len(wire) = totalBits + 1
      BY <1>r, <3>5 DEF Sent, RangesOK
    <3>7. Healthy(k, e)'
      BY <2>1, <3>1, <3>2, <3>3 DEF Healthy, ringVars
    <3> QED
      BY <3>1, <3>3, <3>6, <3>7 DEF OnTime, ringVars
  <2> QED
    BY <1>1, <2>2, <2>3
<1>2. CASE LoseThreshold
  <2>1. lost \in Nat /\ lost < 0
    BY <1>2 DEF LoseThreshold, TypeInv, TypeOK, ControlOK
  <2> QED
    BY <2>1
<1>3. CASE Live /\ RefillBegin
  <2>1. RingInv(k, e) /\ Pace(k, e) /\ ~frameComplete
    BY <1>3 DEF OnTime, Live
  <2>2. /\ RingInv(k, e)' /\ Pace(k, e)' /\ isr' = "limit" /\ posBefore' + adv' < HalfEnd'
    BY <1>3, <1>p, <1>r, <2>1, PaceBegin
  <2>3. ~pend'.end
    BY <1>3 DEF RefillBegin, NoCause
  <2> QED
    BY <2>2, <2>3 DEF OnTime, Healthy
<1>4. CASE Live /\ (RefillLimit \/ RefillGuard \/ RefillFill)
  <2>1. RingInv(k, e) /\ Pace(k, e) /\ Healthy(k, e)
    BY <1>4 DEF OnTime
  <2>2. /\ RingInv(k, e)' /\ Pace(k, e)' /\ isr # "idle" /\ isr' # "idle"
        /\ UNCHANGED <<posBefore, adv, pend, lat, HalfEnd, running, wire>>
    BY <1>4, <2>1, PaceServe
  <2>3. Healthy(k, e)'
    BY <2>1, <2>2 DEF Healthy
  <2>4. totalBits' = totalBits
    BY <1>4 DEF RefillLimit, RefillGuard, RefillFill, FillHalf, frameVars
  <2> QED
    BY <1>4, <2>2, <2>3, <2>4 DEF OnTime
<1>5. CASE Live /\ RefillEnd
  <2>1. RingInv(k, e) /\ Pace(k, e) /\ Healthy(k, e) /\ isr = "fill"
    BY <1>5 DEF OnTime, RefillEnd
  <2>2. /\ RingInv(k, e)' /\ Pace(k, e)' /\ isr' = "idle"
        /\ Left(k, e)' = HalfEnd + Half - (posBefore + adv)
        /\ UNCHANGED <<pend, wire>>
    BY <1>5, <1>p, <1>r, <2>1, PaceEnd
  <2>3. Healthy(k, e)'
    <3> SUFFICES ASSUME ~pend.thr PROVE HalfEnd + Half - (posBefore + adv) > Half
      BY <2>2 DEF Healthy
    <3>1. posBefore + adv < HalfEnd /\ posBefore \in Nat /\ adv \in Nat /\ HalfEnd \in {Half, Ram}
      BY <1>r, <2>1 DEF Healthy, RangesOK, HalfEnd
    <3> QED
      BY <3>1
  <2>4. totalBits' = totalBits
    BY <1>5 DEF RefillEnd, frameVars
  <2> QED
    BY <1>5, <2>2, <2>3, <2>4 DEF OnTime
<1>6. CASE Live /\ UNCHANGED <<ringVars, pend, running>>
  <2>1. RingInv(k, e) /\ Pace(k, e) /\ Healthy(k, e)
    BY <1>6 DEF OnTime
  <2>2. /\ RingInv(k, e)' /\ Pace(k, e)' /\ Left(k, e)' = Left(k, e) /\ HalfEnd' = HalfEnd
    BY <1>6, <1>r, <2>1, PaceStill
  <2>3. Healthy(k, e)'
    BY <1>6, <2>1, <2>2 DEF Healthy, ringVars
  <2> QED
    BY <1>6, <2>2, <2>3 DEF OnTime, ringVars
<1>7. CASE StartTx
  <2>1. /\ RingInv(k, e)' /\ Left(k, e)' = Ram /\ pend' = NoCause /\ isr' = "idle"
    BY <1>7, RingStart
  <2>2. ~pend'.thr /\ ~pend'.end
    BY <2>1 DEF NoCause
  <2> QED
    BY <2>1, <2>2 DEF OnTime, Pace, Healthy
<1> QED
  BY <1>1, <1>2, <1>3, <1>4, <1>5, <1>6, <1>7, LiveCases

\* A step of the driver is a step of the abstract channel, or none.
LEMMA WireStep ==
    ASSUME InTime, FrameInv, LogFits(0), NEW k, NEW e \in {0, Ram}, k = 0, e = Ram, OnTime(k, e),
           [Next]_vars
    PROVE  [Bar!Next]_(Bar!wireVars)
<1> USE DEF InTime, FrameInv
<1> DEFINE status == IF frameComplete THEN "idle"
                     ELSE IF pc \in {"stop", "disarm", "publish"} THEN "leaving" ELSE "sending"
           barWire == IF Prefilling THEN << >> ELSE wire
<1>r. RangesOK
  BY Ranges
<1>0. /\ pc \in {"idle", "first", "second", "poll", "stop", "disarm", "publish"}
      /\ frameComplete \in BOOLEAN
  BY DEF TypeInv, TypeOK, ControlOK, FlagsOK
<1>s. ASSUME UNCHANGED <<status, totalBits, barWire>> PROVE UNCHANGED Bar!wireVars
  BY <1>s DEF Bar!wireVars
<1>1. CASE Emit
  <2>a. Live
    BY <1>1, MovesLive DEF Emit, MayMove, FrameInv
  <2>b. RingInv(k, e) /\ Pace(k, e) /\ Healthy(k, e)
    BY <2>a DEF OnTime
  <2>c. 0 + totalBits + 1 < MaxWire
    BY <2>a DEF LogFits, Live
  <2>1. Live /\ RingInv(k, e) /\ Pace(k, e) /\ Healthy(k, e) /\ totalBits + 1 < MaxWire
    BY <1>r, <2>a, <2>b, <2>c DEF RangesOK
  <2>2. wire' = Append(wire, Content(Len(wire))) /\ Len(wire) <= totalBits /\ Len(wire) \in Nat
    <3>1. Prompt
      BY <1>r DEF Prompt, RangesOK
    <3> QED
      BY <1>1, <1>r, <2>1, <3>1, HealthyEmit DEF RangesOK
  <2>3. UNCHANGED <<pc, frameComplete, totalBits>>
    BY <1>1 DEF Emit, threadVars, frameVars
  <2>4. Content(Len(wire)) = Bar!Stream(totalBits)[Len(wire) + 1]
    BY <1>r, <2>2 DEF Content, Bar!Stream, RangesOK
  <2>5. ~Prefilling /\ ~Prefilling' /\ status \in {"sending", "leaving"} /\ status' = status
    BY <2>1, <2>3 DEF Live, Prefilling
  <2>6. Bar!Send
    BY <2>2, <2>3, <2>4, <2>5 DEF Bar!Send
  <2> QED
    BY <2>6 DEF Bar!Next
<1>2. CASE Finish
  <2>1. /\ UNCHANGED <<pc, totalBits, wire>> /\ pend.end /\ frameComplete'
    BY <1>2 DEF Finish, threadVars
  <2>2. Prefilling' = Prefilling /\ pc \in {"poll", "stop"} /\ ~Prefilling
    BY <2>1 DEF Prefilling, StopInv, Pending
  <2>3. CASE frameComplete
    BY <1>s, <2>1, <2>2, <2>3
  <2>4. CASE ~frameComplete
    <3>1. Len(wire) = totalBits + 1
      BY <2>1, <2>2, <2>4 DEF OnTime, Live
    <3>2. CASE pc = "poll"
      <4>1. Bar!Complete
        BY <2>1, <2>2, <2>4, <3>1, <3>2 DEF Bar!Complete
      <4> QED
        BY <4>1 DEF Bar!Next
    <3>3. CASE pc = "stop"
      <4>1. Bar!Leave
        BY <2>1, <2>2, <2>4, <3>3 DEF Bar!Leave
      <4> QED
        BY <4>1 DEF Bar!Next
    <3> QED
      BY <2>2, <3>2, <3>3
  <2> QED
    BY <2>3, <2>4
<1>3. CASE \E bits \in FrameBits : Arm(bits)
  <2>1. PICK bits \in FrameBits : Arm(bits)
    BY <1>3
  <2>2. frameComplete /\ ~frameComplete' /\ pc' = "first" /\ totalBits' = bits
    BY <2>1 DEF Arm
  <2>3. Bar!Begin(bits)
    BY <2>2 DEF Bar!Begin, Prefilling
  <2> QED
    BY <2>3 DEF Bar!Next
<1>4. CASE GiveUp
  <2>1. pc = "poll" /\ pc' = "stop" /\ UNCHANGED <<frameComplete, totalBits, wire>>
    BY <1>4 DEF GiveUp, hwVars, frameVars
  <2>2. CASE frameComplete
    BY <1>s, <2>1, <2>2 DEF Prefilling
  <2>3. CASE ~frameComplete
    <3>1. Bar!GiveUp
      BY <2>1, <2>3 DEF Bar!GiveUp, Prefilling
    <3> QED
      BY <3>1 DEF Bar!Next
  <2> QED
    BY <2>2, <2>3
<1>5. CASE PublishComplete
  <2>1. pc = "publish" /\ pc' = "idle" /\ frameComplete' /\ UNCHANGED <<totalBits, wire>>
    BY <1>5 DEF PublishComplete, hwVars
  <2>2. CASE frameComplete
    BY <1>s, <2>1, <2>2 DEF Prefilling
  <2>3. CASE ~frameComplete
    <3>1. Bar!Leave
      BY <2>1, <2>3 DEF Bar!Leave, Prefilling
    <3> QED
      BY <3>1 DEF Bar!Next
  <2> QED
    BY <2>2, <2>3
<1>6. CASE StartTx
  <2>1. pc = "second" /\ pc' = "poll" /\ wire' = << >> /\ UNCHANGED <<frameComplete, totalBits>>
    BY <1>6 DEF StartTx, frameVars
  <2> QED
    BY <1>s, <2>1 DEF Prefilling
<1>7. CASE Return \/ DropGuard
  <2>1. /\ frameComplete /\ pc = "poll" /\ pc' \in {"idle", "stop"}
        /\ UNCHANGED <<frameComplete, totalBits, wire>>
    BY <1>7 DEF Return, DropGuard, hwVars, frameVars
  <2> QED
    BY <1>s, <2>1 DEF Prefilling
<1>8. CASE Prefill \/ PrefillSecond \/ StopTx \/ DropFrame
  <2>1. /\ \/ pc \in {"first", "second"} /\ pc' \in {"first", "second"}
           \/ pc \in {"stop", "disarm"} /\ pc' \in {"stop", "disarm", "publish"}
        /\ UNCHANGED <<frameComplete, totalBits, wire>>
    BY <1>8 DEF Prefill, PrefillSecond, StopTx, DropFrame, FillHalf, hwVars, frameVars, threadVars
  <2> QED
    BY <1>s, <2>1 DEF Prefilling
<1>9. CASE \/ Halt \/ LoseThreshold \/ RefillBegin \/ RefillLimit \/ RefillGuard
           \/ RefillFill \/ RefillEnd \/ UNCHANGED vars
  <2>1. UNCHANGED <<pc, frameComplete, totalBits, wire>>
    BY <1>9 DEF Halt, LoseThreshold, RefillBegin, RefillLimit, RefillGuard, RefillFill, RefillEnd,
                FillHalf, vars, hwVars, frameVars, threadVars
  <2> QED
    BY <1>s, <2>1 DEF Prefilling
<1> QED
  BY <1>1, <1>2, <1>3, <1>4, <1>5, <1>6, <1>7, <1>8, <1>9
     DEF Next, Transmitter, Isr, InCall, Abort

\* The wire of a driver served in time is the abstract channel's: every frame goes
\* out whole, in order, with one latch, and is reported complete only then, unless
\* it is aborted (the safety part of ImplementsWireFrame: on_interrupt, refill,
\* fill_half, start_frame and abort in driver.rs).
THEOREM WireIsTheFrame == InTime /\ Spec => Bar!Init /\ [][Bar!Next]_(Bar!wireVars)
<1> SUFFICES ASSUME InTime PROVE Spec => Bar!Init /\ [][Bar!Next]_(Bar!wireVars)
  OBVIOUS
<1>1. PICK k \in {0} : TRUE
  OBVIOUS
<1>2. PICK e \in {0, Ram} : e = Ram
  OBVIOUS
<1>3. Init => Bar!Init /\ LogFits(0) /\ OnTime(k, e)
  BY DEF Init, Bar!Init, LogFits, OnTime, Live, Prefilling
<1>4. LogFits(0) /\ [Next]_vars => LogFits(0)'
  <2>1. InTime => \A b \in FrameBits : 0 + b + 1 < MaxWire
    BY FrameBitsAssumption DEF InTime
  <2> QED
    BY <2>1, LogStep
<1>5. FrameInv /\ LogFits(0) /\ OnTime(k, e) /\ [Next]_vars => OnTime(k, e)' /\ [Bar!Next]_(Bar!wireVars)
  BY <1>1, <1>2, OnTimeStep, WireStep
<1>6. ~Masked /\ ~Classic
  BY DEF InTime
<1> QED
  BY <1>3, <1>4, <1>5, <1>6, FrameInvariant, PTL DEF Spec

-----------------------------------------------------------------------------
(*****************************************************************************)
(* The barrier: the guard words that end a frame the handler is late for.    *)
(*****************************************************************************)

\* Before the first refill of a frame, when no guard is planted yet.
Open(k) == isr = "idle" /\ txLim = Half /\ Sent(k) <= Ram

\* The barrier stands: between refills the word after the fresh ones is STOP,
\* except before the first refill, when the window is as start_frame left it.
Guarded(k) ==
    /\ isr = "idle" /\ ~Open(k) => ram[GuardAt] = STOP
    /\ isr = "fill" => posBefore # GuardSlot /\ ram[GuardSlot] = STOP
    /\ Open(k) => \A s \in Slots : ram[s] = Content(s)

\* Word n of the stream is the content of word n.
LEMMA StreamAt ==
    ASSUME totalBits \in Nat, NEW n \in 0 .. totalBits
    PROVE  Stream(totalBits)[n + 1] = Content(n)
<1>1. n + 1 \in 1 .. totalBits + 1 /\ (n + 1 <= totalBits <=> n < totalBits) /\ (n + 1) - 1 = n
  OBVIOUS
<1>2. Stream(totalBits)[n + 1] = IF n + 1 <= totalBits THEN (n + 1) - 1 ELSE LATCH
  BY <1>1 DEF Stream
<1> QED
  BY <1>1, <1>2 DEF Content

\* A transmitter before the barrier sends the next word of the frame.
LEMMA GuardedEmit ==
    ASSUME ~Classic, RangesOK, NEW k, NEW e \in {0, Ram}, e = 0, RingInv(k, e), Guarded(k), FrameFrom(k),
           Emit, Len(wire) < MaxWire, isr = "idle" => Left(k, e) > 0
    PROVE  /\ RingInv(k, e)' /\ Left(k, e)' = Left(k, e) - 1 /\ Guarded(k)' /\ FrameFrom(k)'
           /\ Sent(k)' = Sent(k) + 1 /\ UNCHANGED <<isr, txLim, ram, totalBits>>
           /\ (\A i \in 1 .. Len(wire) : wire'[i] = wire[i]) /\ Len(wire') = Len(wire) + 1
<1>r. /\ pos \in 0 .. Ram - 1 /\ txLim \in {Half, Ram} /\ totalBits \in Nat /\ Len(wire) \in Nat
      /\ wire \in Seq(Word) /\ ram \in [Slots -> Word]
  BY DEF RangesOK
<1>k. k \in 0 .. Len(wire) /\ Sent(k) \in Nat /\ Left(k, e) \in 0 .. Ram
  BY <1>r DEF RingInv, Sent
<1>1. /\ RingInv(k, e)' /\ Left(k, e)' = Left(k, e) - 1
      /\ ram[pos] = Content(Sent(k)) /\ Sent(k) <= totalBits
  BY RingEmit
<1>2. /\ UNCHANGED <<isr, posBefore, txLim, ram, totalBits, fill>>
      /\ wire' = Append(wire, ram[pos]) /\ Len(wire') = Len(wire) + 1
  BY EmitMoves
<1>3. Sent(k)' = Sent(k) + 1
  BY <1>k, <1>r, <1>2 DEF Sent
<1>4. UNCHANGED <<GuardAt, GuardSlot>>
  BY <1>2 DEF GuardAt, GuardSlot, InSecond
<1>5. Open(k) => Open(k)'
  <2> SUFFICES ASSUME Open(k), Sent(k) = Ram PROVE FALSE
    BY <1>k, <1>2, <1>3 DEF Open
  <2>1. pos = 0 /\ GuardAt = 0
    BY <1>r DEF RingInv, Place, Open, GuardAt
  <2>2. Left(k, e) = 0
    BY <1>r, <2>1 DEF Left, Ahead, Open
  <2> QED
    BY <2>2 DEF Open
<1>6. Open(k)' => Open(k)
  BY <1>k, <1>2, <1>3 DEF Open
<1>7. Guarded(k)'
  BY <1>2, <1>4, <1>5, <1>6 DEF Guarded, Content
<1>8. \A i \in 1 .. Len(wire) : wire'[i] = wire[i]
  BY <1>r, <1>2
<1>9. FrameFrom(k)'
  <2> SUFFICES ASSUME NEW i \in k + 1 .. Len(wire) + 1
               PROVE  i - k <= totalBits + 1 /\ wire'[i] = Stream(totalBits)[i - k]
    BY <1>2 DEF FrameFrom, Stream
  <2>1. CASE i <= Len(wire)
    <3>1. i \in 1 .. Len(wire) /\ i \in k + 1 .. Len(wire)
      BY <1>k, <1>r, <2>1
    <3>2. wire'[i] = wire[i]
      BY <1>8, <3>1
    <3>3. i - k <= totalBits + 1 /\ wire[i] = Stream(totalBits)[i - k]
      BY <3>1 DEF FrameFrom
    <3> QED
      BY <3>2, <3>3
  <2>2. CASE i = Len(wire) + 1
    <3>1. wire'[i] = ram[pos] /\ i - k = Sent(k) + 1
      BY <1>k, <1>r, <1>2, <2>2 DEF Sent
    <3>2. wire'[i] = Content(Sent(k)) /\ i - k <= totalBits + 1
      BY <1>k, <1>r, <1>1, <3>1
    <3>3. Sent(k) \in 0 .. totalBits
      BY <1>k, <1>r, <1>1
    <3> QED
      BY <1>r, <3>1, <3>2, <3>3, StreamAt
  <2> QED
    BY <1>k, <1>r, <2>1, <2>2
<1> QED
  BY <1>1, <1>2, <1>3, <1>7, <1>8, <1>9

\* A step that moves neither the transmitter nor the handler keeps the barrier.
LEMMA GuardedStill ==
    ASSUME NEW k, Guarded(k), FrameFrom(k),
           UNCHANGED <<ram, txLim, wire, totalBits, isr, posBefore>>
    PROVE  Guarded(k)' /\ FrameFrom(k)'
<1>1. UNCHANGED <<GuardAt, GuardSlot>> /\ Open(k)' = Open(k)
  BY DEF GuardAt, GuardSlot, InSecond, Open, Sent
<1> QED
  BY <1>1 DEF Guarded, FrameFrom, Content

\* A refill that plants its guard keeps the barrier in the transmitter's way.
LEMMA GuardedServe ==
    ASSUME TypeInv, NEW k, NEW e \in {0, Ram}, e = 0, RingInv(k, e), Guarded(k), FrameFrom(k),
           RefillLimit \/ RefillGuard \/ RefillFill,
           isr = "guard" => posBefore # GuardSlot
    PROVE  Guarded(k)' /\ FrameFrom(k)'
<1>1. /\ isr \in {"limit", "guard", "fill"} /\ isr' \in {"limit", "guard", "fill"}
      /\ UNCHANGED <<wire, totalBits, posBefore>>
  BY DEF RefillLimit, RefillGuard, RefillFill, FillHalf, isrVars, frameVars
<1>2. FrameFrom(k)' /\ UNCHANGED GuardSlot
  BY <1>1 DEF FrameFrom, GuardSlot, InSecond
<1>r. RangesOK
  BY Ranges
<1>3. isr' = "fill" => posBefore # GuardSlot /\ ram'[GuardSlot] = STOP
  <2>1. CASE RefillLimit
    BY <2>1 DEF RefillLimit
  <2>2. CASE RefillGuard
    BY <1>r, <2>2, RingGuard DEF RefillGuard
  <2>3. CASE RefillFill
    <3>1. isr = "fill" /\ posBefore # GuardSlot /\ ram[GuardSlot] = STOP
      BY <2>3 DEF RefillFill, Guarded
    <3>2. GuardSlot \in Slots /\ GuardSlot \notin FreeHalf .. FreeHalf + Half - 1
      BY DEF GuardSlot, FreeHalf
    <3>3. \A s \in Slots : ram'[s] # ram[s] => s \in FreeHalf .. FreeHalf + Half - 1
      BY <2>3, RingFill
    <3> QED
      BY <3>1, <3>2, <3>3
  <2> QED
    BY <2>1, <2>2, <2>3
<1> QED
  BY <1>1, <1>2, <1>3 DEF Guarded, Open

\* A refill that planted its guard ends with the barrier up.
LEMMA GuardedEnd ==
    ASSUME RangesOK, NEW k, NEW e \in {0, Ram}, e = 0, RingInv(k, e), Guarded(k), FrameFrom(k), RefillEnd
    PROVE  RingInv(k, e)' /\ Guarded(k)' /\ FrameFrom(k)' /\ ~Open(k)'
<1>1. /\ isr = "fill" /\ fill["isr"].stage = "off" /\ isr' = "idle"
      /\ UNCHANGED <<ram, txLim, wire, totalBits>>
  BY DEF RefillEnd, hwVars, frameVars
<1>2. /\ Refilled = Half /\ posBefore \in 0 .. Ram - 1 /\ adv \in Nat /\ Len(wire) \in Nat
      /\ k \in 0 .. Len(wire) /\ Sent(k) \in Nat
  BY <1>1 DEF RangesOK, RingInv, Sent
<1>3. posBefore # GuardSlot /\ ram[GuardSlot] = STOP
  BY <1>1 DEF Guarded
<1>4. Left(k, e) # Ram
  BY <1>1, <1>2, <1>3 DEF Left, HalfEnd, GuardSlot, InSecond
<1>5. RingInv(k, e)' /\ Sent(k)' = Sent(k) /\ GuardAt' = GuardSlot
  BY <1>4, RingEnd
<1>6. ~Open(k)'
  <2>1. /\ txLim = HalfEnd
        /\ ~InSecond /\ posBefore # 0 => Sent(k) > adv + Ram
    BY <1>1 DEF RingInv, InRefill, Place
  <2> SUFFICES ASSUME txLim = Half, Sent(k) <= Ram PROVE FALSE
    BY <1>1, <1>5 DEF Open
  <2> QED
    BY <1>2, <1>3, <2>1 DEF HalfEnd, GuardSlot
<1>7. FrameFrom(k)'
  BY <1>1 DEF FrameFrom
<1> QED
  BY <1>1, <1>3, <1>5, <1>6, <1>7 DEF Guarded

\* start_tx leaves the window open.
LEMMA GuardedStart ==
    ASSUME ~Masked, TypeInv, StopInv, CallInv, PrefillInv, StartTx, NEW k, k = 0
    PROVE  Guarded(k)' /\ FrameFrom(k)' /\ Sent(k)' = 0 /\ Open(k)'
<1>1. wire' = << >> /\ txLim' = Half /\ isr' = "idle" /\ \A s \in Slots : ram'[s] = Content(s)'
  BY RingStart
<1>2. Len(wire') = 0
  BY <1>1
<1>3. Sent(k)' = 0 /\ Open(k)'
  BY <1>1, <1>2 DEF Sent, Open
<1> QED
  BY <1>1, <1>2, <1>3 DEF Guarded, FrameFrom

-----------------------------------------------------------------------------
(*****************************************************************************)
(* Interrupts arbitrarily late, or lost.                                     *)
(*****************************************************************************)

\* The transmitter met no barrier at the end of the initial window and sent it again.
Replayed ==
    /\ Len(wire) > Ram /\ wire[Ram + 1] = wire[1]
    /\ \A i \in 1 .. Ram : i <= totalBits + 1 /\ wire[i] = Stream(totalBits)[i]

\* The refill came when the transmitter was already at the barrier: its guard is
\* going to be skipped, unless the initial window is replayed before it is.
Doomed(k) ==
    /\ isr \in {"limit", "guard"} /\ adv = 0 /\ posBefore = GuardSlot /\ pos = posBefore
    /\ FrameFrom(k)
    /\ ram[pos] # STOP => Sent(k) = Ram /\ ram[pos] = Content(0) /\ Ram <= totalBits + 1

\* A frame's wire while no guard was skipped.
Clean(k, e) ==
    \/ Replayed
    \/ RingInv(k, e) /\ Guarded(k) /\ FrameFrom(k)
    \/ Doomed(k)

\* Interrupts arbitrarily late or lost, with a handler that, once it runs, loses
\* at most one word to the transmitter; a log that holds the frame.
AnyLatency == ~Classic /\ ~Masked /\ Burst <= 1 /\ \A b \in FrameBits : b + 1 < MaxWire

\* A replay, once on the wire, stays there.
LEMMA ReplayStays ==
    ASSUME Replayed, wire \in Seq(Word), NEW w \in Word, totalBits' = totalBits,
           wire' = wire \/ wire' = Append(wire, w)
    PROVE  Replayed'
<1>1. Len(wire) \in Nat /\ Len(wire) > Ram
  BY DEF Replayed
<1>2. Len(wire') >= Len(wire) /\ \A i \in 1 .. Len(wire) : wire'[i] = wire[i]
  BY <1>1
<1>3. wire'[Ram + 1] = wire'[1] /\ Len(wire') > Ram
  <2>1. Len(wire') \in Nat /\ 1 \in 1 .. Len(wire) /\ Ram + 1 \in 1 .. Len(wire)
    BY <1>1
  <2>2. wire'[1] = wire[1] /\ wire'[Ram + 1] = wire[Ram + 1]
    BY <1>2, <2>1
  <2> QED
    BY <1>1, <1>2, <2>1, <2>2 DEF Replayed
<1>4. \A i \in 1 .. Ram : wire'[i] = wire[i]
  BY <1>1, <1>2
<1> QED
  BY <1>3, <1>4 DEF Replayed, Stream

\* The first word sent past the end of the initial window is its first word.
LEMMA ReplayStarts ==
    ASSUME RangesOK, NEW k, k = 0, FrameFrom(k), Sent(k) = Ram, Ram <= totalBits + 1, Len(wire) < MaxWire,
           ram[pos] = Content(0), Emit
    PROVE  Replayed'
<1>1. wire \in Seq(Word) /\ totalBits \in Nat /\ Len(wire) = Ram
  BY DEF RangesOK, Sent
<1>2. wire' = Append(wire, ram[pos]) /\ totalBits' = totalBits
  BY DEF Emit, frameVars
<1>3. Len(wire') = Ram + 1 /\ wire'[Ram + 1] = Content(0) /\ \A i \in 1 .. Ram : wire'[i] = wire[i]
  BY <1>1, <1>2
<1>4. \A i \in 1 .. Ram : i <= totalBits + 1 /\ wire[i] = Stream(totalBits)[i]
  <2>1. \A i \in 1 .. Ram : i - k <= totalBits + 1 /\ wire[i] = Stream(totalBits)[i - k]
    BY <1>1 DEF FrameFrom
  <2> QED
    BY <2>1
<1>5. wire[1] = Content(0)
  <2>1. 1 \in 1 .. Ram /\ totalBits >= 1 /\ 1 \in 1 .. totalBits + 1
    BY <1>1
  <2>2. wire[1] = Stream(totalBits)[1]
    BY <1>4, <2>1
  <2>3. Content(0) = 0
    BY <1>1, <2>1 DEF Content
  <2>4. Stream(totalBits)[1] = 0
    BY <1>1, <2>1 DEF Stream
  <2> QED
    BY <2>2, <2>3, <2>4
<1>6. wire'[1] = wire[1]
  BY <1>3
<1>7. \A i \in 1 .. Ram : i <= totalBits' + 1 /\ wire'[i] = Stream(totalBits')[i]
  BY <1>2, <1>3, <1>4
<1>8. Len(wire') > Ram /\ wire'[Ram + 1] = wire'[1]
  BY <1>3, <1>5, <1>6
<1> QED
  BY <1>7, <1>8 DEF Replayed, Stream

\* The transmitter keeps the wire clean.
LEMMA CleanEmit ==
    ASSUME AnyLatency, RangesOK, NEW k, NEW e \in {0, Ram}, k = 0, e = 0, totalBits + 1 < MaxWire,
           Clean(k, e), Emit
    PROVE  Clean(k, e)'
<1> USE DEF AnyLatency
<1>r. /\ pos \in 0 .. Ram - 1 /\ txLim \in {Half, Ram} /\ totalBits \in Nat /\ Len(wire) \in Nat
      /\ wire \in Seq(Word) /\ ram \in [Slots -> Word] /\ MaxWire \in Nat /\ adv \in Nat /\ Burst \in Nat
  BY DEF RangesOK
<1>1. CASE Replayed
  <2>1. totalBits' = totalBits /\ (wire' = wire \/ wire' = Append(wire, ram[pos]))
    BY DEF Emit, frameVars
  <2> QED
    BY <1>1, <1>r, <2>1, ReplayStays DEF Clean
<1>2. CASE RingInv(k, e) /\ Guarded(k) /\ FrameFrom(k)
  <2>1. Sent(k) = Len(wire) /\ Sent(k) <= totalBits + 1
    BY <1>2, <1>r DEF RingInv, Sent
  <2>2. Len(wire) < MaxWire
    BY <1>r, <2>1
  <2>3. CASE isr = "idle" => Left(k, e) > 0
    BY <1>2, <2>2, <2>3, GuardedEmit DEF Clean
  <2>4. CASE isr = "idle" /\ ~(Left(k, e) > 0)
    <3>1. Left(k, e) = 0
      BY <1>2, <2>4 DEF RingInv
    <3>2. pos = GuardAt /\ Sent(k) # 0
      BY <1>r, <2>4, <3>1 DEF Left, Ahead, GuardAt
    <3>3. Open(k)
      BY <1>2, <2>4, <3>2 DEF Guarded, Emit
    <3>4. pos = 0 /\ Sent(k) = Ram
      BY <1>2, <3>2, <3>3 DEF Open, GuardAt, RingInv, Place
    <3>5. ram[pos] = Content(0)
      BY <1>2, <3>3, <3>4 DEF Guarded
    <3> QED
      BY <1>2, <2>1, <2>2, <3>4, <3>5, ReplayStarts DEF Clean
  <2> QED
    BY <2>3, <2>4
<1>3. CASE Doomed(k)
  <2>1. ram[pos] # STOP
    BY DEF Emit
  <2>2. FrameFrom(k) /\ Sent(k) = Ram /\ ram[pos] = Content(0) /\ Ram <= totalBits + 1
    BY <1>3, <2>1 DEF Doomed
  <2>3. Len(wire) < MaxWire
    BY <1>r, <2>2 DEF Sent
  <2> QED
    BY <2>2, <2>3, ReplayStarts DEF Clean
<1> QED
  BY <1>1, <1>2, <1>3 DEF Clean

\* A late refill begins before the barrier, or at it.
LEMMA CleanBegin ==
    ASSUME AnyLatency, RangesOK, NEW k, NEW e \in {0, Ram}, k = 0, e = 0, Clean(k, e), RefillBegin, ~frameComplete
    PROVE  Clean(k, e)'
<1> USE DEF AnyLatency
<1>r. /\ pos \in 0 .. Ram - 1 /\ txLim \in {Half, Ram} /\ totalBits \in Nat /\ Len(wire) \in Nat
      /\ wire \in Seq(Word) /\ Burst \in Nat
  BY DEF RangesOK
<1>0. /\ isr = "idle" /\ isr' = "limit" /\ posBefore' = pos /\ adv' = 0 /\ pend.thr
      /\ UNCHANGED <<ram, pos, txLim, wire, totalBits>>
  BY DEF RefillBegin, MayTake, Pending, frameVars
<1>1. CASE Replayed
  <2>1. UNCHANGED <<wire, totalBits>>
    BY <1>0
  <2>2. Replayed'
    BY <1>1, <2>1 DEF Replayed, Stream
  <2> QED
    BY <2>2, Zenon DEF Clean
<1>2. CASE RingInv(k, e) /\ Guarded(k) /\ FrameFrom(k)
  <2>1. FrameFrom(k)' /\ Sent(k)' = Sent(k)
    BY <1>0, <1>2 DEF FrameFrom, Stream, Sent
  <2>2. Left(k, e) \in 0 .. Ram /\ Left(k, e) <= Half
    BY <1>0, <1>2 DEF RingInv
  <2>3. CASE Left(k, e) > 0
    <3>1. RingInv(k, e)'
      BY <1>2, <1>r, <2>2, <2>3, RingBegin
    <3> QED
      BY <1>0, <2>1, <3>1 DEF Clean, Guarded, Open
  <2>4. CASE Left(k, e) = 0
    <3>1. pos = GuardAt /\ Sent(k) # 0
      BY <1>0, <1>r, <2>4 DEF Left, Ahead, GuardAt
    <3>2. posBefore' = GuardSlot'
      BY <1>0, <3>1 DEF GuardAt, GuardSlot, InSecond
    <3>3. ASSUME ram[pos] # STOP PROVE Sent(k) = Ram /\ ram[pos] = Content(0) /\ Ram <= totalBits + 1
      <4>1. Open(k)
        BY <1>0, <1>2, <3>1, <3>3 DEF Guarded
      <4>2. pos = 0 /\ Sent(k) = Ram
        BY <1>2, <3>1, <4>1 DEF Open, GuardAt, RingInv, Place
      <4> QED
        BY <1>2, <4>1, <4>2 DEF Guarded, RingInv
    <3>4. Doomed(k)'
      BY <1>0, <2>1, <3>2, <3>3 DEF Doomed, Content
    <3> QED
      BY <3>4 DEF Clean
  <2> QED
    BY <2>2, <2>3, <2>4
<1>3. CASE Doomed(k)
  BY <1>0, <1>3 DEF Doomed
<1> QED
  BY <1>1, <1>2, <1>3 DEF Clean

\* A refill keeps the wire clean unless it skips its guard.
LEMMA CleanServe ==
    ASSUME AnyLatency, TypeInv, NEW k, NEW e \in {0, Ram}, k = 0, e = 0, Clean(k, e), guardSkips' = 0,
           RefillLimit \/ RefillGuard \/ RefillFill \/ RefillEnd
    PROVE  Clean(k, e)'
<1>0. UNCHANGED <<wire, totalBits, pos>> /\ guardSkips \in Nat
  BY DEF RefillLimit, RefillGuard, RefillFill, RefillEnd, FillHalf, frameVars, hwVars, TypeInv, TypeOK, ChannelOK
<1>g. isr = "guard" => posBefore # GuardSlot
  BY <1>0 DEF RefillLimit, RefillGuard, RefillFill, RefillEnd
<1>r. RangesOK
  BY Ranges
<1>1. CASE Replayed
  BY <1>0, <1>1 DEF Clean, Replayed, Stream
<1>2. CASE RingInv(k, e) /\ Guarded(k) /\ FrameFrom(k)
  <2>1. CASE RefillLimit \/ RefillGuard \/ RefillFill
    <3>1. RingInv(k, e)'
      <4>1. CASE RefillLimit
        BY <1>2, <1>r, <4>1, RingLimit
      <4>2. CASE RefillGuard
        BY <1>2, <1>r, <4>2, RingGuard
      <4>3. CASE RefillFill
        BY <1>2, <4>3, RingFill
      <4> QED
        BY <2>1, <4>1, <4>2, <4>3
    <3>2. Guarded(k)' /\ FrameFrom(k)'
      BY <1>2, <1>g, <2>1, GuardedServe
    <3> QED
      BY <3>1, <3>2 DEF Clean
  <2>2. CASE RefillEnd
    BY <1>2, <1>r, <2>2, GuardedEnd DEF Clean
  <2> QED
    BY <2>1, <2>2
<1>3. CASE Doomed(k)
  <2>1. isr = "limit" /\ RefillLimit
    BY <1>3, <1>g DEF Doomed, RefillLimit, RefillGuard, RefillFill, RefillEnd
  <2>2. isr' = "guard" /\ UNCHANGED <<ram, posBefore, adv>>
    BY <2>1 DEF RefillLimit
  <2>3. Doomed(k)'
    BY <1>0, <1>3, <2>2 DEF Doomed, GuardSlot, InSecond, FrameFrom, Stream, Sent, Content
  <2> QED
    BY <2>3 DEF Clean
<1> QED
  BY <1>1, <1>2, <1>3 DEF Clean

\* A step that leaves the ring alone keeps the wire clean.
LEMMA CleanStill ==
    ASSUME RangesOK, NEW k, NEW e \in {0, Ram}, Clean(k, e), UNCHANGED ringVars, pend'.thr => pend.thr
    PROVE  Clean(k, e)'
<1>0. /\ UNCHANGED <<ram, pos, txLim, wire, frameLen, totalBits, bitCursor, latchWritten,
                     isr, posBefore, adv, fill>>
  BY DEF ringVars
<1>1. CASE Replayed
  BY <1>0, <1>1 DEF Clean, Replayed, Stream
<1>2. CASE RingInv(k, e) /\ Guarded(k) /\ FrameFrom(k)
  BY <1>0, <1>2, RingStill, GuardedStill DEF Clean
<1>3. CASE Doomed(k)
  <2>1. Doomed(k)'
    BY <1>0, <1>3 DEF Doomed, GuardSlot, InSecond, FrameFrom, Stream, Sent, Content
  <2> QED
    BY <2>1 DEF Clean
<1> QED
  BY <1>1, <1>2, <1>3 DEF Clean

\* Every step keeps the wire of a frame clean.
LEMMA CleanStep ==
    ASSUME AnyLatency, FrameInv, LogFits(0), NEW k, NEW e \in {0, Ram}, k = 0, e = 0, [Next]_vars,
           Live /\ guardSkips = 0 => Clean(k, e)
    PROVE  Live' /\ guardSkips' = 0 => Clean(k, e)'
<1> SUFFICES ASSUME Live', guardSkips' = 0 PROVE Clean(k, e)'
  OBVIOUS
<1> USE DEF FrameInv
<1>r. RangesOK /\ guardSkips \in Nat
  BY Ranges DEF TypeInv, TypeOK, ChannelOK
<1>0. ~Masked /\ ~Classic
  BY DEF AnyLatency
<1>1. CASE Live /\ Emit
  <2>1. guardSkips = 0
    BY <1>1 DEF Emit, countVars
  <2>2. 0 + totalBits + 1 < MaxWire
    BY <1>1 DEF LogFits, Live
  <2>3. totalBits + 1 < MaxWire
    BY <1>r, <2>2 DEF RangesOK
  <2> QED
    BY <1>1, <1>r, <2>1, <2>3, CleanEmit
<1>2. CASE Live /\ (Halt \/ LoseThreshold)
  <2>1. guardSkips = 0 /\ UNCHANGED <<ram, pos, txLim, wire, frameLen, totalBits, bitCursor,
                     latchWritten, isr, posBefore, adv, fill>>
    BY <1>2 DEF Halt, LoseThreshold, isrVars, frameVars, countVars
  <2>2. pend'.thr => pend.thr
    BY <1>2, <1>r DEF Halt, LoseThreshold, RangesOK
  <2>3. CASE Replayed
    BY <2>1, <2>3 DEF Clean, Replayed, Stream
  <2>4. CASE RingInv(k, e) /\ Guarded(k) /\ FrameFrom(k)
    BY <1>r, <2>1, <2>2, <2>4, RingStill, GuardedStill DEF Clean
  <2>5. CASE Doomed(k)
    <3>1. Doomed(k)'
      BY <2>1, <2>5 DEF Doomed, GuardSlot, InSecond, FrameFrom, Stream, Sent, Content
    <3> QED
      BY <3>1 DEF Clean
  <2> QED
    BY <1>2, <2>1, <2>3, <2>4, <2>5 DEF Clean
<1>3. CASE Live /\ RefillBegin
  <2>1. guardSkips = 0 /\ ~frameComplete
    BY <1>3 DEF RefillBegin, countVars, Live
  <2> QED
    BY <1>3, <1>r, <2>1, CleanBegin
<1>4. CASE Live /\ (RefillLimit \/ RefillGuard \/ RefillFill \/ RefillEnd)
  <2>1. guardSkips = 0
    BY <1>4, <1>r DEF RefillLimit, RefillGuard, RefillFill, RefillEnd, FillHalf, countVars
  <2> QED
    BY <1>4, <2>1, CleanServe
<1>5. CASE Live /\ UNCHANGED <<ringVars, pend, running, guardSkips>>
  BY <1>5, <1>r, CleanStill
<1>6. CASE StartTx
  BY <1>6, <1>0, RingStart, GuardedStart DEF Clean
<1> QED
  BY <1>0, <1>1, <1>2, <1>3, <1>4, <1>5, <1>6, LiveCases

\* A frame that is over keeps its wire until the next one starts.
LEMMA WireRests ==
    ASSUME FrameInv, [Next]_vars, ~Prefilling', ~Live'
    PROVE  \/ ~Prefilling /\ UNCHANGED <<wire, totalBits>>
<1>1. CASE Emit
  <2>1. Live /\ UNCHANGED <<pc, frameComplete>>
    BY <1>1, MovesLive DEF FrameInv, Emit, MayMove, frameVars, threadVars
  <2> QED
    BY <2>1 DEF Live
<1>2. CASE StartTx
  <2>1. pc = "second" /\ pc' = "poll" /\ UNCHANGED frameComplete
    BY <1>2 DEF StartTx, frameVars
  <2> QED
    BY <2>1 DEF FrameInv, StopInv, Prefilling, Live
<1>3. CASE (\E bits \in FrameBits : Arm(bits)) \/ Prefill \/ PrefillSecond
  <2>1. pc' \in {"first", "second"}
    BY <1>3 DEF Arm, Prefill, PrefillSecond, FillHalf, threadVars
  <2> QED
    BY <2>1 DEF Prefilling
<1>4. CASE \/ Halt \/ LoseThreshold \/ Isr \/ UNCHANGED vars
  <2>1. UNCHANGED <<wire, totalBits, pc>>
    BY <1>4 DEF Halt, LoseThreshold, Isr, Finish, RefillBegin, RefillLimit, RefillGuard, RefillFill, RefillEnd,
                FillHalf, vars, hwVars, frameVars, threadVars
  <2> QED
    BY <2>1 DEF Prefilling
<1>5. CASE \/ Return \/ DropGuard \/ GiveUp \/ Abort
  <2>1. UNCHANGED <<wire, totalBits>> /\ pc \notin {"first", "second"}
    BY <1>5 DEF Return, DropGuard, GiveUp, Abort, StopTx, DropFrame, PublishComplete, hwVars, frameVars
  <2> QED
    BY <2>1 DEF Prefilling
<1> QED
  BY <1>1, <1>2, <1>3, <1>4, <1>5 DEF Next, Transmitter, InCall

\* guard_skips never goes back.
LEMMA SkipsGrow ==
    ASSUME TypeInv, [Next]_vars, guardSkips' = 0
    PROVE  guardSkips = 0
<1>0. guardSkips \in Nat
  BY DEF TypeInv, TypeOK, ChannelOK
<1>1. CASE RefillGuard
  BY <1>0, <1>1 DEF RefillGuard
<1>2. CASE ~RefillGuard
  <2>1. guardSkips' = guardSkips
    BY <1>2 DEF Next, Transmitter, Isr, InCall, Abort, Emit, Halt, LoseThreshold, Finish, RefillBegin,
       RefillLimit, RefillFill, RefillEnd, FillHalf, Arm, Prefill, PrefillSecond, StartTx,
       Return, DropGuard, GiveUp, StopTx, DropFrame, PublishComplete, countVars, vars
  <2> QED
    BY <2>1
<1> QED
  BY <1>1, <1>2

\* The guard word keeps its promise (CleanPrefix; refill in driver.rs, "The guard
\* word"): however late or lost the refill interrupts are, a frame none of whose
\* guards was skipped leaves the wire only as a clean prefix or, before any guard is
\* planted, by starting the initial window again.
THEOREM WireIsClean == AnyLatency /\ Spec => []CleanPrefix
<1> SUFFICES ASSUME AnyLatency PROVE Spec => []CleanPrefix
  OBVIOUS
<1>1. PICK k \in {0} : TRUE
  OBVIOUS
<1>2. PICK e \in {0, Ram} : e = 0
  OBVIOUS
<1> DEFINE Sending == Live /\ guardSkips = 0 => Clean(k, e)
<1>3. Init => LogFits(0) /\ Sending /\ CleanPrefix
  <2> SUFFICES ASSUME Init PROVE LogFits(0) /\ Sending /\ CleanPrefix
    OBVIOUS
  <2>1. pc = "idle" /\ Len(wire) = 0
    BY DEF Init
  <2> QED
    BY <2>1 DEF LogFits, Live, CleanPrefix, FrameFrom
<1>4. LogFits(0) /\ [Next]_vars => LogFits(0)'
  <2>1. AnyLatency => \A b \in FrameBits : 0 + b + 1 < MaxWire
    BY FrameBitsAssumption DEF AnyLatency
  <2> QED
    BY <2>1, LogStep
<1>5. FrameInv /\ LogFits(0) /\ Sending /\ [Next]_vars => Sending'
  BY <1>1, <1>2, CleanStep
<1>6. FrameInv /\ CleanPrefix /\ Sending' /\ [Next]_vars => CleanPrefix'
  <2> SUFFICES ASSUME FrameInv, CleanPrefix, Sending', [Next]_vars, ~Prefilling', guardSkips' = 0
               PROVE  FrameFrom(0)' \/ Replayed'
    BY DEF CleanPrefix, Replayed
  <2>1. CASE Live'
    <3>1. Clean(k, e)'
      BY <2>1
    <3> QED
      BY <1>1, <3>1 DEF Clean, Doomed
  <2>2. CASE ~Live'
    <3>1. ~Prefilling /\ UNCHANGED <<wire, totalBits>> /\ guardSkips = 0
      BY <2>2, WireRests, SkipsGrow DEF FrameInv
    <3> QED
      BY <3>1 DEF CleanPrefix, FrameFrom, Replayed, Stream
  <2> QED
    BY <2>1, <2>2
<1>7. ~Masked /\ ~Classic
  BY DEF AnyLatency
<1> QED
  BY <1>3, <1>4, <1>5, <1>6, <1>7, FrameInvariant, PTL DEF Spec

-----------------------------------------------------------------------------
(*****************************************************************************)
(* Interrupts prompt, some of them lost.                                     *)
(*****************************************************************************)

\* A multiple of the window and an offset.
LEMMA ModMultiple ==
    ASSUME NEW R \in Nat, R >= 2
    PROVE  \A q \in Int : \A r \in 0 .. R - 1 : (R * q + r) % R = r
OBVIOUS

\* Offsets in the window that starts at a multiple of its size.
LEMMA ModWindow ==
    ASSUME NEW R \in Nat, R >= 2, NEW k \in Nat, k % R = 0
    PROVE  (\A r \in 0 .. R - 1 : (k + r) % R = r) /\ (k + R) % R = 0
<1>1. PICK q \in Int : k = R * q
  <2>1. k \div R \in Int
    OBVIOUS
  <2>2. k = R * (k \div R) + (k % R)
    OBVIOUS
  <2>3. k = R * (k \div R)
    BY <2>1, <2>2
  <2> QED
    BY <2>1, <2>3
<1>2. \A r \in 0 .. R - 1 : (k + r) % R = r
  BY <1>1, ModMultiple
<1>3. k + R = R * (q + 1) + 0
  BY <1>1
<1>4. (R * (q + 1) + 0) % R = 0
  BY ModMultiple
<1> QED
  BY <1>2, <1>3, <1>4

\* The words that the interrupts lost so far may have replayed.
Room == Ram * lost

\* The room for replays is bounded by the loss.
LEMMA RoomSize ==
    ASSUME TypeInv
    PROVE  Room \in Nat /\ Room <= Ram * MaxLost /\ Ram * MaxLost \in Nat
<1>1. lost \in Nat /\ lost <= MaxLost /\ MaxLost \in Nat
  BY BoundsAssumption DEF TypeInv, TypeOK, ControlOK
<1>2. \A R \in Nat : \A l, m \in Nat : l <= m => R * l \in Nat /\ R * m \in Nat /\ R * l <= R * m
  OBVIOUS
<1>3. Ram \in Nat
  OBVIOUS
<1> HIDE DEF Ram
<1> QED
  BY <1>1, <1>2, <1>3 DEF Room

\* A lost interrupt makes room for one replay.
LEMMA RoomGrows ==
    ASSUME TypeInv, lost' = lost + 1
    PROVE  Room' = Room + Ram
<1>1. lost \in Nat
  BY DEF TypeInv, TypeOK, ControlOK
<1>2. \A R \in Nat : \A l \in Nat : R * (l + 1) = R * l + R
  OBVIOUS
<1>3. Ram \in Nat
  OBVIOUS
<1> HIDE DEF Ram
<1> QED
  BY <1>1, <1>2, <1>3 DEF Room

\* A frame that goes out after k words of replays: the ring invariant, with the
\* replays accounted for by lost interrupts and an end only at the frame's end or
\* at the barrier.
Shifted(k, e) ==
    /\ RingInv(k, e) /\ Pace(k, e) /\ Guarded(k) /\ FrameFrom(k) /\ ReplaysOnly(k)
    /\ isr # "idle" => posBefore # GuardSlot
    /\ Open(k) /\ pend.end => Sent(k) < Ram
    /\ k <= Room /\ (Open(k) /\ Sent(k) >= Half /\ ~pend.thr => k + Ram <= Room)
    /\ pend.end => Sent(k) = totalBits + 1 \/ (isr = "idle" /\ Left(k, e) = 0)

\* The initial window is not about to be sent again.
Within(k) == Open(k) => Sent(k) < Ram

\* Interrupts prompt or lost, the prompt ones at least a word late; a log that
\* holds the frame and a replay of the window for every interrupt lost.
SomeLost == ~Classic /\ ~Masked /\ Prompt /\ MinLat >= 1
          /\ \A b \in FrameBits : Ram * MaxLost + b + 1 < MaxWire

\* When the initial window ends unrefilled, the frame starts again from its
\* first bit, and a lost interrupt accounts for it.
LEMMA ShiftWraps ==
    ASSUME Prompt, TypeInv, NEW k, NEW e \in {0, Ram}, e = 0, Shifted(k, e), ~Within(k)
    PROVE  Shifted(k + Ram, e) /\ Within(k + Ram)
<1>0. RingInv(k, e) /\ Guarded(k) /\ FrameFrom(k) /\ ReplaysOnly(k) /\ Open(k) /\ Pace(k, e)
  BY DEF Shifted, Within
<1>n. RangesOK
  BY Ranges
<1>r. /\ pos \in 0 .. Ram - 1 /\ txLim = Half /\ totalBits \in Nat /\ Len(wire) \in Nat /\ isr = "idle"
      /\ ram \in [Slots -> Word] /\ k \in Nat /\ Len(wire) = k + Ram /\ Sent(k) = Ram
      /\ lat \in Nat /\ MaxLat \in Nat /\ Burst \in Nat
  <2>1. /\ pos \in 0 .. Ram - 1 /\ totalBits \in Nat /\ Len(wire) \in Nat
        /\ lat \in Nat /\ MaxLat \in Nat /\ Burst \in Nat
    BY <1>n DEF RangesOK
  <2>2. ram \in [Slots -> Word]
    BY <1>n DEF RangesOK
  <2>3. txLim = Half /\ isr = "idle" /\ Sent(k) <= Ram /\ ~(Sent(k) < Ram)
    BY <1>0 DEF Open, Within
  <2>4. k \in 0 .. Len(wire)
    BY <1>0 DEF RingInv
  <2>5. k \in Nat /\ Len(wire) = k + Ram /\ Sent(k) = Ram
    <3>1. k \in Nat
      BY ONLY <2>1, <2>4
    <3>2. Sent(k) \in Int /\ Ram \in Int
      BY <2>1, <3>1, HalfAssumption DEF Sent
    <3>3. Sent(k) = Ram
      BY ONLY <2>3, <3>2, HalfAssumption
    <3> QED
      BY ONLY <2>1, <3>1, <3>2, <3>3, HalfAssumption DEF Sent
  <2> QED
    BY ONLY <2>1, <2>2, <2>3, <2>5
<1>1. pos = 0 /\ GuardAt = 0 /\ Sent(k + Ram) = 0
  BY <1>0, <1>r DEF RingInv, Place, GuardAt, Sent
<1>2. Left(k, e) = 0 /\ Left(k + Ram, e) = Ram
  BY <1>r, <1>1 DEF Left, Ahead
<1>p. ~pend.thr /\ ~pend.end /\ k + Ram <= Room /\ Room \in Nat
  <2>1. ~pend.thr
    BY <1>0, <1>r, <1>2 DEF Pace, Prompt
  <2> QED
    BY <1>0, <1>r, <2>1, RoomSize DEF Shifted
<1>3. \A s \in Slots : ram[s] = Content(s) /\ Ahead(s) = s
  BY <1>0, <1>1 DEF Guarded, Ahead
<1>4. InWindow(k + Ram, e)
  BY <1>1, <1>2, <1>3 DEF InWindow
<1>5. Cursor(fill["isr"], Sent(k + Ram) + Left(k + Ram, e))
  <2>1. Sent(k) + Left(k, e) = Sent(k + Ram) + Left(k + Ram, e)
    BY <1>1, <1>2, <1>r
  <2> QED
    BY <1>0, <2>1 DEF RingInv, Cursor, Upto
<1>6. Place(k + Ram)
  BY <1>r, <1>1 DEF Place
<1>7. RingInv(k + Ram, e)
  <2>1. frameLen = totalBits
    BY <1>0 DEF RingInv
  <2> QED
    BY <1>r, <1>p, <1>1, <1>2, <1>4, <1>5, <1>6, <2>1 DEF RingInv
<1>8. Pace(k + Ram, e)
  BY <1>r, <1>p DEF Pace
<1>9. Open(k + Ram) /\ Guarded(k + Ram)
  BY <1>r, <1>1, <1>3 DEF Open, Guarded
<1>10. FrameFrom(k + Ram)
  BY <1>r DEF FrameFrom
<1>11. ReplaysOnly(k + Ram)
  <2>1. k % Ram = 0 /\ Ram \in Nat /\ Ram >= 2
    BY <1>0 DEF ReplaysOnly
  <2>2. (\A r \in 0 .. Ram - 1 : (k + r) % Ram = r) /\ (k + Ram) % Ram = 0
    BY <1>r, <2>1, ModWindow
  <2>3. ASSUME NEW i \in 1 .. k + Ram
        PROVE  (i - 1) % Ram <= totalBits /\ wire[i] = Stream(totalBits)[((i - 1) % Ram) + 1]
    <3>1. CASE i <= k
      <4>1. i \in 1 .. k
        BY <1>r, <3>1
      <4>2. \A n \in 1 .. k : (n - 1) % Ram <= totalBits /\ wire[n] = Stream(totalBits)[((n - 1) % Ram) + 1]
        BY <1>0 DEF ReplaysOnly
      <4> QED
        BY <4>1, <4>2
    <3>2. CASE i > k
      <4>1. PICK r \in 0 .. Ram - 1 : i = k + r + 1
        <5>1. i - 1 - k \in 0 .. Ram - 1
          BY <1>r, <3>2
        <5>2. i = k + (i - 1 - k) + 1
          BY <1>r
        <5> QED
          BY <5>1, <5>2
      <4>2. i - k <= totalBits + 1 /\ wire[i] = Stream(totalBits)[i - k]
        BY <1>0, <1>r, <3>2 DEF FrameFrom
      <4>3. i - 1 = k + r /\ i - k = r + 1
        BY <1>r, <4>1
      <4>4. (i - 1) % Ram = r
        BY <2>2, <4>3
      <4>5. r <= totalBits /\ wire[i] = Stream(totalBits)[r + 1]
        <5>1. i - k = r + 1
          BY <1>r, <4>1
        <5> QED
          BY <1>r, <4>2, <5>1
      <4> QED
        BY <4>4, <4>5
    <3> QED
      BY <1>r, <3>1, <3>2
  <2> QED
    BY <2>2, <2>3 DEF ReplaysOnly
<1> QED
  BY <1>r, <1>p, <1>1, <1>7, <1>8, <1>9, <1>10, <1>11 DEF Shifted, Within

\* Words sent after the replays leave them alone.
LEMMA ReplaysStay ==
    ASSUME NEW k \in 0 .. Len(wire), ReplaysOnly(k), Len(wire) \in Nat, totalBits' = totalBits,
           \A i \in 1 .. Len(wire) : wire'[i] = wire[i]
    PROVE  ReplaysOnly(k)'
<1>1. \A i \in 1 .. k : i \in 1 .. Len(wire)
  OBVIOUS
<1>2. \A i \in 1 .. k : wire'[i] = wire[i]
  BY <1>1
<1> QED
  BY ONLY ReplaysOnly(k), <1>2, totalBits' = totalBits DEF ReplaysOnly, Stream

\* k replayed words, at most n of them, and s of a frame of t bits leave room in the
\* log for another word.
LEMMA LogRoom ==
    ASSUME NEW k \in Nat, NEW room \in Nat, NEW n \in Nat, NEW s \in Nat, NEW t \in Nat,
           NEW log \in Nat, NEW length, length = k + s,
           k <= room, room <= n, s <= t, n + t + 1 < log
    PROVE  length < log
OBVIOUS

\* The transmitter sends the next word, whatever was replayed.
LEMMA ShiftedEmit ==
    ASSUME SomeLost, TypeInv, NEW k, NEW e \in {0, Ram}, e = 0, Shifted(k, e), Within(k), Emit,
           ~pend.end, Ram * MaxLost + totalBits + 1 < MaxWire
    PROVE  Shifted(k, e)'
<1> USE DEF SomeLost
<1>t. RangesOK
  BY Ranges
<1>r. /\ pos \in 0 .. Ram - 1 /\ txLim \in {Half, Ram} /\ totalBits \in Nat /\ Len(wire) \in Nat
      /\ wire \in Seq(Word) /\ ram \in [Slots -> Word] /\ MaxWire \in Nat /\ pend \in [thr : BOOLEAN, end : BOOLEAN]
  BY <1>t DEF RangesOK
<1>0. RingInv(k, e) /\ Pace(k, e) /\ Guarded(k) /\ FrameFrom(k) /\ ReplaysOnly(k)
  BY DEF Shifted
<1>k. k \in 0 .. Len(wire) /\ Sent(k) \in Nat /\ Sent(k) <= totalBits + 1 /\ Left(k, e) \in 0 .. Ram
  BY <1>0, <1>r DEF RingInv, Sent
<1>m. Room \in Nat /\ Room <= Ram * MaxLost /\ Ram * MaxLost \in Nat /\ k <= Room
  BY RoomSize DEF Shifted
<1>1. isr = "idle" => Left(k, e) > 0
  <2> SUFFICES ASSUME isr = "idle", Left(k, e) = 0 PROVE FALSE
    BY <1>k
  <2>1. pos = GuardAt /\ Sent(k) # 0
    BY <1>r DEF Left, Ahead, GuardAt
  <2>2. Open(k)
    BY <1>0, <2>1 DEF Guarded, Emit
  <2>3. Sent(k) < Ram /\ GuardAt = 0
    BY <2>2 DEF Within, Open, GuardAt
  <2> QED
    BY <1>0, <1>k, <2>1, <2>3 DEF RingInv, Place
<1>2. Left(k, e) > 0
  BY <1>0, <1>1, <1>t, RefillMoves DEF Emit
<1>w. Len(wire) < MaxWire
  <2>1. Sent(k) <= totalBits
    <3>1. ram[pos] = Content(Sent(k) + 0)
      <4>1. Ahead(pos) = 0 /\ pos \in Slots
        BY <1>r DEF Ahead
      <4> QED
        BY <1>0, <1>2, <4>1 DEF RingInv, InWindow
    <3>2. ram[pos] = Content(Sent(k))
      BY <1>k, <3>1
    <3>3. Content(Sent(k)) # STOP
      BY <3>2 DEF Emit
    <3> HIDE DEF Sent
    <3> QED
      BY <1>k, <1>r, <3>3 DEF Content
  <2>2. Len(wire) = k + Sent(k)
    BY <1>k, <1>r DEF Sent
  <2>3. k \in Nat
    BY <1>k, <1>r
  <2> HIDE DEF Ram, Room, Sent
  <2> QED
    BY <1>k, <1>r, <1>m, <2>1, <2>2, <2>3, LogRoom, Zenon
<1>3. /\ RingInv(k, e)' /\ Guarded(k)' /\ FrameFrom(k)' /\ Left(k, e)' = Left(k, e) - 1
      /\ Sent(k)' = Sent(k) + 1 /\ UNCHANGED <<isr, txLim, ram, totalBits>>
      /\ (\A i \in 1 .. Len(wire) : wire'[i] = wire[i])
  BY <1>0, <1>1, <1>t, <1>w, GuardedEmit
<1>4. Pace(k, e)'
  BY <1>0, <1>1, <1>t, <1>w, PaceEmit
<1>5. ReplaysOnly(k)'
  BY <1>0, <1>3, <1>k, <1>r, ReplaysStay
<1>6. /\ pend'.end = pend.end /\ (pend.thr => pend'.thr)
      /\ UNCHANGED <<lost, posBefore>> /\ Room' = Room
      /\ (pos' = Half /\ txLim = Half => pend'.thr)
  BY <1>t, <1>w, EmitClock, EmitMoves DEF Room
<1>7. isr' # "idle" => posBefore' # GuardSlot'
  BY <1>3, <1>6 DEF Shifted, GuardSlot, InSecond
<1>8. Open(k)' => Open(k)
  BY <1>3, <1>k DEF Open
<1>9. Open(k)' /\ Sent(k)' >= Half /\ ~pend'.thr => k + Ram <= Room'
  <2> SUFFICES ASSUME Open(k)', Sent(k)' >= Half, ~pend'.thr PROVE k + Ram <= Room
    BY <1>6
  <2>1. CASE Sent(k) >= Half
    BY <1>6, <1>8, <2>1 DEF Shifted
  <2>2. CASE Sent(k) < Half
    <3>1. Sent(k)' = Half
      BY <1>3, <1>k, <2>2
    <3>2. pos' = Half
      <4>1. Place(k)'
        BY <1>3 DEF RingInv
      <4> QED
        BY <3>1, <4>1 DEF Place
    <3> QED
      BY <1>3, <1>6, <3>2 DEF Open
  <2> QED
    BY <1>k, <2>1, <2>2
<1>10. k <= Room' /\ ~pend'.end
  BY <1>6, <1>m
<1> QED
  BY <1>3, <1>4, <1>5, <1>7, <1>9, <1>10 DEF Shifted

\* The transmitter halts at the frame's end or at the barrier.
LEMMA ShiftedHalt ==
    ASSUME TypeInv, NEW k, NEW e \in {0, Ram}, e = 0, Shifted(k, e), Within(k), Halt, ~pend.end
    PROVE  Shifted(k, e)'
<1>0. RingInv(k, e) /\ Pace(k, e) /\ Guarded(k) /\ FrameFrom(k) /\ ReplaysOnly(k)
  BY DEF Shifted
<1>r. RangesOK
  BY Ranges
<1>1. /\ UNCHANGED ringVars /\ MayMove /\ ram[pos] = STOP /\ UNCHANGED <<lost, wire, totalBits>>
      /\ UNCHANGED <<ram, txLim, isr, posBefore>>
  BY DEF Halt, ringVars, isrVars, frameVars, boundVars
<1>2. pend'.thr = pend.thr
  BY <1>r DEF Halt, RangesOK
<1>3. RingInv(k, e)' /\ Pace(k, e)' /\ Left(k, e)' = Left(k, e) /\ Sent(k)' = Sent(k)
  BY <1>0, <1>1, <1>2, <1>r, PaceStill
<1>4. Guarded(k)' /\ FrameFrom(k)' /\ ReplaysOnly(k)' /\ Room' = Room
  BY <1>0, <1>1, GuardedStill DEF ReplaysOnly, Stream, Room
<1>5. Open(k)' = Open(k) /\ GuardSlot' = GuardSlot
  BY <1>1, <1>3 DEF Open, GuardSlot, InSecond
<1>6. Sent(k) = totalBits + 1 \/ (isr = "idle" /\ Left(k, e) = 0)
  <2>1. Left(k, e) \in 0 .. Ram
    BY <1>0 DEF RingInv
  <2>2. CASE Left(k, e) > 0
    BY <1>0, <1>1, <1>r, <2>2, HaltsAtEnd
  <2>3. CASE Left(k, e) = 0
    BY <1>0, <1>1, <1>r, <2>3, RefillMoves
  <2> QED
    BY <2>1, <2>2, <2>3
<1> QED
  BY <1>1, <1>2, <1>3, <1>4, <1>5, <1>6 DEF Shifted, Within

\* A lost interrupt leaves the ring alone.
LEMMA ShiftedLose ==
    ASSUME TypeInv, NEW k, NEW e \in {0, Ram}, e = 0, Shifted(k, e), LoseThreshold
    PROVE  Shifted(k, e)'
<1>0. RingInv(k, e) /\ Pace(k, e) /\ Guarded(k) /\ FrameFrom(k) /\ ReplaysOnly(k)
  BY DEF Shifted
<1>r. RangesOK
  BY Ranges
<1>1. /\ UNCHANGED <<ram, pos, txLim, wire, frameLen, totalBits, bitCursor,
                     latchWritten, isr, posBefore, adv, fill>>
      /\ lost' = lost + 1
  BY DEF LoseThreshold, isrVars, frameVars
<1>2. ~pend'.thr /\ pend'.end = pend.end
  BY <1>r DEF LoseThreshold, RangesOK
<1>3. RingInv(k, e)' /\ Left(k, e)' = Left(k, e) /\ Sent(k)' = Sent(k)
  BY <1>0, <1>1, <1>2, <1>r, RingStill
<1>4. Pace(k, e)'
  <2>1. UNCHANGED <<HalfEnd, Refilled>>
    BY <1>1 DEF HalfEnd, InSecond, Refilled
  <2> QED
    BY <1>0, <1>1, <1>2, <2>1 DEF Pace
<1>5. Guarded(k)' /\ FrameFrom(k)' /\ ReplaysOnly(k)'
  BY <1>0, <1>1, GuardedStill DEF ReplaysOnly, Stream
<1>6. Room' = Room + Ram /\ Room \in Nat
  BY <1>1, RoomGrows, RoomSize
<1>7. Open(k)' = Open(k) /\ GuardSlot' = GuardSlot
  BY <1>1, <1>3 DEF Open, GuardSlot, InSecond
<1>8. k \in Nat /\ k <= Room
  BY <1>0, <1>r DEF Shifted, RingInv, RangesOK
<1>9. k <= Room' /\ k + Ram <= Room'
  BY <1>6, <1>8
<1> QED
  BY <1>1, <1>2, <1>3, <1>4, <1>5, <1>7, <1>9 DEF Shifted

\* A prompt refill begins before the barrier, past its guard's slot.
LEMMA ShiftedBegin ==
    ASSUME SomeLost, TypeInv, CallInv, Live, NEW k, NEW e \in {0, Ram}, e = 0, Shifted(k, e), RefillBegin
    PROVE  Shifted(k, e)'
<1> USE DEF SomeLost
<1>0. RingInv(k, e) /\ Pace(k, e) /\ Guarded(k) /\ FrameFrom(k) /\ ReplaysOnly(k) /\ k <= Room
  BY DEF Shifted
<1>r. RangesOK
  BY Ranges
<1>1. /\ ~pend.end /\ pend' = NoCause /\ UNCHANGED <<wire, totalBits, lost>>
      /\ ~frameComplete /\ (lat >= MinLat \/ ~running)
  BY DEF RefillBegin, MayTake, frameVars, boundVars, Live
<1>2. lat >= 1 /\ lat \in Nat
  BY <1>1, <1>r DEF CallInv, RangesOK
<1>3. /\ RingInv(k, e)' /\ Pace(k, e)' /\ isr' = "limit"
      /\ posBefore' = HalfEnd' - Half + lat /\ posBefore' = pos
  BY <1>0, <1>1, <1>r, PaceBegin
<1>4. posBefore' # GuardSlot'
  <2>1. HalfEnd' - Half = GuardSlot'
    BY <1>3 DEF HalfEnd, GuardSlot
  <2>2. pos \in Int /\ pos = GuardSlot' + lat
    BY <1>3, <1>r, <2>1 DEF RangesOK
  <2>3. GuardSlot' = pos - lat
    BY <1>2, <1>3, <2>2 DEF GuardSlot
  <2>4. pos # pos - lat
    BY <1>2, <2>2
  <2>5. posBefore' = pos
    BY <1>3
  <2> QED
    BY <2>3, <2>4, <2>5
<1>5. ~Open(k)' /\ Guarded(k)'
  BY <1>3 DEF Open, Guarded
<1>6. FrameFrom(k)' /\ ReplaysOnly(k)' /\ Room' = Room
  BY <1>0, <1>1 DEF FrameFrom, ReplaysOnly, Stream, Room
<1>7. ~pend'.end
  BY <1>1 DEF NoCause
<1> QED
  BY <1>0, <1>3, <1>4, <1>5, <1>6, <1>7 DEF Shifted

\* The handler's own steps keep the frame.
LEMMA ShiftedServe ==
    ASSUME TypeInv, NEW k, NEW e \in {0, Ram}, e = 0, Shifted(k, e),
           RefillLimit \/ RefillGuard \/ RefillFill
    PROVE  Shifted(k, e)'
<1>0. RingInv(k, e) /\ Pace(k, e) /\ Guarded(k) /\ FrameFrom(k) /\ ReplaysOnly(k) /\ k <= Room
  BY DEF Shifted
<1>1. UNCHANGED <<totalBits, lost>>
  BY DEF RefillLimit, RefillGuard, RefillFill, FillHalf, frameVars, boundVars
<1>2. /\ RingInv(k, e)' /\ Pace(k, e)' /\ Sent(k)' = Sent(k) /\ isr # "idle" /\ isr' # "idle"
      /\ UNCHANGED <<posBefore, pend, wire>>
  BY <1>0, PaceServe
<1>3. posBefore # GuardSlot /\ (pend.end => Sent(k) = totalBits + 1)
  BY <1>2 DEF Shifted
<1>4. Guarded(k)' /\ FrameFrom(k)'
  BY <1>0, <1>3, GuardedServe
<1>5. ReplaysOnly(k)' /\ Room' = Room /\ GuardSlot' = GuardSlot /\ ~Open(k)'
  BY <1>0, <1>1, <1>2 DEF ReplaysOnly, Stream, Room, GuardSlot, InSecond, Open
<1> QED
  BY <1>0, <1>1, <1>2, <1>3, <1>4, <1>5 DEF Shifted

\* The end of a refill keeps the frame.
LEMMA ShiftedEnd ==
    ASSUME SomeLost, TypeInv, NEW k, NEW e \in {0, Ram}, e = 0, Shifted(k, e), RefillEnd
    PROVE  Shifted(k, e)'
<1> USE DEF SomeLost
<1>0. RingInv(k, e) /\ Pace(k, e) /\ Guarded(k) /\ FrameFrom(k) /\ ReplaysOnly(k) /\ k <= Room
  BY DEF Shifted
<1>r. RangesOK
  BY Ranges
<1>1. UNCHANGED <<totalBits, lost>> /\ isr = "fill" /\ isr' = "idle"
  BY DEF RefillEnd, frameVars, boundVars
<1>2. posBefore # GuardSlot /\ (pend.end => Sent(k) = totalBits + 1)
  BY <1>1 DEF Shifted
<1>3. /\ Pace(k, e)' /\ Sent(k)' = Sent(k) /\ UNCHANGED <<pend, wire>>
  BY <1>0, <1>2, <1>r, PaceEnd
<1>4. RingInv(k, e)' /\ Guarded(k)' /\ FrameFrom(k)' /\ ~Open(k)'
  BY <1>0, <1>r, GuardedEnd
<1>5. ReplaysOnly(k)' /\ Room' = Room
  BY <1>0, <1>1, <1>3 DEF ReplaysOnly, Stream, Room
<1> QED
  BY <1>0, <1>1, <1>2, <1>3, <1>4, <1>5 DEF Shifted

\* A step that leaves the ring alone keeps the frame.
LEMMA ShiftedStill ==
    ASSUME TypeInv, NEW k, NEW e \in {0, Ram}, Shifted(k, e), UNCHANGED <<ringVars, pend, lost>>
    PROVE  Shifted(k, e)'
<1>0. RingInv(k, e) /\ Pace(k, e) /\ Guarded(k) /\ FrameFrom(k) /\ ReplaysOnly(k)
  BY DEF Shifted
<1>1. UNCHANGED <<ram, txLim, isr, posBefore, wire, totalBits>>
  BY DEF ringVars
<1>2. RingInv(k, e)' /\ Pace(k, e)' /\ Left(k, e)' = Left(k, e) /\ Sent(k)' = Sent(k)
  BY <1>0, Ranges, PaceStill
<1>3. Guarded(k)' /\ FrameFrom(k)' /\ ReplaysOnly(k)' /\ Room' = Room
  BY <1>0, <1>1, GuardedStill DEF ReplaysOnly, Stream, Room
<1>4. Open(k)' = Open(k) /\ GuardSlot' = GuardSlot
  BY <1>1, <1>2 DEF Open, GuardSlot, InSecond
<1> QED
  BY <1>1, <1>2, <1>3, <1>4 DEF Shifted

\* A frame starts with nothing replayed.
LEMMA ShiftedStart ==
    ASSUME ~Masked, TypeInv, StopInv, CallInv, PrefillInv, StartTx, NEW k, NEW e \in {0, Ram}, k = 0
    PROVE  Shifted(k, e)'
<1>1. RingInv(k, e)' /\ pend' = NoCause /\ isr' = "idle"
  BY RingStart
<1>2. Guarded(k)' /\ FrameFrom(k)' /\ Sent(k)' = 0
  BY GuardedStart
<1>3. ~pend'.thr /\ ~pend'.end
  BY <1>1 DEF NoCause
<1>4. Pace(k, e)'
  BY <1>1, <1>3 DEF Pace
<1>5. ReplaysOnly(k)'
  <2>1. 0 % Ram = 0
    OBVIOUS
  <2> QED
    BY <2>1 DEF ReplaysOnly
<1>6. Room' = Room /\ Room \in Nat
  BY RoomSize DEF Room, StartTx, boundVars
<1>7. k <= Room'
  BY <1>6
<1> QED
  BY <1>1, <1>2, <1>3, <1>4, <1>5, <1>7 DEF Shifted

\* While a frame is sent, some number of replays explains its wire.
Shifting(e) == Live => \E k \in 0 .. Len(wire) : Shifted(k, e)

\* Every step keeps the frame explained.
LEMMA ShiftedStep ==
    ASSUME SomeLost, FrameInv, LogFits(Ram * MaxLost), NEW e \in {0, Ram}, e = 0, [Next]_vars,
           Shifting(e)
    PROVE  Shifting(e)'
<1> SUFFICES ASSUME Live' PROVE \E k : Shifted(k, e)'
  BY DEF Shifting, Shifted, RingInv
<1> USE DEF FrameInv
<1>0. ~Masked /\ ~Classic /\ Prompt
  BY DEF SomeLost
<1>1. CASE Live
  <2>1. PICK k : Shifted(k, e) /\ Within(k)
    BY <1>0, <1>1, ShiftWraps DEF Shifting
  <2>2. CASE Emit
    <3>1. ~pend.end
      BY <2>2, MovesLive DEF Emit, MayMove
    <3>2. Ram * MaxLost + totalBits + 1 < MaxWire
      BY <1>1 DEF LogFits, Live
    <3> QED
      BY <2>1, <2>2, <3>1, <3>2, ShiftedEmit
  <2>3. CASE Halt
    <3>1. ~pend.end
      BY <2>3, MovesLive DEF Halt, MayMove
    <3> QED
      BY <2>1, <2>3, <3>1, ShiftedHalt
  <2>4. CASE LoseThreshold
    BY <2>1, <2>4, ShiftedLose
  <2>5. CASE RefillBegin
    BY <1>1, <2>1, <2>5, ShiftedBegin
  <2>6. CASE RefillLimit \/ RefillGuard \/ RefillFill
    BY <2>1, <2>6, ShiftedServe
  <2>7. CASE RefillEnd
    BY <2>1, <2>7, ShiftedEnd
  <2>8. CASE UNCHANGED <<ringVars, pend, running, guardSkips, lost>>
    BY <2>1, <2>8, ShiftedStill
  <2>9. CASE StartTx
    BY <1>1, <2>9 DEF StartTx, Live
  <2> QED
    BY <1>0, <2>2, <2>3, <2>4, <2>5, <2>6, <2>7, <2>8, <2>9, LiveCases
<1>2. CASE ~Live
  <2>1. StartTx
    BY <1>0, <1>2, LiveCases
  <2>2. PICK k \in {0} : TRUE
    OBVIOUS
  <2>3. Shifted(k, e)'
    BY <1>0, <2>1, <2>2, ShiftedStart
  <2> QED
    BY <2>3
<1> QED
  BY <1>1, <1>2

\* Shifting without the parameter the ring invariant takes.
ShiftInv == \A e \in {0, Ram} : e = 0 => Shifting(e)

\* A frame is explained throughout.
LEMMA ShiftingInvariant == SomeLost /\ Spec => [](FrameInv /\ ShiftInv)
<1> SUFFICES ASSUME SomeLost PROVE Spec => [](FrameInv /\ ShiftInv)
  OBVIOUS
<1>1. PICK e \in {0, Ram} : e = 0
  OBVIOUS
<1>2. Init => LogFits(Ram * MaxLost) /\ Shifting(e)
  BY DEF Init, LogFits, Shifting, Live
<1>3. LogFits(Ram * MaxLost) /\ [Next]_vars => LogFits(Ram * MaxLost)'
  BY LogStep DEF SomeLost
<1>4. FrameInv /\ LogFits(Ram * MaxLost) /\ Shifting(e) /\ [Next]_vars => Shifting(e)'
  BY <1>1, ShiftedStep
<1>5. ~Masked /\ ~Classic
  BY DEF SomeLost
<1>6. Shifting(e) => ShiftInv
  BY <1>1 DEF ShiftInv
<1> QED
  BY <1>2, <1>3, <1>4, <1>5, <1>6, FrameInvariant, PTL DEF Spec

\* The cost of planting no guard at start (ReplayThenPrefix; guard.rs): with prompt
\* interrupts, some of them lost, the wire is whole replays of the initial window,
\* then the frame from its first bit.
THEOREM ReplaysThenFrame == SomeLost /\ Spec => []ReplayThenPrefix
<1> SUFFICES ASSUME SomeLost PROVE Spec => []ReplayThenPrefix
  OBVIOUS
<1>1. Init => ReplayThenPrefix
  <2> SUFFICES ASSUME Init PROVE ReplaysOnly(0) /\ FrameFrom(0) /\ Len(wire) = 0
    BY DEF ReplayThenPrefix
  <2>1. Len(wire) = 0 /\ 0 % Ram = 0
    BY DEF Init
  <2> QED
    BY <2>1 DEF ReplaysOnly, FrameFrom
<1>2. FrameInv /\ ReplayThenPrefix /\ ShiftInv' /\ [Next]_vars => ReplayThenPrefix'
  <2> SUFFICES ASSUME FrameInv, ReplayThenPrefix, ShiftInv', [Next]_vars, ~Prefilling'
               PROVE  ReplayThenPrefix'
    BY DEF ReplayThenPrefix
  <2>1. CASE Live'
    <3>1. PICK e \in {0, Ram} : e = 0
      OBVIOUS
    <3>2. Shifting(e)'
      BY <3>1 DEF ShiftInv
    <3> QED
      BY <2>1, <3>2 DEF Shifting, Shifted, ReplayThenPrefix
  <2>2. CASE ~Live'
    <3>1. ~Prefilling /\ UNCHANGED <<wire, totalBits>>
      BY <2>2, WireRests
    <3> QED
      BY <3>1 DEF ReplayThenPrefix, ReplaysOnly, FrameFrom, Stream
  <2> QED
    BY <2>1, <2>2
<1> QED
  BY <1>1, <1>2, ShiftingInvariant, PTL DEF Spec

\* Leaving a frame that is not complete is giving it up.
AbortInv == pc \in {"stop", "disarm", "publish"} /\ aborts = 0 => frameComplete

\* Every step keeps AbortInv.
LEMMA AbortStep ==
    ASSUME TypeInv, AbortInv, [Next]_vars
    PROVE  AbortInv'
<1>0. aborts \in Nat
  BY DEF TypeInv, TypeOK, ControlOK
<1>1. CASE GiveUp
  BY <1>0, <1>1 DEF GiveUp, AbortInv
<1>2. CASE (\E bits \in FrameBits : Arm(bits)) \/ Prefill \/ PrefillSecond \/ StartTx \/ Return
  <2>1. pc' \notin {"stop", "disarm", "publish"}
    BY <1>2 DEF Arm, Prefill, PrefillSecond, StartTx, Return, FillHalf, threadVars
  <2> QED
    BY <2>1 DEF AbortInv
<1>3. CASE DropGuard
  BY <1>3 DEF DropGuard, AbortInv, frameVars
<1>4. CASE Transmitter \/ LoseThreshold \/ Isr \/ Abort \/ UNCHANGED vars
  <2>a. aborts' = aborts
    BY <1>4 DEF Transmitter, Isr, Abort, Emit, Halt, LoseThreshold, Finish, RefillBegin,
       RefillLimit, RefillGuard, RefillFill, RefillEnd, FillHalf, StopTx, DropFrame, PublishComplete,
       boundVars, vars
  <2>2. pc' \in {"stop", "disarm", "publish"} => pc \in {"stop", "disarm", "publish"}
    BY <1>4 DEF Transmitter, Isr, Abort, Emit, Halt, LoseThreshold, Finish, RefillBegin,
       RefillLimit, RefillGuard, RefillFill, RefillEnd, FillHalf, StopTx, DropFrame, PublishComplete,
       threadVars, vars
  <2>b. CASE Finish \/ PublishComplete
    BY <2>b DEF Finish, PublishComplete, AbortInv
  <2>1. CASE ~(Finish \/ PublishComplete)
   <3>1. frameComplete' = frameComplete
    BY <1>4, <2>1 DEF Transmitter, Isr, Abort, Emit, Halt, LoseThreshold, Finish, RefillBegin,
       RefillLimit, RefillGuard, RefillFill, RefillEnd, FillHalf, StopTx, DropFrame, PublishComplete,
       frameVars, vars
   <3> QED
    BY <1>4, <2>a, <2>2, <3>1 DEF AbortInv
  <2> QED
    BY <2>b, <2>1
<1> QED
  BY <1>1, <1>2, <1>3, <1>4 DEF Next, InCall

\* A frame the handler completes without counting it went out to its last bit.
LEMMA UncountedIsWhole ==
    ASSUME TypeInv, NEW k, NEW e \in {0, Ram}, e = 0, Shifted(k, e), Finish, ~Tripped
    PROVE  Missing = {}
<1>0. RingInv(k, e) /\ FrameFrom(k) /\ pend.end /\ isr = "idle"
  BY DEF Shifted, Finish, MayTake
<1>r. RangesOK
  BY Ranges
<1>1. /\ totalBits \in Nat /\ bitCursor = totalBits /\ Len(wire) \in Nat /\ k \in 0 .. Len(wire)
      /\ Sent(k) \in Nat /\ fill["isr"].stage = "off"
  BY <1>0, <1>r DEF RangesOK, RingInv, Tripped, Sent
<1>2. Sent(k) >= totalBits
  <2>1. CASE Sent(k) = totalBits + 1
    BY <1>1, <2>1
  <2>2. CASE Left(k, e) = 0
    <3>1. bitCursor = Upto(Sent(k) + 0)
      BY <1>0, <1>1, <2>2 DEF RingInv, Cursor
    <3> QED
      BY <1>1, <3>1 DEF Upto
  <2> QED
    BY <1>0, <2>1, <2>2 DEF Shifted
<1>3. ASSUME NEW b \in 0 .. totalBits - 1 PROVE b \in OnWire
  <2>1. PICK i \in k + 1 .. Len(wire) : i = k + b + 1
    BY <1>1, <1>2 DEF Sent
  <2>2. wire[i] = Stream(totalBits)[i - k]
    BY <1>0 DEF FrameFrom
  <2>3. i - k = b + 1 /\ b + 1 \in 1 .. totalBits + 1 /\ b + 1 <= totalBits /\ i \in 1 .. Len(wire)
    BY <1>1, <2>1
  <2>4. wire[i] = b
    <3>1. Stream(totalBits)[b + 1] = b
      BY <1>1, <2>3 DEF Stream
    <3> QED
      BY <2>2, <2>3, <3>1
  <2> QED
    BY <2>3, <2>4 DEF OnWire
<1> QED
  BY <1>3 DEF Missing

\* complete_frames (WholeUnlessCounted; finish in driver.rs): with prompt interrupts,
\* some of them lost, a frame that is complete and not counted in guard_trips has had
\* every bit of it on the wire.
THEOREM CompleteMeansWhole == SomeLost /\ Spec => []WholeUnlessCounted
<1> SUFFICES ASSUME SomeLost PROVE Spec => []WholeUnlessCounted
  OBVIOUS
<1>1. Init => WholeUnlessCounted /\ AbortInv
  BY DEF Init, WholeUnlessCounted, Missing, AbortInv
<1>2. FrameInv /\ AbortInv /\ [Next]_vars => AbortInv'
  BY AbortStep DEF FrameInv
<1>3. FrameInv /\ AbortInv /\ ShiftInv /\ WholeUnlessCounted /\ [Next]_vars => WholeUnlessCounted'
  <2> SUFFICES ASSUME FrameInv, AbortInv, ShiftInv, WholeUnlessCounted, [Next]_vars,
                      ~Prefilling', frameComplete', aborts' = 0, guardTrips' = 0
               PROVE  Missing' = {}
    BY DEF WholeUnlessCounted
  <2>0. aborts \in Nat /\ guardTrips \in Nat
    BY DEF FrameInv, TypeInv, TypeOK, ControlOK, ChannelOK
  <2>1. ~Prefilling /\ UNCHANGED <<wire, totalBits>>
    BY WireRests DEF Live
  <2>2. Missing' = Missing
    BY <2>1 DEF Missing, OnWire
  <2>3. aborts = 0
    <3>1. CASE GiveUp
      BY <2>0, <3>1 DEF GiveUp
    <3>2. CASE ~GiveUp
      <4>1. aborts' = aborts
        BY <3>2 DEF Next, Transmitter, Isr, InCall, Abort, Emit, Halt, LoseThreshold, Finish, RefillBegin,
           RefillLimit, RefillGuard, RefillFill, RefillEnd, FillHalf, Arm, Prefill, PrefillSecond, StartTx,
           Return, DropGuard, StopTx, DropFrame, PublishComplete, boundVars, vars
      <4> QED
        BY <4>1
    <3> QED
      BY <3>1, <3>2
  <2>4. CASE Finish
    <3>1. guardTrips = 0 /\ (~frameComplete => ~Tripped)
      <4>1. CASE frameComplete
        BY <2>4, <4>1 DEF Finish
      <4>2. CASE ~frameComplete
        <5>1. guardTrips' = IF Tripped THEN guardTrips + 1 ELSE guardTrips
          BY <2>4, <4>2 DEF Finish
        <5> QED
          BY <2>0, <4>2, <5>1
      <4> QED
        BY <4>1, <4>2
    <3>2. CASE frameComplete
      BY <2>1, <2>2, <2>3, <3>1, <3>2 DEF WholeUnlessCounted
    <3>3. CASE ~frameComplete
      <4>1. Live
        BY <2>1, <2>4, <3>3 DEF FrameInv, StopInv, Finish, MayTake, Pending, Live
      <4>2. PICK e \in {0, Ram} : e = 0
        OBVIOUS
      <4>3. PICK k : Shifted(k, e)
        BY <4>1, <4>2 DEF ShiftInv, Shifting
      <4> QED
        BY <2>2, <2>4, <3>1, <3>3, <4>2, <4>3, UncountedIsWhole DEF FrameInv
    <3> QED
      BY <3>2, <3>3
  <2>5. CASE ~Finish
    <3>1. guardTrips' = guardTrips
      BY <2>5 DEF Next, Transmitter, Isr, InCall, Abort, Emit, Halt, LoseThreshold, RefillBegin,
           RefillLimit, RefillGuard, RefillFill, RefillEnd, FillHalf, Arm, Prefill, PrefillSecond, StartTx,
           Return, DropGuard, GiveUp, StopTx, DropFrame, PublishComplete, countVars, vars
    <3>2. CASE PublishComplete
      BY <2>1, <2>2, <2>3, <3>1, <3>2 DEF PublishComplete, AbortInv, WholeUnlessCounted
    <3>3. CASE ~PublishComplete
      <4>1. frameComplete
        BY <2>5, <3>3 DEF Next, Transmitter, Isr, InCall, Abort, Emit, Halt, LoseThreshold, RefillBegin,
           RefillLimit, RefillGuard, RefillFill, RefillEnd, FillHalf, Arm, Prefill, PrefillSecond, StartTx,
           Return, DropGuard, GiveUp, StopTx, DropFrame, frameVars, vars
      <4> QED
        BY <2>1, <2>2, <2>3, <3>1, <4>1 DEF WholeUnlessCounted
    <3> QED
      BY <3>2, <3>3
  <2> QED
    BY <2>4, <2>5
<1> QED
  BY <1>1, <1>2, <1>3, ShiftingInvariant, PTL DEF Spec

-----------------------------------------------------------------------------
(*****************************************************************************)
(* What guard_trips tells, skipped guards and all.                           *)
(*****************************************************************************)

\* The frame's first n bits were sent, at least once.
Gone(n) == \A b \in 0 .. totalBits - 1 : b < n => b \in OnWire

\* A lap of the transmitter round the ring starts at the half it was in when the
\* last refill began.
LapStart == IF isr = "idle" THEN GuardAt ELSE GuardSlot

\* How far the transmitter is into its lap, and the slot o words into it.
Progress ==
    IF isr # "idle" THEN posBefore + adv - LapStart
    ELSE IF pos >= LapStart THEN pos - LapStart ELSE pos + Ram - LapStart

LapSlot(o) == IF LapStart + o < Ram THEN LapStart + o ELSE LapStart + o - Ram

\* How many of the lap's words are written.
Fresh == IF isr = "idle" THEN Ram ELSE Half + Refilled

\* The transmitter is on a lap whose first word is word m of the frame: what it has
\* behind it was sent, and what it has ahead of it is the frame, unless its first
\* half is left from a lap before, and was sent then.
OnLap(m) ==
    /\ Progress <= Fresh
    /\ Gone(m + Progress)
    /\ \A o \in 0 .. Ram - 1 : Progress <= o /\ o < Fresh =>
          (o < Half /\ Gone(m + Half)) \/ ram[LapSlot(o)] = Content(m + o)
    /\ pend.thr => Progress >= Half

\* Where a running refill is.
InServe ==
    /\ posBefore \in LapStart .. LapStart + Half - 1
    /\ pos = posBefore + adv \/ pos = posBefore + adv - Ram
    /\ isr # "limit" => txLim = HalfEnd
    /\ fill["isr"].stage # "off" => fill["isr"].end = FreeHalf + Half

\* Every bit written is on the wire or ahead of the transmitter; and when it stops,
\* only bits of the half written last are not on the wire.
Covered(m) ==
    /\ frameLen = totalBits
    /\ isr # "idle" => InServe
    /\ Cursor(fill["isr"], m + Fresh)
    /\ ~running => Gone(m + Half)
    /\ OnLap(m) \/ (isr = "idle" /\ Gone(m + Ram))

\* No more words than the log holds.
Logged == Len(wire) < MaxWire

\* More of the frame sent covers less of it sent.
LEMMA GoneLess ==
    ASSUME NEW m \in Int, NEW n \in Int, n <= m, Gone(m), totalBits \in Nat
    PROVE  Gone(n)
BY DEF Gone

\* What is sent stays sent.
LEMMA GoneStays ==
    ASSUME RangesOK, NEW m \in Int, Gone(m), totalBits' = totalBits,
           wire' = wire \/ wire' = Append(wire, ram[pos])
    PROVE  Gone(m)'
<1>1. wire \in Seq(Word) /\ Len(wire) \in Nat
  BY DEF RangesOK
<1>2. Len(wire') >= Len(wire) /\ \A i \in 1 .. Len(wire) : wire'[i] = wire[i]
  BY <1>1
<1>3. OnWire \subseteq OnWire'
  <2> SUFFICES ASSUME NEW i \in 1 .. Len(wire) PROVE wire[i] \in OnWire'
    BY DEF OnWire
  <2>1. wire'[i] = wire[i] /\ i \in 1 .. Len(wire')
    BY <1>1, <1>2
  <2> QED
    BY <2>1 DEF OnWire
<1> QED
  BY <1>3 DEF Gone

\* Sending word n next makes the first n + 1 words sent.
LEMMA GoneNext ==
    ASSUME RangesOK, NEW n \in Nat, Gone(n), totalBits' = totalBits, wire' = Append(wire, ram[pos]),
           ram[pos] = Content(n)
    PROVE  Gone(n + 1)'
<1>1. wire \in Seq(Word) /\ Len(wire) \in Nat /\ totalBits \in Nat
  BY DEF RangesOK
<1>2. Gone(n)'
  BY GoneStays
<1>3. wire'[Len(wire) + 1] = ram[pos] /\ Len(wire') = Len(wire) + 1
  BY <1>1
<1>4. ram[pos] \in OnWire'
  BY <1>1, <1>3 DEF OnWire
<1> QED
  <2> SUFFICES ASSUME NEW b \in 0 .. totalBits - 1, b < n + 1 PROVE b \in OnWire'
    BY DEF Gone
  <2>1. CASE b < n
    BY <1>2, <2>1 DEF Gone
  <2>2. CASE b = n
    <3>1. ram[pos] = b
      BY <1>1, <2>2 DEF Content
    <3> QED
      BY <1>4, <3>1
  <2> QED
    BY <2>1, <2>2

\* Where the lap puts the transmitter.
LEMMA LapPlace ==
    ASSUME RangesOK, isr # "idle" => InServe, Progress <= Fresh
    PROVE  /\ LapStart \in {0, Half} /\ Progress \in 0 .. Ram /\ Fresh \in Half .. Ram
           /\ isr = "idle" => Progress < Ram /\ Fresh = Ram
           /\ pos = IF Progress = Ram THEN LapStart ELSE LapSlot(Progress)
           /\ \A o \in 0 .. Ram - 1 : LapSlot(o) \in Slots
           /\ \A o, p \in 0 .. Ram - 1 : LapSlot(o) = LapSlot(p) => o = p
<1>1. /\ pos \in 0 .. Ram - 1 /\ posBefore \in 0 .. Ram - 1 /\ adv \in Nat /\ Refilled \in 0 .. Half
      /\ txLim \in {Half, Ram}
  BY DEF RangesOK
<1>2. LapStart \in {0, Half}
  BY DEF LapStart, GuardAt, GuardSlot
<1>3. Fresh \in Half .. Ram /\ (isr = "idle" => Fresh = Ram)
  BY <1>1 DEF Fresh
<1>4. CASE isr = "idle"
  <2>1. Progress = IF pos >= LapStart THEN pos - LapStart ELSE pos + Ram - LapStart
    BY <1>4 DEF Progress
  <2> QED
    BY <1>1, <1>2, <1>3, <1>4, <2>1 DEF LapSlot
<1>5. CASE isr # "idle"
  <2>1. /\ Progress = posBefore + adv - LapStart /\ posBefore >= LapStart
        /\ pos = posBefore + adv \/ pos = posBefore + adv - Ram
    BY <1>1, <1>2, <1>5 DEF Progress, InServe
  <2> QED
    BY <1>1, <1>2, <1>3, <1>5, <2>1 DEF LapSlot
<1> QED
  BY <1>4, <1>5

\* What the transmitter sends on its lap is the next word of the frame or sent before.
LEMMA CoverEmit ==
    ASSUME ~Classic, Burst <= 1, RangesOK, NEW m \in Nat, Covered(m), Emit, Logged
    PROVE  Covered(m)'
<1>r. /\ pos \in 0 .. Ram - 1 /\ posBefore \in 0 .. Ram - 1 /\ adv \in Nat /\ Refilled \in 0 .. Half
      /\ txLim \in {Half, Ram} /\ totalBits \in Nat /\ Burst \in Nat /\ wire \in Seq(Word)
  BY DEF RangesOK
<1>1. /\ UNCHANGED <<isr, posBefore, txLim, ram, totalBits, fill, frameLen, bitCursor, latchWritten>>
      /\ IF pos = Ram - 1 THEN pos' = 0 ELSE pos' = pos + 1
      /\ wire' = Append(wire, ram[pos])
      /\ adv' = (IF isr = "idle" THEN 0 ELSE adv + 1)
      /\ isr # "idle" => adv < Refilled + Burst
  BY EmitMoves DEF Logged
<1>2. running' /\ (pend'.thr <=> pend.thr \/ pos' = (IF txLim = Ram THEN 0 ELSE Half))
  BY EmitClock
<1>3. UNCHANGED <<GuardAt, GuardSlot, HalfEnd, FreeHalf, LapStart, Fresh>>
  BY <1>1 DEF GuardAt, GuardSlot, HalfEnd, FreeHalf, LapStart, Fresh, InSecond, Refilled
<1>4. \A o : LapSlot(o)' = LapSlot(o) /\ Content(o)' = Content(o)
  BY <1>1, <1>3 DEF LapSlot, Content
<1>5. isr' # "idle" => InServe'
  <2> SUFFICES ASSUME isr # "idle" PROVE InServe'
    BY <1>1
  <2>1. /\ posBefore \in LapStart .. LapStart + Half - 1
        /\ pos = posBefore + adv \/ pos = posBefore + adv - Ram
        /\ isr # "limit" => txLim = HalfEnd
        /\ fill["isr"].stage # "off" => fill["isr"].end = FreeHalf + Half
    BY DEF Covered, InServe
  <2>2. adv <= Half /\ LapStart \in {0, Half}
    BY <1>1, <1>r DEF LapStart, GuardAt, GuardSlot
  <2>3. posBefore + adv + 1 < 2 * Ram
    BY <1>r, <2>1, <2>2
  <2> QED
    BY <1>1, <1>3, <1>r, <2>1, <2>3 DEF InServe
<1>6. Cursor(fill["isr"], m + Fresh)'
  BY <1>1, <1>3 DEF Covered, Cursor, Upto
<1>7. CASE isr = "idle" /\ Gone(m + Ram)
  <2>1. Gone(m + Ram)'
    BY <1>1, <1>7, GoneStays
  <2> QED
    BY <1>1, <1>2, <1>5, <1>6, <1>7, <2>1 DEF Covered
<1>8. CASE OnLap(m)
  <2>p. /\ LapStart \in {0, Half} /\ Progress \in 0 .. Ram /\ Fresh \in Half .. Ram
        /\ isr = "idle" => Progress < Ram /\ Fresh = Ram
        /\ pos = IF Progress = Ram THEN LapStart ELSE LapSlot(Progress)
    BY <1>8, LapPlace DEF OnLap, Covered
  <2>1. Progress < Fresh
    <3>1. CASE isr = "idle"
      BY <2>p, <3>1
    <3>2. CASE isr # "idle"
      <4>1. posBefore <= LapStart + Half - 1 /\ Progress = posBefore + adv - LapStart
            /\ Fresh = Half + Refilled
        BY <1>r, <2>p, <3>2 DEF Covered, InServe, Progress, Fresh
      <4> QED
        BY <1>1, <1>r, <2>p, <3>2, <4>1
    <3> QED
      BY <3>1, <3>2
  <2>2. Progress \in 0 .. Ram - 1 /\ pos = LapSlot(Progress)
    BY <2>p, <2>1
  <2>q. PICK p \in 0 .. Ram - 1 : p = Progress
    BY <2>2
  <2>3. Gone(m + p + 1)'
    <3>0. m + p \in Nat /\ Gone(m + p)
      BY <1>8, <2>q DEF OnLap
    <3>1. CASE ram[LapSlot(Progress)] = Content(m + Progress)
      <4>1. ram[pos] = Content(m + p)
        BY <2>2, <2>q, <3>1
      <4> QED
        BY <1>1, <3>0, <4>1, GoneNext
    <3>2. CASE Progress < Half /\ Gone(m + Half)
      <4>1. Gone(m + p + 1)
        BY <1>r, <2>q, <3>2, GoneLess
      <4> QED
        BY <1>1, <4>1, GoneStays
    <3>3. \/ ram[LapSlot(Progress)] = Content(m + Progress)
          \/ Progress < Half /\ Gone(m + Half)
      BY <1>8, <2>1, <2>2 DEF OnLap
    <3> QED
      BY <3>1, <3>2, <3>3
  <2>4. IF isr = "idle" /\ Progress = Ram - 1 THEN Progress' = 0 ELSE Progress' = Progress + 1
    <3>1. CASE isr = "idle"
      <4>1. pos = IF LapStart + Progress < Ram THEN LapStart + Progress
                  ELSE LapStart + Progress - Ram
        BY <2>2 DEF LapSlot
      <4>2. pos' = IF pos = Ram - 1 THEN 0 ELSE pos + 1
        BY <1>1, <1>r
      <4>3. Progress' = IF pos' >= LapStart THEN pos' - LapStart ELSE pos' + Ram - LapStart
        BY <1>1, <1>3, <3>1 DEF Progress
      <4> HIDE DEF LapStart, Progress
      <4> QED
        BY <1>r, <2>p, <2>2, <3>1, <4>1, <4>2, <4>3
    <3>2. CASE isr # "idle"
      BY <1>1, <1>3, <1>r, <2>p, <3>2 DEF Progress
    <3> QED
      BY <3>1, <3>2
  <2>5. CASE isr = "idle" /\ Progress = Ram - 1
    <3>1. m + p + 1 = m + Ram
      BY <2>5, <2>q
    <3>2. Gone(m + Ram)'
      BY <2>3, <3>1
    <3> QED
      BY <1>1, <1>2, <1>5, <1>6, <2>5, <3>2 DEF Covered
  <2>6. CASE ~(isr = "idle" /\ Progress = Ram - 1)
    <3>1. Progress' = Progress + 1 /\ Progress' <= Fresh'
      BY <1>3, <2>1, <2>2, <2>4, <2>6, <2>p
    <3>2. Gone(m + Progress)'
      <4>1. (m + Progress)' = m + p + 1
        BY <2>q, <3>1
      <4>2. Gone(m + Progress)' = Gone(m + p + 1)'
        BY <4>1 DEF Gone
      <4> QED
        BY <2>3, <4>2
    <3>3. ASSUME NEW o \in 0 .. Ram - 1, Progress' <= o, o < Fresh'
          PROVE  (o < Half /\ Gone(m + Half)') \/ ram'[LapSlot(o)'] = Content(m + o)'
      <4>1. Progress <= o /\ o < Fresh
        BY <1>3, <2>2, <3>1, <3>3
      <4>2. CASE o < Half /\ Gone(m + Half)
        BY <1>1, <4>2, GoneStays
      <4>3. CASE ram[LapSlot(o)] = Content(m + o)
        BY <1>1, <1>4, <4>3
      <4> QED
        BY <1>8, <4>1, <4>2, <4>3 DEF OnLap
    <3>4. pend'.thr => Progress' >= Half
      <4>1. CASE pend.thr
        BY <1>8, <2>2, <3>1, <4>1 DEF OnLap
      <4>2. CASE pos' = IF txLim = Ram THEN 0 ELSE Half
        <5>1. CASE isr = "idle"
          BY <1>1, <1>r, <2>2, <2>p, <2>6, <3>1, <4>2, <5>1 DEF LapStart, GuardAt, LapSlot
        <5>2. CASE isr # "idle"
          BY <1>1, <1>r, <2>2, <2>p, <3>1, <4>2, <5>2 DEF LapSlot
        <5> QED
          BY <5>1, <5>2
      <4> QED
        BY <1>2, <4>1, <4>2
    <3>5. OnLap(m)'
      BY <3>1, <3>2, <3>3, <3>4 DEF OnLap
    <3> QED
      BY <1>1, <1>2, <1>5, <1>6, <3>5 DEF Covered
  <2> QED
    BY <2>5, <2>6
<1> QED
  BY <1>7, <1>8 DEF Covered

\* A step that leaves the ring alone covers as much.
LEMMA CoverStill ==
    ASSUME NEW m \in Nat, Covered(m), ~running' => ~running \/ Gone(m + Half),
           pend'.thr => pend.thr,
           UNCHANGED <<ram, pos, txLim, wire, frameLen, totalBits, bitCursor,
                       latchWritten, isr, posBefore, adv, fill>>
    PROVE  Covered(m)'
<1>1. UNCHANGED <<GuardAt, GuardSlot, HalfEnd, FreeHalf, LapStart, Fresh, Progress, OnWire>>
  BY DEF GuardAt, GuardSlot, HalfEnd, FreeHalf, LapStart, Fresh, InSecond, Refilled, Progress, OnWire
<1>2. \A n : Gone(n)' = Gone(n) /\ LapSlot(n)' = LapSlot(n) /\ Content(n)' = Content(n)
  BY <1>1 DEF Gone, LapSlot, Content
<1>3. Gone(m + Progress)' = Gone(m + Progress)
  BY <1>1 DEF Gone
<1>4. OnLap(m) => OnLap(m)'
  BY <1>1, <1>2, <1>3 DEF OnLap
<1>5. isr # "idle" => InServe'
  BY <1>1 DEF Covered, InServe
<1>6. Cursor(fill["isr"], m + Fresh)'
  BY <1>1 DEF Covered, Cursor, Upto
<1> QED
  BY <1>2, <1>4, <1>5, <1>6 DEF Covered

\* A transmitter that finds a STOP has sent the first half of its lap.
LEMMA CoverHalt ==
    ASSUME RangesOK, NEW m \in Nat, Covered(m), ram[pos] = STOP
    PROVE  Gone(m + Half)
<1>r. totalBits \in Nat
  BY DEF RangesOK
<1>1. CASE Gone(m + Ram)
  BY <1>r, <1>1, GoneLess
<1>2. CASE OnLap(m)
  <2>1. /\ Progress \in 0 .. Ram /\ Fresh \in Half .. Ram
        /\ pos = IF Progress = Ram THEN LapStart ELSE LapSlot(Progress)
    BY <1>2, LapPlace DEF OnLap, Covered
  <2>2. CASE Progress >= Half
    <3>1. m + Progress \in Int /\ m + Half <= m + Progress
      BY <2>1, <2>2
    <3> QED
      BY <1>r, <1>2, <3>1, GoneLess DEF OnLap
  <2>3. CASE Progress < Half
    <3>1. Progress \in 0 .. Ram - 1 /\ Progress < Fresh /\ pos = LapSlot(Progress)
      BY <2>1, <2>3
    <3>2. CASE ram[pos] = Content(m + Progress)
      <4>1. m + Progress > totalBits
        BY <1>r, <2>1, <3>2 DEF Content
      <4> QED
        BY <1>r, <1>2, <2>1, <4>1 DEF OnLap, Gone
    <3> QED
      BY <1>2, <3>1, <3>2 DEF OnLap
  <2> QED
    BY <2>1, <2>2, <2>3
<1> QED
  BY <1>1, <1>2 DEF Covered

\* The lap that a refill begins on: the half the transmitter is in was written last.
LEMMA CoverBegin ==
    ASSUME RangesOK, NEW m \in Nat, Covered(m), RefillBegin, ~frameComplete, running
    PROVE  Covered(m + Half)'
<1>0. /\ isr = "idle" /\ isr' = "limit" /\ posBefore' = pos /\ adv' = 0 /\ pend.thr /\ ~pend'.thr
      /\ running'
      /\ UNCHANGED <<ram, pos, txLim, wire, totalBits, frameLen, bitCursor, latchWritten, fill>>
  BY DEF RefillBegin, MayTake, Pending, NoCause, frameVars
<1>r. /\ pos \in 0 .. Ram - 1 /\ totalBits \in Nat /\ txLim \in {Half, Ram} /\ fill["isr"].stage = "off"
  BY <1>0 DEF RangesOK
<1>1. /\ LapStart' = IF pos >= Half THEN Half ELSE 0
      /\ Progress' = pos - LapStart' /\ Fresh' = Half /\ LapStart = GuardAt
      /\ Progress = IF pos >= LapStart THEN pos - LapStart ELSE pos + Ram - LapStart
      /\ Fresh = Ram
  BY <1>0, <1>r DEF LapStart, GuardSlot, InSecond, Progress, Fresh, Refilled
<1>2. \A n : Gone(n)' = Gone(n) /\ Content(n)' = Content(n)
  BY <1>0 DEF Gone, OnWire, Content
<1>3. Cursor(fill["isr"], m + Half + Fresh)'
  <2>1. m + Half + Half = m + Ram
    OBVIOUS
  <2> QED
    BY <1>0, <1>1, <2>1 DEF Covered, Cursor, Upto
<1>4. InServe'
  BY <1>0, <1>1, <1>r DEF InServe
<1>5. PICK p \in 0 .. Half - 1 : p = Progress'
  BY <1>1, <1>r
<1>6. ASSUME Gone(m + Half + p),
             \A o \in p .. Half - 1 : Gone(m + Half + Half) \/ ram[LapStart' + o] = Content(m + Half + o)
      PROVE  OnLap(m + Half)'
  <2>1. Gone(m + Half + Progress)'
    <3>1. (m + Half + Progress)' = m + Half + p
      BY <1>5
    <3>2. Gone(m + Half + Progress)' = Gone(m + Half + p)'
      BY <3>1 DEF Gone
    <3> QED
      BY <1>2, <1>6, <3>2
  <2>2. ASSUME NEW o \in 0 .. Ram - 1, Progress' <= o, o < Fresh'
        PROVE  (o < Half /\ Gone(m + Half + Half)') \/ ram'[LapSlot(o)'] = Content(m + Half + o)'
    <3>1. o \in p .. Half - 1 /\ o < Half
      BY <1>1, <1>5, <2>2
    <3>2. LapSlot(o)' = LapStart' + o
      BY <1>1, <3>1 DEF LapSlot
    <3>3. CASE Gone(m + Half + Half)
      BY <1>2, <3>1, <3>3
    <3>4. CASE ram[LapStart' + o] = Content(m + Half + o)
      BY <1>0, <1>2, <3>2, <3>4
    <3> QED
      BY <1>6, <3>1, <3>3, <3>4
  <2> QED
    BY <1>0, <1>1, <1>5, <2>1, <2>2 DEF OnLap
<1>7. CASE Gone(m + Ram)
  <2>1. m + Half + Half = m + Ram /\ m + Half + p <= m + Ram
    OBVIOUS
  <2>2. Gone(m + Half + p)
    BY <1>r, <1>7, <2>1, GoneLess
  <2> QED
    BY <1>0, <1>3, <1>4, <1>6, <1>7, <2>1, <2>2 DEF Covered
<1>8. CASE OnLap(m)
  <2>1. Progress >= Half
    BY <1>0, <1>8 DEF OnLap
  <2>2. Progress = Half + p /\ LapStart' = (IF LapStart = 0 THEN Half ELSE 0) /\ LapStart \in {0, Half}
    BY <1>1, <1>5, <1>r, <2>1 DEF GuardAt
  <2>3. Gone(m + Half + p)
    <3>1. m + Progress = m + Half + p
      BY <2>2
    <3> QED
      BY <1>8, <3>1 DEF OnLap
  <2>4. ASSUME NEW o \in p .. Half - 1 PROVE ram[LapStart' + o] = Content(m + Half + o)
    <3>1. Half + o \in 0 .. Ram - 1 /\ Progress <= Half + o /\ Half + o < Fresh /\ ~(Half + o < Half)
      BY <1>1, <2>2
    <3>2. ram[LapSlot(Half + o)] = Content(m + (Half + o))
      BY <1>8, <3>1 DEF OnLap
    <3>3. LapSlot(Half + o) = LapStart' + o /\ m + (Half + o) = m + Half + o
      BY <2>2 DEF LapSlot
    <3> QED
      BY <3>2, <3>3
  <2> QED
    BY <1>0, <1>3, <1>4, <1>6, <2>3, <2>4 DEF Covered
<1> QED
  BY <1>7, <1>8 DEF Covered

\* set_tx_threshold changes nothing in the window.
LEMMA CoverLimit ==
    ASSUME RangesOK, NEW m \in Nat, Covered(m), RefillLimit
    PROVE  Covered(m)'
<1>1. /\ isr = "limit" /\ isr' = "guard" /\ txLim' = NextThreshold /\ NextThreshold = HalfEnd
      /\ UNCHANGED <<ram, pos, running, wire, frameLen, totalBits, bitCursor, latchWritten, fill,
                     posBefore, adv, pend>>
  BY DEF RefillLimit, frameVars, NextThreshold, HalfEnd
<1>2. UNCHANGED <<GuardSlot, HalfEnd, FreeHalf, LapStart, Fresh, Progress, OnWire>>
  BY <1>1 DEF GuardSlot, HalfEnd, FreeHalf, LapStart, Fresh, InSecond, Refilled, Progress, OnWire
<1>3. \A n : Gone(n)' = Gone(n) /\ LapSlot(n)' = LapSlot(n) /\ Content(n)' = Content(n)
  BY <1>1, <1>2 DEF Gone, LapSlot, Content
<1>4. Gone(m + Progress)' = Gone(m + Progress)
  BY <1>1, <1>2 DEF Gone
<1>5. OnLap(m)'
  BY <1>1, <1>2, <1>3, <1>4 DEF Covered, OnLap
<1>6. InServe'
  BY <1>1, <1>2 DEF Covered, InServe
<1>7. Cursor(fill["isr"], m + Fresh)'
  BY <1>1, <1>2 DEF Covered, Cursor, Upto
<1> QED
  BY <1>1, <1>3, <1>5, <1>6, <1>7 DEF Covered

\* The guard goes into the first word of the lap, once it is behind the transmitter.
LEMMA CoverGuard ==
    ASSUME RangesOK, NEW m \in Nat, Covered(m), RefillGuard
    PROVE  Covered(m)'
<1>1. /\ isr = "guard" /\ isr' = "fill"
      /\ fill' = [fill EXCEPT !["isr"] = FillFrom(FreeHalf)]
      /\ UNCHANGED <<txLim, pos, running, wire, frameLen, totalBits, bitCursor, latchWritten,
                     posBefore, adv, pend>>
      /\ IF posBefore = GuardSlot THEN UNCHANGED ram ELSE ram' = [ram EXCEPT ![GuardSlot] = STOP]
  BY DEF RefillGuard, frameVars
<1>r. /\ posBefore \in 0 .. Ram - 1 /\ adv \in Nat /\ ram \in [Slots -> Word]
      /\ fill["isr"].stage = "off" /\ Refilled = 0
  BY <1>1 DEF RangesOK
<1>2. /\ fill'["isr"].stage = "data" /\ fill'["isr"].word = FreeHalf
      /\ fill'["isr"].end = FreeHalf + Half /\ fill'["isr"].cur = bitCursor
  <2>1. fill'["isr"] = FillFrom(FreeHalf)
    BY <1>1 DEF RangesOK, Contexts
  <2> QED
    BY <2>1 DEF FillFrom
<1>3. UNCHANGED <<GuardSlot, HalfEnd, FreeHalf, LapStart, Progress, OnWire>>
  BY <1>1 DEF GuardSlot, HalfEnd, FreeHalf, LapStart, InSecond, Progress, OnWire
<1>4. Fresh = Half /\ Fresh' = Half
  BY <1>1, <1>2, <1>r DEF Fresh, Refilled, FreeHalf
<1>5. \A n : Gone(n)' = Gone(n) /\ LapSlot(n)' = LapSlot(n) /\ Content(n)' = Content(n)
  BY <1>1, <1>3 DEF Gone, LapSlot, Content
<1>6. Gone(m + Progress)' = Gone(m + Progress)
  BY <1>1, <1>3 DEF Gone
<1>7. OnLap(m)'
  <2>1. OnLap(m) /\ LapStart = GuardSlot /\ LapStart \in {0, Half}
    BY <1>1 DEF Covered, LapStart, GuardSlot
  <2>2. ASSUME NEW o \in 0 .. Ram - 1, Progress <= o, o < Half
        PROVE  (o < Half /\ Gone(m + Half)) \/ ram'[LapSlot(o)] = Content(m + o)
    <3>1. CASE posBefore = GuardSlot
      BY <1>1, <1>4, <2>1, <2>2, <3>1 DEF OnLap
    <3>2. CASE posBefore # GuardSlot
      <4>1. Progress >= 1
        BY <1>1, <1>r, <2>1, <3>2 DEF Covered, InServe, Progress
      <4>2. LapSlot(o) \in Slots /\ LapSlot(o) # GuardSlot
        <5>1. Progress \in Int
          BY <1>1, <1>r, <2>1 DEF Progress
        <5> QED
          BY <2>1, <2>2, <4>1, <5>1 DEF LapSlot
      <4>3. ram'[LapSlot(o)] = ram[LapSlot(o)]
        BY <1>1, <1>r, <3>2, <4>2
      <4> QED
        BY <1>4, <2>1, <2>2, <4>3 DEF OnLap
    <3> QED
      BY <3>1, <3>2
  <2> QED
    BY <1>1, <1>3, <1>4, <1>5, <1>6, <2>1, <2>2 DEF OnLap
<1>8. InServe'
  BY <1>1, <1>2, <1>3 DEF Covered, InServe
<1>9. Cursor(fill["isr"], m + Fresh)'
  BY <1>1, <1>2, <1>4, <1>r DEF Covered, Cursor, Upto
<1> QED
  BY <1>1, <1>5, <1>7, <1>8, <1>9 DEF Covered

\* A word written by the refill is the next of the lap.
LEMMA CoverFill ==
    ASSUME TypeInv, NEW m \in Nat, Covered(m), RefillFill
    PROVE  Covered(m)'
<1> DEFINE f == fill["isr"]
<1>1. /\ isr = "fill" /\ FillHalf("isr")
      /\ UNCHANGED <<txLim, pos, running, wire, isr, posBefore, adv, pend>>
  BY DEF RefillFill, FillHalf, isrVars
<1>r. /\ posBefore \in 0 .. Ram - 1 /\ adv \in Nat /\ ram \in [Slots -> Word] /\ Refilled \in 0 .. Half
      /\ totalBits \in Nat
  BY Ranges DEF RangesOK
<1>2. frameLen = totalBits /\ InServe /\ Cursor(f, m + Fresh) /\ OnLap(m) /\ "isr" \in Contexts
  BY <1>1 DEF Covered, Contexts
<1>3. PICK n \in Half .. Ram : n = Fresh
  BY <1>1, <1>r DEF Fresh
<1>4. /\ f.stage # "off" /\ f.word \in 0 .. Ram
      /\ UNCHANGED <<totalBits, frameLen>>
      /\ \/ /\ f.word < f.end
            /\ ram' = [ram EXCEPT ![f.word] = Content(m + n)]
            /\ f'.stage # "off" /\ f'.word = f.word + 1 /\ f'.end = f.end
            /\ Cursor(f, m + n + 1)'
         \/ /\ ram' = ram
            /\ f'.stage # "off" /\ f'.word = f.word /\ f'.end = f.end
            /\ Cursor(f, m + n)'
         \/ /\ ram' = ram
            /\ f.word = f.end /\ f' = NoFill
            /\ Cursor(f, m + n)'
  <2>1. m + n \in Nat /\ Cursor(f, m + n)
    BY <1>2, <1>3
  <2> QED
    BY <1>1, <1>2, <2>1, FillContent
<1>5. /\ f.end = FreeHalf + Half /\ Refilled = f.word - FreeHalf /\ FreeHalf \in {0, Half}
      /\ n = Half + Refilled
  BY <1>1, <1>2, <1>3, <1>4 DEF InServe, Refilled, FreeHalf, Fresh
<1>6. UNCHANGED <<GuardSlot, HalfEnd, FreeHalf, LapStart, Progress, OnWire>>
  BY <1>1 DEF GuardSlot, HalfEnd, FreeHalf, LapStart, InSecond, Progress, OnWire
<1>7. \A i : Gone(i)' = Gone(i) /\ LapSlot(i)' = LapSlot(i) /\ Content(i)' = Content(i)
  BY <1>4, <1>6 DEF Gone, LapSlot, Content
<1>8. Gone(m + Progress)' = Gone(m + Progress)
  BY <1>4, <1>6 DEF Gone
<1>9. InServe'
  BY <1>1, <1>2, <1>4, <1>6 DEF InServe, NoFill
<1>10. CASE ram' = ram /\ Cursor(f, m + n)' /\ Fresh' = n
  <2>1. OnLap(m)'
    BY <1>1, <1>2, <1>3, <1>6, <1>7, <1>8, <1>10 DEF OnLap
  <2>2. Cursor(f, m + Fresh)'
    BY <1>10 DEF Cursor, Upto
  <2> QED
    BY <1>1, <1>2, <1>4, <1>7, <1>9, <2>1, <2>2 DEF Covered
<1>11. CASE /\ ram' = [ram EXCEPT ![f.word] = Content(m + n)]
            /\ f.word < f.end /\ Cursor(f, m + n + 1)' /\ Fresh' = n + 1
  <2>1. n < Ram /\ LapSlot(n) = f.word /\ f.word \in Slots
    <3>1. f.word < FreeHalf + Half /\ f.word = FreeHalf + Refilled
      BY <1>11, <1>4, <1>5
    <3>2. LapStart = IF FreeHalf = 0 THEN Half ELSE 0
      BY <1>1 DEF LapStart, GuardSlot, FreeHalf
    <3>3. f.word \in Int
      BY <1>4
    <3>5. LapSlot(n) = IF LapStart + n < Ram THEN LapStart + n ELSE LapStart + n - Ram
      BY DEF LapSlot
    <3>a. /\ Refilled = f.word - FreeHalf /\ Refilled \in 0 .. Half
          /\ n = Half + Refilled /\ FreeHalf \in {0, Half}
      BY <1>5, <1>r
    <3> HIDE DEF f, LapStart, FreeHalf, LapSlot, Refilled
    <3>4. n = Half + (f.word - FreeHalf) /\ f.word \in FreeHalf .. FreeHalf + Half - 1
      BY <3>1, <3>3, <3>a
    <3>6. CASE FreeHalf = 0
      BY <3>2, <3>3, <3>4, <3>5, <3>6
    <3>7. CASE FreeHalf = Half
      BY <3>2, <3>3, <3>4, <3>5, <3>7
    <3> QED
      BY <3>6, <3>7, <3>a
  <2>2. ASSUME NEW o \in 0 .. Ram - 1, Progress <= o, o < n + 1
        PROVE  (o < Half /\ Gone(m + Half)) \/ ram'[LapSlot(o)] = Content(m + o)
    <3>1. CASE o = n
      BY <1>11, <1>r, <2>1, <3>1
    <3>2. CASE o < n
      <4>1. LapSlot(o) # LapSlot(n)
        BY <2>1, <3>2 DEF LapSlot, LapStart, GuardSlot, GuardAt
      <4>2. LapSlot(o) \in Slots
        BY DEF LapSlot, LapStart, GuardSlot, GuardAt
      <4>3. ram'[LapSlot(o)] = ram[LapSlot(o)]
        BY <1>11, <1>r, <2>1, <4>1, <4>2
      <4> QED
        BY <1>2, <1>3, <2>2, <3>2, <4>3 DEF OnLap
    <3> QED
      BY <2>2, <3>1, <3>2
  <2>3. OnLap(m)'
    <3>1. Progress' <= Fresh'
      BY <1>1, <1>2, <1>3, <1>6, <1>11, <1>r DEF OnLap, Progress, LapStart, GuardSlot
    <3> QED
      BY <1>1, <1>2, <1>6, <1>7, <1>8, <1>11, <2>2, <3>1 DEF OnLap
  <2>4. Cursor(f, m + Fresh)'
    <3>1. (m + Fresh)' = m + n + 1
      BY <1>11
    <3> QED
      BY <1>11, <3>1 DEF Cursor, Upto
  <2> QED
    BY <1>1, <1>2, <1>4, <1>7, <1>9, <2>3, <2>4 DEF Covered
<1>12. \/ ram' = ram /\ Cursor(f, m + n)' /\ Fresh' = n
       \/ /\ ram' = [ram EXCEPT ![f.word] = Content(m + n)]
          /\ f.word < f.end /\ Cursor(f, m + n + 1)' /\ Fresh' = n + 1
  <2>1. Fresh' = Half + Refilled'
    BY <1>1 DEF Fresh
  <2>2. CASE f'.stage # "off" /\ f'.end = f.end
    <3>1. Refilled' = f'.word - (f.end - Half) /\ Refilled = f.word - (f.end - Half)
      BY <1>1, <2>2 DEF Refilled
    <3>2. f' # NoFill
      BY <2>2 DEF NoFill
    <3>3. f.end - Half = FreeHalf /\ f.word \in Nat
      BY <1>4, <1>5
    <3> HIDE DEF f
    <3>4. f'.word = f.word => Fresh' = n
      BY <1>5, <2>1, <3>1, <3>3
    <3>5. f'.word = f.word + 1 => Fresh' = n + 1
      BY <1>5, <2>1, <3>1, <3>3
    <3> QED
      BY <1>4, <3>2, <3>4, <3>5
  <2>3. CASE f.word = f.end /\ f' = NoFill
    <3>1. Refilled' = Half
      BY <1>1, <2>3 DEF Refilled, NoFill
    <3>2. Refilled = Half
      BY <1>5, <2>3
    <3>3. f'.stage = "off"
      BY <2>3 DEF NoFill
    <3> HIDE DEF f
    <3> QED
      BY <1>4, <1>5, <2>1, <3>1, <3>2, <3>3
  <2> QED
    BY <1>4, <2>2, <2>3
<1> QED
  BY <1>10, <1>11, <1>12

\* When a refill ends, the lap is written to its end.
LEMMA CoverEnd ==
    ASSUME RangesOK, NEW m \in Nat, Covered(m), RefillEnd
    PROVE  Covered(m)'
<1>1. /\ isr = "fill" /\ isr' = "idle" /\ fill["isr"].stage = "off"
      /\ UNCHANGED <<ram, txLim, pos, running, wire, frameLen, totalBits, bitCursor, latchWritten,
                     fill, pend>>
  BY DEF RefillEnd, frameVars, hwVars
<1>r. /\ Refilled = Half /\ posBefore \in 0 .. Ram - 1 /\ adv \in Nat /\ pos \in 0 .. Ram - 1
      /\ totalBits \in Nat
  BY <1>1 DEF RangesOK
<1>2. InServe /\ OnLap(m) /\ Cursor(fill["isr"], m + Fresh) /\ frameLen = totalBits
      /\ (~running => Gone(m + Half))
  BY <1>1 DEF Covered
<1>3. Fresh = Ram /\ Fresh' = Ram /\ LapStart \in {0, Half} /\ LapStart' = LapStart
  BY <1>1, <1>2, <1>r DEF Fresh, InServe, LapStart, GuardAt, GuardSlot, HalfEnd, InSecond
<1>4. \A n : Gone(n)' = Gone(n) /\ LapSlot(n)' = LapSlot(n) /\ Content(n)' = Content(n)
  BY <1>1, <1>3 DEF Gone, LapSlot, Content, OnWire
<1>5. Cursor(fill["isr"], m + Fresh)'
  BY <1>1, <1>2, <1>3 DEF Cursor, Upto
<1>6. Progress \in 0 .. Ram /\ Progress' = IF Progress = Ram THEN 0 ELSE Progress
  <2>1. Progress \in 0 .. Ram /\ pos = IF Progress = Ram THEN LapStart ELSE LapSlot(Progress)
    BY <1>2, LapPlace DEF OnLap
  <2>2. Progress' = IF pos >= LapStart THEN pos - LapStart ELSE pos + Ram - LapStart
    BY <1>1, <1>3 DEF Progress
  <2> QED
    BY <1>3, <2>1, <2>2 DEF LapSlot
<1>7. CASE Progress = Ram
  <2>1. Gone(m + Ram)
    BY <1>2, <1>7 DEF OnLap
  <2> QED
    BY <1>1, <1>2, <1>4, <1>5, <2>1 DEF Covered
<1>8. CASE Progress < Ram
  <2>1. Progress' = Progress
    BY <1>6, <1>8
  <2>2. Gone(m + Progress)' = Gone(m + Progress)
    BY <1>1, <2>1 DEF Gone, OnWire
  <2>3. OnLap(m)'
    BY <1>1, <1>2, <1>3, <1>4, <2>1, <2>2 DEF OnLap
  <2> QED
    BY <1>1, <1>2, <1>4, <1>5, <2>3 DEF Covered
<1> QED
  BY <1>6, <1>7, <1>8

\* start_tx begins the first lap at the frame's first word.
LEMMA CoverStart ==
    ASSUME ~Masked, TypeInv, StopInv, CallInv, PrefillInv, StartTx
    PROVE  Covered(0)'
<1>1. PICK e \in {0, Ram} : e = 0
  OBVIOUS
<1>2. /\ RingInv(0, e)' /\ Left(0, e)' = Ram /\ wire' = << >>
      /\ pos' = 0 /\ txLim' = Half /\ pend' = NoCause /\ isr' = "idle"
      /\ \A s \in Slots : ram'[s] = Content(s)'
  BY <1>1, RingStart
<1>3. LapStart' = 0 /\ Progress' = 0 /\ Fresh' = Ram /\ ~pend'.thr /\ Len(wire') = 0
  BY <1>2 DEF LapStart, GuardAt, Progress, Fresh, NoCause
<1>4. frameLen' = totalBits' /\ Cursor(fill["isr"], 0 + Fresh)'
  <2>1. (Sent(0) + Left(0, e))' = (0 + Fresh)'
    BY <1>2, <1>3 DEF Sent
  <2> QED
    BY <1>2, <2>1 DEF RingInv, Cursor, Upto
<1>5. OnLap(0)'
  <2>1. (0 + Progress)' = 0
    BY <1>3
  <2>2. Gone(0 + Progress)'
    BY <2>1 DEF Gone
  <2>3. ASSUME NEW o \in 0 .. Ram - 1 PROVE ram'[LapSlot(o)'] = Content(0 + o)'
    <3>1. LapSlot(o)' = o /\ 0 + o = o
      BY <1>3 DEF LapSlot
    <3> QED
      BY <1>2, <3>1
  <2> QED
    BY <1>3, <2>2, <2>3 DEF OnLap
<1>6. running'
  BY DEF StartTx
<1> QED
  BY <1>2, <1>4, <1>5, <1>6 DEF Covered

\* A handler that, once it runs, loses at most one word to the transmitter, whenever
\* it runs.
AnyTime == ~Classic /\ ~Masked /\ Burst <= 1

\* A frame being sent is covered while the log has room.
Covering == Live /\ Logged => \E m \in Nat : Covered(m)

\* Every step of a frame keeps it covered.
LEMMA CoverStep ==
    ASSUME AnyTime, FrameInv, Covering, [Next]_vars
    PROVE  Covering'
<1> SUFFICES ASSUME Live', Logged' PROVE \E m \in Nat : Covered(m)'
  BY DEF Covering
<1> USE DEF FrameInv
<1>r. RangesOK /\ ~Masked /\ ~Classic /\ Burst <= 1
  BY Ranges DEF AnyTime
<1>w. ASSUME Live, wire' = wire \/ Emit PROVE \E m \in Nat : Covered(m)
  <2>1. CASE wire' = wire
    BY <1>w, <2>1 DEF Covering, Logged
  <2>2. CASE Emit
    <3>1. Logged
      BY <2>2 DEF Emit, Logged
    <3> QED
      BY <1>w, <3>1 DEF Covering
  <2> QED
    BY <1>w, <2>1, <2>2
<1>1. CASE Live /\ Emit
  <2>1. Logged
    BY <1>1 DEF Emit, Logged
  <2>2. PICK m \in Nat : Covered(m)
    BY <1>1, <1>w
  <2> QED
    BY <1>1, <1>r, <2>1, <2>2, CoverEmit
<1>2. CASE Live /\ (Halt \/ LoseThreshold)
  <2>1. UNCHANGED <<ram, pos, txLim, wire, frameLen, totalBits, bitCursor,
                     latchWritten, isr, posBefore, adv, fill>>
    BY <1>2 DEF Halt, LoseThreshold, isrVars, frameVars
  <2>2. PICK m \in Nat : Covered(m)
    BY <1>2, <1>w, <2>1
  <2>3. pend'.thr => pend.thr
    BY <1>2, <1>r DEF Halt, LoseThreshold, RangesOK
  <2>4. ~running' => ~running \/ Gone(m + Half)
    BY <1>2, <1>r, <2>2, CoverHalt DEF Halt, LoseThreshold
  <2> QED
    BY <2>1, <2>2, <2>3, <2>4, CoverStill
<1>3. CASE Live /\ RefillBegin
  <2>1. running /\ ~frameComplete /\ wire' = wire
    BY <1>3 DEF RefillBegin, CallInv, Live
  <2>2. PICK m \in Nat : Covered(m)
    BY <1>3, <1>w, <2>1
  <2>3. Covered(m + Half)' /\ m + Half \in Nat
    BY <1>3, <1>r, <2>1, <2>2, CoverBegin
  <2> QED
    BY <2>3
<1>4. CASE Live /\ (RefillLimit \/ RefillGuard \/ RefillFill \/ RefillEnd)
  <2>1. wire' = wire
    BY <1>4 DEF RefillLimit, RefillGuard, RefillFill, RefillEnd, FillHalf, hwVars
  <2>2. PICK m \in Nat : Covered(m)
    BY <1>4, <1>w, <2>1
  <2> QED
    BY <1>4, <1>r, <2>2, CoverLimit, CoverGuard, CoverFill, CoverEnd
<1>5. CASE Live /\ UNCHANGED <<ringVars, pend, running>>
  <2>1. UNCHANGED <<ram, pos, txLim, wire, frameLen, totalBits, bitCursor,
                     latchWritten, isr, posBefore, adv, fill>>
    BY <1>5 DEF ringVars
  <2>2. PICK m \in Nat : Covered(m)
    BY <1>5, <1>w, <2>1
  <2> QED
    BY <1>5, <2>1, <2>2, CoverStill
<1>6. CASE StartTx
  BY <1>6, <1>r, CoverStart
<1> QED
  BY <1>r, <1>1, <1>2, <1>3, <1>4, <1>5, <1>6, LiveCases

\* How far the frame's bits have been taken from the caller's buffer.
Reach == IF fill["isr"].stage = "data" THEN fill["isr"].cur ELSE bitCursor

\* No bit is on the wire, or in the window, that was not taken yet.
Reached ==
    Live => /\ \A s \in Slots : ram[s] < Reach
            /\ \A i \in 1 .. Len(wire) : wire[i] < Reach

\* Every step of a frame keeps it within reach.
LEMMA ReachStep ==
    ASSUME ~Masked, ~Classic, FrameInv, Reached, [Next]_vars
    PROVE  Reached'
<1> SUFFICES ASSUME Live' PROVE /\ \A s \in Slots : ram'[s] < Reach'
                                /\ \A i \in 1 .. Len(wire') : wire'[i] < Reach'
  BY DEF Reached
<1> USE DEF FrameInv
<1>r. /\ RangesOK /\ ram \in [Slots -> Word] /\ wire \in Seq(Word) /\ Len(wire) \in Nat
      /\ bitCursor \in Nat /\ Reach \in Nat /\ totalBits \in Nat
  <2>1. RangesOK
    BY Ranges
  <2> QED
    BY <2>1 DEF RangesOK, Reach
<1>w. Word \subseteq Int
  BY DEF Word
<1>1. CASE Live /\ Emit
  <2>1. UNCHANGED <<ram, fill, bitCursor>> /\ (wire' = wire \/ wire' = Append(wire, ram[pos]))
        /\ pos \in Slots
    BY <1>1, <1>r DEF Emit, frameVars, RangesOK
  <2>2. Reach' = Reach
    BY <2>1 DEF Reach
  <2>3. ASSUME NEW i \in 1 .. Len(wire') PROVE wire'[i] < Reach
    <3>1. CASE i \in 1 .. Len(wire)
      <4>1. wire'[i] = wire[i]
        BY <1>r, <2>1, <3>1
      <4> QED
        BY <1>1, <3>1, <4>1 DEF Reached
    <3>2. CASE i \notin 1 .. Len(wire)
      <4>1. wire' = Append(wire, ram[pos])
        BY <2>1, <2>3, <3>2
      <4>2. wire'[i] = ram[pos]
        BY <1>r, <2>1, <2>3, <3>2, <4>1
      <4> QED
        BY <1>1, <2>1, <4>2 DEF Reached
    <3> QED
      BY <3>1, <3>2
  <2> QED
    BY <1>1, <2>1, <2>2, <2>3 DEF Reached
<1>2. CASE Live /\ UNCHANGED <<ram, wire, fill, bitCursor>>
  BY <1>2 DEF Reached, Reach
<1>3. CASE Live /\ RefillGuard
  <2>1. /\ fill["isr"].stage = "off" /\ fill'["isr"] = FillFrom(FreeHalf)
        /\ UNCHANGED <<bitCursor, wire>> /\ (ram' = ram \/ ram' = [ram EXCEPT ![GuardSlot] = STOP])
    BY <1>3, <1>r DEF RefillGuard, RangesOK, Contexts, frameVars
  <2>2. Reach' = Reach
    BY <2>1 DEF Reach, FillFrom
  <2>3. \A s \in Slots : ram'[s] \in {ram[s], STOP}
    BY <1>r, <2>1
  <2> QED
    BY <1>3, <1>r, <2>1, <2>2, <2>3 DEF Reached
<1>4. CASE Live /\ RefillFill
  <2> DEFINE f == fill["isr"]
  <2>1. /\ FillData("isr") \/ FillSettle("isr") \/ FillStop("isr")
        /\ wire' = wire /\ totalBits' = totalBits
    BY <1>4 DEF RefillFill, FillHalf
  <2>2. fill \in [Contexts -> FillLocals] /\ f \in FillLocals /\ f.cur \in 0 .. totalBits /\ "isr" \in Contexts
    BY <1>r DEF RangesOK, Contexts
  <2>3. Reach' \in Nat /\ Reach <= Reach' /\ \A s \in Slots : ram'[s] \in {ram[s], STOP, LATCH} \/ ram'[s] < Reach'
    <3>1. CASE FillData("isr")
      <4>1. /\ f.stage = "data" /\ fill'["isr"] = [f EXCEPT !.word = f.word + 1, !.cur = f.cur + 1]
            /\ ram' = [ram EXCEPT ![f.word] = DataWord(f.cur)]
        BY <2>2, <3>1 DEF FillData
      <4>2. Reach = f.cur /\ Reach' = f.cur + 1
        BY <2>2, <4>1 DEF Reach, FillLocals
      <4>3. DataWord(f.cur) < f.cur + 1
        BY <2>2 DEF DataWord
      <4>4. \A s \in Slots : ram'[s] \in {ram[s], DataWord(f.cur)}
        BY <1>r, <4>1
      <4> QED
        BY <2>2, <4>2, <4>3, <4>4
    <3>2. CASE FillSettle("isr")
      <4>1. f.stage = "data" /\ bitCursor' = f.cur
        BY <3>2 DEF FillSettle
      <4>2. \/ fill'["isr"] = NoFill
            \/ fill'["isr"] = [f EXCEPT !.stage = "stop", !.word = f.word + 1]
            \/ fill'["isr"] = [f EXCEPT !.stage = "stop", !.word = f.word]
        BY <2>2, <3>2 DEF FillSettle
      <4>7. \A w : [f EXCEPT !.stage = "stop", !.word = w].stage = "stop"
        BY <2>2 DEF FillLocals
      <4>8. NoFill.stage = "off"
        BY DEF NoFill
      <4>3. fill'["isr"].stage # "data"
        BY <4>2, <4>7, <4>8
      <4>4. Reach' = Reach
        BY <4>1, <4>3 DEF Reach
      <4>5. ram' = ram \/ ram' = [ram EXCEPT ![f.word] = LATCH]
        BY <3>2 DEF FillSettle
      <4>6. \A s \in Slots : ram'[s] \in {ram[s], LATCH}
        BY <1>r, <4>5
      <4> QED
        BY <1>r, <4>4, <4>6
    <3>3. CASE FillStop("isr")
      <4>1. f.stage = "stop" /\ bitCursor' = bitCursor
        BY <3>3 DEF FillStop
      <4>2. fill'["isr"] = NoFill \/ fill'["isr"] = [f EXCEPT !.word = f.word + 1]
        BY <2>2, <3>3 DEF FillStop
      <4>3. fill'["isr"].stage # "data"
        BY <2>2, <4>1, <4>2 DEF NoFill, FillLocals
      <4>4. Reach' = Reach
        BY <4>1, <4>3 DEF Reach
      <4>5. ram' = ram \/ ram' = [ram EXCEPT ![f.word] = STOP]
        BY <3>3 DEF FillStop
      <4>6. \A s \in Slots : ram'[s] \in {ram[s], STOP}
        BY <1>r, <4>5
      <4> QED
        BY <1>r, <4>4, <4>6
    <3> QED
      BY <2>1, <3>1, <3>2, <3>3
  <2>5. ASSUME NEW s \in Slots PROVE ram'[s] < Reach'
    <3>1. ram[s] < Reach /\ ram[s] \in Int
      BY <1>4, <1>r, <1>w DEF Reached
    <3> QED
      BY <1>r, <2>3, <3>1
  <2>6. ASSUME NEW i \in 1 .. Len(wire) PROVE wire[i] < Reach'
    <3>1. wire[i] < Reach
      BY <1>4 DEF Reached
    <3>2. wire[i] \in Int
      <4>1. wire[i] \in Word
        BY <1>r
      <4> QED
        BY <1>w, <4>1
    <3> QED
      BY <1>r, <2>3, <3>1, <3>2
  <2> QED
    BY <2>1, <2>5, <2>6
<1>5. CASE StartTx
  <2>1. PICK e \in {0, Ram} : e = 0
    OBVIOUS
  <2>2. /\ RingInv(0, e)' /\ Left(0, e)' = Ram /\ wire' = << >>
        /\ \A s \in Slots : ram'[s] = Content(s)'
    BY <1>5, <2>1, RingStart
  <2>3. fill'["isr"].stage = "off" /\ totalBits' = totalBits
    BY <1>5, <1>r DEF StartTx, ThreadRuns, RangesOK, frameVars
  <2>4. Len(wire') = 0 /\ (Sent(0) + Left(0, e))' = Ram
    BY <2>2 DEF Sent
  <2>5. Reach' = Upto(Ram)
    BY <2>2, <2>3, <2>4 DEF RingInv, Cursor, Upto, Reach
  <2> QED
    BY <1>r, <2>2, <2>3, <2>4, <2>5 DEF Content, Upto
<1>6. \/ Live /\ (Emit \/ RefillGuard \/ RefillFill)
      \/ Live /\ UNCHANGED <<ram, wire, fill, bitCursor>>
      \/ StartTx
  <2>1. Halt \/ LoseThreshold \/ RefillLimit \/ RefillEnd \/ RefillBegin \/ UNCHANGED ringVars
          => UNCHANGED <<ram, wire, fill, bitCursor>>
    BY DEF Halt, LoseThreshold, RefillLimit, RefillEnd, RefillBegin, ringVars, hwVars, frameVars
  <2> QED
    BY <2>1, LiveCases
<1> QED
  BY <1>1, <1>2, <1>3, <1>4, <1>5, <1>6

\* While no frame is given up, every frame started but the one being sent was counted.
CountInv ==
    aborts = 0 =>
        /\ started = frames + (IF frameComplete THEN 0 ELSE 1)
        /\ guardTrips <= frames

\* Every step keeps the count.
LEMMA CountStep ==
    ASSUME FrameInv, AbortInv, CountInv, [Next]_vars
    PROVE  CountInv' /\ (aborts' = 0 => aborts = 0)
<1>0. aborts \in Nat /\ guardTrips \in Nat /\ frames \in Nat /\ started \in Nat
  BY DEF FrameInv, TypeInv, TypeOK, ControlOK, ChannelOK
<1>1. CASE GiveUp
  BY <1>0, <1>1 DEF GiveUp, CountInv
<1>2. CASE Finish
  <2>1. UNCHANGED <<aborts, started>>
    BY <1>2 DEF Finish, boundVars
  <2>2. CASE frameComplete
    BY <1>2, <2>1, <2>2 DEF Finish, CountInv
  <2>3. CASE ~frameComplete
    <3>1. /\ guardTrips' = (IF Tripped THEN guardTrips + 1 ELSE guardTrips)
          /\ frames' = frames + 1 /\ frameComplete'
      BY <1>2, <2>3 DEF Finish
    <3> QED
      BY <1>0, <2>1, <2>3, <3>1 DEF CountInv
  <2> QED
    BY <2>2, <2>3
<1>3. CASE \E bits \in FrameBits : Arm(bits)
  BY <1>0, <1>3 DEF Arm, CountInv, countVars
<1>4. CASE PublishComplete
  <2>1. UNCHANGED <<aborts, started, frames, guardTrips>> /\ frameComplete' /\ pc = "publish"
    BY <1>4 DEF PublishComplete, countVars, boundVars
  <2> QED
    BY <2>1 DEF CountInv, AbortInv
<1>5. CASE ~(GiveUp \/ Finish \/ PublishComplete \/ \E bits \in FrameBits : Arm(bits))
  <2>1. UNCHANGED <<aborts, started>>
    BY <1>5 DEF Next, Transmitter, Isr, InCall, Abort, Emit, Halt, LoseThreshold, RefillBegin,
       RefillLimit, RefillGuard, RefillFill, RefillEnd, FillHalf, Prefill, PrefillSecond, StartTx,
       Return, DropGuard, StopTx, DropFrame, boundVars, vars
  <2>2. UNCHANGED <<frames, guardTrips>>
    BY <1>5 DEF Next, Transmitter, Isr, InCall, Abort, Emit, Halt, LoseThreshold, RefillBegin,
       RefillLimit, RefillGuard, RefillFill, RefillEnd, FillHalf, Prefill, PrefillSecond, StartTx,
       Return, DropGuard, StopTx, DropFrame, countVars, vars
  <2>3. UNCHANGED frameComplete
    BY <1>5 DEF Next, Transmitter, Isr, InCall, Abort, Emit, Halt, LoseThreshold, RefillBegin,
       RefillLimit, RefillGuard, RefillFill, RefillEnd, FillHalf, Prefill, PrefillSecond, StartTx,
       Return, DropGuard, StopTx, DropFrame, frameVars, vars
  <2> QED
    BY <2>1, <2>2, <2>3 DEF CountInv
<1> QED
  BY <1>1, <1>2, <1>3, <1>4, <1>5

\* The counter over a frame that is over: it counted none too many, and those it did
\* not count lost at most bits of their last half.
NeverOver ==
    ~Prefilling /\ aborts = 0 /\ started > 0 /\ frames = started /\ guardTrips = started
        => Missing # {}

HardlyUnder ==
    ~Prefilling /\ aborts = 0 /\ Logged /\ frameComplete /\ guardTrips = 0
        => Gone(totalBits - Half)

\* What a completed frame leaves unchanged.
LEMMA CountRests ==
    ASSUME FrameInv, AbortInv, CountInv, [Next]_vars, ~Prefilling', aborts' = 0, frameComplete', ~Finish
    PROVE  frameComplete /\ UNCHANGED <<started, frames, guardTrips>>
<1>1. ~ \E bits \in FrameBits : Arm(bits)
  BY DEF Arm, Prefilling
<1>2. aborts = 0
  BY CountStep
<1>3. UNCHANGED <<frames, guardTrips>>
  BY <1>1 DEF Next, Transmitter, Isr, InCall, Abort, Emit, Halt, LoseThreshold, RefillBegin,
     RefillLimit, RefillGuard, RefillFill, RefillEnd, FillHalf, Prefill, PrefillSecond, StartTx,
     Return, DropGuard, GiveUp, StopTx, DropFrame, PublishComplete, countVars, vars
<1>4. UNCHANGED started
  BY <1>1 DEF Next, Transmitter, Isr, InCall, Abort, Emit, Halt, LoseThreshold, RefillBegin,
     RefillLimit, RefillGuard, RefillFill, RefillEnd, FillHalf, Prefill, PrefillSecond, StartTx,
     Return, DropGuard, GiveUp, StopTx, DropFrame, PublishComplete, boundVars, vars
<1>5. frameComplete
  <2>1. CASE PublishComplete
    BY <1>2, <2>1 DEF PublishComplete, AbortInv
  <2>2. CASE ~PublishComplete
    BY <1>1, <2>2 DEF Next, Transmitter, Isr, InCall, Abort, Emit, Halt, LoseThreshold, RefillBegin,
       RefillLimit, RefillGuard, RefillFill, RefillEnd, FillHalf, Prefill, PrefillSecond, StartTx,
       Return, DropGuard, GiveUp, StopTx, DropFrame, frameVars, vars
  <2> QED
    BY <2>1, <2>2
<1> QED
  BY <1>3, <1>4, <1>5

\* A frame the handler counts has bits that were never taken from the buffer.
LEMMA OverStep ==
    ASSUME FrameInv, AbortInv, CountInv, Reached, NeverOver, [Next]_vars
    PROVE  NeverOver'
<1> SUFFICES ASSUME ~Prefilling', aborts' = 0, started' > 0, frames' = started', guardTrips' = started'
             PROVE  Missing' # {}
  BY DEF NeverOver
<1>0. /\ guardTrips \in Nat /\ frames \in Nat /\ started \in Nat /\ totalBits \in Nat
      /\ bitCursor \in 0 .. totalBits /\ fill["isr"].stage \in {"off", "data", "stop"}
  <2>1. TypeInv
    BY DEF FrameInv
  <2>2. RangesOK
    BY <2>1, Ranges
  <2>3. started \in Nat /\ guardTrips \in Nat /\ frames \in Nat
    BY <2>1 DEF TypeInv, TypeOK, ControlOK, ChannelOK
  <2> QED
    BY <2>2, <2>3 DEF RangesOK
<1>1. CountInv' /\ aborts = 0
  BY CountStep
<1>2. frameComplete'
  <2>1. started' = frames' + (IF frameComplete' THEN 0 ELSE 1)
    BY <1>1 DEF CountInv
  <2>2. started' = started
    <3>1. ~ \E bits \in FrameBits : Arm(bits)
      BY DEF Arm, Prefilling
    <3> QED
      BY <3>1 DEF Next, Transmitter, Isr, InCall, Abort, Emit, Halt, LoseThreshold, Finish, RefillBegin,
         RefillLimit, RefillGuard, RefillFill, RefillEnd, FillHalf, Prefill, PrefillSecond, StartTx,
         Return, DropGuard, GiveUp, StopTx, DropFrame, PublishComplete, boundVars, vars
  <2> QED
    BY <1>0, <2>1, <2>2
<1>3. ~Prefilling /\ UNCHANGED <<wire, totalBits>> /\ Missing' = Missing
  <2>1. ~Prefilling /\ UNCHANGED <<wire, totalBits>>
    BY <1>2, WireRests DEF Live
  <2> QED
    BY <2>1 DEF Missing, OnWire
<1>4. CASE ~Finish
  <2>1. UNCHANGED <<started, frames, guardTrips>>
    BY <1>2, <1>4, CountRests
  <2> QED
    BY <1>1, <1>3, <2>1 DEF NeverOver
<1>5. CASE Finish /\ frameComplete
  <2>1. UNCHANGED <<started, frames, guardTrips>>
    BY <1>5 DEF Finish, boundVars
  <2> QED
    BY <1>1, <1>3, <2>1 DEF NeverOver
<1>6. CASE Finish /\ ~frameComplete
  <2>1. /\ guardTrips' = (IF Tripped THEN guardTrips + 1 ELSE guardTrips)
        /\ frames' = frames + 1 /\ isr = "idle"
    BY <1>6 DEF Finish, MayTake
  <2>2. bitCursor < totalBits
    BY <1>0, <1>1, <2>1 DEF CountInv, Tripped
  <2>3. Live /\ fill["isr"].stage = "off"
    BY <1>3, <1>6, <2>1 DEF FrameInv, StopInv, TypeInv, FillInv, Finish, MayTake, Pending, Live
  <2>4. \A i \in 1 .. Len(wire) : wire[i] < bitCursor
    BY <2>3 DEF Reached, Reach
  <2>5. ASSUME totalBits - 1 \in OnWire PROVE FALSE
    <3>1. PICK i \in 1 .. Len(wire) : wire[i] = totalBits - 1
      BY <2>5 DEF OnWire
    <3>2. totalBits - 1 < bitCursor
      BY <2>4, <3>1
    <3> QED
      BY <1>0, <2>2, <3>2
  <2>6. totalBits - 1 \in 0 .. totalBits - 1
    BY <1>0, <2>2
  <2>7. totalBits - 1 \in Missing
    BY <2>5, <2>6 DEF Missing
  <2> QED
    BY <1>3, <2>7
<1> QED
  BY <1>4, <1>5, <1>6

\* A frame the handler does not count has only bits of its last half to lose.
LEMMA UnderStep ==
    ASSUME FrameInv, AbortInv, CountInv, Covering, HardlyUnder, [Next]_vars
    PROVE  HardlyUnder'
<1> SUFFICES ASSUME ~Prefilling', aborts' = 0, Logged', frameComplete', guardTrips' = 0
             PROVE  Gone(totalBits - Half)'
  BY DEF HardlyUnder
<1>0. guardTrips \in Nat /\ totalBits \in Nat /\ bitCursor \in 0 .. totalBits
  BY DEF FrameInv, TypeInv, TypeOK, ChannelOK
<1>1. aborts = 0
  BY CountStep
<1>2. ~Prefilling /\ Logged /\ Gone(totalBits - Half)' = Gone(totalBits - Half)
  <2>1. ~Prefilling /\ UNCHANGED <<wire, totalBits>>
    BY WireRests DEF Live
  <2> QED
    BY <2>1 DEF Gone, OnWire, Logged
<1>3. CASE ~Finish
  <2>1. frameComplete /\ UNCHANGED <<started, frames, guardTrips>>
    BY <1>3, CountRests
  <2> QED
    BY <1>1, <1>2, <2>1 DEF HardlyUnder
<1>4. CASE Finish /\ frameComplete
  <2>1. UNCHANGED guardTrips
    BY <1>4 DEF Finish
  <2> QED
    BY <1>1, <1>2, <1>4, <2>1 DEF HardlyUnder
<1>5. CASE Finish /\ ~frameComplete
  <2>1. /\ guardTrips' = (IF Tripped THEN guardTrips + 1 ELSE guardTrips)
        /\ isr = "idle" /\ pend.end
    BY <1>5 DEF Finish, MayTake
  <2>2. bitCursor = totalBits
    BY <1>0, <2>1 DEF Tripped
  <2>3. Live /\ ~running /\ fill["isr"].stage = "off"
    BY <1>2, <1>5, <2>1 DEF FrameInv, StopInv, TypeInv, FillInv, Finish, MayTake, Pending, Live
  <2>4. PICK m \in Nat : Covered(m)
    BY <1>2, <2>3 DEF Covering
  <2>5. Gone(m + Half) /\ bitCursor = Upto(m + Ram)
    BY <2>1, <2>3, <2>4 DEF Covered, Cursor, Fresh
  <2>6. m + Ram >= totalBits
    BY <1>0, <2>2, <2>5 DEF Upto
  <2>7. Gone(totalBits - Half)
    BY <1>0, <2>5, <2>6, GoneLess
  <2> QED
    BY <1>2, <2>7
<1> QED
  BY <1>3, <1>4, <1>5

\* guard_trips says what its doc comment in state.rs says (TripsTruthful; finish in
\* driver.rs): whatever the latency, the losses and the guards skipped, it never counts
\* a frame too many, and a complete frame it does not count lost at most bits of its
\* last half.  It is about frames whose words all went into the log.
THEOREM TripsAreTrue == AnyTime /\ Spec => [](Logged => TripsTruthful)
<1> SUFFICES ASSUME AnyTime PROVE Spec => [](Logged => TripsTruthful)
  OBVIOUS
<1>0. ~Masked /\ ~Classic
  BY DEF AnyTime
<1>1. Init => AbortInv /\ CountInv /\ Reached /\ Covering /\ NeverOver /\ HardlyUnder
  BY DEF Init, AbortInv, CountInv, Reached, Covering, NeverOver, HardlyUnder, Live, Gone
<1>2. FrameInv /\ AbortInv /\ [Next]_vars => AbortInv'
  BY AbortStep DEF FrameInv
<1>3. FrameInv /\ AbortInv /\ CountInv /\ [Next]_vars => CountInv'
  BY CountStep
<1>4. FrameInv /\ Reached /\ [Next]_vars => Reached'
  BY <1>0, ReachStep
<1>5. FrameInv /\ Covering /\ [Next]_vars => Covering'
  BY CoverStep
<1>6. FrameInv /\ AbortInv /\ CountInv /\ Reached /\ NeverOver /\ [Next]_vars => NeverOver'
  BY OverStep
<1>7. FrameInv /\ AbortInv /\ CountInv /\ Covering /\ HardlyUnder /\ [Next]_vars => HardlyUnder'
  BY UnderStep
<1>8. FrameInv /\ NeverOver /\ HardlyUnder => (Logged => TripsTruthful)
  <2> SUFFICES ASSUME FrameInv, NeverOver, HardlyUnder, Logged, ~Prefilling, aborts = 0,
                      frameComplete, guardTrips = 0
               PROVE  Missing \subseteq totalBits - Half .. totalBits - 1
    BY DEF TripsTruthful, NeverOver
  <2>1. totalBits \in Nat
    BY DEF FrameInv, TypeInv, TypeOK, ChannelOK
  <2>2. Gone(totalBits - Half)
    BY DEF HardlyUnder
  <2> QED
    BY <2>1, <2>2 DEF Missing, Gone
<1> QED
  BY <1>0, <1>1, <1>2, <1>3, <1>4, <1>5, <1>6, <1>7, <1>8, FrameInvariant, PTL DEF Spec

=============================================================================
