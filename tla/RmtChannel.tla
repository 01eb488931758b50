----------------------------- MODULE RmtChannel -----------------------------
(***************************************************************************)
(* One TX channel of the WS281x driver (src/lp-ws281x): the thread that    *)
(* starts, polls and aborts frames, the interrupt handler that refills the *)
(* ping-pong RAM window, and the RMT transmitter that reads the window as  *)
(* a ring at its own pace.                                                 *)
(*                                                                         *)
(* The three run on different clocks.  The transmitter moves between any   *)
(* two software steps.  The handler preempts the thread and runs to its    *)
(* end before the thread moves again (one core, one handler, no nesting).  *)
(* Every RAM write of software is a step of its own, so a refill, a        *)
(* prefill and an abort can all be overtaken half way.                     *)
(*                                                                         *)
(* A RAM word is abstracted to what it carries: the index of a frame bit,  *)
(* the latch, the all-zero STOP marker, or a blank (a zero bit read after  *)
(* the frame descriptor was dropped).                                      *)
(***************************************************************************)
EXTENDS Integers, Sequences

CONSTANTS
    Half,        \* half_words: the ping-pong half, in RAM words
    FrameBits,   \* the total_bits of the frames the caller may send
    Classic,     \* the backend: TRUE the classic ESP32, FALSE the S3, C6 and mock
    Masked,      \* may the thread run on while an interrupt cause is pending?
    MinLat,      \* interrupt latency, in words, at least ...
    MaxLat,      \* ... and at most
    Burst,       \* words the transmitter may gain on a refill's RAM writes
    MaxLost,     \* bound: threshold interrupts lost in a behaviour
    MaxFrames,   \* bound: frames started
    MaxAborts,   \* bound: frames the caller gives up on
    MaxWire      \* bound: words of the wire log kept per frame

ASSUME HalfAssumption == Half \in Nat /\ Half >= 2
ASSUME FrameBitsAssumption == FrameBits \subseteq Nat
ASSUME BoundsAssumption ==
    /\ Classic \in BOOLEAN /\ Masked \in BOOLEAN
    /\ MinLat \in Nat /\ MaxLat \in Nat /\ Burst \in Nat
    /\ MaxLost \in Nat /\ MaxFrames \in Nat /\ MaxAborts \in Nat
    /\ MaxWire \in Nat

Ram == 2 * Half
Slots == 0 .. Ram - 1
LATCH == -1
STOP == -2
BLANK == -3
Word == Nat \cup {LATCH, STOP, BLANK}

First == 0           \* Half::First and Half::Second, by their first word
Second == Half

VARIABLES
    \* the RMT peripheral
    ram,             \* the channel's RAM window
    pos,             \* mem_raddr_ex, relative to the window
    running,         \* is the transmitter on?
    txLim,           \* the threshold register
    entries,         \* the classic's count of words towards the next threshold
    pend,            \* raw interrupt causes, [thr, end]
    lat,             \* words sent while a threshold cause waits
    wire,            \* the words sent since start_tx (the mock's `emitted`)
    \* ChannelState
    frameLen, totalBits, bitCursor, latchWritten, frameComplete,
    frames, guardTrips, guardSkips,
    \* the interrupt handler
    isr,             \* where on_interrupt is
    posBefore,       \* its local pos_before
    adv,             \* words sent since pos_before was read
    lagMax,          \* refill_lag_max
    \* the calling thread
    pc,              \* where start_frame, send_blocking or abort is
    wipe,            \* next word the classic stop_tx overwrites
    borrowed,        \* is the caller's frame buffer still borrowed?
    \* the locals of fill_half, for each of the two contexts that run it
    fill,
    \* bounds
    started, lost, aborts

hwVars == <<ram, pos, running, txLim, entries, pend, lat, wire>>
frameVars == <<frameLen, totalBits, bitCursor, latchWritten, frameComplete>>
countVars == <<frames, guardTrips, guardSkips, lagMax>>
isrVars == <<isr, posBefore, adv>>
threadVars == <<pc, wipe, borrowed>>
boundVars == <<started, lost, aborts>>
vars == <<hwVars, frameVars, countVars, isrVars, threadVars, boundVars, fill>>

Contexts == {"thread", "isr"}
NoCause == [thr |-> FALSE, end |-> FALSE]
NoFill == [stage |-> "off", word |-> 0, end |-> 0, cur |-> 0]
Pending == pend.thr \/ pend.end

Init ==
    /\ ram = [w \in Slots |-> STOP] /\ pos = 0 /\ running = FALSE
    /\ txLim = Half /\ entries = 0 /\ pend = NoCause /\ lat = 0 /\ wire = << >>
    /\ frameLen = 0 /\ totalBits = 0 /\ bitCursor = 0
    /\ latchWritten = TRUE /\ frameComplete = TRUE
    /\ frames = 0 /\ guardTrips = 0 /\ guardSkips = 0 /\ lagMax = 0
    /\ isr = "idle" /\ posBefore = 0 /\ adv = 0
    /\ pc = "idle" /\ wipe = 0 /\ borrowed = FALSE
    /\ fill = [c \in Contexts |-> NoFill]
    /\ started = 0 /\ lost = 0 /\ aborts = 0

-----------------------------------------------------------------------------
(***************************************************************************)
(* The transmitter.                                                        *)
(***************************************************************************)

\* RAM writes the running refill has made into the free half.
Refilled == IF isr = "fill" THEN fill["isr"].word - (fill["isr"].end - Half) ELSE 0

\* The timing assumptions: a cause is served within MaxLat words, and a
\* refill is at most Burst words behind the transmitter's pace of one word
\* for each of its RAM writes.
MayMove ==
    /\ running
    /\ pend.thr => lat < MaxLat
    /\ isr # "idle" => adv < Refilled + Burst

\* Does sending the word at pos raise the threshold event?  On the S3 and C6 the
\* register names a place in the window.  On the classic it is a repeating count of
\* the words sent, always one half (the request is clamped to it), which starts anew
\* with every write of the register.
AtThreshold ==
    IF Classic THEN entries + 1 = Half
               ELSE (pos + 1) % Ram = txLim % Ram

Emit ==
    /\ MayMove /\ ram[pos] # STOP
    /\ wire' = IF Len(wire) < MaxWire THEN Append(wire, ram[pos]) ELSE wire
    /\ pos' = (pos + 1) % Ram
    /\ pend' = IF AtThreshold THEN [pend EXCEPT !.thr = TRUE] ELSE pend
    /\ entries' = IF Classic /\ ~AtThreshold THEN entries + 1 ELSE 0
    /\ lat' = IF pend.thr THEN lat + 1 ELSE 0
    /\ adv' = IF isr = "idle" THEN 0 ELSE adv + 1
    /\ UNCHANGED <<ram, running, txLim, isr, posBefore, frameVars, countVars,
                   threadVars, boundVars, fill>>

Halt ==
    /\ MayMove /\ ram[pos] = STOP
    /\ running' = FALSE
    /\ pend' = [pend EXCEPT !.end = TRUE]
    /\ UNCHANGED <<ram, pos, txLim, entries, lat, wire, isrVars, frameVars,
                   countVars, threadVars, boundVars, fill>>

\* A threshold interrupt that never reaches the handler.
LoseThreshold ==
    /\ pend.thr /\ lost < MaxLost
    /\ pend' = [pend EXCEPT !.thr = FALSE]
    /\ lat' = 0
    /\ lost' = lost + 1
    /\ UNCHANGED <<ram, pos, running, txLim, entries, wire, isrVars, frameVars,
                   countVars, threadVars, started, aborts, fill>>

-----------------------------------------------------------------------------
(***************************************************************************)
(* fill_half, one RAM write at a time, in context c.                       *)
(***************************************************************************)

FillFrom(h) == [stage |-> "data", word |-> h, end |-> h + Half, cur |-> bitCursor]

MoreData(f) == f.word < f.end /\ f.cur < totalBits

\* The word fill_half writes for bit b: blank once frame_byte is out of range.
DataWord(b) == IF b < frameLen THEN b ELSE BLANK

FillData(c) ==
    LET f == fill[c] IN
    /\ f.stage = "data" /\ MoreData(f)
    /\ ram' = [ram EXCEPT ![f.word] = DataWord(f.cur)]
    /\ fill' = [fill EXCEPT ![c] = [f EXCEPT !.word = f.word + 1, !.cur = f.cur + 1]]
    /\ UNCHANGED <<bitCursor, latchWritten>>

\* Mutant: a latch due exactly on the half boundary is not deferred.
FillSettle_NoDefer(c) ==
    LET f == fill[c]
        needsMore == f.cur < totalBits
        writesLatch == ~needsMore /\ ~latchWritten
    IN
    /\ f.stage = "data" /\ ~MoreData(f)
    /\ bitCursor' = f.cur
    /\ latchWritten' = (latchWritten \/ writesLatch)
    /\ ram' = IF writesLatch /\ f.word < f.end THEN [ram EXCEPT ![f.word] = LATCH] ELSE ram
    /\ fill' = [fill EXCEPT ![c] =
                  IF needsMore \/ f.word = f.end THEN NoFill
                  ELSE [f EXCEPT !.stage = "stop",
                                 !.word = IF writesLatch THEN f.word + 1 ELSE f.word]]

\* The data is out or the half is full: publish the cursor, and write the
\* latch if this half is where it belongs.
FillSettle(c) ==
    LET f == fill[c]
        needsMore == f.cur < totalBits \/ (~latchWritten /\ f.word = f.end)
        writesLatch == ~needsMore /\ ~latchWritten
    IN
    /\ f.stage = "data" /\ ~MoreData(f)
    /\ bitCursor' = f.cur
    /\ latchWritten' = (latchWritten \/ writesLatch)
    /\ ram' = IF writesLatch THEN [ram EXCEPT ![f.word] = LATCH] ELSE ram
    /\ fill' = [fill EXCEPT ![c] =
                  IF needsMore THEN NoFill
                  ELSE [f EXCEPT !.stage = "stop",
                                 !.word = IF writesLatch THEN f.word + 1 ELSE f.word]]

\* Mutant: the last loop runs one word too far.
FillStop_OffByOne(c) ==
    LET f == fill[c] IN
    /\ f.stage = "stop"
    /\ IF f.word <= f.end
         THEN /\ ram' = [w \in Slots |-> IF w = f.word THEN STOP ELSE ram[w]]
              /\ fill' = [fill EXCEPT ![c] = [f EXCEPT !.word = f.word + 1]]
         ELSE /\ fill' = [fill EXCEPT ![c] = NoFill]
              /\ UNCHANGED ram
    /\ UNCHANGED <<bitCursor, latchWritten>>

\* The rest of the half is STOP.
FillStop(c) ==
    LET f == fill[c] IN
    /\ f.stage = "stop"
    /\ IF f.word < f.end
         THEN /\ ram' = [ram EXCEPT ![f.word] = STOP]
              /\ fill' = [fill EXCEPT ![c] = [f EXCEPT !.word = f.word + 1]]
         ELSE /\ fill' = [fill EXCEPT ![c] = NoFill]
              /\ UNCHANGED ram
    /\ UNCHANGED <<bitCursor, latchWritten>>

FillHalf(c) ==
    /\ FillData(c) \/ FillSettle(c) \/ FillStop(c)
    /\ UNCHANGED <<pos, running, txLim, entries, pend, lat, wire, frameLen, totalBits,
                   frameComplete, countVars, isrVars, threadVars, boundVars>>

-----------------------------------------------------------------------------
(***************************************************************************)
(* on_interrupt.                                                           *)
(***************************************************************************)

MayTake == isr = "idle" /\ Pending /\ (lat >= MinLat \/ ~running)

\* Mutants: one bit, and one half, of slack in the comparison.
Tripped_OffByOne == bitCursor <= totalBits
Tripped_Half == bitCursor + Half < totalBits

\* A cursor short of the frame's end means a guard word ended it.
Tripped == bitCursor < totalBits

\* Mutant: a truncated frame is counted but not published as complete.
Finish_KeepsTruncated ==
    /\ MayTake /\ pend.end
    /\ pend' = NoCause /\ lat' = 0
    /\ IF frameComplete
         THEN UNCHANGED <<frames, guardTrips, frameComplete>>
         ELSE /\ guardTrips' = IF Tripped THEN guardTrips + 1 ELSE guardTrips
              /\ frames' = frames + 1
              /\ frameComplete' = ~Tripped
    /\ UNCHANGED <<ram, pos, running, txLim, entries, wire, frameLen, totalBits,
                   bitCursor, latchWritten, guardSkips, lagMax, isrVars, threadVars,
                   boundVars, fill>>

\* take_interrupts and finish.  A tx_end outranks a threshold in the same
\* snapshot, and a spurious one is ignored.
Finish ==
    /\ MayTake /\ pend.end
    /\ pend' = NoCause /\ lat' = 0
    /\ IF frameComplete
         THEN UNCHANGED <<frames, guardTrips, frameComplete>>
         ELSE /\ guardTrips' = IF Tripped THEN guardTrips + 1 ELSE guardTrips
              /\ frames' = frames + 1
              /\ frameComplete' = TRUE
    /\ UNCHANGED <<ram, pos, running, txLim, entries, wire, frameLen, totalBits,
                   bitCursor, latchWritten, guardSkips, lagMax, isrVars, threadVars,
                   boundVars, fill>>

\* refill, up to the read of pos_before; nothing if the frame is complete.
RefillBegin ==
    /\ MayTake /\ ~pend.end
    /\ pend' = NoCause /\ lat' = 0
    /\ IF frameComplete
         THEN UNCHANGED isrVars
         ELSE isr' = "limit" /\ posBefore' = pos /\ adv' = 0
    /\ UNCHANGED <<ram, pos, running, txLim, entries, wire, frameVars, countVars,
                   threadVars, boundVars, fill>>

InSecond == posBefore >= Half

\* Mutant: the guard goes into the half that is about to be refilled.
GuardSlot_Free == IF InSecond THEN 0 ELSE Half
\* The first word of the half the transmitter is in.
GuardSlot == IF InSecond THEN Half ELSE 0
FreeHalf == IF InSecond THEN First ELSE Second

NextThreshold == IF InSecond THEN Ram ELSE Half

RefillLimit ==
    /\ isr = "limit" /\ isr' = "guard"
    /\ txLim' = NextThreshold /\ entries' = 0
    /\ UNCHANGED <<ram, pos, running, pend, lat, wire, posBefore, adv, frameVars,
                   countVars, threadVars, boundVars, fill>>

RefillGuard ==
    /\ isr = "guard" /\ isr' = "fill"
    /\ IF posBefore = GuardSlot
         THEN guardSkips' = guardSkips + 1 /\ UNCHANGED ram
         ELSE ram' = [ram EXCEPT ![GuardSlot] = STOP] /\ UNCHANGED guardSkips
    /\ fill' = [fill EXCEPT !["isr"] = FillFrom(FreeHalf)]
    /\ UNCHANGED <<pos, running, txLim, entries, pend, lat, wire, posBefore, adv,
                   frameVars, frames, guardTrips, lagMax, threadVars, boundVars>>

\* Mutant: the wrap is taken at the half instead of the window.
Advanced_HalfWrap == (pos + Ram - posBefore) % Half

\* The lag the handler measures, from two reads of the ring position.
Advanced == (pos + Ram - posBefore) % Ram

RefillEnd ==
    /\ isr = "fill" /\ fill["isr"].stage = "off" /\ isr' = "idle"
    /\ lagMax' = IF lagMax < Advanced THEN Advanced ELSE lagMax
    /\ posBefore' = 0 /\ adv' = 0
    /\ UNCHANGED <<hwVars, frameVars, frames, guardTrips, guardSkips, threadVars,
                   boundVars, fill>>

RefillFill == isr = "fill" /\ FillHalf("isr")

Isr == Finish \/ RefillBegin \/ RefillLimit \/ RefillGuard \/ RefillFill \/ RefillEnd

-----------------------------------------------------------------------------
(***************************************************************************)
(* The calling thread.                                                     *)
(***************************************************************************)

\* The handler runs to its end, and, unless interrupts may be masked, runs
\* before the thread takes its next step.
ThreadRuns == isr = "idle" /\ (Masked \/ ~Pending)

\* start_frame up to `arm`.
Arm(bits) ==
    /\ ThreadRuns /\ pc = "idle" /\ frameComplete /\ started < MaxFrames
    /\ pc' = "first" /\ borrowed' = TRUE /\ started' = started + 1
    /\ frameLen' = bits /\ totalBits' = bits
    /\ latchWritten' = FALSE /\ bitCursor' = 0 /\ frameComplete' = FALSE
    /\ fill' = [fill EXCEPT !["thread"] =
                  [stage |-> "data", word |-> First, end |-> First + Half, cur |-> 0]]
    /\ UNCHANGED <<hwVars, countVars, isrVars, wipe, lost, aborts>>

Prefill == ThreadRuns /\ pc \in {"first", "second"} /\ FillHalf("thread")

PrefillSecond ==
    /\ ThreadRuns /\ pc = "first" /\ fill["thread"].stage = "off"
    /\ pc' = "second"
    /\ fill' = [fill EXCEPT !["thread"] = FillFrom(Second)]
    /\ UNCHANGED <<hwVars, frameVars, countVars, isrVars, wipe, borrowed, boundVars>>

\* set_tx_threshold, then start_tx, which drops the causes left over from the
\* previous frame and rewinds the transmitter.
StartTx ==
    /\ ThreadRuns /\ pc = "second" /\ fill["thread"].stage = "off"
    /\ pc' = "poll"
    /\ txLim' = Half /\ entries' = 0 /\ pend' = NoCause /\ lat' = 0
    /\ pos' = 0 /\ running' = TRUE /\ wire' = << >>
    /\ UNCHANGED <<ram, frameVars, countVars, isrVars, wipe, borrowed, boundVars, fill>>

\* Mutant: the caller does not wait for the channel to complete.
Return_NoWait ==
    /\ ThreadRuns /\ pc = "poll"
    /\ pc' = "idle" /\ borrowed' = FALSE
    /\ UNCHANGED <<hwVars, frameVars, countVars, isrVars, wipe, boundVars, fill>>

\* start_frame's caller sees is_complete: it takes its buffer back at once, or
\* (send_blocking) lets the abort guard run first.
Return ==
    /\ ThreadRuns /\ pc = "poll" /\ frameComplete
    /\ pc' = "idle" /\ borrowed' = FALSE
    /\ UNCHANGED <<hwVars, frameVars, countVars, isrVars, wipe, boundVars, fill>>

DropGuard ==
    /\ ThreadRuns /\ pc = "poll" /\ frameComplete
    /\ pc' = "stop" /\ wipe' = 0
    /\ UNCHANGED <<hwVars, frameVars, countVars, isrVars, borrowed, boundVars, fill>>

\* The caller gives the frame up: a timeout in `spin`, or an unwind.
GiveUp ==
    /\ ThreadRuns /\ pc = "poll" /\ aborts < MaxAborts
    /\ pc' = "stop" /\ wipe' = 0 /\ aborts' = aborts + 1
    /\ UNCHANGED <<hwVars, frameVars, countVars, isrVars, borrowed, started, lost, fill>>

\* Mutant: stop_tx does nothing.
StopTx_Nothing ==
    /\ ThreadRuns /\ pc = "stop"
    /\ pc' = "disarm" /\ wipe' = 0
    /\ UNCHANGED <<hwVars, frameVars, countVars, isrVars, borrowed, boundVars, fill>>

\* abort: stop_tx.  The S3 and C6 stop in one register write; the classic
\* fills the window with STOP and leaves the transmitter to run into it.
StopTx ==
    /\ ThreadRuns /\ pc = "stop"
    /\ IF Classic /\ wipe < Ram
         THEN /\ ram' = [ram EXCEPT ![wipe] = STOP] /\ wipe' = wipe + 1
              /\ UNCHANGED <<running, pc>>
         ELSE /\ running' = IF Classic THEN running ELSE FALSE
              /\ pc' = "disarm" /\ wipe' = 0
              /\ UNCHANGED ram
    /\ UNCHANGED <<pos, txLim, entries, pend, lat, wire, frameVars, countVars, isrVars,
                   borrowed, boundVars, fill>>

\* disarm: the descriptor first, then the completion flag; a handler that runs
\* between the two reads blanks.
DropFrame ==
    /\ ThreadRuns /\ pc = "disarm"
    /\ pc' = "publish" /\ frameLen' = 0
    /\ UNCHANGED <<hwVars, totalBits, bitCursor, latchWritten, frameComplete, countVars,
                   isrVars, wipe, borrowed, boundVars, fill>>

PublishComplete ==
    /\ ThreadRuns /\ pc = "publish"
    /\ pc' = "idle" /\ borrowed' = FALSE /\ frameComplete' = TRUE
    /\ UNCHANGED <<hwVars, frameLen, totalBits, bitCursor, latchWritten, countVars,
                   isrVars, wipe, boundVars, fill>>

Abort == StopTx \/ DropFrame \/ PublishComplete

\* The steps of a call that has begun; the caller decides only when to begin
\* one and when to give up.
InCall == Prefill \/ PrefillSecond \/ StartTx \/ Return \/ DropGuard \/ Abort

Transmitter == Emit \/ Halt

Next ==
    \/ Transmitter \/ LoseThreshold
    \/ Isr
    \/ \E bits \in FrameBits : Arm(bits)
    \/ GiveUp
    \/ InCall

Spec == Init /\ [][Next]_vars

\* The peripheral is clocked, a pending cause is eventually served, and the
\* core goes on executing a call.
FairSpec == Spec /\ WF_vars(Transmitter) /\ WF_vars(Isr) /\ WF_vars(InCall)

-----------------------------------------------------------------------------
FlagsOK ==
    /\ running \in BOOLEAN /\ latchWritten \in BOOLEAN /\ frameComplete \in BOOLEAN
    /\ borrowed \in BOOLEAN /\ pend \in [thr : BOOLEAN, end : BOOLEAN]

PeripheralOK ==
    /\ ram \in [Slots -> Word] /\ pos \in Slots /\ txLim \in {Half, Ram}
    /\ entries \in 0 .. Half - 1 /\ lat \in Nat /\ wire \in Seq(Word)

ChannelOK ==
    /\ frameLen \in Nat /\ totalBits \in Nat /\ bitCursor \in 0 .. totalBits
    /\ frames \in Nat /\ guardTrips \in Nat /\ guardSkips \in Nat /\ lagMax \in Slots

FillLocals == [stage : {"off", "data", "stop"}, word : 0 .. Ram,
               end : {0, Half, Ram}, cur : 0 .. totalBits]

ControlOK ==
    /\ isr \in {"idle", "limit", "guard", "fill"} /\ posBefore \in Slots /\ adv \in Nat
    /\ pc \in {"idle", "first", "second", "poll", "stop", "disarm", "publish"}
    /\ wipe \in 0 .. Ram /\ fill \in [Contexts -> FillLocals]
    /\ started \in 0 .. MaxFrames /\ lost \in 0 .. MaxLost /\ aborts \in 0 .. MaxAborts

\* Every variable stays in its domain; in particular no fill_half writes outside
\* the window and the cursor never passes the end of the frame.
TypeOK == FlagsOK /\ PeripheralOK /\ ChannelOK /\ ControlOK

=============================================================================
