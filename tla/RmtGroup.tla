------------------------------- MODULE RmtGroup -------------------------------
(***************************************************************************)
(* The channels of one driver together (src/lp-ws281x/src/driver.rs): the  *)
(* single interrupt line, whose handler serves every channel of a snapshot *)
(* in index order, and send_blocking_all with its AbortSetGuard.           *)
(*                                                                         *)
(* A channel is seen through counts of words since its frame began, where  *)
(* RmtChannel has the RAM itself: `good` words have been written, the      *)
(* frame's `len` and STOP after it; `guard` is where the planted STOP      *)
(* stands (0: none), the transmitter stands before word `at`.  For a       *)
(* spoilt frame the counts say only that it is one, and when it ends.      *)
(* Channels send in step, one word each in a Tick; a refill takes up to    *)
(* Cost ticks, and the interrupts that are open wait up to MaxLat ticks    *)
(* for the handler.                                                        *)
(***************************************************************************)
EXTENDS Integers, Sequences, FiniteSets, FiniteSetsExt

CONSTANTS N,            \* channels of the driver
          Configured,   \* those that `configure` accepted
          Half,         \* half_words
          Lens,         \* frame lengths, in words, the latch included
          Lists,        \* the channel lists send_blocking_all is called with
          MaxLat, Cost,
          MaxCalls,     \* bound: calls of send_blocking_all
          MaxOthers,    \* bound: frames begun with start_frame
          MaxLost       \* bound: threshold interrupts lost

Channels == 0 .. N - 1
Ram == 2 * Half

ASSUME GroupAssumption == N \in Nat /\ Configured \subseteq Channels
ASSUME SizesAssumption == Half \in Nat \ {0} /\ Lens \subseteq Nat \ {0}
ASSUME ListsAssumption == Lists \subseteq Seq(Nat)
ASSUME LimitsAssumption ==
    /\ MaxLat \in Nat /\ Cost \in Nat
    /\ MaxCalls \in Nat /\ MaxOthers \in Nat /\ MaxLost \in Nat

VARIABLES
    \* the peripheral
    on, at, lim,          \* per channel: sending, position, threshold
    thr, end,             \* the channels whose cause is pending
    \* ChannelState
    len, good, guard, complete,
    \* on_interrupt
    isr,                  \* "idle", "scan" between channels, "refill" in one
    flags,                \* the snapshot's causes still to serve, [thr, end]
    before,               \* pos_before
    clock,                \* ticks of this refill, or of the open interrupt
    \* send_blocking_all
    pc, list, started, out,
    \* history, by channel: whose frame it is or was, was it sent otherwise
    \* than whole, did it lose an interrupt, was it aborted in flight
    owner, spoilt, missed, cut,
    \* bounds
    calls, others, lost

wireVars == <<on, at, lim, thr, end>>
stateVars == <<len, good, guard, complete>>
isrVars == <<isr, flags, before, clock>>
threadVars == <<pc, list, started, out>>
historyVars == <<owner, spoilt, missed, cut>>
boundVars == <<calls, others, lost>>
vars == <<wireVars, stateVars, isrVars, threadVars, historyVars, boundVars>>

NoFlags == [thr |-> {}, end |-> {}]
Each(x) == [c \in Channels |-> x]

Init ==
    /\ on = Each(FALSE) /\ at = Each(0) /\ lim = Each(Half) /\ thr = {} /\ end = {}
    /\ len = Each(0) /\ good = Each(0) /\ guard = Each(0) /\ complete = Each(TRUE)
    /\ isr = "idle" /\ flags = NoFlags /\ before = 0 /\ clock = 0
    /\ pc = "idle" /\ list = << >> /\ started = {} /\ out = "none"
    /\ owner = Each("none") /\ spoilt = {} /\ missed = {} /\ cut = {}
    /\ calls = 0 /\ others = 0 /\ lost = 0

-----------------------------------------------------------------------------
(***************************************************************************)
(* The transmitters.                                                       *)
(***************************************************************************)
Pending == thr \cup end # {}

\* The STOP words: after the frame's latch, once a refill has laid one there, and
\* the planted guard.
Stops(c) == (at[c] = len[c] /\ good[c] > len[c]) \/ (guard[c] # 0 /\ at[c] = guard[c])

\* Past the words written, with no guard in the way, the window starts again.
Replays(c) == at[c] = good[c]
NextAt(c) == IF Replays(c) THEN at[c] + 1 - Ram ELSE at[c] + 1

InTime == /\ isr = "idle" /\ Pending => clock < MaxLat
          /\ isr = "refill" => clock < Cost

Tick ==
    LET sending == {c \in Channels : on[c]}
        stopping == {c \in sending : Stops(c)}
        moving == sending \ stopping
    IN  /\ sending # {} /\ isr # "scan" /\ InTime
        /\ on' = [c \in Channels |-> c \in moving]
        /\ at' = [c \in Channels |-> IF c \in moving THEN NextAt(c) ELSE at[c]]
        /\ thr' = thr \cup {c \in moving : NextAt(c) % Ram = lim[c] % Ram}
        /\ end' = end \cup stopping
        /\ clock' = IF isr = "refill" \/ Pending THEN clock + 1 ELSE 0
        /\ spoilt' = spoilt \cup {c \in stopping : at[c] # len[c]} \cup {c \in moving : Replays(c)}
        /\ UNCHANGED <<lim, stateVars, isr, flags, before, threadVars, owner, missed, cut,
                       boundVars>>

LoseThreshold(c) ==
    /\ c \in thr /\ lost < MaxLost
    /\ thr' = thr \ {c} /\ missed' = missed \cup {c} /\ lost' = lost + 1
    /\ UNCHANGED <<on, at, lim, end, stateVars, isrVars, threadVars, owner, spoilt, cut,
                   calls, others>>

-----------------------------------------------------------------------------
(***************************************************************************)
(* on_interrupt.                                                           *)
(***************************************************************************)
TakeInterrupts ==
    /\ isr = "idle" /\ Pending
    /\ isr' = "scan" /\ flags' = [thr |-> thr, end |-> end]
    /\ thr' = {} /\ end' = {} /\ clock' = 0
    /\ UNCHANGED <<on, at, lim, stateVars, before, threadVars, historyVars, boundVars>>

Flagged == flags.thr \cup flags.end
Current == Min(Flagged)

\* Mutant: one channel per entry, the others' causes are gone.
Rest_Lowest(c) == NoFlags
Rest(c) == [thr |-> flags.thr \ {c}, end |-> flags.end \ {c}]

\* Mutant: the threshold comes before the end.
Ended_Late(c) == c \in flags.end /\ c \notin flags.thr
Ended(c) == c \in flags.end

\* One channel of the pass is done with.
Served(c) ==
    /\ flags' = Rest(c)
    /\ isr' = IF flags'.thr \cup flags'.end = {} THEN "idle" ELSE "scan"
    /\ clock' = 0

Finish ==
    /\ isr = "scan" /\ Ended(Current)
    /\ Served(Current)
    /\ complete' = [complete EXCEPT ![Current] = TRUE]
    /\ UNCHANGED <<wireVars, len, good, guard, before, threadVars, historyVars, boundVars>>

SkipComplete ==
    /\ isr = "scan" /\ ~Ended(Current) /\ complete[Current]
    /\ Served(Current)
    /\ UNCHANGED <<wireVars, stateVars, before, threadVars, historyVars, boundVars>>

RefillBegin ==
    /\ isr = "scan" /\ ~Ended(Current) /\ ~complete[Current]
    /\ isr' = "refill" /\ before' = at[Current] /\ clock' = 0
    /\ lim' = [lim EXCEPT ![Current] = ((at[Current] \div Half) + 1) * Half]
    /\ UNCHANGED <<on, at, thr, end, stateVars, flags, threadVars, historyVars, boundVars>>

\* The next Half words go into the half after the one read before the refill;
\* the guard, behind the transmitter, unless it stands on its slot.
RefillEnd ==
    LET c == Current
        reading == before \div Half
    IN  /\ isr = "refill"
        /\ Served(c)
        /\ good' = [good EXCEPT ![c] = @ + Half]
        /\ guard' = [guard EXCEPT ![c] = IF before % Half = 0 THEN 0 ELSE (reading + 2) * Half]
        /\ spoilt' = IF good[c] # (reading + 1) * Half THEN spoilt \cup {c} ELSE spoilt
        /\ UNCHANGED <<wireVars, len, complete, before, threadVars, owner, missed, cut, boundVars>>

Isr == TakeInterrupts \/ Finish \/ SkipComplete \/ RefillBegin \/ RefillEnd

-----------------------------------------------------------------------------
(***************************************************************************)
(* The calling thread: start_frame by itself, and send_blocking_all.       *)
(***************************************************************************)
\* The handler preempts; open interrupts may wait, masked, while the thread goes on.
ThreadRuns == isr = "idle"

\* arm, both halves filled, start_tx with this channel's old causes dropped.
StartFrame(c, words, who) ==
    /\ on' = [on EXCEPT ![c] = TRUE] /\ at' = [at EXCEPT ![c] = 0]
    /\ lim' = [lim EXCEPT ![c] = Half]
    /\ thr' = thr \ {c} /\ end' = end \ {c}
    /\ len' = [len EXCEPT ![c] = words] /\ good' = [good EXCEPT ![c] = Ram]
    /\ guard' = [guard EXCEPT ![c] = 0] /\ complete' = [complete EXCEPT ![c] = FALSE]
    /\ owner' = [owner EXCEPT ![c] = who]
    /\ spoilt' = spoilt \ {c} /\ missed' = missed \ {c} /\ cut' = cut \ {c}

MayStart(c) == c \in Channels /\ c \in Configured /\ complete[c]

StartOther(c, words) ==
    /\ ThreadRuns /\ pc = "idle" /\ others < MaxOthers
    /\ MayStart(c) /\ StartFrame(c, words, "other")
    /\ others' = others + 1
    /\ UNCHANGED <<isrVars, threadVars, calls, lost>>

SendAll(channels) ==
    /\ ThreadRuns /\ pc = "idle" /\ calls < MaxCalls
    /\ pc' = "start" /\ list' = channels /\ started' = {} /\ out' = "none"
    /\ calls' = calls + 1 /\ cut' = {}
    /\ UNCHANGED <<wireVars, stateVars, isrVars, owner, spoilt, missed, others, lost>>

StartNext(words) ==
    /\ ThreadRuns /\ pc = "start" /\ list # << >>
    /\ MayStart(Head(list)) /\ StartFrame(Head(list), words, "call")
    /\ started' = started \cup {Head(list)}
    /\ list' = Tail(list)
    /\ UNCHANGED <<isrVars, pc, out, boundVars>>

\* Mutants: the channel is marked before it is started; the guard is not there yet.
StartError_Marked ==
    /\ ThreadRuns /\ pc = "start" /\ list # << >> /\ ~MayStart(Head(list))
    /\ pc' = "abort" /\ out' = "error"
    /\ started' = started \cup {Head(list)}
    /\ UNCHANGED <<wireVars, stateVars, isrVars, list, historyVars, boundVars>>
StartError_NoGuard ==
    /\ ThreadRuns /\ pc = "start" /\ list # << >> /\ ~MayStart(Head(list))
    /\ pc' = "idle" /\ out' = "error"
    /\ UNCHANGED <<wireVars, stateVars, isrVars, list, started, historyVars, boundVars>>

\* ChannelOutOfRange, NotConfigured, or Busy.
StartError ==
    /\ ThreadRuns /\ pc = "start" /\ list # << >> /\ ~MayStart(Head(list))
    /\ pc' = "abort" /\ out' = "error"
    /\ UNCHANGED <<wireVars, stateVars, isrVars, list, started, historyVars, boundVars>>

AllStarted ==
    /\ ThreadRuns /\ pc = "start" /\ list = << >>
    /\ pc' = "wait"
    /\ UNCHANGED <<wireVars, stateVars, isrVars, list, started, out, historyVars, boundVars>>

\* Every start succeeded, so `started` is the list's channels.
AllComplete ==
    /\ ThreadRuns /\ pc = "wait" /\ \A c \in started : complete[c]
    /\ pc' = "abort" /\ out' = "ok"
    /\ UNCHANGED <<wireVars, stateVars, isrVars, list, started, historyVars, boundVars>>

Unwind ==
    /\ ThreadRuns /\ pc = "wait"
    /\ pc' = "abort" /\ out' = "unwound"
    /\ UNCHANGED <<wireVars, stateVars, isrVars, list, started, historyVars, boundVars>>

\* AbortSetGuard::drop, in index order: stop_tx and disarm.
AbortNext(c) ==
    /\ ThreadRuns /\ pc = "abort"
    /\ c \in started /\ \A d \in started : c <= d
    /\ on' = [on EXCEPT ![c] = FALSE]
    /\ complete' = [complete EXCEPT ![c] = TRUE]
    /\ cut' = IF complete[c] THEN cut ELSE cut \cup {c}
    /\ started' = started \ {c}
    /\ UNCHANGED <<at, lim, thr, end, len, good, guard, isrVars, pc, list, out, owner, spoilt,
                   missed, boundVars>>

Leave ==
    /\ ThreadRuns /\ pc = "abort" /\ started = {}
    /\ pc' = "idle" /\ list' = << >>
    /\ UNCHANGED <<wireVars, stateVars, isrVars, started, out, historyVars, boundVars>>

InCall == (\E w \in Lens : StartNext(w)) \/ StartError \/ AllStarted \/ AllComplete
             \/ (\E c \in Channels : AbortNext(c)) \/ Leave

Next ==
    \/ Tick \/ \E c \in Channels : LoseThreshold(c)
    \/ Isr
    \/ \E c \in Channels, w \in Lens : StartOther(c, w)
    \/ \E channels \in Lists : SendAll(channels)
    \/ InCall \/ Unwind

Spec == Init /\ [][Next]_vars

\* The peripheral is clocked, the handler runs, the core executes a call.
FairSpec == Spec /\ WF_vars(Tick) /\ WF_vars(Isr) /\ WF_vars(InCall)

-----------------------------------------------------------------------------
ByChannel(S) == [Channels -> S]

TypeOK ==
    /\ on \in ByChannel(BOOLEAN) /\ complete \in ByChannel(BOOLEAN)
    /\ at \in ByChannel(Nat) /\ lim \in ByChannel(Nat)
    /\ len \in ByChannel(Lens \cup {0}) /\ good \in ByChannel(Nat) /\ guard \in ByChannel(Nat)
    /\ \A c \in Channels : at[c] <= len[c]
    /\ thr \subseteq Channels /\ end \subseteq Channels
    /\ flags \in [thr : SUBSET Channels, end : SUBSET Channels]
    /\ isr \in {"idle", "scan", "refill"} /\ (isr = "idle" <=> Flagged = {})
    /\ before \in Nat /\ clock \in Nat
    /\ pc \in {"idle", "start", "wait", "abort"} /\ list \in Seq(Nat) /\ started \subseteq Channels
    /\ out \in {"none", "ok", "error", "unwound"}
    /\ owner \in ByChannel({"none", "call", "other"})
    /\ spoilt \subseteq Channels /\ missed \subseteq Channels /\ cut \subseteq Channels

\* However send_blocking_all ends - every frame sent, a channel that could not be
\* started, a panic in `spin` - no channel it started is in flight afterwards: the
\* handler would go on reading buffers whose borrow is over.
SetReturned == pc = "idle" => \A c \in Channels : owner[c] = "call" => complete[c]

\* The guard of a failed call aborts the frames of that call and no other: a
\* channel that was busy before, and is the very reason of the failure, sends on.
\* A call that succeeds has cut off nothing.
AbortsOwn == cut # {} => out # "ok" /\ \A c \in cut : owner[c] = "call"

\* Channels that share the interrupt line do not harm each other: only a frame that
\* lost an interrupt of its own goes out other than whole, however the causes
\* coincide - as long as n * Cost + 2 * MaxLat <= Half, n channels configured: a
\* cause may wait for the rest of one pass and then stand behind the next causes of
\* the channels which that pass served, and its own guard moves at its refill's end.
Isolated == spoilt \subseteq missed

\* send_blocking_all ends, also when one of its channels loses its interrupts.
CallEnds == pc # "idle" ~> pc = "idle"

=============================================================================
