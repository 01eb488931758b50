--------------------------- MODULE RmtChannelProps ---------------------------
(***************************************************************************)
(* What must hold of RmtChannel, and what the sources say holds and does   *)
(* not.  The runs check these under different timing assumptions: the      *)
(* README has the table.                                                   *)
(***************************************************************************)
EXTENDS RmtChannel

\* What a frame of n bits is on the wire: its bits in order, then the latch.
Stream(n) == [i \in 1 .. n + 1 |-> IF i <= n THEN i - 1 ELSE LATCH]

\* start_frame is still filling the window; `wire` is the previous frame's.
Prefilling == pc \in {"first", "second"}

OnWire == {wire[i] : i \in 1 .. Len(wire)}

\* The frame's bits that have not reached the wire.
Missing == {b \in 0 .. totalBits - 1 : b \notin OnWire}

\* From word k + 1 on, the wire carries the frame from its first bit.
FrameFrom(k) == \A i \in k + 1 .. Len(wire) :
    i - k <= totalBits + 1 /\ wire[i] = Stream(totalBits)[i - k]

\* The first k words are whole replays of the initial window.
ReplaysOnly(k) == k % Ram = 0 /\ \A i \in 1 .. k :
    (i - 1) % Ram <= totalBits /\ wire[i] = Stream(totalBits)[((i - 1) % Ram) + 1]

-----------------------------------------------------------------------------
(***************************************************************************)
(* Interrupts arbitrarily late, or lost.                                   *)
(***************************************************************************)

\* The guard word's purpose (driver.rs, "The guard word"): however late or lost
\* the refill interrupts are, the wire is a clean prefix of the frame, and a
\* stale half is never replayed.  The two documented exceptions are the first
\* interrupt, before which no guard is planted (the wire then leaves the frame
\* exactly by starting the window again), and a guard the handler skipped.
CleanPrefix ==
    ~Prefilling /\ guardSkips = 0 =>
        \/ FrameFrom(0)
        \/ /\ Len(wire) > Ram /\ wire[Ram + 1] = wire[1]
           /\ \A i \in 1 .. Ram : i <= totalBits + 1 /\ wire[i] = Stream(totalBits)[i]

\* guard_trips says what its doc comment in state.rs says.  It never
\* over-reports: when every frame sent was counted as truncated, the last one
\* has bits that never reached the wire.  And it under-reports by less than one
\* half: a frame that is complete and not counted has lost at most bits of its
\* last half.
TripsTruthful ==
    ~Prefilling /\ aborts = 0 =>
        /\ started > 0 /\ frames = started /\ guardTrips = started => Missing # {}
        /\ frameComplete /\ guardTrips = 0 => Missing \subseteq totalBits - Half .. totalBits - 1

\* refill_lag_max is computed from two positions on a ring: it is the true
\* number of words sent during the refill, never that number modulo the window.
LagTruthful == isr = "fill" /\ fill["isr"].stage = "off" => Advanced = adv

(***************************************************************************)
(* Interrupts prompt, some of them lost.                                   *)
(***************************************************************************)

\* The cost of planting no guard at start, as guard.rs has it: a lost first
\* interrupt replays the whole window, any number of times if it is lost again,
\* and the frame then goes out from its first bit, shifted and uncorrupted; a
\* later lost one cuts it short.
ReplayThenPrefix ==
    ~Prefilling => \E k \in 0 .. Len(wire) : ReplaysOnly(k) /\ FrameFrom(k)

\* complete_frames: a frame that is complete and not counted in guard_trips had
\* every bit of it on the wire.
WholeUnlessCounted ==
    ~Prefilling /\ frameComplete /\ aborts = 0 /\ guardTrips = 0 => Missing = {}

\* "The caller must not be left waiting" (guard.rs): a started frame is
\* eventually reported complete, truncated or not.
FrameCompletes == pc = "poll" ~> frameComplete

(***************************************************************************)
(* No interrupt lost, latency and refill within one half: the abstract     *)
(* specification.                                                          *)
(***************************************************************************)
Bar == INSTANCE WireFrame WITH
    Latch <- LATCH,
    status <- IF frameComplete THEN "idle"
              ELSE IF pc \in {"stop", "disarm", "publish"} THEN "leaving" ELSE "sending",
    total <- totalBits,
    wire <- IF Prefilling THEN << >> ELSE wire

\* Every frame goes out whole, in order, with one latch, and is reported
\* complete only then, unless the caller aborted it; and it does go out.
ImplementsWireFrame == Bar!Spec

(***************************************************************************)
(* Aborts.                                                                 *)
(***************************************************************************)

\* start_frame's safety contract: the frame buffer is dereferenced, by the
\* handler or by the prefill, only while the caller still lends it.
FrameReadsAlive ==
    \A c \in Contexts :
        fill[c].stage = "data" /\ MoreData(fill[c]) /\ fill[c].cur < frameLen => borrowed

\* A channel that reports itself complete, outside start_frame and abort, has a
\* stopped transmitter: no frame is "complete" while its window is replayed.
CompleteMeansStopped == frameComplete /\ pc \in {"idle", "poll"} => ~running

\* A tx_end completes the frame whose transmission ended: a frame is never
\* complete before its transmitter is started.  start_tx drops "causes left over
\* from the previous frame so the first event of this one is genuinely this
\* one's" for this.
NoEarlyFinish == Prefilling => ~frameComplete

\* An aborted channel falls silent, also on the classic ESP32, where stop_tx
\* only lays STOP words in the transmitter's way.
AbortSilences == pc = "publish" ~> ~running

=============================================================================
