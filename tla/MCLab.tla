------------------------------- MODULE MCLab -------------------------------
EXTENDS Lab

\* The first bit of a frame, and one in the middle of the shortest.
MCFaultBits == {1, 4}

\* The CPU loop opens before the first edge, inside the first pulse, between two
\* pulses, and inside the second.
MCOpenings == {-5, 10, 50, 130}

\* One of every kind of experiment, and both wirings.
MCLabels == {"x1_baseline", "x6_ram_scan", "x2_rx_only", "x4_remap",
             "x5_rx4", "x9_rx0"}

\* One fault in the diagnostic, two in the self-test, three in the programs that
\* count: as many as finish in time.
MCUpsets == [p \in Programs |->
    CASE p = "diag" -> 1 [] p = "loopback" -> 2 [] OTHER -> 3]

\* One channel's interval is over before the others', or all are due.
MCDueSets == {{0}, Channels}

=============================================================================
