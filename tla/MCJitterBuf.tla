----------------------------- MODULE MCJitterBuf -----------------------------
(***************************************************************************)
(* Small instances of JitterBuf.                                           *)
(***************************************************************************)
EXTENDS JitterBuf

MCInvalid == -99

Base == [algo |-> "progressive", init_prefetch |-> 1, prefetch |-> 1, min_prefetch |-> 0,
         max_prefetch |-> 3, sends |-> 6, window |-> 2, faulty |-> TRUE, burst |-> 2,
         video |-> FALSE, restarts |-> FALSE]

\* A network with faults, for each way of discarding.
Faulty == {Base, [Base EXCEPT !.algo = "static"]}

\* Without a prefetch of its own, after the default one.
Without == {[Base EXCEPT !.prefetch = 0, !.init_prefetch = 0, !.sends = 5]}

\* The calls of the video stream.
Video == {[Base EXCEPT !.video = TRUE, !.restarts = TRUE, !.sends = 5]}

\* A perfect network for ever, with a fixed prefetch, and with an adaptive one.
Forever == {[Base EXCEPT !.sends = 0, !.window = 1, !.faulty = FALSE, !.burst = 3],
            [Base EXCEPT !.sends = 0, !.window = 1, !.faulty = FALSE, !.algo = "none",
                         !.prefetch = 4, !.init_prefetch = 4, !.min_prefetch = 4, !.max_prefetch = 4]}

MCConfigs == Faulty \cup Without \cup Video \cup Forever
=============================================================================
