---------------------------- MODULE MCTimerHeap ----------------------------
(* Small instances of TimerHeap for TLC. *)
EXTENDS TimerHeap, TLC

CONSTANTS e1, e2, e3, e4, e5, e6, t1, t2

Config(es, ts, o, ds, gs, n, t) ==
    [entries |-> es, threads |-> ts, in_order |-> o, delays |-> ds, grps |-> gs,
     calls |-> n, time |-> t]

\* One thread that fills the heap, with timers that do not expire; two threads;
\* and one thread with timers that have a group lock or none.
AllConfigs ==
    {Config({e1, e2, e3, e4, e5, e6}, {t1}, TRUE, {1, 2}, {TRUE}, 7, 0),
     Config({e1, e2}, {t1, t2}, FALSE, {0, 1}, {TRUE}, 3, 1),
     Config({e1, e2, e3}, {t1}, TRUE, {0, 1}, BOOLEAN, 4, 1)}

\* Two threads schedule the same entry.
RacyConfigs == {Config({e1}, {t1, t2}, FALSE, {0}, {TRUE}, 2, 0)}
============================================================================
