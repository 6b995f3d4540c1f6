---------------------------- MODULE MCTransport ----------------------------
(***************************************************************************)
(* Instances of Transport for TLC.                                         *)
(***************************************************************************)
EXTENDS Transport

CONSTANTS a, b, t1, t2, m1, m2

Config(threads, tps, msgs, expires, cutoff) ==
    [threads |-> threads, tps |-> tps, msgs |-> msgs, expires |-> expires, cutoff |-> cutoff]

\* One thread with two transports of one address; with two messages; with
\* transports that are shut down early; and two threads that use one transport.
MCConfigs == {Config({a}, {t1, t2}, {m1}, FALSE, FALSE), Config({a}, {t1}, {m1, m2}, FALSE, FALSE),
              Config({a}, {t1}, {m1}, FALSE, TRUE), Config({a, b}, {t1}, {}, FALSE, FALSE)}
\* A connection may take longer than a request is good for.
MCExpires == {Config({a}, {t1}, {m1}, TRUE, FALSE)}
=============================================================================
