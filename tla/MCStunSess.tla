----------------------------- MODULE MCStunSess -----------------------------
(* Instances of StunSess for TLC. *)
EXTENDS StunSess, TLC

CONSTANTS r1, r2, r3, t1, t2

Config(lt, rt, e, rs, ts) ==
    [long_term |-> lt, retransmits |-> rt, env |-> e, reqs |-> rs, threads |-> ts]

\* Without and with long-term credentials, one or two threads, UDP and TCP.
AllConfigs ==
    {Config(FALSE, BOOLEAN, EnvEvents, {r1}, {t1, t2}),
     Config(FALSE, {TRUE}, {"destroy", "cancel"}, {r1, r2}, {t1, t2}),
     Config(FALSE, BOOLEAN, {"destroy", "send_error"}, {r1, r2}, {t1, t2}),
     Config(FALSE, {TRUE}, {"destroy", "cancel", "retransmit"}, {r1, r2}, {t1}),
     Config(TRUE, BOOLEAN, {"destroy"}, {r1, r2}, {t1, t2}),
     Config(TRUE, {TRUE}, {"destroy"}, {r1, r2, r3}, {t1})}

\* A transport that reports PJ_EPENDING.
PendingConfigs == {Config(FALSE, {TRUE}, {"pending"}, {r1}, {t1})}

============================================================================
