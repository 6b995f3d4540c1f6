------------------------------- MODULE MCTsx -------------------------------
(* Small instances of Tsx for TLC. *)
EXTENDS Tsx, TLC

CONSTANTS t1, t2

Config(r, m, e, ts) == [role |-> r, method |-> m, env |-> e, threads |-> ts]

\* Two threads and the user, one or two threads and an unreliable world.
AllConfigs ==
    {Config("UAC", "INVITE", {"terminate", "stop"}, {t1, t2}),
     Config("UAC", "OTHER", {"terminate", "stop"}, {t1, t2}),
     Config("UAS", "INVITE", {"terminate", "stop"}, {t1, t2}),
     Config("UAS", "OTHER", {"terminate", "stop"}, {t1, t2}),
     Config("UAC", "INVITE", {"resolve", "send_error"}, {t1, t2}),
     Config("UAC", "INVITE", EnvEvents, {t1}),
     Config("UAS", "INVITE", {"disconnect"}, {t1}),
     Config("UAS", "INVITE", {"pending"}, {t1})}

\* A client whose transport may leave a send pending.
PendingConfigs == {Config("UAC", "INVITE", {"pending"}, {t1})}

============================================================================
