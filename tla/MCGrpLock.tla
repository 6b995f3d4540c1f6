------------------------------ MODULE MCGrpLock ------------------------------
(***************************************************************************)
(* Small instances of GrpLock.                                             *)
(***************************************************************************)
EXTENDS GrpLock, TLC

CONSTANTS t1, t2, h1, x1, x2

Locking == {"acquire", "tryacquire", "chain", "unchain", "direct"}

\* Locks are chained behind the group lock, while others take them directly;
\* and handlers come and go while others enter and leave.
MCConfigs == {[pos |-> (x1 :> 1) @@ (x2 :> 2), ops |-> Locking],
              [pos |-> (x1 :> 1) @@ (x2 :> 1),
               ops |-> {"acquire", "add_handler", "del_handler"}]}
=============================================================================
