------------------------------- MODULE RefLock -------------------------------
(***************************************************************************)
(* What a group lock promises its users (lock.h, "Group lock has three     *)
(* functions"): mutual exclusion with re-entry, and session management,    *)
(* i.e. the object goes at the very moment nobody refers to it any more    *)
(* and not before.  The third function, lock ordering, concerns the        *)
(* external locks and is stated in GrpLock.                                *)
(***************************************************************************)
EXTENDS Naturals

CONSTANTS Threads, NoThread

VARIABLES owner,   \* the thread inside, or NoThread
          depth,   \* how many times it has entered
          refs,    \* the references each thread answers for
          gone     \* the object has been destroyed

vars == <<owner, depth, refs, gone>>

Init == /\ owner = NoThread
        /\ depth = 0
        /\ refs = [th \in Threads |-> 0]
        /\ gone = FALSE

\* A thread enters, and refers to the object from then on.
Enter(th) == /\ ~gone
             /\ owner \in {NoThread, th}
             /\ owner' = th
             /\ depth' = depth + 1
             /\ refs' = [refs EXCEPT ![th] = @ + 1]
             /\ UNCHANGED gone

\* It leaves; its reference outlives the visit.
Leave(th) == /\ ~gone
             /\ owner = th
             /\ depth > 0
             /\ depth' = depth - 1
             /\ owner' = IF depth = 1 THEN NoThread ELSE th
             /\ UNCHANGED <<refs, gone>>

Refer(th) == /\ ~gone
             /\ refs' = [refs EXCEPT ![th] = @ + 1]
             /\ UNCHANGED <<owner, depth, gone>>

\* Giving up a reference destroys the object exactly when it was the last.
Drop(th) == /\ ~gone
            /\ refs[th] > 0
            /\ refs' = [refs EXCEPT ![th] = @ - 1]
            /\ gone' = \A x \in Threads : refs'[x] = 0
            /\ gone' => owner = NoThread
            /\ UNCHANGED <<owner, depth>>

Next == \E th \in Threads : Enter(th) \/ Leave(th) \/ Refer(th) \/ Drop(th)

Spec == Init /\ [][Next]_vars
=============================================================================
