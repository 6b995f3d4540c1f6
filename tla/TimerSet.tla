------------------------------ MODULE TimerSet ------------------------------
(***************************************************************************)
(* What a timer heap promises: a set of armed entries with the times they   *)
(* expire at.  A poll takes away the earliest one that has expired and      *)
(* calls it back; it does not matter when the set is changed meanwhile.     *)
(***************************************************************************)
EXTENDS Integers

CONSTANTS Entries, NoEntry, Threads

VARIABLES
    armed,      \* the entries that are armed
    expires,    \* when an entry that is armed expires
    running,    \* the entry whose callback a thread runs
    now         \* the clock

avars == <<armed, expires, running, now>>

Init ==
    /\ armed = {} /\ expires \in [Entries -> Nat]
    /\ running = [th \in Threads |-> NoEntry] /\ now = 0

Arm(e) ==
    /\ e \notin armed /\ armed' = armed \cup {e}
    /\ expires' \in [Entries -> Nat]
    /\ \A x \in Entries \ {e} : expires'[x] = expires[x]
    /\ UNCHANGED <<running, now>>

Disarm(e) ==
    /\ e \in armed
    /\ armed' = armed \ {e}
    /\ UNCHANGED <<expires, running, now>>

Fire(th, e) ==
    /\ running[th] = NoEntry
    /\ e \in armed /\ expires[e] <= now
    /\ \A x \in armed : expires[e] <= expires[x]
    /\ armed' = armed \ {e} /\ running' = [running EXCEPT ![th] = e]
    /\ UNCHANGED <<expires, now>>

Return(th) ==
    /\ running[th] # NoEntry /\ running' = [running EXCEPT ![th] = NoEntry]
    /\ UNCHANGED <<armed, expires, now>>

Tick == now' = now + 1 /\ UNCHANGED <<armed, expires, running>>

Next ==
    \/ \E e \in Entries : Arm(e) \/ Disarm(e)
    \/ \E th \in Threads : Return(th) \/ \E e \in Entries : Fire(th, e)
    \/ Tick

Spec == Init /\ [][Next]_avars
============================================================================
