------------------------------- MODULE GrpLock -------------------------------
(***************************************************************************)
(* The group lock of pjlib (pjlib/src/pj/lock.c, 203-693): a recursive     *)
(* mutex with a reference counter, a list of destroy handlers, and a list  *)
(* of external locks that are taken and given back together with it.       *)
(* Every lock and unlock of a mutex, and every read of a list pointer, is  *)
(* a step of its own; threads interleave between them.                     *)
(*                                                                         *)
(* The users are the environment.  They follow the rules of lock.h: a      *)
(* thread calls only while it answers for a reference or is inside, gives  *)
(* back only what it has, and chains a lock once at a time.  An external   *)
(* lock also has a life of its own (UserLock, UserUnlock).                 *)
(***************************************************************************)
EXTENDS Integers, Sequences, FiniteSets, Functions

CONSTANTS Threads, NoThread,
          Own,        \* the group lock's own mutex
          Ext,        \* external locks
          End,        \* the list head, &glock->lock_list
          Handlers,   \* destroy handlers
          Configs,    \* the settings of a run, see Init
          MaxDepth,   \* bound: how deep a thread nests its acquisitions
          MaxRefs     \* bound: references a thread holds beside them

\* The threads and the locks are told apart from NULL and the list head, and every
\* lock is chained behind the group's own (pos > 0).  grp_lock_acquire reads the
\* first item of the list before it has any lock, so a lock that another thread
\* chains in front of it meanwhile would be missed.
ASSUME GroupAssumption == /\ NoThread \notin Threads
                          /\ Own \notin Ext
                          /\ End \notin Ext \cup {Own}
                          /\ \A c \in Configs : \A l \in Ext : c.pos[l] \in Nat \ {0}

Locks == {Own} \cup Ext
Ops == {"none", "acquire", "tryacquire", "release", "dec_ref", "add_handler",
        "del_handler", "chain", "unchain"}
Pcs == {"idle", "acquire", "next", "body", "chain", "leave", "release", "prev", "dec_ref"}

VARIABLES
    conf,          \* pos: where each external lock is chained; ops: calls made
    lock_list,     \* the locks of the list, in order
    holder, nest,  \* each recursive mutex: who has it, how many times
    owner, owner_cnt, ref_cnt,
    destroy_list,  \* handlers to call
    called,        \* how often each handler has been called
    gone,          \* pool = NULL: destroyed and released
    pc, op, lck, arg, n,  \* per thread: the call in progress and its locals
    refs, depth, direct   \* per thread: what its user has: references,
                          \* acquisitions, an external lock taken directly

mutexes == <<holder, nest>>
ownership == <<owner, owner_cnt>>
handlers == <<destroy_list, called>>
locals == <<pc, op, lck, arg, n>>
user == <<refs, depth, direct>>
vars == <<conf, lock_list, mutexes, ownership, ref_cnt, handlers, gone, locals, user>>

\* pj_grp_lock_create: a counter of zero and a list holding only the own lock.
\* The creator takes the first reference before the object is shared.
Init == /\ conf \in Configs
        /\ lock_list = <<Own>>
        /\ holder = [l \in Locks |-> NoThread]
        /\ nest = [l \in Locks |-> 0]
        /\ owner = NoThread
        /\ owner_cnt = 0
        /\ ref_cnt = 0
        /\ destroy_list = {}
        /\ called = [h \in Handlers |-> 0]
        /\ gone = FALSE
        /\ pc = [th \in Threads |-> "idle"]
        /\ op = [th \in Threads |-> "none"]
        /\ lck = [th \in Threads |-> End]
        /\ arg = [th \in Threads |-> End]
        /\ n = [th \in Threads |-> 0]
        /\ refs = [th \in Threads |-> 0]
        /\ depth = [th \in Threads |-> 0]
        /\ direct = [th \in Threads |-> End]

-----------------------------------------------------------------------------
(***************************************************************************)
(* The list.  pj_list_erase makes an erased item point to itself.          *)
(***************************************************************************)
Index(l) == CHOOSE i \in DOMAIN lock_list : lock_list[i] = l

\* lck->next, and of the head: the first item.
NextOf(l) == IF l = End THEN (IF lock_list = <<>> THEN End ELSE Head(lock_list))
             ELSE IF l \notin Range(lock_list) THEN l
             ELSE IF Index(l) = Len(lock_list) THEN End
             ELSE lock_list[Index(l) + 1]

\* lck->prev, and of the head: the last item.
PrevOf(l) == IF l = End THEN (IF lock_list = <<>> THEN End ELSE lock_list[Len(lock_list)])
             ELSE IF l \notin Range(lock_list) THEN l
             ELSE IF Index(l) = 1 THEN End
             ELSE lock_list[Index(l) - 1]

Prio(l) == IF l = Own THEN 0 ELSE conf.pos[l]

\* pj_list_insert_before the first item whose position is not lower.
Insert(l) == LET k == Cardinality({i \in DOMAIN lock_list :
                            \A j \in 1..i : Prio(lock_list[j]) < Prio(l)})
             IN  SubSeq(lock_list, 1, k) \o <<l>> \o SubSeq(lock_list, k + 1, Len(lock_list))

Erase(l) == SubSeq(lock_list, 1, Index(l) - 1)
            \o SubSeq(lock_list, Index(l) + 1, Len(lock_list))

-----------------------------------------------------------------------------
(***************************************************************************)
(* Recursive mutexes.  Unlocking one that another thread holds is refused  *)
(* by the operating system and changes nothing.                            *)
(***************************************************************************)
\* Mutant: a simple mutex instead of a recursive one.
Available_Simple(l, th) == holder[l] = NoThread

Available(l, th) == holder[l] \in {NoThread, th}

LockMutex(l, th) == /\ Available(l, th)
                    /\ holder' = [holder EXCEPT ![l] = th]
                    /\ nest' = [nest EXCEPT ![l] = @ + 1]

Unlock(S, k, th) ==
    LET left(l) == IF l \in S /\ holder[l] = th
                   THEN (IF nest[l] > k THEN nest[l] - k ELSE 0) ELSE nest[l]
    IN  /\ nest' = [l \in Locks |-> left(l)]
        /\ holder' = [l \in Locks |-> IF left(l) = 0 THEN NoThread ELSE holder[l]]

-----------------------------------------------------------------------------
(***************************************************************************)
(* Calls.  A thread calls while it answers for a reference or is inside.   *)
(***************************************************************************)
MayCall(th) == /\ ~gone
               /\ pc[th] = "idle"
               /\ refs[th] > 0 \/ depth[th] > 0
               /\ direct[th] # End => conf.pos[direct[th]] < 0

\* The entry of grp_lock_acquire, which every call but add_ref, dec_ref and
\* release makes first.
BeginAcquire(th, o, a) ==
    /\ o \in conf.ops
    /\ MayCall(th)
    /\ pc' = [pc EXCEPT ![th] = "acquire"]
    /\ op' = [op EXCEPT ![th] = o]
    /\ lck' = [lck EXCEPT ![th] = NextOf(End)]
    /\ arg' = [arg EXCEPT ![th] = a]
    /\ UNCHANGED <<conf, lock_list, mutexes, ownership, ref_cnt, handlers, gone, n, user>>

grp_lock_acquire(th) == /\ depth[th] < MaxDepth
                        /\ BeginAcquire(th, "acquire", End)

grp_lock_tryacquire(th) == /\ depth[th] < MaxDepth
                           /\ BeginAcquire(th, "tryacquire", End)

\* A component registers its handler once.
pj_grp_lock_add_handler(th, h) == /\ h \notin destroy_list
                                  /\ \A x \in Threads : arg[x] # h
                                  /\ BeginAcquire(th, "add_handler", h)

pj_grp_lock_del_handler(th, h) == BeginAcquire(th, "del_handler", h)

pj_grp_lock_chain_lock(th, l) == /\ l \notin Range(lock_list)
                                 /\ \A x \in Threads : arg[x] # l
                                 /\ BeginAcquire(th, "chain", l)

pj_grp_lock_unchain_lock(th, l) == /\ \A x \in Threads : arg[x] # l
                                   /\ BeginAcquire(th, "unchain", l)

\* The first caller has no reference yet: ref_cnt starts at zero.  A thread may
\* take a reference on behalf of another, as an object does for its callbacks.
pj_grp_lock_add_ref(th, x) ==
    /\ MayCall(th) \/ (ref_cnt = 0 /\ ~gone)
    /\ refs[x] < MaxRefs
    /\ ref_cnt' = ref_cnt + 1
    /\ refs' = [refs EXCEPT ![x] = @ + 1]
    /\ UNCHANGED <<conf, lock_list, mutexes, ownership, handlers, gone, locals, depth, direct>>

-----------------------------------------------------------------------------
(***************************************************************************)
(* Acquiring: along the list, then the owner and a reference.              *)
(***************************************************************************)
\* pj_lock_acquire(lck->lock), or pj_lock_tryacquire that succeeds.
AcquireItem(th) ==
    /\ pc[th] = "acquire"
    /\ lck[th] # End
    /\ LockMutex(lck[th], th)
    /\ pc' = [pc EXCEPT ![th] = "next"]
    /\ UNCHANGED <<conf, lock_list, ownership, ref_cnt, handlers, gone, op, lck, arg, n, user>>

\* pj_lock_tryacquire fails: the locks taken so far are given back.
TryFails(th) ==
    /\ pc[th] = "acquire"
    /\ op[th] = "tryacquire"
    /\ lck[th] # End
    /\ ~Available(lck[th], th)
    /\ pc' = [pc EXCEPT ![th] = "release"]
    /\ lck' = [lck EXCEPT ![th] = PrevOf(lck[th])]
    /\ UNCHANGED <<conf, lock_list, mutexes, ownership, ref_cnt, handlers, gone, op, arg, n, user>>

\* lck = lck->next
NextItem(th) ==
    /\ pc[th] = "next"
    /\ pc' = [pc EXCEPT ![th] = "acquire"]
    /\ lck' = [lck EXCEPT ![th] = NextOf(lck[th])]
    /\ UNCHANGED <<conf, lock_list, mutexes, ownership, ref_cnt, handlers, gone, op, arg, n, user>>

grp_lock_set_owner_thread(th) ==
    IF owner = NoThread THEN owner' = th /\ owner_cnt' = 1
                        ELSE owner' = owner /\ owner_cnt' = owner_cnt + 1

\* How often chain takes the new lock.  Mutant: once, however deep the caller is.
Times_Once(th) == 1

Times(th) == owner_cnt'

\* Mutant: the acquisition does not count as a reference.
AddRef_Forgotten == ref_cnt' = ref_cnt

AddRef == ref_cnt' = ref_cnt + 1

\* The end of the list: grp_lock_set_owner_thread and pj_grp_lock_add_ref.  An
\* acquisition by the user returns; in the other calls the body follows, and
\* for chain first the loop that takes the new lock owner_cnt times.
Entered(th) ==
    /\ pc[th] = "acquire"
    /\ lck[th] = End
    /\ grp_lock_set_owner_thread(th)
    /\ AddRef
    /\ IF op[th] \in {"acquire", "tryacquire"}
       THEN /\ pc' = [pc EXCEPT ![th] = "idle"]
            /\ op' = [op EXCEPT ![th] = "none"]
            /\ depth' = [depth EXCEPT ![th] = @ + 1]
            /\ UNCHANGED n
       ELSE /\ pc' = [pc EXCEPT ![th] = IF op[th] = "chain" THEN "chain" ELSE "body"]
            /\ n' = [n EXCEPT ![th] = IF op[th] = "chain" THEN Times(th) ELSE 0]
            /\ UNCHANGED <<op, depth>>
    /\ UNCHANGED <<conf, lock_list, mutexes, handlers, gone, lck, arg, refs, direct>>

\* for (i=0; i<glock->owner_cnt; ++i) pj_lock_acquire(lock)
ChainAcquires(th) ==
    /\ pc[th] = "chain"
    /\ n[th] > 0
    /\ LockMutex(arg[th], th)
    /\ n' = [n EXCEPT ![th] = @ - 1]
    /\ UNCHANGED <<conf, lock_list, ownership, ref_cnt, handlers, gone, pc, op, lck, arg, user>>

\* The rest of pj_grp_lock_chain_lock before it releases.
ChainBody(th) ==
    /\ pc[th] = "chain"
    /\ n[th] = 0
    /\ lock_list' = Insert(arg[th])
    /\ pc' = [pc EXCEPT ![th] = "leave"]
    /\ UNCHANGED <<conf, mutexes, ownership, ref_cnt, handlers, gone, op, lck, arg, n, user>>

\* Mutant: the erased lock is released only once.
UnchainBody_Once(th) ==
    /\ pc[th] = "body"
    /\ op[th] = "unchain"
    /\ IF arg[th] \in Range(lock_list)
       THEN /\ lock_list' = Erase(arg[th])
            /\ Unlock({arg[th]}, 1, th)
       ELSE UNCHANGED <<lock_list, mutexes>>
    /\ pc' = [pc EXCEPT ![th] = "leave"]
    /\ UNCHANGED <<conf, ownership, ref_cnt, handlers, gone, op, lck, arg, n, user>>

\* pj_grp_lock_unchain_lock between its acquire and its release.
UnchainBody(th) ==
    /\ pc[th] = "body"
    /\ op[th] = "unchain"
    /\ IF arg[th] \in Range(lock_list)
       THEN /\ lock_list' = Erase(arg[th])
            /\ Unlock({arg[th]}, owner_cnt, th)
       ELSE UNCHANGED <<lock_list, mutexes>>
    /\ pc' = [pc EXCEPT ![th] = "leave"]
    /\ UNCHANGED <<conf, ownership, ref_cnt, handlers, gone, op, lck, arg, n, user>>

\* pj_list_push_back(&glock->destroy_list, cb), or pj_list_erase(cb).
HandlerBody(th) ==
    /\ pc[th] = "body"
    /\ op[th] \in {"add_handler", "del_handler"}
    /\ destroy_list' = IF op[th] = "add_handler" THEN destroy_list \cup {arg[th]}
                                                 ELSE destroy_list \ {arg[th]}
    /\ pc' = [pc EXCEPT ![th] = "leave"]
    /\ UNCHANGED <<conf, lock_list, mutexes, ownership, ref_cnt, called, gone, op, lck, arg, n, user>>

-----------------------------------------------------------------------------
(***************************************************************************)
(* Releasing: the owner, the list backwards, and last the reference.       *)
(***************************************************************************)
\* Mutant: the first release clears the owner.
grp_lock_unset_owner_thread_AtOnce(th) == owner_cnt' = 0 /\ owner' = NoThread

grp_lock_unset_owner_thread(th) ==
    /\ owner_cnt' = IF owner_cnt > 1 THEN owner_cnt - 1 ELSE 0
    /\ owner' = IF owner_cnt > 1 THEN owner ELSE NoThread

\* grp_lock_release, called by the user or at the end of another call.
grp_lock_release(th) ==
    /\ \/ /\ ~gone
          /\ pc[th] = "idle"
          /\ depth[th] > 0
          /\ op' = [op EXCEPT ![th] = "release"]
          /\ depth' = [depth EXCEPT ![th] = @ - 1]
       \/ /\ pc[th] = "leave"
          /\ UNCHANGED <<op, depth>>
    /\ grp_lock_unset_owner_thread(th)
    /\ pc' = [pc EXCEPT ![th] = "release"]
    /\ lck' = [lck EXCEPT ![th] = PrevOf(End)]
    /\ UNCHANGED <<conf, lock_list, mutexes, ref_cnt, handlers, gone, arg, n, refs, direct>>

\* pj_lock_release(lck->lock)
ReleaseItem(th) ==
    /\ pc[th] = "release"
    /\ lck[th] # End
    /\ Unlock({lck[th]}, 1, th)
    /\ pc' = [pc EXCEPT ![th] = "prev"]
    /\ UNCHANGED <<conf, lock_list, ownership, ref_cnt, handlers, gone, op, lck, arg, n, user>>

\* lck = lck->prev
PrevItem(th) ==
    /\ pc[th] = "prev"
    /\ pc' = [pc EXCEPT ![th] = "release"]
    /\ lck' = [lck EXCEPT ![th] = PrevOf(lck[th])]
    /\ UNCHANGED <<conf, lock_list, mutexes, ownership, ref_cnt, handlers, gone, op, arg, n, user>>

\* Mutant: a release spins until its reference is the last.
Released_Spins(th) ==
    /\ pc[th] = "release"
    /\ lck[th] = End
    /\ pc' = IF op[th] = "tryacquire" THEN [pc EXCEPT ![th] = "idle"]
             ELSE IF ref_cnt = 1 THEN [pc EXCEPT ![th] = "dec_ref"] ELSE pc
    /\ op' = IF op[th] = "tryacquire" THEN [op EXCEPT ![th] = "none"] ELSE op
    /\ UNCHANGED <<conf, lock_list, mutexes, ownership, ref_cnt, handlers, gone, lck, arg, n, user>>

\* Back at the head: a failed try returns, a release goes on to its reference.
Released(th) ==
    /\ pc[th] = "release"
    /\ lck[th] = End
    /\ IF op[th] = "tryacquire"
       THEN /\ pc' = [pc EXCEPT ![th] = "idle"]
            /\ op' = [op EXCEPT ![th] = "none"]
            /\ arg' = [arg EXCEPT ![th] = End]
       ELSE /\ pc' = [pc EXCEPT ![th] = "dec_ref"]
            /\ UNCHANGED <<op, arg>>
    /\ UNCHANGED <<conf, lock_list, mutexes, ownership, ref_cnt, handlers, gone, lck, n, user>>

\* grp_lock_destroy: the chained locks are given back as often as the lock is
\* owned, every handler is called, and the memory goes.
grp_lock_destroy(th) ==
    /\ Unlock(Range(lock_list) \ {Own}, owner_cnt, th)
    /\ called' = [h \in Handlers |-> called[h] + (IF h \in destroy_list THEN 1 ELSE 0)]
    /\ gone' = TRUE

\* pj_grp_lock_dec_ref, by the user or at the end of a release.
pj_grp_lock_dec_ref(th) ==
    /\ \/ /\ MayCall(th)
          /\ refs[th] > 0
          /\ refs' = [refs EXCEPT ![th] = @ - 1]
       \/ /\ pc[th] = "dec_ref"
          /\ UNCHANGED refs
    /\ ref_cnt' = ref_cnt - 1
    /\ IF ref_cnt' = 0 THEN grp_lock_destroy(th)
                       ELSE UNCHANGED <<mutexes, called, gone>>
    /\ pc' = [pc EXCEPT ![th] = "idle"]
    /\ op' = [op EXCEPT ![th] = "none"]
    /\ arg' = [arg EXCEPT ![th] = End]
    /\ UNCHANGED <<conf, lock_list, ownership, destroy_list, lck, n, depth, direct>>

-----------------------------------------------------------------------------
(***************************************************************************)
(* An external lock's own users.  In the order lock.h fixes, a thread that *)
(* has one may go on to the group lock only if its position is negative.   *)
(***************************************************************************)
UserLock(th, l) ==
    /\ "direct" \in conf.ops
    /\ pc[th] = "idle" /\ depth[th] = 0 /\ direct[th] = End
    /\ LockMutex(l, th)
    /\ direct' = [direct EXCEPT ![th] = l]
    /\ UNCHANGED <<conf, lock_list, ownership, ref_cnt, handlers, gone, locals, refs, depth>>

UserUnlock(th) ==
    /\ pc[th] = "idle" /\ depth[th] = 0 /\ direct[th] # End
    /\ Unlock({direct[th]}, 1, th)
    /\ direct' = [direct EXCEPT ![th] = End]
    /\ UNCHANGED <<conf, lock_list, ownership, ref_cnt, handlers, gone, locals, refs, depth>>

-----------------------------------------------------------------------------
Call(th) == \/ grp_lock_acquire(th) \/ grp_lock_tryacquire(th)
            \/ \E h \in Handlers : pj_grp_lock_add_handler(th, h) \/ pj_grp_lock_del_handler(th, h)
            \/ \E l \in Ext : pj_grp_lock_chain_lock(th, l) \/ pj_grp_lock_unchain_lock(th, l)
            \/ \E x \in Threads : pj_grp_lock_add_ref(th, x)
            \/ \E l \in Ext : UserLock(th, l)

\* The steps of a call in progress, and the giving back of what a user has.
Step(th) == \/ AcquireItem(th) \/ TryFails(th) \/ NextItem(th) \/ Entered(th)
            \/ ChainAcquires(th) \/ ChainBody(th) \/ UnchainBody(th) \/ HandlerBody(th)
            \/ grp_lock_release(th) \/ ReleaseItem(th) \/ PrevItem(th) \/ Released(th)
            \/ pj_grp_lock_dec_ref(th) \/ UserUnlock(th)

\* Everything has been given back, or nothing was ever taken.
Done == gone /\ (\A th \in Threads : pc[th] = "idle" /\ direct[th] = End) /\ UNCHANGED vars

Next == (\E th \in Threads : Call(th) \/ Step(th)) \/ Done

\* A thread in the middle of a call is scheduled.
Fairness == \A th \in Threads : WF_vars(pc[th] # "idle" /\ Step(th))

Spec == Init /\ [][Next]_vars /\ Fairness

-----------------------------------------------------------------------------
(***************************************************************************)
(* Properties.                                                             *)
(***************************************************************************)
TypeOK == /\ lock_list \in Seq(Locks)
          /\ holder \in [Locks -> Threads \cup {NoThread}]
          /\ nest \in [Locks -> Nat]
          /\ owner \in Threads \cup {NoThread}
          /\ owner_cnt \in Nat
          /\ ref_cnt \in Nat
          /\ destroy_list \subseteq Handlers
          /\ called \in [Handlers -> Nat]
          /\ gone \in BOOLEAN
          /\ pc \in [Threads -> Pcs]
          /\ op \in [Threads -> Ops]
          /\ lck \in [Threads -> Locks \cup {End}]
          /\ arg \in [Threads -> Ext \cup Handlers \cup {End}]
          /\ n \in [Threads -> Nat]
          /\ refs \in [Threads -> Nat]
          /\ depth \in [Threads -> Nat]
          /\ direct \in [Threads -> Ext \cup {End}]

\* How many times a thread is inside, its user's acquisitions and its own call.
Inside(th) == depth[th] + (IF pc[th] \in {"body", "chain", "leave"} THEN 1 ELSE 0)

\* References a thread answers for: the user's, one per acquisition, and the one
\* a call or a release in progress has yet to give back.
Answers(th) == refs[th] + depth[th]
               + (IF \/ pc[th] \in {"body", "chain", "leave", "dec_ref"}
                     \/ pc[th] \in {"release", "prev"} /\ op[th] # "tryacquire"
                  THEN 1 ELSE 0)

RL == INSTANCE RefLock WITH depth <- owner_cnt, refs <- [th \in Threads |-> Answers(th)]

\* The list walk with its steps keeps the promise of the abstract lock: one thread
\* inside at a time, and destruction exactly when the last reference is given up,
\* by whichever of dec_ref and release comes last (lock.c, 281-336 and 551-562).
ImplementsRefLock == RL!Spec

\* Whoever is inside the group lock has every lock of the list, as often as it is
\* inside, although others chain and unchain locks between its steps.
HolderHasAll == \A th \in Threads : \A l \in Range(lock_list) :
                   Inside(th) > 0 => holder[l] = th /\ nest[l] >= Inside(th)

\* A thread that has left keeps no lock of the group: every path through chain,
\* unchain and a failed tryacquire gives back exactly what it took.
NothingKept == \A th \in Threads : \A l \in Locks :
                   (pc[th] = "idle" /\ depth[th] = 0 /\ holder[l] = th)
                      => l = direct[th] /\ nest[l] = 1

\* The handlers that are registered when the object goes are called once each, and
\* none before: then no thread is in one of its functions, inside it or answering
\* for it, although a release reads the list until its very last reference.
HandlersRunAtTheEnd ==
    /\ \A h \in Handlers : called[h] = IF gone /\ h \in destroy_list THEN 1 ELSE 0
    /\ gone => \A th \in Threads : pc[th] = "idle" /\ depth[th] = 0 /\ refs[th] = 0

\* What a thread waits for, if the mutex is another's.
Wants(th) == CASE pc[th] = "acquire" /\ op[th] # "tryacquire" -> lck[th]
               [] pc[th] = "chain" /\ n[th] > 0 -> arg[th]
               [] OTHER -> End

WaitsFor(th, x) == /\ Wants(th) # End
                   /\ ~Available(Wants(th), th)
                   /\ holder[Wants(th)] = x

\* No set of threads waits for itself, whatever they nest or chain meanwhile: the
\* uniform lock order lock.h promises.
NoDeadlock == \A S \in (SUBSET Threads) \ {{}} :
                  \E th \in S : \A x \in S : ~WaitsFor(th, x)

\* When the users have given everything back, the object does go, even if the last
\* reference is one that a release in progress still has.
LastOneOut == [](((\A th \in Threads : refs[th] = 0 /\ depth[th] = 0) /\ ref_cnt > 0) => <>gone)
=============================================================================
