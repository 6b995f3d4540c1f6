---------------------------- MODULE GrpLockProofs ----------------------------
(***************************************************************************)
(* The group lock of lock.c, for any threads, external locks, handlers and *)
(* nesting: the invariants, and what each step of a thread does to them.   *)
(*                                                                         *)
(* First the counter: ref_cnt is the number of references that the threads *)
(* answer for, counted as a finite set of tokens, one per reference; a     *)
(* thread on its way in, or backing out of a failed try, answers for one   *)
(* of its own.                                                             *)
(*                                                                         *)
(* Then the list: Held says how often each thread has each mutex, from     *)
(* where its call is, and Mutexes that the mutexes agree.  Everybody takes *)
(* the group's own lock first, so one thread at a time is past it, and the *)
(* list does not change while another thread walks it.                     *)
(*                                                                         *)
(* Last the steps put together, and the theorems.                          *)
(***************************************************************************)
EXTENDS GrpLock, TLAPS

\* The provers tried on a leaf that names none, in this order.
USE ZenonT(10), SMTT(30), Z3T(30)

\* The references the threads answer for, and a token for each of them.
Debt == [th \in Threads |-> Answers(th)]
Tokens(d) == {t \in Threads \X Nat : t[2] < d[t[1]]}

\* The types of what the argument is about.
CallTypes == /\ pc \in [Threads -> Pcs] /\ op \in [Threads -> Ops]
             /\ refs \in [Threads -> Nat] /\ depth \in [Threads -> Nat]
             /\ ref_cnt \in Int /\ gone \in BOOLEAN
             /\ called \in [Handlers -> Nat]

\* In the body of a call the operation is not a plain acquisition.
InCall(th) == pc[th] \in {"body", "chain", "leave"} => op[th] \notin {"acquire", "tryacquire"}

\* A thread that has not been counted yet for its call has another reference.
OnTheWay(th) == (\/ pc[th] \in {"acquire", "next"}
                 \/ pc[th] \in {"release", "prev"} /\ op[th] = "tryacquire")
                    => refs[th] + depth[th] > 0

\* The counter counts the tokens.
Counted == IsFiniteSet(Tokens(Debt)) /\ Cardinality(Tokens(Debt)) = ref_cnt

\* The inductive invariant.
RInv == /\ CallTypes
        /\ \A th \in Threads : InCall(th) /\ OnTheWay(th)
        /\ Counted
        /\ HandlersRunAtTheEnd

\* Every thread answers for a natural number of references to the group lock.
LEMMA DebtType == CallTypes => Debt \in [Threads -> Nat]
  BY SMTT(30), Z3T(30) DEF CallTypes, Debt, Answers

-----------------------------------------------------------------------------
\* What a step does to the references: nothing, one more, or one less.
Same == Debt' = Debt /\ ref_cnt' = ref_cnt
More(x) == Debt' = [Debt EXCEPT ![x] = Debt[x] + 1] /\ ref_cnt' = ref_cnt + 1
Less(x) == Debt[x] > 0 /\ Debt' = [Debt EXCEPT ![x] = Debt[x] - 1] /\ ref_cnt' = ref_cnt - 1

\* Nobody is in a call, inside, or has a reference; and the counter says so.
AllAway == \A th \in Threads : pc[th] = "idle" /\ depth[th] = 0 /\ refs[th] = 0
Unreferenced == ref_cnt = 0

\* The part of the invariant about the calls in progress.
CallsOK == CallTypes /\ \A th \in Threads : InCall(th) /\ OnTheWay(th)

\* The object is not destroyed in this step.
Silent == UNCHANGED <<called, gone>>

\* Entering grp_lock_acquire changes no reference: the caller keeps the one it has.
LEMMA BeginsAcquire ==
    ASSUME CallsOK, NEW th \in Threads, NEW o \in Ops \ {"none"}, NEW a, BeginAcquire(th, o, a)
    PROVE  CallsOK' /\ Same /\ Silent /\ ~gone
  <1> USE DEF BeginAcquire, MayCall, user, handlers
  <1>1. CallsOK' /\ Silent /\ ~gone
    BY SMTT(30), Z3T(30) DEF CallsOK, CallTypes, InCall, OnTheWay, Pcs, Silent
  <1>2. \A x \in Threads : Answers(x)' = Answers(x)
    BY DEF CallsOK, CallTypes, Answers
  <1> QED
    BY <1>1, <1>2 DEF Same, Debt

\* pj_grp_lock_add_ref adds one, to the thread that will answer for it.
LEMMA AddsRef ==
    ASSUME CallsOK, NEW th \in Threads, NEW x \in Threads, pj_grp_lock_add_ref(th, x)
    PROVE  CallsOK' /\ More(x) /\ Silent /\ ~gone
  <1> USE DEF pj_grp_lock_add_ref, MayCall, handlers, locals
  <1>1. CallsOK' /\ Silent /\ ~gone
    BY SMTT(30), Z3T(30) DEF CallsOK, CallTypes, InCall, OnTheWay, Silent
  <1>2. \A y \in Threads : Answers(y)' = IF y = x THEN Answers(y) + 1 ELSE Answers(y)
    BY SMTT(30), Z3T(30) DEF CallsOK, CallTypes, Answers
  <1> QED
    BY <1>1, <1>2 DEF More, Debt

\* Walking the list, the bodies of chain, unchain and the handlers' calls, and the
\* way back leave the references alone; a failed try never had one.
LEMMA Walks ==
    ASSUME CallsOK, NEW th \in Threads,
           \/ AcquireItem(th) \/ TryFails(th) \/ NextItem(th) \/ ChainAcquires(th)
           \/ ChainBody(th) \/ UnchainBody(th) \/ HandlerBody(th)
           \/ ReleaseItem(th) \/ PrevItem(th) \/ Released(th)
    PROVE  CallsOK' /\ Same /\ Silent
  <1>0. /\ UNCHANGED <<ref_cnt, refs, depth, called, gone>>
        /\ \E p \in Pcs : pc' = [pc EXCEPT ![th] = p]
        /\ op' = op \/ (op' = [op EXCEPT ![th] = "none"] /\ Released(th))
    BY DEF AcquireItem, TryFails, NextItem, ChainAcquires, ChainBody, UnchainBody, HandlerBody,
           ReleaseItem, PrevItem, Released, handlers, user, Pcs, CallsOK, CallTypes
  <1>1. \/ pc[th] \in {"acquire", "next"} /\ pc'[th] \in {"acquire", "next"} /\ op' = op
        \/ pc[th] = "acquire" /\ op[th] = "tryacquire" /\ pc'[th] = "release" /\ op' = op
        \/ pc[th] \in {"chain", "body"} /\ pc'[th] \in {"chain", "leave"} /\ op' = op
        \/ pc[th] \in {"release", "prev"} /\ pc'[th] \in {"release", "prev"} /\ op' = op
        \/ pc[th] = "release" /\ op[th] = "tryacquire" /\ pc'[th] = "idle"
        \/ pc[th] = "release" /\ op[th] # "tryacquire" /\ pc'[th] = "dec_ref" /\ op' = op
    BY DEF AcquireItem, TryFails, NextItem, ChainAcquires, ChainBody, UnchainBody, HandlerBody,
           ReleaseItem, PrevItem, Released, CallsOK, CallTypes
  <1>2. CallsOK'
    BY SMTT(30), Z3T(30), <1>0, <1>1 DEF CallsOK, CallTypes, InCall, OnTheWay, Ops
  <1>3. \A x \in Threads : Answers(x)' = Answers(x)
    BY ZenonT(120), SMTT(30), <1>0, <1>1 DEF CallsOK, CallTypes, Answers, Pcs
  <1> QED
    BY <1>0, <1>2, <1>3 DEF Same, Silent, Debt

\* At the end of the list grp_lock_acquire adds the reference of the acquisition.
LEMMA Enters ==
    ASSUME CallsOK, NEW th \in Threads, Entered(th)
    PROVE  CallsOK' /\ More(th) /\ Silent
  <1>1. CallsOK' /\ Silent
    BY SMTT(30), Z3T(30) DEF Entered, AddRef, handlers, CallsOK, CallTypes, InCall, OnTheWay, Silent, Pcs, Ops
  <1>2. \A x \in Threads : Answers(x)' = IF x = th THEN Answers(x) + 1 ELSE Answers(x)
    BY SMTT(30), Z3T(30) DEF Entered, CallsOK, CallTypes, Answers
  <1> QED
    BY <1>1, <1>2 DEF Entered, AddRef, More, Debt

\* grp_lock_release keeps its reference until it has walked the list.
LEMMA Leaves ==
    ASSUME CallsOK, NEW th \in Threads, grp_lock_release(th)
    PROVE  CallsOK' /\ Same /\ Silent
  <1>1. CallsOK' /\ Silent
    BY SMTT(30), Z3T(30) DEF grp_lock_release, handlers, CallsOK, CallTypes, InCall, OnTheWay, Silent, Pcs, Ops
  <1>2. \A x \in Threads : Answers(x)' = Answers(x)
    BY SMTT(30), Z3T(30) DEF grp_lock_release, CallsOK, CallTypes, InCall, Answers
  <1> QED
    BY <1>1, <1>2 DEF grp_lock_release, Same, Debt

\* pj_grp_lock_dec_ref gives back one reference the thread answers for.
LEMMA DropsRef ==
    ASSUME CallsOK, NEW th \in Threads, pj_grp_lock_dec_ref(th)
    PROVE  CallsOK' /\ Less(th)
  <1>1. /\ UNCHANGED depth
        /\ pc' = [pc EXCEPT ![th] = "idle"] /\ op' = [op EXCEPT ![th] = "none"]
        /\ ref_cnt' = ref_cnt - 1
        /\ \/ pc[th] = "idle" /\ refs[th] > 0 /\ refs' = [refs EXCEPT ![th] = refs[th] - 1]
           \/ pc[th] = "dec_ref" /\ refs' = refs
    BY DEF pj_grp_lock_dec_ref, MayCall
  <1>2. called' \in [Handlers -> Nat] /\ gone' \in BOOLEAN
    <2>1. CASE ref_cnt' = 0
      <3>1. /\ called' = [h \in Handlers |-> called[h] + (IF h \in destroy_list THEN 1 ELSE 0)]
            /\ gone' = TRUE
        BY <2>1 DEF pj_grp_lock_dec_ref, grp_lock_destroy
      <3> QED
        BY SMTT(30), Z3T(30), <3>1 DEF CallsOK, CallTypes
    <2>2. CASE ref_cnt' # 0
      BY <2>2 DEF pj_grp_lock_dec_ref, CallsOK, CallTypes
    <2> QED
      BY <2>1, <2>2
  <1>3. CallsOK'
    BY SMTT(30), Z3T(30), <1>1, <1>2 DEF CallsOK, CallTypes, InCall, OnTheWay, Pcs, Ops
  <1>4. \A x \in Threads : Answers(x)' = IF x = th THEN Answers(x) - 1 ELSE Answers(x)
    BY SMTT(30), Z3T(30), <1>1 DEF CallsOK, CallTypes, Answers
  <1>5. Answers(th) > 0
    BY <1>1 DEF CallsOK, CallTypes, Answers
  <1> QED
    BY <1>1, <1>3, <1>4, <1>5 DEF Less, Debt

\* Taking an external lock directly does not concern the group lock's counter.
LEMMA UsersAside ==
    ASSUME CallsOK, NEW th \in Threads, (\E l \in Ext : UserLock(th, l)) \/ UserUnlock(th)
    PROVE  CallsOK' /\ Same /\ Silent /\ UNCHANGED <<destroy_list, pc, depth, refs>>
  <1>1. UNCHANGED <<ref_cnt, refs, depth, called, gone, destroy_list, pc, op>>
    BY DEF UserLock, UserUnlock, handlers, locals
  <1> QED
    BY <1>1 DEF CallsOK, CallTypes, InCall, OnTheWay, Answers, Debt, Same, Silent

\* A step that does not destroy the object calls no handler.
LEMMA StillUsed ==
    ASSUME HandlersRunAtTheEnd, ~gone, Silent
    PROVE  HandlersRunAtTheEnd'
  BY DEF HandlersRunAtTheEnd, Silent

\* After grp_lock_destroy no call can be in progress: only an external lock taken
\* directly may still be given back.
LEMMA NoStepAfter ==
    ASSUME HandlersRunAtTheEnd, gone, NEW th \in Threads, Step(th)
    PROVE  UserUnlock(th)
  <1>1. pc[th] = "idle"
    BY DEF HandlersRunAtTheEnd
  <1> QED
    BY <1>1 DEF Step, AcquireItem, TryFails, NextItem, Entered, ChainAcquires, ChainBody,
       UnchainBody, HandlerBody, grp_lock_release, ReleaseItem, PrevItem, Released,
       pj_grp_lock_dec_ref, MayCall

-----------------------------------------------------------------------------
\* A list as lock.c keeps it: the group's own lock first, and no lock twice.
GoodList(q) == /\ q \in Seq(Locks) /\ Len(q) > 0 /\ q[1] = Own
               /\ \A i, j \in 1..Len(q) : q[i] = q[j] => i = j

\* How many items of the list a walk has taken: p says where the walk is, c its lck.
Place(q, c) == CHOOSE i \in DOMAIN q : q[i] = c

Walked(q, p, c) == CASE p = "acquire" -> IF c = End THEN Len(q) ELSE Place(q, c) - 1
                     [] p = "next" -> Place(q, c)
                     [] p = "release" -> IF c = End THEN 0 ELSE Place(q, c)
                     [] p = "prev" -> Place(q, c) - 1
                     [] OTHER -> 0

\* How often a thread has item l that is inside k times and has walked a items.
Amount(q, a, k, l) == IF l \in Range(q)
                      THEN k + (IF \E i \in 1..a : q[i] = l THEN 1 ELSE 0) ELSE 0

\* Outside, before the first item, a thread has nothing.
LEMMA AmountNone == \A q, l : Amount(q, 0, 0, l) = 0
  BY DEF Amount

\* A lock is not the end of the list.
LEMMA NotEnd == \A l \in Locks : l # End
  BY GroupAssumption DEF Locks

\* What a chained lock is taken for is what it was owed: its k moves into the list.
LEMMA OwedMoves ==
    ASSUME NEW k \in Nat, NEW e, NEW S, NEW l, e \notin S
    PROVE  (IF l \in S THEN k ELSE 0) + (IF l = e THEN k ELSE 0)
               = (IF l \in S \cup {e} THEN k ELSE 0) + 0
  OBVIOUS

\* An item is where it is: the list has it only once.
LEMMA PlaceOf ==
    ASSUME NEW q, GoodList(q)
    PROVE  /\ \A i \in 1..Len(q) : Place(q, q[i]) = i /\ q[i] \in Locks /\ q[i] # End
           /\ \A l \in Range(q) : l \in Locks /\ l # End /\ Place(q, l) \in 1..Len(q) /\ q[Place(q, l)] = l
           /\ Own \in Range(q) /\ Len(q) \in Nat
  <1>0. DOMAIN q = 1..Len(q) /\ Len(q) \in Nat
    BY SMTT(30), Z3T(30) DEF GoodList
  <1>1. \A i \in 1..Len(q) : Place(q, q[i]) = i
    BY <1>0 DEF GoodList, Place
  <1>2. \A i \in 1..Len(q) : q[i] \in Locks /\ q[i] # End
    BY SMTT(30), Z3T(30), <1>0, GroupAssumption DEF GoodList, Locks
  <1>3. \A l \in Range(q) : \E i \in 1..Len(q) : q[i] = l
    BY <1>0 DEF Range
  <1>4. Own \in Range(q)
    BY SMTT(30), Z3T(30), <1>0 DEF GoodList, Range
  <1> QED
    BY <1>0, <1>1, <1>2, <1>3, <1>4

\* The places of a walk, by its step.
LEMMA Places ==
    ASSUME NEW q, GoodList(q)
    PROVE  /\ \A c : Walked(q, "acquire", c) = IF c = End THEN Len(q) ELSE Place(q, c) - 1
           /\ \A c : Walked(q, "next", c) = Place(q, c)
           /\ \A c : Walked(q, "release", c) = IF c = End THEN 0 ELSE Place(q, c)
           /\ \A c : Walked(q, "prev", c) = Place(q, c) - 1
           /\ \A c, p : p \notin {"acquire", "next", "release", "prev"} => Walked(q, p, c) = 0
  BY DEF Walked

\* A thread that is not walking the list has no item of it.
LEMMA NotWalking ==
    ASSUME NEW q, NEW p, NEW c, p \notin {"acquire", "next", "release", "prev"}
    PROVE  Walked(q, p, c) = 0
  BY DEF Walked

\* lck->next: the walk goes from each item to the following one, from the last to the end.
LEMMA NextOfItem ==
    ASSUME GoodList(lock_list)
    PROVE  /\ NextOf(End) = Own
           /\ \A l \in Range(lock_list) :
                NextOf(l) = IF Place(lock_list, l) = Len(lock_list) THEN End
                            ELSE lock_list[Place(lock_list, l) + 1]
  <1>1. \A l \in Range(lock_list) : l # End
    BY PlaceOf
  <1>2. lock_list # <<>> /\ Head(lock_list) = Own
    BY SMTT(30), Z3T(30) DEF GoodList
  <1> QED
    BY <1>1, <1>2 DEF NextOf, Index, Place

\* lck->prev: the same walk backwards.
LEMMA PrevOfItem ==
    ASSUME GoodList(lock_list)
    PROVE  /\ PrevOf(End) = lock_list[Len(lock_list)]
           /\ \A l \in Range(lock_list) :
                PrevOf(l) = IF Place(lock_list, l) = 1 THEN End
                            ELSE lock_list[Place(lock_list, l) - 1]
  <1>1. \A l \in Range(lock_list) : l # End
    BY PlaceOf
  <1>2. lock_list # <<>>
    BY SMTT(30), Z3T(30) DEF GoodList
  <1> QED
    BY <1>1, <1>2 DEF PrevOf, Index, Place

\* One item more is one lock more.
LEMMA AmountStep ==
    ASSUME NEW q, GoodList(q), NEW a \in Nat, a < Len(q), NEW k \in Nat, NEW l
    PROVE  Amount(q, a + 1, k, l) = Amount(q, a, k, l) + (IF l = q[a + 1] THEN 1 ELSE 0)
  <1>0. DOMAIN q = 1..Len(q) /\ Len(q) \in Nat /\ q[a+1] \in Range(q)
    BY SMTT(30), Z3T(30) DEF GoodList, Range
  <1>1. (\E i \in 1..(a + 1) : q[i] = l) <=> ((\E i \in 1..a : q[i] = l) \/ l = q[a + 1])
    <2>1. 1..(a+1) = 1..a \cup {a+1}
      OBVIOUS
    <2> QED BY <2>1
  <1>2. ASSUME l = q[a + 1]  PROVE ~\E i \in 1..a : q[i] = l
    BY SMTT(30), Z3T(30), <1>0, <1>2 DEF GoodList
  <1> QED
    BY <1>0, <1>1, <1>2 DEF Amount

\* The same, seen from the item that is taken.
LEMMA AmountAt ==
    ASSUME NEW q, GoodList(q), NEW i \in 1..Len(q), NEW k \in Nat, NEW l
    PROVE  Amount(q, i, k, l) = Amount(q, i - 1, k, l) + (IF l = q[i] THEN 1 ELSE 0)
  <1>1. Len(q) \in Nat
    BY SMTT(30), Z3T(30) DEF GoodList
  <1>2. i - 1 \in Nat /\ i - 1 < Len(q) /\ (i - 1) + 1 = i
    BY <1>1
  <1>3. Amount(q, (i - 1) + 1, k, l) = Amount(q, i - 1, k, l) + (IF l = q[(i - 1) + 1] THEN 1 ELSE 0)
    BY SMTT(30), Z3T(30), <1>2, AmountStep
  <1> QED
    BY <1>2, <1>3

\* All the items are one time inside.
LEMMA AmountFull ==
    ASSUME NEW q, GoodList(q), NEW k \in Nat, NEW l
    PROVE  Amount(q, Len(q), k, l) = Amount(q, 0, k + 1, l)
  <1>0. DOMAIN q = 1..Len(q) /\ Len(q) \in Nat
    BY SMTT(30), Z3T(30) DEF GoodList
  <1>1. l \in Range(q) => \E i \in 1..Len(q) : q[i] = l
    BY <1>0 DEF Range
  <1>2. ~\E i \in 1..0 : q[i] = l
    OBVIOUS
  <1> QED
    BY <1>1, <1>2 DEF Amount

\* Whoever has an item of the list has the first one.
LEMMA AmountOwn ==
    ASSUME NEW q, GoodList(q), NEW a \in Nat, NEW k \in Nat
    PROVE  /\ Amount(q, a, k, Own) = k + (IF a > 0 THEN 1 ELSE 0)
           /\ \A l : Amount(q, a, k, l) \in Nat /\ (Amount(q, a, k, l) > 0 => a > 0 \/ k > 0)
  <1>0. Own \in Range(q)
    BY PlaceOf
  <1>1. (\E i \in 1..a : q[i] = Own) <=> a > 0
    BY SMTT(30), Z3T(30) DEF GoodList
  <1> QED
    BY <1>0, <1>1 DEF Amount

\* A thread that is not walking has each item as often as it is inside.
LEMMA AmountInside ==
    ASSUME NEW q, NEW k \in Nat, NEW l
    PROVE  Amount(q, 0, k, l) = IF l \in Range(q) THEN k ELSE 0
  BY DEF Amount

\* A part of a list.
LEMMA PartOf ==
    ASSUME NEW q \in Seq(Locks), NEW m \in Nat, NEW z \in Nat, 1 <= m, m <= z + 1, z <= Len(q)
    PROVE  /\ SubSeq(q, m, z) \in Seq(Locks) /\ Len(SubSeq(q, m, z)) = z - m + 1
           /\ \A i \in 1..(z - m + 1) : SubSeq(q, m, z)[i] = q[m + i - 1]
  <1>1. \A i \in m..z : q[i] \in Locks
    OBVIOUS
  <1>2. /\ SubSeq(q, m, z) \in Seq(Locks)
        /\ Len(SubSeq(q, m, z)) = IF m <= z THEN z - m + 1 ELSE 0
        /\ \A i \in 1..(z - m + 1) : SubSeq(q, m, z)[i] = q[m + i - 1]
    BY <1>1
  <1> DEFINE n1 == Len(SubSeq(q, m, z))
  <1>3. n1 = IF m <= z THEN z - m + 1 ELSE 0
    BY <1>2
  <1> HIDE DEF n1
  <1>4. n1 = z - m + 1
    <2>1. CASE m <= z
      BY <1>3, <2>1
    <2>2. CASE ~(m <= z)
      <3>1. n1 = 0 /\ m = z + 1
        BY <1>3, <2>2
      <3> QED
        BY <3>1
    <2> QED
      BY <2>1, <2>2
  <1> QED
    BY <1>2, <1>4 DEF n1

\* Two parts put together.
LEMMA JoinOf ==
    ASSUME NEW s \in Seq(Locks), NEW t \in Seq(Locks)
    PROVE  s \o t \in Seq(Locks) /\ Len(s \o t) = Len(s) + Len(t)
  OBVIOUS

\* The items of two parts put together.
LEMMA JoinAt ==
    ASSUME NEW s \in Seq(Locks), NEW t \in Seq(Locks), NEW i \in 1..(Len(s) + Len(t))
    PROVE  (s \o t)[i] = IF i <= Len(s) THEN s[i] ELSE t[i - Len(s)]
  OBVIOUS

\* Putting a lock between two items, and taking one out.
LEMMA InsertsItem ==
    ASSUME NEW q, GoodList(q), NEW e \in Locks, e \notin Range(q), NEW k \in 1..Len(q)
    PROVE  GoodList((SubSeq(q, 1, k) \o <<e>> \o SubSeq(q, k + 1, Len(q)))) /\ Range((SubSeq(q, 1, k) \o <<e>> \o SubSeq(q, k + 1, Len(q)))) = Range(q) \cup {e}
  <1> DEFINE r == (SubSeq(q, 1, k) \o <<e>> \o SubSeq(q, k + 1, Len(q)))
  <1>0. q \in Seq(Locks) /\ Len(q) \in Nat /\ k \in Nat /\ DOMAIN q = 1..Len(q)
    BY SMTT(30), Z3T(30) DEF GoodList
  <1>1. /\ r \in Seq(Locks) /\ Len(r) = Len(q) + 1
        /\ \A i \in 1..(Len(q) + 1) : r[i] = IF i <= k THEN q[i] ELSE IF i = k + 1 THEN e ELSE q[i - 1]
    <2> DEFINE a == SubSeq(q, 1, k)
               b == SubSeq(q, k + 1, Len(q))
    <2>1. /\ a \in Seq(Locks) /\ Len(a) = k /\ (\A i \in 1..k : a[i] = q[i])
          /\ b \in Seq(Locks) /\ Len(b) = Len(q) - k /\ (\A i \in 1..(Len(q) - k) : b[i] = q[k + i])
      <3> DEFINE N == Len(q)
      <3>1. k <= N /\ N \in Nat /\ 1 <= k
        BY <1>0
      <3>2. /\ a \in Seq(Locks) /\ Len(a) = k - 1 + 1
            /\ \A i \in 1..(k - 1 + 1) : a[i] = q[1 + i - 1]
        BY SMTT(30), Z3T(30), <1>0, <3>1, PartOf
      <3>3. /\ b \in Seq(Locks) /\ Len(b) = N - (k + 1) + 1
            /\ \A i \in 1..(N - (k + 1) + 1) : b[i] = q[k + 1 + i - 1]
        <4>1. k + 1 \in Nat /\ 1 <= k + 1 /\ k + 1 <= N + 1 /\ N <= N
          BY <1>0, <3>1
        <4> QED
          BY <1>0, <3>1, <4>1, PartOf
      <3> HIDE DEF a, b, N
      <3>4. k - 1 + 1 = k /\ N - (k + 1) + 1 = N - k
        BY <1>0, <3>1
      <3>5. (\A i \in 1..k : a[i] = q[i]) /\ (\A i \in 1..(N - k) : b[i] = q[k + i])
        <4>1. \A i \in Int : 1 + i - 1 = i /\ k + 1 + i - 1 = k + i
          BY <1>0
        <4>2. (\A i \in 1..k : i \in Int) /\ (\A i \in 1..(N - k) : i \in Int)
          OBVIOUS
        <4> QED
          BY <3>2, <3>3, <3>4, <4>1, <4>2
      <3> QED
        BY <3>2, <3>3, <3>4, <3>5 DEF N
    <2>2. r = a \o <<e>> \o b
      OBVIOUS
    <2> HIDE DEF a, b, r
    <2>3. <<e>> \in Seq(Locks) /\ Len(<<e>>) = 1 /\ <<e>>[1] = e
      OBVIOUS
    <2> DEFINE c == a \o <<e>>
    <2>4. /\ c \in Seq(Locks) /\ Len(c) = k + 1
          /\ \A i \in 1..(k + 1) : c[i] = IF i <= k THEN q[i] ELSE e
      <3>1. /\ c \in Seq(Locks) /\ Len(c) = Len(a) + 1
            /\ \A i \in 1..(Len(a) + Len(<<e>>)) : c[i] = IF i <= Len(a) THEN a[i] ELSE <<e>>[i - Len(a)]
        BY SMTT(30), Z3T(30), <2>1, <2>3
      <3> QED
        BY SMTT(30), Z3T(30), <1>0, <2>1, <2>3, <3>1
    <2> HIDE DEF c
    <2>5. r = c \o b
      BY <2>2 DEF c
    <2>6. r \in Seq(Locks) /\ Len(r) = Len(q) + 1
      <3>1. r \in Seq(Locks) /\ Len(r) = Len(c) + Len(b)
        BY <2>1, <2>4, <2>5, JoinOf
      <3> QED
        BY SMTT(30), Z3T(30), <1>0, <2>1, <2>4, <3>1
    <2>7. \A i \in 1..(Len(q) + 1) : r[i] = IF i <= k + 1 THEN c[i] ELSE b[i - (k + 1)]
      <3>1. \A i \in 1..(Len(c) + Len(b)) : r[i] = IF i <= Len(c) THEN c[i] ELSE b[i - Len(c)]
        BY <2>1, <2>4, <2>5, JoinAt
      <3>2. Len(c) + Len(b) = Len(q) + 1
        BY SMTT(30), Z3T(30), <1>0, <2>1, <2>4
      <3> QED
        BY <2>4, <3>1, <3>2
    <2>8. \A i \in 1..(Len(q) + 1) : i > k + 1 => b[i - (k + 1)] = q[i - 1]
      <3> SUFFICES ASSUME NEW i \in 1..(Len(q) + 1), i > k + 1  PROVE b[i - (k + 1)] = q[i - 1]
        OBVIOUS
      <3>1. i - (k + 1) \in 1..(Len(q) - k) /\ k + (i - (k + 1)) = i - 1
        BY <1>0
      <3> QED
        BY <2>1, <3>1
    <2>9. ASSUME NEW i \in 1..(Len(q) + 1)
          PROVE  r[i] = IF i <= k THEN q[i] ELSE IF i = k + 1 THEN e ELSE q[i - 1]
      <3>1. CASE i <= k
        <4>1. i <= k + 1 /\ i \in 1..(k + 1)
          BY <1>0, <3>1
        <4> QED
          BY <2>4, <2>7, <3>1, <4>1
      <3>2. CASE i = k + 1
        <4>1. i <= k + 1 /\ i \in 1..(k + 1) /\ ~(i <= k)
          BY <1>0, <3>2
        <4> QED
          BY <2>4, <2>7, <3>2, <4>1
      <3>3. CASE i > k + 1
        <4>1. ~(i <= k + 1) /\ ~(i <= k) /\ i # k + 1
          BY <1>0, <3>3
        <4> QED
          BY <2>7, <2>8, <3>3, <4>1
      <3> QED
        BY <1>0, <3>1, <3>2, <3>3
    <2> QED
      BY <2>6, <2>9
  <1> HIDE DEF r
  <1>2. DOMAIN r = 1..Len(r)
    BY <1>1
  <1>3. Range(r) = Range(q) \cup {e}
    <2>1. \A i \in 1..Len(q) : IF i <= k THEN r[i] = q[i] ELSE r[i + 1] = q[i] /\ i + 1 \in 1..Len(r)
      BY <1>0, <1>1
    <2>2. r[k + 1] = e /\ k + 1 \in 1..Len(r)
      BY <1>0, <1>1
    <2>3. \A i \in 1..Len(q) : i <= k => i \in 1..Len(r)
      BY <1>0, <1>1
    <2>4. \A i \in 1..Len(r) : r[i] = e \/ r[i] \in Range(q)
      <3> SUFFICES ASSUME NEW i \in 1..Len(r)  PROVE r[i] = e \/ r[i] \in Range(q)
        OBVIOUS
      <3>1. \/ r[i] = q[i] /\ i \in 1..Len(q)
            \/ r[i] = e
            \/ r[i] = q[i - 1] /\ i - 1 \in 1..Len(q)
        BY <1>0, <1>1
      <3>2. \A j \in 1..Len(q) : q[j] \in Range(q)
        BY <1>0 DEF Range
      <3> QED
        BY <3>1, <3>2
    <2>5. ASSUME NEW i \in 1..Len(q)  PROVE q[i] \in Range(r)
      BY <1>2, <2>1, <2>3 DEF Range
    <2>6. e \in Range(r)
      BY <1>2, <2>2 DEF Range
    <2> QED
      BY <1>0, <1>2, <2>4, <2>5, <2>6 DEF Range
  <1>4. GoodList(r)
    <2>1. r[1] = Own /\ Len(r) > 0
      BY SMTT(30), Z3T(30), <1>0, <1>1 DEF GoodList
    <2>2. \A i \in 1..Len(q) : q[i] # e
      BY <1>0 DEF Range
    <2>3. \A i, j \in 1..Len(r) : r[i] = r[j] => i = j
      <3> SUFFICES ASSUME NEW i \in 1..Len(r), NEW j \in 1..Len(r), r[i] = r[j], i < j  PROVE FALSE
        BY <1>0, <1>1
      <3>1. \A x, y \in 1..Len(q) : q[x] = q[y] => x = y
        BY DEF GoodList
      <3>2. CASE j <= k
        <4>1. r[i] = q[i] /\ r[j] = q[j] /\ i \in 1..Len(q) /\ j \in 1..Len(q) /\ i # j
          BY <1>0, <1>1, <3>2
        <4> QED
          BY <3>1, <4>1
      <3>3. CASE j = k + 1
        <4>1. r[i] = q[i] /\ r[j] = e /\ i \in 1..Len(q)
          BY <1>0, <1>1, <3>3
        <4> QED
          BY <2>2, <4>1
      <3>4. CASE j > k + 1
        <4>1. r[j] = q[j - 1] /\ j - 1 \in 1..Len(q) /\ j - 1 > k
          BY <1>0, <1>1, <3>4
        <4>2. \/ r[i] = q[i] /\ i \in 1..Len(q) /\ i <= k
              \/ r[i] = e
              \/ r[i] = q[i - 1] /\ i - 1 \in 1..Len(q) /\ i - 1 # j - 1
          BY SMTT(30), Z3T(30), <1>0, <1>1
        <4> QED
          BY SMTT(30), Z3T(30), <2>2, <3>1, <4>1, <4>2
      <3> QED
        BY <1>0, <1>1, <3>2, <3>3, <3>4
    <2> QED
      BY <1>1, <2>1, <2>3 DEF GoodList
  <1> QED
    BY <1>3, <1>4 DEF r

\* pj_list_erase: every item but the first may go.
LEMMA ErasesItem ==
    ASSUME NEW q, GoodList(q), NEW k \in 2..Len(q)
    PROVE  GoodList((SubSeq(q, 1, k - 1) \o SubSeq(q, k + 1, Len(q)))) /\ Range((SubSeq(q, 1, k - 1) \o SubSeq(q, k + 1, Len(q)))) = Range(q) \ {q[k]}
  <1> DEFINE r == (SubSeq(q, 1, k - 1) \o SubSeq(q, k + 1, Len(q)))
  <1>0. q \in Seq(Locks) /\ Len(q) \in Nat /\ k \in Nat /\ DOMAIN q = 1..Len(q)
    BY SMTT(30), Z3T(30) DEF GoodList
  <1>1. /\ r \in Seq(Locks) /\ Len(r) = Len(q) - 1
        /\ \A i \in 1..(Len(q) - 1) : r[i] = IF i < k THEN q[i] ELSE q[i + 1]
    <2> DEFINE a == SubSeq(q, 1, k - 1)
               b == SubSeq(q, k + 1, Len(q))
    <2>1. /\ a \in Seq(Locks) /\ Len(a) = k - 1 /\ (\A i \in 1..(k - 1) : a[i] = q[i])
          /\ b \in Seq(Locks) /\ Len(b) = Len(q) - k /\ (\A i \in 1..(Len(q) - k) : b[i] = q[k + i])
      <3> DEFINE N == Len(q)
      <3>1. k <= N /\ N \in Nat /\ 2 <= k
        BY <1>0
      <3>2. /\ a \in Seq(Locks) /\ Len(a) = k - 1 - 1 + 1
            /\ \A i \in 1..(k - 1 - 1 + 1) : a[i] = q[1 + i - 1]
        <4>1. k - 1 \in Nat /\ 1 <= k - 1 + 1 /\ k - 1 <= N
          BY <1>0, <3>1
        <4> QED
          BY SMTT(30), Z3T(30), <1>0, <3>1, <4>1, PartOf
      <3>3. /\ b \in Seq(Locks) /\ Len(b) = N - (k + 1) + 1
            /\ \A i \in 1..(N - (k + 1) + 1) : b[i] = q[k + 1 + i - 1]
        <4>1. k + 1 \in Nat /\ 1 <= k + 1 /\ k + 1 <= N + 1 /\ N <= N
          BY <1>0, <3>1
        <4> QED
          BY <1>0, <3>1, <4>1, PartOf
      <3> HIDE DEF a, b, N
      <3>4. k - 1 - 1 + 1 = k - 1 /\ N - (k + 1) + 1 = N - k
        BY <1>0, <3>1
      <3>5. (\A i \in 1..(k - 1) : a[i] = q[i]) /\ (\A i \in 1..(N - k) : b[i] = q[k + i])
        <4>1. \A i \in Int : 1 + i - 1 = i /\ k + 1 + i - 1 = k + i
          BY <1>0
        <4>2. (\A i \in 1..(k - 1) : i \in Int) /\ (\A i \in 1..(N - k) : i \in Int)
          OBVIOUS
        <4> QED
          BY <3>2, <3>3, <3>4, <4>1, <4>2
      <3> QED
        BY <3>2, <3>3, <3>4, <3>5 DEF N
    <2>2. r = a \o b
      OBVIOUS
    <2> HIDE DEF a, b, r
    <2>3. r \in Seq(Locks) /\ Len(r) = Len(q) - 1
      <3>1. r \in Seq(Locks) /\ Len(r) = Len(a) + Len(b)
        BY <2>1, <2>2, JoinOf
      <3>2. k - 1 + (Len(q) - k) = Len(q) - 1
        BY <1>0
      <3> QED
        BY <2>1, <3>1, <3>2
    <2>4. \A i \in 1..(Len(q) - 1) : r[i] = IF i <= k - 1 THEN a[i] ELSE b[i - (k - 1)]
      <3>1. \A i \in 1..(Len(a) + Len(b)) : r[i] = IF i <= Len(a) THEN a[i] ELSE b[i - Len(a)]
        BY <2>1, <2>2, JoinAt
      <3> QED
        BY SMTT(30), Z3T(30), <1>0, <2>1, <3>1
    <2>5. \A i \in 1..(Len(q) - 1) : i >= k => b[i - (k - 1)] = q[i + 1]
      <3> SUFFICES ASSUME NEW i \in 1..(Len(q) - 1), i >= k  PROVE b[i - (k - 1)] = q[i + 1]
        OBVIOUS
      <3>1. i - (k - 1) \in 1..(Len(q) - k) /\ k + (i - (k - 1)) = i + 1
        BY <1>0
      <3> QED
        BY <2>1, <3>1
    <2>6. \A i \in 1..(Len(q) - 1) : i < k => i \in 1..(k - 1) /\ i <= k - 1
      BY <1>0
    <2>7. \A i \in 1..(Len(q) - 1) : ~(i < k) => i >= k /\ ~(i <= k - 1)
      BY <1>0
    <2> QED
      BY <2>1, <2>3, <2>4, <2>5, <2>6, <2>7
  <1> HIDE DEF r
  <1>2. DOMAIN r = 1..Len(r)
    BY <1>1
  <1>3. Range(r) = Range(q) \ {q[k]}
    <2>1. \A i \in 1..Len(q) : i < k => r[i] = q[i] /\ i \in 1..Len(r)
      BY <1>0, <1>1
    <2>2. \A i \in 1..Len(q) : i > k => r[i - 1] = q[i] /\ i - 1 \in 1..Len(r)
      <3> SUFFICES ASSUME NEW i \in 1..Len(q), i > k  PROVE r[i - 1] = q[i] /\ i - 1 \in 1..Len(r)
        OBVIOUS
      <3>1. i - 1 \in 1..(Len(q) - 1) /\ ~(i - 1 < k) /\ (i - 1) + 1 = i
        BY <1>0
      <3> QED
        BY <1>1, <3>1
    <2>3. \A i \in 1..Len(q) : q[i] # q[k] => q[i] \in Range(r)
      <3> SUFFICES ASSUME NEW i \in 1..Len(q), q[i] # q[k]  PROVE q[i] \in Range(r)
        OBVIOUS
      <3>1. i < k \/ i > k
        BY <1>0
      <3> QED
        BY <1>2, <2>1, <2>2, <3>1 DEF Range
    <2>4. \A i \in 1..Len(r) : r[i] \in Range(q) /\ r[i] # q[k]
      <3> SUFFICES ASSUME NEW i \in 1..Len(r)  PROVE r[i] \in Range(q) /\ r[i] # q[k]
        OBVIOUS
      <3>1. \E j \in 1..Len(q) : r[i] = q[j] /\ j # k
        BY SMTT(30), Z3T(30), <1>0, <1>1
      <3> QED
        BY SMTT(30), Z3T(30), <1>0, <3>1 DEF Range, GoodList
    <2> QED
      BY <1>0, <1>2, <2>3, <2>4 DEF Range
  <1>4. GoodList(r)
    <2>1. r[1] = Own /\ Len(r) > 0
      BY SMTT(30), Z3T(30), <1>0, <1>1 DEF GoodList
    <2>3. ASSUME NEW i \in 1..Len(r), NEW j \in 1..Len(r), r[i] = r[j]  PROVE i = j
      <3> DEFINE s(x) == IF x < k THEN x ELSE x + 1
      <3>1. s(i) \in 1..Len(q) /\ s(j) \in 1..Len(q)
        BY <1>0, <1>1
      <3>2. r[i] = q[s(i)] /\ r[j] = q[s(j)]
        BY <1>1
      <3>3. s(i) = s(j)
        <4> HIDE DEF s
        <4> QED
          BY <3>1, <3>2, <2>3 DEF GoodList
      <3> QED
        BY <1>0, <3>3
    <2> QED
      BY <1>1, <2>1, <2>3 DEF GoodList
  <1> QED
    BY <1>3, <1>4 DEF r

\* pj_grp_lock_unchain_lock takes out the lock it is asked to.
LEMMA UnchainsThat ==
    ASSUME GoodList(lock_list), NEW e \in Ext, e \in Range(lock_list)
    PROVE  GoodList(Erase(e)) /\ Range(Erase(e)) = Range(lock_list) \ {e}
  <1>1. /\ Place(lock_list, e) \in 1..Len(lock_list) /\ lock_list[Place(lock_list, e)] = e
    BY PlaceOf
  <1>2. Place(lock_list, e) # 1
    BY <1>1, GroupAssumption DEF GoodList
  <1>3. Place(lock_list, e) \in 2..Len(lock_list)
    BY SMTT(30), Z3T(30), <1>1, <1>2 DEF GoodList
  <1> QED
    BY <1>1, <1>3, ErasesItem DEF Erase, Index, Place

-----------------------------------------------------------------------------
\* The types of the list's side of the state.
ListTypes == /\ holder \in [Locks -> Threads \cup {NoThread}] /\ nest \in [Locks -> Nat]
             /\ owner \in Threads \cup {NoThread} /\ owner_cnt \in Nat
             /\ lck \in [Threads -> Locks \cup {End}]
             /\ arg \in [Threads -> Ext \cup Handlers \cup {End}]
             /\ n \in [Threads -> Nat] /\ direct \in [Threads -> Ext \cup {End}]
             /\ conf \in Configs

\* How many items a thread has walked, and how often it has the lock l: through the
\* list, through the loop of chain, and of its own.
At(th) == Walked(lock_list, pc[th], lck[th])

Extra(th, l) == (IF pc[th] = "chain" /\ arg[th] = l THEN owner_cnt - n[th] ELSE 0)
                + (IF direct[th] = l THEN 1 ELSE 0)
Held(th, l) == Amount(lock_list, At(th), Inside(th), l) + Extra(th, l)

\* What a thread has of a lock besides is a number.
LEMMA ExtraType ==
    ASSUME NEW th, NEW l
    PROVE  /\ owner_cnt - n[th] \in Int => Extra(th, l) \in Int
           /\ pc[th] # "chain" => Extra(th, l) \in Nat
  BY DEF Extra

\* A walk takes its next item: the thread has it once more.
LEMMA WalkedIn ==
    ASSUME NEW th, NEW l, GoodList(lock_list), NEW i \in 1..Len(lock_list), lock_list' = lock_list,
           At(th) = i - 1, At(th)' = i, Inside(th)' = Inside(th), Inside(th) \in Nat,
           Extra(th, l)' = Extra(th, l), Extra(th, l) \in Int
    PROVE  Held(th, l)' = Held(th, l) + (IF l = lock_list[i] THEN 1 ELSE 0)
  <1> DEFINE k == Inside(th)
             x == Extra(th, l)
             a1 == Amount(lock_list, i, k, l)
             a0 == Amount(lock_list, i - 1, k, l)
  <1>1. a1 = a0 + (IF l = lock_list[i] THEN 1 ELSE 0)
    BY SMTT(30), Z3T(30), AmountAt
  <1>2. Held(th, l)' = a1 + x /\ Held(th, l) = a0 + x
    BY DEF Held
  <1>3. a0 \in Nat /\ x \in Int
    BY DEF Amount
  <1> HIDE DEF k, x, a1, a0
  <1> QED
    BY <1>1, <1>2, <1>3

\* A walk gives an item back: the thread has it once less, and had it.
LEMMA WalkedOut ==
    ASSUME NEW th, NEW l, GoodList(lock_list), NEW i \in 1..Len(lock_list), lock_list' = lock_list,
           At(th) = i, At(th)' = i - 1, Inside(th)' = Inside(th), Inside(th) \in Nat,
           Extra(th, l)' = Extra(th, l), Extra(th, l) \in Nat
    PROVE  /\ Held(th, l)' = Held(th, l) - (IF l = lock_list[i] THEN 1 ELSE 0)
           /\ l = lock_list[i] => Held(th, l) >= 1
  <1> DEFINE k == Inside(th)
             x == Extra(th, l)
             a1 == Amount(lock_list, i, k, l)
             a0 == Amount(lock_list, i - 1, k, l)
  <1>1. a1 = a0 + (IF l = lock_list[i] THEN 1 ELSE 0)
    BY SMTT(30), Z3T(30), AmountAt
  <1>2. Held(th, l)' = a0 + x /\ Held(th, l) = a1 + x
    BY DEF Held
  <1>3. a0 \in Nat /\ x \in Nat
    BY DEF Amount
  <1> HIDE DEF k, x, a1, a0
  <1> QED
    BY <1>1, <1>2, <1>3

\* Where a call is, and what it may rely on there.
Chaining(th) == op[th] \in {"chain", "unchain"}

Phase(th) ==
    /\ pc[th] \in {"acquire", "release"} => lck[th] \in Range(lock_list) \cup {End}
    /\ pc[th] \in {"next", "prev"} => lck[th] \in Range(lock_list)
    /\ pc[th] = "idle" => op[th] = "none"
    /\ direct[th] # End => pc[th] = "idle" /\ depth[th] = 0
    /\ Chaining(th) => arg[th] \in Ext
    /\ pc[th] = "chain" => op[th] = "chain" /\ n[th] \in 0..owner_cnt
    /\ (op[th] = "chain" /\ pc[th] \in {"acquire", "next", "chain"})
          => arg[th] \notin Range(lock_list)

\* Two calls that change the list are about different locks.
Apart == \A x, y \in Threads : x # y /\ Chaining(x) /\ Chaining(y) => arg[x] # arg[y]

\* The owner is the thread inside, and owner_cnt says how often.
Owned == /\ owner_cnt = 0 <=> owner = NoThread
         /\ \A th \in Threads : Inside(th) = IF owner = th THEN owner_cnt ELSE 0

\* A mutex is held exactly as often as the threads have it.
Mutexes == \A l \in Locks :
              /\ nest[l] = 0 <=> holder[l] = NoThread
              /\ \A th \in Threads : Held(th, l) = IF holder[l] = th THEN nest[l] ELSE 0

\* The inductive invariant of the list.
Calls == CallTypes /\ \A th \in Threads : InCall(th)

GInv == /\ Calls /\ ListTypes /\ GoodList(lock_list)
        /\ \A th \in Threads : Phase(th)
        /\ Apart /\ Owned /\ Mutexes

\* In the body of a call the thread is inside, and stays so while its depth does.
LEMMA InBody ==
    ASSUME NEW th \in Threads, depth[th] \in Nat, depth'[th] = depth[th],
           pc[th] \in {"body", "chain", "leave"}, pc'[th] \in {"body", "chain", "leave"}
    PROVE  Inside(th)' = Inside(th) /\ Inside(th) \in Nat /\ Inside(th) > 0
  BY DEF Inside

\* A walk has taken some of the items.
LEMMA AtType ==
    ASSUME GInv, NEW th \in Threads
    PROVE  At(th) \in 0..Len(lock_list) /\ Inside(th) \in Nat /\ Len(lock_list) \in Nat
  <1>1. Phase(th) /\ GoodList(lock_list) /\ pc[th] \in Pcs /\ depth[th] \in Nat
    BY DEF GInv, Calls, CallTypes
  <1>2. Len(lock_list) \in Nat /\ Inside(th) \in Nat
    BY SMTT(30), Z3T(30), <1>1 DEF GoodList, Inside
  <1>3. \A l \in Range(lock_list) : Place(lock_list, l) \in 1..Len(lock_list)
    BY <1>1, PlaceOf
  <1> DEFINE N == Len(lock_list)
             p == pc[th]
             c == lck[th]
  <1>4. /\ p \in {"acquire", "release"} => c = End \/ Place(lock_list, c) \in 1..N
        /\ p \in {"next", "prev"} => Place(lock_list, c) \in 1..N
    BY <1>1, <1>3 DEF Phase
  <1> HIDE DEF N, p, c
  <1>5. Walked(lock_list, p, c) \in 0..N
    BY SMTT(30), Z3T(30), <1>1, <1>2, <1>4, Places DEF N
  <1> QED
    BY <1>2, <1>5 DEF At, N, p, c

\* Whoever has any item, or is inside, has the group's own lock; so it is alone there.
LEMMA HasOwn ==
    ASSUME GInv, NEW th \in Threads, Inside(th) > 0 \/ At(th) > 0
    PROVE  /\ holder[Own] = th
           /\ \A x \in Threads : x # th => Inside(x) = 0 /\ At(x) = 0 /\ pc[x] # "chain"
  <1>0. GoodList(lock_list) /\ Own \in Locks
    BY DEF GInv, Locks
  <1>1. \A x \in Threads : Extra(x, Own) = 0
    <2> SUFFICES ASSUME NEW x \in Threads  PROVE Extra(x, Own) = 0
      OBVIOUS
    <2>1. direct[x] # Own
      BY GroupAssumption DEF GInv, ListTypes
    <2>2. pc[x] = "chain" => arg[x] # Own
      BY GroupAssumption DEF GInv, Phase, Chaining
    <2> QED
      BY <2>1, <2>2 DEF Extra
  <1>2. \A x \in Threads : Held(x, Own) = Inside(x) + (IF At(x) > 0 THEN 1 ELSE 0)
    <2> SUFFICES ASSUME NEW x \in Threads
                 PROVE  Held(x, Own) = Inside(x) + (IF At(x) > 0 THEN 1 ELSE 0)
      OBVIOUS
    <2>1. At(x) \in Nat /\ Inside(x) \in Nat
      BY AtType
    <2>2. Amount(lock_list, At(x), Inside(x), Own) = Inside(x) + (IF At(x) > 0 THEN 1 ELSE 0)
      BY <1>0, <2>1, AmountOwn
    <2> QED
      BY <1>1, <2>1, <2>2 DEF Held
  <1>3. \A x \in Threads : Inside(x) \in Nat /\ At(x) \in Nat
    BY AtType
  <1>4. Held(th, Own) > 0
    BY <1>2, <1>3
  <1>5. holder[Own] = th
    BY SMTT(30), Z3T(30), <1>0, <1>4 DEF GInv, Mutexes
  <1>6. \A x \in Threads : x # th => Held(x, Own) = 0
    BY <1>0, <1>5 DEF GInv, Mutexes
  <1>7. \A x \in Threads : pc[x] = "chain" => Inside(x) > 0
    BY DEF Inside, GInv, Calls, CallTypes
  <1> QED
    BY <1>2, <1>3, <1>5, <1>6, <1>7

-----------------------------------------------------------------------------
\* A thread that does not move, and a step that only one thread makes.
Still(x) == /\ pc'[x] = pc[x] /\ op'[x] = op[x] /\ lck'[x] = lck[x] /\ arg'[x] = arg[x]
            /\ n'[x] = n[x] /\ depth'[x] = depth[x] /\ direct'[x] = direct[x]
Others(th) == \A x \in Threads : x # th => Still(x)
HeldSame(x) == \A l \in Locks : Held(x, l)' = Held(x, l)

\* A thread that does not move has the same locks while the list is the same.
LEMMA Bystander ==
    ASSUME NEW x \in Threads, Phase(x), Still(x), lock_list' = lock_list,
           pc[x] = "chain" => owner_cnt' = owner_cnt
    PROVE  Phase(x)' /\ Inside(x)' = Inside(x) /\ HeldSame(x)
  <1>1. Inside(x)' = Inside(x)
    BY DEF Still, Inside
  <1>2. At(x)' = At(x)
    BY DEF Still, At
  <1>3. \A l \in Locks : Extra(x, l)' = Extra(x, l)
    BY DEF Still, Extra
  <1>4. HeldSame(x)
    BY <1>1, <1>2, <1>3 DEF HeldSame, Held
  <1>5. Phase(x)'
    BY DEF Still, Phase, Chaining
  <1> QED
    BY <1>1, <1>4, <1>5

\* A step along the list concerns nobody else.
LEMMA Moves ==
    ASSUME GInv, NEW th \in Threads, Others(th), lock_list' = lock_list, UNCHANGED ownership,
           Phase(th)', Inside(th)' = Inside(th),
           Chaining(th)' => \A x \in Threads : x # th /\ Chaining(x) => arg[x] # arg'[th]
    PROVE  /\ GoodList(lock_list)' /\ (\A x \in Threads : Phase(x)') /\ Apart' /\ Owned'
           /\ \A x \in Threads : x # th => HeldSame(x)
  <1>0. owner' = owner /\ owner_cnt' = owner_cnt
    BY DEF ownership
  <1>1. \A x \in Threads : x # th => Phase(x)' /\ Inside(x)' = Inside(x) /\ HeldSame(x)
    BY <1>0, Bystander DEF GInv, Others
  <1>2. Owned'
    BY <1>0, <1>1 DEF GInv, Owned
  <1>3. Apart'
    BY SMTT(30), Z3T(30) DEF GInv, Apart, Chaining, Others, Still
  <1> QED
    BY <1>1, <1>2, <1>3 DEF GInv

\* The mutexes stay as they are when nobody's locks change.
LEMMA MutexSame ==
    ASSUME Mutexes, UNCHANGED mutexes, \A x \in Threads : HeldSame(x)
    PROVE  Mutexes'
  BY SMTT(30), Z3T(30) DEF Mutexes, mutexes, HeldSame

\* pj_lock_acquire of a recursive mutex: once more for the thread that has it.
LEMMA MutexTaken ==
    ASSUME ListTypes, Mutexes, NEW th \in Threads, NEW k \in Locks, LockMutex(k, th),
           \A x \in Threads : x # th => HeldSame(x),
           \A l \in Locks : Held(th, l)' = Held(th, l) + (IF l = k THEN 1 ELSE 0)
    PROVE  Mutexes' /\ holder' \in [Locks -> Threads \cup {NoThread}] /\ nest' \in [Locks -> Nat]
  <1>0. /\ holder \in [Locks -> Threads \cup {NoThread}] /\ nest \in [Locks -> Nat]
        /\ holder[k] \in {NoThread, th}
        /\ holder' = [holder EXCEPT ![k] = th] /\ nest' = [nest EXCEPT ![k] = nest[k] + 1]
    BY DEF ListTypes, LockMutex, Available
  <1>1. holder' \in [Locks -> Threads \cup {NoThread}] /\ nest' \in [Locks -> Nat]
    BY SMTT(30), Z3T(30), <1>0
  <1>2. ASSUME NEW l \in Locks
        PROVE  /\ nest'[l] = 0 <=> holder'[l] = NoThread
               /\ \A x \in Threads : Held(x, l)' = IF holder'[l] = x THEN nest'[l] ELSE 0
    <2>1. /\ nest[l] = 0 <=> holder[l] = NoThread
          /\ \A x \in Threads : Held(x, l) = IF holder[l] = x THEN nest[l] ELSE 0
      BY DEF Mutexes
    <2>2. CASE l # k
      <3>1. nest'[l] = nest[l] /\ holder'[l] = holder[l]
        BY <1>0, <2>2
      <3>2. \A x \in Threads : Held(x, l)' = Held(x, l)
        <4>1. Held(th, l)' = Held(th, l) + 0
          BY <2>2
        <4>2. Held(th, l) \in Nat
          BY SMTT(30), Z3T(30), <1>0, <2>1
        <4>3. \A x \in Threads : x # th => Held(x, l)' = Held(x, l)
          BY DEF HeldSame
        <4> QED
          BY <4>1, <4>2, <4>3
      <3> QED
        BY <2>1, <3>1, <3>2
    <2>3. CASE l = k
      <3>1. nest'[l] = nest[l] + 1 /\ holder'[l] = th /\ nest[l] \in Nat
        BY <1>0, <2>3
      <3>2. Held(th, l)' = Held(th, l) + 1
        BY <2>3
      <3>3. Held(th, l) = nest[l]
        BY <1>0, <2>1, <2>3, GroupAssumption
      <3>4. \A x \in Threads : x # th => Held(x, l)' = 0
        <4>1. \A x \in Threads : x # th => Held(x, l)' = Held(x, l)
          BY DEF HeldSame
        <4>2. \A x \in Threads : x # th => Held(x, l) = 0
          BY <1>0, <2>1, <2>3, GroupAssumption
        <4> QED
          BY <4>1, <4>2
      <3>5. nest'[l] # 0 /\ holder'[l] # NoThread
        BY <3>1, GroupAssumption
      <3> QED
        BY <3>1, <3>2, <3>3, <3>4, <3>5
    <2> QED
      BY <2>2, <2>3
  <1> QED
    BY <1>1, <1>2 DEF Mutexes

\* pj_lock_release, m times: as often less for the thread that has it.
LEMMA MutexGiven ==
    ASSUME ListTypes, Mutexes, NEW th \in Threads, NEW k \in Locks, NEW m \in Nat, m > 0,
           Held(th, k) >= m, Unlock({k}, m, th),
           \A x \in Threads : x # th => HeldSame(x),
           \A l \in Locks : Held(th, l)' = Held(th, l) - (IF l = k THEN m ELSE 0)
    PROVE  Mutexes' /\ holder' \in [Locks -> Threads \cup {NoThread}] /\ nest' \in [Locks -> Nat]
  <1> DEFINE left(l) == IF l \in {k} /\ holder[l] = th
                        THEN (IF nest[l] > m THEN nest[l] - m ELSE 0) ELSE nest[l]
  <1>0. /\ holder \in [Locks -> Threads \cup {NoThread}] /\ nest \in [Locks -> Nat]
        /\ nest' = [l \in Locks |-> left(l)]
        /\ holder' = [l \in Locks |-> IF left(l) = 0 THEN NoThread ELSE holder[l]]
    BY DEF ListTypes, Unlock
  <1>1. \A l \in Locks : /\ nest[l] \in Nat
                         /\ nest[l] = 0 <=> holder[l] = NoThread
                         /\ \A x \in Threads : Held(x, l) = IF holder[l] = x THEN nest[l] ELSE 0
    BY <1>0 DEF Mutexes
  <1>2. holder[k] = th /\ nest[k] >= m
    BY SMTT(30), Z3T(30), <1>1
  <1>3. left(k) = nest[k] - m
    BY SMTT(30), Z3T(30), <1>1, <1>2
  <1>4. \A l \in Locks : l # k => left(l) = nest[l]
    BY <1>1
  <1> HIDE DEF left
  <1>5. \A l \in Locks : left(l) \in Nat
    BY SMTT(30), Z3T(30), <1>1, <1>2, <1>3, <1>4
  <1>6. holder' \in [Locks -> Threads \cup {NoThread}] /\ nest' \in [Locks -> Nat]
    BY <1>0, <1>5
  <1>7. \A l \in Locks : nest'[l] = left(l) /\ holder'[l] = IF left(l) = 0 THEN NoThread ELSE holder[l]
    BY <1>0
  <1>8. ASSUME NEW l \in Locks
        PROVE  /\ nest'[l] = 0 <=> holder'[l] = NoThread
               /\ \A x \in Threads : Held(x, l)' = IF holder'[l] = x THEN nest'[l] ELSE 0
    <2>0. \A x \in Threads : x # th => Held(x, l)' = Held(x, l)
      BY DEF HeldSame
    <2>1. CASE l # k
      <3>1. nest'[l] = nest[l] /\ holder'[l] = holder[l]
        BY <1>1, <1>4, <1>7, <2>1
      <3>2. Held(th, l)' = Held(th, l)
        <4>1. Held(th, l)' = Held(th, l) - 0
          BY <2>1
        <4>2. Held(th, l) \in Nat
          BY SMTT(30), Z3T(30), <1>1
        <4> QED
          BY <4>1, <4>2
      <3> QED
        BY <1>1, <2>0, <3>1, <3>2
    <2>2. CASE l = k
      <3>1. nest'[l] = nest[l] - m /\ nest[l] \in Nat /\ nest[l] >= m
        BY <1>1, <1>2, <1>3, <1>7, <2>2
      <3>2. holder'[l] = IF nest'[l] = 0 THEN NoThread ELSE th
        BY <1>2, <1>7, <2>2
      <3>3. Held(th, l)' = nest[l] - m
        BY <1>1, <1>2, <2>2
      <3>4. \A x \in Threads : x # th => Held(x, l)' = 0
        BY <1>1, <1>2, <2>0, <2>2
      <3>5. NoThread # th /\ \A x \in Threads : x # NoThread
        BY GroupAssumption
      <3> QED
        BY <3>1, <3>2, <3>3, <3>4, <3>5
    <2> QED
      BY <2>1, <2>2
  <1> QED
    BY <1>6, <1>8 DEF Mutexes

\* A thread has the same locks if it has walked as far and is inside as often.
LEMMA SameLocks ==
    ASSUME NEW th \in Threads, lock_list' = lock_list, At(th)' = At(th), Inside(th)' = Inside(th),
           \A l \in Locks : Extra(th, l)' = Extra(th, l)
    PROVE  HeldSame(th)
  BY DEF HeldSame, Held

\* Outside the loop of chain only a lock taken directly is extra.
LEMMA ExtraKept ==
    ASSUME NEW th \in Threads, direct'[th] = direct[th], pc[th] # "chain", pc'[th] # "chain"
    PROVE  \A l \in Locks : Extra(th, l)' = Extra(th, l)
  BY DEF Extra

-----------------------------------------------------------------------------
\* A call begins at the first item, which is the group's own lock.
LEMMA BeginKeeps ==
    ASSUME GInv, Calls', NEW th \in Threads, NEW o \in Ops \ {"none"},
           NEW a \in Ext \cup Handlers \cup {End}, BeginAcquire(th, o, a),
           o \in {"chain", "unchain"} => a \in Ext /\ \A x \in Threads : arg[x] # a,
           o = "chain" => a \notin Range(lock_list)
    PROVE  GInv'
  <1>0. GoodList(lock_list) /\ Phase(th) /\ ListTypes /\ Calls /\ Mutexes
    BY DEF GInv
  <1>1. /\ pc[th] = "idle" /\ pc' = [pc EXCEPT ![th] = "acquire"]
        /\ op' = [op EXCEPT ![th] = o] /\ lck' = [lck EXCEPT ![th] = Own]
        /\ arg' = [arg EXCEPT ![th] = a]
        /\ UNCHANGED <<conf, lock_list, holder, nest, owner, owner_cnt, n, depth, direct>>
    BY <1>0, NextOfItem DEF BeginAcquire, MayCall, mutexes, ownership, user
  <1>2. direct[th] = End
    <2>1. direct[th] # End => conf.pos[direct[th]] < 0
      BY DEF BeginAcquire, MayCall
    <2>2. direct[th] \in Ext \cup {End} /\ conf \in Configs
      BY <1>0 DEF ListTypes
    <2>3. \A l \in Ext : conf.pos[l] \in Nat \ {0}
      BY <2>2, GroupAssumption
    <2> QED
      BY <2>1, <2>2, <2>3
  <1>3. /\ pc'[th] = "acquire" /\ op'[th] = o /\ lck'[th] = Own /\ arg'[th] = a /\ direct'[th] = End
        /\ Others(th)
    BY <1>0, <1>1, <1>2 DEF Calls, CallTypes, ListTypes, Others, Still
  <1>4. Own \in Range(lock_list) /\ Own # End /\ Own \in Locks /\ Place(lock_list, Own) = 1
    BY SMTT(30), Z3T(30), <1>0, PlaceOf, GroupAssumption DEF GoodList, Locks
  <1>5. Phase(th)'
    BY <1>1, <1>3, <1>4 DEF Phase, Chaining
  <1>6. Inside(th)' = Inside(th)
    BY <1>1, <1>3 DEF Inside
  <1>7. At(th)' = At(th)
    <2>1. At(th) = 0
      BY <1>0, <1>1, Places DEF At
    <2>2. At(th)' = Walked(lock_list, "acquire", Own)
      BY <1>1, <1>3 DEF At
    <2> QED
      BY SMTT(30), Z3T(30), <1>0, <1>4, <2>1, <2>2, Places
  <1>8. HeldSame(th)
    BY <1>1, <1>3, <1>6, <1>7, SameLocks, ExtraKept
  <1>9. Chaining(th)' => \A x \in Threads : x # th /\ Chaining(x) => arg[x] # arg'[th]
    BY <1>3 DEF Chaining
  <1>10. /\ GoodList(lock_list)' /\ (\A x \in Threads : Phase(x)') /\ Apart' /\ Owned'
         /\ \A x \in Threads : x # th => HeldSame(x)
    BY <1>1, <1>3, <1>5, <1>6, <1>9, Moves DEF ownership
  <1>11. Mutexes'
    BY <1>0, <1>1, <1>8, <1>10, MutexSame DEF mutexes
  <1>12. ListTypes'
    BY <1>0, <1>1, <1>4 DEF ListTypes
  <1> QED
    BY <1>10, <1>11, <1>12 DEF GInv

\* Steps that leave the calls and the locks alone: pj_grp_lock_add_ref, the handlers' bodies.
LEMMA AsideKeeps ==
    ASSUME GInv, Calls', UNCHANGED <<conf, lock_list, holder, nest, owner, owner_cnt, lck, arg, n, direct>>,
           NEW th \in Threads, Others(th), op'[th] = op[th], depth'[th] = depth[th],
           \/ pc'[th] = pc[th]
           \/ pc[th] = "body" /\ pc'[th] = "leave"
    PROVE  GInv'
  <1>0. GoodList(lock_list) /\ Phase(th) /\ ListTypes /\ Calls /\ Mutexes
    BY DEF GInv
  <1>1. Phase(th)'
    BY <1>0 DEF Phase, Chaining
  <1>2. Inside(th)' = Inside(th)
    BY DEF Inside
  <1>3. At(th)' = At(th)
    <2>1. CASE pc'[th] = pc[th]
      BY <2>1 DEF At
    <2>2. CASE pc[th] = "body" /\ pc'[th] = "leave"
      <3>1. /\ pc[th] \notin {"acquire", "next", "release", "prev"}
            /\ pc'[th] \notin {"acquire", "next", "release", "prev"}
        BY <2>2
      <3> QED
        BY <3>1, NotWalking DEF At
    <2> QED
      BY <2>1, <2>2
  <1>4. \A l \in Locks : Extra(th, l)' = Extra(th, l)
    BY DEF Extra
  <1>5. HeldSame(th)
    BY <1>2, <1>3, <1>4, SameLocks
  <1>6. Chaining(th)' => \A x \in Threads : x # th /\ Chaining(x) => arg[x] # arg'[th]
    BY DEF Chaining, GInv, Apart
  <1>7. /\ GoodList(lock_list)' /\ (\A x \in Threads : Phase(x)') /\ Apart' /\ Owned'
        /\ \A x \in Threads : x # th => HeldSame(x)
    BY <1>1, <1>2, <1>6, Moves DEF ownership
  <1>8. Mutexes'
    BY <1>0, <1>5, <1>7, MutexSame DEF mutexes
  <1>9. ListTypes'
    BY <1>0 DEF ListTypes
  <1> QED
    BY <1>7, <1>8, <1>9 DEF GInv

\* The walk goes on, forwards or backwards, or turns around when a try fails: the
\* thread has as many items as before.
LEMMA TurnKeeps ==
    ASSUME GInv, Calls', NEW th \in Threads, TryFails(th) \/ NextItem(th) \/ PrevItem(th)
    PROVE  GInv'
  <1>0. GoodList(lock_list) /\ Phase(th) /\ ListTypes /\ Calls /\ Mutexes
    BY DEF GInv
  <1>1. /\ UNCHANGED <<conf, lock_list, holder, nest, owner, owner_cnt, op, arg, n, depth, direct>>
        /\ \/ pc[th] = "acquire" /\ pc'[th] = "release" /\ lck[th] # End /\ lck'[th] = PrevOf(lck[th])
              /\ op[th] = "tryacquire"
           \/ pc[th] = "next" /\ pc'[th] = "acquire" /\ lck'[th] = NextOf(lck[th])
           \/ pc[th] = "prev" /\ pc'[th] = "release" /\ lck'[th] = PrevOf(lck[th])
        /\ Others(th)
    BY <1>0 DEF TryFails, NextItem, PrevItem, mutexes, ownership, user, Calls, CallTypes, ListTypes,
          Others, Still
  <1>2. lck[th] \in Range(lock_list) /\ lck[th] # End
    BY <1>0, <1>1, PlaceOf DEF Phase
  <1> DEFINE N == Len(lock_list)
             i == Place(lock_list, lck[th])
  <1>3. i \in 1..N /\ N \in Nat
    BY <1>0, <1>2, PlaceOf
  <1>4. /\ NextOf(lck[th]) = IF i = N THEN End ELSE lock_list[i + 1]
        /\ PrevOf(lck[th]) = IF i = 1 THEN End ELSE lock_list[i - 1]
    BY <1>0, <1>2, NextOfItem, PrevOfItem
  <1>5. \A j \in 1..N : Place(lock_list, lock_list[j]) = j /\ lock_list[j] # End
                         /\ lock_list[j] \in Range(lock_list)
    <2>1. DOMAIN lock_list = 1..N
      BY SMTT(30), Z3T(30), <1>0 DEF GoodList
    <2> QED
      BY <1>0, <2>1, PlaceOf DEF Range
  <1> HIDE DEF i, N
  <1>6. lck'[th] \in Range(lock_list) \cup {End}
    <2>1. i # N => i + 1 \in 1..N
      BY <1>3
    <2>2. i # 1 => i - 1 \in 1..N
      BY <1>3
    <2> QED
      BY <1>1, <1>4, <1>5, <2>1, <2>2
  <1>7. Walked(lock_list, "acquire", NextOf(lck[th])) = i
    <2>1. CASE i = N
      BY <1>0, <1>4, <2>1, Places DEF N
    <2>2. CASE i # N
      <3>1. i + 1 \in 1..N /\ (i + 1) - 1 = i
        BY <1>3, <2>2
      <3>2. NextOf(lck[th]) = lock_list[i + 1] /\ Place(lock_list, lock_list[i + 1]) = i + 1
            /\ lock_list[i + 1] # End
        BY <1>4, <1>5, <2>2, <3>1
      <3> QED
        BY SMTT(30), Z3T(30), <1>0, <3>1, <3>2, Places
    <2> QED
      BY <2>1, <2>2
  <1>8. Walked(lock_list, "release", PrevOf(lck[th])) = i - 1
    <2>1. CASE i = 1
      BY SMTT(30), Z3T(30), <1>0, <1>4, <2>1, Places
    <2>2. CASE i # 1
      <3>1. i - 1 \in 1..N
        BY <1>3, <2>2
      <3>2. PrevOf(lck[th]) = lock_list[i - 1] /\ Place(lock_list, lock_list[i - 1]) = i - 1
            /\ lock_list[i - 1] # End
        BY <1>4, <1>5, <2>2, <3>1
      <3> QED
        BY <1>0, <3>2, Places
    <2> QED
      BY <2>1, <2>2
  <1>9. At(th)' = At(th)
    <2>1. At(th)' = Walked(lock_list, pc'[th], lck'[th]) /\ At(th) = Walked(lock_list, pc[th], lck[th])
      BY <1>1 DEF At
    <2>2. /\ Walked(lock_list, "acquire", lck[th]) = i - 1 /\ Walked(lock_list, "next", lck[th]) = i
          /\ Walked(lock_list, "prev", lck[th]) = i - 1
      BY <1>0, <1>2, Places DEF i
    <2> QED
      BY <1>1, <1>7, <1>8, <2>1, <2>2
  <1>10. Phase(th)'
    BY <1>0, <1>1, <1>6 DEF Phase, Chaining
  <1>11. Inside(th)' = Inside(th)
    BY <1>1 DEF Inside
  <1>12. HeldSame(th)
    BY <1>1, <1>9, <1>11, SameLocks, ExtraKept
  <1>13. Chaining(th)' => \A x \in Threads : x # th /\ Chaining(x) => arg[x] # arg'[th]
    BY <1>1 DEF Chaining, GInv, Apart
  <1>14. /\ GoodList(lock_list)' /\ (\A x \in Threads : Phase(x)') /\ Apart' /\ Owned'
         /\ \A x \in Threads : x # th => HeldSame(x)
    BY <1>1, <1>10, <1>11, <1>13, Moves DEF ownership
  <1>15. Mutexes'
    BY <1>0, <1>1, <1>12, <1>14, MutexSame DEF mutexes
  <1>16. ListTypes'
    <2>1. lck' \in [Threads -> Locks \cup {End}]
      <3>1. lck'[th] \in Locks \cup {End}
        BY <1>0, <1>6, PlaceOf
      <3>2. \E v : lck' = [lck EXCEPT ![th] = v]
        BY DEF TryFails, NextItem, PrevItem
      <3> QED
        BY <1>0, <3>1, <3>2 DEF ListTypes
    <2> QED
      BY <1>0, <1>1, <2>1 DEF ListTypes
  <1> QED
    BY <1>14, <1>15, <1>16 DEF GInv

\* pj_lock_acquire of the next item: one lock more.
LEMMA TakeKeeps ==
    ASSUME GInv, Calls', NEW th \in Threads, AcquireItem(th)
    PROVE  GInv'
  <1>0. GoodList(lock_list) /\ Phase(th) /\ ListTypes /\ Calls /\ Mutexes
    BY DEF GInv
  <1>1. /\ UNCHANGED <<conf, lock_list, owner, owner_cnt, op, lck, arg, n, depth, direct>>
        /\ pc[th] = "acquire" /\ pc'[th] = "next" /\ lck[th] # End
        /\ LockMutex(lck[th], th)
        /\ Others(th)
    BY <1>0 DEF AcquireItem, ownership, user, Calls, CallTypes, ListTypes, Others, Still
  <1>2. lck[th] \in Range(lock_list)
    BY <1>0, <1>1 DEF Phase
  <1> DEFINE i == Place(lock_list, lck[th])
             N == Len(lock_list)
  <1>3. i \in 1..N /\ N \in Nat /\ lock_list[i] = lck[th] /\ lck[th] \in Locks
    BY <1>0, <1>2, PlaceOf
  <1>4. At(th) = i - 1 /\ At(th)' = i
    BY <1>0, <1>1, Places DEF At
  <1>5. Phase(th)'
    BY <1>0, <1>1, <1>2 DEF Phase, Chaining
  <1>6. Inside(th)' = Inside(th) /\ Inside(th) \in Nat
    BY <1>1, AtType DEF Inside
  <1>7. \A l \in Locks : Extra(th, l)' = Extra(th, l)
    BY <1>1, ExtraKept
  <1> HIDE DEF i, N
  <1>8. ASSUME NEW l \in Locks  PROVE Held(th, l)' = Held(th, l) + (IF l = lck[th] THEN 1 ELSE 0)
    <2>1. Extra(th, l) \in Int
      <3>1. owner_cnt - n[th] \in Int
        BY SMTT(30), Z3T(30), <1>0 DEF ListTypes
      <3> QED
        BY <3>1, ExtraType
    <2>2. i \in 1..Len(lock_list)
      BY <1>3 DEF N
    <2> QED
      BY ZenonT(120), SMTT(30), <1>0, <1>1, <1>3, <1>4, <1>6, <1>7, <2>1, <2>2, WalkedIn
  <1>9. Chaining(th)' => \A x \in Threads : x # th /\ Chaining(x) => arg[x] # arg'[th]
    BY <1>1 DEF Chaining, GInv, Apart
  <1>10. /\ GoodList(lock_list)' /\ (\A x \in Threads : Phase(x)') /\ Apart' /\ Owned'
         /\ \A x \in Threads : x # th => HeldSame(x)
    BY <1>1, <1>5, <1>6, <1>9, Moves DEF ownership
  <1>11. Mutexes' /\ holder' \in [Locks -> Threads \cup {NoThread}] /\ nest' \in [Locks -> Nat]
    BY <1>0, <1>1, <1>3, <1>8, <1>10, MutexTaken
  <1>12. ListTypes'
    BY <1>0, <1>1, <1>11 DEF ListTypes
  <1> QED
    BY <1>10, <1>11, <1>12 DEF GInv

\* pj_lock_release of an item: one lock less, and it was the thread's.
LEMMA GiveKeeps ==
    ASSUME GInv, Calls', NEW th \in Threads, ReleaseItem(th)
    PROVE  GInv'
  <1>0. GoodList(lock_list) /\ Phase(th) /\ ListTypes /\ Calls /\ Mutexes
    BY DEF GInv
  <1>1. /\ UNCHANGED <<conf, lock_list, owner, owner_cnt, op, lck, arg, n, depth, direct>>
        /\ pc[th] = "release" /\ pc'[th] = "prev" /\ lck[th] # End
        /\ Unlock({lck[th]}, 1, th)
        /\ Others(th)
    BY <1>0 DEF ReleaseItem, ownership, user, Calls, CallTypes, ListTypes, Others, Still
  <1>2. lck[th] \in Range(lock_list)
    BY <1>0, <1>1 DEF Phase
  <1> DEFINE i == Place(lock_list, lck[th])
             N == Len(lock_list)
  <1>3. i \in 1..N /\ N \in Nat /\ lock_list[i] = lck[th] /\ lck[th] \in Locks
    BY <1>0, <1>2, PlaceOf
  <1>4. At(th) = i /\ At(th)' = i - 1
    BY <1>0, <1>1, Places DEF At
  <1>5. Phase(th)'
    BY <1>0, <1>1, <1>2 DEF Phase, Chaining
  <1>6. Inside(th)' = Inside(th) /\ Inside(th) \in Nat
    BY <1>1, AtType DEF Inside
  <1>7. \A l \in Locks : Extra(th, l)' = Extra(th, l)
    BY <1>1, ExtraKept
  <1> HIDE DEF i, N
  <1>8. ASSUME NEW l \in Locks
        PROVE  /\ Held(th, l)' = Held(th, l) - (IF l = lck[th] THEN 1 ELSE 0)
               /\ l = lck[th] => Held(th, l) >= 1
    <2>1. Extra(th, l) \in Nat
      BY <1>1, ExtraType
    <2>2. i \in 1..Len(lock_list)
      BY <1>3 DEF N
    <2> QED
      BY <1>0, <1>1, <1>3, <1>4, <1>6, <1>7, <2>1, <2>2, WalkedOut
  <1>9. Chaining(th)' => \A x \in Threads : x # th /\ Chaining(x) => arg[x] # arg'[th]
    BY <1>1 DEF Chaining, GInv, Apart
  <1>10. /\ GoodList(lock_list)' /\ (\A x \in Threads : Phase(x)') /\ Apart' /\ Owned'
         /\ \A x \in Threads : x # th => HeldSame(x)
    BY <1>1, <1>5, <1>6, <1>9, Moves DEF ownership
  <1>11. Mutexes' /\ holder' \in [Locks -> Threads \cup {NoThread}] /\ nest' \in [Locks -> Nat]
    <2>1. Held(th, lck[th]) >= 1
      BY <1>3, <1>8
    <2>2. \A l \in Locks : Held(th, l)' = Held(th, l) - (IF l = lck[th] THEN 1 ELSE 0)
      BY <1>8
    <2>3. Unlock({lck[th]}, 1, th) /\ 1 \in Nat /\ 1 > 0 /\ lck[th] \in Locks
      BY <1>1, <1>3
    <2>4. \A x \in Threads : x # th => HeldSame(x)
      BY <1>10
    <2> QED
      BY <1>0, <2>1, <2>2, <2>3, <2>4, MutexGiven
  <1>12. ListTypes'
    BY <1>0, <1>1, <1>11 DEF ListTypes
  <1> QED
    BY <1>10, <1>11, <1>12 DEF GInv

\* At the end of the way back the thread has no item left.
LEMMA ReleasedKeeps ==
    ASSUME GInv, Calls', NEW th \in Threads, Released(th)
    PROVE  GInv'
  <1>0. GoodList(lock_list) /\ Phase(th) /\ ListTypes /\ Calls /\ Mutexes
    BY DEF GInv
  <1>1. /\ UNCHANGED <<conf, lock_list, holder, nest, owner, owner_cnt, lck, n, depth, direct>>
        /\ pc[th] = "release" /\ lck[th] = End
        /\ \/ pc'[th] = "idle" /\ op'[th] = "none" /\ arg' = [arg EXCEPT ![th] = End]
           \/ pc'[th] = "dec_ref" /\ op'[th] = op[th] /\ arg' = arg
        /\ Others(th)
    BY SMTT(30), Z3T(30), <1>0 DEF Released, mutexes, ownership, user, Calls, CallTypes, ListTypes, Others, Still
  <1>2. At(th) = 0 /\ At(th)' = 0
    BY ZenonT(120), SMTT(30), <1>0, <1>1, Places DEF At
  <1>3. Phase(th)'
    BY <1>0, <1>1 DEF Phase, Chaining
  <1>4. Inside(th)' = Inside(th)
    BY <1>1 DEF Inside
  <1>5. HeldSame(th)
    BY <1>1, <1>2, <1>4, SameLocks, ExtraKept
  <1>6. Chaining(th)' => \A x \in Threads : x # th /\ Chaining(x) => arg[x] # arg'[th]
    BY <1>1 DEF Chaining, GInv, Apart
  <1>7. /\ GoodList(lock_list)' /\ (\A x \in Threads : Phase(x)') /\ Apart' /\ Owned'
        /\ \A x \in Threads : x # th => HeldSame(x)
    BY <1>1, <1>3, <1>4, <1>6, Moves DEF ownership
  <1>8. Mutexes'
    BY <1>0, <1>1, <1>5, <1>7, MutexSame DEF mutexes
  <1>9. ListTypes'
    <2>1. arg' \in [Threads -> Ext \cup Handlers \cup {End}]
      BY <1>0, <1>1 DEF ListTypes
    <2> QED
      BY <1>0, <1>1, <2>1 DEF ListTypes
  <1> QED
    BY <1>7, <1>8, <1>9 DEF GInv

\* A lock's own user takes it once, outside the group.
LEMMA UserLockKeeps ==
    ASSUME GInv, Calls', NEW th \in Threads, NEW e \in Ext, UserLock(th, e)
    PROVE  GInv'
  <1>0. GoodList(lock_list) /\ Phase(th) /\ ListTypes /\ Calls /\ Mutexes
    BY DEF GInv
  <1>1. /\ UNCHANGED <<conf, lock_list, owner, owner_cnt, pc, op, lck, arg, n, depth>>
        /\ pc[th] = "idle" /\ depth[th] = 0 /\ direct[th] = End /\ direct'[th] = e
        /\ direct' = [direct EXCEPT ![th] = e]
        /\ LockMutex(e, th)
        /\ Others(th)
    BY <1>0 DEF UserLock, ownership, locals, Calls, CallTypes, ListTypes, Others, Still
  <1>2. At(th) = At(th)'
    BY <1>1 DEF At
  <1>3. Phase(th)'
    BY <1>0, <1>1 DEF Phase, Chaining
  <1>4. Inside(th)' = Inside(th)
    BY <1>1 DEF Inside
  <1>5. ASSUME NEW l \in Locks  PROVE Held(th, l)' = Held(th, l) + (IF l = e THEN 1 ELSE 0)
    <2>0. /\ direct[th] # l /\ (direct'[th] = l <=> l = e)
          /\ pc[th] # "chain" /\ pc'[th] # "chain"
      BY <1>1, NotEnd
    <2>1. Extra(th, l) = 0 /\ Extra(th, l)' = IF l = e THEN 1 ELSE 0
      BY <2>0 DEF Extra
    <2>2. Amount(lock_list, At(th), Inside(th), l) \in Nat
      BY SMTT(30), Z3T(30), <1>0, AtType, AmountOwn
    <2>3. Held(th, l)' = Amount(lock_list, At(th), Inside(th), l) + Extra(th, l)'
      BY <1>1, <1>2, <1>4 DEF Held
    <2>4. Held(th, l) = Amount(lock_list, At(th), Inside(th), l) + 0
      BY <2>1 DEF Held
    <2> QED
      BY <2>1, <2>2, <2>3, <2>4
  <1>6. Chaining(th)' => \A x \in Threads : x # th /\ Chaining(x) => arg[x] # arg'[th]
    BY <1>1 DEF Chaining, GInv, Apart
  <1>7. /\ GoodList(lock_list)' /\ (\A x \in Threads : Phase(x)') /\ Apart' /\ Owned'
        /\ \A x \in Threads : x # th => HeldSame(x)
    BY <1>1, <1>3, <1>4, <1>6, Moves DEF ownership
  <1>8. Mutexes' /\ holder' \in [Locks -> Threads \cup {NoThread}] /\ nest' \in [Locks -> Nat]
    <2>1. e \in Locks
      BY DEF Locks
    <2> QED
      BY <1>0, <1>1, <1>5, <1>7, <2>1, MutexTaken
  <1>9. ListTypes'
    BY <1>0, <1>1, <1>8 DEF ListTypes
  <1> QED
    BY <1>7, <1>8, <1>9 DEF GInv

\* And gives it back.
LEMMA UserUnlockKeeps ==
    ASSUME GInv, Calls', NEW th \in Threads, UserUnlock(th)
    PROVE  GInv'
  <1>0. GoodList(lock_list) /\ Phase(th) /\ ListTypes /\ Calls /\ Mutexes
    BY DEF GInv
  <1> DEFINE e == direct[th]
  <1>1. /\ UNCHANGED <<conf, lock_list, owner, owner_cnt, pc, op, lck, arg, n, depth>>
        /\ pc[th] = "idle" /\ depth[th] = 0 /\ e # End /\ direct'[th] = End
        /\ direct' = [direct EXCEPT ![th] = End]
        /\ Unlock({e}, 1, th)
        /\ Others(th)
    BY <1>0 DEF UserUnlock, ownership, locals, Calls, CallTypes, ListTypes, Others, Still
  <1>2. At(th) = At(th)'
    BY <1>1 DEF At
  <1>3. Phase(th)'
    BY <1>0, <1>1 DEF Phase, Chaining
  <1>4. Inside(th)' = Inside(th)
    BY <1>1 DEF Inside
  <1>5. e \in Locks
    BY <1>0, <1>1 DEF ListTypes, Locks
  <1>6. ASSUME NEW l \in Locks
        PROVE  /\ Held(th, l)' = Held(th, l) - (IF l = e THEN 1 ELSE 0)
               /\ l = e => Held(th, l) >= 1
    <2>1. Extra(th, l)' = 0 /\ Extra(th, l) = IF l = e THEN 1 ELSE 0
      BY SMTT(30), Z3T(30), <1>1, GroupAssumption DEF Extra, Locks
    <2>2. Amount(lock_list, At(th), Inside(th), l) \in Nat
      BY SMTT(30), Z3T(30), <1>0, AtType, AmountOwn
    <2>3. Held(th, l)' = Amount(lock_list, At(th), Inside(th), l) + 0
      BY <1>1, <1>2, <1>4, <2>1 DEF Held
    <2>4. Held(th, l) = Amount(lock_list, At(th), Inside(th), l) + Extra(th, l)
      BY <2>1 DEF Held
    <2> QED
      BY <2>1, <2>2, <2>3, <2>4
  <1>7. Chaining(th)' => \A x \in Threads : x # th /\ Chaining(x) => arg[x] # arg'[th]
    BY <1>1 DEF Chaining, GInv, Apart
  <1>8. /\ GoodList(lock_list)' /\ (\A x \in Threads : Phase(x)') /\ Apart' /\ Owned'
        /\ \A x \in Threads : x # th => HeldSame(x)
    BY <1>1, <1>3, <1>4, <1>7, Moves DEF ownership
  <1> HIDE DEF e
  <1>9. Mutexes' /\ holder' \in [Locks -> Threads \cup {NoThread}] /\ nest' \in [Locks -> Nat]
    <2>1. Held(th, e) >= 1
      BY <1>5, <1>6
    <2>2. \A l \in Locks : Held(th, l)' = Held(th, l) - (IF l = e THEN 1 ELSE 0)
      BY <1>6
    <2>3. Unlock({e}, 1, th) /\ 1 \in Nat /\ 1 > 0
      BY <1>1
    <2>4. \A x \in Threads : x # th => HeldSame(x)
      BY <1>8
    <2> QED
      BY <1>0, <1>5, <2>1, <2>2, <2>3, <2>4, MutexGiven
  <1>10. ListTypes'
    BY <1>0, <1>1, <1>9 DEF ListTypes
  <1> QED
    BY <1>8, <1>9, <1>10 DEF GInv

\* What the threads have when one of them enters or leaves: nobody else is affected.
LEMMA OwnerMoves ==
    ASSUME GInv, NEW th \in Threads, Others(th), lock_list' = lock_list,
           Inside(th) > 0 \/ At(th) > 0, Phase(th)',
           op'[th] \in {"chain", "unchain"} => op'[th] = op[th] /\ arg'[th] = arg[th],
           owner' \in {th, NoThread}, owner_cnt' = Inside(th)', owner_cnt' \in Nat,
           owner' = NoThread <=> owner_cnt' = 0
    PROVE  /\ GoodList(lock_list)' /\ (\A x \in Threads : Phase(x)') /\ Apart' /\ Owned'
           /\ \A x \in Threads : x # th => HeldSame(x)
  <1>1. \A x \in Threads : x # th => Inside(x) = 0 /\ pc[x] # "chain"
    BY HasOwn
  <1>2. \A x \in Threads : x # th => Phase(x)' /\ Inside(x)' = Inside(x) /\ HeldSame(x)
    BY <1>1, Bystander DEF GInv, Others
  <1>3. Owned'
    <2>1. \A x \in Threads : x # th => Inside(x)' = 0 /\ owner' # x
      BY <1>1, <1>2, GroupAssumption
    <2>2. Inside(th)' = IF owner' = th THEN owner_cnt' ELSE 0
      BY GroupAssumption
    <2> QED
      BY <2>1, <2>2 DEF Owned
  <1>4. Apart'
    BY SMTT(30), Z3T(30) DEF GInv, Apart, Chaining, Others, Still
  <1> QED
    BY <1>2, <1>3, <1>4 DEF GInv

\* grp_lock_acquire ends: the thread has every item, and is inside once more.
LEMMA EnterKeeps ==
    ASSUME GInv, Calls', NEW th \in Threads, Entered(th)
    PROVE  GInv' /\ owner \in {NoThread, th} /\ owner' = th /\ owner_cnt' = owner_cnt + 1
  <1>0. GoodList(lock_list) /\ Phase(th) /\ ListTypes /\ Calls /\ Mutexes /\ Owned
    BY DEF GInv
  <1>1. /\ UNCHANGED <<conf, lock_list, holder, nest, lck, arg, direct>>
        /\ pc[th] = "acquire" /\ lck[th] = End
        /\ grp_lock_set_owner_thread(th)
        /\ \/ /\ pc'[th] = "idle" /\ op'[th] = "none" /\ depth'[th] = depth[th] + 1 /\ n' = n
           \/ /\ pc'[th] = "chain" /\ op[th] = "chain" /\ op'[th] = op[th] /\ depth'[th] = depth[th]
              /\ n' = [n EXCEPT ![th] = owner_cnt']
           \/ /\ pc'[th] = "body" /\ op'[th] = op[th] /\ depth'[th] = depth[th]
              /\ n' = [n EXCEPT ![th] = 0]
        /\ Others(th)
    BY SMTT(30), Z3T(30), <1>0 DEF Entered, Times, mutexes, Calls, CallTypes, ListTypes, Others, Still
  <1>2. At(th) = Len(lock_list) /\ At(th)' = 0 /\ At(th) > 0
    <2>1. lock_list' = lock_list /\ pc'[th] \notin {"acquire", "next", "release", "prev"}
      BY <1>1
    <2>2. At(th) = Len(lock_list)
      BY <1>0, <1>1, Places DEF At
    <2>3. At(th)' = 0
      BY <1>0, <2>1, Places DEF At
    <2>4. Len(lock_list) > 0
      BY <1>0 DEF GoodList
    <2> QED
      BY <2>2, <2>3, <2>4
  <1>3. Inside(th)' = Inside(th) + 1 /\ Inside(th) \in Nat
    <2>1. depth[th] \in Nat
      BY <1>0 DEF Calls, CallTypes
    <2>2. Inside(th) = depth[th] + 0
      BY <1>1 DEF Inside
    <2>3. Inside(th)' = depth[th] + 1 + 0 \/ Inside(th)' = depth[th] + 1
      BY <1>1 DEF Inside
    <2> QED
      BY <2>1, <2>2, <2>3
  <1>4. owner \in {NoThread, th}
    <2> SUFFICES ASSUME owner # NoThread, owner # th  PROVE FALSE
      OBVIOUS
    <2>1. owner \in Threads /\ owner_cnt \in Nat
      BY <1>0 DEF ListTypes
    <2>2. Inside(owner) = owner_cnt /\ owner_cnt # 0
      BY <1>0, <2>1 DEF Owned
    <2>3. Inside(owner) = 0
      BY <1>2, <2>1, HasOwn
    <2> QED
      BY <2>2, <2>3
  <1>5. Inside(th) = owner_cnt
    BY <1>0, <1>4 DEF Owned
  <1>6. owner' = th /\ owner_cnt' = owner_cnt + 1 /\ owner_cnt \in Nat
    <2>1. owner = NoThread => owner_cnt = 0
      BY <1>0 DEF Owned
    <2>2. owner_cnt \in Nat
      BY <1>0 DEF ListTypes
    <2>3. owner' = th /\ ((owner_cnt' = 1 /\ owner = NoThread) \/ owner_cnt' = owner_cnt + 1)
      BY <1>1, <1>4 DEF grp_lock_set_owner_thread
    <2> QED
      BY <2>1, <2>2, <2>3
  <1>7. Phase(th)'
    <2>1. direct'[th] = End
      BY <1>0, <1>1 DEF Phase
    <2>2. pc'[th] = "chain" => n'[th] = owner_cnt' /\ op'[th] = "chain" /\ arg'[th] \notin Range(lock_list')
      BY <1>0, <1>1 DEF Phase, ListTypes
    <2>3. Chaining(th)' => arg'[th] \in Ext
      BY <1>0, <1>1 DEF Phase, Chaining
    <2>4. owner_cnt' \in 0..owner_cnt'
      BY <1>6
    <2>5. pc'[th] = "idle" => op'[th] = "none"
      BY <1>1
    <2> QED
      BY <1>1, <2>1, <2>2, <2>3, <2>4, <2>5 DEF Phase
  <1>8. \A l \in Locks : Extra(th, l)' = Extra(th, l)
    <2>1. n'[th] = owner_cnt' \/ pc'[th] # "chain"
      BY <1>0, <1>1 DEF ListTypes
    <2>2. owner_cnt' - owner_cnt' = 0
      BY <1>6
    <2> QED
      BY <1>1, <2>1, <2>2 DEF Extra
  <1>9. HeldSame(th)
    <2>1. \A l : Amount(lock_list, Len(lock_list), Inside(th), l) = Amount(lock_list, 0, Inside(th) + 1, l)
      BY <1>0, <1>3, AmountFull
    <2> QED
      BY <1>1, <1>2, <1>3, <1>8, <2>1 DEF HeldSame, Held
  <1>10. /\ GoodList(lock_list)' /\ (\A x \in Threads : Phase(x)') /\ Apart' /\ Owned'
         /\ \A x \in Threads : x # th => HeldSame(x)
    <2>1. op'[th] \in {"chain", "unchain"} => op'[th] = op[th] /\ arg'[th] = arg[th]
      BY <1>1
    <2>2. owner' \in {th, NoThread} /\ owner_cnt' = Inside(th)' /\ owner_cnt' \in Nat
          /\ (owner' = NoThread <=> owner_cnt' = 0)
      BY <1>3, <1>5, <1>6, GroupAssumption
    <2> QED
      BY <1>1, <1>2, <1>7, <2>1, <2>2, OwnerMoves
  <1>11. Mutexes'
    BY <1>0, <1>1, <1>9, <1>10, MutexSame DEF mutexes
  <1>12. ListTypes'
    <2>1. owner_cnt' \in Nat /\ 0 \in Nat
      BY <1>6
    <2>2. n' \in [Threads -> Nat]
      BY <1>0, <1>1, <2>1 DEF ListTypes
    <2>3. owner' \in Threads \cup {NoThread}
      BY <1>6
    <2> QED
      BY <1>0, <1>1, <2>1, <2>2, <2>3 DEF ListTypes
  <1> QED
    BY <1>4, <1>6, <1>10, <1>11, <1>12 DEF GInv

\* grp_lock_release begins: inside once less, and every item still to be given back.
LEMMA LeaveKeeps ==
    ASSUME GInv, Calls', NEW th \in Threads, grp_lock_release(th)
    PROVE  /\ GInv' /\ owner = th /\ owner_cnt > 0 /\ owner_cnt' = owner_cnt - 1
           /\ owner' = IF owner_cnt = 1 THEN NoThread ELSE th
  <1>0. GoodList(lock_list) /\ Phase(th) /\ ListTypes /\ Calls /\ Mutexes /\ Owned
    BY DEF GInv
  <1>1. /\ UNCHANGED <<conf, lock_list, holder, nest, arg, n, direct>>
        /\ \/ pc[th] = "idle" /\ depth[th] > 0 /\ op'[th] = "release" /\ depth'[th] = depth[th] - 1
           \/ pc[th] = "leave" /\ op'[th] = op[th] /\ depth'[th] = depth[th]
        /\ grp_lock_unset_owner_thread(th)
        /\ pc'[th] = "release" /\ lck' = [lck EXCEPT ![th] = lock_list[Len(lock_list)]]
        /\ Others(th)
    BY <1>0, PrevOfItem DEF grp_lock_release, mutexes, Calls, CallTypes, ListTypes, Others, Still
  <1>2. Inside(th)' = Inside(th) - 1 /\ Inside(th) \in Nat /\ Inside(th) > 0
    <2>1. depth[th] \in Nat
      BY <1>0 DEF Calls, CallTypes
    <2>2. \/ depth[th] > 0 /\ Inside(th) = depth[th] + 0 /\ Inside(th)' = depth[th] - 1 + 0
          \/ Inside(th) = depth[th] + 1 /\ Inside(th)' = depth[th] + 0
      BY <1>1 DEF Inside
    <2> QED
      BY <2>1, <2>2
  <1>3. owner = th /\ owner_cnt = Inside(th)
    BY <1>0, <1>2 DEF Owned
  <1>4. /\ owner_cnt > 0 /\ owner_cnt' = owner_cnt - 1 /\ owner_cnt \in Nat
        /\ owner' = IF owner_cnt = 1 THEN NoThread ELSE th
    <2>1. /\ owner_cnt' = IF owner_cnt > 1 THEN owner_cnt - 1 ELSE 0
          /\ owner' = IF owner_cnt > 1 THEN owner ELSE NoThread
      BY <1>1 DEF grp_lock_unset_owner_thread
    <2> QED
      BY <1>2, <1>3, <2>1
  <1> DEFINE N == Len(lock_list)
  <1>5. /\ lck'[th] = lock_list[N] /\ N \in Nat /\ N \in 1..N /\ lock_list[N] \in Range(lock_list)
        /\ lock_list[N] # End /\ Place(lock_list, lock_list[N]) = N /\ lock_list[N] \in Locks
    <2>1. N \in Nat /\ N \in 1..N /\ DOMAIN lock_list = 1..N
      BY SMTT(30), Z3T(30), <1>0 DEF GoodList
    <2>2. lock_list[N] \in Range(lock_list)
      BY <2>1 DEF Range
    <2>3. lock_list[N] # End /\ Place(lock_list, lock_list[N]) = N /\ lock_list[N] \in Locks
      BY <1>0, <2>1, PlaceOf
    <2>4. lck'[th] = lock_list[N]
      BY <1>0, <1>1 DEF ListTypes
    <2> QED
      BY <2>1, <2>2, <2>3, <2>4
  <1>6. At(th)' = N /\ At(th) = 0
    BY ZenonT(120), SMTT(30), <1>0, <1>1, <1>5, Places DEF At
  <1> HIDE DEF N
  <1>7. Phase(th)'
    <2>1. /\ pc'[th] = "release" /\ lock_list' = lock_list /\ arg' = arg /\ direct' = direct
          /\ op'[th] = "release" \/ (pc[th] = "leave" /\ op'[th] = op[th])
          /\ pc[th] = "leave" \/ depth[th] > 0
      BY <1>1
    <2>4. lck'[th] \in Range(lock_list')
      BY <1>5, <2>1
    <2>2. pc[th] = "leave" \/ depth[th] # 0
      BY <2>1
    <2>3. direct[th] = End
      BY <1>0, <2>2 DEF Phase
    <2> QED
      BY <1>0, <2>1, <2>3, <2>4 DEF Phase, Chaining
  <1>8. \A l \in Locks : Extra(th, l)' = Extra(th, l)
    BY <1>1, ExtraKept
  <1>9. HeldSame(th)
    <2>1. Inside(th) - 1 \in Nat /\ (Inside(th) - 1) + 1 = Inside(th)
      BY <1>2
    <2>2. \A l : Amount(lock_list, N, Inside(th) - 1, l) = Amount(lock_list, 0, Inside(th), l)
      BY <1>0, <2>1, AmountFull DEF N
    <2> QED
      BY <1>1, <1>2, <1>6, <1>8, <2>2 DEF HeldSame, Held
  <1>10. /\ GoodList(lock_list)' /\ (\A x \in Threads : Phase(x)') /\ Apart' /\ Owned'
         /\ \A x \in Threads : x # th => HeldSame(x)
    <2>1. op'[th] \in {"chain", "unchain"} => op'[th] = op[th] /\ arg'[th] = arg[th]
      BY <1>1
    <2>2. owner' \in {th, NoThread} /\ owner_cnt' = Inside(th)' /\ owner_cnt' \in Nat
          /\ (owner' = NoThread <=> owner_cnt' = 0)
      BY <1>2, <1>3, <1>4, GroupAssumption
    <2> QED
      BY <1>1, <1>2, <1>7, <2>1, <2>2, OwnerMoves
  <1>11. Mutexes'
    BY <1>0, <1>1, <1>9, <1>10, MutexSame DEF mutexes
  <1>12. ListTypes'
    <2>1. lck' \in [Threads -> Locks \cup {End}]
      BY <1>0, <1>1, <1>5 DEF ListTypes, N
    <2>2. owner' \in Threads \cup {NoThread} /\ owner_cnt' \in Nat
      BY <1>4
    <2> QED
      BY <1>0, <1>1, <2>1, <2>2 DEF ListTypes
  <1> QED
    BY <1>3, <1>4, <1>10, <1>11, <1>12 DEF GInv

\* The loop of pj_grp_lock_chain_lock takes the new lock once more.
LEMMA ChainAcquiresKeeps ==
    ASSUME GInv, Calls', NEW th \in Threads, ChainAcquires(th)
    PROVE  GInv'
  <1>0. GoodList(lock_list) /\ Phase(th) /\ ListTypes /\ Calls /\ Mutexes
    BY DEF GInv
  <1> DEFINE e == arg[th]
             m == n[th]
             c == owner_cnt
  <1>1. /\ UNCHANGED <<conf, lock_list, owner, owner_cnt, pc, op, lck, arg, depth, direct>>
        /\ pc[th] = "chain" /\ m > 0 /\ n' = [n EXCEPT ![th] = m - 1]
        /\ LockMutex(e, th)
        /\ Others(th)
    BY <1>0 DEF ChainAcquires, ownership, user, Calls, CallTypes, ListTypes, Others, Still
  <1>2. /\ e \in Ext /\ e \in Locks /\ op[th] = "chain" /\ m \in Nat /\ c \in Nat /\ m <= c
        /\ direct[th] = End
    <2>1. e \in Ext /\ op[th] = "chain" /\ m \in 0..c /\ direct[th] = End
      BY <1>0, <1>1 DEF Phase, Chaining
    <2>2. e \in Locks /\ m \in Nat /\ c \in Nat
      BY <1>0, <2>1 DEF ListTypes, Locks
    <2> HIDE DEF m, c
    <2>3. m <= c
      BY <2>1
    <2> QED
      BY <2>1, <2>2, <2>3
  <1>3. n'[th] = m - 1 /\ m - 1 \in 0..c /\ n' \in [Threads -> Nat]
    <2>1. m > 0 /\ n \in [Threads -> Nat] /\ n' = [n EXCEPT ![th] = m - 1]
      BY <1>0, <1>1 DEF ListTypes
    <2> HIDE DEF m, c
    <2>2. m - 1 \in Nat /\ m - 1 \in 0..c
      BY <1>2, <2>1
    <2> QED
      BY <2>1, <2>2
  <1>4. At(th)' = At(th)
    BY <1>1 DEF At
  <1>5. Phase(th)'
    BY <1>0, <1>1, <1>3 DEF Phase, Chaining
  <1>6. Inside(th)' = Inside(th)
    BY <1>1 DEF Inside
  <1>7. ASSUME NEW l \in Locks  PROVE Held(th, l)' = Held(th, l) + (IF l = e THEN 1 ELSE 0)
    <2> DEFINE a == Amount(lock_list, At(th), Inside(th), l)
    <2>1. direct[th] # l /\ direct'[th] # l
      BY <1>1, <1>2, NotEnd
    <2>2. Extra(th, l) = (IF l = e THEN c - m ELSE 0) /\ Extra(th, l)' = (IF l = e THEN c - (m - 1) ELSE 0)
      <3>1. Extra(th, l) = (IF l = e THEN c - m ELSE 0) + 0
        BY <1>1, <2>1 DEF Extra
      <3>2. Extra(th, l)' = (IF l = e THEN c - (m - 1) ELSE 0) + 0
        BY <1>1, <1>3, <2>1 DEF Extra
      <3> HIDE DEF e, m, c
      <3> QED
        BY <1>2, <3>1, <3>2
    <2>3. Held(th, l)' = a + Extra(th, l)' /\ Held(th, l) = a + Extra(th, l)
      BY <1>1, <1>4, <1>6 DEF Held
    <2>4. a \in Nat
      BY SMTT(30), Z3T(30), <1>0, AtType, AmountOwn
    <2> HIDE DEF a, e, m, c
    <2> QED
      BY <1>2, <2>2, <2>3, <2>4
  <1>8. Chaining(th)' => \A x \in Threads : x # th /\ Chaining(x) => arg[x] # arg'[th]
    BY <1>1 DEF Chaining, GInv, Apart
  <1>9. /\ GoodList(lock_list)' /\ (\A x \in Threads : Phase(x)') /\ Apart' /\ Owned'
        /\ \A x \in Threads : x # th => HeldSame(x)
    BY <1>1, <1>5, <1>6, <1>8, Moves DEF ownership
  <1> HIDE DEF e, m, c
  <1>10. Mutexes' /\ holder' \in [Locks -> Threads \cup {NoThread}] /\ nest' \in [Locks -> Nat]
    BY <1>0, <1>1, <1>2, <1>7, <1>9, MutexTaken
  <1>11. ListTypes'
    BY <1>0, <1>1, <1>3, <1>10 DEF ListTypes
  <1> QED
    BY <1>9, <1>10, <1>11 DEF GInv

\* A thread that has no item is before the first or behind it, not at another one.
LEMMA OutsideWalk ==
    ASSUME GInv, NEW x \in Threads, At(x) = 0
    PROVE  /\ pc[x] \in {"acquire", "prev"} => lck[x] = Own
           /\ pc[x] = "release" => lck[x] = End
           /\ pc[x] # "next"
  <1>0. GoodList(lock_list) /\ Phase(x)
    BY DEF GInv
  <1>1. \A l \in Range(lock_list) : l # End /\ Place(lock_list, l) \in 1..Len(lock_list)
                                      /\ lock_list[Place(lock_list, l)] = l
    BY <1>0, PlaceOf
  <1>2. /\ lock_list[1] = Own /\ Len(lock_list) > 0
        /\ 0 \notin 1..Len(lock_list) /\ Len(lock_list) # 0
    BY SMTT(30), Z3T(30), <1>0 DEF GoodList
  <1>3. At(x) = Walked(lock_list, pc[x], lck[x])
    BY DEF At
  <1>4. pc[x] # "next"
    <2> SUFFICES ASSUME pc[x] = "next"  PROVE FALSE
      OBVIOUS
    <2>1. lck[x] \in Range(lock_list) /\ Place(lock_list, lck[x]) = 0
      BY <1>0, <1>3, Places DEF Phase
    <2> QED
      BY <1>1, <1>2, <2>1
  <1>5. pc[x] = "release" => lck[x] = End
    <2> SUFFICES ASSUME pc[x] = "release", lck[x] # End  PROVE FALSE
      OBVIOUS
    <2>1. lck[x] \in Range(lock_list) /\ Place(lock_list, lck[x]) = 0
      BY <1>0, <1>3, Places DEF Phase
    <2> QED
      BY <1>1, <1>2, <2>1
  <1>6. pc[x] \in {"acquire", "prev"} => lck[x] = Own
    <2> SUFFICES ASSUME pc[x] \in {"acquire", "prev"}  PROVE lck[x] = Own
      OBVIOUS
    <2>1. lck[x] # End
      <3>1. pc[x] = "prev" => lck[x] \in Range(lock_list)
        BY <1>0 DEF Phase
      <3>2. pc[x] = "acquire" /\ lck[x] = End => At(x) = Len(lock_list)
        BY <1>0, <1>3, Places
      <3> QED
        BY <1>1, <1>2, <3>1, <3>2
    <2>2. lck[x] \in Range(lock_list) /\ Place(lock_list, lck[x]) - 1 = 0
      BY <1>0, <1>3, <2>1, Places DEF Phase
    <2>3. \A i \in 1..Len(lock_list) : i - 1 = 0 => i = 1
      OBVIOUS
    <2>4. Place(lock_list, lck[x]) = 1
      BY <1>1, <2>2, <2>3
    <2> QED
      BY <1>1, <1>2, <2>2, <2>4
  <1> QED
    BY <1>4, <1>5, <1>6

\* Only the thread inside changes the list; the others have not come to a place where
\* they would notice.
LEMMA ListMoves ==
    ASSUME GInv, NEW th \in Threads, Others(th), Inside(th) > 0, GoodList(lock_list)',
           Range(lock_list') \subseteq Range(lock_list) \cup {arg[th]}, Chaining(th),
           UNCHANGED <<ownership, arg, op>>, Phase(th)', Inside(th)' = Inside(th)
    PROVE  /\ (\A x \in Threads : Phase(x)') /\ Apart' /\ Owned'
           /\ \A x \in Threads : x # th => HeldSame(x)
  <1>0. owner' = owner /\ owner_cnt' = owner_cnt /\ arg' = arg /\ op' = op
    BY DEF ownership
  <1>1. ASSUME NEW x \in Threads, x # th
        PROVE  Phase(x)' /\ Inside(x)' = Inside(x) /\ HeldSame(x)
    <2>1. Inside(x) = 0 /\ At(x) = 0 /\ pc[x] # "chain" /\ Still(x) /\ Phase(x)
      BY <1>1, HasOwn DEF Others, GInv
    <2>2. /\ pc[x] \in {"acquire", "prev"} => lck[x] = Own
          /\ pc[x] = "release" => lck[x] = End
          /\ pc[x] # "next"
      BY <2>1, OutsideWalk
    <2>3. GoodList(lock_list) /\ GoodList(lock_list')
      BY DEF GInv
    <2>4. Own \in Range(lock_list') /\ Place(lock_list', Own) = 1 /\ Own # End
      BY SMTT(30), Z3T(30), <2>3, PlaceOf, GroupAssumption DEF GoodList
    <2>5. arg[x] \notin Range(lock_list) /\ Chaining(x) => arg[x] \notin Range(lock_list')
      BY <1>1 DEF GInv, Apart
    <2>6. Phase(x)'
      BY <2>1, <2>2, <2>4, <2>5 DEF Phase, Still, Chaining
    <2>7. Inside(x)' = Inside(x)
      BY <2>1 DEF Inside, Still
    <2>8. At(x)' = 0
      <3>1. At(x)' = Walked(lock_list', pc[x], lck[x])
        BY <2>1 DEF At, Still
      <3>2. pc[x] \in {"acquire", "prev"} => At(x)' = Place(lock_list', Own) - 1
        BY <2>2, <2>3, <2>4, <3>1, Places
      <3>3. pc[x] \notin {"acquire", "prev"} => At(x)' = 0
        BY <2>2, <2>3, <3>1, Places
      <3> QED
        BY <2>4, <3>2, <3>3
    <2>9. \A l \in Locks : Extra(x, l)' = Extra(x, l)
      BY <2>1 DEF Extra, Still
    <2>10. HeldSame(x)
      <3>1. \A l : Amount(lock_list, 0, 0, l) = 0 /\ Amount(lock_list', 0, 0, l) = 0
        BY AmountNone
      <3> QED
        BY <2>1, <2>7, <2>8, <2>9, <3>1 DEF HeldSame, Held
    <2> QED
      BY <2>6, <2>7, <2>10
  <1>2. Owned'
    BY <1>0, <1>1 DEF GInv, Owned
  <1>3. Apart'
    BY <1>0 DEF GInv, Apart, Chaining
  <1> QED
    BY <1>1, <1>2, <1>3

\* pj_grp_lock_unchain_lock takes the lock out and gives it back as often as it has it.
LEMMA UnchainBodyKeeps ==
    ASSUME GInv, Calls', NEW th \in Threads, UnchainBody(th), arg[th] \in Range(lock_list)
    PROVE  GInv'
  <1>0. GoodList(lock_list) /\ Phase(th) /\ ListTypes /\ Calls /\ Mutexes /\ Owned
    BY DEF GInv
  <1> DEFINE e == arg[th]
             k == Inside(th)
  <1>1. /\ UNCHANGED <<conf, owner, owner_cnt, op, lck, arg, n, depth, direct>>
        /\ pc[th] = "body" /\ op[th] = "unchain" /\ pc'[th] = "leave" /\ lock_list' = Erase(e)
        /\ Unlock({e}, owner_cnt, th)
        /\ Others(th)
    BY <1>0 DEF UnchainBody, ownership, user, Calls, CallTypes, ListTypes, Others, Still
  <1>2. e \in Ext /\ e \in Locks /\ direct[th] = End /\ e \in Range(lock_list)
    BY <1>0, <1>1 DEF Phase, Chaining, Locks
  <1>3. k' = k /\ k \in Nat /\ k > 0
    BY <1>0, <1>1, InBody DEF Calls, CallTypes
  <1>4. owner_cnt = k
    BY <1>0, <1>3 DEF Owned
  <1>5. GoodList(lock_list') /\ Range(lock_list') = Range(lock_list) \ {e}
    BY <1>0, <1>1, <1>2, UnchainsThat
  <1>6. At(th) = 0 /\ At(th)' = 0
    BY ZenonT(120), SMTT(30), <1>0, <1>1, <1>5, Places DEF At
  <1>7. Phase(th)'
    BY <1>0, <1>1, <1>2 DEF Phase, Chaining
  <1>8. /\ (\A x \in Threads : Phase(x)') /\ Apart' /\ Owned'
        /\ \A x \in Threads : x # th => HeldSame(x)
    BY <1>1, <1>2, <1>3, <1>5, <1>7, ListMoves DEF ownership, Chaining
  <1>9. ASSUME NEW l \in Locks
        PROVE  /\ Held(th, l)' = Held(th, l) - (IF l = e THEN k ELSE 0)
               /\ l = e => Held(th, l) >= k
    <2>1. direct[th] # l /\ direct'[th] # l
      BY <1>1, <1>2, NotEnd
    <2>2. Extra(th, l) = 0 /\ Extra(th, l)' = 0
      <3>1. Extra(th, l) = 0 + 0 /\ Extra(th, l)' = 0 + 0
        BY <1>1, <2>1 DEF Extra
      <3> QED
        BY <3>1
    <2>3. Held(th, l) = (IF l \in Range(lock_list) THEN k ELSE 0) + 0
      BY <1>3, <1>6, <2>2, AmountInside DEF Held
    <2>4. Held(th, l)' = (IF l \in Range(lock_list') THEN k ELSE 0) + 0
      <3>1. Held(th, l)' = Amount(lock_list', 0, k, l) + 0
        BY <1>3, <1>6, <2>2 DEF Held
      <3> QED
        BY <1>3, <3>1, AmountInside
    <2> HIDE DEF e, k
    <2> QED
      BY SMTT(30), Z3T(30), <1>2, <1>3, <1>5, <2>3, <2>4
  <1> HIDE DEF e, k
  <1>10. Mutexes' /\ holder' \in [Locks -> Threads \cup {NoThread}] /\ nest' \in [Locks -> Nat]
    <2>1. Held(th, e) >= k
      BY <1>2, <1>9
    <2>2. \A l \in Locks : Held(th, l)' = Held(th, l) - (IF l = e THEN k ELSE 0)
      BY <1>9
    <2>3. Unlock({e}, k, th)
      BY <1>1, <1>4
    <2>4. \A x \in Threads : x # th => HeldSame(x)
      BY <1>8
    <2> QED
      BY <1>0, <1>2, <1>3, <2>1, <2>2, <2>3, <2>4, MutexGiven
  <1>11. ListTypes'
    BY <1>0, <1>1, <1>10 DEF ListTypes
  <1> QED
    BY <1>5, <1>8, <1>10, <1>11 DEF GInv

\* Giving back no lock leaves the mutexes as they are: grp_lock_destroy, when nobody is inside.
LEMMA UnlockNone ==
    ASSUME ListTypes, Mutexes, NEW S, NEW th \in Threads, Unlock(S, 0, th)
    PROVE  UNCHANGED mutexes
  <1> DEFINE left(l) == IF l \in S /\ holder[l] = th
                        THEN (IF nest[l] > 0 THEN nest[l] - 0 ELSE 0) ELSE nest[l]
  <1>0. /\ holder \in [Locks -> Threads \cup {NoThread}] /\ nest \in [Locks -> Nat]
        /\ nest' = [l \in Locks |-> left(l)]
        /\ holder' = [l \in Locks |-> IF left(l) = 0 THEN NoThread ELSE holder[l]]
    BY DEF ListTypes, Unlock
  <1>1. \A l \in Locks : left(l) = nest[l]
    BY <1>0
  <1> HIDE DEF left
  <1>2. nest' = nest
    BY <1>0, <1>1
  <1>3. \A l \in Locks : (IF left(l) = 0 THEN NoThread ELSE holder[l]) = holder[l]
    BY <1>1 DEF Mutexes
  <1>4. holder' = holder
    BY <1>0, <1>3
  <1> QED
    BY <1>2, <1>4 DEF mutexes

\* pj_grp_lock_dec_ref: the last one finds nobody inside, so nothing is left to give back.
LEMMA DropKeeps ==
    ASSUME GInv, Calls', NEW th \in Threads, pj_grp_lock_dec_ref(th), gone' => AllAway', ~gone
    PROVE  GInv' /\ UNCHANGED <<owner, owner_cnt>> /\ (gone' => owner = NoThread)
  <1>0. GoodList(lock_list) /\ Phase(th) /\ ListTypes /\ Calls /\ Mutexes /\ Owned
    BY DEF GInv
  <1>1. /\ UNCHANGED <<conf, lock_list, owner, owner_cnt, lck, n, depth, direct>>
        /\ pc[th] \in {"idle", "dec_ref"} /\ pc'[th] = "idle" /\ op'[th] = "none"
        /\ arg' = [arg EXCEPT ![th] = End]
        /\ Others(th)
        /\ \/ UNCHANGED <<holder, nest>> /\ gone' = gone
           \/ gone' /\ Unlock(Range(lock_list) \ {Own}, owner_cnt, th)
    BY <1>0 DEF pj_grp_lock_dec_ref, grp_lock_destroy, MayCall, mutexes, ownership, Calls, CallTypes, ListTypes,
           Others, Still
  <1>2. Inside(th)' = Inside(th)
    BY <1>1 DEF Inside
  <1>3. At(th)' = At(th)
    <2>1. /\ pc[th] \notin {"acquire", "next", "release", "prev"}
          /\ pc'[th] \notin {"acquire", "next", "release", "prev"}
      BY <1>1
    <2> QED
      BY <2>1, NotWalking DEF At
  <1>4. Phase(th)'
    BY <1>0, <1>1 DEF Phase, Chaining
  <1>5. HeldSame(th)
    BY <1>1, <1>2, <1>3, SameLocks, ExtraKept
  <1>6. ~Chaining(th)'
    BY <1>1 DEF Chaining
  <1>7. /\ GoodList(lock_list)' /\ (\A x \in Threads : Phase(x)') /\ Apart' /\ Owned'
        /\ \A x \in Threads : x # th => HeldSame(x)
    BY <1>1, <1>2, <1>4, <1>6, Moves DEF ownership
  <1>8. gone' => owner = NoThread
    <2> SUFFICES ASSUME gone', owner # NoThread  PROVE FALSE
      OBVIOUS
    <2>1. owner \in Threads /\ owner_cnt \in Nat /\ owner_cnt # 0
      BY <1>0 DEF ListTypes, Owned
    <2>2. Inside(owner) = owner_cnt
      BY <1>0, <2>1 DEF Owned
    <2>3. depth[owner] = 0 /\ pc'[owner] = "idle"
      BY <1>1, <2>1 DEF AllAway
    <2>4. pc[owner] \in {"idle", "dec_ref"}
      BY <1>1, <2>1, <2>3 DEF Others, Still
    <2> QED
      BY <2>1, <2>2, <2>3, <2>4 DEF Inside
  <1>9. UNCHANGED mutexes
    <2>1. CASE gone' /\ Unlock(Range(lock_list) \ {Own}, owner_cnt, th)
      <3>1. owner_cnt = 0
        BY <1>0, <1>8, <2>1 DEF Owned
      <3>2. Unlock(Range(lock_list) \ {Own}, 0, th)
        BY <2>1, <3>1
      <3> QED
        BY <1>0, <3>2, UnlockNone
    <2> QED
      BY <1>1, <2>1 DEF mutexes
  <1>10. Mutexes'
    BY <1>0, <1>5, <1>7, <1>9, MutexSame
  <1>11. ListTypes'
    BY <1>0, <1>1, <1>9 DEF ListTypes, mutexes
  <1> QED
    BY <1>1, <1>7, <1>8, <1>10, <1>11 DEF GInv

-----------------------------------------------------------------------------
\* The counter and the list together.
AInv == RInv /\ GInv

\* Every call of lock.c starts with the list as it should be.
LEMMA CallList ==
    ASSUME AInv, Calls', NEW th \in Threads, Call(th)
    PROVE  GInv'
  <1>0. GInv
    BY DEF AInv
  <1>1. CASE grp_lock_acquire(th) \/ grp_lock_tryacquire(th)
    BY <1>0, <1>1, BeginKeeps DEF grp_lock_acquire, grp_lock_tryacquire, Ops
  <1>2. ASSUME NEW h \in Handlers, pj_grp_lock_add_handler(th, h) \/ pj_grp_lock_del_handler(th, h)
        PROVE  GInv'
    BY <1>0, <1>2, BeginKeeps DEF pj_grp_lock_add_handler, pj_grp_lock_del_handler, Ops
  <1>3. ASSUME NEW l \in Ext, pj_grp_lock_chain_lock(th, l) \/ pj_grp_lock_unchain_lock(th, l)
        PROVE  GInv'
    BY <1>0, <1>3, BeginKeeps DEF pj_grp_lock_chain_lock, pj_grp_lock_unchain_lock, Ops
  <1>4. ASSUME NEW x \in Threads, pj_grp_lock_add_ref(th, x)  PROVE GInv'
    <2>1. /\ UNCHANGED <<conf, lock_list, holder, nest, owner, owner_cnt, pc, op, lck, arg, n, depth, direct>>
      BY <1>4 DEF pj_grp_lock_add_ref, mutexes, ownership, locals
    <2>2. Others(th) /\ op'[th] = op[th] /\ depth'[th] = depth[th] /\ pc'[th] = pc[th]
      BY <2>1 DEF Others, Still
    <2> QED
      BY <1>0, <2>1, <2>2, AsideKeeps
  <1>5. ASSUME NEW l \in Ext, UserLock(th, l)  PROVE GInv'
    BY <1>0, <1>5, UserLockKeeps
  <1> QED
    BY <1>1, <1>2, <1>3, <1>4, <1>5 DEF Call

\* A thread that waits for an external lock waits for somebody who took it directly, and
\* who waits for nothing.
LEMMA DirectUserIsFree ==
    ASSUME AInv, NEW th \in Threads, NEW x \in Threads, WaitsFor(th, x), Wants(th) # Own
    PROVE  \A y \in Threads : ~WaitsFor(x, y)
  <1>0. GInv /\ GoodList(lock_list) /\ ListTypes /\ Mutexes /\ Phase(th) /\ Phase(x)
    BY DEF AInv, GInv
  <1> DEFINE l == Wants(th)
  <1>1. l # End /\ holder[l] = x /\ x # th
    BY DEF WaitsFor, Available
  <1>2. \/ pc[th] = "acquire" /\ l = lck[th]
        \/ pc[th] = "chain" /\ l = arg[th]
    BY <1>1 DEF Wants
  <1>3. l \in Locks
    BY <1>0, <1>1, <1>2 DEF ListTypes, Phase, Chaining, Locks
  <1> HIDE DEF l
  <1>4. Inside(th) > 0 \/ At(th) > 0
    <2>1. CASE pc[th] = "chain"
      BY <2>1 DEF Inside, AInv, GInv, Calls, CallTypes
    <2>2. CASE pc[th] = "acquire" /\ l = lck[th]
      <3>1. At(th) \in Nat
        BY <1>0, AtType
      <3>2. At(th) # 0
        BY <1>0, <2>2, OutsideWalk DEF l
      <3> QED
        BY <3>1, <3>2
    <2> QED
      BY <1>2, <2>1, <2>2
  <1>5. Inside(x) = 0 /\ At(x) = 0 /\ pc[x] # "chain"
    BY <1>0, <1>1, <1>4, HasOwn
  <1>6. Held(x, l) # 0
    <2>1. Held(x, l) = nest[l]
      BY <1>0, <1>1, <1>3 DEF Mutexes
    <2>2. nest[l] # 0
      BY <1>0, <1>1, <1>3, GroupAssumption DEF Mutexes
    <2> QED
      BY <2>1, <2>2
  <1>7. direct[x] = l
    <2> SUFFICES ASSUME direct[x] # l  PROVE FALSE
      OBVIOUS
    <2>1. Extra(x, l) = 0
      BY <1>5 DEF Extra
    <2>2. Amount(lock_list, 0, 0, l) = 0
      BY AmountInside
    <2> QED
      BY <1>5, <1>6, <2>1, <2>2 DEF Held
  <1>8. pc[x] = "idle"
    BY <1>0, <1>1, <1>7 DEF Phase, l
  <1>9. Wants(x) = End
    BY <1>8 DEF Wants
  <1> QED
    BY <1>9 DEF WaitsFor

\* The holder of the group's own lock can wait only for an external lock.
LEMMA OwnerWantsAnother ==
    ASSUME NEW th \in Threads, NEW x \in Threads, NEW y \in Threads, WaitsFor(th, x), Wants(th) = Own,
           WaitsFor(x, y)
    PROVE  Wants(x) # Own
  BY DEF WaitsFor, Available

-----------------------------------------------------------------------------
\* A step that changes neither the owner nor a reference is no step of the abstract lock.
LEMMA Stutters ==
    ASSUME Same, Silent, UNCHANGED <<owner, owner_cnt>>
    PROVE  UNCHANGED RL!vars
  BY DEF Same, Silent, Debt, RL!vars

\* No thread answers for a reference.
NoDebt == \A x \in Threads : Debt[x] = 0

\* Starting a call, or taking a lock directly, is nothing to the abstract lock; taking a
\* reference is its Refer.
LEMMA CallRefines ==
    ASSUME AInv, NEW th \in Threads, Call(th)
    PROVE  RL!Next \/ UNCHANGED RL!vars
  <1>0. CallsOK
    BY DEF AInv, RInv, CallsOK
  <1>1. ASSUME NEW o \in Ops \ {"none"}, NEW a, BeginAcquire(th, o, a)  PROVE UNCHANGED RL!vars
    <2>1. Same /\ Silent
      BY <1>0, <1>1, BeginsAcquire
    <2>2. UNCHANGED <<owner, owner_cnt>>
      BY <1>1 DEF BeginAcquire, ownership
    <2> QED
      BY <2>1, <2>2, Stutters
  <1>2. ASSUME NEW x \in Threads, pj_grp_lock_add_ref(th, x)  PROVE RL!Next
    <2>1. More(x) /\ Silent /\ ~gone
      BY <1>0, <1>2, AddsRef
    <2>2. UNCHANGED <<owner, owner_cnt>>
      BY <1>2 DEF pj_grp_lock_add_ref, ownership
    <2>3. RL!Refer(x)
      BY <2>1, <2>2 DEF RL!Refer, More, Silent, Debt
    <2> QED
      BY <2>3 DEF RL!Next
  <1>3. CASE \E l \in Ext : UserLock(th, l)
    <2>1. Same /\ Silent
      BY <1>0, <1>3, UsersAside
    <2>2. UNCHANGED <<owner, owner_cnt>>
      BY <1>3 DEF UserLock, ownership
    <2> QED
      BY <2>1, <2>2, Stutters
  <1>4. ASSUME NEW h \in Handlers, pj_grp_lock_add_handler(th, h) \/ pj_grp_lock_del_handler(th, h)
        PROVE  UNCHANGED RL!vars
    BY <1>1, <1>4 DEF pj_grp_lock_add_handler, pj_grp_lock_del_handler, Ops
  <1>5. ASSUME NEW l \in Ext, pj_grp_lock_chain_lock(th, l) \/ pj_grp_lock_unchain_lock(th, l)
        PROVE  UNCHANGED RL!vars
    BY <1>1, <1>5 DEF pj_grp_lock_chain_lock, pj_grp_lock_unchain_lock, Ops
  <1>6. CASE grp_lock_acquire(th) \/ grp_lock_tryacquire(th)
    BY <1>1, <1>6 DEF grp_lock_acquire, grp_lock_tryacquire, Ops
  <1> QED
    BY <1>2, <1>3, <1>4, <1>5, <1>6 DEF Call

INSTANCE FiniteSetTheorems

-----------------------------------------------------------------------------
\* A reference more is a token more (pj_atomic_inc_and_get in pj_grp_lock_add_ref).
LEMMA TokenAdded ==
    ASSUME NEW d \in [Threads -> Nat], NEW x \in Threads, IsFiniteSet(Tokens(d)),
           NEW e, e = [d EXCEPT ![x] = d[x] + 1]
    PROVE  IsFiniteSet(Tokens(e)) /\ Cardinality(Tokens(e)) = Cardinality(Tokens(d)) + 1
  <1>1. Tokens(e) = Tokens(d) \cup {<<x, d[x]>>}
    BY SMTT(30), Z3T(30) DEF Tokens
  <1>2. <<x, d[x]>> \notin Tokens(d)
    BY DEF Tokens
  <1> DEFINE S == Tokens(d)
             y == <<x, d[x]>>
  <1> HIDE DEF S, y
  <1>3. IsFiniteSet(S \cup {y}) /\ Cardinality(S \cup {y}) = Cardinality(S) + 1
    BY <1>2, FS_AddElement DEF S, y
  <1> QED
    BY <1>1, <1>3 DEF S, y

\* A reference less is a token less (pj_atomic_dec_and_get in pj_grp_lock_dec_ref).
LEMMA TokenRemoved ==
    ASSUME NEW d \in [Threads -> Nat], NEW x \in Threads, d[x] > 0, IsFiniteSet(Tokens(d)),
           NEW e, e = [d EXCEPT ![x] = d[x] - 1]
    PROVE  IsFiniteSet(Tokens(e)) /\ Cardinality(Tokens(e)) = Cardinality(Tokens(d)) - 1
  <1>1. Tokens(e) = Tokens(d) \ {<<x, d[x] - 1>>}
    BY SMTT(30), Z3T(30) DEF Tokens
  <1>2. <<x, d[x] - 1>> \in Tokens(d)
    BY SMTT(30), Z3T(30) DEF Tokens
  <1> QED
    BY ZenonT(120), SMTT(30), <1>1, <1>2, FS_RemoveElement

\* There is no token exactly when no thread answers for a reference, which is what
\* pj_grp_lock_dec_ref concludes from a count of zero.
LEMMA NoTokens ==
    ASSUME NEW d \in [Threads -> Nat], IsFiniteSet(Tokens(d))
    PROVE  Cardinality(Tokens(d)) = 0 <=> \A th \in Threads : d[th] = 0
  <1>1. Cardinality(Tokens(d)) = 0 <=> Tokens(d) = {}
    BY FS_EmptySet
  <1>2. ASSUME NEW th \in Threads, d[th] # 0  PROVE <<th, 0>> \in Tokens(d)
    BY SMTT(30), Z3T(30), <1>2 DEF Tokens
  <1>3. ASSUME \A th \in Threads : d[th] = 0  PROVE Tokens(d) = {}
    BY <1>3 DEF Tokens
  <1> QED
    BY <1>1, <1>2, <1>3

\* However a step changes the references, ref_cnt follows.
LEMMA CountKept ==
    ASSUME CallsOK, Counted, Same \/ (\E x \in Threads : More(x) \/ Less(x))
    PROVE  Counted'
  <1>1. CASE Same
    BY <1>1 DEF Same, Counted, Tokens
  <1>2. ASSUME NEW x \in Threads, More(x)  PROVE Counted'
    BY <1>2, TokenAdded, DebtType DEF CallsOK, Counted, More
  <1>3. ASSUME NEW x \in Threads, Less(x)  PROVE Counted'
    BY <1>3, TokenRemoved, DebtType DEF CallsOK, Counted, Less
  <1> QED
    BY <1>1, <1>2, <1>3

\* At a count of zero no thread is in any function of the group lock, so
\* grp_lock_destroy may release its memory.
LEMMA NobodyLeft == CallsOK /\ Counted /\ Unreferenced => AllAway
  <1> SUFFICES ASSUME CallsOK, Counted, ref_cnt = 0
               PROVE  \A th \in Threads : pc[th] = "idle" /\ depth[th] = 0 /\ refs[th] = 0
    BY DEF Unreferenced, AllAway
  <1>1. \A th \in Threads : Debt[th] = 0
    BY DebtType, NoTokens DEF CallsOK, Counted
  <1>2. \A th \in Threads : Answers(th) = 0
    BY <1>1 DEF Debt
  <1> QED
    BY SMTT(30), Z3T(30), <1>2 DEF CallsOK, CallTypes, InCall, OnTheWay, Answers, Pcs

\* pj_grp_lock_dec_ref destroys the object when nobody is left, and runs each
\* registered handler for the first time.
LEMMA LastDrop ==
    ASSUME RInv, NEW th \in Threads, pj_grp_lock_dec_ref(th), CallsOK', Counted'
    PROVE  HandlersRunAtTheEnd'
  <1>1. ~gone
    BY DEF RInv, HandlersRunAtTheEnd, pj_grp_lock_dec_ref, MayCall
  <1>2. \A h \in Handlers : called[h] = 0
    BY <1>1 DEF RInv, HandlersRunAtTheEnd
  <1>3. CASE ref_cnt' = 0
    <2>0. Unreferenced'
      BY <1>3 DEF Unreferenced
    <2>1. AllAway'
      BY <2>0, NobodyLeft, PTL
    <2>2. gone' /\ \A h \in Handlers : called'[h] = IF h \in destroy_list' THEN 1 ELSE 0
      <3>1. /\ called' = [h \in Handlers |-> called[h] + (IF h \in destroy_list THEN 1 ELSE 0)]
            /\ gone' = TRUE /\ destroy_list' = destroy_list
        BY <1>3 DEF pj_grp_lock_dec_ref, grp_lock_destroy
      <3> QED
        BY <1>2, <3>1
    <2> QED
      BY <2>1, <2>2 DEF HandlersRunAtTheEnd, AllAway
  <1>4. CASE ref_cnt' # 0
    BY <1>1, <1>2, <1>4 DEF pj_grp_lock_dec_ref, HandlersRunAtTheEnd
  <1> QED
    BY <1>3, <1>4

\* The invariant survives the start of every call of lock.c.
LEMMA CallKeeps ==
    ASSUME RInv, NEW th \in Threads, Call(th)
    PROVE  RInv'
  <1>0. CallsOK /\ Counted /\ HandlersRunAtTheEnd
    BY DEF RInv, CallsOK
  <1>1. ASSUME NEW o \in Ops \ {"none"}, NEW a, BeginAcquire(th, o, a)  PROVE RInv'
    <2>1. CallsOK' /\ Same /\ Silent /\ ~gone
      BY <1>0, <1>1, BeginsAcquire
    <2> QED
      BY <1>0, <2>1, CountKept, StillUsed DEF RInv, CallsOK
  <1>2. ASSUME NEW x \in Threads, pj_grp_lock_add_ref(th, x)  PROVE RInv'
    <2>1. CallsOK' /\ More(x) /\ Silent /\ ~gone
      BY <1>0, <1>2, AddsRef
    <2> QED
      BY <1>0, <2>1, CountKept, StillUsed DEF RInv, CallsOK
  <1>3. CASE \E l \in Ext : UserLock(th, l)
    <2>1. CallsOK' /\ Same /\ Silent /\ UNCHANGED <<destroy_list, pc, depth, refs>>
      BY <1>0, <1>3, UsersAside
    <2>2. HandlersRunAtTheEnd'
      BY <1>0, <2>1 DEF HandlersRunAtTheEnd, Silent
    <2> QED
      BY <1>0, <2>1, <2>2, CountKept DEF RInv, CallsOK
  <1>4. ASSUME NEW h \in Handlers, pj_grp_lock_add_handler(th, h) \/ pj_grp_lock_del_handler(th, h)
        PROVE  RInv'
    BY <1>1, <1>4 DEF pj_grp_lock_add_handler, pj_grp_lock_del_handler, Ops
  <1>5. ASSUME NEW l \in Ext, pj_grp_lock_chain_lock(th, l) \/ pj_grp_lock_unchain_lock(th, l)
        PROVE  RInv'
    BY <1>1, <1>5 DEF pj_grp_lock_chain_lock, pj_grp_lock_unchain_lock, Ops
  <1>6. CASE grp_lock_acquire(th) \/ grp_lock_tryacquire(th)
    BY <1>1, <1>6 DEF grp_lock_acquire, grp_lock_tryacquire, Ops
  <1> QED
    BY <1>2, <1>3, <1>4, <1>5, <1>6 DEF Call

\* The invariant survives every step of a call in progress, pj_grp_lock_dec_ref
\* being the one that may destroy the object.
LEMMA StepKeeps ==
    ASSUME RInv, NEW th \in Threads, Step(th)
    PROVE  RInv'
  <1>0. CallsOK /\ Counted /\ HandlersRunAtTheEnd
    BY DEF RInv, CallsOK
  <1>1. CASE UserUnlock(th)
    <2>1. CallsOK' /\ Same /\ Silent /\ UNCHANGED <<destroy_list, pc, depth, refs>>
      BY <1>0, <1>1, UsersAside
    <2>2. HandlersRunAtTheEnd'
      BY <1>0, <2>1 DEF HandlersRunAtTheEnd, Silent
    <2> QED
      BY <1>0, <2>1, <2>2, CountKept DEF RInv, CallsOK
  <1>2. CASE pj_grp_lock_dec_ref(th)
    <2>1. CallsOK' /\ Less(th)
      BY <1>0, <1>2, DropsRef
    <2>2. Counted'
      BY <1>0, <2>1, CountKept
    <2> QED
      BY <1>2, <2>1, <2>2, LastDrop DEF RInv, CallsOK
  <1>3. CASE ~UserUnlock(th) /\ ~pj_grp_lock_dec_ref(th)
    <2>0. ~gone
      BY <1>0, <1>3, NoStepAfter
    <2>1. CallsOK' /\ Silent /\ (Same \/ More(th))
      BY <1>0, <1>3, Walks, Enters, Leaves DEF Step
    <2> QED
      BY <1>0, <2>0, <2>1, CountKept, StillUsed DEF RInv, CallsOK
  <1> QED
    BY <1>1, <1>2, <1>3

\* The invariant is inductive for the whole of lock.c's group lock.
LEMMA NextKeeps == RInv /\ [Next]_vars => RInv'
  <1> SUFFICES ASSUME RInv, [Next]_vars  PROVE RInv'
    OBVIOUS
  <1>1. CASE UNCHANGED vars
    <2>1. UNCHANGED <<pc, op, refs, depth, ref_cnt, gone, called, destroy_list>>
      BY <1>1 DEF vars, locals, user, handlers
    <2>2. Debt' = Debt
      BY <2>1 DEF Debt, Answers
    <2>3. Counted'
      BY <2>1, <2>2 DEF RInv, Counted, Tokens
    <2> QED
      BY <2>1, <2>3 DEF RInv, CallTypes, InCall, OnTheWay, HandlersRunAtTheEnd
  <1>2. CASE Next
    BY <1>1, <1>2, CallKeeps, StepKeeps DEF Next, Done
  <1> QED
    BY <1>1, <1>2

\* pj_grp_lock_create establishes the invariant.
LEMMA InitKeeps == Init => RInv
  <1> SUFFICES ASSUME Init  PROVE RInv
    OBVIOUS
  <1>1. CallTypes /\ HandlersRunAtTheEnd /\ \A th \in Threads : InCall(th) /\ OnTheWay(th)
    <2>1. /\ pc = [th \in Threads |-> "idle"] /\ op = [th \in Threads |-> "none"]
          /\ refs = [th \in Threads |-> 0] /\ depth = [th \in Threads |-> 0]
          /\ ref_cnt = 0 /\ gone = FALSE /\ called = [h \in Handlers |-> 0]
      BY DEF Init
    <2>2. CallTypes
      <3>1. pc \in [Threads -> Pcs] /\ op \in [Threads -> Ops] /\ gone \in BOOLEAN
        BY <2>1, "idle" \in Pcs, "none" \in Ops DEF Pcs, Ops
      <3>2. /\ refs \in [Threads -> Nat] /\ depth \in [Threads -> Nat]
            /\ ref_cnt \in Int /\ called \in [Handlers -> Nat]
        BY <2>1
      <3> QED
        BY <3>1, <3>2 DEF CallTypes
    <2>3. HandlersRunAtTheEnd
      BY <2>1 DEF HandlersRunAtTheEnd
    <2>4. \A th \in Threads : InCall(th) /\ OnTheWay(th)
      BY <2>1 DEF InCall, OnTheWay
    <2> QED
      BY <2>2, <2>3, <2>4
  <1>2. Tokens(Debt) = {}
    BY DEF Init, Tokens, Debt, Answers
  <1>3. Counted
    BY <1>2, FS_EmptySet DEF Init, Counted
  <1> QED
    BY <1>1, <1>3 DEF RInv

\* grp_lock_destroy runs once, each registered handler is called then and only then,
\* and no thread is in, inside or answering for the object at that time or later.
THEOREM HandlersAlwaysAtTheEnd == Spec => []HandlersRunAtTheEnd
  <1>1. RInv => HandlersRunAtTheEnd
    BY DEF RInv
  <1> QED
    BY <1>1, InitKeeps, NextKeeps, PTL DEF Spec

\* The loop of pj_grp_lock_chain_lock finds a place behind the group's own lock.
LEMMA ChainsBehind ==
    ASSUME GoodList(lock_list), conf \in Configs, NEW e \in Ext, e \notin Range(lock_list)
    PROVE  GoodList(Insert(e)) /\ Range(Insert(e)) = Range(lock_list) \cup {e}
  <1> DEFINE S == {i \in DOMAIN lock_list : \A j \in 1..i : Prio(lock_list[j]) < Prio(e)}
             k == Cardinality(S)
  <1>0. DOMAIN lock_list = 1..Len(lock_list) /\ Len(lock_list) \in Nat /\ Len(lock_list) > 0
    BY SMTT(30), Z3T(30) DEF GoodList
  <1>1. S \subseteq 1..Len(lock_list) /\ 1 \in S
    <2>1. Prio(lock_list[1]) < Prio(e)
      BY SMTT(30), Z3T(30), GroupAssumption DEF Prio, GoodList
    <2>2. \A j \in 1..1 : j = 1
      OBVIOUS
    <2> QED
      BY <1>0, <2>1, <2>2
  <1> HIDE DEF S
  <1>2. IsFiniteSet(1..Len(lock_list)) /\ Cardinality(1..Len(lock_list)) = Len(lock_list)
    BY SMTT(30), Z3T(30), <1>0, FS_Interval
  <1>3. IsFiniteSet(S) /\ k <= Len(lock_list) /\ k \in Nat
    BY <1>1, <1>2, FS_Subset, FS_CardinalityType, ZenonT(120), SMTT(30)
  <1>4. k # 0
    BY <1>1, <1>3, FS_EmptySet
  <1>5. k \in 1..Len(lock_list)
    BY <1>0, <1>3, <1>4
  <1>6. Insert(e) = SubSeq(lock_list, 1, k) \o <<e>> \o SubSeq(lock_list, k + 1, Len(lock_list))
    BY DEF Insert, S
  <1> HIDE DEF k
  <1> QED
    BY SMTT(30), Z3T(30), <1>5, <1>6, InsertsItem DEF Locks

\* pj_grp_lock_chain_lock puts the lock, which it has as often as it is inside, in the list.
LEMMA ChainBodyKeeps ==
    ASSUME GInv, Calls', NEW th \in Threads, ChainBody(th)
    PROVE  GInv'
  <1>0. GoodList(lock_list) /\ Phase(th) /\ ListTypes /\ Calls /\ Mutexes /\ Owned
    BY DEF GInv
  <1> DEFINE e == arg[th]
             k == Inside(th)
  <1>1. /\ UNCHANGED <<conf, holder, nest, owner, owner_cnt, op, lck, arg, n, depth, direct>>
        /\ pc[th] = "chain" /\ pc'[th] = "leave" /\ n[th] = 0 /\ lock_list' = Insert(e)
        /\ Others(th)
    BY <1>0 DEF ChainBody, mutexes, ownership, user, Calls, CallTypes, ListTypes, Others, Still
  <1>2. /\ e \in Ext /\ op[th] = "chain" /\ direct[th] = End /\ e \notin Range(lock_list) /\ conf \in Configs
    BY <1>0, <1>1 DEF Phase, Chaining, ListTypes
  <1>3. k' = k /\ k \in Nat /\ k > 0
    BY <1>0, <1>1, InBody DEF Calls, CallTypes
  <1>4. owner_cnt = k
    BY <1>0, <1>3 DEF Owned
  <1>5. GoodList(lock_list') /\ Range(lock_list') = Range(lock_list) \cup {e}
    BY <1>0, <1>1, <1>2, ChainsBehind
  <1>6. At(th) = 0 /\ At(th)' = 0
    BY ZenonT(120), SMTT(30), <1>0, <1>1, <1>5, Places DEF At
  <1>7. Phase(th)'
    BY <1>0, <1>1, <1>2 DEF Phase, Chaining
  <1>8. /\ (\A x \in Threads : Phase(x)') /\ Apart' /\ Owned'
        /\ \A x \in Threads : x # th => HeldSame(x)
    BY <1>1, <1>2, <1>3, <1>5, <1>7, ListMoves DEF ownership, Chaining
  <1>9. HeldSame(th)
    <2> SUFFICES ASSUME NEW l \in Locks  PROVE Held(th, l)' = Held(th, l)
      BY DEF HeldSame
    <2>1. direct[th] # l /\ direct'[th] # l
      BY <1>1, <1>2, NotEnd
    <2>2. Extra(th, l) = (IF l = e THEN k ELSE 0) /\ Extra(th, l)' = 0
      <3>1. Extra(th, l) = (IF l = e THEN owner_cnt - 0 ELSE 0) + 0
        BY <1>1, <2>1 DEF Extra
      <3>2. Extra(th, l)' = 0 + 0
        BY <1>1, <2>1 DEF Extra
      <3> HIDE DEF e, k
      <3> QED
        BY <1>3, <1>4, <3>1, <3>2
    <2>3. Held(th, l) = (IF l \in Range(lock_list) THEN k ELSE 0) + Extra(th, l)
      BY <1>3, <1>6, AmountInside DEF Held
    <2>4. Held(th, l)' = (IF l \in Range(lock_list') THEN k ELSE 0) + Extra(th, l)'
      <3>1. Held(th, l)' = Amount(lock_list', 0, k, l) + Extra(th, l)'
        BY <1>3, <1>6 DEF Held
      <3> QED
        BY <1>3, <3>1, AmountInside
    <2> HIDE DEF e, k
    <2> QED
      <3>1. Held(th, l) = (IF l \in Range(lock_list) THEN k ELSE 0) + (IF l = e THEN k ELSE 0)
        BY <2>2, <2>3
      <3>2. Held(th, l)' = (IF l \in Range(lock_list) \cup {e} THEN k ELSE 0) + 0
        BY <1>5, <2>2, <2>4
      <3>3. (IF l \in Range(lock_list) THEN k ELSE 0) + (IF l = e THEN k ELSE 0)
               = (IF l \in Range(lock_list) \cup {e} THEN k ELSE 0) + 0
        <4> DEFINE S == Range(lock_list)
        <4>1. k \in Nat /\ e \notin S
          BY <1>2, <1>3
        <4> HIDE DEF S
        <4>2. (IF l \in S THEN k ELSE 0) + (IF l = e THEN k ELSE 0)
                 = (IF l \in S \cup {e} THEN k ELSE 0) + 0
          BY <4>1, OwedMoves
        <4> QED
          BY <4>2 DEF S
      <3> QED
        BY <3>1, <3>2, <3>3
  <1>10. Mutexes'
    BY <1>0, <1>1, <1>8, <1>9, MutexSame DEF mutexes
  <1>11. ListTypes'
    BY <1>0, <1>1 DEF ListTypes
  <1> QED
    BY <1>5, <1>8, <1>10, <1>11 DEF GInv

\* pj_grp_lock_create establishes the list's side of the invariant.
LEMMA InitList == Init => AInv
  <1> SUFFICES ASSUME Init  PROVE GInv
    BY InitKeeps DEF AInv
  <1>0. RInv
    BY InitKeeps
  <1>1. Calls
    BY <1>0 DEF Calls, RInv
  <1>2. GoodList(lock_list)
    <2>1. lock_list = <<Own>> /\ Own \in Locks
      BY DEF Init, Locks
    <2>2. lock_list \in Seq(Locks) /\ Len(lock_list) = 1 /\ lock_list[1] = Own
      BY <2>1
    <2> QED
      BY <2>2 DEF GoodList
  <1>3. /\ pc = [th \in Threads |-> "idle"] /\ op = [th \in Threads |-> "none"]
        /\ lck = [th \in Threads |-> End] /\ arg = [th \in Threads |-> End]
        /\ n = [th \in Threads |-> 0] /\ depth = [th \in Threads |-> 0]
        /\ direct = [th \in Threads |-> End] /\ owner = NoThread /\ owner_cnt = 0
        /\ holder = [l \in Locks |-> NoThread] /\ nest = [l \in Locks |-> 0] /\ conf \in Configs
    BY DEF Init
  <1>4. ListTypes
    BY <1>3 DEF ListTypes
  <1>5. \A th \in Threads : Phase(th)
    BY <1>3 DEF Phase, Chaining
  <1>6. Apart
    BY <1>3 DEF Apart, Chaining
  <1>7. \A th \in Threads : Inside(th) = 0
    BY <1>3 DEF Inside
  <1>8. Owned
    BY <1>3, <1>7, GroupAssumption DEF Owned
  <1>9. Mutexes
    <2>1. ASSUME NEW l \in Locks, NEW th \in Threads  PROVE Held(th, l) = 0
      <3>1. At(th) = 0
        BY ZenonT(120), SMTT(30), <1>2, <1>3, Places DEF At
      <3>2. Extra(th, l) = 0
        BY SMTT(30), Z3T(30), <1>3, GroupAssumption DEF Extra, Locks
      <3>3. Amount(lock_list, 0, 0, l) = 0
        BY AmountInside
      <3> QED
        BY <1>7, <3>1, <3>2, <3>3 DEF Held
    <2> QED
      BY <1>3, <2>1, GroupAssumption DEF Mutexes
  <1> QED
    BY <1>1, <1>2, <1>4, <1>5, <1>6, <1>8, <1>9 DEF GInv

\* And every step of a call keeps it so.
LEMMA StepList ==
    ASSUME AInv, RInv', NEW th \in Threads, Step(th)
    PROVE  GInv'
  <1>0. GInv /\ RInv /\ Calls'
    BY DEF AInv, RInv, Calls
  <1>1. CASE TryFails(th) \/ NextItem(th) \/ PrevItem(th)
    BY <1>0, <1>1, TurnKeeps
  <1>2. CASE AcquireItem(th)
    BY <1>0, <1>2, TakeKeeps
  <1>3. CASE ReleaseItem(th)
    BY <1>0, <1>3, GiveKeeps
  <1>4. CASE Released(th)
    BY <1>0, <1>4, ReleasedKeeps
  <1>5. CASE Entered(th)
    BY <1>0, <1>5, EnterKeeps
  <1>6. CASE grp_lock_release(th)
    BY <1>0, <1>6, LeaveKeeps
  <1>7. CASE ChainAcquires(th)
    BY <1>0, <1>7, ChainAcquiresKeeps
  <1>8. CASE ChainBody(th)
    BY <1>0, <1>8, ChainBodyKeeps
  <1>9. CASE HandlerBody(th) \/ (UnchainBody(th) /\ arg[th] \notin Range(lock_list))
    <2>1. /\ UNCHANGED <<conf, lock_list, holder, nest, owner, owner_cnt, op, lck, arg, n, depth, direct>>
          /\ pc[th] = "body" /\ pc' = [pc EXCEPT ![th] = "leave"]
      BY <1>9 DEF HandlerBody, UnchainBody, mutexes, ownership, user
    <2>2. pc \in [Threads -> Pcs]
      BY <1>0 DEF GInv, Calls, CallTypes
    <2>3. Others(th) /\ op'[th] = op[th] /\ depth'[th] = depth[th] /\ pc'[th] = "leave"
      BY <2>1, <2>2 DEF Others, Still
    <2> QED
      BY <1>0, <2>1, <2>3, AsideKeeps
  <1>10. CASE UnchainBody(th) /\ arg[th] \in Range(lock_list)
    BY <1>0, <1>10, UnchainBodyKeeps
  <1>11. CASE pj_grp_lock_dec_ref(th)
    <2>1. ~gone
      BY <1>0, <1>11 DEF RInv, HandlersRunAtTheEnd, pj_grp_lock_dec_ref, MayCall
    <2>2. gone' => AllAway'
      BY <1>0 DEF RInv, HandlersRunAtTheEnd, AllAway
    <2> QED
      BY <1>0, <1>11, <2>1, <2>2, DropKeeps
  <1>12. CASE UserUnlock(th)
    BY <1>0, <1>12, UserUnlockKeeps
  <1> QED
    BY <1>1, <1>2, <1>3, <1>4, <1>5, <1>6, <1>7, <1>8, <1>9, <1>10, <1>11, <1>12 DEF Step

\* The whole invariant is inductive.
LEMMA NextList == AInv /\ [Next]_vars => AInv'
  <1> SUFFICES ASSUME AInv, [Next]_vars  PROVE AInv'
    OBVIOUS
  <1>0. RInv' /\ Calls'
    BY NextKeeps DEF AInv, RInv, Calls
  <1>1. CASE UNCHANGED vars
    <2>1. UNCHANGED <<conf, lock_list, holder, nest, owner, owner_cnt, pc, op, lck, arg, n, depth, direct>>
      BY <1>1 DEF vars, mutexes, ownership, locals, user
    <2>2. \A th \in Threads : Inside(th)' = Inside(th) /\ At(th)' = At(th) /\ (Phase(th) => Phase(th)')
      BY ZenonT(120), SMTT(30), <2>1 DEF Inside, At, Phase, Chaining
    <2>3. \A th \in Threads : \A l \in Locks : Held(th, l)' = Held(th, l)
      BY <2>1, <2>2 DEF Held, Extra
    <2>4. Apart' /\ Owned' /\ Mutexes' /\ ListTypes' /\ GoodList(lock_list)'
      BY SMTT(30), Z3T(30), <2>1, <2>2, <2>3 DEF AInv, GInv, Apart, Owned, Mutexes, ListTypes, Chaining
    <2> QED
      BY <1>0, <2>2, <2>4 DEF AInv, GInv
  <1>2. ASSUME NEW th \in Threads, Call(th) \/ Step(th)  PROVE AInv'
    BY <1>0, <1>2, CallList, StepList DEF AInv
  <1> QED
    BY <1>1, <1>2 DEF Next, Done

\* The invariant of the counter and the list holds throughout.
THEOREM GroupInvariant == Spec => []AInv
  BY InitList, NextList, PTL DEF Spec

-----------------------------------------------------------------------------
\* Whoever is inside has every lock of the list as often, whatever is chained meanwhile.
THEOREM InsideHasAll == Spec => []HolderHasAll
  <1>1. AInv => HolderHasAll
    <2> SUFFICES ASSUME AInv, NEW th \in Threads, NEW l \in Range(lock_list), Inside(th) > 0
                 PROVE  holder[l] = th /\ nest[l] >= Inside(th)
      BY DEF HolderHasAll
    <2>0. GInv /\ GoodList(lock_list) /\ ListTypes /\ Mutexes /\ Phase(th)
      BY DEF AInv, GInv
    <2>1. At(th) \in Nat /\ Inside(th) \in Nat /\ l \in Locks
      BY SMTT(30), Z3T(30), <2>0, AtType, PlaceOf
    <2> DEFINE k == Inside(th)
               a == Amount(lock_list, At(th), k, l)
    <2>2. a >= k /\ a \in Nat
      BY <2>1 DEF Amount
    <2>3. Extra(th, l) \in Nat
      <3>1. pc[th] = "chain" => n[th] \in 0..owner_cnt
        BY <2>0 DEF Phase
      <3>2. owner_cnt \in Nat
        BY <2>0 DEF ListTypes
      <3> QED
        BY <3>1, <3>2 DEF Extra
    <2>4. Held(th, l) = a + Extra(th, l)
      BY DEF Held
    <2>5. Held(th, l) = IF holder[l] = th THEN nest[l] ELSE 0
      BY <2>0, <2>1 DEF Mutexes
    <2> HIDE DEF a, k
    <2> QED
      BY <2>1, <2>2, <2>3, <2>4, <2>5 DEF k
  <1> QED
    BY <1>1, GroupInvariant, PTL

\* A thread that has left has given back every lock it took in the group.
THEOREM NothingIsKept == Spec => []NothingKept
  <1>1. AInv => NothingKept
    <2> SUFFICES ASSUME AInv, NEW th \in Threads, NEW l \in Locks,
                        pc[th] = "idle", depth[th] = 0, holder[l] = th
                 PROVE  l = direct[th] /\ nest[l] = 1
      BY DEF NothingKept
    <2>0. GoodList(lock_list) /\ ListTypes /\ Mutexes
      BY DEF AInv, GInv
    <2>1. Inside(th) = 0
      BY DEF Inside
    <2>2. At(th) = 0
      BY SMTT(30), Z3T(30), <2>0, Places DEF At
    <2>3. Extra(th, l) = IF direct[th] = l THEN 1 ELSE 0
      BY DEF Extra
    <2>4. Held(th, l) = 0 + Extra(th, l)
      <3>1. Amount(lock_list, 0, 0, l) = 0
        BY SMTT(30), Z3T(30), AmountInside
      <3> QED
        BY <2>1, <2>2, <3>1 DEF Held
    <2>5. Held(th, l) = nest[l]
      BY <2>0 DEF Mutexes
    <2>6. nest[l] # 0
      BY <2>0, GroupAssumption DEF Mutexes
    <2> QED
      BY <2>3, <2>4, <2>5, <2>6
  <1> QED
    BY <1>1, GroupInvariant, PTL

\* lock.h's uniform order: no set of threads waits for itself.
THEOREM NeverDeadlocked == Spec => []NoDeadlock
  <1>1. AInv => NoDeadlock
    <2> SUFFICES ASSUME AInv, NEW S \in (SUBSET Threads) \ {{}},
                        \A th \in S : \E x \in S : WaitsFor(th, x)
                 PROVE  FALSE
      BY DEF NoDeadlock
    <2>1. S \subseteq Threads
      OBVIOUS
    <2>2. PICK th \in S : TRUE
      OBVIOUS
    <2>3. PICK x \in S : WaitsFor(th, x)
      OBVIOUS
    <2>4. PICK y \in S : WaitsFor(x, y)
      OBVIOUS
    <2>5. PICK z \in S : WaitsFor(y, z)
      OBVIOUS
    <2>6. Wants(th) = Own
      BY <2>1, <2>2, <2>3, <2>4, DirectUserIsFree
    <2>7. Wants(x) # Own
      BY <2>1, <2>3, <2>4, <2>6, OwnerWantsAnother
    <2> QED
      BY <2>1, <2>4, <2>5, <2>7, DirectUserIsFree
  <1> QED
    BY <1>1, GroupInvariant, PTL

\* pj_grp_lock_dec_ref gives up the last reference exactly when no thread answers for any.
LEMMA LastIsLast == CallsOK /\ Counted => (Unreferenced <=> NoDebt)
  BY DebtType, NoTokens DEF CallsOK, Counted, Unreferenced, NoDebt

\* The end of the walk in is its Enter, the start of the walk out its Leave, giving back a
\* reference its Drop; every other step is nothing to it.
LEMMA StepRefines ==
    ASSUME AInv, AInv', NEW th \in Threads, Step(th)
    PROVE  RL!Next \/ UNCHANGED RL!vars
  <1>0. CallsOK /\ CallsOK' /\ GInv /\ Calls' /\ Counted' /\ HandlersRunAtTheEnd
    BY DEF AInv, RInv, CallsOK, Calls
  <1>1. CASE UserUnlock(th)
    <2>1. Same /\ Silent
      BY <1>0, <1>1, UsersAside
    <2>2. UNCHANGED <<owner, owner_cnt>>
      BY <1>1 DEF UserUnlock, ownership
    <2> QED
      BY <2>1, <2>2, Stutters
  <1>2. CASE \/ AcquireItem(th) \/ TryFails(th) \/ NextItem(th) \/ ChainAcquires(th)
             \/ ChainBody(th) \/ UnchainBody(th) \/ HandlerBody(th)
             \/ ReleaseItem(th) \/ PrevItem(th) \/ Released(th)
    <2>1. Same /\ Silent
      BY <1>0, <1>2, Walks
    <2>2. UNCHANGED <<owner, owner_cnt>>
      BY <1>2 DEF AcquireItem, TryFails, NextItem, ChainAcquires, ChainBody, UnchainBody, HandlerBody,
                  ReleaseItem, PrevItem, Released, ownership
    <2> QED
      BY <2>1, <2>2, Stutters
  <1>3. CASE Entered(th)
    <2>0. ~gone
      BY <1>0, <1>3 DEF HandlersRunAtTheEnd, Entered
    <2>1. More(th) /\ Silent
      BY <1>0, <1>3, Enters
    <2>2. owner \in {NoThread, th} /\ owner' = th /\ owner_cnt' = owner_cnt + 1
      BY <1>0, <1>3, EnterKeeps
    <2>3. RL!Enter(th)
      BY <2>0, <2>1, <2>2 DEF RL!Enter, More, Silent, Debt
    <2> QED
      BY <2>3 DEF RL!Next
  <1>4. CASE grp_lock_release(th)
    <2>0. ~gone
      BY <1>0, <1>4 DEF HandlersRunAtTheEnd, grp_lock_release
    <2>1. Same /\ Silent
      BY <1>0, <1>4, Leaves
    <2>2. /\ owner = th /\ owner_cnt > 0 /\ owner_cnt' = owner_cnt - 1
          /\ owner' = IF owner_cnt = 1 THEN NoThread ELSE th
      BY <1>0, <1>4, LeaveKeeps
    <2>3. RL!Leave(th)
      BY <2>0, <2>1, <2>2 DEF RL!Leave, Same, Silent, Debt
    <2> QED
      BY <2>3 DEF RL!Next
  <1>5. CASE pj_grp_lock_dec_ref(th)
    <2>0. ~gone
      BY <1>0, <1>5 DEF HandlersRunAtTheEnd, pj_grp_lock_dec_ref, MayCall
    <2>1. Less(th)
      BY <1>0, <1>5, DropsRef
    <2>2. gone' => AllAway'
      BY DEF AInv, RInv, HandlersRunAtTheEnd, AllAway
    <2>3. UNCHANGED <<owner, owner_cnt>> /\ (gone' => owner = NoThread)
      BY <1>0, <1>5, <2>0, <2>2, DropKeeps
    <2>4. ref_cnt' = 0 <=> \A x \in Threads : Debt'[x] = 0
      <3>1. Unreferenced' <=> NoDebt'
        BY <1>0, LastIsLast, PTL
      <3> QED
        BY <3>1 DEF Unreferenced, NoDebt
    <2>5. gone' = (ref_cnt' = 0)
      <3>1. CASE ref_cnt' = 0
        <4>1. gone' = TRUE
          BY <1>5, <3>1 DEF pj_grp_lock_dec_ref, grp_lock_destroy
        <4> QED
          BY <3>1, <4>1
      <3>2. CASE ref_cnt' # 0
        <4>1. gone' = gone
          BY <1>5, <3>2 DEF pj_grp_lock_dec_ref
        <4>2. gone = FALSE
          BY <1>0, <2>0 DEF CallsOK, CallTypes
        <4> QED
          BY <3>2, <4>1, <4>2
      <3> QED
        BY <3>1, <3>2
    <2>6. gone' = \A x \in Threads : Debt'[x] = 0
      BY <2>4, <2>5
    <2>7. RL!Drop(th)
      BY <2>0, <2>1, <2>3, <2>6 DEF RL!Drop, Less, Debt
    <2> QED
      BY <2>7 DEF RL!Next
  <1> QED
    BY <1>1, <1>2, <1>3, <1>4, <1>5 DEF Step

\* The group lock implements the abstract lock: one thread inside at a time, and the object
\* goes with the last reference, whichever of release and dec_ref gives it back.
THEOREM GroupLockIsRefLock == Spec => ImplementsRefLock
  <1>1. Init => RL!Init
    <2> SUFFICES ASSUME Init  PROVE RL!Init
      OBVIOUS
    <2>1. \A th \in Threads : Answers(th) = 0
      BY DEF Init, Answers
    <2> QED
      BY <2>1 DEF Init, RL!Init
  <1>2. AInv /\ AInv' /\ [Next]_vars => [RL!Next]_(RL!vars)
    <2> SUFFICES ASSUME AInv, AInv', [Next]_vars  PROVE RL!Next \/ UNCHANGED RL!vars
      OBVIOUS
    <2>1. CASE UNCHANGED vars
      <3>1. UNCHANGED <<owner, owner_cnt, gone, pc, op, refs, depth>>
        BY <2>1 DEF vars, ownership, locals, user
      <3> QED
        BY <3>1 DEF RL!vars, Answers
    <2>2. ASSUME NEW th \in Threads, Call(th) \/ Step(th)  PROVE RL!Next \/ UNCHANGED RL!vars
      BY <2>2, CallRefines, StepRefines
    <2> QED
      BY <2>1, <2>2 DEF Next, Done
  <1> QED
    BY <1>1, <1>2, GroupInvariant, PTL DEF Spec, ImplementsRefLock, RL!Spec

==============================================================================
