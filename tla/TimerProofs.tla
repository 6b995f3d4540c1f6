---------------------------- MODULE TimerProofs ----------------------------
(***************************************************************************)
(* What the operations of TimerHeap do to its arrays, for arrays of any    *)
(* size: that the ids give the slots, that no entry is later than those    *)
(* under it, and that the unused cells of the table of ids form a list;    *)
(* and that the steps that add, move and remove an entry preserve this.    *)
(*                                                                         *)
(* The inductive invariant of the proofs is stated here.  The properties   *)
(* of TimerHeap say what holds when the lock is free; the invariant says   *)
(* what holds while arrays are being changed: the tree is complete if the  *)
(* entry that is being moved is put into the hole, and only the hole may   *)
(* be out of order.                                                        *)
(***************************************************************************)
EXTENDS TimerHeap, TLAPS

\* The provers are given time.
\* The provers tried on a leaf that names none, in this order.
USE ZenonT(10), SMTT(30), Z3T(30)

\* Slot p is the parent of slot c.
IsParent(p, c) == c = 2 * p + 1 \/ c = 2 * p + 2

\* The thread that has the lock is adding an entry, which cur_size does not
\* count yet.
Inserting == lock # NoThread /\ thr[lock].op = "insert"
Count == IF Inserting THEN cur_size + 1 ELSE cur_size

\* The entries of the heap by slot, as they will be when the loop ends here.
Tree == [i \in 0 .. Count - 1 |->
            IF hole.dir # "none" /\ i = hole.slot THEN hole.moved ELSE heap[i]]

\* The n entries of tree t are those that are armed, their ids are different
\* ids of an array of m cells, and give the slot of each except for that of the
\* hole h.
SlotsOK(t, n, h, m, tid, ids) ==
    /\ n \in Nat /\ m \in Nat /\ n + 1 < m
    /\ t \in [0 .. n - 1 -> Entries]
    /\ \A i, j \in 0 .. n - 1 : t[i] = t[j] => i = j
    /\ \A i \in 0 .. n - 1 : tid[t[i]] >= 1
    /\ \A e \in Entries : tid[e] >= 1 => \E i \in 0 .. n - 1 : t[i] = e
    /\ \A e \in Entries : tid[e] = -1 \/ tid[e] \in 1 .. m - 1
    /\ \A e, x \in Entries : tid[e] >= 1 /\ tid[e] = tid[x] => e = x
    /\ h.dir # "none" => h.slot \in 0 .. n - 1
    /\ \A i \in 0 .. n - 1 : (h.dir # "none" => i # h.slot) => ids[tid[t[i]]] = i

\* No entry is later than its children, except that one that moves up may be
\* earlier than its parent, and one that moves down later than its children.
OrderOK(t, n, h, val) ==
    /\ \A p, c \in 0 .. n - 1 :
           IsParent(p, c) /\ (h.dir # "none" => p # h.slot /\ c # h.slot)
               => val[t[p]] <= val[t[c]]
    /\ h.dir # "none" => \A p, c \in 0 .. n - 1 :
           IsParent(p, h.slot) /\ IsParent(h.slot, c) => val[t[p]] <= val[t[c]]
    /\ h.dir = "up" => \A c \in 0 .. n - 1 :
           IsParent(h.slot, c) => val[t[h.slot]] <= val[t[c]]
    /\ h.dir = "down" => \A p \in 0 .. n - 1 :
           IsParent(p, h.slot) => val[t[p]] <= val[t[h.slot]]

\* fl is the free list: it starts with free, ends with m, the first id past the
\* array, is long enough for the ids that n entries leave, and has none of
\* theirs.
FreeOK(fl, n, m, free, tid, ids) ==
    /\ fl \in [0 .. m - 1 - n -> 1 .. m]
    /\ fl[0] = free /\ fl[m - 1 - n] = m
    /\ \A k \in 0 .. m - 2 - n : fl[k] < m /\ ids[fl[k]] = -fl[k + 1]
    /\ \A j, k \in 0 .. m - 1 - n : fl[j] = fl[k] => j = k
    /\ \A k \in 0 .. m - 1 - n : \A e \in Entries : tid[e] # fl[k]

\* Where thread th is, and what it knows there.
ThreadOK(th) ==
    LET w == thr[th]
    IN  /\ lock = th <=> w.pc = "surgery"
        /\ w.op # "none" <=> w.pc = "surgery"
        /\ w.pc \in {"schedule", "surgery"} => w.node \in Entries
        /\ w.pc = "schedule" => timer_id[w.node] < 1
        /\ w.op = "insert" => timer_id[w.node] >= 1
        /\ w.op = "poll" => w.cb \in Entries /\ w.ret = "idle" /\ ~w.cb_grp
        /\ w.pc = "callback" => w.cb \in Entries /\ w.ret = "idle"
        /\ w.pc \in {"idle", "loop"} => w.cb = NoEntry /\ w.ret = "idle" /\ ~w.cb_grp
        /\ w.pc = "schedule" \/ w.op \in {"insert", "cancel"} =>
               IF w.ret = "callback" THEN w.cb \in Entries ELSE w.cb = NoEntry /\ ~w.cb_grp
        /\ w.now <= now

ThreadInv ==
    /\ lock = NoThread => hole = NoHole
    /\ hole.dir = "down" => ~Inserting
    /\ hole.dir = "none" => hole = NoHole
    /\ \A th \in Threads : ThreadOK(th)
    /\ \A th, x \in Threads :
           At(th, "schedule") /\ At(x, "schedule") /\ thr[th].node = thr[x].node => th = x
SlotInv == SlotsOK(Tree, Count, hole, max_size, timer_id, timer_ids)
OrderInv == OrderOK(Tree, Count, hole, timer_value)

FreeInv ==
    \E fl \in [0 .. max_size - 1 - Count -> 1 .. max_size] :
        FreeOK(fl, Count, max_size, freelist, timer_id, timer_ids)

\* The entry that has just been taken off the heap may still hold a reference.
RefInv ==
    /\ ref = Cardinality({e \in Entries : grp_lock[e]})
                 + Cardinality({th \in Threads : thr[th].cb_grp})
    /\ \A e \in Entries : grp_lock[e] =>
           \/ timer_id[e] >= 1
           \/ lock # NoThread /\ thr[lock].op \in {"cancel", "poll"} /\ thr[lock].node = e
    /\ Inserting => ~grp_lock[thr[lock].node]
ConfOK == conf \in Configs
IInv == TypeOK /\ ConfOK /\ ThreadInv /\ SlotInv /\ OrderInv /\ FreeInv /\ RefInv

----------------------------------------------------------------------------
(* Arithmetic.                                                              *)

\* HEAP_PARENT() inverts HEAP_LEFT().
LEMMA ParentIsParent ==
    ASSUME NEW x \in Nat, x > 0
    PROVE  /\ HEAP_PARENT(x) \in Nat /\ HEAP_PARENT(x) < x
           /\ IsParent(HEAP_PARENT(x), x)
  BY DEF HEAP_PARENT, IsParent

\* A slot has one parent, before it.
LEMMA OneParent ==
    ASSUME NEW p \in Nat, NEW q \in Nat, NEW c \in Nat, IsParent(p, c)
    PROVE  p < c /\ (IsParent(q, c) => p = q) /\ p = HEAP_PARENT(c)
<1>1. c > 0 /\ p < c /\ (IsParent(q, c) => p = q)
  BY DEF IsParent
<1>2. HEAP_PARENT(c) \in Nat /\ IsParent(HEAP_PARENT(c), c)
  BY <1>1, ParentIsParent
<1>3. p = HEAP_PARENT(c)
  <2>. DEFINE r == HEAP_PARENT(c)
  <2>1. r \in Nat /\ IsParent(r, c)
    BY <1>2
  <2>. HIDE DEF r
  <2>2. p = r
    BY <2>1 DEF IsParent
  <2>. QED
    BY <2>2 DEF r
<1>. QED
  BY <1>1, <1>3

----------------------------------------------------------------------------
(* The operations on the arrays, as relations between what they find (the   *)
(* tree t of n entries, ids, free list ...) and what they leave (t2 ...).    *)

\* f and g have the same values on D.
Agree(f, g, D) == \A k \in D : f[k] = g[k]

\* Entry e gets id free and is put at the end, where hole h2 is, of arrays that
\* may have grown from m to m2 cells.
Inserted(t, n, m, tid, ids, e, free, h2, t2, m2, tid2, ids2) ==
    /\ e \in Entries /\ tid[e] < 1
    /\ free \in 1 .. m - 1 /\ \A x \in Entries : tid[x] # free
    /\ m2 \in Nat /\ n + 2 < m2 /\ m <= m2
    /\ Agree(ids2, ids, 0 .. m - 1)
    /\ h2.dir = "up" /\ h2.slot = n
    /\ t2 \in [0 .. n -> Entries] /\ t2[n] = e /\ Agree(t2, t, 0 .. n - 1)
    /\ tid2[e] = free /\ Agree(tid2, tid, Entries \ {e})

\* The loop copies the entry of slot next to the hole, and goes on with next.
Moved(t, n, m, h, tid, ids, next, h2, t2, ids2) ==
    /\ h.dir # "none" /\ h2.dir = h.dir
    /\ next \in 0 .. n - 1 /\ next # h.slot /\ h2.slot = next
    /\ t2 \in [0 .. n - 1 -> Entries]
    /\ t2[h.slot] = t[next] /\ t2[next] = t[h.slot]
    /\ Agree(t2, t, (0 .. n - 1) \ {next, h.slot})
    /\ ids2[tid[t[next]]] = h.slot
    /\ Agree(ids2, ids, (0 .. m - 1) \ {tid[t[next]]})

\* The loop ends: the entry is copied to the hole.
Ended(t, m, h, tid, ids, h2, ids2) ==
    /\ h.dir # "none" /\ h2.dir = "none"
    /\ ids2[tid[t[h.slot]]] = h.slot
    /\ Agree(ids2, ids, (0 .. m - 1) \ {tid[t[h.slot]]})

\* The entry of a slot is removed and its id put in front of the free list; the
\* last entry is put into the slot.
Removed(t, n, m, tid, ids, free, slot, h2, t2, tid2, ids2) ==
    /\ slot \in 0 .. n - 1 /\ (h2.dir # "none" => h2.slot = slot /\ slot < n - 1)
    /\ slot < n - 1 => h2.dir # "none"
    /\ t2 \in [0 .. n - 2 -> Entries]
    /\ slot < n - 1 => t2[slot] = t[n - 1]
    /\ Agree(t2, t, (0 .. n - 2) \ {slot})
    /\ tid2[t[slot]] = -1 /\ Agree(tid2, tid, Entries \ {t[slot]})
    /\ ids2[tid[t[slot]]] = -free
    /\ slot < n - 1 => ids2[tid[t[n - 1]]] = slot
    /\ Agree(ids2, ids, (0 .. m - 1) \ {tid[t[slot]], tid[t[n - 1]]})

----------------------------------------------------------------------------
(* What the operations do to the slots.                                     *)

\* Adding an entry below the last slot keeps the slots in order.
LEMMA InsertSlots ==
    ASSUME NEW t, NEW n \in Nat, NEW h, NEW m \in Nat, NEW tid \in [Entries -> Int], NEW ids,
           SlotsOK(t, n, h, m, tid, ids), h.dir = "none",
           NEW e, NEW free, NEW h2, NEW t2, NEW m2, NEW tid2, NEW ids2,
           Inserted(t, n, m, tid, ids, e, free, h2, t2, m2, tid2, ids2)
    PROVE  SlotsOK(t2, n + 1, h2, m2, tid2, ids2)
<1>0. n + 1 < m /\ (n + 1) - 1 = n /\ e \in Entries /\ m2 \in Nat /\ free \in 1 .. m2 - 1 /\ free >= 1
  BY SMTT(30), Z3T(30) DEF SlotsOK, Inserted
<1>a. /\ t \in [0 .. n - 1 -> Entries]
      /\ \A i, j \in 0 .. n - 1 : t[i] = t[j] => i = j
      /\ \A i \in 0 .. n - 1 : tid[t[i]] >= 1 /\ tid[t[i]] \in 1 .. m - 1
  BY SMTT(30), Z3T(30) DEF SlotsOK
<1>1. t2 \in [0 .. n -> Entries] /\ t2[n] = e /\ \A i \in 0 .. n - 1 : t2[i] = t[i] /\ t2[i] # e
  BY SMTT(30), Z3T(30), <1>0, <1>a DEF Inserted, Agree
<1>2. tid2[e] = free /\ \A x \in Entries \ {e} : tid2[x] = tid[x]
  BY <1>0 DEF Inserted, Agree
<1>3. \A i, j \in 0 .. n : t2[i] = t2[j] => i = j
  BY SMTT(30), Z3T(30), <1>a, <1>1
<1>4. \A i \in 0 .. n : tid2[t2[i]] >= 1
  BY SMTT(30), Z3T(30), <1>0, <1>a, <1>1, <1>2
<1>5. ASSUME NEW x \in Entries, tid2[x] >= 1 PROVE \E i \in 0 .. n : t2[i] = x
  <2>1. CASE x = e
    BY SMTT(30), Z3T(30), <2>1, <1>1
  <2>2. CASE x # e
    <3>1. PICK i \in 0 .. n - 1 : t[i] = x
      BY <2>2, <1>2, <1>5 DEF SlotsOK
    <3>. QED
      BY SMTT(30), Z3T(30), <3>1, <1>1
  <2>. QED
    BY <2>1, <2>2
<1>6. \A x \in Entries : tid2[x] = -1 \/ tid2[x] \in 1 .. m2 - 1
  <2>1. \A x \in Entries : tid[x] = -1 \/ tid[x] \in 1 .. m2 - 1
    BY SMTT(30), Z3T(30) DEF SlotsOK, Inserted
  <2>. QED
    BY <2>1, <1>0, <1>2
<1>7. \A x, y \in Entries : tid2[x] >= 1 /\ tid2[x] = tid2[y] => x = y
  <2>1. /\ \A x \in Entries : tid[x] # free
        /\ \A x, y \in Entries : tid[x] >= 1 /\ tid[x] = tid[y] => x = y
    BY DEF SlotsOK, Inserted
  <2>. QED
    BY <2>1, <1>2
<1>8. ASSUME NEW i \in 0 .. n - 1 PROVE ids2[tid2[t2[i]]] = i
  <2>1. tid2[t2[i]] = tid[t[i]] /\ tid[t[i]] \in 0 .. m - 1
    BY SMTT(30), Z3T(30), <1>0, <1>a, <1>1, <1>2
  <2>2. ids[tid[t[i]]] = i
    BY DEF SlotsOK
  <2>. QED
    BY SMTT(30), Z3T(30), <2>1, <2>2 DEF Inserted, Agree
<1>9. n + 1 \in Nat /\ (n + 1) + 1 < m2 /\ h2.dir = "up" /\ h2.slot = n
  BY SMTT(30), Z3T(30) DEF Inserted
<1>. QED
  BY SMTT(30), Z3T(30), <1>0, <1>1, <1>3, <1>4, <1>5, <1>6, <1>7, <1>8, <1>9 DEF SlotsOK

\* So does an iteration that moves the hole.
LEMMA MoveSlots ==
    ASSUME NEW t, NEW n \in Nat, NEW h, NEW m \in Nat, NEW tid \in [Entries -> Int], NEW ids,
           SlotsOK(t, n, h, m, tid, ids), NEW next, NEW h2, NEW t2, NEW ids2,
           Moved(t, n, m, h, tid, ids, next, h2, t2, ids2)
    PROVE  SlotsOK(t2, n, h2, m, tid, ids2)
<1>0. n + 1 < m /\ h.slot \in 0 .. n - 1 /\ next \in 0 .. n - 1 /\ next # h.slot
  BY DEF SlotsOK, Moved
<1>a. /\ \A i, j \in 0 .. n - 1 : t[i] = t[j] => i = j
      /\ \A i \in 0 .. n - 1 : t[i] \in Entries /\ tid[t[i]] >= 1 /\ tid[t[i]] \in 1 .. m - 1
  BY SMTT(30), Z3T(30) DEF SlotsOK
<1>1. /\ t2[h.slot] = t[next] /\ t2[next] = t[h.slot]
      /\ \A i \in 0 .. n - 1 : i # next /\ i # h.slot => t2[i] = t[i]
  BY DEF Moved, Agree
<1>2. \A i, j \in 0 .. n - 1 : t2[i] = t2[j] => i = j
  BY SMTT(30), Z3T(30), <1>0, <1>1, <1>a
<1>3. \A i \in 0 .. n - 1 : tid[t2[i]] >= 1
  BY <1>0, <1>1, <1>a
<1>4. ASSUME NEW x \in Entries, tid[x] >= 1 PROVE \E i \in 0 .. n - 1 : t2[i] = x
  <2>1. PICK i \in 0 .. n - 1 : t[i] = x
    BY <1>4 DEF SlotsOK
  <2>. QED
    BY <2>1, <1>0, <1>1
<1>5. ASSUME NEW i \in 0 .. n - 1, i # next PROVE ids2[tid[t2[i]]] = i
  <2>1. CASE i = h.slot
    BY <2>1 DEF Moved
  <2>2. CASE i # h.slot
    <3>1. t2[i] = t[i] /\ t[i] # t[next]
      BY <2>2, <1>0, <1>1, <1>a, <1>5
    <3>2. ids[tid[t[i]]] = i /\ tid[t[i]] # tid[t[next]] /\ tid[t[i]] \in 0 .. m - 1
      BY SMTT(30), Z3T(30), <3>1, <2>2, <1>0, <1>a DEF SlotsOK
    <3>. QED
      BY SMTT(30), Z3T(30), <3>1, <3>2 DEF Moved, Agree
  <2>. QED
    BY <2>1, <2>2
<1>. QED
  BY <1>0, <1>2, <1>3, <1>4, <1>5 DEF SlotsOK, Moved

\* So does the end of a loop, which fills the hole.
LEMMA EndSlots ==
    ASSUME NEW t, NEW n \in Nat, NEW h, NEW m \in Nat, NEW tid \in [Entries -> Int], NEW ids,
           SlotsOK(t, n, h, m, tid, ids), NEW h2, NEW ids2, Ended(t, m, h, tid, ids, h2, ids2)
    PROVE  SlotsOK(t, n, h2, m, tid, ids2)
<1>0. h.slot \in 0 .. n - 1
  BY DEF SlotsOK, Ended
<1>1. ASSUME NEW i \in 0 .. n - 1 PROVE ids2[tid[t[i]]] = i
  <2>1. CASE i = h.slot
    BY <2>1 DEF Ended
  <2>2. CASE i # h.slot
    <3>1. t[i] # t[h.slot] /\ t[i] \in Entries /\ t[h.slot] \in Entries
      BY <1>0, <2>2 DEF SlotsOK
    <3>2. tid[t[i]] # tid[t[h.slot]] /\ ids[tid[t[i]]] = i /\ tid[t[i]] \in 0 .. m - 1
      BY SMTT(30), Z3T(30), <3>1, <1>0, <2>2 DEF SlotsOK
    <3>. QED
      BY <3>2 DEF Ended, Agree
  <2>. QED
    BY <2>1, <2>2
<1>. QED
  BY <1>1 DEF SlotsOK, Ended

\* So does remove_node(), up to the loop.
LEMMA RemoveSlots ==
    ASSUME NEW t, NEW n \in Nat, NEW h, NEW m \in Nat, NEW tid \in [Entries -> Int], NEW ids,
           SlotsOK(t, n, h, m, tid, ids), h.dir = "none",
           NEW free, NEW slot, NEW h2, NEW t2, NEW tid2, NEW ids2,
           Removed(t, n, m, tid, ids, free, slot, h2, t2, tid2, ids2)
    PROVE  SlotsOK(t2, n - 1, h2, m, tid2, ids2)
<1>0. n + 1 < m /\ slot \in 0 .. n - 1 /\ n - 1 \in Nat /\ (n - 1) - 1 = n - 2
  BY SMTT(30), Z3T(30) DEF SlotsOK, Removed
<1>a. /\ \A i, j \in 0 .. n - 1 : t[i] = t[j] => i = j
      /\ \A i \in 0 .. n - 1 : t[i] \in Entries /\ tid[t[i]] >= 1 /\ tid[t[i]] \in 1 .. m - 1
  BY SMTT(30), Z3T(30) DEF SlotsOK
<1>b. \A e, x \in Entries : tid[e] >= 1 /\ tid[e] = tid[x] => e = x
  BY DEF SlotsOK
<1>1. \A i \in 0 .. n - 2 : t2[i] = IF i = slot THEN t[n - 1] ELSE t[i]
  BY SMTT(30), Z3T(30), <1>0 DEF Removed, Agree
<1>2. \A i \in 0 .. n - 2 : t2[i] \in Entries /\ t2[i] # t[slot]
  BY SMTT(30), Z3T(30), <1>0, <1>a, <1>1
<1>3. \A i, j \in 0 .. n - 2 : t2[i] = t2[j] => i = j
  BY SMTT(30), Z3T(30), <1>0, <1>a, <1>1
<1>4. tid2[t[slot]] = -1 /\ \A x \in Entries : x # t[slot] => tid2[x] = tid[x]
  BY DEF Removed, Agree
<1>5. \A i \in 0 .. n - 2 : tid2[t2[i]] = tid[t2[i]] /\ tid[t2[i]] >= 1 /\ tid[t2[i]] \in 0 .. m - 1
  <2>1. \A i \in 0 .. n - 2 : tid2[t2[i]] = tid[t2[i]]
    BY <1>2, <1>4
  <2>. QED
    BY SMTT(30), Z3T(30), <2>1, <1>0, <1>a, <1>1
<1>6. ASSUME NEW x \in Entries, tid2[x] >= 1 PROVE \E i \in 0 .. n - 2 : t2[i] = x
  <2>1. x # t[slot] /\ tid[x] >= 1
    BY SMTT(30), Z3T(30), <1>4, <1>6
  <2>2. PICK i \in 0 .. n - 1 : t[i] = x
    BY <2>1 DEF SlotsOK
  <2>3. CASE i < n - 1
    BY SMTT(30), Z3T(30), <1>0, <1>1, <2>1, <2>2, <2>3
  <2>4. CASE i = n - 1
    <3>1. slot \in 0 .. n - 2
      BY <1>0, <2>1, <2>2, <2>4
    <3>. QED
      BY <3>1, <1>1, <2>2, <2>4
  <2>. QED
    BY <2>3, <2>4, <1>0
<1>7. \A x \in Entries : tid2[x] = -1 \/ tid2[x] \in 1 .. m - 1
  BY <1>4 DEF SlotsOK
<1>8. \A x, y \in Entries : tid2[x] >= 1 /\ tid2[x] = tid2[y] => x = y
  <2>. SUFFICES ASSUME NEW x \in Entries, NEW y \in Entries, tid2[x] >= 1, tid2[x] = tid2[y]
                PROVE  x = y
    OBVIOUS
  <2>1. x # t[slot] /\ y # t[slot]
    BY <1>4
  <2>. QED
    BY <2>1, <1>4, <1>b
<1>9. ASSUME NEW i \in 0 .. n - 2 PROVE ids2[tid2[t2[i]]] = i
  <2>1. CASE i = slot
    <3>1. slot < n - 1 /\ t2[i] = t[n - 1]
      BY SMTT(30), Z3T(30), <2>1, <1>0, <1>1
    <3>. QED
      BY <3>1, <2>1, <1>5 DEF Removed
  <2>2. CASE i # slot
    <3>1. t2[i] = t[i] /\ t[i] # t[n - 1] /\ t[n - 1] \in Entries /\ t[i] \in Entries /\ t[slot] \in Entries
      BY SMTT(30), Z3T(30), <2>2, <1>0, <1>1, <1>a
    <3>2. tid[t[i]] >= 1 /\ tid[t[i]] \in 0 .. m - 1
      BY <3>1, <1>5
    <3>3. tid[t[i]] # tid[t[n - 1]] /\ tid[t[i]] # tid[t[slot]]
      BY <3>1, <3>2, <1>2, <1>b
    <3>4. ids[tid[t[i]]] = i
      BY SMTT(30), Z3T(30), <1>0 DEF SlotsOK
    <3>5. ids2[tid[t[i]]] = ids[tid[t[i]]]
      BY <3>2, <3>3 DEF Removed, Agree
    <3>. QED
      BY <3>1, <3>4, <3>5, <1>5
  <2>. QED
    BY <2>1, <2>2
<1>10. t2 \in [0 .. n - 2 -> Entries] /\ (h2.dir # "none" => h2.slot \in 0 .. n - 2)
  BY SMTT(30), Z3T(30), <1>0 DEF Removed
<1>11. \A i \in 0 .. n - 2 : tid2[t2[i]] >= 1
  BY <1>5
<1>12. n - 1 \in Nat /\ (n - 1) + 1 < m
  BY <1>0
<1>. QED
  BY <1>0, <1>3, <1>6, <1>7, <1>8, <1>9, <1>10, <1>11, <1>12 DEF SlotsOK

----------------------------------------------------------------------------
(* What the operations do to the order.                                     *)

\* A new entry at the end has no children.
LEMMA InsertOrder ==
    ASSUME NEW t, NEW n \in Nat, NEW h, NEW m \in Nat, NEW tid \in [Entries -> Int], NEW ids,
           SlotsOK(t, n, h, m, tid, ids), h.dir = "none",
           NEW e, NEW free, NEW h2, NEW t2, NEW m2, NEW tid2, NEW ids2,
           Inserted(t, n, m, tid, ids, e, free, h2, t2, m2, tid2, ids2),
           NEW val, NEW val2, Agree(val2, val, Entries \ {e}), OrderOK(t, n, h, val)
    PROVE  OrderOK(t2, n + 1, h2, val2)
<1>1. h2.dir = "up" /\ h2.slot = n /\ (n + 1) - 1 = n
  BY DEF Inserted
<1>2. \A i \in 0 .. n - 1 : t2[i] = t[i]
  BY DEF Inserted, Agree
<1>3. \A i \in 0 .. n - 1 : t[i] \in Entries /\ t[i] # e
  BY SMTT(30), Z3T(30) DEF SlotsOK, Inserted
<1>4. \A i \in 0 .. n - 1 : val2[t[i]] = val[t[i]]
  BY <1>3 DEF Agree
<1>5. \A c \in 0 .. n : ~IsParent(n, c)
  BY DEF IsParent
<1>6. ASSUME NEW p \in 0 .. n, NEW c \in 0 .. n, IsParent(p, c), p # n, c # n
      PROVE  val2[t2[p]] <= val2[t2[c]]
  <2>1. p \in 0 .. n - 1 /\ c \in 0 .. n - 1
    BY <1>6
  <2>2. val[t[p]] <= val[t[c]]
    BY <2>1, <1>6 DEF OrderOK
  <2>. QED
    BY <2>1, <2>2, <1>2, <1>4
<1>. QED
  BY <1>1, <1>5, <1>6 DEF OrderOK

\* The entry moves up over a parent that is later.
LEMMA MoveUpOrder ==
    ASSUME NEW n \in Nat, NEW t \in [0 .. n - 1 -> Entries], NEW h, h.slot \in 0 .. n - 1,
           NEW m, NEW tid, NEW ids, NEW next, NEW h2, NEW t2, NEW ids2,
           Moved(t, n, m, h, tid, ids, next, h2, t2, ids2),
           NEW val \in [Entries -> Nat], OrderOK(t, n, h, val), h.dir = "up",
           IsParent(next, h.slot), val[t[h.slot]] < val[t[next]]
    PROVE  OrderOK(t2, n, h2, val)
<1>1. next \in 0 .. n - 1 /\ next # h.slot /\ h2.slot = next /\ h2.dir = "up"
  BY DEF Moved
<1>2. /\ t2[h.slot] = t[next] /\ t2[next] = t[h.slot]
      /\ \A i \in 0 .. n - 1 : i # next /\ i # h.slot => t2[i] = t[i]
  BY DEF Moved, Agree
<1>3. \A p, c \in 0 .. n - 1 : IsParent(p, c) /\ p # h.slot /\ c # h.slot => val[t[p]] <= val[t[c]]
  BY DEF OrderOK
<1>4. \A c \in 0 .. n - 1 : IsParent(h.slot, c) => val[t[next]] <= val[t[c]]
  BY <1>1 DEF OrderOK
<1>5. \A i \in 0 .. n - 1 : val[t[i]] \in Nat
  OBVIOUS
<1>6. \A p \in 0 .. n - 1 : IsParent(p, h.slot) => p = next
  BY SMTT(30), Z3T(30), <1>1, OneParent
<1>7. \A p, c \in 0 .. n - 1 : IsParent(p, c) => p # c
  BY SMTT(30), Z3T(30), OneParent
<1>8. ASSUME NEW p \in 0 .. n - 1, NEW c \in 0 .. n - 1, IsParent(p, c), p # next, c # next
      PROVE  val[t2[p]] <= val[t2[c]]
  <2>1. c # h.slot
    BY <1>6, <1>8
  <2>2. CASE p = h.slot
    BY <2>1, <2>2, <1>2, <1>4, <1>8
  <2>3. CASE p # h.slot
    BY <2>1, <2>3, <1>2, <1>3, <1>8
  <2>. QED
    BY <2>2, <2>3
<1>9. ASSUME NEW c \in 0 .. n - 1, IsParent(next, c)
      PROVE  val[t[next]] <= val[t2[c]]
  <2>1. CASE c = h.slot
    BY SMTT(30), Z3T(30), <2>1, <1>1, <1>2, <1>5
  <2>2. CASE c # h.slot
    <3>1. c # next
      BY <1>1, <1>7, <1>9
    <3>. QED
      BY <2>2, <3>1, <1>1, <1>2, <1>3, <1>9
  <2>. QED
    BY <2>1, <2>2
<1>10. ASSUME NEW c \in 0 .. n - 1, IsParent(next, c)
       PROVE  val[t2[next]] <= val[t2[c]]
  <2>1. t2[c] \in Entries
    BY DEF Moved
  <2>2. val[t2[c]] \in Nat /\ val[t[next]] \in Nat /\ val[t[h.slot]] \in Nat
    BY <2>1, <1>1, <1>5
  <2>. QED
    BY SMTT(30), Z3T(30), <2>2, <1>2, <1>9, <1>10
<1>11. ASSUME NEW p \in 0 .. n - 1, NEW c \in 0 .. n - 1, IsParent(p, next), IsParent(next, c)
       PROVE  val[t2[p]] <= val[t2[c]]
  <2>1. p # next
    BY <1>1, <1>7, <1>11
  <2>2. p # h.slot
    <3>1. p < next /\ next < h.slot
      BY SMTT(30), Z3T(30), <1>1, <1>11, OneParent
    <3>. QED
      BY <3>1, <1>1
  <2>3. val[t2[p]] = val[t[p]] /\ val[t[p]] <= val[t[next]]
    BY <2>1, <2>2, <1>1, <1>2, <1>3, <1>11
  <2>4. t2[c] \in Entries
    BY DEF Moved
  <2>5. val[t[p]] \in Nat /\ val[t2[c]] \in Nat /\ val[t[next]] \in Nat
    BY <2>4, <1>1, <1>5
  <2>. QED
    BY <2>3, <2>5, <1>9, <1>11
<1>. QED
  BY <1>1, <1>8, <1>10, <1>11 DEF OrderOK

\* The entry moves down below the earlier one of its children.
LEMMA MoveDownOrder ==
    ASSUME NEW n \in Nat, NEW t \in [0 .. n - 1 -> Entries], NEW h, h.slot \in 0 .. n - 1,
           NEW m, NEW tid, NEW ids, NEW next, NEW h2, NEW t2, NEW ids2,
           Moved(t, n, m, h, tid, ids, next, h2, t2, ids2),
           NEW val \in [Entries -> Nat], OrderOK(t, n, h, val), h.dir = "down",
           IsParent(h.slot, next), val[t[next]] < val[t[h.slot]],
           \A c \in 0 .. n - 1 : IsParent(h.slot, c) => val[t[next]] <= val[t[c]]
    PROVE  OrderOK(t2, n, h2, val)
<1>1. next \in 0 .. n - 1 /\ next # h.slot /\ h2.slot = next /\ h2.dir = "down"
  BY DEF Moved
<1>2. /\ t2[h.slot] = t[next] /\ t2[next] = t[h.slot]
      /\ \A i \in 0 .. n - 1 : i # next /\ i # h.slot => t2[i] = t[i]
  BY DEF Moved, Agree
<1>3. \A p, c \in 0 .. n - 1 : IsParent(p, c) /\ p # h.slot /\ c # h.slot => val[t[p]] <= val[t[c]]
  BY DEF OrderOK
<1>4. \A p \in 0 .. n - 1 : IsParent(p, h.slot) => val[t[p]] <= val[t[next]]
  BY <1>1 DEF OrderOK
<1>5. \A i \in 0 .. n - 1 : val[t[i]] \in Nat
  OBVIOUS
<1>6. \A p \in 0 .. n - 1 : IsParent(p, next) => p = h.slot
  BY SMTT(30), Z3T(30), <1>1, OneParent
<1>7. \A p, c \in 0 .. n - 1 : IsParent(p, c) => p < c
  BY SMTT(30), Z3T(30), OneParent
<1>8. ASSUME NEW p \in 0 .. n - 1, NEW c \in 0 .. n - 1, IsParent(p, c), p # next, c # next
      PROVE  val[t2[p]] <= val[t2[c]]
  <2>1. p # c
    BY <1>7, <1>8
  <2>2. CASE p = h.slot
    BY <2>1, <2>2, <1>2, <1>8
  <2>3. CASE c = h.slot
    BY <2>1, <2>3, <1>2, <1>4, <1>8
  <2>4. CASE p # h.slot /\ c # h.slot
    BY <2>4, <1>2, <1>3, <1>8
  <2>. QED
    BY <2>2, <2>3, <2>4
<1>9. ASSUME NEW c \in 0 .. n - 1, IsParent(next, c)
      PROVE  val[t2[h.slot]] <= val[t2[c]]
  <2>1. h.slot < next /\ next < c
    BY <1>1, <1>7, <1>9
  <2>2. c # h.slot /\ c # next
    BY <2>1, <1>1
  <2>. QED
    BY <2>2, <1>1, <1>2, <1>3, <1>9
<1>10. val[t2[h.slot]] <= val[t2[next]]
  BY SMTT(30), Z3T(30), <1>1, <1>2, <1>5
<1>. QED
  BY <1>1, <1>6, <1>8, <1>9, <1>10 DEF OrderOK

\* The loop ends where the entry is in order.
LEMMA EndOrder ==
    ASSUME NEW t, NEW n \in Nat, NEW h, NEW val, OrderOK(t, n, h, val), NEW h2, h2.dir = "none",
           \A p \in 0 .. n - 1 : IsParent(p, h.slot) => val[t[p]] <= val[t[h.slot]],
           \A c \in 0 .. n - 1 : IsParent(h.slot, c) => val[t[h.slot]] <= val[t[c]]
    PROVE  OrderOK(t, n, h2, val)
<1>1. ASSUME NEW p \in 0 .. n - 1, NEW c \in 0 .. n - 1, IsParent(p, c)
      PROVE  val[t[p]] <= val[t[c]]
  <2>1. CASE p = h.slot
    BY <2>1, <1>1
  <2>2. CASE c = h.slot
    BY <2>2, <1>1
  <2>3. CASE p # h.slot /\ c # h.slot
    BY <2>3, <1>1 DEF OrderOK
  <2>. QED
    BY <2>1, <2>2, <2>3
<1>. QED
  BY <1>1 DEF OrderOK

\* The entry put in place of the one that is removed goes up if it is earlier
\* than the parent, and down otherwise.
LEMMA RemoveOrder ==
    ASSUME NEW n \in Nat, NEW t \in [0 .. n - 1 -> Entries], NEW h, h.dir = "none",
           NEW m, NEW tid, NEW ids, NEW free, NEW slot, NEW h2, NEW t2, NEW tid2, NEW ids2,
           Removed(t, n, m, tid, ids, free, slot, h2, t2, tid2, ids2),
           NEW val \in [Entries -> Nat], OrderOK(t, n, h, val),
           h2.dir = "up" => \E p \in 0 .. n - 1 : IsParent(p, slot) /\ val[t[n - 1]] < val[t[p]],
           h2.dir = "down" => \A p \in 0 .. n - 1 : IsParent(p, slot) => val[t[p]] <= val[t[n - 1]]
    PROVE  OrderOK(t2, n - 1, h2, val)
<1>0. slot \in 0 .. n - 1 /\ n - 1 \in Nat /\ (n - 1) - 1 = n - 2
  BY DEF Removed
<1>1. \A i \in 0 .. n - 2 : t2[i] = IF i = slot THEN t[n - 1] ELSE t[i]
  BY SMTT(30), Z3T(30), <1>0 DEF Removed, Agree
<1>2. \A p, c \in 0 .. n - 1 : IsParent(p, c) => val[t[p]] <= val[t[c]]
  BY DEF OrderOK
<1>3. \A i \in 0 .. n - 1 : val[t[i]] \in Nat
  OBVIOUS
<1>4. /\ h2.dir # "none" => h2.slot = slot /\ slot < n - 1
      /\ slot < n - 1 => h2.dir # "none"
  BY DEF Removed
<1>5. ASSUME NEW p \in 0 .. n - 2, NEW c \in 0 .. n - 2, IsParent(p, c),
             h2.dir # "none" => p # h2.slot /\ c # h2.slot
      PROVE  val[t2[p]] <= val[t2[c]]
  <2>1. p # slot /\ c # slot
    BY <1>0, <1>4, <1>5
  <2>. QED
    BY SMTT(30), Z3T(30), <2>1, <1>0, <1>1, <1>2, <1>5
<1>6. ASSUME NEW p \in 0 .. n - 2, NEW c \in 0 .. n - 2, IsParent(p, slot), IsParent(slot, c)
      PROVE  val[t2[p]] <= val[t2[c]]
  <2>1. p < slot /\ slot < c
    BY SMTT(30), Z3T(30), <1>0, <1>6, OneParent
  <2>2. t2[p] = t[p] /\ t2[c] = t[c] /\ val[t[p]] <= val[t[slot]] /\ val[t[slot]] <= val[t[c]]
    BY SMTT(30), Z3T(30), <2>1, <1>0, <1>1, <1>2, <1>6
  <2>3. val[t[p]] \in Nat /\ val[t[slot]] \in Nat /\ val[t[c]] \in Nat
    BY SMTT(30), Z3T(30), <1>0, <1>3
  <2>. QED
    BY <2>2, <2>3
<1>7. ASSUME h2.dir = "up", NEW c \in 0 .. n - 2, IsParent(slot, c)
      PROVE  val[t2[slot]] <= val[t2[c]]
  <2>1. PICK p \in 0 .. n - 1 : IsParent(p, slot) /\ val[t[n - 1]] < val[t[p]]
    BY <1>7
  <2>2. slot < c /\ slot \in 0 .. n - 2
    BY SMTT(30), Z3T(30), <1>0, <1>7, OneParent
  <2>3. t2[slot] = t[n - 1] /\ t2[c] = t[c] /\ val[t[p]] <= val[t[slot]] /\ val[t[slot]] <= val[t[c]]
    BY SMTT(30), Z3T(30), <2>1, <2>2, <1>0, <1>1, <1>2, <1>7
  <2>4. val[t[p]] \in Nat /\ val[t[slot]] \in Nat /\ val[t[c]] \in Nat /\ val[t[n - 1]] \in Nat
    BY SMTT(30), Z3T(30), <1>0, <1>3
  <2>. QED
    BY <2>1, <2>3, <2>4
<1>8. ASSUME h2.dir = "down", NEW p \in 0 .. n - 2, IsParent(p, slot)
      PROVE  val[t2[p]] <= val[t2[slot]]
  <2>1. p < slot /\ slot \in 0 .. n - 2
    BY SMTT(30), Z3T(30), <1>0, <1>4, <1>8, OneParent
  <2>2. t2[p] = t[p] /\ t2[slot] = t[n - 1]
    BY <2>1, <1>0, <1>1
  <2>. QED
    BY SMTT(30), Z3T(30), <2>2, <1>0, <1>8
<1>. QED
  BY <1>0, <1>4, <1>5, <1>6, <1>7, <1>8 DEF OrderOK

----------------------------------------------------------------------------
(* What the operations do to the free list.                                 *)

\* The first id of the free list is one of the array that no entry has, and it
\* leads to the second one.
LEMMA FreeHead ==
    ASSUME NEW n \in Nat, NEW m \in Nat, n + 1 < m, NEW fl, NEW free, NEW tid, NEW ids,
           FreeOK(fl, n, m, free, tid, ids)
    PROVE  /\ free \in 1 .. m - 1 /\ free = fl[0] /\ ids[free] = -fl[1]
           /\ fl[1] \in 1 .. m /\ ids[free] < 0 /\ -ids[free] = fl[1]
           /\ \A e \in Entries : tid[e] # free
<1>1. 0 \in 0 .. m - 1 - n /\ 1 \in 0 .. m - 1 - n /\ 0 \in 0 .. m - 2 - n /\ 0 + 1 = 1
  OBVIOUS
<1>2. fl[0] \in 1 .. m /\ fl[1] \in 1 .. m /\ fl[0] = free
  BY <1>1 DEF FreeOK
<1>3. fl[0] < m /\ ids[fl[0]] = -fl[1]
  BY <1>1 DEF FreeOK
<1>4. \A e \in Entries : tid[e] # fl[0]
  BY <1>1 DEF FreeOK
<1>. QED
  BY <1>2, <1>3, <1>4

\* Storing the slot of an id that is in use leaves the list alone.
LEMMA FreeKept ==
    ASSUME NEW n \in Nat, NEW m \in Nat, n + 1 < m, NEW fl, NEW free, NEW tid, NEW ids,
           FreeOK(fl, n, m, free, tid, ids), NEW e \in Entries,
           NEW ids2, Agree(ids2, ids, (0 .. m - 1) \ {tid[e]})
    PROVE  FreeOK(fl, n, m, free, tid, ids2)
<1>1. ASSUME NEW k \in 0 .. m - 2 - n PROVE fl[k] < m /\ ids2[fl[k]] = -fl[k + 1]
  <2>1. k \in 0 .. m - 1 - n /\ fl[k] < m /\ ids[fl[k]] = -fl[k + 1]
    BY SMTT(30), Z3T(30) DEF FreeOK
  <2>2. fl[k] \in 1 .. m /\ fl[k] # tid[e]
    BY <2>1 DEF FreeOK
  <2>. QED
    BY SMTT(30), Z3T(30), <2>1, <2>2 DEF Agree
<1>. QED
  BY <1>1 DEF FreeOK

\* pop_freelist(), when the heap does not grow.
LEMMA FreePopped ==
    ASSUME NEW n \in Nat, NEW m \in Nat, n + 1 < m, NEW fl, NEW free, NEW tid, NEW ids,
           FreeOK(fl, n, m, free, tid, ids), NEW e \in Entries,
           NEW tid2, tid2[e] = free, Agree(tid2, tid, Entries \ {e}),
           NEW f2, f2 = [k \in 0 .. m - 2 - n |-> fl[k + 1]]
    PROVE  FreeOK(f2, n + 1, m, -ids[free], tid2, ids)
<1>0. m - 1 - (n + 1) = m - 2 - n /\ m - 2 - n \in Nat /\ m - 2 - (n + 1) = m - 3 - n
  OBVIOUS
<1>1. \A k \in 0 .. m - 2 - n : k + 1 \in 0 .. m - 1 - n
  OBVIOUS
<1>2. f2 \in [0 .. m - 2 - n -> 1 .. m]
  BY <1>1 DEF FreeOK
<1>3. f2[0] = -ids[free] /\ free = fl[0]
  BY SMTT(30), Z3T(30), <1>0, FreeHead
<1>4. f2[m - 2 - n] = m
  <2>1. f2[m - 2 - n] = fl[(m - 2 - n) + 1] /\ (m - 2 - n) + 1 = m - 1 - n
    BY <1>0
  <2>. QED
    BY <2>1 DEF FreeOK
<1>5. ASSUME NEW k \in 0 .. m - 3 - n PROVE f2[k] < m /\ ids[f2[k]] = -f2[k + 1]
  <2>1. k + 1 \in 0 .. m - 2 - n /\ k \in 0 .. m - 2 - n
    BY <1>0
  <2>2. f2[k] = fl[k + 1] /\ f2[k + 1] = fl[(k + 1) + 1]
    BY <2>1
  <2>. QED
    BY <2>1, <2>2 DEF FreeOK
<1>6. ASSUME NEW j \in 0 .. m - 2 - n, NEW k \in 0 .. m - 2 - n, f2[j] = f2[k] PROVE j = k
  <2>1. fl[j + 1] = fl[k + 1]
    BY <1>6
  <2>2. j + 1 = k + 1
    BY <2>1, <1>1 DEF FreeOK
  <2>. QED
    BY <2>2
<1>7. ASSUME NEW k \in 0 .. m - 2 - n, NEW x \in Entries PROVE tid2[x] # f2[k]
  <2>1. f2[k] = fl[k + 1] /\ k + 1 \in 0 .. m - 1 - n /\ 0 \in 0 .. m - 1 - n /\ k + 1 # 0
    BY <1>0
  <2>2. fl[k + 1] # fl[0] /\ tid[x] # fl[k + 1]
    BY <2>1 DEF FreeOK
  <2>. QED
    BY <2>1, <2>2, <1>3 DEF Agree
<1>. QED
  BY <1>0, <1>2, <1>3, <1>4, <1>5, <1>6, <1>7 DEF FreeOK

\* grow_heap() puts the new ids at the end.
LEMMA FreeGrown ==
    ASSUME NEW n \in Nat, NEW m \in Nat, n < m, NEW fl, NEW free, NEW tid, NEW ids,
           FreeOK(fl, n, m, free, tid, ids), \A e \in Entries : tid[e] < m,
           NEW ids2, Agree(ids2, ids, 0 .. m - 1), \A i \in m .. 2 * m - 1 : ids2[i] = -(i + 1),
           NEW f2, f2 = [k \in 0 .. 2 * m - 1 - n |-> IF k < m - n THEN fl[k] ELSE k + n + 1]
    PROVE  FreeOK(f2, n, 2 * m, free, tid, ids2)
<1>0. /\ fl \in [0 .. m - 1 - n -> 1 .. m] /\ fl[0] = free /\ fl[m - 1 - n] = m
      /\ \A k \in 0 .. m - 2 - n : fl[k] < m /\ ids[fl[k]] = -fl[k + 1]
  BY DEF FreeOK
<1>1. \A k \in 0 .. 2 * m - 1 - n : k < m - n => k \in 0 .. m - 1 - n /\ f2[k] = fl[k]
  OBVIOUS
<1>2. \A k \in 0 .. 2 * m - 1 - n : ~(k < m - n) => f2[k] = k + n + 1
  OBVIOUS
<1>3. ASSUME NEW k \in 0 .. 2 * m - 1 - n PROVE f2[k] \in 1 .. 2 * m
  <2>1. CASE k < m - n
    <3>1. fl[k] \in 1 .. m /\ f2[k] = fl[k]
      BY <2>1, <1>0, <1>1
    <3>. QED
      BY <3>1
  <2>2. CASE ~(k < m - n)
    BY SMTT(30), Z3T(30), <2>2, <1>2
  <2>. QED
    BY <2>1, <2>2
<1>4. f2 \in [0 .. 2 * m - 1 - n -> 1 .. 2 * m]
  BY <1>3
<1>5. f2[0] = free /\ f2[2 * m - 1 - n] = 2 * m
  <2>1. 0 \in 0 .. 2 * m - 1 - n /\ 0 < m - n /\ 2 * m - 1 - n \in 0 .. 2 * m - 1 - n
    OBVIOUS
  <2>2. ~(2 * m - 1 - n < m - n) /\ (2 * m - 1 - n) + n + 1 = 2 * m
    OBVIOUS
  <2>. QED
    BY <2>1, <2>2, <1>0, <1>1, <1>2
<1>6. ASSUME NEW k \in 0 .. 2 * m - 2 - n PROVE f2[k] < 2 * m /\ ids2[f2[k]] = -f2[k + 1]
  <2>0. k \in 0 .. 2 * m - 1 - n /\ k + 1 \in 0 .. 2 * m - 1 - n
    BY SMTT(30), Z3T(30)
  <2>1. CASE k < m - 1 - n
    <3>1. k \in 0 .. m - 2 - n /\ k < m - n /\ k + 1 < m - n
      BY <2>1
    <3>2. f2[k] = fl[k] /\ f2[k + 1] = fl[k + 1] /\ fl[k] < m /\ ids[fl[k]] = -fl[k + 1]
      BY <3>1, <2>0, <1>0, <1>1
    <3>3. fl[k] \in 0 .. m - 1
      BY SMTT(30), Z3T(30), <3>1, <3>2, <1>0
    <3>. QED
      BY SMTT(30), Z3T(30), <3>2, <3>3 DEF Agree
  <2>2. CASE k = m - 1 - n
    <3>1. f2[k] = m
      BY SMTT(30), Z3T(30), <2>2, <2>0, <1>0, <1>1
    <3>2. ~(k + 1 < m - n) /\ (k + 1) + n + 1 = m + 1
      BY <2>2
    <3>3. f2[k + 1] = m + 1
      BY <3>2, <2>0, <1>2
    <3>. QED
      BY SMTT(30), Z3T(30), <3>1, <3>3
  <2>3. CASE k > m - 1 - n
    <3>1. f2[k] = k + n + 1 /\ f2[k + 1] = k + n + 2 /\ k + n + 1 \in m .. 2 * m - 1
      BY SMTT(30), Z3T(30), <2>3, <2>0, <1>2
    <3>2. ids2[k + n + 1] = -(k + n + 2)
      BY SMTT(30), Z3T(30), <3>1
    <3>. QED
      BY SMTT(30), Z3T(30), <3>1, <3>2
  <2>. QED
    BY SMTT(30), Z3T(30), <2>1, <2>2, <2>3
<1>7. ASSUME NEW j \in 0 .. 2 * m - 1 - n, NEW k \in 0 .. 2 * m - 1 - n, f2[j] = f2[k] PROVE j = k
  <2>1. CASE j < m - n /\ k < m - n
    BY <2>1, <1>1, <1>7 DEF FreeOK
  <2>2. CASE ~(j < m - n) /\ ~(k < m - n)
    BY SMTT(30), Z3T(30), <2>2, <1>2, <1>7
  <2>3. CASE j < m - n /\ ~(k < m - n)
    <3>1. f2[j] = fl[j] /\ fl[j] \in 1 .. m /\ f2[k] = k + n + 1
      BY <2>3, <1>0, <1>1, <1>2
    <3>. QED
      BY <3>1, <2>3, <1>7
  <2>4. CASE ~(j < m - n) /\ k < m - n
    <3>1. f2[k] = fl[k] /\ fl[k] \in 1 .. m /\ f2[j] = j + n + 1
      BY <2>4, <1>0, <1>1, <1>2
    <3>. QED
      BY SMTT(30), Z3T(30), <3>1, <2>4, <1>7
  <2>. QED
    BY <2>1, <2>2, <2>3, <2>4
<1>8. ASSUME NEW k \in 0 .. 2 * m - 1 - n, NEW e \in Entries PROVE tid[e] # f2[k]
  <2>1. CASE k < m - n
    BY <2>1, <1>1 DEF FreeOK
  <2>2. CASE ~(k < m - n)
    <3>1. f2[k] = k + n + 1 /\ tid[e] < m
      BY <2>2, <1>2
    <3>. QED
      BY <3>1, <2>2
  <2>. QED
    BY <2>1, <2>2
<1>. QED
  BY <1>4, <1>5, <1>6, <1>7, <1>8 DEF FreeOK

\* push_freelist().
LEMMA FreePushed ==
    ASSUME NEW n \in Nat, NEW m \in Nat, n + 1 < m, NEW fl, NEW free, NEW tid, NEW ids,
           FreeOK(fl, n, m, free, tid, ids),
           NEW t, NEW h, h.dir = "none", SlotsOK(t, n, h, m, tid, ids),
           NEW slot, NEW h2, NEW t2, NEW tid2, NEW ids2,
           Removed(t, n, m, tid, ids, free, slot, h2, t2, tid2, ids2),
           NEW f2, f2 = [k \in 0 .. m - n |-> IF k = 0 THEN tid[t[slot]] ELSE fl[k - 1]]
    PROVE  FreeOK(f2, n - 1, m, tid[t[slot]], tid2, ids2)
<1>. DEFINE r == tid[t[slot]]
<1>0. slot \in 0 .. n - 1 /\ n > 0 /\ n - 1 \in 0 .. n - 1
  BY DEF Removed
<1>1. /\ t[slot] \in Entries /\ r \in 1 .. m - 1 /\ t[n - 1] \in Entries
      /\ \A x \in Entries : x # t[slot] => tid[x] # r
  BY SMTT(30), Z3T(30), <1>0 DEF SlotsOK
<1>2. /\ fl \in [0 .. m - 1 - n -> 1 .. m] /\ fl[0] = free /\ fl[m - 1 - n] = m
      /\ \A k \in 0 .. m - 2 - n : fl[k] < m /\ ids[fl[k]] = -fl[k + 1]
  BY DEF FreeOK
<1>3. /\ \A j, k \in 0 .. m - 1 - n : fl[j] = fl[k] => j = k
      /\ \A k \in 0 .. m - 1 - n : \A e \in Entries : tid[e] # fl[k]
  BY DEF FreeOK
<1>. HIDE DEF r
<1>f. f2 = [k \in 0 .. m - n |-> IF k = 0 THEN r ELSE fl[k - 1]]
  BY DEF r
<1>4. f2[0] = r /\ \A k \in 1 .. m - n : k - 1 \in 0 .. m - 1 - n /\ f2[k] = fl[k - 1]
  <2>1. 0 \in 0 .. m - n
    OBVIOUS
  <2>2. ASSUME NEW k \in 1 .. m - n PROVE k \in 0 .. m - n /\ k # 0 /\ k - 1 \in 0 .. m - 1 - n
    OBVIOUS
  <2>. QED
    BY <1>f, <2>1, <2>2
<1>5. f2 \in [0 .. m - n -> 1 .. m]
  <2>1. ASSUME NEW k \in 0 .. m - n PROVE (IF k = 0 THEN r ELSE fl[k - 1]) \in 1 .. m
    <3>1. CASE k = 0
      BY <3>1, <1>1
    <3>2. CASE k # 0
      <4>1. k - 1 \in 0 .. m - 1 - n
        BY <3>2
      <4>2. fl[k - 1] \in 1 .. m
        BY <4>1, <1>2
      <4>. QED
        BY <3>2, <4>2
    <3>. QED
      BY <3>1, <3>2
  <2>. QED
    BY <2>1, <1>f
<1>6. f2[m - n] = m
  <2>1. m - n \in 1 .. m - n /\ (m - n) - 1 = m - 1 - n
    OBVIOUS
  <2>. QED
    BY <2>1, <1>2, <1>4
<1>7. ASSUME NEW k \in 0 .. m - 1 - n PROVE f2[k] < m /\ ids2[f2[k]] = -f2[k + 1]
  <2>1. CASE k = 0
    <3>1. f2[k + 1] = free /\ f2[k] = r
      BY SMTT(30), Z3T(30), <2>1, <1>2, <1>4
    <3>2. ids2[r] = -free
      BY DEF Removed, r
    <3>3. r < m
      BY <1>1
    <3>. QED
      BY <3>1, <3>2, <3>3
  <2>2. CASE k # 0
    <3>1. /\ k \in 1 .. m - n /\ k + 1 \in 1 .. m - n /\ k - 1 \in 0 .. m - 2 - n
          /\ (k + 1) - 1 = (k - 1) + 1 /\ k - 1 \in 0 .. m - 1 - n
      BY <2>2
    <3>2. /\ f2[k] = fl[k - 1] /\ f2[k + 1] = fl[(k - 1) + 1] /\ fl[k - 1] < m
          /\ ids[fl[k - 1]] = -fl[(k - 1) + 1] /\ fl[k - 1] \in 1 .. m
      BY <3>1, <1>2, <1>4
    <3>3. fl[k - 1] # tid[t[slot]] /\ fl[k - 1] # tid[t[n - 1]]
      BY <3>1, <1>1, <1>3
    <3>4. fl[k - 1] \in 0 .. m - 1
      BY <3>2
    <3>5. ids2[fl[k - 1]] = ids[fl[k - 1]]
      BY <3>3, <3>4 DEF Removed, Agree
    <3>. QED
      BY <3>2, <3>5
  <2>. QED
    BY <2>1, <2>2
<1>8. \A k \in 1 .. m - n : f2[k] # r
  <2>1. SUFFICES ASSUME NEW k \in 1 .. m - n PROVE f2[k] # r
    OBVIOUS
  <2>2. k - 1 \in 0 .. m - 1 - n /\ f2[k] = fl[k - 1]
    BY <1>4
  <2>3. tid[t[slot]] # fl[k - 1]
    BY <2>2, <1>1, <1>3
  <2>. QED
    BY <2>2, <2>3 DEF r
<1>9. ASSUME NEW j \in 0 .. m - n, NEW k \in 0 .. m - n, f2[j] = f2[k] PROVE j = k
  <2>1. (j = 0 => k \notin 1 .. m - n) /\ (k = 0 => j \notin 1 .. m - n)
    BY <1>4, <1>8, <1>9
  <2>2. CASE j # 0 /\ k # 0
    <3>1. j \in 1 .. m - n /\ k \in 1 .. m - n
      BY <2>2
    <3>2. j - 1 = k - 1
      BY SMTT(30), Z3T(30), <3>1, <1>3, <1>4, <1>9
    <3>. QED
      BY <3>2
  <2>. QED
    BY <2>1, <2>2
<1>10. ASSUME NEW k \in 0 .. m - n, NEW x \in Entries PROVE tid2[x] # f2[k]
  <2>1. f2[k] >= 1
    BY <1>5
  <2>2. CASE x = t[slot]
    <3>1. tid2[x] = -1
      BY <2>2 DEF Removed
    <3>. QED
      BY <3>1, <2>1
  <2>3. CASE x # t[slot]
    <3>1. tid2[x] = tid[x] /\ tid[x] # r
      BY <2>3, <1>1 DEF Removed, Agree
    <3>2. CASE k = 0
      BY <3>1, <3>2, <1>4
    <3>3. CASE k # 0
      BY SMTT(30), Z3T(30), <3>1, <3>3, <1>3, <1>4
    <3>. QED
      BY <3>2, <3>3
  <2>. QED
    BY <2>2, <2>3
<1>11. m - 1 - (n - 1) = m - n /\ m - 2 - (n - 1) = m - 1 - n
  OBVIOUS
<1>. QED
  BY ZenonT(120), SMTT(30), <1>4, <1>5, <1>6, <1>7, <1>9, <1>10, <1>11 DEF FreeOK, r

-----------------------------------------------------------------------------
(* Facts that several steps need.                                           *)

\* Types that most of the steps need.
LEMMA Basics ==
    ASSUME IInv
    PROVE  /\ max_size \in Nat /\ cur_size \in Nat /\ Count \in Nat
           /\ Count + 1 < max_size /\ cur_size <= Count
           /\ Tree \in [0 .. Count - 1 -> Entries]
<1>1. max_size \in Nat /\ cur_size \in Nat
  BY DEF IInv, TypeOK
<1>2. Count \in Nat /\ Count + 1 < max_size /\ Tree \in [0 .. Count - 1 -> Entries]
  BY DEF IInv, SlotInv, SlotsOK
<1>3. cur_size <= Count
  BY <1>1 DEF Count
<1>. QED
  BY <1>1, <1>2, <1>3

\* When the lock is free, the tree is in the array.
LEMMA Resting ==
    ASSUME IInv, Unlocked
    PROVE  /\ Count = cur_size /\ hole = NoHole /\ hole.dir = "none"
           /\ \A i \in 0 .. cur_size - 1 : heap[i] = Tree[i]
<1>1. Count = cur_size
  BY DEF Unlocked, Count, Inserting
<1>2. hole = NoHole /\ hole.dir = "none"
  BY DEF IInv, ThreadInv, Unlocked, NoHole
<1>3. \A i \in 0 .. cur_size - 1 : heap[i] = Tree[i]
  BY <1>1, <1>2 DEF Tree
<1>. QED
  BY <1>1, <1>2, <1>3

\* A step that does not change the data keeps what is said about it.
LEMMA DataSame ==
    ASSUME IInv, Count' = Count, Tree' = Tree, hole' = hole, max_size' = max_size,
           timer_id' = timer_id, timer_ids' = timer_ids, timer_value' = timer_value,
           freelist' = freelist
    PROVE  SlotInv' /\ OrderInv' /\ FreeInv'
<1>1. SlotInv'
  BY DEF IInv, SlotInv
<1>2. OrderInv'
  BY DEF IInv, OrderInv
<1>3. FreeInv'
  BY DEF IInv, FreeInv
<1>. QED
  BY <1>1, <1>2, <1>3

\* A thread that does not step keeps what it knows, as long as others leave its
\* entry alone.
LEMMA OtherThread ==
    ASSUME IInv, TypeOK', NEW x \in Threads, thr'[x] = thr[x], now <= now',
           lock' = x <=> lock = x,
           At(x, "schedule") => timer_id'[thr[x].node] = timer_id[thr[x].node],
           lock = x => timer_id' = timer_id
    PROVE  ThreadOK(x)'
<1>1. ThreadOK(x)
  BY DEF IInv, ThreadInv
<1>2. thr[x].now \in Nat /\ now \in Nat /\ now' \in Nat
  BY DEF IInv, TypeOK, TimerType
<1>3. thr[x].now <= now => thr'[x].now <= now'
  BY <1>2
<1>4. lock = x <=> thr[x].pc = "surgery"
  BY <1>1 DEF ThreadOK
<1>5. thr[x].op = "insert" => thr[x].pc = "surgery"
  BY <1>1 DEF ThreadOK
<1>. QED
  BY <1>1, <1>3, <1>4, <1>5 DEF ThreadOK, At

\* Who is about to schedule what does not change by a step of a thread that is
\* not about to schedule anything after it.
LEMMA SchedulersDiffer ==
    ASSUME IInv, NEW th \in Threads, NEW r, r.pc # "schedule", Goto(th, r)
    PROVE  \A y, x \in Threads :
               (At(y, "schedule") /\ At(x, "schedule") /\ thr[y].node = thr[x].node)' => y = x
<1>1. thr \in [Threads -> TimerType]
  BY DEF IInv, TypeOK
<1>2. thr'[th] = r /\ \A x \in Threads : x # th => thr'[x] = thr[x]
  BY <1>1 DEF Goto
<1>3. \A y, x \in Threads :
          At(y, "schedule") /\ At(x, "schedule") /\ thr[y].node = thr[x].node => y = x
  BY DEF IInv, ThreadInv
<1>. QED
  BY <1>2, <1>3 DEF At

\* What another thread holds the lock for does not change.
LEMMA HolderSame ==
    ASSUME IInv, NEW th \in Threads, NEW r, Goto(th, r), lock # th, lock' = lock,
           cur_size' = cur_size, hole' = hole, heap' = heap
    PROVE  /\ lock # NoThread => thr'[lock] = thr[lock]
           /\ Inserting' = Inserting /\ Count' = Count /\ Tree' = Tree
<1>1. thr \in [Threads -> TimerType] /\ lock \in Threads \cup {NoThread}
  BY DEF IInv, TypeOK
<1>2. lock # NoThread => thr'[lock] = thr[lock]
  BY <1>1 DEF Goto
<1>3. Inserting' = Inserting
  BY <1>2 DEF Inserting
<1>4. Count' = Count
  BY <1>3 DEF Count
<1>5. Tree' = Tree
  BY <1>4 DEF Tree
<1>. QED
  BY <1>2, <1>3, <1>4, <1>5

----------------------------------------------------------------------------
(* Every action preserves the invariant.                                    *)

\* schedule_w_grp_lock() up to the lock preserves the invariant.
LEMMA ScheduleCall ==
    ASSUME IInv, ~Racy, NEW th \in Threads, NEW e \in Entries, NEW delay \in Nat, NEW g \in BOOLEAN,
           schedule_w_grp_lock(th, e, delay, g)
    PROVE  IInv'
<1>. DEFINE r == [thr[th] EXCEPT !.pc = "schedule", !.ret = thr[th].pc, !.node = e,
                                 !.expires = now + delay, !.grp = g]
<1>0. /\ Goto(th, r) /\ calls' = calls + 1 /\ timer_id[e] < 1
      /\ conf' = conf /\ max_size' = max_size /\ cur_size' = cur_size /\ heap' = heap
      /\ timer_ids' = timer_ids /\ freelist' = freelist /\ timer_id' = timer_id
      /\ timer_value' = timer_value /\ grp_lock' = grp_lock /\ ref' = ref /\ lock' = lock
      /\ hole' = hole /\ now' = now /\ thr[th].pc \in {"idle", "callback"}
  BY DEF schedule_w_grp_lock, arrays, entryvars, Calling
<1>1. thr \in [Threads -> TimerType] /\ thr[th] \in TimerType /\ now \in Nat /\ calls \in Nat
  BY DEF IInv, TypeOK
<1>2. r \in TimerType
  <2>1. now + delay \in Nat
    BY <1>1
  <2>. QED
    BY <2>1, <1>0, <1>1 DEF TimerType
<1>3. /\ r.pc = "schedule" /\ r.ret = thr[th].pc /\ r.node = e /\ r.op = thr[th].op
      /\ r.now = thr[th].now /\ r.cb = thr[th].cb /\ r.cb_grp = thr[th].cb_grp
  BY <1>1 DEF TimerType
<1>. HIDE DEF r
<1>4. thr'[th] = r /\ (\A x \in Threads : x # th => thr'[x] = thr[x]) /\ thr' \in [Threads -> TimerType]
  BY <1>0, <1>1, <1>2 DEF Goto
<1>5. TypeOK' /\ ConfOK'
  BY SMTT(30), Z3T(30), <1>0, <1>1, <1>4 DEF IInv, TypeOK, ConfOK
<1>6. ThreadOK(th)
  BY DEF IInv, ThreadInv
<1>7. lock # th
  BY <1>0, <1>6 DEF ThreadOK
<1>8. Inserting' = Inserting /\ Count' = Count /\ Tree' = Tree /\ (lock # NoThread => thr'[lock] = thr[lock])
  BY <1>0, <1>7, HolderSame
<1>9. SlotInv' /\ OrderInv' /\ FreeInv'
  BY <1>0, <1>8, DataSame
<1>10. ThreadInv'
  <2>1. ThreadOK(th)'
    BY <1>0, <1>3, <1>4, <1>6, <1>7 DEF ThreadOK
  <2>2. ASSUME NEW x \in Threads, x # th PROVE ThreadOK(x)'
    <3>1. now <= now'
      BY <1>0, <1>1
    <3>. QED
      BY <2>2, <3>1, <1>0, <1>4, <1>5, OtherThread
  <2>3. \A x \in Threads : ~(At(x, "schedule") /\ thr[x].node = e)
    BY DEF schedule_w_grp_lock
  <2>4. \A y, x \in Threads :
            (At(y, "schedule") /\ At(x, "schedule") /\ thr[y].node = thr[x].node)' => y = x
    BY SMTT(30), Z3T(30), <2>3, <1>3, <1>4 DEF At, IInv, ThreadInv
  <2>5. /\ (lock = NoThread => hole = NoHole)' /\ (hole.dir = "down" => ~Inserting)'
        /\ (hole.dir = "none" => hole = NoHole)'
    BY <1>0, <1>8 DEF IInv, ThreadInv, NoHole
  <2>. QED
    BY <2>1, <2>2, <2>4, <2>5 DEF ThreadInv
<1>11. RefInv'
  <2>1. {x \in Threads : thr[x].cb_grp}' = {x \in Threads : thr[x].cb_grp}
    BY <1>3, <1>4
  <2>2. (ref = Cardinality({x \in Entries : grp_lock[x]}) + Cardinality({x \in Threads : thr[x].cb_grp}))'
    BY <2>1, <1>0 DEF IInv, RefInv
  <2>3. ASSUME NEW x \in Entries, grp_lock'[x]
        PROVE  \/ timer_id'[x] >= 1
               \/ (lock # NoThread /\ thr[lock].op \in {"cancel", "poll"} /\ thr[lock].node = x)'
    BY <2>3, <1>0, <1>8 DEF IInv, RefInv
  <2>4. (Inserting => ~grp_lock[thr[lock].node])'
    BY <1>0, <1>8 DEF IInv, RefInv, Inserting
  <2>. QED
    BY <2>2, <2>3, <2>4 DEF RefInv
<1>. QED
  BY <1>5, <1>9, <1>10, <1>11 DEF IInv

\* References stay exact when neither they nor the holder of the lock change.
LEMMA RefKept ==
    ASSUME IInv, grp_lock' = grp_lock, ref' = ref, lock' = lock,
           \A x \in Threads : thr'[x].cb_grp = thr[x].cb_grp,
           lock # NoThread => thr'[lock] = thr[lock], timer_id' = timer_id
    PROVE  RefInv'
<1>1. {x \in Threads : thr[x].cb_grp}' = {x \in Threads : thr[x].cb_grp}
  OBVIOUS
<1>2. (ref = Cardinality({x \in Entries : grp_lock[x]}) + Cardinality({x \in Threads : thr[x].cb_grp}))'
  BY <1>1 DEF IInv, RefInv
<1>3. ASSUME NEW x \in Entries, grp_lock'[x]
      PROVE  \/ timer_id'[x] >= 1
             \/ (lock # NoThread /\ thr[lock].op \in {"cancel", "poll"} /\ thr[lock].node = x)'
  BY <1>3 DEF IInv, RefInv
<1>4. (Inserting => ~grp_lock[thr[lock].node])'
  BY DEF IInv, RefInv, Inserting
<1>. QED
  BY <1>2, <1>3, <1>4 DEF RefInv

\* schedule_entry() preserves the invariant.
LEMMA ScheduleEntry ==
    ASSUME IInv, NEW th \in Threads, schedule_entry(th)
    PROVE  IInv'
<1>. DEFINE e == thr[th].node
            r == [thr[th] EXCEPT !.pc = "surgery", !.op = "insert"]
<1>a. /\ max_size \in Nat /\ cur_size \in Nat /\ Count = cur_size /\ cur_size + 1 < max_size
      /\ Tree \in [0 .. cur_size - 1 -> Entries] /\ hole = NoHole /\ hole.dir = "none"
      /\ \A i \in 0 .. cur_size - 1 : heap[i] = Tree[i]
  BY Basics, Resting DEF schedule_entry
<1>b. cur_size < max_size
  BY <1>a
<1>0. /\ At(th, "schedule") /\ lock = NoThread
      /\ timer_id' = [timer_id EXCEPT ![e] = freelist]
      /\ timer_value' = [timer_value EXCEPT ![e] = thr[th].expires]
      /\ freelist' = -timer_ids[freelist]
      /\ lock' = th /\ hole' = [dir |-> "up", slot |-> cur_size, moved |-> e] /\ Goto(th, r)
      /\ conf' = conf /\ cur_size' = cur_size /\ grp_lock' = grp_lock /\ ref' = ref
      /\ now' = now /\ calls' = calls
  BY <1>b DEF schedule_entry, Unlocked
<1>1. \/ Full /\ grow_heap(timer_ids)
      \/ ~Full /\ max_size' = max_size /\ heap' = heap /\ timer_ids' = timer_ids
  BY <1>b DEF schedule_entry
<1>2. thr \in [Threads -> TimerType] /\ thr[th] \in TimerType /\ thr[th].expires \in Nat /\ NoThread \notin Threads
  BY TimerAssumption DEF IInv, TypeOK, TimerType
<1>3. r \in TimerType /\ r.pc = "surgery" /\ r.op = "insert" /\ r.node = e
      /\ r.now = thr[th].now /\ r.cb = thr[th].cb /\ r.cb_grp = thr[th].cb_grp /\ r.ret = thr[th].ret
  BY <1>2 DEF TimerType
<1>4. ThreadOK(th) /\ e \in Entries /\ timer_id[e] < 1
  BY <1>0 DEF IInv, ThreadInv, ThreadOK, At
<1>. HIDE DEF r, e
<1>5. thr'[th] = r /\ (\A x \in Threads : x # th => thr'[x] = thr[x]) /\ thr' \in [Threads -> TimerType]
  BY <1>0, <1>2, <1>3 DEF Goto
<1>6. timer_id \in [Entries -> Int] /\ timer_value \in [Entries -> Nat] /\ timer_ids \in [0 .. max_size - 1 -> Int]
      /\ heap \in [0 .. max_size - 1 -> Entries \cup {NoEntry}]
  BY DEF IInv, TypeOK
<1>7. PICK fl : FreeOK(fl, cur_size, max_size, freelist, timer_id, timer_ids)
  BY <1>a DEF IInv, FreeInv
<1>8. /\ freelist \in 1 .. max_size - 1 /\ freelist >= 1 /\ freelist = fl[0] /\ freelist' = fl[1]
      /\ fl[1] \in 1 .. max_size /\ \A x \in Entries : timer_id[x] # freelist
  BY SMTT(30), Z3T(30), <1>0, <1>7, <1>a, FreeHead
<1>9. /\ timer_id'[e] = freelist /\ Agree(timer_id', timer_id, Entries \ {e})
      /\ Agree(timer_value', timer_value, Entries \ {e})
      /\ timer_id' \in [Entries -> Int] /\ timer_value' \in [Entries -> Nat]
  BY SMTT(30), Z3T(30), <1>0, <1>2, <1>4, <1>6, <1>8 DEF Agree, e
<1>10. Inserting' /\ Count' = cur_size + 1
  BY <1>0, <1>2, <1>3, <1>5 DEF Inserting, Count
<1>11. /\ max_size' \in Nat /\ max_size <= max_size' /\ cur_size + 2 < max_size'
       /\ heap' \in [0 .. max_size' - 1 -> Entries \cup {NoEntry}]
       /\ timer_ids' \in [0 .. max_size' - 1 -> Int]
       /\ Agree(heap', heap, 0 .. max_size - 1) /\ Agree(timer_ids', timer_ids, 0 .. max_size - 1)
  <2>1. CASE Full /\ grow_heap(timer_ids)
    <3>1. max_size' = 2 * max_size /\ cur_size + 2 >= max_size
      BY <2>1 DEF Full, grow_heap
    <3>2. /\ heap' = [i \in 0 .. 2 * max_size - 1 |-> IF i < max_size THEN heap[i] ELSE NoEntry]
          /\ timer_ids' = [i \in 0 .. 2 * max_size - 1 |-> IF i < max_size THEN timer_ids[i] ELSE -(i + 1)]
      BY <2>1 DEF grow_heap
    <3>3. \A i \in 0 .. 2 * max_size - 1 : i < max_size => i \in 0 .. max_size - 1
      BY SMTT(30), Z3T(30), <1>a
    <3>4. heap' \in [0 .. max_size' - 1 -> Entries \cup {NoEntry}]
      BY <3>1, <3>2, <3>3, <1>6
    <3>5. timer_ids' \in [0 .. max_size' - 1 -> Int]
      BY SMTT(30), Z3T(30), <3>1, <3>2, <3>3, <1>6
    <3>6. \A i \in 0 .. max_size - 1 : i \in 0 .. 2 * max_size - 1 /\ i < max_size
      BY <1>a
    <3>7. Agree(heap', heap, 0 .. max_size - 1) /\ Agree(timer_ids', timer_ids, 0 .. max_size - 1)
      BY <3>2, <3>6 DEF Agree
    <3>. QED
      BY <3>1, <3>4, <3>5, <3>7, <1>a
  <2>2. CASE ~Full /\ max_size' = max_size /\ heap' = heap /\ timer_ids' = timer_ids
    BY <2>2, <1>a, <1>6 DEF Full, Agree
  <2>. QED
    BY <1>1, <2>1, <2>2
<1>12. TypeOK' /\ ConfOK'
  <2>1. hole' \in [dir : {"none", "up", "down"}, slot : Nat, moved : Entries \cup {NoEntry}]
    BY <1>0, <1>a, <1>4
  <2>2. freelist' \in Nat
    BY <1>8
  <2>. QED
    BY <2>1, <2>2, <1>0, <1>5, <1>9, <1>11 DEF IInv, TypeOK, ConfOK
<1>13. /\ Tree' \in [0 .. cur_size -> Entries] /\ Tree'[cur_size] = e
       /\ Agree(Tree', Tree, 0 .. cur_size - 1)
  <2>1. Tree' = [i \in 0 .. (cur_size + 1) - 1 |-> IF hole'.dir # "none" /\ i = hole'.slot THEN hole'.moved ELSE heap'[i]]
    BY <1>10 DEF Tree
  <2>2. hole'.dir = "up" /\ hole'.slot = cur_size /\ hole'.moved = e /\ (cur_size + 1) - 1 = cur_size
    BY <1>0, <1>a
  <2>3. Tree' = [i \in 0 .. cur_size |-> IF i = cur_size THEN e ELSE heap'[i]]
    BY <2>1, <2>2
  <2>4. \A i \in 0 .. cur_size - 1 : i # cur_size /\ i \in 0 .. cur_size /\ i \in 0 .. max_size - 1
    BY <1>a
  <2>5. \A i \in 0 .. cur_size - 1 : heap'[i] = Tree[i]
    BY <2>4, <1>11, <1>a DEF Agree
  <2>6. \A i \in 0 .. cur_size : i = cur_size \/ i \in 0 .. cur_size - 1
    BY SMTT(30), Z3T(30), <1>a
  <2>7. \A i \in 0 .. cur_size : Tree'[i] \in Entries
    BY <2>3, <2>5, <2>6, <1>a, <1>4
  <2>8. cur_size \in 0 .. cur_size
    BY <1>a
  <2>. QED
    BY <2>3, <2>4, <2>5, <2>7, <2>8 DEF Agree
<1>14. Inserted(Tree, cur_size, max_size, timer_id, timer_ids, e, freelist, hole', Tree', max_size', timer_id', timer_ids')
  BY <1>0, <1>4, <1>8, <1>9, <1>11, <1>13 DEF Inserted
<1>15. SlotsOK(Tree, cur_size, hole, max_size, timer_id, timer_ids)
  BY <1>a DEF IInv, SlotInv
<1>16. SlotInv'
  <2>1. SlotsOK(Tree', cur_size + 1, hole', max_size', timer_id', timer_ids')
    BY <1>14, <1>15, <1>a, <1>6, InsertSlots
  <2>. QED
    BY <2>1, <1>10 DEF SlotInv
<1>17. OrderInv'
  <2>1. OrderOK(Tree, cur_size, hole, timer_value)
    BY <1>a DEF IInv, OrderInv
  <2>2. OrderOK(Tree', cur_size + 1, hole', timer_value')
    BY <2>1, <1>14, <1>15, <1>a, <1>6, <1>9, InsertOrder
  <2>. QED
    BY <2>2, <1>10 DEF OrderInv
<1>18. FreeInv'
  <2>. DEFINE f2 == [k \in 0 .. max_size - 2 - cur_size |-> fl[k + 1]]
  <2>1. FreeOK(f2, cur_size + 1, max_size, freelist', timer_id', timer_ids)
    BY <1>0, <1>a, <1>4, <1>7, <1>9, FreePopped
  <2>. HIDE DEF f2
  <2>2. CASE ~Full /\ max_size' = max_size /\ heap' = heap /\ timer_ids' = timer_ids
    <3>1. FreeOK(f2, Count', max_size', freelist', timer_id', timer_ids')
      BY <2>1, <2>2, <1>10
    <3>. QED
      BY <3>1 DEF FreeInv, FreeOK
  <2>3. CASE Full /\ grow_heap(timer_ids)
    <3>. DEFINE f3 == [k \in 0 .. 2 * max_size - 1 - (cur_size + 1) |->
                          IF k < max_size - (cur_size + 1) THEN f2[k] ELSE k + (cur_size + 1) + 1]
    <3>1. max_size' = 2 * max_size /\ \A i \in max_size .. 2 * max_size - 1 : timer_ids'[i] = -(i + 1)
      BY SMTT(30), Z3T(30), <2>3, <1>a DEF grow_heap
    <3>2. \A x \in Entries : timer_id'[x] < max_size
      <4>1. \A x \in Entries : timer_id[x] < max_size
        BY SMTT(30), Z3T(30), <1>15, <1>a DEF SlotsOK
      <4>2. timer_id'[e] < max_size
        BY <1>8, <1>9, <1>a
      <4>3. ASSUME NEW x \in Entries, x # e PROVE timer_id'[x] = timer_id[x]
        BY <4>3, <1>9 DEF Agree
      <4>. QED
        BY <4>1, <4>2, <4>3
    <3>3. cur_size + 1 \in Nat /\ cur_size + 1 < max_size
      BY <1>a
    <3>4. FreeOK(f3, cur_size + 1, 2 * max_size, freelist', timer_id', timer_ids')
      BY <2>1, <3>1, <3>2, <3>3, <1>a, <1>11, FreeGrown
    <3>. HIDE DEF f3
    <3>5. FreeOK(f3, Count', max_size', freelist', timer_id', timer_ids')
      BY <3>1, <3>4, <1>10
    <3>. QED
      BY <3>5 DEF FreeInv, FreeOK
  <2>. QED
    BY <1>1, <2>2, <2>3
<1>19. ThreadInv'
  <2>1. ThreadOK(th)'
    BY <1>0, <1>3, <1>4, <1>5, <1>8, <1>9 DEF ThreadOK, At
  <2>2. ASSUME NEW x \in Threads, x # th PROVE ThreadOK(x)'
    <3>1. now <= now'
      BY SMTT(30), Z3T(30), <1>0 DEF IInv, TypeOK
    <3>2. At(x, "schedule") => thr[x].node # e /\ thr[x].node \in Entries
      BY <2>2, <1>0 DEF IInv, ThreadInv, ThreadOK, At, e
    <3>3. At(x, "schedule") => timer_id'[thr[x].node] = timer_id[thr[x].node]
      BY <3>2, <1>9 DEF Agree
    <3>. QED
      BY <2>2, <3>1, <3>3, <1>0, <1>2, <1>5, <1>12, OtherThread
  <2>3. \A y, x \in Threads :
            (At(y, "schedule") /\ At(x, "schedule") /\ thr[y].node = thr[x].node)' => y = x
    BY <1>0, <1>3, SchedulersDiffer
  <2>4. /\ (lock = NoThread => hole = NoHole)' /\ (hole.dir = "down" => ~Inserting)'
        /\ (hole.dir = "none" => hole = NoHole)'
    BY <1>0, <1>2
  <2>. QED
    BY <2>1, <2>2, <2>3, <2>4 DEF ThreadInv
<1>20. RefInv'
  <2>1. {x \in Threads : thr[x].cb_grp}' = {x \in Threads : thr[x].cb_grp}
    BY <1>3, <1>5
  <2>2. (ref = Cardinality({x \in Entries : grp_lock[x]}) + Cardinality({x \in Threads : thr[x].cb_grp}))'
    BY <2>1, <1>0 DEF IInv, RefInv
  <2>3. \A x \in Entries : grp_lock[x] => timer_id[x] >= 1
    BY <1>0 DEF IInv, RefInv
  <2>4. \A x \in Entries : grp_lock'[x] => timer_id'[x] >= 1
    BY <2>3, <1>0, <1>8, <1>9 DEF Agree
  <2>5. ~grp_lock[e]
    <3>1. ~(timer_id[e] >= 1)
      BY <1>4, <1>6
    <3>. QED
      BY <3>1, <2>3, <1>4
  <2>6. (~grp_lock[thr[lock].node])'
    BY <2>5, <1>0, <1>3, <1>5
  <2>. QED
    BY <2>2, <2>4, <2>6 DEF RefInv
<1>. QED
  BY <1>12, <1>16, <1>17, <1>18, <1>19, <1>20 DEF IInv

\* What an iteration of a loop leaves alone.
InLoop(th) ==
    /\ lock = th /\ hole.dir # "none"
    /\ UNCHANGED <<conf, max_size, cur_size, freelist, entryvars, lock, thr, now, calls>>

\* What an iteration leaves alone.
LEMMA LoopRest ==
    ASSUME IInv, NEW th \in Threads, InLoop(th),
           heap' \in [0 .. max_size - 1 -> Entries \cup {NoEntry}],
           timer_ids' \in [0 .. max_size - 1 -> Int],
           hole' \in [dir : {"none", "up", "down"}, slot : Nat, moved : Entries \cup {NoEntry}],
           hole' = NoHole \/ hole'.dir = hole.dir
    PROVE  Count' = Count /\ TypeOK' /\ ConfOK' /\ ThreadInv' /\ RefInv'
<1>0. /\ lock = th /\ conf' = conf /\ max_size' = max_size /\ cur_size' = cur_size
      /\ freelist' = freelist /\ timer_id' = timer_id /\ timer_value' = timer_value
      /\ grp_lock' = grp_lock /\ ref' = ref /\ lock' = lock /\ thr' = thr /\ now' = now
      /\ calls' = calls /\ th # NoThread /\ hole.dir # "none"
  BY TimerAssumption DEF InLoop, entryvars
<1>1. Count' = Count /\ Inserting' = Inserting
  BY <1>0 DEF Count, Inserting
<1>2. TypeOK' /\ ConfOK'
  BY <1>0 DEF IInv, TypeOK, ConfOK
<1>3. RefInv'
  BY <1>0, RefKept
<1>4. ThreadInv'
  <2>1. ASSUME NEW x \in Threads PROVE ThreadOK(x)'
    <3>1. ThreadOK(x)
      BY DEF IInv, ThreadInv
    <3>. QED
      BY <3>1, <1>0 DEF ThreadOK
  <2>2. \A y, x \in Threads :
            (At(y, "schedule") /\ At(x, "schedule") /\ thr[y].node = thr[x].node)' => y = x
    BY <1>0 DEF IInv, ThreadInv, At
  <2>3. /\ (lock = NoThread => hole = NoHole)' /\ (hole.dir = "down" => ~Inserting)'
        /\ (hole.dir = "none" => hole = NoHole)'
    BY SMTT(30), Z3T(30), <1>0, <1>1 DEF IInv, ThreadInv, NoHole
  <2>. QED
    BY <2>1, <2>2, <2>3 DEF ThreadInv
<1>. QED
  BY <1>1, <1>2, <1>3, <1>4

\* The hole is in the tree.
LEMMA HoleFacts ==
    ASSUME IInv, hole.dir # "none"
    PROVE  /\ hole.slot \in 0 .. Count - 1 /\ hole.slot \in 0 .. max_size - 1
           /\ Tree[hole.slot] = hole.moved /\ hole.moved \in Entries
           /\ \A i \in 0 .. Count - 1 : i # hole.slot => Tree[i] = heap[i]
           /\ \A i \in 0 .. Count - 1 : i \in 0 .. max_size - 1 /\ timer_id[Tree[i]] \in 0 .. max_size - 1
<1>1. hole.slot \in 0 .. Count - 1
  BY DEF IInv, SlotInv, SlotsOK
<1>2. \A i \in 0 .. Count - 1 : i # hole.slot => Tree[i] = heap[i]
  BY DEF Tree
<1>3. Tree[hole.slot] = hole.moved
  BY <1>1 DEF Tree
<1>4. \A i \in 0 .. Count - 1 : i \in 0 .. max_size - 1
  BY Basics
<1>5. \A i \in 0 .. Count - 1 : timer_id[Tree[i]] \in 0 .. max_size - 1
  <2>1. \A x \in Entries : timer_id[x] = -1 \/ timer_id[x] \in 1 .. max_size - 1
    BY DEF IInv, SlotInv, SlotsOK
  <2>2. \A i \in 0 .. Count - 1 : Tree[i] \in Entries /\ timer_id[Tree[i]] >= 1
    BY DEF IInv, SlotInv, SlotsOK
  <2>. QED
    BY <2>1, <2>2, Basics
<1>. QED
  BY <1>1, <1>2, <1>3, <1>4, <1>5, Basics

\* An iteration that moves an entry into the hole.
LEMMA LoopMoves ==
    ASSUME IInv, NEW th \in Threads, InLoop(th),
           NEW next \in 0 .. Count - 1, next # hole.slot,
           copy_node(hole.slot, heap[next]), hole' = [hole EXCEPT !.slot = next]
    PROVE  /\ Count' = Count /\ TypeOK' /\ ConfOK' /\ ThreadInv' /\ RefInv' /\ SlotInv' /\ FreeInv'
           /\ Moved(Tree, Count, max_size, hole, timer_id, timer_ids, next, hole', Tree', timer_ids')
<1>. DEFINE x == Tree[next]
<1>0. /\ max_size' = max_size /\ timer_id' = timer_id /\ freelist' = freelist /\ hole.dir # "none"
  BY DEF InLoop, entryvars
<1>1. /\ Count \in Nat /\ max_size \in Nat /\ Count + 1 < max_size
      /\ Tree \in [0 .. Count - 1 -> Entries]
  BY Basics
<1>2. /\ hole.slot \in 0 .. Count - 1 /\ hole.slot \in 0 .. max_size - 1
      /\ Tree[hole.slot] = hole.moved /\ hole.moved \in Entries /\ x = heap[next] /\ x \in Entries
      /\ \A i \in 0 .. Count - 1 : i # hole.slot => Tree[i] = heap[i]
      /\ timer_id[x] \in 0 .. max_size - 1
  BY <1>0, <1>1, HoleFacts
<1>3. /\ heap \in [0 .. max_size - 1 -> Entries \cup {NoEntry}]
      /\ timer_ids \in [0 .. max_size - 1 -> Int] /\ timer_id \in [Entries -> Int]
      /\ hole \in [dir : {"none", "up", "down"}, slot : Nat, moved : Entries \cup {NoEntry}]
  BY DEF IInv, TypeOK
<1>4. /\ heap' = [heap EXCEPT ![hole.slot] = x]
      /\ timer_ids' = [timer_ids EXCEPT ![timer_id[x]] = hole.slot]
  BY <1>2 DEF copy_node
<1>. HIDE DEF x
<1>5. /\ heap' \in [0 .. max_size - 1 -> Entries \cup {NoEntry}]
      /\ timer_ids' \in [0 .. max_size - 1 -> Int]
      /\ heap'[hole.slot] = x /\ \A i \in 0 .. max_size - 1 : i # hole.slot => heap'[i] = heap[i]
      /\ timer_ids'[timer_id[x]] = hole.slot
      /\ Agree(timer_ids', timer_ids, (0 .. max_size - 1) \ {timer_id[x]})
  BY SMTT(30), Z3T(30), <1>1, <1>2, <1>3, <1>4 DEF Agree
<1>6. /\ hole' \in [dir : {"none", "up", "down"}, slot : Nat, moved : Entries \cup {NoEntry}]
      /\ hole'.dir = hole.dir /\ hole'.slot = next /\ hole'.moved = hole.moved
  <2>1. next \in Nat
    BY <1>1
  <2>. QED
    BY <2>1, <1>3
<1>7. Count' = Count /\ TypeOK' /\ ConfOK' /\ ThreadInv' /\ RefInv'
  BY <1>5, <1>6, LoopRest
<1>8. Tree' = [i \in 0 .. Count - 1 |-> IF i = next THEN hole.moved ELSE heap'[i]]
  BY <1>0, <1>6, <1>7 DEF Tree
<1>9. /\ Tree' \in [0 .. Count - 1 -> Entries]
      /\ Tree'[hole.slot] = x /\ Tree'[next] = Tree[hole.slot]
      /\ Agree(Tree', Tree, (0 .. Count - 1) \ {next, hole.slot})
  <2>1. Tree'[next] = hole.moved
    BY <1>8
  <2>2. Tree'[hole.slot] = x
    BY <1>2, <1>5, <1>8
  <2>3. \A i \in 0 .. Count - 1 : i \in 0 .. max_size - 1
    BY <1>1
  <2>4. \A i \in 0 .. Count - 1 : i # next /\ i # hole.slot => Tree'[i] = Tree[i]
    BY <2>3, <1>2, <1>5, <1>8
  <2>5. \A i \in 0 .. Count - 1 : Tree'[i] \in Entries
    BY <2>1, <2>2, <2>4, <1>1, <1>2
  <2>. QED
    BY <2>1, <2>2, <2>4, <2>5, <1>2, <1>8 DEF Agree
<1>10. Moved(Tree, Count, max_size, hole, timer_id, timer_ids, next, hole', Tree', timer_ids')
  BY <1>0, <1>5, <1>6, <1>9 DEF Moved, x
<1>11. SlotInv'
  <2>1. SlotsOK(Tree, Count, hole, max_size, timer_id, timer_ids)
    BY DEF IInv, SlotInv
  <2>2. SlotsOK(Tree', Count, hole', max_size, timer_id, timer_ids')
    BY <2>1, <1>1, <1>3, <1>10, MoveSlots
  <2>. QED
    BY <2>2, <1>0, <1>7 DEF SlotInv
<1>12. FreeInv'
  <2>1. PICK fl \in [0 .. max_size - 1 - Count -> 1 .. max_size] :
            FreeOK(fl, Count, max_size, freelist, timer_id, timer_ids)
    BY DEF IInv, FreeInv
  <2>2. FreeOK(fl, Count, max_size, freelist, timer_id, timer_ids')
    BY <2>1, <1>1, <1>2, <1>5, FreeKept
  <2>. QED
    BY <2>2, <1>0, <1>7 DEF FreeInv
<1>. QED
  BY <1>7, <1>10, <1>11, <1>12

\* The end of a loop.
LEMMA LoopEnds ==
    ASSUME IInv, NEW th \in Threads, InLoop(th), copy_node(hole.slot, hole.moved), hole' = NoHole
    PROVE  /\ Count' = Count /\ TypeOK' /\ ConfOK' /\ ThreadInv' /\ RefInv' /\ SlotInv' /\ FreeInv'
           /\ Tree' = Tree /\ hole'.dir = "none"
<1>. DEFINE x == hole.moved
<1>0. /\ max_size' = max_size /\ timer_id' = timer_id /\ freelist' = freelist /\ hole.dir # "none"
  BY DEF InLoop, entryvars
<1>1. /\ Count \in Nat /\ max_size \in Nat /\ Count + 1 < max_size
      /\ Tree \in [0 .. Count - 1 -> Entries]
  BY Basics
<1>2. /\ hole.slot \in 0 .. Count - 1 /\ hole.slot \in 0 .. max_size - 1
      /\ Tree[hole.slot] = x /\ x \in Entries
      /\ \A i \in 0 .. Count - 1 : i # hole.slot => Tree[i] = heap[i]
      /\ timer_id[x] \in 0 .. max_size - 1
  <2>1. /\ hole.slot \in 0 .. Count - 1 /\ hole.slot \in 0 .. max_size - 1
        /\ Tree[hole.slot] = hole.moved /\ hole.moved \in Entries
        /\ \A i \in 0 .. Count - 1 : i # hole.slot => Tree[i] = heap[i]
        /\ \A i \in 0 .. Count - 1 : timer_id[Tree[i]] \in 0 .. max_size - 1
    BY <1>0, HoleFacts
  <2>2. timer_id[Tree[hole.slot]] \in 0 .. max_size - 1
    BY <2>1
  <2>. QED
    BY <2>1, <2>2
<1>3. /\ heap \in [0 .. max_size - 1 -> Entries \cup {NoEntry}]
      /\ timer_ids \in [0 .. max_size - 1 -> Int] /\ timer_id \in [Entries -> Int]
  BY DEF IInv, TypeOK
<1>4. /\ heap' = [heap EXCEPT ![hole.slot] = x]
      /\ timer_ids' = [timer_ids EXCEPT ![timer_id[x]] = hole.slot]
  BY DEF copy_node
<1>. HIDE DEF x
<1>5. /\ heap' \in [0 .. max_size - 1 -> Entries \cup {NoEntry}]
      /\ timer_ids' \in [0 .. max_size - 1 -> Int]
      /\ heap'[hole.slot] = x /\ \A i \in 0 .. max_size - 1 : i # hole.slot => heap'[i] = heap[i]
      /\ timer_ids'[timer_id[x]] = hole.slot
      /\ Agree(timer_ids', timer_ids, (0 .. max_size - 1) \ {timer_id[x]})
  BY SMTT(30), Z3T(30), <1>1, <1>2, <1>3, <1>4 DEF Agree
<1>6. /\ hole' \in [dir : {"none", "up", "down"}, slot : Nat, moved : Entries \cup {NoEntry}]
      /\ hole'.dir = "none"
  BY DEF NoHole
<1>7. Count' = Count /\ TypeOK' /\ ConfOK' /\ ThreadInv' /\ RefInv'
  BY <1>5, <1>6, LoopRest
<1>8. Tree' = [i \in 0 .. Count - 1 |-> heap'[i]]
  BY <1>6, <1>7 DEF Tree
<1>9. Tree' = Tree
  <2>1. \A i \in 0 .. Count - 1 : i \in 0 .. max_size - 1
    BY <1>1
  <2>2. \A i \in 0 .. Count - 1 : heap'[i] = Tree[i]
    BY <2>1, <1>2, <1>5
  <2>. QED
    BY <2>2, <1>1, <1>8
<1>10. Ended(Tree, max_size, hole, timer_id, timer_ids, hole', timer_ids')
  BY <1>0, <1>2, <1>5, <1>6 DEF Ended
<1>11. SlotInv'
  <2>1. SlotsOK(Tree, Count, hole, max_size, timer_id, timer_ids)
    BY DEF IInv, SlotInv
  <2>2. SlotsOK(Tree, Count, hole', max_size, timer_id, timer_ids')
    BY <2>1, <1>1, <1>3, <1>10, EndSlots
  <2>. QED
    BY <2>2, <1>0, <1>7, <1>9 DEF SlotInv
<1>12. FreeInv'
  <2>1. PICK fl \in [0 .. max_size - 1 - Count -> 1 .. max_size] :
            FreeOK(fl, Count, max_size, freelist, timer_id, timer_ids)
    BY DEF IInv, FreeInv
  <2>2. FreeOK(fl, Count, max_size, freelist, timer_id, timer_ids')
    BY <2>1, <1>1, <1>2, <1>5, FreeKept
  <2>. QED
    BY <2>2, <1>0, <1>7 DEF FreeInv
<1>. QED
  BY <1>6, <1>7, <1>9, <1>11, <1>12

\* An iteration of reheap_up() preserves the invariant.
LEMMA ReheapUp ==
    ASSUME IInv, NEW th \in Threads, reheap_up(th)
    PROVE  IInv'
<1>. DEFINE parent == HEAP_PARENT(hole.slot)
            goes_on == hole.slot > 0 /\ Later(heap[parent], hole.moved)
<1>0. /\ InLoop(th) /\ hole.dir = "up" /\ Iterate(goes_on, parent) /\ timer_value' = timer_value
  BY DEF reheap_up, InLoop, entryvars
<1>1. /\ Count \in Nat /\ Tree \in [0 .. Count - 1 -> Entries] /\ timer_value \in [Entries -> Nat]
      /\ OrderOK(Tree, Count, hole, timer_value)
  BY Basics DEF IInv, TypeOK, OrderInv
<1>2. /\ hole.slot \in 0 .. Count - 1 /\ Tree[hole.slot] = hole.moved
      /\ \A i \in 0 .. Count - 1 : i # hole.slot => Tree[i] = heap[i]
  BY <1>0, HoleFacts
<1>3. hole.slot > 0 => /\ parent \in 0 .. Count - 1 /\ parent # hole.slot
                       /\ IsParent(parent, hole.slot) /\ heap[parent] = Tree[parent]
  <2>1. hole.slot > 0 => parent \in Nat /\ parent < hole.slot /\ IsParent(parent, hole.slot)
    <3>1. hole.slot \in Nat
      BY SMTT(30), Z3T(30), <1>1, <1>2
    <3>. QED
      BY <3>1, ParentIsParent
  <2>2. Count \in Nat /\ hole.slot \in 0 .. Count - 1
    BY <1>1, <1>2
  <2>3. \A i \in 0 .. Count - 1 : i # hole.slot => heap[i] = Tree[i]
    BY <1>2
  <2>. HIDE DEF parent
  <2>4. hole.slot > 0 => parent \in 0 .. Count - 1 /\ parent # hole.slot
    BY <2>1, <2>2
  <2>. QED
    BY <2>1, <2>3, <2>4
<1>4. CASE goes_on
  <2>1. copy_node(hole.slot, heap[parent]) /\ hole' = [hole EXCEPT !.slot = parent]
    BY <1>0, <1>4 DEF Iterate
  <2>2. /\ parent \in 0 .. Count - 1 /\ parent # hole.slot /\ IsParent(parent, hole.slot)
        /\ timer_value[Tree[hole.slot]] < timer_value[Tree[parent]]
    BY <1>2, <1>3, <1>4 DEF Later
  <2>. HIDE DEF parent
  <2>3. /\ Count' = Count /\ TypeOK' /\ ConfOK' /\ ThreadInv' /\ RefInv' /\ SlotInv' /\ FreeInv'
        /\ Moved(Tree, Count, max_size, hole, timer_id, timer_ids, parent, hole', Tree', timer_ids')
    BY <2>1, <2>2, <1>0, LoopMoves
  <2>4. OrderOK(Tree', Count, hole', timer_value)
    BY <2>2, <2>3, <1>0, <1>1, <1>2, MoveUpOrder
  <2>. QED
    BY <2>3, <2>4, <1>0 DEF IInv, OrderInv
<1>5. CASE ~goes_on
  <2>1. copy_node(hole.slot, hole.moved) /\ hole' = NoHole
    BY <1>0, <1>5 DEF Iterate
  <2>2. /\ Count' = Count /\ TypeOK' /\ ConfOK' /\ ThreadInv' /\ RefInv' /\ SlotInv' /\ FreeInv'
        /\ Tree' = Tree /\ hole'.dir = "none"
    BY <2>1, <1>0, LoopEnds
  <2>3. ASSUME NEW p \in 0 .. Count - 1, IsParent(p, hole.slot)
        PROVE  timer_value[Tree[p]] <= timer_value[Tree[hole.slot]]
    <3>1. hole.slot \in Nat /\ p \in Nat
      BY SMTT(30), Z3T(30), <1>1, <1>2
    <3>2. p < hole.slot /\ p = parent
      BY <2>3, <3>1, OneParent
    <3>3. hole.slot > 0
      BY <3>1, <3>2
    <3>4. ~(timer_value[Tree[hole.slot]] < timer_value[Tree[p]])
      BY <3>2, <3>3, <1>2, <1>3, <1>5 DEF Later
    <3>5. timer_value[Tree[hole.slot]] \in Nat /\ timer_value[Tree[p]] \in Nat
      BY <1>1, <1>2
    <3>. QED
      BY <3>4, <3>5
  <2>4. \A c \in 0 .. Count - 1 :
            IsParent(hole.slot, c) => timer_value[Tree[hole.slot]] <= timer_value[Tree[c]]
    BY <1>0, <1>1 DEF OrderOK
  <2>5. OrderOK(Tree, Count, hole', timer_value)
    BY <2>2, <2>3, <2>4, <1>1, EndOrder
  <2>. QED
    BY <2>2, <2>5, <1>0 DEF IInv, OrderInv
<1>. QED
  BY <1>4, <1>5

\* An iteration of reheap_down() preserves the invariant.
LEMMA ReheapDown ==
    ASSUME IInv, NEW th \in Threads, reheap_down(th)
    PROVE  IInv'
<1>. DEFINE left == HEAP_LEFT(hole.slot)
            child == Child(hole.slot)
            goes_on == left < cur_size /\ Later(hole.moved, heap[child])
<1>0. /\ InLoop(th) /\ hole.dir = "down" /\ Iterate(goes_on, child) /\ timer_value' = timer_value
  BY DEF reheap_down, InLoop, entryvars
<1>1. /\ Count \in Nat /\ Tree \in [0 .. Count - 1 -> Entries] /\ timer_value \in [Entries -> Nat]
      /\ OrderOK(Tree, Count, hole, timer_value) /\ Count = cur_size
  <2>1. Count = cur_size
    BY <1>0 DEF IInv, ThreadInv, Count
  <2>. QED
    BY <2>1, Basics DEF IInv, TypeOK, OrderInv
<1>2. /\ hole.slot \in 0 .. Count - 1 /\ Tree[hole.slot] = hole.moved
      /\ \A i \in 0 .. Count - 1 : i # hole.slot => Tree[i] = heap[i]
  BY <1>0, HoleFacts
<1>3. left = 2 * hole.slot + 1 /\ left \in Nat
  <2>1. hole.slot \in Nat
    BY SMTT(30), Z3T(30), <1>1, <1>2
  <2>. QED
    BY <2>1 DEF HEAP_LEFT
<1>4. ASSUME left < cur_size
      PROVE  /\ child \in 0 .. Count - 1 /\ child # hole.slot /\ IsParent(hole.slot, child)
             /\ heap[child] = Tree[child]
             /\ \A c \in 0 .. Count - 1 :
                    IsParent(hole.slot, c) => timer_value[Tree[child]] <= timer_value[Tree[c]]
  <2>1. left \in 0 .. Count - 1 /\ left # hole.slot /\ IsParent(hole.slot, left) /\ heap[left] = Tree[left]
    BY SMTT(30), Z3T(30), <1>1, <1>2, <1>3, <1>4 DEF IsParent
  <2>2. left + 1 < cur_size => /\ left + 1 \in 0 .. Count - 1 /\ left + 1 # hole.slot
                               /\ IsParent(hole.slot, left + 1) /\ heap[left + 1] = Tree[left + 1]
    <3>. HIDE DEF left
    <3>1. left + 1 < cur_size => left + 1 \in 0 .. Count - 1 /\ left + 1 # hole.slot /\ IsParent(hole.slot, left + 1)
      <4>1. Count \in Nat /\ Count = cur_size /\ hole.slot \in 0 .. Count - 1
        BY <1>1, <1>2
      <4>. QED
        BY <4>1, <1>3 DEF IsParent
    <3>. QED
      BY <3>1, <1>2
  <2>3. \A c \in 0 .. Count - 1 : IsParent(hole.slot, c) => c = left \/ (c = left + 1 /\ left + 1 < cur_size)
    <3>. HIDE DEF left
    <3>1. Count \in Nat /\ Count = cur_size /\ hole.slot \in 0 .. Count - 1
      BY <1>1, <1>2
    <3>. QED
      BY <3>1, <1>3 DEF IsParent
  <2>4. \A i \in 0 .. Count - 1 : timer_value[Tree[i]] \in Nat
    BY <1>1
  <2>5. CASE left + 1 < cur_size /\ Later(heap[left], heap[left + 1])
    <3>1. child = left + 1
      BY <2>5 DEF Child
    <3>2. timer_value[Tree[left + 1]] < timer_value[Tree[left]]
      BY <2>1, <2>2, <2>5 DEF Later
    <3>. HIDE DEF left, child
    <3>. QED
      BY <3>1, <3>2, <2>1, <2>2, <2>3, <2>4, <2>5
  <2>6. CASE ~(left + 1 < cur_size /\ Later(heap[left], heap[left + 1]))
    <3>1. child = left
      BY <2>6 DEF Child
    <3>2. left + 1 < cur_size => ~(timer_value[Tree[left + 1]] < timer_value[Tree[left]])
      BY <2>1, <2>2, <2>6 DEF Later
    <3>. HIDE DEF left, child
    <3>. QED
      BY <3>1, <3>2, <2>1, <2>2, <2>3, <2>4
  <2>. QED
    BY <2>5, <2>6
<1>5. CASE goes_on
  <2>1. copy_node(hole.slot, heap[child]) /\ hole' = [hole EXCEPT !.slot = child]
    BY <1>0, <1>5 DEF Iterate
  <2>2. /\ child \in 0 .. Count - 1 /\ child # hole.slot /\ IsParent(hole.slot, child)
        /\ timer_value[Tree[child]] < timer_value[Tree[hole.slot]]
        /\ \A c \in 0 .. Count - 1 :
               IsParent(hole.slot, c) => timer_value[Tree[child]] <= timer_value[Tree[c]]
    BY <1>2, <1>4, <1>5 DEF Later
  <2>. HIDE DEF child, left
  <2>3. /\ Count' = Count /\ TypeOK' /\ ConfOK' /\ ThreadInv' /\ RefInv' /\ SlotInv' /\ FreeInv'
        /\ Moved(Tree, Count, max_size, hole, timer_id, timer_ids, child, hole', Tree', timer_ids')
    BY <2>1, <2>2, <1>0, LoopMoves
  <2>4. OrderOK(Tree', Count, hole', timer_value)
    BY <2>2, <2>3, <1>0, <1>1, <1>2, MoveDownOrder
  <2>. QED
    BY <2>3, <2>4, <1>0 DEF IInv, OrderInv
<1>6. CASE ~goes_on
  <2>1. copy_node(hole.slot, hole.moved) /\ hole' = NoHole
    BY <1>0, <1>6 DEF Iterate
  <2>2. /\ Count' = Count /\ TypeOK' /\ ConfOK' /\ ThreadInv' /\ RefInv' /\ SlotInv' /\ FreeInv'
        /\ Tree' = Tree /\ hole'.dir = "none"
    BY <2>1, <1>0, LoopEnds
  <2>3. ASSUME NEW c \in 0 .. Count - 1, IsParent(hole.slot, c)
        PROVE  timer_value[Tree[hole.slot]] <= timer_value[Tree[c]]
    <3>1. left < cur_size
      BY <2>3, <1>1, <1>2, <1>3 DEF IsParent
    <3>2. timer_value[Tree[child]] <= timer_value[Tree[c]] /\ child \in 0 .. Count - 1
      BY <2>3, <3>1, <1>4
    <3>3. ~(timer_value[Tree[child]] < timer_value[Tree[hole.slot]])
      BY <3>1, <1>2, <1>4, <1>6 DEF Later
    <3>. HIDE DEF child, left
    <3>4. /\ timer_value[Tree[hole.slot]] \in Nat /\ timer_value[Tree[c]] \in Nat
          /\ timer_value[Tree[child]] \in Nat
      BY <3>2, <1>1, <1>2
    <3>. QED
      BY <3>2, <3>3, <3>4
  <2>4. \A p \in 0 .. Count - 1 :
            IsParent(p, hole.slot) => timer_value[Tree[p]] <= timer_value[Tree[hole.slot]]
    BY <1>0, <1>1 DEF OrderOK
  <2>5. OrderOK(Tree, Count, hole', timer_value)
    BY <2>2, <2>3, <2>4, <1>1, EndOrder
  <2>. QED
    BY <2>2, <2>5, <1>0 DEF IInv, OrderInv
<1>. QED
  BY <1>5, <1>6

\* remove_node() on the arrays, with the lock free before it.
LEMMA RemoveData ==
    ASSUME IInv, Unlocked, NEW slot \in 0 .. cur_size - 1, remove_node(slot), Count' = cur_size'
    PROVE  /\ heap[slot] \in Entries /\ timer_id[heap[slot]] >= 1
           /\ max_size' \in Nat /\ cur_size' \in Nat /\ freelist' \in Nat
           /\ heap' \in [0 .. max_size' - 1 -> Entries \cup {NoEntry}]
           /\ timer_ids' \in [0 .. max_size' - 1 -> Int]
           /\ timer_id' \in [Entries -> Int] /\ timer_value' \in [Entries -> Nat]
           /\ hole' \in [dir : {"none", "up", "down"}, slot : Nat, moved : Entries \cup {NoEntry}]
           /\ hole'.dir = "none" => hole' = NoHole
           /\ timer_id'[heap[slot]] = -1 /\ Agree(timer_id', timer_id, Entries \ {heap[slot]})
           /\ SlotInv' /\ OrderInv' /\ FreeInv'
<1>. DEFINE n == cur_size
            e == Tree[slot]
            moved == Tree[n - 1]
            pushed == [timer_ids EXCEPT ![timer_id[e]] = -freelist]
<1>1. /\ n \in Nat /\ Count = n /\ max_size \in Nat /\ n + 1 < max_size
      /\ hole = NoHole /\ hole.dir = "none" /\ Tree \in [0 .. n - 1 -> Entries]
      /\ \A i \in 0 .. n - 1 : heap[i] = Tree[i]
  BY Basics, Resting
<1>2. /\ heap \in [0 .. max_size - 1 -> Entries \cup {NoEntry}]
      /\ timer_ids \in [0 .. max_size - 1 -> Int] /\ timer_id \in [Entries -> Int]
      /\ timer_value \in [Entries -> Nat] /\ freelist \in Nat
  BY DEF IInv, TypeOK
<1>3. SlotsOK(Tree, n, hole, max_size, timer_id, timer_ids) /\ OrderOK(Tree, n, hole, timer_value)
  BY <1>1 DEF IInv, SlotInv, OrderInv
<1>4. /\ n - 1 \in 0 .. n - 1 /\ n > 0 /\ heap[slot] = e /\ heap[n - 1] = moved
      /\ e \in Entries /\ moved \in Entries
  BY SMTT(30), Z3T(30), <1>1
<1>5. /\ timer_id[e] \in 0 .. max_size - 1 /\ timer_id[moved] \in 0 .. max_size - 1 /\ timer_id[e] >= 1
      /\ slot < n - 1 => e # moved /\ timer_id[e] # timer_id[moved]
  <2>1. /\ timer_id[e] >= 1 /\ timer_id[moved] >= 1 /\ (slot < n - 1 => e # moved)
        /\ \A x \in Entries : timer_id[x] = -1 \/ timer_id[x] \in 1 .. max_size - 1
        /\ \A x, y \in Entries : timer_id[x] >= 1 /\ timer_id[x] = timer_id[y] => x = y
    BY SMTT(30), Z3T(30), <1>1, <1>3, <1>4 DEF SlotsOK
  <2>. HIDE DEF e, moved
  <2>3. /\ timer_id[e] = -1 \/ timer_id[e] \in 1 .. max_size - 1
        /\ timer_id[moved] = -1 \/ timer_id[moved] \in 1 .. max_size - 1
    BY <2>1, <1>4
  <2>2. timer_id[e] \in 1 .. max_size - 1 /\ timer_id[moved] \in 1 .. max_size - 1
    BY <2>1, <2>3
  <2>. QED
    BY SMTT(30), Z3T(30), <2>1, <2>2, <1>1, <1>4
<1>6. /\ freelist' = timer_id[e] /\ cur_size' = n - 1 /\ timer_id' = [timer_id EXCEPT ![e] = -1]
      /\ max_size' = max_size /\ timer_value' = timer_value
      /\ slot < n - 1 => /\ heap' = [heap EXCEPT ![slot] = moved]
                         /\ timer_ids' = [pushed EXCEPT ![timer_id[moved]] = slot]
                         /\ hole' = [dir |-> Direction(heap'[HEAP_PARENT(slot)], moved),
                                     slot |-> slot, moved |-> moved]
      /\ ~(slot < n - 1) => timer_ids' = pushed /\ heap' = heap /\ hole' = hole
  BY <1>4 DEF remove_node
<1>. HIDE DEF e, moved
<1>7. /\ pushed \in [0 .. max_size - 1 -> Int] /\ pushed[timer_id[e]] = -freelist
      /\ \A k \in 0 .. max_size - 1 : k # timer_id[e] => pushed[k] = timer_ids[k]
  BY SMTT(30), Z3T(30), <1>2, <1>5
<1>. HIDE DEF pushed
<1>8. /\ timer_ids' \in [0 .. max_size - 1 -> Int] /\ timer_ids'[timer_id[e]] = -freelist
      /\ slot < n - 1 => timer_ids'[timer_id[moved]] = slot
      /\ Agree(timer_ids', timer_ids, (0 .. max_size - 1) \ {timer_id[e], timer_id[moved]})
  <2>1. CASE slot < n - 1
    <3>1. slot \in Int
      BY <1>1
    <3>. QED
      BY <2>1, <3>1, <1>5, <1>6, <1>7 DEF Agree
  <2>2. CASE ~(slot < n - 1)
    BY <2>2, <1>6, <1>7 DEF Agree
  <2>. QED
    BY <2>1, <2>2
<1>9. /\ heap' \in [0 .. max_size - 1 -> Entries \cup {NoEntry}]
      /\ slot < n - 1 => heap'[slot] = moved
      /\ \A i \in 0 .. n - 1 : i # slot => heap'[i] = Tree[i]
  <2>1. \A i \in 0 .. n - 1 : i \in 0 .. max_size - 1
    BY <1>1
  <2>2. CASE slot < n - 1
    BY <2>1, <2>2, <1>1, <1>2, <1>4, <1>6
  <2>3. CASE ~(slot < n - 1)
    BY <2>3, <1>1, <1>2, <1>6
  <2>. QED
    BY <2>2, <2>3
<1>10. /\ slot < n - 1 => hole'.dir \in {"up", "down"} /\ hole'.slot = slot /\ hole'.moved = moved
       /\ ~(slot < n - 1) => hole' = NoHole /\ hole'.dir = "none"
       /\ hole' \in [dir : {"none", "up", "down"}, slot : Nat, moved : Entries \cup {NoEntry}]
  <2>1. CASE slot < n - 1
    <3>1. slot \in Nat
      BY <1>1
    <3>. QED
      BY SMTT(30), Z3T(30), <2>1, <3>1, <1>4, <1>6 DEF Direction
  <2>2. CASE ~(slot < n - 1)
    BY <2>2, <1>1, <1>6 DEF IInv, TypeOK
  <2>. QED
    BY <2>1, <2>2
<1>11. /\ Tree' \in [0 .. n - 2 -> Entries] /\ (slot < n - 1 => Tree'[slot] = moved)
       /\ Agree(Tree', Tree, (0 .. n - 2) \ {slot})
  <2>1. Tree' = [i \in 0 .. (n - 1) - 1 |-> IF hole'.dir # "none" /\ i = hole'.slot THEN hole'.moved ELSE heap'[i]]
    BY <1>6 DEF Tree
  <2>2. (n - 1) - 1 = n - 2 /\ \A i \in 0 .. n - 2 : i \in 0 .. n - 1
    BY SMTT(30), Z3T(30), <1>1
  <2>3. \A i \in 0 .. n - 2 : i # slot => Tree'[i] = Tree[i]
    BY <2>1, <2>2, <1>9, <1>10
  <2>4. slot < n - 1 => slot \in 0 .. n - 2
    BY SMTT(30), Z3T(30), <1>1
  <2>5. slot < n - 1 => Tree'[slot] = moved
    BY <2>1, <2>2, <2>4, <1>9, <1>10
  <2>6. \A i \in 0 .. n - 2 : i = slot => slot < n - 1
    BY <1>1
  <2>7. \A i \in 0 .. n - 2 : Tree'[i] \in Entries
    BY <2>2, <2>3, <2>5, <2>6, <1>1, <1>4
  <2>. QED
    BY <2>1, <2>2, <2>3, <2>5, <2>7 DEF Agree
<1>12. /\ timer_id' \in [Entries -> Int] /\ timer_id'[e] = -1 /\ Agree(timer_id', timer_id, Entries \ {e})
  BY SMTT(30), Z3T(30), <1>2, <1>4, <1>6 DEF Agree
<1>13. Removed(Tree, n, max_size, timer_id, timer_ids, freelist, slot, hole', Tree', timer_id', timer_ids')
  <2>1. hole'.dir # "none" => hole'.slot = slot /\ slot < n - 1
    BY <1>10
  <2>2. slot < n - 1 => hole'.dir # "none"
    BY <1>10
  <2>. QED
    BY <2>1, <2>2, <1>8, <1>11, <1>12 DEF Removed, e, moved
<1>14. SlotInv'
  <2>1. SlotsOK(Tree', n - 1, hole', max_size, timer_id', timer_ids')
    BY <1>1, <1>2, <1>3, <1>13, RemoveSlots
  <2>. QED
    BY <2>1, <1>6 DEF SlotInv
<1>15. OrderInv'
  <2>0. slot \in Nat /\ (slot > 0 => HEAP_PARENT(slot) \in 0 .. n - 1 /\ HEAP_PARENT(slot) # slot
                                     /\ IsParent(HEAP_PARENT(slot), slot))
    <3>1. slot \in Nat
      BY <1>1
    <3>2. slot > 0 => HEAP_PARENT(slot) \in Nat /\ HEAP_PARENT(slot) < slot /\ IsParent(HEAP_PARENT(slot), slot)
      BY <3>1, ParentIsParent
    <3>. QED
      BY <3>1, <3>2, <1>1
  <2>1. ASSUME slot < n - 1
        PROVE  /\ slot = 0 => hole'.dir = "down"
               /\ slot > 0 => hole'.dir = IF timer_value[moved] < timer_value[Tree[HEAP_PARENT(slot)]]
                                          THEN "up" ELSE "down"
    <3>1. hole'.dir = Direction(heap'[HEAP_PARENT(slot)], moved)
      BY SMTT(30), Z3T(30), <2>1, <1>6
    <3>2. CASE slot = 0
      <4>1. HEAP_PARENT(slot) = slot /\ heap'[slot] = moved
        BY <2>1, <3>2, <1>9 DEF HEAP_PARENT
      <4>2. ~(timer_value[moved] < timer_value[moved])
        BY <1>2, <1>4
      <4>. QED
        BY <3>1, <3>2, <4>1, <4>2 DEF Direction, Later
    <3>3. CASE slot > 0
      <4>1. heap'[HEAP_PARENT(slot)] = Tree[HEAP_PARENT(slot)]
        BY <2>0, <3>3, <1>9
      <4>. QED
        BY <2>0, <3>1, <3>3, <4>1 DEF Direction, Later
    <3>. QED
      BY <2>0, <3>2, <3>3
  <2>2. hole'.dir = "up" =>
            \E p \in 0 .. n - 1 : IsParent(p, slot) /\ timer_value[Tree[n - 1]] < timer_value[Tree[p]]
    <3>. SUFFICES ASSUME hole'.dir = "up"
                  PROVE  \E p \in 0 .. n - 1 : IsParent(p, slot) /\ timer_value[moved] < timer_value[Tree[p]]
      BY DEF moved
    <3>1. slot < n - 1 /\ slot > 0
      BY SMTT(30), Z3T(30), <2>0, <2>1, <1>10
    <3>2. timer_value[moved] < timer_value[Tree[HEAP_PARENT(slot)]]
      BY <2>1, <3>1
    <3>. QED
      BY <2>0, <3>1, <3>2
  <2>3. ASSUME hole'.dir = "down", NEW p \in 0 .. n - 1, IsParent(p, slot)
        PROVE  timer_value[Tree[p]] <= timer_value[Tree[n - 1]]
    <3>1. p \in Nat /\ slot < n - 1
      BY SMTT(30), Z3T(30), <2>3, <1>1, <1>10
    <3>2. p < slot /\ p = HEAP_PARENT(slot)
      BY <2>0, <2>3, <3>1, OneParent
    <3>3. slot > 0
      BY <2>0, <3>1, <3>2
    <3>4. ~(timer_value[moved] < timer_value[Tree[p]])
      BY <2>1, <2>3, <3>1, <3>2, <3>3
    <3>5. timer_value[moved] \in Nat /\ timer_value[Tree[p]] \in Nat
      BY <1>1, <1>2, <1>4
    <3>. QED
      BY <3>4, <3>5 DEF moved
  <2>4. OrderOK(Tree', n - 1, hole', timer_value)
    BY <2>2, <2>3, <1>1, <1>2, <1>3, <1>13, RemoveOrder
  <2>. QED
    BY <2>4, <1>6 DEF OrderInv
<1>16. FreeInv'
  <2>1. PICK fl : FreeOK(fl, n, max_size, freelist, timer_id, timer_ids)
    BY <1>1 DEF IInv, FreeInv
  <2>. DEFINE f2 == [k \in 0 .. max_size - n |-> IF k = 0 THEN timer_id[Tree[slot]] ELSE fl[k - 1]]
  <2>2. FreeOK(f2, n - 1, max_size, timer_id[Tree[slot]], timer_id', timer_ids')
    BY <2>1, <1>1, <1>3, <1>13, FreePushed
  <2>. HIDE DEF f2
  <2>3. FreeOK(f2, Count', max_size', freelist', timer_id', timer_ids')
    BY <2>2, <1>6 DEF e
  <2>. QED
    BY <2>3 DEF FreeInv, FreeOK
<1>17. cur_size' \in Nat /\ freelist' \in Nat
  BY SMTT(30), Z3T(30), <1>1, <1>4, <1>5, <1>6
<1>18. hole'.dir = "none" => hole' = NoHole
  BY <1>10
<1>. QED
  BY <1>2, <1>4, <1>5, <1>6, <1>8, <1>9, <1>10, <1>12, <1>14, <1>15, <1>16, <1>17, <1>18, <1>1

\* A call or a poll takes the entry of a slot off the heap, and the lock.
LEMMA RemoveStep ==
    ASSUME IInv, NEW th \in Threads, Unlocked, NEW slot \in 0 .. cur_size - 1, remove_node(slot),
           lock' = th, NEW r \in TimerType, Goto(th, r), r.pc = "surgery",
           r.op \in {"cancel", "poll"}, r.node = heap[slot], r.cb_grp = thr[th].cb_grp,
           r.op = "poll" => r.cb \in Entries /\ r.ret = "idle" /\ ~r.cb_grp,
           r.op = "cancel" =>
               IF r.ret = "callback" THEN r.cb \in Entries ELSE r.cb = NoEntry /\ ~r.cb_grp,
           r.now <= now, calls' \in Nat, UNCHANGED <<conf, grp_lock, ref, now>>
    PROVE  IInv'
<1>. DEFINE e == heap[slot]
<1>0. /\ conf' = conf /\ grp_lock' = grp_lock /\ ref' = ref /\ now' = now /\ lock = NoThread
      /\ NoThread \notin Threads
  BY TimerAssumption DEF Unlocked
<1>1. thr \in [Threads -> TimerType]
  BY DEF IInv, TypeOK
<1>2. thr'[th] = r /\ (\A x \in Threads : x # th => thr'[x] = thr[x]) /\ thr' \in [Threads -> TimerType]
  BY <1>1 DEF Goto
<1>3. ~Inserting' /\ Count' = cur_size'
  BY <1>2 DEF Inserting, Count
<1>4. /\ e \in Entries /\ timer_id[e] >= 1
      /\ max_size' \in Nat /\ cur_size' \in Nat /\ freelist' \in Nat
      /\ heap' \in [0 .. max_size' - 1 -> Entries \cup {NoEntry}]
      /\ timer_ids' \in [0 .. max_size' - 1 -> Int]
      /\ timer_id' \in [Entries -> Int] /\ timer_value' \in [Entries -> Nat]
      /\ hole' \in [dir : {"none", "up", "down"}, slot : Nat, moved : Entries \cup {NoEntry}]
      /\ hole'.dir = "none" => hole' = NoHole
  BY <1>3, RemoveData
<1>5. /\ timer_id'[e] = -1 /\ Agree(timer_id', timer_id, Entries \ {e})
      /\ SlotInv' /\ OrderInv' /\ FreeInv'
  BY <1>3, RemoveData
<1>. HIDE DEF e
<1>6. TypeOK' /\ ConfOK'
  BY <1>0, <1>2, <1>4 DEF IInv, TypeOK, ConfOK
<1>7. ThreadInv'
  <2>1. ThreadOK(th)'
    BY <1>0, <1>2, <1>4 DEF ThreadOK, e
  <2>2. ASSUME NEW x \in Threads, x # th PROVE ThreadOK(x)'
    <3>1. now <= now'
      BY SMTT(30), Z3T(30), <1>0 DEF IInv, TypeOK
    <3>2. At(x, "schedule") => thr[x].node \in Entries /\ timer_id[thr[x].node] < 1
      BY DEF IInv, ThreadInv, ThreadOK, At
    <3>3. At(x, "schedule") => thr[x].node # e
      <4>1. timer_id[e] \in Int /\ ~(timer_id[e] < 1)
        <5>1. timer_id \in [Entries -> Int]
          BY DEF IInv, TypeOK
        <5>. QED
          BY SMTT(30), Z3T(30), <1>4, <5>1
      <4>. QED
        BY <3>2, <4>1
    <3>4. At(x, "schedule") => timer_id'[thr[x].node] = timer_id[thr[x].node]
      BY <3>2, <3>3, <1>5 DEF Agree
    <3>. QED
      BY <2>2, <3>1, <3>4, <1>0, <1>2, <1>6, OtherThread
  <2>3. \A y, x \in Threads :
            (At(y, "schedule") /\ At(x, "schedule") /\ thr[y].node = thr[x].node)' => y = x
    BY SchedulersDiffer
  <2>4. /\ (lock = NoThread => hole = NoHole)' /\ (hole.dir = "down" => ~Inserting)'
        /\ (hole.dir = "none" => hole = NoHole)'
    <3>1. NoHole' = NoHole
      BY DEF NoHole
    <3>. QED
      BY <3>1, <1>0, <1>3, <1>4
  <2>. QED
    BY <2>1, <2>2, <2>3, <2>4 DEF ThreadInv
<1>8. RefInv'
  <2>1. {x \in Threads : thr[x].cb_grp}' = {x \in Threads : thr[x].cb_grp}
    BY <1>2
  <2>2. (ref = Cardinality({x \in Entries : grp_lock[x]}) + Cardinality({x \in Threads : thr[x].cb_grp}))'
    BY <2>1, <1>0 DEF IInv, RefInv
  <2>3. ASSUME NEW x \in Entries, grp_lock'[x]
        PROVE  \/ timer_id'[x] >= 1
               \/ (lock # NoThread /\ thr[lock].op \in {"cancel", "poll"} /\ thr[lock].node = x)'
    <3>1. timer_id[x] >= 1
      BY <2>3, <1>0 DEF IInv, RefInv
    <3>2. CASE x = e
      BY <3>2, <1>0, <1>2 DEF e
    <3>3. CASE x # e
      BY <3>1, <3>3, <1>5 DEF Agree
    <3>. QED
      BY <3>2, <3>3
  <2>. QED
    BY <2>2, <2>3, <1>3 DEF RefInv
<1>. QED
  BY <1>5, <1>6, <1>7, <1>8 DEF IInv

\* The clock, and calls that do nothing.
LEMMA NothingElse ==
    ASSUME IInv, UNCHANGED <<conf, arrays, entryvars, lock, hole, thr>>,
           now' \in Nat, now <= now', calls' \in Nat
    PROVE  IInv'
<1>0. /\ conf' = conf /\ max_size' = max_size /\ cur_size' = cur_size /\ heap' = heap
      /\ timer_ids' = timer_ids /\ freelist' = freelist /\ timer_id' = timer_id
      /\ timer_value' = timer_value /\ grp_lock' = grp_lock /\ ref' = ref /\ lock' = lock
      /\ hole' = hole /\ thr' = thr
  BY DEF arrays, entryvars
<1>1. TypeOK' /\ ConfOK'
  BY <1>0 DEF IInv, TypeOK, ConfOK
<1>2. Inserting' = Inserting /\ Count' = Count
  BY <1>0 DEF Inserting, Count
<1>3. Tree' = Tree
  BY <1>0, <1>2 DEF Tree
<1>4. SlotInv' /\ OrderInv' /\ FreeInv'
  BY <1>0, <1>2, <1>3, DataSame
<1>5. ThreadInv'
  <2>1. ASSUME NEW x \in Threads PROVE ThreadOK(x)'
    BY <1>0, <1>1, OtherThread
  <2>2. \A y, x \in Threads :
            (At(y, "schedule") /\ At(x, "schedule") /\ thr[y].node = thr[x].node)' => y = x
    BY <1>0 DEF IInv, ThreadInv, At
  <2>3. /\ (lock = NoThread => hole = NoHole)' /\ (hole.dir = "down" => ~Inserting)'
        /\ (hole.dir = "none" => hole = NoHole)'
    BY <1>0, <1>2 DEF IInv, ThreadInv, NoHole
  <2>. QED
    BY <2>1, <2>2, <2>3 DEF ThreadInv
<1>6. RefInv'
  BY <1>0, RefKept
<1>. QED
  BY <1>1, <1>4, <1>5, <1>6 DEF IInv

\* An entry that is armed is found by its id, in the slot where it is.
LEMMA ArmedIsFound ==
    ASSUME IInv, Unlocked, NEW e \in Entries
    PROVE  /\ timer_id[e] >= 1 => /\ Found(e) /\ timer_ids[timer_id[e]] \in 0 .. cur_size - 1
                                  /\ heap[timer_ids[timer_id[e]]] = e
           /\ ~(timer_id[e] >= 1) => timer_id[e] = -1 /\ ~Found(e)
<1>1. /\ cur_size \in Nat /\ Count = cur_size /\ hole.dir = "none" /\ max_size \in Nat
      /\ \A i \in 0 .. cur_size - 1 : heap[i] = Tree[i]
  BY Basics, Resting
<1>2. /\ timer_id[e] >= 1 => \E i \in 0 .. cur_size - 1 : Tree[i] = e
      /\ timer_id[e] = -1 \/ timer_id[e] \in 1 .. max_size - 1
      /\ \A i \in 0 .. cur_size - 1 : timer_ids[timer_id[Tree[i]]] = i
  BY <1>1 DEF IInv, SlotInv, SlotsOK
<1>3. CASE timer_id[e] >= 1
  <2>1. PICK i \in 0 .. cur_size - 1 : Tree[i] = e
    BY <1>2, <1>3
  <2>2. timer_ids[timer_id[e]] = i /\ heap[i] = e
    BY <2>1, <1>1, <1>2
  <2>3. timer_id[e] \in 1 .. max_size - 1
    BY SMTT(30), Z3T(30), <1>2, <1>3
  <2>4. timer_id[e] >= 0 /\ timer_id[e] <= max_size /\ timer_ids[timer_id[e]] >= 0
    BY <2>2, <2>3, <1>1
  <2>. QED
    BY <2>2, <2>4, <1>3 DEF Found
<1>4. CASE ~(timer_id[e] >= 1)
  <2>1. timer_id[e] = -1
    BY <1>1, <1>2, <1>4
  <2>. QED
    BY <2>1, <1>4 DEF Found
<1>. QED
  BY <1>3, <1>4

\* cancel_timer() preserves the invariant.
LEMMA Cancel ==
    ASSUME IInv, NEW th \in Threads, NEW e \in Entries, cancel_timer(th, e)
    PROVE  IInv'
<1>0. /\ Unlocked /\ lock = NoThread /\ calls' = calls + 1 /\ conf' = conf /\ now' = now
      /\ thr[th].pc \in {"idle", "callback"}
  BY DEF cancel_timer, Calling, Unlocked
<1>1. /\ thr \in [Threads -> TimerType] /\ thr[th] \in TimerType /\ now \in Nat /\ calls \in Nat
      /\ timer_id \in [Entries -> Int] /\ grp_lock \in [Entries -> BOOLEAN] /\ ref \in Int
  BY DEF IInv, TypeOK
<1>2. calls' \in Nat /\ now <= now' /\ now' \in Nat
  BY <1>0, <1>1
<1>3. CASE timer_id[e] >= 1
  <2>. DEFINE slot == timer_ids[timer_id[e]]
              r == [thr[th] EXCEPT !.pc = "surgery", !.ret = thr[th].pc, !.op = "cancel", !.node = e]
  <2>1. Found(e) /\ slot \in 0 .. cur_size - 1 /\ heap[slot] = e
    BY <1>0, <1>3, ArmedIsFound
  <2>2. remove_node(slot) /\ lock' = th /\ Goto(th, r) /\ grp_lock' = grp_lock /\ ref' = ref
    BY <2>1 DEF cancel_timer
  <2>3. r \in TimerType
    BY <1>0, <1>1 DEF TimerType
  <2>4. /\ r.pc = "surgery" /\ r.ret = thr[th].pc /\ r.op = "cancel" /\ r.node = e
        /\ r.cb = thr[th].cb /\ r.cb_grp = thr[th].cb_grp /\ r.now = thr[th].now
    BY <1>1 DEF TimerType
  <2>5. ThreadOK(th)
    BY DEF IInv, ThreadInv
  <2>6. /\ thr[th].now <= now
        /\ IF thr[th].pc = "callback" THEN thr[th].cb \in Entries ELSE thr[th].cb = NoEntry /\ ~thr[th].cb_grp
    BY <2>5, <1>0 DEF ThreadOK
  <2>. HIDE DEF r, slot
  <2>. QED
    BY <2>1, <2>2, <2>3, <2>4, <2>6, <1>0, <1>2, RemoveStep
<1>4. CASE ~(timer_id[e] >= 1)
  <2>1. ~Found(e) /\ timer_id[e] = -1
    BY <1>0, <1>4, ArmedIsFound
  <2>2. /\ timer_id' = [timer_id EXCEPT ![e] = -1] /\ DropRef(e)
        /\ UNCHANGED <<arrays, timer_value, lock, hole, thr>>
    BY <2>1 DEF cancel_timer
  <2>3. grp_lock[e] = FALSE
    BY <1>0, <1>1, <1>4 DEF IInv, RefInv
  <2>4. grp_lock' = grp_lock /\ ref' = ref
    BY <2>2, <2>3, <1>1 DEF DropRef, One
  <2>5. timer_id' = timer_id
    BY <2>1, <2>2, <1>1
  <2>. QED
    BY <2>2, <2>4, <2>5, <1>0, <1>2, NothingElse DEF entryvars
<1>. QED
  BY <1>3, <1>4

\* A thread that is idle or in the loop goes on with a poll.
LEMMA Poll ==
    ASSUME IInv, NEW th \in Threads, Unlocked, thr[th].pc \in {"idle", "loop"},
           NEW t \in Nat, t <= now, NEW n \in Nat, PollLoop(th, t, n), UNCHANGED <<conf, now, calls>>
    PROVE  IInv'
<1>0. conf' = conf /\ now' = now /\ calls' = calls
  OBVIOUS
<1>1. /\ thr \in [Threads -> TimerType] /\ thr[th] \in TimerType /\ now \in Nat /\ calls \in Nat
      /\ cur_size \in Nat
  BY DEF IInv, TypeOK
<1>2. ThreadOK(th)
  BY DEF IInv, ThreadInv
<1>3. thr[th].cb = NoEntry /\ thr[th].ret = "idle" /\ ~thr[th].cb_grp /\ lock # th
  BY <1>2 DEF ThreadOK
<1>4. CASE Due(t, n)
  <2>. DEFINE r == [thr[th] EXCEPT !.pc = "surgery", !.op = "poll", !.node = heap[0],
                                   !.now = t, !.count = n + 1, !.cb = heap[0]]
  <2>1. remove_node(0) /\ lock' = th /\ Goto(th, r) /\ grp_lock' = grp_lock /\ ref' = ref
    BY <1>4 DEF PollLoop
  <2>2. 0 \in 0 .. cur_size - 1
    BY <1>1, <1>4 DEF Due
  <2>3. heap[0] \in Entries
    <3>1. heap[0] = Tree[0] /\ Tree \in [0 .. cur_size - 1 -> Entries]
      BY <2>2, Resting, Basics
    <3>. QED
      BY <2>2, <3>1
  <2>4. r \in TimerType
    <3>1. n + 1 \in Nat
      OBVIOUS
    <3>. QED
      BY <2>3, <3>1, <1>1 DEF TimerType
  <2>5. /\ r.pc = "surgery" /\ r.ret = thr[th].ret /\ r.op = "poll" /\ r.node = heap[0]
        /\ r.cb = heap[0] /\ r.cb_grp = thr[th].cb_grp /\ r.now = t
    BY <1>1 DEF TimerType
  <2>. HIDE DEF r
  <2>. QED
    BY <2>1, <2>2, <2>3, <2>4, <2>5, <1>0, <1>1, <1>3, RemoveStep
<1>5. CASE ~Due(t, n)
  <2>1. Goto(th, Idle) /\ UNCHANGED <<arrays, entryvars, lock, hole>>
    BY <1>5 DEF PollLoop
  <2>2. /\ max_size' = max_size /\ cur_size' = cur_size /\ heap' = heap
        /\ timer_ids' = timer_ids /\ freelist' = freelist /\ timer_id' = timer_id
        /\ timer_value' = timer_value /\ grp_lock' = grp_lock /\ ref' = ref /\ lock' = lock
        /\ hole' = hole
    BY <2>1 DEF arrays, entryvars
  <2>3. Idle \in TimerType
    BY DEF Idle, TimerType
  <2>4. thr'[th] = Idle /\ (\A x \in Threads : x # th => thr'[x] = thr[x]) /\ thr' \in [Threads -> TimerType]
    BY <2>1, <2>3, <1>1 DEF Goto
  <2>5. TypeOK' /\ ConfOK'
    BY <2>2, <2>4, <1>0 DEF IInv, TypeOK, ConfOK
  <2>6. Inserting' = Inserting /\ Count' = Count /\ Tree' = Tree /\ (lock # NoThread => thr'[lock] = thr[lock])
    BY <2>1, <2>2, <1>3, HolderSame
  <2>7. SlotInv' /\ OrderInv' /\ FreeInv'
    BY <2>2, <2>6, DataSame
  <2>8. ThreadInv'
    <3>1. ThreadOK(th)'
      <4>1. /\ Idle.pc = "idle" /\ Idle.op = "none" /\ Idle.cb = NoEntry /\ Idle.ret = "idle"
            /\ ~Idle.cb_grp /\ Idle.now = 0
        BY DEF Idle
      <4>2. 0 <= now'
        BY <1>0, <1>1
      <4>3. lock' # th
        BY <2>2, <1>3
      <4>. QED
        BY <2>4, <4>1, <4>2, <4>3 DEF ThreadOK
    <3>2. ASSUME NEW x \in Threads, x # th PROVE ThreadOK(x)'
      <4>1. now <= now'
        BY <1>0, <1>1
      <4>. QED
        BY <3>2, <4>1, <2>2, <2>4, <2>5, OtherThread
    <3>3. \A y, x \in Threads :
              (At(y, "schedule") /\ At(x, "schedule") /\ thr[y].node = thr[x].node)' => y = x
      <4>1. Idle.pc # "schedule"
        BY DEF Idle
      <4>. QED
        BY <4>1, <2>1, SchedulersDiffer
    <3>4. /\ (lock = NoThread => hole = NoHole)' /\ (hole.dir = "down" => ~Inserting)'
          /\ (hole.dir = "none" => hole = NoHole)'
      BY <2>2, <2>6 DEF IInv, ThreadInv, NoHole
    <3>. QED
      BY <3>1, <3>2, <3>3, <3>4 DEF ThreadInv
  <2>9. RefInv'
    <3>1. thr[th].cb_grp = FALSE /\ Idle.cb_grp = FALSE
      BY <1>1, <1>3 DEF TimerType, Idle
    <3>2. \A x \in Threads : thr'[x].cb_grp = thr[x].cb_grp
      BY <3>1, <2>4
    <3>. QED
      BY <3>2, <2>2, <2>6, RefKept
  <2>. QED
    BY <2>5, <2>7, <2>8, <2>9 DEF IInv
<1>. QED
  BY <1>4, <1>5

\* What a configuration is.
LEMMA ConfFacts ==
    ASSUME IInv
    PROVE  conf.entries \subseteq Entries /\ conf.delays \subseteq Nat /\ conf.grps \subseteq BOOLEAN
  BY TimerAssumption DEF IInv, ConfOK, ConfigType

\* A poll starts with the time it reads, and goes on with that.
LEMMA PollStep ==
    ASSUME IInv, NEW th \in Threads, pj_timer_heap_poll(th) \/ poll_again(th)
    PROVE  /\ Unlocked /\ thr[th].pc \in {"idle", "loop"} /\ conf' = conf /\ now' = now /\ calls' = calls
           /\ \E t \in Nat, n \in Nat : t <= now /\ PollLoop(th, t, n)
<1>1. now \in Nat /\ thr[th].now \in Nat /\ thr[th].count \in Nat /\ thr[th].now <= now
  BY DEF IInv, TypeOK, TimerType, ThreadInv, ThreadOK
<1>2. CASE pj_timer_heap_poll(th)
  <2>1. PollLoop(th, now, 0) /\ now <= now /\ 0 \in Nat
    BY <1>1, <1>2 DEF pj_timer_heap_poll
  <2>. QED
    BY <2>1, <1>1, <1>2 DEF pj_timer_heap_poll, At
<1>3. CASE poll_again(th)
  <2>1. PollLoop(th, thr[th].now, thr[th].count)
    BY <1>3 DEF poll_again
  <2>. QED
    BY <2>1, <1>1, <1>3 DEF poll_again, At
<1>. QED
  BY <1>2, <1>3

----------------------------------------------------------------------------
(* The refinement.                                                          *)

Armed == {e \in Entries : timer_id[e] >= 1}
Running == [th \in Threads |-> thr[th].cb]

\* A step of thread th leaves the callbacks alone if it leaves its own alone.
LEMMA RunningSame ==
    ASSUME IInv, NEW th \in Threads, NEW r, Goto(th, r), r.cb = thr[th].cb
    PROVE  Running' = Running
<1>1. thr \in [Threads -> TimerType]
  BY DEF IInv, TypeOK
<1>2. \A x \in Threads : thr'[x].cb = thr[x].cb
  BY <1>1 DEF Goto
<1>. QED
  BY <1>2 DEF Running

\* Steps that the set does not see.
LEMMA Stutter ==
    ASSUME timer_id' = timer_id, timer_value' = timer_value, now' = now, Running' = Running
    PROVE  UNCHANGED TS!avars
<1>1. Armed' = Armed
  BY DEF Armed
<1>. QED
  BY <1>1 DEF TS!avars, Armed, Running

\* remove_node() disarms the entry.
LEMMA RemoveDisarms ==
    ASSUME IInv, Unlocked, NEW slot \in 0 .. cur_size - 1, remove_node(slot)
    PROVE  /\ heap[slot] \in Armed /\ Armed' = Armed \ {heap[slot]} /\ timer_value' = timer_value
<1>1. heap[slot] = Tree[slot] /\ Count = cur_size
  BY Resting
<1>2. heap[slot] \in Entries /\ timer_id[heap[slot]] >= 1
  BY <1>1, Basics DEF IInv, SlotInv, SlotsOK
<1>3. timer_id' = [timer_id EXCEPT ![heap[slot]] = -1] /\ timer_value' = timer_value
  BY DEF remove_node
<1>4. timer_id \in [Entries -> Int]
  BY DEF IInv, TypeOK
<1>5. \A e \in Entries : timer_id'[e] >= 1 <=> timer_id[e] >= 1 /\ e # heap[slot]
  BY <1>2, <1>3, <1>4
<1>. QED
  BY <1>2, <1>3, <1>5 DEF Armed

\* schedule_entry() arms the entry, or finds the heap full.
LEMMA ScheduleEntryRefines ==
    ASSUME IInv, NEW th \in Threads, schedule_entry(th)
    PROVE  [TS!Next]_(TS!avars)
<1>. DEFINE r == [thr[th] EXCEPT !.pc = "surgery", !.op = "insert"]
<1>0. Unlocked /\ At(th, "schedule") /\ now' = now
  BY DEF schedule_entry
<1>e. PICK e \in Entries : e = thr[th].node
  BY <1>0 DEF IInv, ThreadInv, ThreadOK, At
<1>1. cur_size \in Nat /\ max_size \in Nat /\ cur_size + 1 < max_size /\ Count = cur_size
  BY <1>0, Basics, Resting
<1>2. timer_id[e] < 1 /\ thr[th] \in TimerType /\ thr[th].expires \in Nat
  BY <1>0, <1>e DEF IInv, ThreadInv, ThreadOK, At, TypeOK, TimerType
<1>3. cur_size < max_size
  BY <1>1
<1>4. /\ timer_id' = [timer_id EXCEPT ![e] = freelist]
      /\ timer_value' = [timer_value EXCEPT ![e] = thr[th].expires] /\ Goto(th, r)
  BY <1>3, <1>e DEF schedule_entry
<1>5. PICK fl : FreeOK(fl, cur_size, max_size, freelist, timer_id, timer_ids)
  BY <1>1 DEF IInv, FreeInv
<1>6. freelist \in 1 .. max_size - 1
  BY <1>1, <1>5, FreeHead
<1>7. timer_id \in [Entries -> Int] /\ timer_value \in [Entries -> Nat]
  BY DEF IInv, TypeOK
<1>8. r.cb = thr[th].cb
  BY <1>2 DEF TimerType
<1>9. Running' = Running
  BY <1>4, <1>8, RunningSame
<1>. HIDE DEF r
<1>10. \A x \in Entries : timer_id'[x] >= 1 <=> timer_id[x] >= 1 \/ x = e
  BY <1>2, <1>4, <1>6, <1>7, <1>1
<1>11. e \notin Armed /\ Armed' = Armed \cup {e}
  BY <1>2, <1>7, <1>10 DEF Armed
<1>12. timer_value' \in [Entries -> Nat] /\ \A x \in Entries \ {e} : timer_value'[x] = timer_value[x]
  BY <1>2, <1>4, <1>7
<1>13. TS!Arm(e)
  BY <1>0, <1>9, <1>11, <1>12 DEF TS!Arm, Armed, Running
<1>. QED
  BY <1>13 DEF TS!Next

\* cancel_timer() disarms the entry that it finds, and changes nothing otherwise.
LEMMA CancelRefines ==
    ASSUME IInv, NEW th \in Threads, NEW e \in Entries, cancel_timer(th, e)
    PROVE  [TS!Next]_(TS!avars)
<1>. DEFINE r == [thr[th] EXCEPT !.pc = "surgery", !.ret = thr[th].pc, !.op = "cancel", !.node = e]
<1>0. Unlocked /\ now' = now
  BY DEF cancel_timer
<1>1. thr[th] \in TimerType /\ timer_id \in [Entries -> Int]
  BY DEF IInv, TypeOK
<1>2. CASE timer_id[e] >= 1
  <2>. DEFINE slot == timer_ids[timer_id[e]]
  <2>1. Found(e) /\ slot \in 0 .. cur_size - 1 /\ heap[slot] = e
    BY <1>0, <1>2, ArmedIsFound
  <2>2. remove_node(slot) /\ Goto(th, r)
    BY <2>1 DEF cancel_timer
  <2>3. r.cb = thr[th].cb
    BY <1>1 DEF TimerType
  <2>4. Running' = Running
    BY <2>2, <2>3, RunningSame
  <2>5. e \in Armed /\ Armed' = Armed \ {e} /\ timer_value' = timer_value
    <3>. HIDE DEF slot
    <3>. QED
      BY <2>1, <2>2, <1>0, RemoveDisarms
  <2>6. TS!Disarm(e)
    BY <1>0, <2>4, <2>5 DEF TS!Disarm, Armed, Running
  <2>. QED
    BY <2>6 DEF TS!Next
<1>3. CASE ~(timer_id[e] >= 1)
  <2>1. timer_id[e] = -1 /\ ~Found(e)
    BY <1>0, <1>3, ArmedIsFound
  <2>2. timer_id' = [timer_id EXCEPT ![e] = -1] /\ timer_value' = timer_value /\ thr' = thr
    BY <2>1 DEF cancel_timer
  <2>3. timer_id' = timer_id
    BY <1>1, <2>1, <2>2
  <2>4. Running' = Running
    BY <2>2 DEF Running
  <2>. QED
    BY <1>0, <2>2, <2>3, <2>4, Stutter
<1>. QED
  BY <1>2, <1>3

\* The callback of an entry returns.
LEMMA ReturnRefines ==
    ASSUME IInv, NEW th \in Threads, callback_return(th)
    PROVE  [TS!Next]_(TS!avars)
<1>. DEFINE r == [thr[th] EXCEPT !.pc = "loop", !.cb = NoEntry, !.cb_grp = FALSE]
<1>1. At(th, "callback") /\ Goto(th, r) /\ timer_id' = timer_id /\ timer_value' = timer_value /\ now' = now
  BY DEF callback_return
<1>2. thr \in [Threads -> TimerType] /\ thr[th] \in TimerType /\ thr[th].cb \in Entries
  BY <1>1 DEF IInv, TypeOK, ThreadInv, ThreadOK, At
<1>3. r.cb = NoEntry
  BY <1>2 DEF TimerType
<1>. HIDE DEF r
<1>4. Running' = [Running EXCEPT ![th] = NoEntry] /\ Running[th] # NoEntry
  BY <1>1, <1>2, <1>3, TimerAssumption DEF Running, Goto
<1>5. Armed' = Armed
  BY <1>1 DEF Armed
<1>6. TS!Return(th)
  BY <1>1, <1>4, <1>5 DEF TS!Return, Armed, Running
<1>. QED
  BY <1>6 DEF TS!Next

\* What else a thread does is not visible in the set.
LEMMA RestRefines ==
    ASSUME IInv, NEW th \in Threads,
           \/ reheap_up(th) \/ reheap_down(th) \/ finish(th)
           \/ \E e \in conf.entries, delay \in conf.delays, g \in conf.grps :
                  schedule_w_grp_lock(th, e, delay, g)
    PROVE  UNCHANGED TS!avars
<1>0. thr[th] \in TimerType
  BY DEF IInv, TypeOK
<1>1. timer_id' = timer_id /\ timer_value' = timer_value /\ now' = now
  BY DEF reheap_up, reheap_down, finish, schedule_w_grp_lock, entryvars
<1>2. CASE reheap_up(th) \/ reheap_down(th)
  <2>1. Running' = Running
    BY <1>2 DEF reheap_up, reheap_down, Running
  <2>. QED
    BY <1>1, <2>1, Stutter
<1>3. CASE finish(th)
  <2>1. Back(th).cb = thr[th].cb /\ \A g : [Back(th) EXCEPT !.pc = "callback", !.cb_grp = g].cb = thr[th].cb
    BY <1>0 DEF Back, TimerType
  <2>2. \/ Goto(th, Back(th))
        \/ Goto(th, [Back(th) EXCEPT !.pc = "callback", !.cb_grp = grp_lock[thr[th].node]])
    BY <1>3 DEF finish
  <2>3. Running' = Running
    BY <2>1, <2>2, RunningSame
  <2>. QED
    BY <1>1, <2>3, Stutter
<1>4. ASSUME NEW e, NEW delay, NEW g, schedule_w_grp_lock(th, e, delay, g)
      PROVE  UNCHANGED TS!avars
  <2>. DEFINE r == [thr[th] EXCEPT !.pc = "schedule", !.ret = thr[th].pc, !.node = e,
                                   !.expires = now + delay, !.grp = g]
  <2>1. Goto(th, r) /\ r.cb = thr[th].cb
    BY <1>0, <1>4 DEF schedule_w_grp_lock, TimerType
  <2>2. Running' = Running
    BY <2>1, RunningSame
  <2>. QED
    BY <1>1, <2>2, Stutter
<1>. QED
  BY <1>2, <1>3, <1>4

INSTANCE FiniteSetTheorems

\* A set of natural numbers has a smallest element.
LEMMA Smallest ==
    ASSUME NEW T, T \subseteq Nat, T # {}
    PROVE  \E x \in T : \A y \in T : x <= y
<1>. DEFINE R == StrictSubsetOrdering(Nat)
            W == {0 .. x : x \in T}
<1>1. IsWellFoundedOn(R, FiniteSubsetsOf(Nat))
  BY FS_StrictSubsetOrderingWellFounded
<1>2. W \subseteq FiniteSubsetsOf(Nat) /\ W # {}
  <2>1. ASSUME NEW x \in T PROVE 0 .. x \in FiniteSubsetsOf(Nat)
    BY FS_Interval DEF FiniteSubsetsOf
  <2>. QED
    BY <2>1
<1>3. PICK w \in W : \A y \in W : ~(<<y, w>> \in R)
  <2>. HIDE DEF R, W
  <2>. QED
    BY <1>1, <1>2, WFMin
<1>4. PICK x \in T : w = 0 .. x
  BY <1>3
<1>5. ASSUME NEW y \in T, y < x PROVE FALSE
  <2>1. 0 .. y \in W
    OBVIOUS
  <2>2. /\ 0 .. y \subseteq 0 .. x /\ 0 .. y # 0 .. x
        /\ 0 .. x \subseteq Nat /\ 0 .. y \subseteq Nat
    BY SMTT(30), Z3T(30), <1>5
  <2>3. <<0 .. y, 0 .. x>> \in R
    BY <2>2 DEF StrictSubsetOrdering
  <2>. QED
    BY <2>1, <2>3, <1>3, <1>4
<1>. QED
  BY SMTT(30), Z3T(30), <1>5

\* The root of an ordered tree is no later than any other entry: the smallest
\* slot for which this fails has a parent for which it fails.
LEMMA RootIsEarliest ==
    ASSUME NEW n \in Nat, NEW t \in [0 .. n - 1 -> Entries], NEW h, h.dir = "none",
           NEW val \in [Entries -> Nat], OrderOK(t, n, h, val)
    PROVE  \A i \in 0 .. n - 1 : val[t[0]] <= val[t[i]]
<1>. DEFINE T == {i \in 0 .. n - 1 : ~(val[t[0]] <= val[t[i]])}
<1>. SUFFICES ASSUME T # {} PROVE FALSE
  OBVIOUS
<1>1. T \subseteq Nat
  OBVIOUS
<1>2. PICK x \in T : \A y \in T : x <= y
  <2>. HIDE DEF T
  <2>. QED
    BY <1>1, Smallest
<1>3. x \in 0 .. n - 1 /\ x # 0 /\ ~(val[t[0]] <= val[t[x]])
  OBVIOUS
<1>4. PICK p \in Nat : p < x /\ IsParent(p, x)
  BY SMTT(30), Z3T(30), <1>3, ParentIsParent
<1>5. p \in 0 .. n - 1 /\ val[t[p]] <= val[t[x]]
  BY SMTT(30), Z3T(30), <1>3, <1>4 DEF OrderOK
<1>6. val[t[0]] <= val[t[p]]
  BY <1>2, <1>4, <1>5
<1>. QED
  BY <1>3, <1>5, <1>6

\* Adding or taking away one element.
LEMMA CardinalityPlus ==
    ASSUME NEW S, IsFiniteSet(S), NEW x, x \notin S
    PROVE  Cardinality(S \cup {x}) = Cardinality(S) + 1 /\ Cardinality(S) \in Nat
  BY FS_AddElement, FS_CardinalityType

\* Removing an element takes one off.
LEMMA CardinalityMinus ==
    ASSUME NEW S, IsFiniteSet(S), NEW x \in S
    PROVE  Cardinality(S \ {x}) = Cardinality(S) - 1 /\ Cardinality(S) \in Nat
  BY FS_RemoveElement, FS_CardinalityType

\* The references, counted.
LEMMA References ==
    ASSUME IInv
    PROVE  /\ IsFiniteSet({e \in Entries : grp_lock[e]}) /\ IsFiniteSet({x \in Threads : thr[x].cb_grp})
           /\ Cardinality({e \in Entries : grp_lock[e]}) \in Nat
           /\ Cardinality({x \in Threads : thr[x].cb_grp}) \in Nat
           /\ ref = Cardinality({e \in Entries : grp_lock[e]}) + Cardinality({x \in Threads : thr[x].cb_grp})
<1>1. IsFiniteSet({e \in Entries : grp_lock[e]}) /\ IsFiniteSet({x \in Threads : thr[x].cb_grp})
  BY TimerAssumption, FS_Subset
<1>2. ref = Cardinality({e \in Entries : grp_lock[e]}) + Cardinality({x \in Threads : thr[x].cb_grp})
  BY DEF IInv, RefInv
<1>. QED
  BY <1>1, <1>2, FS_CardinalityType

\* The end of each of the three operations preserves the invariant.
LEMMA Finish ==
    ASSUME IInv, NEW th \in Threads, finish(th)
    PROVE  IInv'
<1>. DEFINE w == thr[th]
            e == w.node
            S == {x \in Entries : grp_lock[x]}
            T == {x \in Threads : thr[x].cb_grp}
<1>0. /\ lock = th /\ hole = NoHole /\ lock' = NoThread /\ conf' = conf /\ max_size' = max_size
      /\ heap' = heap /\ timer_ids' = timer_ids /\ freelist' = freelist /\ timer_id' = timer_id
      /\ timer_value' = timer_value /\ hole' = hole /\ now' = now /\ calls' = calls
      /\ NoThread \notin Threads
  BY TimerAssumption DEF finish
<1>1. /\ thr \in [Threads -> TimerType] /\ w \in TimerType /\ now \in Nat /\ cur_size \in Nat
      /\ grp_lock \in [Entries -> BOOLEAN] /\ ref \in Int
  BY DEF IInv, TypeOK
<1>2. ThreadOK(th)
  BY DEF IInv, ThreadInv
<1>3. w.pc = "surgery" /\ e \in Entries /\ w.now <= now
  BY <1>0, <1>2 DEF ThreadOK
<1>4. /\ IsFiniteSet(S) /\ IsFiniteSet(T) /\ Cardinality(S) \in Nat /\ Cardinality(T) \in Nat
      /\ ref = Cardinality(S) + Cardinality(T)
  BY References
<1>5. \A x \in Entries : grp_lock[x] => timer_id[x] >= 1 \/ (w.op \in {"cancel", "poll"} /\ e = x)
  BY <1>0 DEF IInv, RefInv
<1>. DEFINE b == Back(th)
<1>6. /\ b \in TimerType /\ b.pc = w.ret /\ b.ret = "idle" /\ b.op = "none"
      /\ b.cb = w.cb /\ b.cb_grp = w.cb_grp /\ b.now = w.now
  BY <1>1 DEF Back, TimerType
<1>7. \E r \in TimerType :
         /\ Goto(th, r) /\ r.pc \in {"idle", "callback"} /\ r.ret = "idle" /\ r.op = "none"
         /\ r.cb = w.cb /\ r.now = w.now
         /\ r.pc = "idle" => r.cb = NoEntry /\ ~r.cb_grp
         /\ r.pc = "callback" => r.cb \in Entries
         /\ cur_size' = Count
         /\ grp_lock' \in [Entries -> BOOLEAN] /\ ref' \in Int
         /\ \A x \in Entries : grp_lock'[x] => timer_id[x] >= 1
         /\ ref' = Cardinality({x \in Entries : grp_lock'[x]})
                      + Cardinality(IF r.cb_grp THEN T \cup {th} ELSE T \ {th})
  <2>0. w.ret \in {"idle", "callback"}
    BY <1>1 DEF TimerType
  <2>1. CASE w.op = "insert"
    <3>1. /\ cur_size' = cur_size + 1 /\ grp_lock' = [grp_lock EXCEPT ![e] = w.grp]
          /\ ref' = ref + One(w.grp) /\ Goto(th, b)
      BY <2>1 DEF finish
    <3>2. ~grp_lock[e] /\ timer_id[e] >= 1 /\ Count = cur_size + 1
      BY <2>1, <1>0, <1>2 DEF IInv, RefInv, Inserting, ThreadOK, Count
    <3>3. IF w.ret = "callback" THEN w.cb \in Entries ELSE w.cb = NoEntry /\ ~w.cb_grp
      BY <2>1, <1>2 DEF ThreadOK
    <3>4. w.grp \in BOOLEAN
      BY <1>1 DEF TimerType
    <3>5. \A x \in Entries : grp_lock'[x] => timer_id[x] >= 1
      BY <2>1, <3>1, <3>2, <1>1, <1>5
    <3>6. T = IF b.cb_grp THEN T \cup {th} ELSE T \ {th}
      BY <1>6
    <3>7. ref' = Cardinality({x \in Entries : grp_lock'[x]}) + Cardinality(T)
      <4>1. CASE w.grp
        <5>1. {x \in Entries : grp_lock'[x]} = S \cup {e} /\ e \notin S
          BY <4>1, <3>1, <3>2, <1>1, <1>3
        <5>2. Cardinality(S \cup {e}) = Cardinality(S) + 1
          BY <5>1, <1>4, CardinalityPlus
        <5>3. ref' = ref + 1
          BY <4>1, <3>1 DEF One
        <5>. HIDE DEF S, T
        <5>. QED
          BY <5>1, <5>2, <5>3, <1>4
      <4>2. CASE ~w.grp
        <5>1. {x \in Entries : grp_lock'[x]} = S
          BY <4>2, <3>1, <3>2, <1>1, <1>3
        <5>2. ref' = ref
          BY <4>2, <3>1, <1>1 DEF One
        <5>. QED
          BY <5>1, <5>2, <1>4
      <4>. QED
        BY <4>1, <4>2
    <3>8. grp_lock' \in [Entries -> BOOLEAN] /\ ref' \in Int
      <4>1. One(w.grp) \in Int
        BY DEF One
      <4>. QED
        <5>1. ref' \in Int
          BY <4>1, <3>1, <1>1
        <5>2. grp_lock' \in [Entries -> BOOLEAN]
          BY <3>1, <3>4, <1>1
        <5>. QED
          BY <5>1, <5>2
    <3>. HIDE DEF b, S, T
    <3>. QED
      BY <2>0, <3>1, <3>2, <3>3, <3>5, <3>6, <3>7, <3>8, <1>6
  <2>2. CASE w.op = "cancel"
    <3>1. cur_size' = cur_size /\ DropRef(e) /\ Goto(th, b)
      BY <2>2 DEF finish
    <3>2. grp_lock' = [grp_lock EXCEPT ![e] = FALSE] /\ ref' = ref - One(grp_lock[e])
      BY <3>1 DEF DropRef
    <3>3. Count = cur_size
      BY <2>2, <1>0 DEF Count, Inserting
    <3>4. IF w.ret = "callback" THEN w.cb \in Entries ELSE w.cb = NoEntry /\ ~w.cb_grp
      BY <2>2, <1>2 DEF ThreadOK
    <3>5. \A x \in Entries : grp_lock'[x] => timer_id[x] >= 1
      BY <3>2, <1>1, <1>5
    <3>6. T = IF b.cb_grp THEN T \cup {th} ELSE T \ {th}
      BY <1>6
    <3>7. ref' = Cardinality({x \in Entries : grp_lock'[x]}) + Cardinality(T)
      <4>1. CASE grp_lock[e]
        <5>1. {x \in Entries : grp_lock'[x]} = S \ {e} /\ e \in S
          BY <4>1, <3>2, <1>1, <1>3
        <5>2. Cardinality({x \in Entries : grp_lock'[x]}) = Cardinality(S) - 1
          BY <5>1, <1>4, CardinalityMinus
        <5>3. ref' = ref - 1
          BY <4>1, <3>2 DEF One
        <5>. HIDE DEF S, T
        <5>. QED
          BY <5>2, <5>3, <1>4
      <4>2. CASE ~grp_lock[e]
        <5>1. {x \in Entries : grp_lock'[x]} = S
          BY <4>2, <3>2, <1>1, <1>3
        <5>2. ref' = ref
          BY <4>2, <3>2, <1>1 DEF One
        <5>. QED
          BY <5>1, <5>2, <1>4
      <4>. QED
        BY <4>1, <4>2
    <3>8. grp_lock' \in [Entries -> BOOLEAN] /\ ref' \in Int
      <4>1. One(grp_lock[e]) \in Int
        BY DEF One
      <4>. QED
        <5>1. ref' \in Int
          BY <4>1, <3>2, <1>1
        <5>2. grp_lock' \in [Entries -> BOOLEAN]
          BY <3>2, <1>1
        <5>. QED
          BY <5>1, <5>2
    <3>. HIDE DEF b, S, T
    <3>. QED
      BY <2>0, <3>1, <3>3, <3>4, <3>5, <3>6, <3>7, <3>8, <1>6
  <2>3. CASE w.op = "poll"
    <3>. DEFINE r == [b EXCEPT !.pc = "callback", !.cb_grp = grp_lock[e]]
    <3>1. cur_size' = cur_size /\ ref' = ref /\ grp_lock' = [grp_lock EXCEPT ![e] = FALSE] /\ Goto(th, r)
      BY <2>3 DEF finish
    <3>2. Count = cur_size
      BY <2>3, <1>0 DEF Count, Inserting
    <3>3. w.cb \in Entries /\ ~w.cb_grp
      BY <2>3, <1>2 DEF ThreadOK
    <3>4. /\ r \in TimerType /\ r.pc = "callback" /\ r.ret = "idle" /\ r.op = "none"
          /\ r.cb = w.cb /\ r.cb_grp = grp_lock[e] /\ r.now = w.now
      <4>1. grp_lock[e] \in BOOLEAN
        BY <1>1, <1>3
      <4>. HIDE DEF b
      <4>. QED
        BY <4>1, <1>6 DEF TimerType
    <3>5. \A x \in Entries : grp_lock'[x] => timer_id[x] >= 1
      BY <3>1, <1>1, <1>5
    <3>6. th \notin T
      BY <3>3
    <3>7. ref' = Cardinality({x \in Entries : grp_lock'[x]})
                    + Cardinality(IF grp_lock[e] THEN T \cup {th} ELSE T \ {th})
      <4>1. CASE grp_lock[e]
        <5>1. {x \in Entries : grp_lock'[x]} = S \ {e} /\ e \in S
          BY <4>1, <3>1, <1>1, <1>3
        <5>2. Cardinality({x \in Entries : grp_lock'[x]}) = Cardinality(S) - 1
          BY <5>1, <1>4, CardinalityMinus
        <5>3. Cardinality(T \cup {th}) = Cardinality(T) + 1
          BY <3>6, <1>4, CardinalityPlus
        <5>. HIDE DEF S, T
        <5>. QED
          BY SMTT(30), Z3T(30), <4>1, <5>2, <5>3, <3>1, <1>4
      <4>2. CASE ~grp_lock[e]
        <5>1. {x \in Entries : grp_lock'[x]} = S
          BY <4>2, <3>1, <1>1, <1>3
        <5>2. T \ {th} = T
          BY <3>6
        <5>. QED
          BY <4>2, <5>1, <5>2, <3>1, <1>4
      <4>. QED
        BY <4>1, <4>2
    <3>8. grp_lock' \in [Entries -> BOOLEAN] /\ ref' \in Int
      BY <3>1, <1>1
    <3>. HIDE DEF b, r, S, T
    <3>. QED
      BY <3>1, <3>2, <3>3, <3>4, <3>5, <3>7, <3>8
  <2>. QED
    BY <2>1, <2>2, <2>3 DEF finish
<1>8. PICK r \in TimerType :
         /\ Goto(th, r) /\ r.pc \in {"idle", "callback"} /\ r.ret = "idle" /\ r.op = "none"
         /\ r.cb = w.cb /\ r.now = w.now
         /\ r.pc = "idle" => r.cb = NoEntry /\ ~r.cb_grp
         /\ r.pc = "callback" => r.cb \in Entries
         /\ cur_size' = Count
         /\ grp_lock' \in [Entries -> BOOLEAN] /\ ref' \in Int
         /\ \A x \in Entries : grp_lock'[x] => timer_id[x] >= 1
         /\ ref' = Cardinality({x \in Entries : grp_lock'[x]})
                      + Cardinality(IF r.cb_grp THEN T \cup {th} ELSE T \ {th})
  BY <1>7
<1>9. thr'[th] = r /\ (\A x \in Threads : x # th => thr'[x] = thr[x]) /\ thr' \in [Threads -> TimerType]
  BY <1>1, <1>8 DEF Goto
<1>10. ~Inserting' /\ Count' = Count /\ Tree' = Tree /\ Count \in Nat
  <2>1. ~Inserting' /\ Count' = Count /\ Count \in Nat
    BY <1>0, <1>8, Basics DEF Inserting, Count
  <2>. QED
    BY <2>1, <1>0 DEF Tree
<1>11. TypeOK' /\ ConfOK'
  BY <1>0, <1>8, <1>9, <1>10 DEF IInv, TypeOK, ConfOK
<1>12. SlotInv' /\ OrderInv' /\ FreeInv'
  BY <1>0, <1>10, DataSame
<1>13. ThreadInv'
  <2>1. ThreadOK(th)'
    BY <1>0, <1>3, <1>8, <1>9 DEF ThreadOK
  <2>2. ASSUME NEW x \in Threads, x # th PROVE ThreadOK(x)'
    <3>1. now <= now'
      BY SMTT(30), Z3T(30), <1>0, <1>1
    <3>. QED
      BY <2>2, <3>1, <1>0, <1>9, <1>11, OtherThread
  <2>3. \A y, x \in Threads :
            (At(y, "schedule") /\ At(x, "schedule") /\ thr[y].node = thr[x].node)' => y = x
    BY <1>8, SchedulersDiffer
  <2>4. /\ (lock = NoThread => hole = NoHole)' /\ (hole.dir = "down" => ~Inserting)'
        /\ (hole.dir = "none" => hole = NoHole)'
    BY <1>0, <1>10 DEF NoHole
  <2>. QED
    BY <2>1, <2>2, <2>3, <2>4 DEF ThreadInv
<1>14. RefInv'
  <2>1. {x \in Threads : thr'[x].cb_grp} = IF r.cb_grp THEN T \cup {th} ELSE T \ {th}
    BY <1>9
  <2>. QED
    BY <2>1, <1>0, <1>8, <1>10 DEF RefInv
<1>. QED
  BY <1>11, <1>12, <1>13, <1>14 DEF IInv

\* So does the return of a callback.
LEMMA CallbackReturn ==
    ASSUME IInv, NEW th \in Threads, callback_return(th)
    PROVE  IInv'
<1>. DEFINE w == thr[th]
            r == [w EXCEPT !.pc = "loop", !.cb = NoEntry, !.cb_grp = FALSE]
            S == {x \in Entries : grp_lock[x]}
            T == {x \in Threads : thr[x].cb_grp}
<1>0. /\ w.pc = "callback" /\ ref' = ref - One(w.cb_grp) /\ Goto(th, r)
      /\ conf' = conf /\ max_size' = max_size /\ cur_size' = cur_size /\ heap' = heap
      /\ timer_ids' = timer_ids /\ freelist' = freelist /\ timer_id' = timer_id
      /\ timer_value' = timer_value /\ grp_lock' = grp_lock /\ lock' = lock
      /\ hole' = hole /\ now' = now /\ calls' = calls
  BY DEF callback_return, At, arrays
<1>1. thr \in [Threads -> TimerType] /\ w \in TimerType /\ now \in Nat /\ ref \in Int
  BY DEF IInv, TypeOK
<1>2. ThreadOK(th)
  BY DEF IInv, ThreadInv
<1>3. lock # th /\ w.op = "none" /\ w.now <= now /\ w.ret = "idle"
  BY <1>0, <1>2 DEF ThreadOK
<1>4. /\ r \in TimerType /\ r.pc = "loop" /\ r.cb = NoEntry /\ r.cb_grp = FALSE /\ r.ret = w.ret
      /\ r.op = w.op /\ r.now = w.now
  BY <1>1 DEF TimerType
<1>. HIDE DEF r
<1>5. thr'[th] = r /\ (\A x \in Threads : x # th => thr'[x] = thr[x]) /\ thr' \in [Threads -> TimerType]
  BY <1>0, <1>1, <1>4 DEF Goto
<1>6. TypeOK' /\ ConfOK'
  <2>1. ref' \in Int
    BY <1>0, <1>1 DEF One
  <2>. QED
    BY <2>1, <1>0, <1>5 DEF IInv, TypeOK, ConfOK
<1>7. Inserting' = Inserting /\ Count' = Count /\ Tree' = Tree /\ (lock # NoThread => thr'[lock] = thr[lock])
  BY <1>0, <1>3, HolderSame
<1>8. SlotInv' /\ OrderInv' /\ FreeInv'
  BY <1>0, <1>7, DataSame
<1>9. ThreadInv'
  <2>1. ThreadOK(th)'
    BY <1>0, <1>3, <1>4, <1>5 DEF ThreadOK
  <2>2. ASSUME NEW x \in Threads, x # th PROVE ThreadOK(x)'
    <3>1. now <= now'
      BY <1>0, <1>1
    <3>. QED
      BY <2>2, <3>1, <1>0, <1>5, <1>6, OtherThread
  <2>3. \A y, x \in Threads :
            (At(y, "schedule") /\ At(x, "schedule") /\ thr[y].node = thr[x].node)' => y = x
    BY <1>0, <1>4, SchedulersDiffer
  <2>4. /\ (lock = NoThread => hole = NoHole)' /\ (hole.dir = "down" => ~Inserting)'
        /\ (hole.dir = "none" => hole = NoHole)'
    BY <1>0, <1>7 DEF IInv, ThreadInv, NoHole
  <2>. QED
    BY <2>1, <2>2, <2>3, <2>4 DEF ThreadInv
<1>10. RefInv'
  <2>1. {x \in Threads : thr'[x].cb_grp} = T \ {th}
    BY <1>4, <1>5
  <2>2. /\ IsFiniteSet(T) /\ Cardinality(S) \in Nat /\ Cardinality(T) \in Nat
        /\ ref = Cardinality(S) + Cardinality(T)
    BY References
  <2>3. ref' = Cardinality(S) + Cardinality(T \ {th})
    <3>1. CASE w.cb_grp
      <4>1. Cardinality(T \ {th}) = Cardinality(T) - 1
        BY <3>1, <2>2, CardinalityMinus
      <4>2. ref' = ref - 1
        BY <3>1, <1>0 DEF One
      <4>. HIDE DEF S, T
      <4>. QED
        BY <4>1, <4>2, <2>2
    <3>2. CASE ~w.cb_grp
      <4>1. T \ {th} = T
        BY <3>2
      <4>2. ref' = ref
        BY <3>2, <1>0, <1>1 DEF One
      <4>. QED
        BY <4>1, <4>2, <2>2
    <3>. QED
      BY <3>1, <3>2
  <2>4. ASSUME NEW x \in Entries, grp_lock'[x]
        PROVE  \/ timer_id'[x] >= 1
               \/ (lock # NoThread /\ thr[lock].op \in {"cancel", "poll"} /\ thr[lock].node = x)'
    BY <2>4, <1>0, <1>7 DEF IInv, RefInv
  <2>5. (Inserting => ~grp_lock[thr[lock].node])'
    BY <1>0, <1>7 DEF IInv, RefInv, Inserting
  <2>. QED
    BY <2>1, <2>3, <2>4, <2>5, <1>0 DEF RefInv
<1>. QED
  BY <1>6, <1>8, <1>9, <1>10 DEF IInv

\* A new heap satisfies the invariant.
LEMMA InitIInv == Init => IInv
<1>. SUFFICES ASSUME Init PROVE IInv
  OBVIOUS
<1>0. /\ conf \in Configs /\ max_size = Size + 2 /\ cur_size = 0 /\ freelist = 1
      /\ heap = [i \in 0 .. Size + 1 |-> NoEntry]
      /\ timer_ids = [i \in 0 .. Size + 1 |-> -(i + 1)]
      /\ timer_id = [e \in Entries |-> -1] /\ timer_value = [e \in Entries |-> 0]
      /\ grp_lock = [e \in Entries |-> FALSE] /\ ref = 0 /\ lock = NoThread /\ hole = NoHole
      /\ now = 0 /\ calls = 0 /\ thr = [th \in Threads |-> Idle]
  BY DEF Init, pj_timer_heap_create, pj_timer_entry_init
<1>1. Size \in Nat /\ max_size - 1 = Size + 1 /\ NoThread \notin Threads
  BY <1>0, TimerAssumption
<1>2. Idle \in TimerType
  BY DEF Idle, TimerType
<1>3. TypeOK /\ ConfOK
  <2>1. timer_ids \in [0 .. max_size - 1 -> Int] /\ heap \in [0 .. max_size - 1 -> Entries \cup {NoEntry}]
    BY <1>0, <1>1
  <2>2. hole \in [dir : {"none", "up", "down"}, slot : Nat, moved : Entries \cup {NoEntry}]
    BY <1>0 DEF NoHole
  <2>3. grp_lock \in [Entries -> BOOLEAN]
    BY <1>0
  <2>4. max_size \in Nat /\ cur_size \in Nat /\ freelist \in Nat /\ ref \in Int /\ now \in Nat /\ calls \in Nat
    BY <1>0, <1>1
  <2>5. timer_id \in [Entries -> Int] /\ timer_value \in [Entries -> Nat]
    BY <1>0
  <2>. QED
    BY <2>1, <2>2, <2>3, <2>4, <2>5, <1>0, <1>2 DEF TypeOK, ConfOK
<1>4. ~Inserting /\ Count = 0 /\ hole.dir = "none"
  BY <1>0 DEF Inserting, Count, NoHole
<1>5. ThreadInv
  <2>1. ASSUME NEW th \in Threads PROVE ThreadOK(th)
    <3>1. thr[th] = Idle /\ lock # th /\ now = 0
      BY <1>0, <1>1
    <3>2. /\ Idle.pc = "idle" /\ Idle.ret = "idle" /\ Idle.op = "none"
          /\ Idle.cb = NoEntry /\ ~Idle.cb_grp /\ Idle.now = 0
      BY DEF Idle
    <3>. QED
      BY <3>1, <3>2 DEF ThreadOK
  <2>2. \A th \in Threads : thr[th].pc = "idle"
    BY <1>0 DEF Idle
  <2>. QED
    BY <2>1, <2>2, <1>0, <1>4 DEF ThreadInv, At
<1>6. SlotInv
  <2>1. Tree \in [0 .. 0 - 1 -> Entries]
    BY <1>4 DEF Tree
  <2>2. \A e \in Entries : timer_id[e] = -1
    BY <1>0
  <2>3. max_size \in Nat /\ 0 + 1 < max_size
    BY <1>0, <1>1
  <2>. QED
    BY <2>1, <2>2, <2>3, <1>4 DEF SlotInv, SlotsOK
<1>7. OrderInv
  BY <1>4 DEF OrderInv, OrderOK
<1>8. FreeInv
  <2>. DEFINE fl == [k \in 0 .. Size + 1 |-> k + 1]
  <2>1. max_size - 1 - Count = Size + 1 /\ max_size - 2 - Count = Size /\ max_size = Size + 2
    BY <1>0, <1>1, <1>4
  <2>2. fl \in [0 .. Size + 1 -> 1 .. Size + 2] /\ fl[0] = 1 /\ fl[Size + 1] = Size + 2
    BY <1>1
  <2>3. \A k \in 0 .. Size : fl[k] < Size + 2 /\ timer_ids[fl[k]] = -fl[k + 1]
    BY <1>0, <1>1
  <2>4. \A j, k \in 0 .. Size + 1 : fl[j] = fl[k] => j = k
    BY <1>1
  <2>5. \A k \in 0 .. Size + 1 : \A e \in Entries : timer_id[e] # fl[k]
    BY <1>0, <1>1
  <2>. HIDE DEF fl
  <2>6. FreeOK(fl, Count, max_size, freelist, timer_id, timer_ids)
    BY <2>1, <2>2, <2>3, <2>4, <2>5, <1>0 DEF FreeOK
  <2>. QED
    BY <2>6 DEF FreeInv, FreeOK
<1>9. RefInv
  <2>. DEFINE A == {e \in Entries : grp_lock[e]}
              B == {th \in Threads : thr[th].cb_grp}
  <2>1. A = {} /\ B = {}
    BY <1>0 DEF Idle
  <2>. HIDE DEF A, B
  <2>2. Cardinality({}) = 0
    BY FS_EmptySet
  <2>3. Cardinality(A) = 0 /\ Cardinality(B) = 0
    BY <2>1, <2>2
  <2>4. ref = Cardinality(A) + Cardinality(B)
    BY <2>3, <1>0
  <2>. USE DEF A, B
  <2>. QED
    BY <2>4, <1>0, <1>4 DEF RefInv
<1>. QED
  BY <1>3, <1>5, <1>6, <1>7, <1>8, <1>9 DEF IInv

\* Every step preserves the invariant.
LEMMA NextIInv ==
    ASSUME ~Racy
    PROVE  IInv /\ [Next]_vars => IInv'
<1>. SUFFICES ASSUME IInv, [Next]_vars PROVE IInv'
  OBVIOUS
<1>0. now \in Nat /\ calls \in Nat
  BY DEF IInv, TypeOK
<1>1. CASE Tick
  <2>1. now' = now + 1 /\ UNCHANGED <<conf, arrays, entryvars, lock, hole, thr, calls>>
    BY <1>1 DEF Tick
  <2>2. now' \in Nat /\ now <= now' /\ calls' \in Nat
    BY <2>1, <1>0
  <2>. QED
    BY <2>1, <2>2, NothingElse
<1>2. ASSUME NEW th \in Threads, Call(th) PROVE IInv'
  <2>1. PICK e \in conf.entries :
            \/ \E delay \in conf.delays, g \in conf.grps : schedule_w_grp_lock(th, e, delay, g)
            \/ cancel_timer(th, e)
    BY <1>2 DEF Call
  <2>. QED
    BY <2>1, ConfFacts, ScheduleCall, Cancel
<1>3. ASSUME NEW th \in Threads, pj_timer_heap_poll(th) \/ poll_again(th) PROVE IInv'
  BY <1>3, PollStep, Poll
<1>4. ASSUME NEW th \in Threads, Proceed(th) PROVE IInv'
  BY <1>3, <1>4, ScheduleEntry, ReheapUp, ReheapDown, Finish, CallbackReturn DEF Proceed
<1>5. CASE UNCHANGED vars
  <2>1. UNCHANGED <<conf, arrays, entryvars, lock, hole, thr>> /\ now' = now /\ calls' = calls
    BY <1>5 DEF vars
  <2>2. now' \in Nat /\ now <= now' /\ calls' \in Nat
    BY <2>1, <1>0
  <2>. QED
    BY <2>1, <2>2, NothingElse
<1>. QED
  BY <1>1, <1>2, <1>3, <1>4, <1>5 DEF Next

\* The inductive invariant always holds.
LEMMA Invariant ==
    ASSUME ~Racy
    PROVE  Spec => []IInv
<1>1. Init => IInv
  BY InitIInv
<1>2. IInv /\ [Next]_vars => IInv'
  BY NextIInv
<1>. QED
  BY <1>1, <1>2, PTL DEF Spec

----------------------------------------------------------------------------
(* The theorems.                                                            *)

\* Every variable has its type, and the arrays have max_size cells.
THEOREM TypeCorrect ==
    ASSUME ~Racy
    PROVE  Spec => []TypeOK
<1>1. IInv => TypeOK
  BY DEF IInv
<1>. QED
  BY <1>1, Invariant, PTL

\* When nobody is changing the arrays, ids find their entries, whatever
\* reheap_up(), reheap_down() and remove_node() moved.
THEOREM IdsAlwaysValid ==
    ASSUME ~Racy
    PROVE  Spec => []IdsValid
<1>1. IInv => IdsValid
  <2>. SUFFICES ASSUME IInv, Unlocked
                PROVE  /\ \A e \in Entries : timer_id[e] >= 1 => Found(e)
                       /\ \A i \in 0 .. cur_size - 1 : timer_ids[timer_id[heap[i]]] = i
    BY DEF IdsValid
  <2>1. \A e \in Entries : timer_id[e] >= 1 => Found(e)
    BY ArmedIsFound
  <2>2. \A i \in 0 .. cur_size - 1 : heap[i] = Tree[i]
    BY Resting
  <2>3. \A i \in 0 .. cur_size - 1 : timer_ids[timer_id[Tree[i]]] = i
    BY Resting DEF IInv, SlotInv, SlotsOK
  <2>. QED
    BY <2>1, <2>2, <2>3
<1>. QED
  BY <1>1, Invariant, PTL

\* When nobody is changing the arrays, they are a heap: remove_node() moves the
\* entry that it puts into the slot in the right direction.
THEOREM AlwaysOrdered ==
    ASSUME ~Racy
    PROVE  Spec => []HeapOrdered
<1>1. IInv => HeapOrdered
  <2>. SUFFICES ASSUME IInv, Unlocked, NEW i \in 1 .. cur_size - 1
                PROVE  ~Later(heap[HEAP_PARENT(i)], heap[i])
    BY DEF HeapOrdered
  <2>. DEFINE p == HEAP_PARENT(i)
  <2>1. cur_size \in Nat /\ i \in Nat /\ i > 0 /\ i \in 0 .. cur_size - 1
    BY Basics
  <2>2. p \in Nat /\ p < i /\ IsParent(p, i)
    BY <2>1, ParentIsParent
  <2>. HIDE DEF p
  <2>3. p \in 0 .. cur_size - 1
    BY <2>1, <2>2
  <2>4. heap[i] = Tree[i] /\ heap[p] = Tree[p] /\ Count = cur_size /\ hole.dir = "none"
    BY <2>1, <2>3, Resting
  <2>5. timer_value[Tree[p]] <= timer_value[Tree[i]]
    BY <2>1, <2>2, <2>3, <2>4 DEF IInv, OrderInv, OrderOK
  <2>6. timer_value[Tree[p]] \in Nat /\ timer_value[Tree[i]] \in Nat
    BY <2>1, <2>3, <2>4, Basics DEF IInv, TypeOK
  <2>7. ~(timer_value[heap[i]] < timer_value[heap[p]])
    <3>. DEFINE a == timer_value[Tree[p]]
                b == timer_value[Tree[i]]
    <3>1. a <= b /\ a \in Nat /\ b \in Nat
      BY <2>5, <2>6
    <3>2. timer_value[heap[i]] = b /\ timer_value[heap[p]] = a
      BY <2>4
    <3>. HIDE DEF a, b
    <3>3. ~(b < a)
      BY <3>1
    <3>. QED
      BY <3>2, <3>3
  <2>. QED
    BY <2>7 DEF Later, p
<1>. QED
  BY <1>1, Invariant, PTL

\* insert_node() grows the arrays early enough: there is always an id left.
THEOREM AlwaysAnIdLeft ==
    ASSUME ~Racy
    PROVE  Spec => []IdsLeft
<1>1. IInv => IdsLeft
  <2>. SUFFICES ASSUME IInv, Unlocked
                PROVE  /\ cur_size + 1 < max_size
                       /\ freelist \in 1 .. max_size - 1 /\ timer_ids[freelist] < 0
                       /\ \A e \in Entries : timer_id[e] # freelist
    BY DEF IdsLeft
  <2>1. cur_size \in Nat /\ max_size \in Nat /\ cur_size + 1 < max_size /\ Count = cur_size
    BY Basics, Resting
  <2>2. PICK fl : FreeOK(fl, cur_size, max_size, freelist, timer_id, timer_ids)
    BY <2>1 DEF IInv, FreeInv
  <2>. QED
    BY SMTT(30), Z3T(30), <2>1, <2>2, FreeHead
<1>. QED
  BY <1>1, Invariant, PTL

\* The group lock has as many references as there are entries armed with it and
\* callbacks of such entries.
THEOREM RefsExact ==
    ASSUME ~Racy
    PROVE  Spec => []RefCounted
<1>1. IInv => RefCounted
  BY DEF IInv, RefInv, RefCounted, Unlocked
<1>. QED
  BY <1>1, Invariant, PTL

\* The loop of a poll takes the earliest entry if that has expired: it is the
\* root of the tree.
LEMMA PollRefines ==
    ASSUME IInv, NEW th \in Threads, pj_timer_heap_poll(th) \/ poll_again(th)
    PROVE  [TS!Next]_(TS!avars)
<1>0. Unlocked /\ thr[th].pc \in {"idle", "loop"} /\ now' = now
  BY PollStep
<1>1. PICK t \in Nat, n \in Nat : t <= now /\ PollLoop(th, t, n)
  BY PollStep
<1>2. /\ thr \in [Threads -> TimerType] /\ thr[th] \in TimerType /\ thr[th].cb = NoEntry
      /\ cur_size \in Nat /\ now \in Nat /\ timer_value \in [Entries -> Nat]
  BY <1>0 DEF IInv, TypeOK, ThreadInv, ThreadOK
<1>3. CASE Due(t, n)
  <2>0. PICK e \in Entries : e = heap[0]
    <3>1. 0 \in 0 .. cur_size - 1
      BY <1>2, <1>3 DEF Due
    <3>. QED
      BY <3>1, <1>0, Resting, Basics
  <2>. DEFINE r == [thr[th] EXCEPT !.pc = "surgery", !.op = "poll", !.node = e,
                                   !.now = t, !.count = n + 1, !.cb = e]
  <2>1. remove_node(0) /\ Goto(th, r)
    BY <1>1, <1>3, <2>0 DEF PollLoop
  <2>2. 0 \in 0 .. cur_size - 1 /\ timer_value[e] <= t
    BY <1>2, <1>3, <2>0 DEF Due
  <2>3. e \in Armed /\ Armed' = Armed \ {e} /\ timer_value' = timer_value
    BY <1>0, <2>0, <2>1, <2>2, RemoveDisarms
  <2>4. r.cb = e
    BY <1>2 DEF TimerType
  <2>. HIDE DEF r
  <2>5. Running' = [Running EXCEPT ![th] = e] /\ Running[th] = NoEntry
    BY <1>2, <2>1, <2>4 DEF Running, Goto
  <2>6. \A x \in Armed : timer_value[e] <= timer_value[x]
    <3>1. /\ Count = cur_size /\ hole.dir = "none" /\ heap[0] = Tree[0]
          /\ Tree \in [0 .. cur_size - 1 -> Entries]
      BY <1>0, <2>2, Resting, Basics
    <3>2. OrderOK(Tree, cur_size, hole, timer_value)
      BY <3>1 DEF IInv, OrderInv
    <3>3. \A i \in 0 .. cur_size - 1 : timer_value[Tree[0]] <= timer_value[Tree[i]]
      BY <3>1, <3>2, <1>2, RootIsEarliest
    <3>4. \A x \in Entries : timer_id[x] >= 1 => \E i \in 0 .. cur_size - 1 : Tree[i] = x
      BY <3>1 DEF IInv, SlotInv, SlotsOK
    <3>. QED
      BY <2>0, <3>1, <3>3, <3>4 DEF Armed
  <2>7. timer_value[e] <= now
    BY <1>1, <1>2, <2>2
  <2>8. TS!Fire(th, e)
    BY <1>0, <2>3, <2>5, <2>6, <2>7 DEF TS!Fire, Armed, Running
  <2>. QED
    BY <2>8 DEF TS!Next
<1>4. CASE ~Due(t, n)
  <2>1. Goto(th, Idle) /\ timer_id' = timer_id /\ timer_value' = timer_value
    BY <1>1, <1>4 DEF PollLoop, entryvars
  <2>2. Idle.cb = thr[th].cb
    BY <1>2 DEF Idle
  <2>3. Running' = Running
    BY <2>1, <2>2, RunningSame
  <2>. QED
    BY <1>0, <2>1, <2>3, Stutter
<1>. QED
  BY <1>3, <1>4

\* The arrays behave as a set of armed entries from which polls take the
\* earliest, whatever threads schedule, cancel and poll at the same time.
THEOREM ArraysImplementSet ==
    ASSUME ~Racy
    PROVE  Spec => ImplementsTimerSet
<1>1. Init => TS!Init
  <2>. SUFFICES ASSUME Init PROVE TS!Init
    OBVIOUS
  <2>1. /\ timer_id = [e \in Entries |-> -1] /\ timer_value = [e \in Entries |-> 0]
        /\ now = 0 /\ thr = [th \in Threads |-> Idle]
    BY DEF Init, pj_timer_entry_init
  <2>2. Armed = {}
    BY <2>1 DEF Armed
  <2>3. timer_value \in [Entries -> Nat]
    BY <2>1
  <2>4. Running = [th \in Threads |-> NoEntry]
    BY <2>1 DEF Running, Idle
  <2>. QED
    BY <2>1, <2>2, <2>3, <2>4 DEF TS!Init, Armed, Running
<1>2. IInv /\ [Next]_vars => [TS!Next]_(TS!avars)
  <2>. SUFFICES ASSUME IInv, [Next]_vars PROVE [TS!Next]_(TS!avars)
    OBVIOUS
  <2>1. CASE Tick
    <3>1. now' = now + 1 /\ timer_id' = timer_id /\ timer_value' = timer_value /\ thr' = thr
      BY <2>1 DEF Tick, entryvars
    <3>2. Armed' = Armed /\ Running' = Running
      BY <3>1 DEF Armed, Running
    <3>3. TS!Tick
      BY <3>1, <3>2 DEF TS!Tick, Armed, Running
    <3>. QED
      BY <3>3 DEF TS!Next
  <2>2. ASSUME NEW th \in Threads, Call(th) PROVE [TS!Next]_(TS!avars)
    BY <2>2, ConfFacts, CancelRefines, RestRefines DEF Call
  <2>3. ASSUME NEW th \in Threads, pj_timer_heap_poll(th) \/ poll_again(th)
        PROVE  [TS!Next]_(TS!avars)
    BY <2>3, PollRefines
  <2>4. ASSUME NEW th \in Threads, Proceed(th) PROVE [TS!Next]_(TS!avars)
    BY <2>3, <2>4, ScheduleEntryRefines, RestRefines, ReturnRefines DEF Proceed
  <2>5. CASE UNCHANGED vars
    <3>1. timer_id' = timer_id /\ timer_value' = timer_value /\ now' = now /\ thr' = thr
      BY <2>5 DEF vars, entryvars
    <3>2. Running' = Running
      BY <3>1 DEF Running
    <3>. QED
      BY <3>1, <3>2, Stutter
  <2>. QED
    BY <2>1, <2>2, <2>3, <2>4, <2>5 DEF Next
<1>. QED
  BY <1>1, <1>2, Invariant, PTL DEF Spec, ImplementsTimerSet, TS!Spec

==============================================================================
