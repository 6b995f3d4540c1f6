----------------------------- MODULE TimerHeap -----------------------------
(***************************************************************************)
(* The timer heap of pjlib/src/pj/timer.c: an array organised as a binary   *)
(* heap by expiry time, and an array that gives the slot of every timer id  *)
(* and threads the unused ids into a free list.                             *)
(*                                                                          *)
(* The arrays are only touched under the lock of the heap.  An iteration of *)
(* reheap_up() or reheap_down() is a step, so is what comes before and      *)
(* after.  Not under the lock are the test that an entry is not scheduled   *)
(* yet, the reading of the clock before it is, and the callbacks.           *)
(***************************************************************************)
EXTENDS Integers, FiniteSets

CONSTANTS
    Entries,    \* pj_timer_entry objects, initialized by pj_timer_entry_init()
    NoEntry,    \* NULL, and what an unused cell of the heap holds
    Threads,    \* threads that poll and call the API
    NoThread,   \* the lock is free
    Size,       \* the size given to pj_timer_heap_create()
    MaxPerPoll, \* max_entries_per_poll
    Racy,       \* whether two threads may schedule one entry at the same time
    Configs     \* the bounds considered, see ConfigType

\* The entries and threads in use, whether entries are scheduled in a fixed order
\* (their names do not matter), the delays asked for, whether a group lock is
\* given, and bounds on the number of calls and on the clock.
ConfigType == [entries : SUBSET Entries, threads : SUBSET Threads, in_order : BOOLEAN,
               delays : SUBSET Nat, grps : SUBSET BOOLEAN, calls : Nat, time : Nat]

ASSUME TimerAssumption ==
    /\ NoEntry \notin Entries /\ IsFiniteSet(Entries)
    /\ NoThread \notin Threads /\ IsFiniteSet(Threads)
    /\ Size \in Nat /\ MaxPerPoll \in Nat /\ Racy \in BOOLEAN
    /\ Configs \subseteq ConfigType

VARIABLES
    conf,           \* the configuration, which never changes
    max_size, cur_size, heap, timer_ids, freelist,  \* of the heap
    timer_id, timer_value, grp_lock,                \* of each entry
    ref,            \* references the entries hold on their group lock
    lock,           \* the thread that holds the lock of the heap
    hole,           \* a loop of reheap_up() or reheap_down() in progress
    thr,            \* what each thread is doing
    now,            \* pj_gettickcount()
    calls           \* calls made

arrays == <<max_size, cur_size, heap, timer_ids, freelist>>
entryvars == <<timer_id, timer_value, grp_lock, ref>>
vars == <<conf, arrays, entryvars, lock, hole, thr, now, calls>>

HEAP_PARENT(x) == IF x = 0 THEN 0 ELSE (x - 1) \div 2
HEAP_LEFT(x) == x + x + 1

NoHole == [dir |-> "none", slot |-> 0, moved |-> NoEntry]

\* pc is "idle"; "callback", in the callback of entry cb; "schedule", about to
\* take the lock to schedule node; "surgery", with the lock, because of op on
\* node; or "loop", about to go on with a poll.  ret is where a call returns to.
Idle == [pc |-> "idle", ret |-> "idle", op |-> "none", node |-> NoEntry,
         expires |-> 0, grp |-> FALSE, now |-> 0, count |-> 0,
         cb |-> NoEntry, cb_grp |-> FALSE]

pj_timer_heap_create ==
    /\ max_size = Size + 2 /\ cur_size = 0 /\ freelist = 1
    /\ heap = [i \in 0 .. Size + 1 |-> NoEntry]
    /\ timer_ids = [i \in 0 .. Size + 1 |-> -(i + 1)]

pj_timer_entry_init ==
    /\ timer_id = [e \in Entries |-> -1] /\ timer_value = [e \in Entries |-> 0]
    /\ grp_lock = [e \in Entries |-> FALSE]

----------------------------------------------------------------------------


At(th, pc) == thr[th].pc = pc
Goto(th, r) == thr' = [thr EXCEPT ![th] = r]

\* A call returns, to the callback it was made from or not.
Back(th) == [thr[th] EXCEPT !.pc = thr[th].ret, !.ret = "idle", !.op = "none",
                            !.node = NoEntry, !.expires = 0, !.grp = FALSE]

One(b) == IF b THEN 1 ELSE 0
Unlocked == lock = NoThread
Calling(th) == thr[th].pc \in {"idle", "callback"} /\ th \in conf.threads

\* Mutant: the reference is forgotten.
DropRef_Keeps(e) == grp_lock' = [grp_lock EXCEPT ![e] = FALSE] /\ UNCHANGED ref

\* Give back the reference of an entry, if it has one.
DropRef(e) ==
    /\ grp_lock' = [grp_lock EXCEPT ![e] = FALSE]
    /\ ref' = ref - One(grp_lock[e])

----------------------------------------------------------------------------
(* schedule_w_grp_lock(): up to the lock ...                                *)

schedule_w_grp_lock(th, e, delay, g) ==
    /\ Calling(th) /\ calls < conf.calls
    /\ timer_id[e] < 1
    /\ conf.in_order => e = CHOOSE x \in conf.entries : timer_id[x] < 1
    /\ Racy \/ \A x \in Threads : ~(At(x, "schedule") /\ thr[x].node = e)
    /\ calls' = calls + 1
    /\ Goto(th, [thr[th] EXCEPT !.pc = "schedule", !.ret = thr[th].pc, !.node = e,
                                !.expires = now + delay, !.grp = g])
    /\ UNCHANGED <<conf, arrays, entryvars, lock, hole, now>>

\* Both arrays double; the new ids follow the last one of the free list.
grow_heap(ids) ==
    /\ max_size' = 2 * max_size
    /\ heap' = [i \in 0 .. 2 * max_size - 1 |-> IF i < max_size THEN heap[i] ELSE NoEntry]
    /\ timer_ids' = [i \in 0 .. 2 * max_size - 1 |-> IF i < max_size THEN ids[i] ELSE -(i + 1)]

\* Whether insert_node() grows the heap.  Mutant: only when it is full.
Full_Late == cur_size + 1 >= max_size

Full == cur_size + 2 >= max_size

\* ... and under it: schedule_entry(), with the start of insert_node().
schedule_entry(th) ==
    /\ At(th, "schedule") /\ Unlocked
    /\ IF cur_size < max_size
       THEN /\ timer_id' = [timer_id EXCEPT ![thr[th].node] = freelist]
            /\ timer_value' = [timer_value EXCEPT ![thr[th].node] = thr[th].expires]
            /\ freelist' = -timer_ids[freelist]
            /\ IF Full THEN grow_heap(timer_ids)
               ELSE UNCHANGED <<max_size, heap, timer_ids>>
            /\ lock' = th
            /\ hole' = [dir |-> "up", slot |-> cur_size, moved |-> thr[th].node]
            /\ Goto(th, [thr[th] EXCEPT !.pc = "surgery", !.op = "insert"])
       ELSE /\ Goto(th, Back(th))
            /\ UNCHANGED <<arrays, timer_id, timer_value, lock, hole>>
    /\ UNCHANGED <<conf, cur_size, grp_lock, ref, now, calls>>

----------------------------------------------------------------------------
(* The surgery on the arrays, by the thread that holds the lock.            *)

\* Mutant: the slot of the id is not updated.
copy_node_HeapOnly(slot, moved_node) ==
    heap' = [heap EXCEPT ![slot] = moved_node] /\ UNCHANGED timer_ids

copy_node(slot, moved_node) ==
    /\ heap' = [heap EXCEPT ![slot] = moved_node]
    /\ timer_ids' = [timer_ids EXCEPT ![timer_id[moved_node]] = slot]

Later(e, x) == timer_value[x] < timer_value[e]

\* The loop of reheap_up(), and of reheap_down(), goes on with slot next, or
\* ends.
Iterate(goes_on, next) ==
    IF goes_on
    THEN /\ copy_node(hole.slot, heap[next])
         /\ hole' = [hole EXCEPT !.slot = next]
    ELSE /\ copy_node(hole.slot, hole.moved)
         /\ hole' = NoHole

reheap_up(th) ==
    /\ lock = th /\ hole.dir = "up"
    /\ LET parent == HEAP_PARENT(hole.slot)
       IN  Iterate(hole.slot > 0 /\ Later(heap[parent], hole.moved), parent)
    /\ UNCHANGED <<conf, max_size, cur_size, freelist, entryvars, lock, thr, now, calls>>

\* The smaller of the two children.
Child(slot) ==
    LET child == HEAP_LEFT(slot)
    IN  IF child + 1 < cur_size /\ Later(heap[child], heap[child + 1])
        THEN child + 1 ELSE child

reheap_down(th) ==
    /\ lock = th /\ hole.dir = "down"
    /\ LET child == Child(hole.slot)
       IN  Iterate(HEAP_LEFT(hole.slot) < cur_size /\ Later(hole.moved, heap[child]), child)
    /\ UNCHANGED <<conf, max_size, cur_size, freelist, entryvars, lock, thr, now, calls>>

\* Where an entry moved below parent has to go.
Direction(parent, moved) == IF Later(parent, moved) THEN "up" ELSE "down"

\* remove_node() up to the loop: the id goes to the free list, and the last
\* entry moves to the slot.
remove_node(slot) ==
    LET removed == heap[slot]
        moved == heap[cur_size - 1]
        parent == HEAP_PARENT(slot)
        pushed == [timer_ids EXCEPT ![timer_id[removed]] = -freelist]
    IN  /\ freelist' = timer_id[removed]
        /\ cur_size' = cur_size - 1
        /\ timer_id' = [timer_id EXCEPT ![removed] = -1]
        /\ IF slot < cur_size - 1
           THEN /\ heap' = [heap EXCEPT ![slot] = moved]
                /\ timer_ids' = [pushed EXCEPT ![timer_id[moved]] = slot]
                /\ hole' = [dir |-> Direction(heap'[parent], moved),
                            slot |-> slot, moved |-> moved]
           ELSE timer_ids' = pushed /\ UNCHANGED <<heap, hole>>
        /\ UNCHANGED <<max_size, timer_value>>

\* What follows the surgery: the end of insert_node() and schedule_w_grp_lock(),
\* of cancel_timer(), or of an iteration of pj_timer_heap_poll() up to the
\* callback.
finish(th) ==
    /\ lock = th /\ hole = NoHole
    /\ lock' = NoThread
    /\ LET e == thr[th].node
       IN  \/ /\ thr[th].op = "insert"
              /\ cur_size' = cur_size + 1
              /\ grp_lock' = [grp_lock EXCEPT ![e] = thr[th].grp]
              /\ ref' = ref + One(thr[th].grp)
              /\ Goto(th, Back(th))
           \/ /\ thr[th].op = "cancel"
              /\ DropRef(e)
              /\ Goto(th, Back(th))
              /\ UNCHANGED cur_size
           \/ /\ thr[th].op = "poll"
              /\ grp_lock' = [grp_lock EXCEPT ![e] = FALSE]
              /\ Goto(th, [Back(th) EXCEPT !.pc = "callback", !.cb_grp = grp_lock[e]])
              /\ UNCHANGED <<cur_size, ref>>
    /\ UNCHANGED <<conf, max_size, heap, timer_ids, freelist, timer_id, timer_value,
                   hole, now, calls>>

----------------------------------------------------------------------------
(* cancel_timer(), with the tests of cancel().                              *)

Found(e) ==
    /\ timer_id[e] >= 0 /\ timer_id[e] <= max_size
    /\ timer_ids[timer_id[e]] >= 0
    /\ heap[timer_ids[timer_id[e]]] = e

cancel_timer(th, e) ==
    /\ Calling(th) /\ calls < conf.calls /\ Unlocked
    /\ calls' = calls + 1
    /\ IF Found(e)
       THEN /\ remove_node(timer_ids[timer_id[e]])
            /\ lock' = th
            /\ Goto(th, [thr[th] EXCEPT !.pc = "surgery", !.ret = thr[th].pc,
                                        !.op = "cancel", !.node = e])
            /\ UNCHANGED <<grp_lock, ref>>
       ELSE /\ timer_id' = [timer_id EXCEPT ![e] = -1]
            /\ DropRef(e)
            /\ UNCHANGED <<arrays, timer_value, lock, hole, thr>>
    /\ UNCHANGED <<conf, now>>

----------------------------------------------------------------------------
(* pj_timer_heap_poll()                                                     *)

\* The condition of the loop.  Mutants: an entry is due too early, or too late.
Due_Early(t, n) == cur_size > 0 /\ timer_value[heap[0]] <= t + 1 /\ n < MaxPerPoll
Due_Late(t, n) == cur_size > 0 /\ timer_value[heap[0]] < t /\ n < MaxPerPoll

Due(t, n) == cur_size > 0 /\ timer_value[heap[0]] <= t /\ n < MaxPerPoll

\* The loop up to the surgery, or its end.
PollLoop(th, t, n) ==
    IF Due(t, n)
    THEN /\ remove_node(0)
         /\ lock' = th
         /\ Goto(th, [thr[th] EXCEPT !.pc = "surgery", !.op = "poll", !.node = heap[0],
                                     !.now = t, !.count = n + 1, !.cb = heap[0]])
         /\ UNCHANGED <<grp_lock, ref>>
    ELSE Goto(th, Idle) /\ UNCHANGED <<arrays, entryvars, lock, hole>>

pj_timer_heap_poll(th) ==
    /\ At(th, "idle") /\ th \in conf.threads /\ Unlocked
    /\ PollLoop(th, now, 0)
    /\ UNCHANGED <<conf, now, calls>>

poll_again(th) ==
    /\ At(th, "loop") /\ Unlocked
    /\ PollLoop(th, thr[th].now, thr[th].count)
    /\ UNCHANGED <<conf, now, calls>>

\* The callback returns.
callback_return(th) ==
    /\ At(th, "callback")
    /\ ref' = ref - One(thr[th].cb_grp)
    /\ Goto(th, [thr[th] EXCEPT !.pc = "loop", !.cb = NoEntry, !.cb_grp = FALSE])
    /\ UNCHANGED <<conf, arrays, timer_id, timer_value, grp_lock, lock, hole, now, calls>>

----------------------------------------------------------------------------

Tick ==
    /\ now < conf.time /\ now' = now + 1
    /\ UNCHANGED <<conf, arrays, entryvars, lock, hole, thr, calls>>

Init ==
    /\ conf \in Configs
    /\ pj_timer_heap_create /\ pj_timer_entry_init
    /\ ref = 0 /\ lock = NoThread /\ hole = NoHole /\ now = 0 /\ calls = 0
    /\ thr = [th \in Threads |-> Idle]

Call(th) ==
    \E e \in conf.entries :
        \/ \E delay \in conf.delays, g \in conf.grps : schedule_w_grp_lock(th, e, delay, g)
        \/ cancel_timer(th, e)

Proceed(th) ==
    \/ schedule_entry(th) \/ reheap_up(th) \/ reheap_down(th) \/ finish(th)
    \/ poll_again(th) \/ callback_return(th)

Next == Tick \/ \E th \in Threads : Call(th) \/ pj_timer_heap_poll(th) \/ Proceed(th)

Spec == Init /\ [][Next]_vars

----------------------------------------------------------------------------
(* Properties.                                                              *)

TimerType == [pc : {"idle", "callback", "schedule", "surgery", "loop"},
              ret : {"idle", "callback"}, op : {"none", "insert", "cancel", "poll"},
              node : Entries \cup {NoEntry}, expires : Nat, grp : BOOLEAN, now : Nat,
              count : Nat, cb : Entries \cup {NoEntry}, cb_grp : BOOLEAN]

\* The arrays have max_size cells, and every variable has its type.
TypeOK ==
    /\ max_size \in Nat /\ cur_size \in Nat /\ freelist \in Nat
    /\ heap \in [0 .. max_size - 1 -> Entries \cup {NoEntry}]
    /\ timer_ids \in [0 .. max_size - 1 -> Int]
    /\ timer_id \in [Entries -> Int] /\ timer_value \in [Entries -> Nat]
    /\ grp_lock \in [Entries -> BOOLEAN]
    /\ ref \in Int /\ now \in Nat /\ calls \in Nat
    /\ lock \in Threads \cup {NoThread}
    /\ hole \in [dir : {"none", "up", "down"}, slot : Nat, moved : Entries \cup {NoEntry}]
    /\ thr \in [Threads -> TimerType]

\* Outside of the surgery, the id of an entry that is armed finds it, wherever
\* schedules and cancellations have moved it, and so do the ids of the heap.
IdsValid ==
    Unlocked =>
        /\ \A e \in Entries : timer_id[e] >= 1 => Found(e)
        /\ \A i \in 0 .. cur_size - 1 : timer_ids[timer_id[heap[i]]] = i

\* Outside of the surgery, no entry expires before its parent in the tree.
HeapOrdered ==
    Unlocked => \A i \in 1 .. cur_size - 1 : ~Later(heap[HEAP_PARENT(i)], heap[i])

\* The heap never fills up, and the next id that pop_freelist() hands out is one
\* of the array that no entry uses: growing comes in time.
IdsLeft ==
    Unlocked => /\ cur_size + 1 < max_size
                /\ freelist \in 1 .. max_size - 1 /\ timer_ids[freelist] < 0
                /\ \A e \in Entries : timer_id[e] # freelist

\* A group lock is referenced once for every entry that is armed with it and
\* once for every callback of such an entry.
RefCounted ==
    Unlocked =>
        /\ ref = Cardinality({e \in Entries : grp_lock[e]})
                     + Cardinality({th \in Threads : thr[th].cb_grp})
        /\ \A e \in Entries : grp_lock[e] => timer_id[e] >= 1

\* An entry is armed from the moment it has an id, and is called back by the
\* thread that took it off the heap: the arrays implement a set.
TS == INSTANCE TimerSet WITH
          armed <- {e \in Entries : timer_id[e] >= 1}, expires <- timer_value,
          running <- [th \in Threads |-> thr[th].cb]

\* The heap behaves as a set from which the earliest entry is taken.
ImplementsTimerSet == TS!Spec

\* "Prevent same entry from being scheduled more than once", says
\* schedule_w_grp_lock().
ScheduledOnce ==
    Unlocked => \A i, j \in 0 .. cur_size - 1 : heap[i] = heap[j] => i = j

----------------------------------------------------------------------------
(* Fairness: a thread goes on with what it has started, the clock advances  *)
(* and some thread polls.                                                   *)

FairSpec ==
    /\ Spec
    /\ WF_vars(Tick) /\ WF_vars(\E th \in Threads : pj_timer_heap_poll(th))
    /\ \A th \in Threads : WF_vars(Proceed(th))

\* A timer that is armed is called back or cancelled in the end, however many
\* entries a poll is limited to.
EventuallyFires ==
    \A e \in Entries : timer_id[e] >= 1 /\ timer_value[e] <= conf.time ~> timer_id[e] < 1
============================================================================
