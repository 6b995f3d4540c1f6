---------------------------- MODULE StunProofs ----------------------------
(***************************************************************************)
(* Proofs about StunSess: type correctness, the exact reference count, that*)
(* the user is told at most once of a request, that no request the user    *)
(* waits for is forgotten, and that no memory of a request is used once it *)
(* has been freed.                                                         *)
(*                                                                         *)
(* First come lemmas about the operators: what arming and cancelling a     *)
(* timer, transmitting, completing and releasing leave of a session.  W is *)
(* what every operator on the state of a session preserves.  Excess is the *)
(* number of references that no armed timer holds; operators on timers     *)
(* leave it alone, so that it only changes with the session and with the   *)
(* callbacks in progress.  T says that the requests that can still         *)
(* complete have tokens of their own, N that what the user waits for has   *)
(* one; Steps is what an operation of the session does to all of these.    *)
(* L, for a thread that polls alone, says that nothing is scheduled for a  *)
(* request that has been freed.  The lemmas take what they need of finite  *)
(* sets as the hypothesis Counting, which the end discharges.              *)
(***************************************************************************)
EXTENDS StunSess, TLAPS

\* The provers are given time.
\* The provers tried on a leaf that names none, in this order.
USE ZenonT(10), SMTT(30), Z3T(30)

\* What is used of finite sets.  CountingHolds, near the end, shows it.
Counting ==
    /\ IsFiniteSet(Reqs \X Timers)
    /\ \A S, X : IsFiniteSet(S) /\ X \subseteq S =>
            IsFiniteSet(X) /\ Cardinality(S \ X) = Cardinality(S) - Cardinality(X)
    /\ \A S : IsFiniteSet(S) => Cardinality(S) \in Nat /\ (Cardinality(S) = 0 <=> S = {})
    /\ \A S, x : IsFiniteSet(S) /\ x \notin S => Cardinality(S \cup {x}) = Cardinality(S) + 1
    /\ \A S, x : IsFiniteSet(S) /\ x \in S => Cardinality(S \ {x}) = Cardinality(S) - 1
    /\ \A S : IsFiniteSet(S) /\ Cardinality(S) = 1 => \E x : S = {x}

\* The number of references that no armed timer holds.
Excess(st) == st.ref - Cardinality(st.heap)

W(st) ==
    /\ Counting
    /\ st \in SType
    /\ \A r \in Reqs, e \in Timers : <<r, e>> \in st.heap => r \in st.client_tsx
    /\ \A r \in Reqs : <<r, "destroy">> \in st.heap => r \in st.muted
    /\ st.client_tsx \subseteq st.created
    /\ st.require_retransmit \subseteq st.client_tsx
    /\ st.pending \subseteq st.client_tsx
    /\ st.complete \subseteq st.client_tsx
    /\ st.muted \subseteq st.client_tsx
    /\ st.accepted \subseteq st.client_tsx
    /\ \A r \in st.accepted : st.token[r] = r

\* Requests may have been queued, freed or muted, and nothing else.
FrameTsx(st, u) ==
    /\ u.is_destroying = st.is_destroying /\ u.gone = st.gone
    /\ u.created = st.created /\ u.client_tsx = st.client_tsx
    /\ u.complete = st.complete /\ u.require_retransmit = st.require_retransmit
    /\ u.token = st.token /\ u.told = st.told
    /\ u.accepted = st.accepted /\ u.cancelled = st.cancelled
    /\ u.next_nonce = st.next_nonce /\ u.auth_retry = st.auth_retry

\* Only the timers of the requests and the transmissions have changed.
Frame(st, u) == FrameTsx(st, u) /\ u.freed = st.freed /\ u.pending = st.pending

\* The heap is finite.
LEMMA HeapFinite ==
    ASSUME NEW st, W(st)
    PROVE  IsFiniteSet(st.heap) /\ Cardinality(st.heap) \in Nat
<1>1. Counting /\ st.heap \subseteq Reqs \X Timers
  BY DEF W, SType
<1>2. IsFiniteSet(st.heap)
  BY <1>1 DEF Counting
<1>. QED
  BY <1>1, <1>2 DEF Counting

\* What arming and cancelling a timer assign.
UpdateTimer(st, h, i, n) == [st EXCEPT !.heap = h, !.id = i, !.ref = n]

\* What the timer functions assign keeps the type and the rest of the session.
LEMMA UpdateType ==
    ASSUME NEW st \in SType, NEW h \in SUBSET (Reqs \X Timers),
           NEW i \in SUBSET (Reqs \X Timers), NEW n \in Int,
           NEW u, u = UpdateTimer(st, h, i, n)
    PROVE  /\ u \in SType /\ Frame(st, u) /\ u.muted = st.muted /\ u.out = st.out
           /\ u.transmit_count = st.transmit_count
           /\ u.heap = h /\ u.id = i /\ u.ref = n
<1>1. u \in SType
  BY ZenonT(120), SMTT(30) DEF SType, UpdateTimer
<1>. QED
  BY SMTT(30), Z3T(30), <1>1 DEF SType, UpdateTimer, Frame, FrameTsx

\* pj_timer_heap_cancel_if_active() gives back the reference of an armed timer.
LEMMA CancelFrame ==
    ASSUME NEW st, W(st), NEW r \in Reqs, NEW e \in Timers,
           NEW u, u = pj_timer_heap_cancel_if_active(st, r, e)
    PROVE  /\ W(u) /\ Frame(st, u) /\ u.muted = st.muted
           /\ u.heap = st.heap \ {<<r, e>>}
           /\ Excess(u) = Excess(st)
<1>0. Counting
  BY DEF W
<1>1. /\ st \in SType /\ st.ref \in Int
      /\ st.heap \in SUBSET (Reqs \X Timers) /\ st.id \in SUBSET (Reqs \X Timers)
  BY DEF W, SType
<1>. DEFINE n == IF <<r, e>> \in st.heap THEN st.ref - 1 ELSE st.ref
<1>2. u = UpdateTimer(st, st.heap \ {<<r, e>>}, st.id \ {<<r, e>>}, n)
  BY <1>1 DEF pj_timer_heap_cancel_if_active, UpdateTimer
<1>3. n \in Int
  BY <1>1
<1>. HIDE DEF n
<1>4. /\ u \in SType /\ Frame(st, u) /\ u.muted = st.muted
      /\ u.heap = st.heap \ {<<r, e>>} /\ u.ref = n
  BY SMTT(30), Z3T(30), <1>1, <1>2, <1>3, UpdateType
<1>5. W(u)
  BY <1>4 DEF W, Frame, FrameTsx
<1>6. Excess(u) = Excess(st)
  <2>1. IsFiniteSet(st.heap) /\ Cardinality(st.heap) \in Nat
    BY HeapFinite
  <2>2. CASE <<r, e>> \in st.heap
    <3>1. Cardinality(u.heap) = Cardinality(st.heap) - 1
      <4>1. Cardinality(st.heap \ {<<r, e>>}) = Cardinality(st.heap) - 1
        BY <1>0, <2>1, <2>2 DEF Counting
      <4>. QED
        BY <1>4, <4>1
    <3>. QED
      BY SMTT(30), Z3T(30), <1>1, <1>4, <2>1, <2>2, <3>1 DEF Excess, n
  <2>3. CASE <<r, e>> \notin st.heap
    <3>1. u.heap = st.heap
      BY <1>4, <2>3
    <3>. QED
      BY <1>4, <2>3, <3>1 DEF Excess, n
  <2>. QED
    BY <2>2, <2>3
<1>. QED
  BY <1>4, <1>5, <1>6
\* pj_stun_client_tsx_stop() cancels both timers of a request.
LEMMA StopFrame ==
    ASSUME NEW st, W(st), NEW r \in Reqs, NEW u, u = pj_stun_client_tsx_stop(st, r)
    PROVE  /\ W(u) /\ Frame(st, u) /\ u.muted = st.muted
           /\ u.heap = st.heap \ {<<r, "retransmit">>, <<r, "destroy">>}
           /\ Excess(u) = Excess(st)
<1>. DEFINE v == pj_timer_heap_cancel_if_active(st, r, "retransmit")
<1>0. "retransmit" \in Timers /\ "destroy" \in Timers
  BY DEF Timers
<1>1. /\ W(v) /\ Frame(st, v) /\ v.muted = st.muted
      /\ v.heap = st.heap \ {<<r, "retransmit">>} /\ Excess(v) = Excess(st)
  BY <1>0, CancelFrame
<1>2. u = pj_timer_heap_cancel_if_active(v, r, "destroy")
  BY DEF pj_stun_client_tsx_stop
<1>. HIDE DEF v
<1>3. /\ W(u) /\ Frame(v, u) /\ u.muted = v.muted
      /\ u.heap = v.heap \ {<<r, "destroy">>} /\ Excess(u) = Excess(v)
  BY SMTT(30), Z3T(30), <1>0, <1>1, <1>2, CancelFrame
<1>. QED
  BY <1>1, <1>3 DEF Frame, FrameTsx

\* pj_timer_heap_schedule_w_grp_lock() of a timer that is not armed takes the
\* reference it accounts for.
LEMMA ScheduleFrame ==
    ASSUME NEW st, W(st), NEW r \in Reqs, NEW e \in Timers, <<r, e>> \notin st.heap,
           NEW u, u = pj_timer_heap_schedule_w_grp_lock(st, r, e)
    PROVE  /\ u \in SType /\ Frame(st, u) /\ u.muted = st.muted
           /\ u.heap = st.heap \cup {<<r, e>>}
           /\ Excess(u) = Excess(st)
<1>0. Counting
  BY DEF W
<1>1. /\ st \in SType /\ st.ref \in Int /\ st.ref + 1 \in Int
      /\ st.heap \in SUBSET (Reqs \X Timers) /\ st.id \in SUBSET (Reqs \X Timers)
  BY SMTT(30), Z3T(30) DEF W, SType
<1>2. u = UpdateTimer(st, st.heap \cup {<<r, e>>}, st.id \cup {<<r, e>>}, st.ref + 1)
  BY <1>1 DEF pj_timer_heap_schedule_w_grp_lock, UpdateTimer
<1>3. /\ st.heap \cup {<<r, e>>} \in SUBSET (Reqs \X Timers)
      /\ st.id \cup {<<r, e>>} \in SUBSET (Reqs \X Timers)
  BY SMTT(30), Z3T(30), <1>1
<1>4. /\ u \in SType /\ Frame(st, u) /\ u.muted = st.muted
      /\ u.heap = st.heap \cup {<<r, e>>} /\ u.ref = st.ref + 1
  BY SMTT(30), Z3T(30), <1>1, <1>2, <1>3, UpdateType
<1>5. IsFiniteSet(st.heap) /\ Cardinality(st.heap) \in Nat
  BY HeapFinite
<1>6. Cardinality(u.heap) = Cardinality(st.heap) + 1
  <2>1. Cardinality(st.heap \cup {<<r, e>>}) = Cardinality(st.heap) + 1
    BY <1>0, <1>5 DEF Counting
  <2>. QED
    BY <1>4, <2>1
<1>. QED
  BY SMTT(30), Z3T(30), <1>1, <1>4, <1>5, <1>6 DEF Excess

\* Arming the retransmit timer of a request that has a transaction.
LEMMA ScheduleRetransmit ==
    ASSUME NEW st, W(st), NEW r \in Reqs, r \in st.client_tsx, <<r, "retransmit">> \notin st.heap,
           NEW u, u = pj_timer_heap_schedule_w_grp_lock(st, r, "retransmit")
    PROVE  /\ W(u) /\ Frame(st, u) /\ u.muted = st.muted
           /\ u.heap = st.heap \cup {<<r, "retransmit">>}
           /\ Excess(u) = Excess(st)
<1>0. "retransmit" \in Timers
  BY DEF Timers
<1>1. /\ u \in SType /\ Frame(st, u) /\ u.muted = st.muted
      /\ u.heap = st.heap \cup {<<r, "retransmit">>}
      /\ Excess(u) = Excess(st)
  BY SMTT(30), Z3T(30), <1>0, ScheduleFrame
<1>. QED
  BY <1>1 DEF W, Frame, FrameTsx

\* What schedule_destroy() does besides the timers.
LEMMA MuteFrame ==
    ASSUME NEW st \in SType, NEW r \in Reqs,
           NEW u, u = [st EXCEPT !.muted = st.muted \cup {r}]
    PROVE  /\ u \in SType /\ Frame(st, u) /\ u.muted = st.muted \cup {r}
           /\ u.heap = st.heap /\ u.ref = st.ref
<1>1. u \in SType
  BY SMTT(30), Z3T(30) DEF SType
<1>. QED
  BY ZenonT(120), SMTT(30), <1>1 DEF SType, Frame, FrameTsx

\* pj_stun_client_tsx_schedule_destroy().
LEMMA ScheduleDestroyFrame ==
    ASSUME NEW st, W(st), NEW r \in Reqs, r \in st.client_tsx,
           NEW u, u = pj_stun_client_tsx_schedule_destroy(st, r)
    PROVE  /\ W(u) /\ Frame(st, u) /\ u.muted = st.muted \cup {r}
           /\ Excess(u) = Excess(st)
<1>. DEFINE v == pj_stun_client_tsx_stop(st, r)
            w == pj_timer_heap_schedule_w_grp_lock(v, r, "destroy")
<1>0. "destroy" \in Timers
  BY DEF Timers
<1>1. /\ W(v) /\ Frame(st, v) /\ v.muted = st.muted /\ <<r, "destroy">> \notin v.heap
      /\ Excess(v) = Excess(st)
  BY SMTT(30), Z3T(30), StopFrame
<1>2. u = [w EXCEPT !.muted = w.muted \cup {r}]
  BY DEF pj_stun_client_tsx_schedule_destroy
<1>. HIDE DEF v
<1>3. /\ w \in SType /\ Frame(v, w) /\ w.muted = v.muted
      /\ w.heap = v.heap \cup {<<r, "destroy">>} /\ Excess(w) = Excess(v)
  BY SMTT(30), Z3T(30), <1>0, <1>1, ScheduleFrame
<1>. HIDE DEF w
<1>4. /\ u \in SType /\ Frame(w, u) /\ u.muted = w.muted \cup {r}
      /\ u.heap = w.heap /\ u.ref = w.ref
  BY SMTT(30), Z3T(30), <1>2, <1>3, MuteFrame
<1>5. Frame(st, u) /\ u.muted = st.muted \cup {r} /\ Excess(u) = Excess(st)
  BY SMTT(30), Z3T(30), <1>1, <1>3, <1>4 DEF Frame, FrameTsx, Excess
<1>6. W(u)
  BY SMTT(30), Z3T(30), <1>1, <1>3, <1>4, <1>5 DEF W, Frame, FrameTsx
<1>. QED
  BY <1>5, <1>6

\* destroy_tdata() frees a request, or has it freed by the destroy timer.
Free(st, r, p) == [st EXCEPT !.pending = p, !.freed = @ \cup {r}]

\* The memory of a request goes, and the request is taken off the list.
LEMMA FreeFrame ==
    ASSUME NEW st, W(st), NEW r \in Reqs, NEW p, p \subseteq st.pending,
           NEW u, u = Free(st, r, p)
    PROVE  /\ W(u) /\ FrameTsx(st, u) /\ u.muted = st.muted
           /\ u.pending = p /\ Excess(u) = Excess(st)
<1>1. st \in SType /\ p \in SUBSET Reqs
  BY DEF W, SType
<1>2. u \in SType
  BY ZenonT(120), SMTT(30), <1>1 DEF SType, Free
<1>3. /\ FrameTsx(st, u) /\ u.muted = st.muted /\ u.pending = p
      /\ u.heap = st.heap /\ u.ref = st.ref
  BY <1>1 DEF SType, FrameTsx, Free
<1>. QED
  BY <1>2, <1>3 DEF W, FrameTsx, Excess

\* destroy_tdata() with either value of force.
Forced(st, r) == destroy_tdata(st, r, TRUE)
Unforced(st, r) == destroy_tdata(st, r, FALSE)

\* destroy_tdata() with force.
LEMMA ForcedFrame ==
    ASSUME NEW st, W(st), NEW r \in Reqs, NEW u, u = Forced(st, r)
    PROVE  /\ W(u) /\ FrameTsx(st, u) /\ Excess(u) = Excess(st)
           /\ u.pending = st.pending \ {r} /\ u.muted = st.muted
<1>. DEFINE v == pj_stun_client_tsx_stop(st, r)
<1>1. W(v) /\ Frame(st, v) /\ v.muted = st.muted /\ Excess(v) = Excess(st)
  BY StopFrame
<1>. DEFINE p == v.pending \ {r}
<1>2. u = Free(v, r, p)
  BY DEF destroy_tdata, Forced, Free
<1>. HIDE DEF v
<1>3. p \subseteq v.pending
  OBVIOUS
<1>. HIDE DEF p
<1>4. /\ W(u) /\ FrameTsx(v, u) /\ u.muted = v.muted
      /\ u.pending = p /\ Excess(u) = Excess(v)
  BY SMTT(30), Z3T(30), <1>1, <1>2, <1>3, FreeFrame
<1>. QED
  BY <1>1, <1>4 DEF Frame, FrameTsx, p

\* destroy_tdata() without force leaves the rest to the destroy timer.
LEMMA UnforcedFrame ==
    ASSUME NEW st, W(st), NEW r \in Reqs, NEW u, u = Unforced(st, r)
    PROVE  /\ W(u) /\ FrameTsx(st, u) /\ Excess(u) = Excess(st)
           /\ u.pending = st.pending
           /\ u.muted = st.muted \cup (IF r \in st.client_tsx THEN {r} ELSE {})
<1>1. CASE r \in st.client_tsx
  <2>1. u = pj_stun_client_tsx_schedule_destroy(st, r)
    BY <1>1 DEF Unforced, destroy_tdata
  <2>2. /\ W(u) /\ Frame(st, u) /\ u.muted = st.muted \cup {r}
        /\ Excess(u) = Excess(st)
    BY <1>1, <2>1, ScheduleDestroyFrame
  <2>. QED
    BY <1>1, <2>2 DEF Frame
<1>2. CASE r \notin st.client_tsx
  <2>0. st \in SType
    BY DEF W
  <2>1. u = Free(st, r, st.pending)
    BY <1>2, <2>0 DEF Unforced, destroy_tdata, SType, Free
  <2>2. /\ W(u) /\ FrameTsx(st, u) /\ u.muted = st.muted
        /\ u.pending = st.pending /\ Excess(u) = Excess(st)
    BY SMTT(30), Z3T(30), <2>1, FreeFrame
  <2>. QED
    BY <1>2, <2>2
<1>. QED
  BY <1>1, <1>2

----------------------------------------------------------------------------
(* Transmission.                                                            *)

\* The count of transmissions matters to none of what follows.
LEMMA CountFrame ==
    ASSUME NEW st, W(st), NEW r \in Reqs, NEW n \in Nat,
           NEW u, u = [st EXCEPT !.transmit_count[r] = n]
    PROVE  /\ W(u) /\ Frame(st, u) /\ u.muted = st.muted /\ u.heap = st.heap
           /\ Excess(u) = Excess(st)
<1>1. st \in SType /\ st.transmit_count \in [Reqs -> Nat]
  BY DEF W, SType
<1>2. u = [st EXCEPT !.transmit_count = [st.transmit_count EXCEPT ![r] = n]]
  BY <1>1 DEF SType
<1>3. [st.transmit_count EXCEPT ![r] = n] \in [Reqs -> Nat]
  BY <1>1
<1>4. u \in SType
  BY ZenonT(120), SMTT(30), <1>1, <1>2, <1>3 DEF SType
<1>5. /\ Frame(st, u) /\ u.muted = st.muted /\ u.heap = st.heap /\ u.ref = st.ref
  BY SMTT(30), Z3T(30), <1>1, <1>2 DEF SType, Frame, FrameTsx
<1>. QED
  BY <1>4, <1>5 DEF W, Frame, FrameTsx, Excess

\* What is handed to the transport.
LEMMA OutFrame ==
    ASSUME NEW st, W(st), NEW x \in SUBSET Reqs, NEW u, u = [st EXCEPT !.out = x]
    PROVE  /\ W(u) /\ Frame(st, u) /\ u.muted = st.muted /\ u.heap = st.heap
           /\ Excess(u) = Excess(st)
<1>1. st \in SType
  BY DEF W
<1>2. u \in SType
  BY SMTT(30), Z3T(30), <1>1 DEF SType
<1>3. Frame(st, u) /\ u.muted = st.muted /\ u.heap = st.heap /\ u.ref = st.ref
  BY <1>1 DEF SType, Frame, FrameTsx
<1>. QED
  BY <1>2, <1>3 DEF W, Frame, FrameTsx, Excess

\* Nothing but the timers and the transmissions changes.
Quiet(st, u) ==
    W(u) /\ Frame(st, u) /\ u.muted = st.muted /\ Excess(u) = Excess(st)

\* pj_timer_heap_cancel_if_active().
LEMMA CancelQuiet ==
    ASSUME NEW st, W(st), NEW r \in Reqs, NEW e \in Timers,
           NEW u, u = pj_timer_heap_cancel_if_active(st, r, e)
    PROVE  Quiet(st, u)
  BY SMTT(30), Z3T(30), CancelFrame DEF Quiet

\* Quiet composes.
LEMMA QuietTrans ==
    ASSUME NEW st, NEW u, NEW v, Quiet(st, u), Quiet(u, v)
    PROVE  Quiet(st, v)
  BY DEF Quiet, Frame, FrameTsx

\* A transmission counts and schedules the next one.
LEMMA CountedQuiet ==
    ASSUME NEW st, W(st), NEW r \in Reqs, r \in st.client_tsx,
           r \in st.require_retransmit => <<r, "retransmit">> \notin st.heap,
           NEW u, u = Counted(st, r)
    PROVE  Quiet(st, u)
<1>1. CASE r \in st.require_retransmit
  <2>. DEFINE v == pj_timer_heap_schedule_w_grp_lock(st, r, "retransmit")
  <2>1. Quiet(st, v)
    BY <1>1, ScheduleRetransmit DEF Quiet
  <2>2. u = [v EXCEPT !.transmit_count[r] = v.transmit_count[r] + 1]
    BY <1>1 DEF Counted
  <2>. HIDE DEF v
  <2>3. v.transmit_count[r] + 1 \in Nat
    BY SMTT(30), Z3T(30), <2>1 DEF Quiet, W, SType
  <2>4. Quiet(v, u)
    BY SMTT(30), Z3T(30), <2>1, <2>2, <2>3, CountFrame DEF Quiet
  <2>. QED
    BY <2>1, <2>4, QuietTrans
<1>2. CASE r \notin st.require_retransmit
  <2>2. u = [st EXCEPT !.transmit_count[r] = st.transmit_count[r] + 1]
    BY <1>2 DEF Counted
  <2>3. st.transmit_count[r] + 1 \in Nat
    BY SMTT(30), Z3T(30) DEF W, SType
  <2>. QED
    BY SMTT(30), Z3T(30), <2>2, <2>3, CountFrame DEF Quiet
<1>. QED
  BY <1>1, <1>2

\* What on_send_msg() of the user may return.
Outcomes == {"ok", "error", "pending"}

\* stun_tsx_on_send_msg().
LEMMA OnSendQuiet ==
    ASSUME NEW st, W(st), NEW r \in Reqs, NEW o \in Outcomes,
           NEW res, res = stun_tsx_on_send_msg(st, r, o)
    PROVE  /\ Quiet(st, res.s) /\ res.status \in Outcomes
           /\ res.status = "error" => o = "error" \/ st.is_destroying
<1>0. Quiet(st, st)
  BY DEF Quiet, Frame, FrameTsx
<1>1. CASE st.is_destroying
  BY <1>0, <1>1 DEF stun_tsx_on_send_msg, Result, Outcomes
<1>2. CASE ~st.is_destroying /\ o = "error"
  BY <1>0, <1>2 DEF stun_tsx_on_send_msg, Result, Outcomes
<1>3. CASE ~st.is_destroying /\ o # "error"
  <2>1. res.s = [st EXCEPT !.out = st.out \cup {r}] /\ res.status = o
    BY <1>3 DEF stun_tsx_on_send_msg, Result
  <2>2. st.out \cup {r} \in SUBSET Reqs
    BY DEF W, SType
  <2>3. Quiet(st, res.s)
    BY SMTT(30), Z3T(30), <2>1, <2>2, OutFrame DEF Quiet
  <2>. QED
    BY <1>3, <2>1, <2>3
<1>. QED
  BY <1>1, <1>2, <1>3

\* The end of tsx_transmit_msg().
LEMMA TransmittedQuiet ==
    ASSUME NEW res, W(res.s), res.status \in Outcomes, NEW r \in Reqs, NEW mod_count \in BOOLEAN,
           NEW v, v = Transmitted(res, r, mod_count)
    PROVE  Quiet(res.s, v.s) /\ v.status = res.status
<1>0. Quiet(res.s, res.s) /\ "retransmit" \in Timers
  BY DEF Quiet, Frame, FrameTsx, Timers
<1>1. CASE res.status = "ok" \/ ~mod_count
  BY <1>0, <1>1 DEF Transmitted
<1>2. CASE ~(res.status = "ok" \/ ~mod_count)
  <2>1. v.s = pj_timer_heap_cancel_if_active(res.s, r, "retransmit") /\ v.status = res.status
    BY <1>2 DEF Transmitted, Result
  <2>. QED
    BY SMTT(30), Z3T(30), <1>0, <2>1, CancelFrame DEF Quiet
<1>. QED
  BY <1>1, <1>2

\* The callback of a timer clears its id.
LEMMA ClearQuiet ==
    ASSUME NEW st, W(st), NEW r \in Reqs, NEW e \in Timers,
           NEW u, u = [st EXCEPT !.id = st.id \ {<<r, e>>}]
    PROVE  Quiet(st, u)
<1>1. st \in SType
  BY DEF W
<1>2. u \in SType
  BY ZenonT(120), SMTT(30), <1>1 DEF SType
<1>3. Frame(st, u) /\ u.muted = st.muted /\ u.heap = st.heap /\ u.ref = st.ref
  BY <1>1 DEF SType, Frame, FrameTsx
<1>. QED
  BY <1>2, <1>3 DEF W, Frame, FrameTsx, Excess, Quiet

\* tsx_transmit_msg() only fails if the user's send does, if the session is
\* being destroyed or if the timer is already armed.
LEMMA TransmitQuiet ==
    ASSUME NEW st, W(st), NEW r \in Reqs, r \in st.client_tsx, NEW mod_count \in BOOLEAN,
           NEW o \in Outcomes, NEW res, res = tsx_transmit_msg(st, r, mod_count, o)
    PROVE  /\ Quiet(st, res.s) /\ res.status \in Outcomes
           /\ res.status = "error" => \/ o = "error" \/ st.is_destroying
                                      \/ /\ r \in st.require_retransmit
                                         /\ <<r, "retransmit">> \in st.heap
<1>0. Quiet(st, st) /\ "retransmit" \in Timers
  BY DEF Quiet, Frame, FrameTsx, Timers
<1>1. CASE mod_count /\ r \in st.require_retransmit /\ <<r, "retransmit">> \in st.heap
  <2>1. /\ res.s = [st EXCEPT !.id = st.id \ {<<r, "retransmit">>}]
        /\ res.status = "error"
    BY <1>1 DEF tsx_transmit_msg, Result
  <2>2. Quiet(st, res.s)
    BY <1>0, <2>1, ClearQuiet
  <2>. QED
    BY <1>1, <2>1, <2>2 DEF Outcomes
<1>2. CASE ~(mod_count /\ r \in st.require_retransmit /\ <<r, "retransmit">> \in st.heap)
  <2>. DEFINE c == IF mod_count THEN Counted(st, r) ELSE st
              sent == stun_tsx_on_send_msg(c, r, o)
  <2>1. Quiet(st, c)
    BY <1>0, <1>2, CountedQuiet
  <2>2. res = Transmitted(sent, r, mod_count)
    BY <1>2 DEF tsx_transmit_msg
  <2>. HIDE DEF c
  <2>3. /\ Quiet(c, sent.s) /\ sent.status \in Outcomes
        /\ sent.status = "error" => o = "error" \/ c.is_destroying
    BY <2>1, OnSendQuiet DEF Quiet
  <2>. HIDE DEF sent
  <2>4. Quiet(sent.s, res.s) /\ res.status = sent.status
    BY SMTT(30), Z3T(30), <2>2, <2>3, TransmittedQuiet DEF Quiet
  <2>5. Quiet(st, res.s)
    BY <2>1, <2>3, <2>4, QuietTrans
  <2>6. c.is_destroying = st.is_destroying
    BY <2>1 DEF Quiet, Frame, FrameTsx
  <2>. QED
    BY <2>3, <2>4, <2>5, <2>6
<1>. QED
  BY <1>1, <1>2

\* pj_stun_session_send_msg() gives a request a transaction and a token.
Begun(st, u, r, token) ==
    /\ u.is_destroying = st.is_destroying /\ u.gone = st.gone
    /\ u.created = st.created /\ u.client_tsx = st.client_tsx \cup {r}
    /\ u.complete = st.complete
    /\ u.token = [st.token EXCEPT ![r] = token] /\ u.told = st.told
    /\ u.accepted = st.accepted /\ u.cancelled = st.cancelled
    /\ u.next_nonce = st.next_nonce /\ u.auth_retry = st.auth_retry

Begin(st, r, token) == [st EXCEPT !.client_tsx = @ \cup {r}, !.token[r] = token]

\* A request gets a client transaction.
LEMMA BeginFrame ==
    ASSUME NEW st, W(st), NEW r \in Reqs, r \in st.created, r \notin st.client_tsx,
           NEW token \in Reqs, NEW u, u = Begin(st, r, token)
    PROVE  /\ W(u) /\ Begun(st, u, r, token) /\ Excess(u) = Excess(st)
           /\ u.pending = st.pending /\ u.muted = st.muted
           /\ u.require_retransmit = st.require_retransmit /\ u.heap = st.heap
<1>1. st \in SType /\ st.token \in [Reqs -> Reqs]
  BY DEF W, SType
<1>. DEFINE c == st.client_tsx \cup {r}
            k == [st.token EXCEPT ![r] = token]
<1>2. u = [st EXCEPT !.client_tsx = c, !.token = k]
  BY <1>1 DEF SType, Begin
<1>3. k \in [Reqs -> Reqs] /\ c \in SUBSET Reqs
  BY <1>1 DEF SType
<1>. HIDE DEF c, k
<1>4. u \in SType
  BY ZenonT(120), SMTT(30), <1>1, <1>2, <1>3 DEF SType
<1>5. /\ Begun(st, u, r, token) /\ u.pending = st.pending /\ u.muted = st.muted
      /\ u.require_retransmit = st.require_retransmit
      /\ u.heap = st.heap /\ u.ref = st.ref
  BY SMTT(30), Z3T(30), <1>1, <1>2 DEF SType, Begun, c, k
<1>. QED
  BY SMTT(30), Z3T(30), <1>4, <1>5 DEF W, Begun, Excess

\* The retransmit flag of a new transaction; over TCP, its timeout.
SameBut(st, u) ==
    /\ u.is_destroying = st.is_destroying /\ u.gone = st.gone
    /\ u.created = st.created /\ u.client_tsx = st.client_tsx
    /\ u.complete = st.complete /\ u.pending = st.pending /\ u.muted = st.muted
    /\ u.token = st.token /\ u.told = st.told
    /\ u.accepted = st.accepted /\ u.cancelled = st.cancelled
    /\ u.next_nonce = st.next_nonce /\ u.auth_retry = st.auth_retry

\* pj_stun_client_tsx_send_msg() schedules the first timer.
LEMMA StartedFrame ==
    ASSUME NEW st, W(st), NEW r \in Reqs, r \in st.client_tsx,
           r \notin st.require_retransmit, <<r, "retransmit">> \notin st.heap,
           NEW retransmit \in BOOLEAN, NEW u, u = Started(st, r, retransmit)
    PROVE  /\ W(u) /\ SameBut(st, u) /\ Excess(u) = Excess(st)
           /\ r \in u.require_retransmit => <<r, "retransmit">> \notin u.heap
<1>1. CASE retransmit
  <2>1. st \in SType
    BY DEF W
  <2>2. u = [st EXCEPT !.require_retransmit = st.require_retransmit \cup {r}]
    BY <1>1 DEF Started
  <2>3. u \in SType
    BY SMTT(30), Z3T(30), <2>1, <2>2 DEF SType
  <2>4. /\ SameBut(st, u) /\ u.heap = st.heap /\ u.ref = st.ref
        /\ u.require_retransmit = st.require_retransmit \cup {r}
    BY SMTT(30), Z3T(30), <2>1, <2>2 DEF SType, SameBut
  <2>. QED
    BY <2>3, <2>4 DEF W, SameBut, Excess
<1>2. CASE ~retransmit
  <2>. DEFINE v == pj_timer_heap_schedule_w_grp_lock(st, r, "retransmit")
  <2>1. Quiet(st, v)
    BY ScheduleRetransmit DEF Quiet
  <2>2. u = [v EXCEPT !.transmit_count[r] = MaxTransmit]
    BY <1>2 DEF Started
  <2>. HIDE DEF v
  <2>3. MaxTransmit \in Nat
    BY StunAssumption
  <2>4. Quiet(v, u)
    BY SMTT(30), Z3T(30), <2>1, <2>2, <2>3, CountFrame DEF Quiet
  <2>5. Quiet(st, u)
    BY <2>1, <2>4, QuietTrans
  <2>. QED
    BY <2>5 DEF Quiet, Frame, FrameTsx, SameBut
<1>. QED
  BY <1>1, <1>2

\* A request that has been sent is pending, or its send has failed and it is
\* muted.
LEMMA QueuedFrame ==
    ASSUME NEW res, W(res.s), NEW r \in Reqs, r \in res.s.client_tsx,
           NEW u, u = Queued(res, r)
    PROVE  /\ W(u) /\ FrameTsx(res.s, u) /\ Excess(u) = Excess(res.s)
           /\ IF res.status = "error"
              THEN u.pending = res.s.pending /\ u.muted = res.s.muted \cup {r}
              ELSE u.pending = res.s.pending \cup {r} /\ u.muted = res.s.muted
<1>1. CASE res.status = "error"
  <2>1. u = Unforced(res.s, r)
    BY <1>1 DEF Queued, Unforced
  <2>. QED
    BY <1>1, <2>1, UnforcedFrame
<1>2. CASE res.status # "error"
  <2>. DEFINE st == res.s
  <2>1. u = [st EXCEPT !.pending = st.pending \cup {r}]
    BY <1>2 DEF Queued
  <2>2. st \in SType /\ W(st) /\ r \in st.client_tsx
    BY DEF W
  <2>. HIDE DEF st
  <2>3. u \in SType
    BY SMTT(30), Z3T(30), <2>1, <2>2 DEF SType
  <2>4. /\ FrameTsx(st, u) /\ u.pending = st.pending \cup {r} /\ u.muted = st.muted
        /\ u.heap = st.heap /\ u.ref = st.ref
    BY SMTT(30), Z3T(30), <2>1, <2>2 DEF SType, FrameTsx
  <2>5. W(u) /\ Excess(u) = Excess(st)
    BY <2>2, <2>3, <2>4 DEF W, FrameTsx, Excess
  <2>. QED
    BY <1>2, <2>4, <2>5 DEF st
<1>. QED
  BY <1>1, <1>2

\* The sending of a request by pj_stun_session_send_msg() or in answer to a challenge.
LEMMA SendMsgFrame ==
    ASSUME NEW st, W(st), NEW r \in Reqs, r \in st.created, r \notin st.client_tsx,
           NEW token \in Reqs, NEW retransmit \in BOOLEAN, NEW o \in Outcomes,
           NEW u, u = SendMsg(st, r, token, retransmit, o)
    PROVE  /\ W(u) /\ Begun(st, u, r, token) /\ Excess(u) = Excess(st)
           /\ \/ u.pending = st.pending \cup {r} /\ u.muted = st.muted
              \/ /\ u.pending = st.pending /\ u.muted = st.muted \cup {r}
                 /\ o = "error" \/ st.is_destroying
<1>. DEFINE b == Begin(st, r, token)
            a == Started(b, r, retransmit)
            t == tsx_transmit_msg(a, r, TRUE, o)
            res == Transmitted(t, r, TRUE)
<1>1. /\ W(b) /\ Begun(st, b, r, token) /\ Excess(b) = Excess(st)
      /\ b.pending = st.pending /\ b.muted = st.muted
      /\ b.require_retransmit = st.require_retransmit /\ b.heap = st.heap
  BY SMTT(30), Z3T(30), BeginFrame
<1>2. u = Queued(res, r)
  BY DEF SendMsg, pj_stun_client_tsx_send_msg, Begin
<1>. HIDE DEF b
<1>3. /\ r \in b.client_tsx /\ r \notin b.require_retransmit
      /\ <<r, "retransmit">> \notin b.heap
  BY <1>1 DEF W, Begun, Timers
<1>4. /\ W(a) /\ SameBut(b, a) /\ Excess(a) = Excess(b)
      /\ r \in a.require_retransmit => <<r, "retransmit">> \notin a.heap
  BY <1>1, <1>3, StartedFrame
<1>5. r \in a.client_tsx
  BY <1>3, <1>4 DEF SameBut
<1>. HIDE DEF a
<1>6. /\ Quiet(a, t.s) /\ t.status \in Outcomes
      /\ t.status = "error" => o = "error" \/ a.is_destroying
  BY <1>4, <1>5, TransmitQuiet
<1>. HIDE DEF t
<1>7. Quiet(t.s, res.s) /\ res.status = t.status
  BY ZenonT(120), SMTT(30), <1>6, TransmittedQuiet DEF Quiet
<1>. HIDE DEF res
<1>8. Quiet(a, res.s)
  BY <1>6, <1>7, QuietTrans
<1>9. /\ W(u) /\ FrameTsx(res.s, u) /\ Excess(u) = Excess(res.s)
      /\ IF res.status = "error"
         THEN u.pending = res.s.pending /\ u.muted = res.s.muted \cup {r}
         ELSE u.pending = res.s.pending \cup {r} /\ u.muted = res.s.muted
  BY SMTT(30), Z3T(30), <1>2, <1>5, <1>8, QueuedFrame DEF Quiet, Frame, FrameTsx
<1>10. Begun(st, u, r, token) /\ Excess(u) = Excess(st)
  BY SMTT(30), Z3T(30), <1>1, <1>4, <1>8, <1>9 DEF Quiet, Frame, FrameTsx, SameBut, Begun
<1>11. /\ res.s.pending = st.pending /\ res.s.muted = st.muted
       /\ a.is_destroying = st.is_destroying
  BY <1>1, <1>4, <1>8 DEF Quiet, Frame, FrameTsx, SameBut, Begun
<1>. QED
  BY <1>6, <1>7, <1>9, <1>10, <1>11

----------------------------------------------------------------------------
(* Completion.                                                              *)

\* What the completion of r may do: end in silence because the session is
\* being destroyed or the response is malformed; tell the user; or send q in
\* its place.
EndsSilently(st, u, resp) ==
    /\ st.is_destroying \/ (LongTerm /\ resp = "malformed")
    /\ u.told = st.told /\ u.token = st.token
    /\ u.client_tsx = st.client_tsx /\ u.created = st.created

EndsTold(st, u, r) ==
    /\ u.told = [st.told EXCEPT ![st.token[r]] = st.told[st.token[r]] + 1]
    /\ u.token = st.token /\ u.muted \subseteq st.muted \cup {r}
    /\ u.client_tsx = st.client_tsx /\ u.created = st.created

EndsRetried(st, u, r, q, o) ==
    /\ LongTerm /\ q \in Reqs /\ q \notin st.created
    /\ u.told = st.told /\ u.token = [st.token EXCEPT ![q] = st.token[r]]
    /\ u.client_tsx = st.client_tsx \cup {q} /\ u.created = st.created \cup {q}
    /\ o = "error" \/ (q \in u.pending /\ q \notin u.muted)

Ends(st, u, r, resp, q, o) ==
    /\ W(u) /\ Excess(u) = Excess(st)
    /\ u.is_destroying = st.is_destroying /\ u.gone = st.gone
    /\ u.accepted = st.accepted /\ u.cancelled = st.cancelled
    /\ u.complete = st.complete \cup {r}
    /\ st.muted \subseteq u.muted /\ u.muted \subseteq st.muted \cup {r, q}
    /\ st.pending \ {r} \subseteq u.pending
    /\ \/ EndsSilently(st, u, resp)
       \/ EndsTold(st, u, r)
       \/ EndsRetried(st, u, r, q, o)

\* The record with r complete.
LEMMA CompleteFlag ==
    ASSUME NEW st, W(st), NEW r \in Reqs, r \in st.client_tsx,
           NEW u, u = [st EXCEPT !.complete = st.complete \cup {r}]
    PROVE  /\ W(u) /\ Excess(u) = Excess(st) /\ u.complete = st.complete \cup {r}
           /\ u.is_destroying = st.is_destroying /\ u.gone = st.gone
           /\ u.created = st.created /\ u.client_tsx = st.client_tsx
           /\ u.muted = st.muted /\ u.pending = st.pending
           /\ u.token = st.token /\ u.told = st.told
           /\ u.accepted = st.accepted /\ u.cancelled = st.cancelled
           /\ u.next_nonce = st.next_nonce /\ u.auth_retry = st.auth_retry
           /\ u.require_retransmit = st.require_retransmit
<1>1. st \in SType
  BY DEF W
<1>2. u \in SType
  BY SMTT(30), Z3T(30), <1>1 DEF SType
<1>3. /\ u.complete = st.complete \cup {r} /\ u.ref = st.ref /\ u.heap = st.heap
      /\ u.is_destroying = st.is_destroying /\ u.gone = st.gone
      /\ u.created = st.created /\ u.client_tsx = st.client_tsx
      /\ u.muted = st.muted /\ u.pending = st.pending
      /\ u.token = st.token /\ u.told = st.told
      /\ u.accepted = st.accepted /\ u.cancelled = st.cancelled
      /\ u.next_nonce = st.next_nonce /\ u.auth_retry = st.auth_retry
      /\ u.require_retransmit = st.require_retransmit
  BY <1>1 DEF SType
<1>4. W(u) /\ Excess(u) = Excess(st)
  BY <1>2, <1>3 DEF W, Excess
<1>. QED
  BY <1>3, <1>4

\* What is alive, scheduled and freed is as it was; c has been created.
Unmoved(st, u, c) ==
    /\ W(u) /\ u.created = c /\ u.client_tsx = st.client_tsx
    /\ u.pending = st.pending /\ u.freed = st.freed /\ u.heap = st.heap

\* on_request_complete() of the user.
LEMMA ToldKeeps ==
    ASSUME NEW st, W(st), NEW r \in Reqs, NEW u, u = on_request_complete(st, r)
    PROVE  /\ W(u) /\ Excess(u) = Excess(st)
           /\ u.is_destroying = st.is_destroying /\ u.gone = st.gone
           /\ u.created = st.created /\ u.client_tsx = st.client_tsx
           /\ u.complete = st.complete /\ u.muted = st.muted /\ u.pending = st.pending
           /\ u.token = st.token /\ u.freed = st.freed /\ u.heap = st.heap
           /\ u.accepted = st.accepted /\ u.cancelled = st.cancelled
<1>1. st \in SType /\ st.told \in [Reqs -> Nat] /\ st.token[r] \in Reqs
  BY DEF W, SType
<1>. DEFINE k == [st.told EXCEPT ![st.token[r]] = st.told[st.token[r]] + 1]
<1>2. k \in [Reqs -> Nat]
  BY SMTT(30), Z3T(30), <1>1
<1>3. u = [st EXCEPT !.told = k]
  BY <1>1 DEF on_request_complete, SType
<1>. HIDE DEF k
<1>4. u \in SType
  BY SMTT(30), Z3T(30), <1>1, <1>2, <1>3 DEF SType
<1>5. /\ u.ref = st.ref /\ u.heap = st.heap /\ u.freed = st.freed
      /\ u.is_destroying = st.is_destroying /\ u.gone = st.gone
      /\ u.created = st.created /\ u.client_tsx = st.client_tsx
      /\ u.complete = st.complete /\ u.muted = st.muted /\ u.pending = st.pending
      /\ u.token = st.token /\ u.require_retransmit = st.require_retransmit
      /\ u.accepted = st.accepted /\ u.cancelled = st.cancelled
  BY ZenonT(120), SMTT(30), <1>1, <1>3 DEF SType
<1>6. W(u) /\ Excess(u) = Excess(st)
  BY <1>4, <1>5 DEF W, Excess
<1>. QED
  BY <1>5, <1>6

\* on_request_complete() counts the call for the request the user knows.
LEMMA ToldFrame ==
    ASSUME NEW st, W(st), NEW r \in Reqs, NEW u, u = on_request_complete(st, r)
    PROVE  /\ W(u) /\ Excess(u) = Excess(st)
           /\ u.told = [st.told EXCEPT ![st.token[r]] = st.told[st.token[r]] + 1]
           /\ u.is_destroying = st.is_destroying /\ u.gone = st.gone
           /\ u.created = st.created /\ u.client_tsx = st.client_tsx
           /\ u.complete = st.complete /\ u.muted = st.muted /\ u.pending = st.pending
           /\ u.token = st.token
           /\ u.accepted = st.accepted /\ u.cancelled = st.cancelled
<1>1. u.told = [st.told EXCEPT ![st.token[r]] = st.told[st.token[r]] + 1]
  BY DEF on_request_complete, W, SType
<1>. QED
  BY SMTT(30), Z3T(30), <1>1, ToldKeeps

\* A challenge remembered; q is the request that answers it.
Remember(st, n, x, c) == [st EXCEPT !.auth_retry = n, !.next_nonce = x, !.created = c]

\* What handle_auth_challenge() remembers of a challenge.
LEMMA RememberFrame ==
    ASSUME NEW st, W(st), NEW n \in Nat, NEW x \in Nonces \cup {NoNonce},
           NEW c \in SUBSET Reqs, st.created \subseteq c, NEW u, u = Remember(st, n, x, c)
    PROVE  /\ W(u) /\ Excess(u) = Excess(st) /\ u.created = c
           /\ u.is_destroying = st.is_destroying /\ u.gone = st.gone
           /\ u.client_tsx = st.client_tsx /\ u.complete = st.complete
           /\ u.muted = st.muted /\ u.pending = st.pending
           /\ u.token = st.token /\ u.told = st.told
           /\ u.accepted = st.accepted /\ u.cancelled = st.cancelled
<1>1. st \in SType
  BY DEF W
<1>2. u \in SType
  BY ZenonT(120), SMTT(30), <1>1 DEF SType, Remember
<1>3. /\ u.created = c /\ u.ref = st.ref /\ u.heap = st.heap
      /\ u.is_destroying = st.is_destroying /\ u.gone = st.gone
      /\ u.client_tsx = st.client_tsx /\ u.complete = st.complete
      /\ u.muted = st.muted /\ u.pending = st.pending
      /\ u.token = st.token /\ u.told = st.told
      /\ u.require_retransmit = st.require_retransmit
      /\ u.accepted = st.accepted /\ u.cancelled = st.cancelled
  BY <1>1 DEF SType, Remember
<1>4. W(u) /\ Excess(u) = Excess(st)
  BY <1>2, <1>3 DEF W, Excess
<1>. QED
  BY <1>3, <1>4

\* The same, of what is alive and scheduled.
LEMMA RememberKeeps ==
    ASSUME NEW st, W(st), NEW n \in Nat, NEW x \in Nonces \cup {NoNonce},
           NEW c \in SUBSET Reqs, st.created \subseteq c,
           NEW u, u = Remember(st, n, x, c)
    PROVE  Unmoved(st, u, c)
<1>1. st \in SType
  BY DEF W
<1>2. u.freed = st.freed /\ u.heap = st.heap
  BY <1>1 DEF Remember, SType
<1>3. /\ W(u) /\ u.created = c /\ u.client_tsx = st.client_tsx
      /\ u.pending = st.pending
  BY SMTT(30), Z3T(30), RememberFrame
<1>. QED
  BY <1>2, <1>3 DEF Unmoved

\* on_request_complete() leaves alone what is alive and scheduled.
LEMMA ToldUnmoved ==
    ASSUME NEW st, W(st), NEW r \in Reqs, NEW u, u = on_request_complete(st, r)
    PROVE  Unmoved(st, u, st.created)
  BY SMTT(30), Z3T(30), ToldKeeps DEF Unmoved

\* The number of retries is a number.
LEMMA AuthRetryType ==
    ASSUME NEW st, W(st), NEW resp
    PROVE  auth_retry(st, resp) \in Nat
  BY SMTT(30), Z3T(30) DEF W, SType, auth_retry

\* A challenge that is not answered changes nothing but the retry count.
LEMMA NotRetriedFrame ==
    ASSUME NEW st, W(st), NEW r \in Reqs, NEW resp, NEW q, NEW o, ~Retried(st, resp),
           NEW u, u = handle_auth_challenge(st, r, resp, q, o)
    PROVE  /\ W(u) /\ Excess(u) = Excess(st) /\ u.created = st.created
           /\ u.is_destroying = st.is_destroying /\ u.gone = st.gone
           /\ u.client_tsx = st.client_tsx /\ u.complete = st.complete
           /\ u.muted = st.muted /\ u.pending = st.pending
           /\ u.token = st.token /\ u.told = st.told
           /\ u.accepted = st.accepted /\ u.cancelled = st.cancelled
<1>. DEFINE n == auth_retry(st, resp)
<1>1. /\ st \in SType /\ n \in Nat /\ st.next_nonce \in Nonces \cup {NoNonce}
      /\ st.created \in SUBSET Reqs
  BY AuthRetryType DEF W, SType
<1>2. u = Remember(st, n, st.next_nonce, st.created)
  BY <1>1 DEF handle_auth_challenge, Remember, SType
<1>. HIDE DEF n
<1>. QED
  BY SMTT(30), Z3T(30), <1>1, <1>2, RememberFrame

\* A challenge that is answered sends q with the token of r.
LEMMA RetriedFrame ==
    ASSUME NEW st, W(st), NEW r \in Reqs, NEW resp, NEW q \in Reqs, q \notin st.created,
           NEW o \in Outcomes, Retried(st, resp), ~st.is_destroying,
           NEW u, u = handle_auth_challenge(st, r, resp, q, o)
    PROVE  /\ W(u) /\ Excess(u) = Excess(st)
           /\ u.is_destroying = st.is_destroying /\ u.gone = st.gone
           /\ u.accepted = st.accepted /\ u.cancelled = st.cancelled
           /\ u.complete = st.complete /\ st.pending \subseteq u.pending
           /\ st.muted \subseteq u.muted /\ u.muted \subseteq st.muted \cup {q}
           /\ EndsRetried(st, u, r, q, o)
<1>. DEFINE n == auth_retry(st, resp)
            c == st.created \cup {q}
            v == Remember(st, n, resp, c)
            rt == r \in st.require_retransmit
            k == st.token[r]
<1>1. /\ st \in SType /\ n \in Nat /\ resp \in Nonces \cup {NoNonce}
      /\ c \in SUBSET Reqs /\ st.created \subseteq c
      /\ rt \in BOOLEAN /\ k \in Reqs
  BY SMTT(30), Z3T(30), AuthRetryType DEF W, SType, Retried
<1>2. u = SendMsg(v, q, k, rt, o)
  BY DEF handle_auth_challenge, Remember
<1>3. q \in c /\ q \notin st.client_tsx /\ q \notin st.muted /\ LongTerm
  BY DEF W, Retried
<1>. HIDE DEF n, c, k, rt
<1>4. /\ W(v) /\ Excess(v) = Excess(st) /\ v.created = c
      /\ v.is_destroying = st.is_destroying /\ v.gone = st.gone
      /\ v.client_tsx = st.client_tsx /\ v.complete = st.complete
      /\ v.muted = st.muted /\ v.pending = st.pending
      /\ v.token = st.token /\ v.told = st.told
      /\ v.accepted = st.accepted /\ v.cancelled = st.cancelled
  BY SMTT(30), Z3T(30), <1>1, RememberFrame
<1>. HIDE DEF v
<1>5. /\ W(u) /\ Begun(v, u, q, k) /\ Excess(u) = Excess(v)
      /\ \/ u.pending = v.pending \cup {q} /\ u.muted = v.muted
         \/ /\ u.pending = v.pending /\ u.muted = v.muted \cup {q}
            /\ o = "error" \/ v.is_destroying
  BY SMTT(30), Z3T(30), <1>1, <1>2, <1>3, <1>4, SendMsgFrame
<1>6. EndsRetried(st, u, r, q, o)
  <2>1. ~v.is_destroying
    BY <1>4
  <2>2. o = "error" \/ (q \in u.pending /\ q \notin u.muted)
    BY <1>3, <1>4, <1>5, <2>1
  <2>. QED
    BY <1>3, <1>4, <1>5, <2>2 DEF EndsRetried, Begun, c, k
<1>. QED
  BY <1>4, <1>5, <1>6 DEF Begun

\* The q of a response exists when, and only when, a retry needs it.
GoodRetry(st, r, resp, q) ==
    IF Retried(st, resp) THEN q \in Reqs /\ q \notin st.created ELSE q = NoReq

\* stun_tsx_on_complete() ends a request in one of three ways.
LEMMA OnCompleteEnds ==
    ASSUME NEW st, W(st), NEW r \in Reqs, r \in st.client_tsx, NEW status, NEW resp, NEW q,
           NEW o \in Outcomes, ~st.is_destroying => GoodRetry(st, r, resp, q),
           NEW u, u = stun_tsx_on_complete(st, r, status, resp, q, o)
    PROVE  /\ W(u) /\ Excess(u) = Excess(st)
           /\ u.is_destroying = st.is_destroying /\ u.gone = st.gone
           /\ u.accepted = st.accepted /\ u.cancelled = st.cancelled
           /\ u.complete = st.complete
           /\ st.muted \subseteq u.muted /\ u.muted \subseteq st.muted \cup {r, q}
           /\ st.pending \ {r} \subseteq u.pending
           /\ \/ EndsSilently(st, u, resp)
              \/ EndsTold(st, u, r)
              \/ EndsRetried(st, u, r, q, o)
<1>1. CASE st.is_destroying
  <2>1. u = Unforced(st, r)
    BY <1>1 DEF stun_tsx_on_complete, Unforced
  <2>2. /\ W(u) /\ FrameTsx(st, u) /\ Excess(u) = Excess(st)
        /\ u.pending = st.pending /\ u.muted = st.muted \cup {r}
    BY <2>1, UnforcedFrame
  <2>3. EndsSilently(st, u, resp)
    BY <1>1, <2>2 DEF FrameTsx, EndsSilently
  <2>. QED
    BY <2>2, <2>3 DEF FrameTsx
<1>2. CASE ~st.is_destroying
  <2>. DEFINE h == handle_auth_challenge(st, r, resp, q, o)
              v == IF notify_user(st, resp) THEN on_request_complete(h, r) ELSE h
  <2>1. u = Forced(v, r) \/ u = Unforced(v, r)
    BY <1>2 DEF stun_tsx_on_complete, destroy_tdata, Forced, Unforced
  <2>2. /\ W(v) /\ Excess(v) = Excess(st)
        /\ v.is_destroying = st.is_destroying /\ v.gone = st.gone
        /\ v.accepted = st.accepted /\ v.cancelled = st.cancelled
        /\ v.complete = st.complete
        /\ st.muted \subseteq v.muted /\ v.muted \subseteq st.muted \cup {q}
        /\ st.pending \subseteq v.pending
        /\ \/ EndsSilently(st, v, resp)
           \/ EndsTold(st, v, r)
           \/ EndsRetried(st, v, r, q, o)
    <3>1. CASE Retried(st, resp)
      <4>1. v = h
        BY <3>1 DEF notify_user
      <4>2. q \in Reqs /\ q \notin st.created
        BY <1>2, <3>1 DEF GoodRetry
      <4>3. v = handle_auth_challenge(st, r, resp, q, o)
        BY <4>1
      <4>. HIDE DEF h, v
      <4>4. /\ W(v) /\ Excess(v) = Excess(st)
            /\ v.is_destroying = st.is_destroying /\ v.gone = st.gone
            /\ v.accepted = st.accepted /\ v.cancelled = st.cancelled
            /\ v.complete = st.complete /\ st.pending \subseteq v.pending
            /\ st.muted \subseteq v.muted /\ v.muted \subseteq st.muted \cup {q}
            /\ EndsRetried(st, v, r, q, o)
        BY SMTT(30), Z3T(30), <1>2, <3>1, <4>2, <4>3, RetriedFrame
      <4>. QED
        BY <4>4
    <3>2. CASE ~Retried(st, resp)
      <4>. HIDE DEF v
      <4>1. /\ W(h) /\ Excess(h) = Excess(st) /\ h.created = st.created
            /\ h.is_destroying = st.is_destroying /\ h.gone = st.gone
            /\ h.client_tsx = st.client_tsx /\ h.complete = st.complete
            /\ h.muted = st.muted /\ h.pending = st.pending
            /\ h.token = st.token /\ h.told = st.told
            /\ h.accepted = st.accepted /\ h.cancelled = st.cancelled
        BY SMTT(30), Z3T(30), <3>2, NotRetriedFrame
      <4>. HIDE DEF h
      <4>2. CASE LongTerm /\ resp = "malformed"
        <5>1. v = h
          BY <4>2 DEF notify_user, v
        <5>. QED
          BY <4>1, <4>2, <5>1 DEF EndsSilently
      <4>3. CASE ~(LongTerm /\ resp = "malformed")
        <5>1. v = on_request_complete(h, r)
          BY <3>2, <4>3 DEF notify_user, v
        <5>2. /\ W(v) /\ Excess(v) = Excess(h)
              /\ v.told = [h.told EXCEPT ![h.token[r]] = h.told[h.token[r]] + 1]
              /\ v.is_destroying = h.is_destroying /\ v.gone = h.gone
              /\ v.created = h.created /\ v.client_tsx = h.client_tsx
              /\ v.complete = h.complete /\ v.muted = h.muted /\ v.pending = h.pending
              /\ v.token = h.token
              /\ v.accepted = h.accepted /\ v.cancelled = h.cancelled
          BY SMTT(30), Z3T(30), <4>1, <5>1, ToldFrame
        <5>. QED
          BY <4>1, <5>2 DEF EndsTold
      <4>. QED
        BY <4>2, <4>3
    <3>. QED
      BY <3>1, <3>2
  <2>. HIDE DEF v
  <2>3. /\ W(u) /\ FrameTsx(v, u) /\ Excess(u) = Excess(v)
        /\ v.pending \ {r} \subseteq u.pending
        /\ v.muted \subseteq u.muted /\ u.muted \subseteq v.muted \cup {r}
    <3>1. CASE u = Forced(v, r)
      BY SMTT(30), Z3T(30), <2>2, <3>1, ForcedFrame
    <3>2. CASE u = Unforced(v, r)
      BY SMTT(30), Z3T(30), <2>2, <3>2, UnforcedFrame
    <3>. QED
      BY <2>1, <3>1, <3>2
  <2>4. \/ EndsSilently(st, u, resp)
        \/ EndsTold(st, u, r)
        \/ EndsRetried(st, u, r, q, o)
    <3>1. r # q \/ ~EndsRetried(st, v, r, q, o)
      BY DEF EndsRetried, W
    <3>. QED
      BY <2>2, <2>3, <3>1 DEF FrameTsx, EndsSilently, EndsTold, EndsRetried
  <2>. QED
    BY <2>2, <2>3, <2>4 DEF FrameTsx
<1>. QED
  BY <1>1, <1>2

----------------------------------------------------------------------------
(* What makes the user hear of a request once: the requests that can still  *)
(* complete have different tokens, of which the user has not been told.     *)

Open(st) == st.client_tsx \ (st.complete \cup st.muted)

T(st) ==
    /\ \A p \in Open(st), q \in Open(st) : st.token[p] = st.token[q] => p = q
    /\ \A q \in Open(st) : st.told[st.token[q]] = 0
    /\ \A q \in st.client_tsx : st.token[q] \in st.client_tsx
    /\ \A r \in Reqs : st.told[r] \in {0, 1}
    /\ \A r \in Reqs : st.told[r] # 0 => r \in st.client_tsx
    /\ ~LongTerm => \A q \in st.client_tsx : st.token[q] = q

\* NotForgotten, of the record alone.
Awaited(st) == {r \in st.accepted : st.told[r] = 0 /\ r \notin st.cancelled}

N(st) ==
    ~st.is_destroying =>
        \A r \in Awaited(st) : \E q \in st.pending \cap Open(st) : st.token[q] = r

\* The user has been told.
LEMMA EndsToldT ==
    ASSUME NEW st, W(st), T(st), NEW r \in Reqs, r \in Open(st), NEW resp, NEW q, NEW o,
           NEW u, Ends(st, u, r, resp, q, o), EndsTold(st, u, r)
    PROVE  T(u)
<1>1. /\ st.token \in [Reqs -> Reqs] /\ st.told \in [Reqs -> Nat]
      /\ st.client_tsx \subseteq Reqs
  BY DEF W, SType
<1>2. Open(u) \subseteq Open(st) \ {r}
  BY DEF Ends, EndsTold, Open
<1>3. u.token = st.token /\ u.accepted = st.accepted /\ u.client_tsx = st.client_tsx
  BY DEF Ends, EndsTold
<1>4. u.told = [st.told EXCEPT ![st.token[r]] = 1]
  BY SMTT(30), Z3T(30), <1>1 DEF EndsTold, T
<1>5. \A x \in Reqs : u.told[x] = IF x = st.token[r] THEN 1 ELSE st.told[x]
  BY <1>1, <1>4
<1>6. st.token[r] \in st.client_tsx
  BY DEF T, Open
<1>7. \A x \in Open(u) : u.told[u.token[x]] = 0
  <2>. SUFFICES ASSUME NEW x \in Open(u) PROVE u.told[u.token[x]] = 0
    OBVIOUS
  <2>1. x \in Open(st) /\ x # r /\ x \in Reqs
    BY <1>1, <1>2 DEF Open
  <2>2. st.token[x] # st.token[r] /\ st.told[st.token[x]] = 0 /\ st.token[x] \in Reqs
    BY <1>1, <2>1 DEF T
  <2>. QED
    BY <1>3, <1>5, <2>2
<1>. QED
  BY <1>2, <1>3, <1>5, <1>6, <1>7 DEF T

\* The request ends without the user being told.
LEMMA EndsSilentlyT ==
    ASSUME NEW st, W(st), T(st), NEW r \in Reqs, NEW resp, NEW q, NEW o,
           NEW u, Ends(st, u, r, resp, q, o), EndsSilently(st, u, resp)
    PROVE  T(u)
<1>1. Open(u) \subseteq Open(st)
  BY DEF Ends, EndsSilently, Open
<1>2. /\ u.token = st.token /\ u.accepted = st.accepted
      /\ u.client_tsx = st.client_tsx /\ u.told = st.told
  BY DEF Ends, EndsSilently
<1>. QED
  BY ZenonT(120), SMTT(30), <1>1, <1>2 DEF T

\* Another request carries on with the token.
LEMMA EndsRetriedT ==
    ASSUME NEW st, W(st), T(st), NEW r \in Reqs, r \in Open(st), NEW resp, NEW q, NEW o,
           NEW u, Ends(st, u, r, resp, q, o), EndsRetried(st, u, r, q, o)
    PROVE  T(u)
<1>1. /\ st.token \in [Reqs -> Reqs] /\ st.client_tsx \subseteq Reqs
      /\ q \in Reqs /\ q \notin st.client_tsx /\ q \notin st.accepted
  BY DEF W, SType, EndsRetried
<1>2. /\ u.client_tsx = st.client_tsx \cup {q} /\ u.told = st.told
      /\ u.token = [st.token EXCEPT ![q] = st.token[r]]
      /\ u.accepted = st.accepted /\ LongTerm
  BY DEF Ends, EndsRetried
<1>3. Open(u) \subseteq (Open(st) \ {r}) \cup {q}
  BY <1>2 DEF Ends, Open
<1>4. \A x \in Reqs : u.token[x] = IF x = q THEN st.token[r] ELSE st.token[x]
  BY <1>1, <1>2
<1>5. st.token[r] \in st.client_tsx /\ st.told[st.token[r]] = 0
  BY DEF T, Open
<1>6. \A x \in Open(st) \ {r} : x \in Reqs /\ x # q /\ st.token[x] # st.token[r]
  BY <1>1 DEF T, Open
<1>7. \A x \in Open(u), y \in Open(u) : u.token[x] = u.token[y] => x = y
  BY SMTT(30), Z3T(30), <1>1, <1>3, <1>4, <1>6 DEF T
<1>8. \A x \in Open(u) : u.told[u.token[x]] = 0
  BY SMTT(30), Z3T(30), <1>1, <1>2, <1>3, <1>4, <1>5, <1>6 DEF T
<1>9. \A x \in u.client_tsx : u.token[x] \in u.client_tsx
  BY <1>1, <1>2, <1>4, <1>5 DEF T
<1>. QED
  BY <1>2, <1>7, <1>8, <1>9 DEF T

\* No request is forgotten, unless a challenge is malformed or the request
\* that answers it cannot be sent.
LEMMA EndsN ==
    ASSUME NEW st, W(st), N(st), NEW r \in Reqs, r \in Open(st), NEW resp, NEW q, NEW o,
           NEW u, Ends(st, u, r, resp, q, o),
           LongTerm => resp # "malformed" /\ o # "error"
    PROVE  N(u)
<1>. SUFFICES ASSUME ~u.is_destroying, NEW x \in Awaited(u)
              PROVE  \E y \in u.pending \cap Open(u) : u.token[y] = x
  BY DEF N
<1>0. /\ st.token \in [Reqs -> Reqs] /\ st.told \in [Reqs -> Nat]
      /\ st.client_tsx \subseteq Reqs /\ st.pending \subseteq st.client_tsx
      /\ st.accepted \subseteq Reqs
  BY DEF W, SType
<1>1. ~st.is_destroying
  BY DEF Ends
<1>2. CASE EndsTold(st, u, r)
  <2>1. x \in st.accepted /\ x \notin st.cancelled /\ u.told[x] = 0 /\ x \in Reqs
    BY <1>0 DEF Awaited, Ends
  <2>2. u.told = [st.told EXCEPT ![st.token[r]] = st.told[st.token[r]] + 1]
    BY <1>2 DEF EndsTold
  <2>3. x # st.token[r] /\ st.told[x] = 0
    BY SMTT(30), Z3T(30), <1>0, <2>1, <2>2
  <2>4. PICK y \in st.pending \cap Open(st) : st.token[y] = x
    BY <1>1, <2>1, <2>3 DEF N, Awaited
  <2>5. y # r /\ y \in u.pending
    BY <2>3, <2>4 DEF Ends
  <2>6. y \in Open(u)
    BY <1>2, <2>4, <2>5 DEF Ends, EndsTold, Open
  <2>. QED
    BY <1>2, <2>4, <2>5, <2>6 DEF EndsTold
<1>3. CASE EndsRetried(st, u, r, q, o)
  <2>1. x \in st.accepted /\ x \notin st.cancelled /\ st.told[x] = 0 /\ x \in Reqs
    BY <1>0, <1>3 DEF Awaited, Ends, EndsRetried
  <2>2. PICK y \in st.pending \cap Open(st) : st.token[y] = x
    BY <1>1, <2>1 DEF N, Awaited
  <2>3. q \in Reqs /\ q \notin st.client_tsx /\ q \in u.pending /\ q \notin u.muted
    BY <1>3 DEF EndsRetried, W
  <2>4. u.token = [st.token EXCEPT ![q] = st.token[r]]
    BY <1>3 DEF EndsRetried
  <2>5. CASE y = r
    <3>1. q \in Open(u)
      BY <1>3, <2>3, <2>5 DEF Ends, EndsRetried, Open, W
    <3>. QED
      BY <1>0, <2>2, <2>3, <2>4, <2>5, <3>1
  <2>6. CASE y # r
    <3>1. y \in u.pending /\ y # q
      BY <1>0, <2>2, <2>3, <2>6 DEF Ends
    <3>2. y \in Open(u)
      BY <1>3, <2>2, <2>6, <3>1 DEF Ends, EndsRetried, Open
    <3>3. u.token[y] = x
      BY <1>0, <2>2, <2>3, <2>4, <3>1
    <3>. QED
      BY <3>1, <3>2, <3>3
  <2>. QED
    BY <2>5, <2>6
<1>4. CASE EndsSilently(st, u, resp)
  BY <1>1, <1>4 DEF EndsSilently
<1>. QED
  BY <1>2, <1>3, <1>4 DEF Ends

----------------------------------------------------------------------------
(* Steps.  A step from st to u changes the references that no timer holds   *)
(* by d.                                                                    *)

Steps(st, u, d) ==
    /\ W(u) /\ Excess(u) = Excess(st) + d
    /\ u.is_destroying = st.is_destroying
    /\ st.client_tsx \subseteq u.client_tsx /\ st.muted \subseteq u.muted
    /\ NoCancelledRetry /\ T(st) => T(u)
    /\ NoSilentEnd /\ N(st) => N(u)

\* The references that no timer holds are a number.
LEMMA ExcessType ==
    ASSUME NEW st, W(st)
    PROVE  Excess(st) \in Int /\ st.ref \in Int /\ Cardinality(st.heap) \in Nat
<1>1. st \in SType /\ st.ref \in Int
  BY DEF W, SType
<1>2. Cardinality(st.heap) \in Nat
  BY HeapFinite
<1>. QED
  BY <1>1, <1>2 DEF Excess

\* Steps composes.
LEMMA StepsTrans ==
    ASSUME NEW st, W(st), NEW u, NEW v, NEW d \in Int, Steps(st, u, 0), Steps(u, v, d)
    PROVE  Steps(st, v, d)
<1>1. Excess(st) \in Int
  BY ExcessType
<1>2. Excess(v) = Excess(st) + d
  BY <1>1 DEF Steps
<1>. QED
  BY <1>2 DEF Steps

\* Muting, queuing and freeing: T only depends on what can still complete.
LEMMA FrameT ==
    ASSUME NEW st, NEW u, FrameTsx(st, u), st.muted \subseteq u.muted, T(st)
    PROVE  T(u)
<1>1. Open(u) \subseteq Open(st)
  BY DEF FrameTsx, Open
<1>. QED
  BY SMTT(30), Z3T(30), <1>1 DEF FrameTsx, T

\* What leaves the transactions alone forgets nothing.
LEMMA FrameN ==
    ASSUME NEW st, NEW u, FrameTsx(st, u), u.muted = st.muted, u.pending = st.pending, N(st)
    PROVE  N(u)
<1>1. Open(u) = Open(st) /\ Awaited(u) = Awaited(st)
  BY DEF FrameTsx, Open, Awaited
<1>. QED
  BY <1>1 DEF FrameTsx, N

\* Quiet operators are steps without a reference.
LEMMA QuietSteps ==
    ASSUME NEW st, W(st), NEW u, Quiet(st, u)
    PROVE  Steps(st, u, 0)
<1>1. Excess(u) = Excess(st) + 0
  BY ExcessType DEF Quiet
<1>2. FrameTsx(st, u) /\ u.muted = st.muted /\ u.pending = st.pending
  BY DEF Quiet, Frame
<1>3. T(st) => T(u)
  BY <1>2, FrameT
<1>4. N(st) => N(u)
  BY <1>2, FrameN
<1>. QED
  BY <1>1, <1>2, <1>3, <1>4 DEF Steps, Quiet, FrameTsx

\* Complete() in any state, for a request that has a transaction.
LEMMA CompleteSteps ==
    ASSUME NEW st, W(st), NEW r \in Reqs, r \in st.client_tsx, NEW status, NEW resp, NEW q,
           NEW o \in Outcomes,
           r \notin st.complete \cup st.muted /\ ~st.is_destroying => GoodRetry(st, r, resp, q),
           NoSilentEnd => (LongTerm => resp # "malformed" /\ o # "error"),
           NEW u, u = Complete(st, r, status, resp, q, o)
    PROVE  Steps(st, u, 0)
<1>. DEFINE c == [st EXCEPT !.complete = st.complete \cup {r}]
<1>1. /\ W(c) /\ Excess(c) = Excess(st) /\ c.complete = st.complete \cup {r}
      /\ c.is_destroying = st.is_destroying /\ c.gone = st.gone
      /\ c.created = st.created /\ c.client_tsx = st.client_tsx
      /\ c.muted = st.muted /\ c.pending = st.pending
      /\ c.token = st.token /\ c.told = st.told
      /\ c.accepted = st.accepted /\ c.cancelled = st.cancelled
      /\ c.next_nonce = st.next_nonce /\ c.auth_retry = st.auth_retry
      /\ c.require_retransmit = st.require_retransmit
  BY SMTT(30), Z3T(30), CompleteFlag
<1>2. CASE r \in st.complete
  <2>1. u = st
    BY <1>2 DEF Complete
  <2>2. Quiet(st, st)
    BY DEF Quiet, Frame, FrameTsx
  <2>. QED
    BY <2>1, <2>2, QuietSteps
<1>3. CASE r \notin st.complete /\ r \in st.muted
  <2>1. u = c
    BY <1>3 DEF Complete
  <2>. HIDE DEF c
  <2>2. Open(u) = Open(st) /\ Awaited(u) = Awaited(st)
    BY ZenonT(120), SMTT(30), <1>1, <1>3, <2>1 DEF Open, Awaited
  <2>3. Excess(u) = Excess(st) + 0
    BY <1>1, <2>1, ExcessType
  <2>4. T(st) => T(u)
    BY SMTT(30), Z3T(30), <1>1, <2>1, <2>2 DEF T
  <2>5. N(st) => N(u)
    BY SMTT(30), Z3T(30), <1>1, <2>1, <2>2 DEF N
  <2>. QED
    BY <1>1, <2>1, <2>3, <2>4, <2>5 DEF Steps
<1>4. CASE r \notin st.complete /\ r \notin st.muted
  <2>1. u = stun_tsx_on_complete(c, r, status, resp, q, o)
    BY <1>4 DEF Complete
  <2>. HIDE DEF c
  <2>2. ~c.is_destroying => GoodRetry(c, r, resp, q)
    BY <1>1, <1>4 DEF GoodRetry, Retried
  <2>3. /\ W(u) /\ Excess(u) = Excess(c)
        /\ u.is_destroying = c.is_destroying /\ u.gone = c.gone
        /\ u.accepted = c.accepted /\ u.cancelled = c.cancelled
        /\ u.complete = c.complete
        /\ c.muted \subseteq u.muted /\ u.muted \subseteq c.muted \cup {r, q}
        /\ c.pending \ {r} \subseteq u.pending
        /\ \/ EndsSilently(c, u, resp)
           \/ EndsTold(c, u, r)
           \/ EndsRetried(c, u, r, q, o)
    BY <1>1, <2>1, <2>2, OnCompleteEnds
  <2>4. \/ EndsSilently(st, u, resp)
        \/ EndsTold(st, u, r)
        \/ EndsRetried(st, u, r, q, o)
    BY <1>1, <2>3 DEF EndsSilently, EndsTold, EndsRetried
  <2>5. Ends(st, u, r, resp, q, o)
    BY <1>1, <2>3, <2>4 DEF Ends
  <2>6. r \in Open(st)
    BY <1>4 DEF Open
  <2>7. T(st) => T(u)
    BY <2>4, <2>5, <2>6, EndsSilentlyT, EndsToldT, EndsRetriedT
  <2>8. NoSilentEnd /\ N(st) => N(u)
    BY <2>5, <2>6, EndsN
  <2>9. Excess(u) = Excess(st) + 0
    BY <1>1, <2>3, ExcessType
  <2>10. st.client_tsx \subseteq u.client_tsx
    BY <2>4 DEF EndsSilently, EndsTold, EndsRetried
  <2>. QED
    BY <2>5, <2>7, <2>8, <2>9, <2>10 DEF Steps, Ends
<1>. QED
  BY <1>2, <1>3, <1>4

\* The group lock is released by a callback, or by the session: the last
\* reference goes when the session is being destroyed.
LEMMA DecRefSteps ==
    ASSUME NEW st, W(st), st.ref = 1 => st.is_destroying,
           NEW u, u = pj_grp_lock_dec_ref(st)
    PROVE  Steps(st, u, -1)
<1>. DEFINE n == st.ref - 1
            v == [st EXCEPT !.ref = n]
<1>1. st \in SType /\ n \in Int /\ st.ref \in Int /\ Cardinality(st.heap) \in Nat
  BY ExcessType DEF W
<1>2. u = Released(v)
  BY <1>1 DEF pj_grp_lock_dec_ref, SType
<1>3. st.ref = n + 1
  BY <1>1
<1>. HIDE DEF n
<1>4. v \in SType
  BY ZenonT(120), SMTT(30), <1>1 DEF SType
<1>5. /\ FrameTsx(st, v) /\ v.muted = st.muted /\ v.pending = st.pending
      /\ v.freed = st.freed /\ v.heap = st.heap /\ v.ref = n
  BY <1>1 DEF SType, FrameTsx
<1>6. W(v)
  BY <1>4, <1>5 DEF W, FrameTsx
<1>7. Excess(v) = Excess(st) + (-1)
  BY <1>1, <1>3, <1>5 DEF Excess
<1>8. T(st) => T(v)
  BY <1>5, FrameT
<1>9. N(st) => N(v)
  BY <1>5, FrameN
<1>. HIDE DEF v
<1>10. CASE u = v
  BY <1>5, <1>6, <1>7, <1>8, <1>9, <1>10 DEF Steps, FrameTsx
<1>11. CASE u # v
  <2>1. v.ref = 0 /\ u = stun_sess_on_destroy(v)
    BY <1>2, <1>11 DEF Released
  <2>2. st.is_destroying
    BY <1>1, <1>3, <1>5, <2>1
  <2>. DEFINE f == v.freed \cup v.pending
  <2>a. u = [v EXCEPT !.gone = TRUE, !.freed = f, !.pending = {}]
    BY <2>1 DEF stun_sess_on_destroy
  <2>b. f \in SUBSET Reqs
    BY <1>4 DEF SType
  <2>. HIDE DEF f
  <2>3. u \in SType
    BY ZenonT(120), SMTT(30), <1>4, <2>a, <2>b DEF SType
  <2>4. /\ u.is_destroying = v.is_destroying /\ u.pending = {}
        /\ u.created = v.created /\ u.client_tsx = v.client_tsx
        /\ u.complete = v.complete /\ u.require_retransmit = v.require_retransmit
        /\ u.token = v.token /\ u.told = v.told /\ u.muted = v.muted
        /\ u.accepted = v.accepted /\ u.cancelled = v.cancelled
        /\ u.heap = v.heap /\ u.ref = v.ref
    BY SMTT(30), Z3T(30), <1>4, <2>1 DEF SType, stun_sess_on_destroy
  <2>5. W(u)
    BY ZenonT(120), SMTT(30), <1>6, <2>3, <2>4 DEF W
  <2>6. Excess(u) = Excess(st) + (-1)
    BY <1>7, <2>4 DEF Excess
  <2>7. Open(u) = Open(v)
    BY <2>4 DEF Open
  <2>8. T(st) => T(u)
    BY SMTT(30), Z3T(30), <1>8, <2>4, <2>7 DEF T
  <2>9. N(u)
    BY <1>5, <2>2, <2>4 DEF N, FrameTsx
  <2>. QED
    BY SMTT(30), Z3T(30), <1>5, <2>4, <2>5, <2>6, <2>8, <2>9 DEF Steps, FrameTsx
<1>. QED
  BY <1>10, <1>11

-----------------------------------------------------------------------------
(* The actions.                                                             *)

\* Nothing that T and N depend on has changed.
Alike(st, u) ==
    /\ W(u) /\ Excess(u) = Excess(st)
    /\ u.is_destroying = st.is_destroying
    /\ u.client_tsx = st.client_tsx /\ u.complete = st.complete
    /\ u.muted = st.muted /\ u.pending = st.pending
    /\ u.token = st.token /\ u.told = st.told
    /\ u.accepted = st.accepted /\ u.cancelled = st.cancelled

\* So are those that change nothing the argument depends on.
LEMMA AlikeSteps ==
    ASSUME NEW st, W(st), NEW u, Alike(st, u)
    PROVE  Steps(st, u, 0)
<1>1. Open(u) = Open(st) /\ Awaited(u) = Awaited(st)
  BY DEF Alike, Open, Awaited
<1>2. Excess(u) = Excess(st) + 0
  BY ExcessType DEF Alike
<1>3. T(st) => T(u)
  BY ZenonT(120), SMTT(30), <1>1 DEF Alike, T
<1>4. N(st) => N(u)
  BY <1>1 DEF Alike, N
<1>. QED
  BY <1>2, <1>3, <1>4 DEF Alike, Steps

\* Every step starts with nothing sent yet.
LEMMA FreshQuiet ==
    ASSUME NEW st, W(st)
    PROVE  Quiet(st, Fresh(st))
<1>1. Fresh(st) = [st EXCEPT !.out = {}]
  BY DEF Fresh
<1>. QED
  BY SMTT(30), Z3T(30), <1>1, OutFrame DEF Quiet

\* A send of a request ends as any send.
LEMMA SendsOutcomes ==
    /\ Sends \subseteq Outcomes
    /\ "error" \in Sends => "send_error" \in Env
  BY DEF Sends, Outcomes

Create(st, r) == [st EXCEPT !.created = @ \cup {r}]

\* pj_stun_session_create_req().
LEMMA CreateSteps ==
    ASSUME NEW st, W(st), NEW r \in Reqs, NEW u, u = Create(st, r)
    PROVE  Steps(st, u, 0)
<1>. DEFINE c == st.created \cup {r}
            n == st.auth_retry
            x == st.next_nonce
<1>1. /\ st \in SType /\ c \in SUBSET Reqs /\ st.created \subseteq c
      /\ n \in Nat /\ x \in Nonces \cup {NoNonce}
  BY DEF W, SType
<1>3. u = Remember(st, n, x, c)
  BY <1>1 DEF SType, Remember, Create
<1>. HIDE DEF c, n, x
<1>4. Alike(st, u)
  BY SMTT(30), Z3T(30), <1>1, <1>3, RememberFrame DEF Alike
<1>. QED
  BY <1>4, AlikeSteps

\* The count of retransmissions by the user.
LEMMA ManualSteps ==
    ASSUME NEW st, W(st), NEW n \in Nat, NEW u, u = [st EXCEPT !.manual = n]
    PROVE  Steps(st, u, 0)
<1>1. st \in SType
  BY DEF W
<1>2. u \in SType
  BY ZenonT(120), SMTT(30), <1>1 DEF SType
<1>3. Frame(st, u) /\ u.muted = st.muted /\ u.heap = st.heap /\ u.ref = st.ref
  BY <1>1 DEF SType, Frame, FrameTsx
<1>4. Quiet(st, u)
  BY <1>2, <1>3 DEF W, Frame, FrameTsx, Excess, Quiet
<1>. QED
  BY <1>4, QuietSteps

\* A request that has no transaction is freed without further ado.
LEMMA UnsentSteps ==
    ASSUME NEW st, W(st), NEW r \in Reqs, r \notin st.client_tsx, NEW u, u = Unforced(st, r)
    PROVE  Steps(st, u, 0)
<1>1. /\ W(u) /\ FrameTsx(st, u) /\ Excess(u) = Excess(st)
      /\ u.pending = st.pending
      /\ u.muted = st.muted \cup (IF r \in st.client_tsx THEN {r} ELSE {})
  BY UnforcedFrame
<1>2. u.muted = st.muted
  BY <1>1
<1>3. Alike(st, u)
  BY <1>1, <1>2 DEF Alike, FrameTsx
<1>. QED
  BY <1>3, AlikeSteps

\* The user sends a request and may wait for it.
LEMMA SendSteps ==
    ASSUME NEW st, W(st), NEW r \in Reqs, r \in st.created, r \notin st.client_tsx,
           ~st.is_destroying, NEW retransmit \in BOOLEAN, NEW o \in Outcomes,
           NEW v, v = SendMsg(st, r, r, retransmit, o), NEW u, u = Accept(v, r)
    PROVE  Steps(st, u, 0)
<1>1. /\ W(v) /\ Begun(st, v, r, r) /\ Excess(v) = Excess(st)
      /\ \/ v.pending = st.pending \cup {r} /\ v.muted = st.muted
         \/ /\ v.pending = st.pending /\ v.muted = st.muted \cup {r}
            /\ o = "error" \/ st.is_destroying
  BY SMTT(30), Z3T(30), SendMsgFrame
<1>2. /\ st.token \in [Reqs -> Reqs] /\ st.client_tsx \subseteq Reqs /\ st.pending \subseteq st.client_tsx
      /\ st.complete \subseteq st.client_tsx /\ st.muted \subseteq st.client_tsx
      /\ st.accepted \subseteq st.client_tsx
  BY DEF W, SType
<1>3. /\ u.is_destroying = v.is_destroying /\ u.client_tsx = v.client_tsx
      /\ u.complete = v.complete /\ u.muted = v.muted /\ u.pending = v.pending
      /\ u.token = v.token /\ u.told = v.told /\ u.cancelled = v.cancelled
      /\ u.accepted = v.accepted \cup (IF r \in v.pending THEN {r} ELSE {})
      /\ W(u) /\ Excess(u) = Excess(v)
  <2>1. CASE r \notin v.pending
    BY <1>1, <2>1 DEF Accept
  <2>2. CASE r \in v.pending
    <3>1. u = [v EXCEPT !.accepted = v.accepted \cup {r}]
      BY <2>2 DEF Accept
    <3>2. v \in SType
      BY <1>1 DEF W
    <3>3. u \in SType
      BY SMTT(30), Z3T(30), <3>1, <3>2 DEF SType
    <3>4. /\ u.is_destroying = v.is_destroying /\ u.client_tsx = v.client_tsx
          /\ u.complete = v.complete /\ u.muted = v.muted /\ u.pending = v.pending
          /\ u.token = v.token /\ u.told = v.told /\ u.cancelled = v.cancelled
          /\ u.accepted = v.accepted \cup {r} /\ u.created = v.created
          /\ u.heap = v.heap /\ u.ref = v.ref
          /\ u.require_retransmit = v.require_retransmit
      BY SMTT(30), Z3T(30), <3>1, <3>2 DEF SType
    <3>5. v.token[r] = r
      BY <1>1, <1>2 DEF Begun
    <3>6. W(u) /\ Excess(u) = Excess(v)
      BY ZenonT(120), SMTT(30), <1>1, <2>2, <3>3, <3>4, <3>5 DEF W, Excess
    <3>. QED
      BY <2>2, <3>4, <3>6
  <2>. QED
    BY <2>1, <2>2
<1>4. /\ u.client_tsx = st.client_tsx \cup {r} /\ u.told = st.told
      /\ u.complete = st.complete /\ u.cancelled = st.cancelled
      /\ u.token = [st.token EXCEPT ![r] = r] /\ u.is_destroying = st.is_destroying
  BY <1>1, <1>3 DEF Begun
<1>5. \A x \in Reqs : u.token[x] = IF x = r THEN r ELSE st.token[x]
  BY <1>2, <1>4
<1>6. Open(u) \subseteq Open(st) \cup {r}
  BY ZenonT(120), SMTT(30), <1>1, <1>3, <1>4 DEF Open
<1>7. T(st) => T(u)
  <2>. SUFFICES ASSUME T(st) PROVE T(u)
    OBVIOUS
  <2>1. st.told[r] = 0 /\ \A x \in Open(st) : x \in Reqs /\ x # r /\ st.token[x] # r
    BY <1>2 DEF T, Open
  <2>2. \A x \in Open(u), y \in Open(u) : u.token[x] = u.token[y] => x = y
    BY SMTT(30), Z3T(30), <1>5, <1>6, <2>1 DEF T
  <2>3. \A x \in Open(u) : u.told[u.token[x]] = 0
    BY SMTT(30), Z3T(30), <1>4, <1>5, <1>6, <2>1 DEF T
  <2>4. \A x \in u.client_tsx : u.token[x] \in u.client_tsx
    BY SMTT(30), Z3T(30), <1>2, <1>4, <1>5 DEF T
  <2>5. ~LongTerm => \A x \in u.client_tsx : u.token[x] = x
    BY SMTT(30), Z3T(30), <1>2, <1>4, <1>5 DEF T
  <2>. QED
    BY SMTT(30), Z3T(30), <1>4, <2>2, <2>3, <2>4, <2>5 DEF T
<1>8. N(st) => N(u)
  <2>. SUFFICES ASSUME N(st), NEW x \in Awaited(u)
                PROVE  \E y \in u.pending \cap Open(u) : u.token[y] = x
    BY DEF N
  <2>1. CASE x \in Awaited(st)
    <3>1. PICK y \in st.pending \cap Open(st) : st.token[y] = x
      BY <2>1 DEF N
    <3>2. y \in u.pending /\ y # r /\ y \in Reqs /\ y \in Open(u)
      BY SMTT(30), Z3T(30), <1>1, <1>2, <1>3, <1>4, <3>1 DEF Open
    <3>. QED
      BY <1>5, <3>1, <3>2
  <2>2. CASE x \notin Awaited(st)
    <3>1. x = r /\ r \in v.pending
      BY <1>1, <1>3, <1>4, <2>2 DEF Awaited, Begun
    <3>2. r \in u.pending /\ r \in Open(u)
      BY SMTT(30), Z3T(30), <1>1, <1>2, <1>3, <1>4, <3>1 DEF Open
    <3>. QED
      BY <1>5, <3>1, <3>2
  <2>. QED
    BY <2>1, <2>2
<1>9. Excess(u) = Excess(st) + 0
  BY SMTT(30), Z3T(30), <1>1, <1>3, ExcessType
<1>10. st.muted \subseteq u.muted
  BY <1>1, <1>3
<1>. QED
  BY <1>3, <1>4, <1>7, <1>8, <1>9, <1>10 DEF Steps

\* The user cancels a request, whose transaction is muted.
Cancel(st, r) == [st EXCEPT !.cancelled = @ \cup {r}]

\* The user gives up a request.
LEMMA CancelFlag ==
    ASSUME NEW st, W(st), NEW r \in Reqs, NEW u, u = Cancel(st, r)
    PROVE  /\ W(u) /\ Excess(u) = Excess(st) /\ u.cancelled = st.cancelled \cup {r}
           /\ u.is_destroying = st.is_destroying
           /\ u.client_tsx = st.client_tsx /\ u.complete = st.complete
           /\ u.muted = st.muted /\ u.pending = st.pending
           /\ u.token = st.token /\ u.told = st.told /\ u.accepted = st.accepted
<1>1. st \in SType
  BY DEF W
<1>2. u \in SType
  BY SMTT(30), Z3T(30), <1>1 DEF SType, Cancel
<1>3. /\ u.cancelled = st.cancelled \cup {r} /\ u.ref = st.ref /\ u.heap = st.heap
      /\ u.is_destroying = st.is_destroying /\ u.created = st.created
      /\ u.client_tsx = st.client_tsx /\ u.complete = st.complete
      /\ u.muted = st.muted /\ u.pending = st.pending
      /\ u.token = st.token /\ u.told = st.told /\ u.accepted = st.accepted
      /\ u.require_retransmit = st.require_retransmit
  BY <1>1 DEF SType, Cancel
<1>4. W(u) /\ Excess(u) = Excess(st)
  BY <1>2, <1>3 DEF W, Excess
<1>. QED
  BY <1>3, <1>4

\* pj_stun_session_cancel_req(), with or without a notification.
LEMMA CancelSteps ==
    ASSUME NEW st, W(st), NEW r \in Reqs, r \in st.accepted, st.told[r] = 0, "cancel" \in Env,
           NEW v, v = st \/ v = on_request_complete(st, r),
           NEW w, w = Cancel(v, r), NEW u, u = Unforced(w, r)
    PROVE  Steps(st, u, 0)
<1>1. /\ st.token \in [Reqs -> Reqs] /\ st.told \in [Reqs -> Nat] /\ st.client_tsx \subseteq Reqs
      /\ r \in st.client_tsx /\ st.token[r] = r /\ st.accepted \subseteq Reqs
      /\ st.pending \subseteq st.client_tsx
  BY DEF W, SType
<1>2. /\ W(v) /\ Excess(v) = Excess(st)
      /\ v.told = st.told \/ v.told = [st.told EXCEPT ![r] = 1]
      /\ v.is_destroying = st.is_destroying
      /\ v.client_tsx = st.client_tsx /\ v.complete = st.complete
      /\ v.muted = st.muted /\ v.pending = st.pending
      /\ v.token = st.token /\ v.accepted = st.accepted /\ v.cancelled = st.cancelled
  <2>1. CASE v = st
    BY <2>1
  <2>2. CASE v = on_request_complete(st, r)
    <3>1. /\ W(v) /\ Excess(v) = Excess(st)
          /\ v.told = [st.told EXCEPT ![st.token[r]] = st.told[st.token[r]] + 1]
          /\ v.is_destroying = st.is_destroying /\ v.gone = st.gone
          /\ v.created = st.created /\ v.client_tsx = st.client_tsx
          /\ v.complete = st.complete /\ v.muted = st.muted /\ v.pending = st.pending
          /\ v.token = st.token
          /\ v.accepted = st.accepted /\ v.cancelled = st.cancelled
      BY SMTT(30), Z3T(30), <2>2, ToldFrame
    <3>. QED
      BY SMTT(30), Z3T(30), <1>1, <3>1
  <2>. QED
    BY <2>1, <2>2
<1>3. /\ W(w) /\ Excess(w) = Excess(v) /\ w.cancelled = v.cancelled \cup {r}
      /\ w.is_destroying = v.is_destroying
      /\ w.client_tsx = v.client_tsx /\ w.complete = v.complete
      /\ w.muted = v.muted /\ w.pending = v.pending
      /\ w.token = v.token /\ w.told = v.told /\ w.accepted = v.accepted
  BY SMTT(30), Z3T(30), <1>2, CancelFlag
<1>4. /\ W(u) /\ FrameTsx(w, u) /\ Excess(u) = Excess(w)
      /\ u.pending = w.pending
      /\ u.muted = w.muted \cup (IF r \in w.client_tsx THEN {r} ELSE {})
  BY SMTT(30), Z3T(30), <1>3, UnforcedFrame
<1>5. /\ u.client_tsx = st.client_tsx /\ u.complete = st.complete
      /\ u.muted = st.muted \cup {r} /\ u.pending = st.pending
      /\ u.token = st.token /\ u.accepted = st.accepted
      /\ u.cancelled = st.cancelled \cup {r} /\ u.is_destroying = st.is_destroying
      /\ u.told = st.told \/ u.told = [st.told EXCEPT ![r] = 1]
  BY SMTT(30), Z3T(30), <1>1, <1>2, <1>3, <1>4 DEF FrameTsx
<1>6. Open(u) = Open(st) \ {r}
  BY <1>5 DEF Open
<1>7. NoCancelledRetry /\ T(st) => T(u)
  <2>. SUFFICES ASSUME NoCancelledRetry, T(st) PROVE T(u)
    OBVIOUS
  <2>1. \A x \in st.client_tsx : st.token[x] = x
    BY DEF NoCancelledRetry, T
  <2>2. \A x \in Reqs : x # r => u.told[x] = st.told[x]
    BY <1>1, <1>5
  <2>3. u.told[r] \in {0, 1}
    BY <1>1, <1>5
  <2>4. \A x \in Open(u) : u.told[u.token[x]] = 0
    BY SMTT(30), Z3T(30), <1>1, <1>5, <1>6, <2>1, <2>2 DEF T, Open
  <2>5. \A x \in Reqs : u.told[x] \in {0, 1}
    BY <2>2, <2>3 DEF T
  <2>6. \A x \in Reqs : u.told[x] # 0 => x \in u.client_tsx
    BY ZenonT(120), SMTT(30), <1>1, <1>5, <2>2 DEF T
  <2>. QED
    BY SMTT(30), Z3T(30), <1>5, <1>6, <2>4, <2>5, <2>6 DEF T
<1>8. N(st) => N(u)
  <2>. SUFFICES ASSUME N(st), ~u.is_destroying, NEW x \in Awaited(u)
                PROVE  \E y \in u.pending \cap Open(u) : u.token[y] = x
    BY DEF N
  <2>1. x \in Awaited(st) /\ x # r
    BY <1>1, <1>5 DEF Awaited
  <2>2. ~st.is_destroying
    BY <1>5
  <2>3. PICK y \in st.pending \cap Open(st) : st.token[y] = x
    BY <2>1, <2>2 DEF N
  <2>. QED
    BY <1>1, <1>5, <1>6, <2>1, <2>3
<1>9. Excess(u) = Excess(st) + 0
  BY SMTT(30), Z3T(30), <1>2, <1>3, <1>4, ExcessType
<1>. QED
  BY <1>4, <1>5, <1>7, <1>8, <1>9 DEF Steps

\* pj_stun_client_tsx_retransmit()
LEMMA RetransmitSteps ==
    ASSUME NEW st, W(st), NEW r \in Reqs, r \in st.client_tsx, NEW mod_count \in BOOLEAN,
           NEW o \in Outcomes, NEW u, u = pj_stun_client_tsx_retransmit(st, r, mod_count, o)
    PROVE  Steps(st, u, 0)
<1>. DEFINE c == IF mod_count THEN pj_timer_heap_cancel_if_active(st, r, "retransmit") ELSE st
            res == tsx_transmit_msg(c, r, mod_count, o)
<1>1. Quiet(st, st) /\ "retransmit" \in Timers
  BY DEF Quiet, Frame, FrameTsx, Timers
<1>2. u = st \/ u = res.s
  BY DEF pj_stun_client_tsx_retransmit
<1>3. Quiet(st, c)
  BY SMTT(30), Z3T(30), <1>1, CancelFrame DEF Quiet
<1>. HIDE DEF c
<1>4. r \in c.client_tsx /\ W(c)
  BY <1>3 DEF Quiet, Frame, FrameTsx
<1>5. Quiet(c, res.s)
  BY <1>4, TransmitQuiet
<1>6. Quiet(st, u)
  BY <1>1, <1>2, <1>3, <1>5, QuietTrans
<1>. QED
  BY <1>6, QuietSteps

\* The retransmit timer: one more transmission, or the end.
LEMMA TimeoutSteps ==
    ASSUME NEW st, W(st), NEW r \in Reqs, r \in st.client_tsx, NEW o \in Sends,
           NEW u, u = RetransmitOrTimeout(st, r, o)
    PROVE  Steps(st, u, 0)
<1>. DEFINE c == ClearId(st, r, "retransmit")
            res == tsx_transmit_msg(c, r, TRUE, o)
            d == ClearId(res.s, r, "retransmit")
<1>0. /\ o \in Outcomes /\ "retransmit" \in Timers
      /\ NoSilentEnd => (LongTerm => "none" # "malformed" /\ o # "error")
  BY SendsOutcomes DEF Timers, NoSilentEnd
<1>1. Quiet(st, c)
  BY <1>0, ClearQuiet DEF ClearId
<1>2. \/ u = Complete(c, r, "timeout", "none", NoReq, o)
      \/ u = res.s
      \/ u = Complete(d, r, res.status, "none", NoReq, o)
  BY DEF RetransmitOrTimeout, Retransmitted
<1>. HIDE DEF c
<1>3. r \in c.client_tsx /\ W(c)
  BY <1>1 DEF Quiet, Frame, FrameTsx
<1>4. Quiet(c, res.s)
  BY <1>0, <1>3, TransmitQuiet
<1>. HIDE DEF res
<1>5. Quiet(res.s, d)
  BY SMTT(30), Z3T(30), <1>0, <1>4, ClearQuiet DEF ClearId, Quiet
<1>. HIDE DEF d
<1>6. Quiet(st, res.s) /\ Quiet(st, d)
  BY <1>1, <1>4, <1>5, QuietTrans
<1>7. r \in d.client_tsx /\ W(d)
  BY <1>6 DEF Quiet, Frame, FrameTsx
<1>8. \A x : GoodRetry(x, r, "none", NoReq)
  BY StunAssumption DEF GoodRetry, Retried
<1>9. CASE u = Complete(c, r, "timeout", "none", NoReq, o)
  <2>1. Steps(c, u, 0)
    BY <1>0, <1>3, <1>8, <1>9, CompleteSteps
  <2>2. Steps(st, c, 0)
    BY <1>1, QuietSteps
  <2>. QED
    BY <2>1, <2>2, StepsTrans
<1>10. CASE u = res.s
  BY <1>6, <1>10, QuietSteps
<1>11. CASE u = Complete(d, r, res.status, "none", NoReq, o)
  <2>1. Steps(d, u, 0)
    BY <1>0, <1>7, <1>8, <1>11, CompleteSteps
  <2>2. Steps(st, d, 0)
    BY <1>6, QuietSteps
  <2>. QED
    BY <2>1, <2>2, StepsTrans
<1>. QED
  BY <1>2, <1>9, <1>10, <1>11

\* A response.
LEMMA ResponseSteps ==
    ASSUME NEW st, W(st), NEW r \in Reqs, r \in st.client_tsx, NEW resp \in Responses, NEW q,
           NEW o \in Sends,
           r \notin st.complete \cup st.muted /\ ~st.is_destroying => GoodRetry(st, r, resp, q),
           NEW u, u = pj_stun_client_tsx_on_rx_msg(st, r, resp, q, o)
    PROVE  Steps(st, u, 0)
<1>. DEFINE c == pj_timer_heap_cancel_if_active(st, r, "retransmit")
<1>0. o \in Outcomes /\ "retransmit" \in Timers
  BY SendsOutcomes DEF Timers
<1>1. NoSilentEnd => (LongTerm => resp # "malformed" /\ o # "error")
  BY SendsOutcomes, StunAssumption DEF NoSilentEnd, Responses
<1>2. Quiet(st, c)
  BY SMTT(30), Z3T(30), <1>0, CancelFrame DEF Quiet
<1>3. u = c \/ u = Complete(c, r, "response", resp, q, o)
  BY DEF pj_stun_client_tsx_on_rx_msg
<1>. HIDE DEF c
<1>4. /\ r \in c.client_tsx /\ W(c)
      /\ r \notin c.complete \cup c.muted /\ ~c.is_destroying => GoodRetry(c, r, resp, q)
  BY <1>2 DEF Quiet, Frame, FrameTsx, GoodRetry, Retried
<1>5. Steps(st, c, 0)
  BY <1>2, QuietSteps
<1>6. CASE u = c
  BY <1>5, <1>6
<1>7. CASE u = Complete(c, r, "response", resp, q, o)
  <2>1. Steps(c, u, 0)
    BY <1>0, <1>1, <1>4, <1>7, CompleteSteps
  <2>. QED
    BY <1>5, <2>1, StepsTrans
<1>. QED
  BY <1>3, <1>6, <1>7

\* An expired timer leaves the heap with its reference.
LEMMA PollSteps ==
    ASSUME NEW st, W(st), NEW r \in Reqs, NEW e \in Timers, <<r, e>> \in st.heap,
           NEW u, u = [st EXCEPT !.heap = st.heap \ {<<r, e>>}]
    PROVE  Steps(st, u, 1) /\ u.client_tsx = st.client_tsx /\ u.muted = st.muted
<1>0. Counting
  BY DEF W
<1>1. /\ st \in SType /\ st.ref \in Int /\ st.heap \subseteq Reqs \X Timers
      /\ IsFiniteSet(st.heap) /\ Cardinality(st.heap) \in Nat
  BY HeapFinite DEF W, SType
<1>2. u \in SType
  BY SMTT(30), Z3T(30), <1>1 DEF SType
<1>3. /\ Frame(st, u) /\ u.muted = st.muted /\ u.ref = st.ref
      /\ u.heap = st.heap \ {<<r, e>>}
  BY <1>1 DEF SType, Frame, FrameTsx
<1>4. W(u)
  BY <1>2, <1>3 DEF W, Frame, FrameTsx
<1>5. Cardinality(u.heap) = Cardinality(st.heap) - 1
  <2>1. Cardinality(st.heap \ {<<r, e>>}) = Cardinality(st.heap) - 1
    BY <1>0, <1>1 DEF Counting
  <2>. QED
    BY <1>3, <2>1
<1>6. Excess(u) = Excess(st) + 1
  BY SMTT(30), Z3T(30), <1>1, <1>3, <1>5 DEF Excess
<1>7. T(st) => T(u)
  BY <1>3, FrameT DEF Frame
<1>8. N(st) => N(u)
  BY <1>3, FrameN DEF Frame
<1>. QED
  BY <1>3, <1>4, <1>6, <1>7, <1>8 DEF Steps, Frame, FrameTsx

\* A request that is muted completes no more, and may be freed.
LEMMA FreeMutedSteps ==
    ASSUME NEW st, W(st), NEW r \in Reqs, r \in st.muted,
           NEW p, p = st.pending \ {r}, NEW u, u = Free(st, r, p)
    PROVE  Steps(st, u, 0)
<1>1. /\ W(u) /\ FrameTsx(st, u) /\ u.muted = st.muted
      /\ u.pending = p /\ Excess(u) = Excess(st)
  BY SMTT(30), Z3T(30), FreeFrame
<1>2. T(st) => T(u)
  BY <1>1, FrameT
<1>3. Open(u) = Open(st) /\ Awaited(u) = Awaited(st)
  BY <1>1 DEF Open, Awaited, FrameTsx
<1>4. u.pending \cap Open(u) = st.pending \cap Open(st)
  BY <1>1, <1>3 DEF Open
<1>5. N(st) => N(u)
  BY SMTT(30), Z3T(30), <1>1, <1>3, <1>4 DEF N, FrameTsx
<1>6. Excess(u) = Excess(st) + 0
  BY SMTT(30), Z3T(30), <1>1, ExcessType
<1>. QED
  BY <1>1, <1>2, <1>5, <1>6 DEF Steps, FrameTsx

\* The destruction of the session stops the timers of the pending requests.
LEMMA StopAllSteps ==
    ASSUME NEW st, W(st), NEW x, x = st.heap \cap (st.pending \X Timers),
           NEW u, u = StopAll(st, x)
    PROVE  Steps(st, u, 0)
<1>0. Counting /\ x \subseteq st.heap
  BY DEF W
<1>1. /\ st \in SType /\ st.ref \in Int /\ st.heap \subseteq Reqs \X Timers
      /\ st.id \subseteq Reqs \X Timers
      /\ IsFiniteSet(st.heap) /\ Cardinality(st.heap) \in Nat
  BY HeapFinite DEF W, SType
<1>2. Cardinality(x) \in Nat
  BY ZenonT(120), SMTT(30), <1>0, <1>1 DEF Counting
<1>3. Cardinality(st.heap \ x) = Cardinality(st.heap) - Cardinality(x)
  BY <1>0, <1>1 DEF Counting
<1>. DEFINE h == st.heap \ x
            i == st.id \ (st.pending \X Timers)
            n == st.ref - Cardinality(x)
<1>4. /\ u = UpdateTimer(st, h, i, n)
      /\ h \in SUBSET (Reqs \X Timers) /\ i \in SUBSET (Reqs \X Timers) /\ n \in Int
  BY SMTT(30), Z3T(30), <1>1, <1>2 DEF StopAll, UpdateTimer, SType
<1>. HIDE DEF h, i, n
<1>5. /\ u \in SType /\ Frame(st, u) /\ u.muted = st.muted /\ u.heap = h /\ u.ref = n
  <2>1. st \in SType
    BY <1>1
  <2>. QED
    BY SMTT(30), Z3T(30), <2>1, <1>4, UpdateType
<1>6. W(u)
  BY ZenonT(120), SMTT(30), <1>5 DEF W, Frame, FrameTsx, h
<1>7. Excess(u) = Excess(st)
  <2>1. u.ref = st.ref - Cardinality(x)
    BY <1>5 DEF n
  <2>2. Cardinality(u.heap) = Cardinality(st.heap) - Cardinality(x)
    BY <1>3, <1>5 DEF h
  <2>3. Excess(u) = u.ref - Cardinality(u.heap) /\ Excess(st) = st.ref - Cardinality(st.heap)
    BY DEF Excess
  <2>. QED
    BY SMTT(30), Z3T(30), <1>1, <1>2, <2>1, <2>2, <2>3
<1>. QED
  BY <1>5, <1>6, <1>7, QuietSteps DEF Quiet

\* is_destroying is set.
Destroying(st) == [st EXCEPT !.is_destroying = TRUE]

\* The session is marked as being destroyed.
LEMMA DestroyingFrame ==
    ASSUME NEW st, W(st), NEW u, u = Destroying(st)
    PROVE  /\ W(u) /\ Excess(u) = Excess(st) /\ u.is_destroying
           /\ u.heap = st.heap /\ u.pending = st.pending
           /\ u.client_tsx = st.client_tsx /\ u.muted = st.muted
           /\ T(st) => T(u)
<1>1. st \in SType
  BY DEF W
<1>2. u \in SType
  BY ZenonT(120), SMTT(30), <1>1 DEF SType, Destroying
<1>3. /\ u.is_destroying = TRUE /\ u.ref = st.ref /\ u.heap = st.heap
      /\ u.created = st.created /\ u.pending = st.pending
      /\ u.client_tsx = st.client_tsx /\ u.complete = st.complete
      /\ u.muted = st.muted /\ u.token = st.token /\ u.told = st.told
      /\ u.accepted = st.accepted /\ u.require_retransmit = st.require_retransmit
  BY <1>1 DEF SType, Destroying
<1>4. W(u) /\ Excess(u) = Excess(st)
  BY <1>2, <1>3 DEF W, Excess
<1>5. Open(u) = Open(st)
  BY <1>3 DEF Open
<1>6. T(st) => T(u)
  BY SMTT(30), Z3T(30), <1>3, <1>5 DEF T
<1>. QED
  BY <1>3, <1>4, <1>6

----------------------------------------------------------------------------
(* The inductive invariant.                                                 *)

\* A callback in progress works on a request that has a transaction; the one
\* that frees it, on a muted one.
ThrInv ==
    \A th \in Threads : ~At(th, "idle") =>
        /\ thr[th].req \in s.client_tsx
        /\ thr[th].timer = "destroy" => thr[th].req \in s.muted
        /\ thr[th].pc = "erase" => thr[th].timer = "destroy"

RInv ==
    /\ conf \in Configs
    /\ W(s) /\ thr \in [Threads -> ThrType] /\ ThrInv
    /\ Excess(s) = One(~s.is_destroying) + Cardinality(Holders)

IInv ==
    /\ RInv
    /\ NoCancelledRetry => T(s)
    /\ NoSilentEnd => N(s)

\* The configuration is constant, and so is what depends on it alone.
LEMMA SameConf ==
    ASSUME conf' = conf
    PROVE  /\ NoCancelledRetry' <=> NoCancelledRetry
           /\ NoSilentEnd' <=> NoSilentEnd
           /\ T(s') => T(s)'
  BY DEF NoCancelledRetry, NoSilentEnd, LongTerm, Env, T, Open

\* Finitely many threads are in a callback.
LEMMA HoldersFinite ==
    ASSUME IInv
    PROVE  Counting /\ IsFiniteSet(Holders) /\ Cardinality(Holders) \in Nat
<1>1. Holders \subseteq Threads
  BY DEF Holders
<1>2. Counting
  BY DEF IInv, RInv, W
<1>3. IsFiniteSet(Holders)
  BY <1>1, <1>2, StunAssumption DEF Counting
<1>. QED
  BY <1>2, <1>3 DEF Counting

\* A step of the user.
LEMMA UserInv ==
    ASSUME IInv, Steps(s, s', 0), UNCHANGED <<conf, thr>>
    PROVE  IInv'
<1>1. Holders' = Holders
  BY DEF Holders, At
<1>2. Excess(s') = Excess(s)
  BY ExcessType DEF Steps, IInv, RInv
<1>3. ThrInv'
  BY DEF IInv, RInv, ThrInv, At, Steps
<1>4. RInv'
  BY <1>1, <1>2, <1>3 DEF IInv, RInv, Steps
<1>. QED
  BY <1>4, SameConf DEF IInv, Steps

\* A thread goes from one step of a callback to the next.
LEMMA CallbackInv ==
    ASSUME IInv, Steps(s, s', 0), NEW th \in Threads, ~At(th, "idle"),
           NEW x, thr' = [thr EXCEPT ![th] = x], conf' = conf,
           x \in [pc : {"fired", "erase"}, req : Reqs, timer : Timers],
           x.req = thr[th].req, x.timer = thr[th].timer,
           x.pc = "erase" => x.timer = "destroy"
    PROVE  IInv'
<1>0. /\ thr \in [Threads -> ThrType] /\ x \in ThrType
      /\ x.pc # "idle"
  BY DEF IInv, RInv, ThrType
<1>1. Holders' = Holders
  BY <1>0 DEF Holders, At
<1>2. Excess(s') = Excess(s)
  BY SMTT(30), Z3T(30), ExcessType DEF Steps, IInv, RInv
<1>3. ThrInv'
  BY <1>0 DEF IInv, RInv, ThrInv, At, Steps
<1>4. thr' \in [Threads -> ThrType]
  BY <1>0
<1>5. RInv'
  BY <1>1, <1>2, <1>3, <1>4 DEF IInv, RInv, Steps
<1>. QED
  BY <1>5, SameConf DEF IInv, Steps

\* A thread starts a callback, with the reference of the timer.
LEMMA FiredInv ==
    ASSUME IInv, Steps(s, s', 1), NEW th \in Threads, At(th, "idle"),
           NEW r \in Reqs, NEW e \in Timers,
           thr' = [thr EXCEPT ![th] = [pc |-> "fired", req |-> r, timer |-> e]], conf' = conf,
           r \in s.client_tsx, e = "destroy" => r \in s.muted
    PROVE  IInv'
<1>. DEFINE x == [pc |-> "fired", req |-> r, timer |-> e]
<1>0. /\ thr \in [Threads -> ThrType] /\ x \in ThrType
      /\ x.pc = "fired" /\ x.req = r /\ x.timer = e
      /\ thr' = [thr EXCEPT ![th] = x]
  BY DEF IInv, RInv, ThrType
<1>. HIDE DEF x
<1>1. Holders' = Holders \cup {th} /\ th \notin Holders
  BY ZenonT(120), SMTT(30), <1>0 DEF Holders, At
<1>2. Cardinality(Holders') = Cardinality(Holders) + 1
  BY <1>1, HoldersFinite DEF Counting
<1>3. Excess(s') = One(~s'.is_destroying) + Cardinality(Holders')
  <2>1. One(~s.is_destroying) \in Int
    BY DEF One
  <2>2. Excess(s') = Excess(s) + 1 /\ s'.is_destroying = s.is_destroying
    BY DEF Steps
  <2>3. Excess(s) = One(~s.is_destroying) + Cardinality(Holders) /\ Cardinality(Holders) \in Nat
    <3>1. Cardinality(Holders) \in Nat
      BY HoldersFinite
    <3>. QED
      BY <3>1 DEF IInv, RInv
  <2>. QED
    BY <1>2, <2>1, <2>2, <2>3
<1>4. ThrInv'
  BY ZenonT(120), SMTT(30), <1>0 DEF IInv, RInv, ThrInv, At, Steps
<1>5. thr' \in [Threads -> ThrType]
  BY <1>0
<1>6. RInv'
  BY <1>3, <1>4, <1>5 DEF IInv, RInv, Steps
<1>. QED
  BY <1>6, SameConf DEF IInv, Steps

\* A thread ends a callback and gives back its reference.
LEMMA DoneInv ==
    ASSUME IInv, NEW v, Steps(s, v, 0), NEW th \in Threads, ~At(th, "idle"),
           s' = pj_grp_lock_dec_ref(v), thr' = [thr EXCEPT ![th] = Idle], conf' = conf
    PROVE  IInv'
<1>0. /\ thr \in [Threads -> ThrType] /\ Idle \in ThrType /\ Idle.pc = "idle"
      /\ W(s) /\ W(v)
  BY DEF IInv, RInv, ThrType, Idle, Steps
<1>1. Holders' = Holders \ {th} /\ th \in Holders
  BY <1>0 DEF Holders, At
<1>2. Cardinality(Holders') = Cardinality(Holders) - 1
  BY <1>1, HoldersFinite DEF Counting
<1>3. Excess(v) = One(~v.is_destroying) + Cardinality(Holders)
  BY <1>0, ExcessType DEF Steps, IInv, RInv
<1>4. Cardinality(Holders) >= 1
  <2>1. Cardinality(Holders) # 0
    BY <1>1, HoldersFinite DEF Counting
  <2>. QED
    BY <2>1, HoldersFinite
<1>5. v.ref = 1 => v.is_destroying
  <2>1. /\ v.ref = Excess(v) + Cardinality(v.heap)
        /\ Cardinality(v.heap) \in Nat
    BY <1>0, ExcessType DEF Excess
  <2>2. ~v.is_destroying => One(~v.is_destroying) = 1
    BY DEF One
  <2>. QED
    BY <1>3, <1>4, <2>1, <2>2, HoldersFinite
<1>6. Steps(v, s', -1)
  BY <1>0, <1>5, DecRefSteps
<1>7. Steps(s, s', -1)
  BY SMTT(30), Z3T(30), <1>0, <1>6, StepsTrans
<1>8. Excess(s') = One(~s'.is_destroying) + Cardinality(Holders')
  <2>1. One(~s.is_destroying) \in Int
    BY DEF One
  <2>2. Excess(s') = Excess(s) + -1 /\ s'.is_destroying = s.is_destroying
    BY <1>7 DEF Steps
  <2>3. Excess(s) = One(~s.is_destroying) + Cardinality(Holders)
    BY DEF IInv, RInv
  <2>4. Cardinality(Holders) \in Nat
    BY HoldersFinite
  <2>. QED
    BY <1>2, <2>1, <2>2, <2>3, <2>4
<1>9. ThrInv'
  BY <1>0, <1>7 DEF IInv, RInv, ThrInv, At, Steps
<1>10. thr' \in [Threads -> ThrType]
  BY <1>0
<1>11. RInv'
  BY <1>7, <1>8, <1>9, <1>10 DEF IInv, RInv, Steps
<1>. QED
  BY <1>7, <1>11, SameConf DEF IInv, Steps

\* A step starts with nothing handed to the transport.
LEMMA FreshSteps ==
    ASSUME NEW st, W(st), NEW f, f = Fresh(st)
    PROVE  /\ W(f) /\ Steps(st, f, 0) /\ f = [st EXCEPT !.out = {}]
           /\ f.is_destroying = st.is_destroying /\ f.created = st.created
           /\ f.client_tsx = st.client_tsx /\ f.complete = st.complete
           /\ f.muted = st.muted /\ f.pending = st.pending /\ f.heap = st.heap
           /\ f.accepted = st.accepted /\ f.told = st.told /\ f.manual = st.manual
           /\ f.auth_retry = st.auth_retry /\ f.next_nonce = st.next_nonce
<1>1. Steps(st, f, 0)
  BY FreshQuiet, QuietSteps
<1>2. f = [st EXCEPT !.out = {}] /\ st \in SType
  BY DEF Fresh, W
<1>. QED
  BY ZenonT(120), SMTT(30), <1>1, <1>2 DEF SType, Steps

\* What every call of the user does to the record of the session.
LEMMA UserSteps ==
    ASSUME IInv, NEW r \in Reqs, UserStep(r)
    PROVE  Steps(s, s', 0) /\ UNCHANGED <<conf, thr>>
<1>. DEFINE f == Fresh(s)
<1>1. W(s)
  BY DEF IInv, RInv
<1>2. /\ W(f) /\ Steps(s, f, 0)
      /\ f.is_destroying = s.is_destroying /\ f.created = s.created
      /\ f.client_tsx = s.client_tsx /\ f.complete = s.complete
      /\ f.muted = s.muted /\ f.pending = s.pending
      /\ f.accepted = s.accepted /\ f.told = s.told /\ f.manual = s.manual
      /\ f.auth_retry = s.auth_retry /\ f.next_nonce = s.next_nonce
  BY SMTT(30), Z3T(30), <1>1, FreshSteps
<1>. HIDE DEF f
<1>3. \A v : Steps(f, v, 0) => Steps(s, v, 0)
  BY <1>1, <1>2, StepsTrans
<1>4. s.accepted \subseteq s.client_tsx /\ s.pending \subseteq s.client_tsx
  BY <1>1 DEF W
<1>5. CASE pj_stun_session_create_req(r)
  <2>1. s' = Create(f, r) /\ UNCHANGED <<conf, thr>>
    BY <1>5 DEF pj_stun_session_create_req, Create, f
  <2>. QED
    BY <1>2, <1>3, <2>1, CreateSteps
<1>6. CASE pj_stun_msg_destroy_tdata(r)
  <2>1. s' = Unforced(f, r) /\ r \notin f.client_tsx /\ UNCHANGED <<conf, thr>>
    BY <1>2, <1>6 DEF pj_stun_msg_destroy_tdata, Unforced, Unsent, f
  <2>. QED
    BY <1>2, <1>3, <2>1, UnsentSteps
<1>7. CASE \E retransmit \in conf.retransmits, o \in Sends :
               pj_stun_session_send_msg(r, retransmit, o)
  <2>1. PICK retransmit \in conf.retransmits, o \in Sends :
            pj_stun_session_send_msg(r, retransmit, o)
    BY <1>7
  <2>2. retransmit \in BOOLEAN /\ o \in Outcomes
    BY StunAssumption, SendsOutcomes DEF IInv, RInv, ConfigType
  <2>3. /\ s' = Accept(SendMsg(f, r, r, retransmit, o), r) /\ UNCHANGED <<conf, thr>>
        /\ r \in f.created /\ r \notin f.client_tsx /\ ~f.is_destroying
    BY <1>2, <2>1 DEF pj_stun_session_send_msg, Unsent, UserCalls, f
  <2>4. Steps(f, s', 0)
    BY <1>2, <2>2, <2>3, SendSteps
  <2>. QED
    BY <1>3, <2>3, <2>4
<1>8. CASE \E notify \in BOOLEAN : pj_stun_session_cancel_req(r, notify)
  <2>1. PICK notify \in BOOLEAN : pj_stun_session_cancel_req(r, notify)
    BY <1>8
  <2>. DEFINE v == IF notify THEN on_request_complete(f, r) ELSE f
              w == Cancel(v, r)
  <2>2. /\ s' = Unforced(w, r) /\ UNCHANGED <<conf, thr>> /\ "cancel" \in Env
        /\ r \in f.accepted /\ f.told[r] = 0
    BY <1>2, <2>1 DEF pj_stun_session_cancel_req, Holds, Unforced, Cancel, f
  <2>3. v = f \/ v = on_request_complete(f, r)
    OBVIOUS
  <2>. HIDE DEF v
  <2>4. Steps(f, s', 0)
    BY <1>2, <2>2, <2>3, CancelSteps
  <2>. QED
    BY <1>3, <2>2, <2>4
<1>9. CASE \E mod_count \in BOOLEAN, o \in Sends :
               pj_stun_session_retransmit_req(r, mod_count, o)
  <2>1. PICK mod_count \in BOOLEAN, o \in Sends :
            pj_stun_session_retransmit_req(r, mod_count, o)
    BY <1>9
  <2>2. o \in Outcomes
    BY SendsOutcomes
  <2>. DEFINE n == f.manual + 1
              g == [f EXCEPT !.manual = n]
  <2>3. n \in Nat
    BY SMTT(30), Z3T(30), <1>2 DEF W, SType
  <2>4. /\ s' = pj_stun_client_tsx_retransmit(g, r, mod_count, o) /\ UNCHANGED <<conf, thr>>
        /\ r \in s.client_tsx
    BY <1>2, <1>4, <2>1 DEF pj_stun_session_retransmit_req, Holds, f
  <2>. HIDE DEF n
  <2>5. Steps(f, g, 0)
    BY <1>2, <2>3, ManualSteps
  <2>. HIDE DEF g
  <2>6. W(g) /\ r \in g.client_tsx
    BY <1>2, <2>4, <2>5 DEF Steps
  <2>7. Steps(g, s', 0)
    BY <2>2, <2>4, <2>6, RetransmitSteps
  <2>. QED
    BY SMTT(30), Z3T(30), <1>2, <1>3, <2>4, <2>5, <2>7, StepsTrans
<1>10. CASE \E resp \in Responses, q \in Reqs \cup {NoReq}, o \in Sends :
                on_incoming_response(r, resp, q, o)
  <2>1. PICK resp \in Responses, q \in Reqs \cup {NoReq}, o \in Sends :
            on_incoming_response(r, resp, q, o)
    BY <1>10
  <2>2. /\ s' = pj_stun_client_tsx_on_rx_msg(f, r, resp, q, o) /\ UNCHANGED <<conf, thr>>
        /\ r \in f.client_tsx
    BY <1>2, <1>4, <2>1 DEF on_incoming_response, f
  <2>3. Retried(f, resp) <=> Retried(s, resp)
    BY <1>2 DEF Retried
  <2>0. conf.reqs \subseteq Reqs
    BY StunAssumption DEF IInv, RInv, ConfigType
  <2>4. r \notin f.complete \cup f.muted /\ ~f.is_destroying => GoodRetry(f, r, resp, q)
    BY <1>2, <2>0, <2>1, <2>3 DEF on_incoming_response, GoodRetry
  <2>5. Steps(f, s', 0)
    BY <1>2, <2>2, <2>4, ResponseSteps
  <2>. QED
    BY <1>3, <2>2, <2>5
<1>. QED
  BY <1>5, <1>6, <1>7, <1>8, <1>9, <1>10 DEF UserStep

\* pj_stun_session_destroy() stops all timers and drops the reference of the session.
LEMMA DestroyInv ==
    ASSUME IInv, pj_stun_session_destroy
    PROVE  IInv'
<1>. DEFINE f == Fresh(s)
            d == Destroying(f)
            x == d.heap \cap (d.pending \X Timers)
            v == StopAll(d, x)
<1>1. W(s) /\ ~s.is_destroying /\ Excess(s) \in Int
  BY ExcessType DEF IInv, RInv, pj_stun_session_destroy, UserCalls
<1>2. W(f) /\ Steps(s, f, 0) /\ f.heap = s.heap /\ f.pending = s.pending
  BY SMTT(30), Z3T(30), <1>1, FreshSteps
<1>3. /\ W(d) /\ Excess(d) = Excess(f) /\ d.is_destroying
      /\ d.heap = f.heap /\ d.pending = f.pending
      /\ d.client_tsx = f.client_tsx /\ d.muted = f.muted
      /\ T(f) => T(d)
  BY <1>2, DestroyingFrame
<1>4. s' = pj_grp_lock_dec_ref(v) /\ UNCHANGED <<conf, thr>>
  BY <1>2, <1>3 DEF pj_stun_session_destroy, Destroying
<1>. HIDE DEF f, d
<1>5. Steps(d, v, 0)
  BY <1>3, StopAllSteps
<1>. HIDE DEF x, v
<1>6. W(v) /\ v.is_destroying
  BY <1>3, <1>5 DEF Steps
<1>7. Steps(v, s', -1)
  BY <1>4, <1>6, DecRefSteps
<1>8. Steps(d, s', -1)
  BY SMTT(30), Z3T(30), <1>3, <1>5, <1>7, StepsTrans
<1>9. /\ W(s') /\ s'.is_destroying /\ Excess(s') = Excess(s) - 1
      /\ s.client_tsx \subseteq s'.client_tsx /\ s.muted \subseteq s'.muted
  BY <1>1, <1>2, <1>3, <1>8 DEF Steps
<1>10. Holders' = Holders /\ Cardinality(Holders) \in Nat
  BY <1>4, HoldersFinite DEF Holders, At
<1>11. Excess(s') = One(~s'.is_destroying) + Cardinality(Holders')
  <2>1. One(~s.is_destroying) = 1 /\ One(~s'.is_destroying) = 0
    BY <1>1, <1>9 DEF One
  <2>. QED
    BY <1>9, <1>10, <2>1 DEF IInv, RInv
<1>12. ThrInv'
  BY <1>4, <1>9 DEF IInv, RInv, ThrInv, At
<1>13. RInv'
  BY <1>4, <1>9, <1>11, <1>12 DEF IInv, RInv
<1>14. NoCancelledRetry => T(s')
  BY <1>2, <1>3, <1>8 DEF IInv, Steps
<1>15. N(s')
  BY <1>9 DEF N
<1>. QED
  BY <1>4, <1>13, <1>14, <1>15, SameConf DEF IInv

\* pj_timer_heap_poll() takes an expired timer and a reference.
LEMMA PollInv ==
    ASSUME IInv, NEW th \in Threads, NEW r \in Reqs, NEW e \in Timers,
           pj_timer_heap_poll(th, r, e)
    PROVE  IInv'
<1>. DEFINE f == Fresh(s)
            h == f.heap \ {<<r, e>>}
<1>1. W(s)
  BY DEF IInv, RInv
<1>2. W(f) /\ Steps(s, f, 0) /\ f.heap = s.heap
  BY <1>1, FreshSteps
<1>3. /\ <<r, e>> \in f.heap /\ s' = [f EXCEPT !.heap = h] /\ At(th, "idle")
      /\ thr' = [thr EXCEPT ![th] = [pc |-> "fired", req |-> r, timer |-> e]] /\ conf' = conf
  BY <1>2 DEF pj_timer_heap_poll, Goto
<1>. HIDE DEF f
<1>4. Steps(f, s', 1)
  BY <1>2, <1>3, PollSteps
<1>5. Steps(s, s', 1)
  BY SMTT(30), Z3T(30), <1>1, <1>2, <1>4, StepsTrans
<1>6. r \in s.client_tsx /\ (e = "destroy" => r \in s.muted)
  BY <1>1, <1>2, <1>3 DEF W
<1>. QED
  BY <1>3, <1>5, <1>6, FiredInv

\* A callback goes on, and drops its reference at the end.
LEMMA ProceedInv ==
    ASSUME IInv, NEW th \in Threads, Proceed(th)
    PROVE  IInv'
<1>. DEFINE f == Fresh(s)
            r == thr[th].req
<1>1. W(s) /\ thr \in [Threads -> ThrType]
  BY DEF IInv, RInv
<1>2. W(f) /\ Steps(s, f, 0) /\ f.client_tsx = s.client_tsx /\ f.muted = s.muted
  BY SMTT(30), Z3T(30), <1>1, FreshSteps
<1>3. ~At(th, "idle")
  BY DEF Proceed, At, retransmit_timer_callback, destroy_timer_callback, stun_tsx_on_destroy
<1>4. thr[th] \in [pc : {"fired", "erase"}, req : Reqs, timer : Timers]
  BY SMTT(30), Z3T(30), <1>1, <1>3 DEF ThrType, At, Idle
<1>5. /\ r \in Reqs /\ r \in f.client_tsx
      /\ thr[th].timer = "destroy" => r \in f.muted
      /\ thr[th].pc = "erase" => thr[th].timer = "destroy"
  BY <1>2, <1>3, <1>4 DEF IInv, RInv, ThrInv
<1>6. CASE \E o \in Sends : retransmit_timer_callback(th, o)
  <2>1. PICK o \in Sends : retransmit_timer_callback(th, o)
    BY <1>6
  <2>. DEFINE v == RetransmitOrTimeout(f, r, o)
  <2>2. s' = pj_grp_lock_dec_ref(v) /\ thr' = [thr EXCEPT ![th] = Idle] /\ conf' = conf
    BY <2>1 DEF retransmit_timer_callback, Goto
  <2>. HIDE DEF f, r
  <2>3. Steps(f, v, 0)
    BY <1>2, <1>5, TimeoutSteps
  <2>. HIDE DEF v
  <2>4. Steps(s, v, 0)
    BY <1>1, <1>2, <2>3, StepsTrans
  <2>. QED
    BY <1>3, <2>2, <2>4, DoneInv
<1>7. CASE destroy_timer_callback(th)
  <2>. DEFINE c == ClearId(f, r, "destroy")
              x == [thr[th] EXCEPT !.pc = "erase"]
  <2>1. /\ s' = pj_stun_client_tsx_stop(c, r) /\ thr' = [thr EXCEPT ![th] = x] /\ conf' = conf
        /\ thr[th].timer = "destroy"
    BY <1>7 DEF destroy_timer_callback, Goto
  <2>2. /\ x \in [pc : {"fired", "erase"}, req : Reqs, timer : Timers]
        /\ x.req = thr[th].req /\ x.timer = thr[th].timer
    BY <1>4
  <2>. HIDE DEF f, r, x
  <2>3. "destroy" \in Timers
    BY DEF Timers
  <2>4. Quiet(f, c)
    BY <1>2, <1>5, <2>3, ClearQuiet DEF ClearId
  <2>. HIDE DEF c
  <2>5. W(c)
    BY <2>4 DEF Quiet
  <2>6. Quiet(c, s')
    BY <1>5, <2>1, <2>5, StopFrame DEF Quiet
  <2>7. Steps(f, c, 0) /\ Steps(c, s', 0)
    BY <1>2, <2>4, <2>5, <2>6, QuietSteps
  <2>8. Steps(s, s', 0)
    BY <1>1, <1>2, <2>7, StepsTrans
  <2>. QED
    BY <1>3, <2>1, <2>2, <2>8, CallbackInv
<1>8. CASE stun_tsx_on_destroy(th)
  <2>. DEFINE p == f.pending \ {r}
              v == Free(f, r, p)
  <2>1. /\ s' = pj_grp_lock_dec_ref(v) /\ thr' = [thr EXCEPT ![th] = Idle] /\ conf' = conf
        /\ r \in f.muted
    BY <1>5, <1>8 DEF stun_tsx_on_destroy, Goto, At, Free
  <2>. HIDE DEF f, r
  <2>2. Steps(f, v, 0)
    BY <1>2, <1>5, <2>1, FreeMutedSteps
  <2>. HIDE DEF v
  <2>3. Steps(s, v, 0)
    BY <1>1, <1>2, <2>2, StepsTrans
  <2>. QED
    BY <1>3, <2>1, <2>3, DoneInv
<1>. QED
  BY <1>6, <1>7, <1>8 DEF Proceed

\* A created session.
LEMMA InitIInv == ASSUME Counting, Init PROVE IInv
<1>1. s \in SType
  <2>1. s = pj_stun_session_create
    BY DEF Init
  <2>. DEFINE zero == [r \in Reqs |-> 0]
              self == [r \in Reqs |-> r]
              create == [ref |-> 1, is_destroying |-> FALSE, gone |-> FALSE, auth_retry |-> 0,
                         next_nonce |-> NoNonce, created |-> {}, freed |-> {}, pending |-> {},
                         client_tsx |-> {}, complete |-> {}, muted |-> {},
                         require_retransmit |-> {}, transmit_count |-> zero, token |-> self,
                         heap |-> {}, id |-> {}, accepted |-> {}, cancelled |-> {},
                         told |-> zero, manual |-> 0, out |-> {}]
  <2>2. NoNonce \in Nonces \cup {NoNonce} /\ zero \in [Reqs -> Nat] /\ self \in [Reqs -> Reqs]
    OBVIOUS
  <2>3. s = create
    BY <2>1 DEF pj_stun_session_create
  <2>. HIDE DEF zero, self
  <2>4. create \in SType
    <3>1. 1 \in Int /\ 0 \in Nat
      OBVIOUS
    <3>. QED
      BY <2>2, <3>1 DEF SType
  <2>. QED
    BY <2>3, <2>4
<1>2. /\ s.heap = {} /\ s.client_tsx = {} /\ s.accepted = {} /\ s.complete = {}
      /\ s.muted = {} /\ s.pending = {} /\ s.require_retransmit = {} /\ s.created = {}
      /\ s.ref = 1 /\ ~s.is_destroying /\ s.told = [r \in Reqs |-> 0]
  BY DEF Init, pj_stun_session_create
<1>3. W(s)
  BY <1>1, <1>2 DEF W
<1>4. Open(s) = {} /\ Awaited(s) = {}
  BY <1>2 DEF Open, Awaited
<1>5. T(s) /\ N(s)
  BY <1>2, <1>4 DEF T, N
<1>6. /\ thr \in [Threads -> ThrType] /\ ThrInv /\ Holders = {}
  BY DEF Init, Idle, ThrType, ThrInv, At, Holders
<1>7. Excess(s) = One(~s.is_destroying) + Cardinality(Holders)
  <2>1. Cardinality({}) = 0
    <3>1. {} \subseteq Threads /\ IsFiniteSet(Threads)
      BY StunAssumption
    <3>2. IsFiniteSet({})
      BY <3>1 DEF Counting
    <3>. QED
      BY <3>2 DEF Counting
  <2>2. One(~s.is_destroying) = 1
    BY <1>2 DEF One
  <2>. QED
    BY SMTT(30), Z3T(30), <1>2, <1>6, <2>1, <2>2 DEF Excess
<1>. QED
  BY <1>3, <1>5, <1>6, <1>7 DEF IInv, RInv, Init

\* Every step keeps the invariant.
LEMMA NextIInv == IInv /\ [Next]_vars => IInv'
<1>. SUFFICES ASSUME IInv, [Next]_vars PROVE IInv'
  OBVIOUS
<1>1. CASE \E r \in Reqs : UserStep(r)
  BY <1>1, UserSteps, UserInv
<1>2. CASE pj_stun_session_destroy
  BY <1>2, DestroyInv
<1>3. CASE \E th \in Threads, r \in Reqs, e \in Timers : pj_timer_heap_poll(th, r, e)
  BY <1>3, PollInv
<1>4. CASE \E th \in Threads : Proceed(th)
  BY <1>4, ProceedInv
<1>5. CASE UNCHANGED vars
  <2>1. s' = s /\ thr' = thr /\ conf' = conf
    BY <1>5 DEF vars
  <2>2. Holders' = Holders /\ ThrInv'
    BY <2>1 DEF Holders, At, ThrInv, IInv, RInv
  <2>. QED
    BY <2>1, <2>2, SameConf DEF IInv, RInv
<1>. QED
  BY <1>1, <1>2, <1>3, <1>4, <1>5 DEF Next, Finished

\* The invariant has what it is for.
LEMMA IInvConsequences ==
    IInv => TypeOK /\ RefCounted /\ ToldOnce /\ NotForgotten
<1>. SUFFICES ASSUME IInv
              PROVE  TypeOK /\ RefCounted /\ ToldOnce /\ NotForgotten
  OBVIOUS
<1>1. W(s) /\ s \in SType
  BY DEF IInv, RInv, W
<1>2. TypeOK
  BY <1>1 DEF IInv, RInv, TypeOK
<1>3. RefCounted
  <2>1. s.ref = Excess(s) + Cardinality(s.heap) /\ Cardinality(s.heap) \in Nat
    BY <1>1, ExcessType DEF Excess
  <2>2. One(~s.is_destroying) \in Nat
    BY DEF One
  <2>3. Cardinality(Holders) \in Nat
    BY HoldersFinite
  <2>4. Excess(s) = One(~s.is_destroying) + Cardinality(Holders)
    BY DEF IInv, RInv
  <2>. QED
    BY <2>1, <2>2, <2>3, <2>4 DEF RefCounted
<1>4. ToldOnce
  BY SMTT(30), Z3T(30) DEF IInv, T, ToldOnce
<1>5. NotForgotten
  <2>1. s.pending \subseteq s.client_tsx
    BY <1>1 DEF W
  <2>2. \A r \in Reqs : Holds(r) => r \in Awaited(s)
    BY DEF Holds, Awaited
  <2>3. s.pending \cap Open(s) = s.pending \ (s.complete \cup s.muted)
    BY <2>1 DEF Open
  <2>. QED
    BY <2>2, <2>3 DEF IInv, N, NotForgotten
<1>. QED
  BY <1>2, <1>3, <1>4, <1>5

----------------------------------------------------------------------------
(* The memory of a request.  L says that what has been freed is in use no   *)
(* more.  An operator on the requests in Q frees nothing, and arms timers   *)
(* and queues requests of Q alone.                                          *)

L(st) ==
    /\ st.freed \subseteq st.created
    /\ \A x \in st.pending : x \notin st.freed
    /\ \A x \in Reqs, e \in Timers : <<x, e>> \in st.heap => x \notin st.freed

Covers(st, u, Q) ==
    /\ st.created \subseteq u.created /\ u.freed = st.freed
    /\ \A x \in Reqs : x \in u.pending => x \in st.pending \cup Q
    /\ \A x \in Reqs, e \in Timers : <<x, e>> \in u.heap => <<x, e>> \in st.heap \/ x \in Q

\* Covers composes.
LEMMA CoversTrans ==
    ASSUME NEW st, NEW u, NEW v, NEW Q, Covers(st, u, Q), Covers(u, v, Q)
    PROVE  Covers(st, v, Q)
  BY DEF Covers

\* What frees nothing, and schedules only for requests that live, keeps memory alive.
LEMMA CoversLive ==
    ASSUME NEW st, NEW u, W(u), NEW Q, Covers(st, u, Q), L(st),
           \A x \in Q : x \notin st.freed
    PROVE  L(u)
<1>1. u.pending \subseteq Reqs
  BY DEF W, SType
<1>. QED
  BY <1>1 DEF Covers, L

\* So does what schedules nothing.
LEMMA NoneCovers ==
    ASSUME NEW st, NEW u, W(u), Covers(st, u, {}), L(st)
    PROVE  L(u) /\ u.freed = st.freed
<1>1. u.pending \subseteq Reqs
  BY DEF W, SType
<1>. QED
  BY <1>1 DEF Covers, L

\* pj_timer_heap_cancel_if_active().
LEMMA CancelCovers ==
    ASSUME NEW st, W(st), NEW r \in Reqs, NEW e \in Timers, NEW Q,
           NEW u, u = pj_timer_heap_cancel_if_active(st, r, e)
    PROVE  Covers(st, u, Q)
<1>1. Frame(st, u) /\ u.heap = st.heap \ {<<r, e>>}
  BY SMTT(30), Z3T(30), CancelFrame
<1>. QED
  BY <1>1 DEF Frame, FrameTsx, Covers

\* The assignments that no timer, queue or pool depends on.
LEMMA IdCovers ==
    ASSUME NEW st, W(st), NEW x, NEW Q, NEW u, u = [st EXCEPT !.id = x]
    PROVE  Covers(st, u, Q)
<1>1. st \in SType
  BY DEF W
<1>2. /\ u.created = st.created /\ u.freed = st.freed
      /\ u.pending = st.pending /\ u.heap = st.heap
  BY <1>1 DEF SType
<1>. QED
  BY <1>2 DEF Covers

\* What is handed to the transport.
LEMMA OutCovers ==
    ASSUME NEW st, W(st), NEW x, NEW Q, NEW u, u = [st EXCEPT !.out = x]
    PROVE  Covers(st, u, Q)
<1>1. st \in SType
  BY DEF W
<1>2. /\ u.created = st.created /\ u.freed = st.freed
      /\ u.pending = st.pending /\ u.heap = st.heap
  BY <1>1 DEF SType
<1>. QED
  BY <1>2 DEF Covers

\* A transmission counts and schedules the next one.
LEMMA CountedCovers ==
    ASSUME NEW st, W(st), NEW r \in Reqs, NEW Q, r \in Q, NEW u, u = Counted(st, r)
    PROVE  Covers(st, u, Q)
<1>1. st \in SType
  BY DEF W
<1>2. /\ u.created = st.created /\ u.freed = st.freed
      /\ u.pending = st.pending /\ u.heap \subseteq st.heap \cup {<<r, "retransmit">>}
  BY <1>1 DEF SType, Counted, pj_timer_heap_schedule_w_grp_lock
<1>. QED
  BY <1>2 DEF Covers

\* pj_stun_client_tsx_send_msg() schedules the first timer.
LEMMA StartedCovers ==
    ASSUME NEW st, W(st), NEW r \in Reqs, NEW retransmit \in BOOLEAN, NEW Q, r \in Q,
           NEW u, u = Started(st, r, retransmit)
    PROVE  Covers(st, u, Q)
<1>1. st \in SType
  BY DEF W
<1>2. /\ u.created = st.created /\ u.freed = st.freed
      /\ u.pending = st.pending /\ u.heap \subseteq st.heap \cup {<<r, "retransmit">>}
  BY <1>1 DEF SType, Started, pj_timer_heap_schedule_w_grp_lock
<1>. QED
  BY <1>2 DEF Covers

\* destroy_tdata() of a request that has a transaction.
LEMMA UnforcedCovers ==
    ASSUME NEW st, W(st), NEW r \in Reqs, r \in st.client_tsx, NEW Q, r \in Q,
           NEW u, u = Unforced(st, r)
    PROVE  Covers(st, u, Q)
<1>. DEFINE v == pj_stun_client_tsx_stop(st, r)
<1>1. /\ W(v) /\ Frame(st, v) /\ v.heap = st.heap \ {<<r, "retransmit">>, <<r, "destroy">>}
  BY StopFrame
<1>2. u = [pj_timer_heap_schedule_w_grp_lock(v, r, "destroy") EXCEPT !.muted = @ \cup {r}]
  BY DEF Unforced, destroy_tdata, pj_stun_client_tsx_schedule_destroy
<1>. HIDE DEF v
<1>3. v \in SType
  BY <1>1 DEF W
<1>4. /\ u.created = v.created /\ u.freed = v.freed
      /\ u.pending = v.pending /\ u.heap = v.heap \cup {<<r, "destroy">>}
  BY <1>2, <1>3 DEF SType, pj_timer_heap_schedule_w_grp_lock
<1>. QED
  BY <1>1, <1>4 DEF Frame, FrameTsx, Covers

\* The end of tsx_transmit_msg().
LEMMA TransmittedCovers ==
    ASSUME NEW res, W(res.s), NEW r \in Reqs, NEW mod_count \in BOOLEAN, NEW Q,
           NEW v, v = Transmitted(res, r, mod_count)
    PROVE  Covers(res.s, v.s, Q)
<1>1. v.s = res.s \/ v.s = pj_timer_heap_cancel_if_active(res.s, r, "retransmit")
  BY DEF Transmitted, Result
<1>2. Covers(res.s, res.s, Q) /\ "retransmit" \in Timers
  BY DEF Covers, Timers
<1>. QED
  BY <1>1, <1>2, CancelCovers

\* tsx_transmit_msg().
LEMMA TransmitCovers ==
    ASSUME NEW st, W(st), NEW r \in Reqs, r \in st.client_tsx, NEW mod_count \in BOOLEAN,
           NEW o \in Outcomes, NEW Q, r \in Q, NEW res, res = tsx_transmit_msg(st, r, mod_count, o)
    PROVE  Covers(st, res.s, Q)
<1>0. Covers(st, st, Q) /\ Quiet(st, st)
  BY DEF Covers, Quiet, Frame, FrameTsx
<1>1. CASE mod_count /\ r \in st.require_retransmit /\ <<r, "retransmit">> \in st.heap
  <2>1. res.s = [st EXCEPT !.id = st.id \ {<<r, "retransmit">>}]
    BY <1>1 DEF tsx_transmit_msg, Result
  <2>. QED
    BY <2>1, IdCovers
<1>2. CASE ~(mod_count /\ r \in st.require_retransmit /\ <<r, "retransmit">> \in st.heap)
  <2>. DEFINE c == IF mod_count THEN Counted(st, r) ELSE st
              sent == stun_tsx_on_send_msg(c, r, o)
  <2>1. Quiet(st, c) /\ Covers(st, c, Q)
    BY <1>0, <1>2, CountedQuiet, CountedCovers
  <2>2. res = Transmitted(sent, r, mod_count)
    BY <1>2 DEF tsx_transmit_msg
  <2>. HIDE DEF c
  <2>3. W(c) /\ Quiet(c, sent.s)
    BY SMTT(30), Z3T(30), <2>1, OnSendQuiet DEF Quiet
  <2>4. sent.s = c \/ sent.s = [c EXCEPT !.out = c.out \cup {r}]
    BY DEF stun_tsx_on_send_msg, Result
  <2>5. Covers(c, sent.s, Q)
    <3>1. CASE sent.s = c
      BY <3>1 DEF Covers
    <3>2. CASE sent.s = [c EXCEPT !.out = c.out \cup {r}]
      BY <2>3, <3>2, OutCovers
    <3>. QED
      BY <2>4, <3>1, <3>2
  <2>. HIDE DEF sent
  <2>6. Covers(sent.s, res.s, Q)
    BY <2>2, <2>3, TransmittedCovers DEF Quiet
  <2>. QED
    BY <2>1, <2>5, <2>6, CoversTrans
<1>. QED
  BY <1>1, <1>2

\* The end of the sending of a request.
LEMMA QueuedCovers ==
    ASSUME NEW res, W(res.s), NEW r \in Reqs, r \in res.s.client_tsx, NEW Q, r \in Q,
           NEW u, u = Queued(res, r)
    PROVE  Covers(res.s, u, Q)
<1>1. CASE res.status = "error"
  <2>1. u = Unforced(res.s, r)
    BY <1>1 DEF Queued, Unforced
  <2>. QED
    BY <2>1, UnforcedCovers
<1>2. CASE res.status # "error"
  <2>. DEFINE st == res.s
  <2>1. u = [st EXCEPT !.pending = st.pending \cup {r}] /\ st \in SType
    BY <1>2 DEF Queued, W
  <2>. HIDE DEF st
  <2>2. /\ u.created = st.created /\ u.freed = st.freed
        /\ u.pending = st.pending \cup {r} /\ u.heap = st.heap
    BY <2>1 DEF SType
  <2>. QED
    BY <2>2 DEF Covers, st
<1>. QED
  BY <1>1, <1>2

\* pj_stun_session_send_msg()
LEMMA SendMsgCovers ==
    ASSUME NEW st, W(st), NEW r \in Reqs, r \in st.created, r \notin st.client_tsx,
           NEW token \in Reqs, NEW retransmit \in BOOLEAN, NEW o \in Outcomes, NEW Q, r \in Q,
           NEW u, u = SendMsg(st, r, token, retransmit, o)
    PROVE  Covers(st, u, Q)
<1>. DEFINE b == Begin(st, r, token)
            a == Started(b, r, retransmit)
            t == tsx_transmit_msg(a, r, TRUE, o)
            res == Transmitted(t, r, TRUE)
<1>1. /\ W(b) /\ Begun(st, b, r, token)
      /\ b.pending = st.pending
      /\ b.require_retransmit = st.require_retransmit /\ b.heap = st.heap
  BY SMTT(30), Z3T(30), BeginFrame
<1>2. Covers(st, b, Q)
  <2>1. b.freed = st.freed
    BY DEF Begin, W, SType
  <2>. QED
    BY <1>1, <2>1 DEF Covers, Begun
<1>3. u = Queued(res, r)
  BY DEF SendMsg, pj_stun_client_tsx_send_msg, Begin
<1>. HIDE DEF b
<1>4. /\ r \in b.client_tsx /\ r \notin b.require_retransmit
      /\ <<r, "retransmit">> \notin b.heap
  BY <1>1 DEF W, Begun, Timers
<1>5. W(a) /\ SameBut(b, a) /\ Covers(b, a, Q)
  BY <1>1, <1>4, StartedFrame, StartedCovers
<1>6. r \in a.client_tsx
  BY <1>4, <1>5 DEF SameBut
<1>. HIDE DEF a
<1>7. Quiet(a, t.s) /\ t.status \in Outcomes
  BY <1>5, <1>6, TransmitQuiet
<1>8. Covers(a, t.s, Q)
  BY <1>5, <1>6, TransmitCovers
<1>. HIDE DEF t
<1>9. Quiet(t.s, res.s)
  BY ZenonT(120), SMTT(30), <1>7, TransmittedQuiet DEF Quiet
<1>10. Covers(t.s, res.s, Q)
  BY <1>7, TransmittedCovers DEF Quiet
<1>. HIDE DEF res
<1>11. W(res.s) /\ r \in res.s.client_tsx
  BY <1>6, <1>7, <1>9 DEF Quiet, Frame, FrameTsx
<1>12. Covers(res.s, u, Q)
  BY <1>3, <1>11, QueuedCovers
<1>13. Covers(st, a, Q) /\ Covers(a, res.s, Q)
  BY <1>2, <1>5, <1>8, <1>10, CoversTrans
<1>. QED
  BY <1>12, <1>13, CoversTrans

\* A request that is freed has no timers left and is in no queue.
LEMMA FreedLive ==
    ASSUME NEW st, W(st), L(st), NEW r \in Reqs, r \in st.created,
           \A e \in Timers : <<r, e>> \notin st.heap,
           NEW p, p \subseteq st.pending, r \notin p, NEW u, u = Free(st, r, p)
    PROVE  L(u)
<1>1. st \in SType
  BY DEF W
<1>2. /\ u.created = st.created /\ u.freed = st.freed \cup {r}
      /\ u.pending = p /\ u.heap = st.heap
  BY <1>1 DEF Free, SType
<1>. QED
  BY <1>2 DEF L

\* destroy_tdata() with force cancels the timers before it frees.
LEMMA ForcedLive ==
    ASSUME NEW st, W(st), L(st), NEW r \in Reqs, r \in st.created, NEW u, u = Forced(st, r)
    PROVE  L(u)
<1>. DEFINE v == pj_stun_client_tsx_stop(st, r)
            p == v.pending \ {r}
<1>1. /\ W(v) /\ Frame(st, v) /\ v.heap = st.heap \ {<<r, "retransmit">>, <<r, "destroy">>}
  BY StopFrame
<1>2. u = Free(v, r, p)
  BY DEF destroy_tdata, Forced, Free
<1>. HIDE DEF v
<1>3. Covers(st, v, {}) /\ r \in v.created
  BY <1>1 DEF Covers, Frame, FrameTsx
<1>4. L(v)
  BY SMTT(30), Z3T(30), <1>1, <1>3, CoversLive
<1>5. \A e \in Timers : <<r, e>> \notin v.heap
  BY <1>1 DEF Timers
<1>. QED
  BY <1>1, <1>2, <1>3, <1>4, <1>5, FreedLive

\* Complete(): the request is freed at once after a timeout, and otherwise
\* when its destroy timer fires.
LEMMA OnCompleteLive ==
    ASSUME NEW st, W(st), L(st), NEW r \in Reqs, r \in st.client_tsx, r \notin st.freed,
           NEW status, NEW resp, NEW q, NEW o \in Outcomes,
           ~st.is_destroying => GoodRetry(st, r, resp, q),
           NEW u, u = stun_tsx_on_complete(st, r, status, resp, q, o)
    PROVE  L(u)
<1>. DEFINE Q == {r, q}
<1>1. CASE st.is_destroying
  <2>1. u = Unforced(st, r)
    BY <1>1 DEF stun_tsx_on_complete, Unforced
  <2>2. W(u) /\ Covers(st, u, {r})
    BY <2>1, UnforcedFrame, UnforcedCovers
  <2>. QED
    BY SMTT(30), Z3T(30), <2>2, CoversLive
<1>2. CASE ~st.is_destroying
  <2>. DEFINE h == handle_auth_challenge(st, r, resp, q, o)
              v == IF notify_user(st, resp) THEN on_request_complete(h, r) ELSE h
  <2>1. u = Forced(v, r) \/ u = Unforced(v, r)
    BY <1>2 DEF stun_tsx_on_complete, destroy_tdata, Forced, Unforced
  <2>2. W(h) /\ Covers(st, h, Q) /\ r \in h.client_tsx /\ q \notin st.freed
    <3>1. CASE Retried(st, resp)
      <4>. DEFINE n == auth_retry(st, resp)
                  c == st.created \cup {q}
                  g == Remember(st, n, resp, c)
                  rt == r \in st.require_retransmit
                  k == st.token[r]
      <4>1. q \in Reqs /\ q \notin st.created
        BY <1>2, <3>1 DEF GoodRetry
      <4>2. /\ st \in SType /\ n \in Nat /\ resp \in Nonces \cup {NoNonce}
            /\ c \in SUBSET Reqs /\ st.created \subseteq c
            /\ rt \in BOOLEAN /\ k \in Reqs
        BY SMTT(30), Z3T(30), <3>1, <4>1, AuthRetryType DEF W, SType, Retried
      <4>3. h = SendMsg(g, q, k, rt, o)
        BY <3>1 DEF handle_auth_challenge, Remember
      <4>4. q \in c /\ q \notin st.client_tsx /\ q \notin st.freed
        BY <4>1 DEF W, L
      <4>5. g = Remember(st, n, resp, c)
        OBVIOUS
      <4>. HIDE DEF n, c, k, rt, g
      <4>6. /\ W(g) /\ g.created = c /\ g.client_tsx = st.client_tsx
            /\ g.pending = st.pending /\ g.freed = st.freed /\ g.heap = st.heap
        <5>1. Unmoved(st, g, c)
          BY <4>2, <4>5, RememberKeeps
        <5>. QED
          BY <5>1 DEF Unmoved
      <4>7. Covers(st, g, Q)
        BY <4>2, <4>6 DEF Covers
      <4>. HIDE DEF h
      <4>8. W(h) /\ Covers(g, h, Q) /\ Begun(g, h, q, k)
        BY <4>1, <4>2, <4>3, <4>4, <4>6, SendMsgFrame, SendMsgCovers
      <4>. QED
        BY <4>4, <4>6, <4>7, <4>8, CoversTrans DEF Begun
    <3>2. CASE ~Retried(st, resp)
      <4>1. q = NoReq /\ q \notin st.freed
        BY <1>2, <3>2, StunAssumption DEF GoodRetry, W, SType
      <4>. DEFINE n == auth_retry(st, resp)
                  x == st.next_nonce
                  c == st.created
      <4>3. /\ st \in SType /\ n \in Nat /\ x \in Nonces \cup {NoNonce}
            /\ c \in SUBSET Reqs /\ st.created \subseteq c
        BY AuthRetryType DEF W, SType
      <4>4. h = Remember(st, n, x, c)
        BY <3>2, <4>3 DEF handle_auth_challenge, Remember, SType
      <4>. HIDE DEF h, n, x, c
      <4>5. Unmoved(st, h, c)
        BY <4>3, <4>4, RememberKeeps
      <4>2. /\ W(h) /\ h.created = st.created /\ h.client_tsx = st.client_tsx
            /\ h.pending = st.pending /\ h.freed = st.freed /\ h.heap = st.heap
        BY <4>5 DEF Unmoved, c
      <4>. QED
        BY <4>1, <4>2 DEF Covers
    <3>. QED
      BY <3>1, <3>2
  <2>. HIDE DEF h
  <2>3. W(v) /\ Covers(h, v, Q) /\ v.client_tsx = h.client_tsx
    <3>1. CASE v = h
      BY <2>2, <3>1 DEF Covers
    <3>2. CASE v = on_request_complete(h, r)
      <4>. HIDE DEF v
      <4>1. /\ W(v) /\ v.created = h.created /\ v.client_tsx = h.client_tsx
            /\ v.pending = h.pending /\ v.freed = h.freed /\ v.heap = h.heap
        <5>1. W(h)
          BY <2>2
        <5>2. Unmoved(h, v, h.created)
          BY <5>1, <3>2, ToldUnmoved
        <5>. QED
          BY <5>2 DEF Unmoved
      <4>. QED
        BY <4>1 DEF Covers
    <3>. QED
      BY <3>1, <3>2
  <2>. HIDE DEF v
  <2>4. Covers(st, v, Q) /\ r \in v.client_tsx /\ r \in v.created
    BY <2>2, <2>3, CoversTrans DEF W
  <2>5. \A x \in Q : x \notin st.freed
    BY <2>2
  <2>. HIDE DEF Q
  <2>6. L(v)
    BY <2>3, <2>4, <2>5, CoversLive
  <2>7. CASE u = Forced(v, r)
    BY <2>3, <2>4, <2>6, <2>7, ForcedLive
  <2>8. CASE u = Unforced(v, r)
    <3>1. W(u) /\ Covers(v, u, {r})
      BY <2>3, <2>4, <2>8, UnforcedFrame, UnforcedCovers
    <3>2. r \notin v.freed
      BY <2>4 DEF Covers
    <3>. QED
      BY SMTT(30), Z3T(30), <2>6, <3>1, <3>2, CoversLive
  <2>. QED
    BY <2>1, <2>7, <2>8
<1>. QED
  BY <1>1, <1>2

\* The end of a transaction, by a response or the last timeout.
LEMMA CompleteLive ==
    ASSUME NEW st, W(st), L(st), NEW r \in Reqs, r \in st.client_tsx, r \notin st.freed,
           NEW status, NEW resp, NEW q, NEW o \in Outcomes,
           r \notin st.complete \cup st.muted /\ ~st.is_destroying => GoodRetry(st, r, resp, q),
           NEW u, u = Complete(st, r, status, resp, q, o)
    PROVE  L(u)
<1>. DEFINE c == [st EXCEPT !.complete = st.complete \cup {r}]
<1>1. /\ W(c) /\ c.is_destroying = st.is_destroying /\ c.created = st.created
      /\ c.client_tsx = st.client_tsx /\ c.pending = st.pending
      /\ c.next_nonce = st.next_nonce /\ c.auth_retry = st.auth_retry
  BY SMTT(30), Z3T(30), CompleteFlag
<1>2. c.freed = st.freed /\ c.heap = st.heap
  BY DEF W, SType
<1>3. u = st \/ u = c \/ /\ u = stun_tsx_on_complete(c, r, status, resp, q, o)
                         /\ r \notin st.complete \cup st.muted
  BY DEF Complete
<1>. HIDE DEF c
<1>4. L(c)
  BY <1>1, <1>2 DEF L
<1>5. CASE u = stun_tsx_on_complete(c, r, status, resp, q, o) /\ r \notin st.complete \cup st.muted
  <2>1. ~c.is_destroying => GoodRetry(c, r, resp, q)
    BY <1>1, <1>5 DEF GoodRetry, Retried
  <2>. QED
    BY <1>1, <1>2, <1>4, <1>5, <2>1, OnCompleteLive
<1>. QED
  BY <1>3, <1>4, <1>5

\* What is still pending is freed with the last reference, and no timer is
\* armed by then.
LEMMA DecRefLive ==
    ASSUME NEW st, W(st), L(st), Excess(st) >= 1, NEW u, u = pj_grp_lock_dec_ref(st)
    PROVE  L(u)
<1>. DEFINE n == st.ref - 1
            v == [st EXCEPT !.ref = n]
<1>0. Counting /\ st \in SType
  BY DEF W
<1>1. /\ st \in SType /\ st.ref \in Int /\ Cardinality(st.heap) \in Nat
      /\ IsFiniteSet(st.heap) /\ Excess(st) \in Int
  BY <1>0, ExcessType, HeapFinite
<1>2. u = v \/ (n = 0 /\ u = stun_sess_on_destroy(v))
  BY <1>1 DEF pj_grp_lock_dec_ref, Released, SType
<1>3. n = 0 => st.heap = {}
  <2>1. n = 0 => Cardinality(st.heap) = 0
    BY <1>1 DEF Excess
  <2>2. Cardinality(st.heap) = 0 => st.heap = {}
    BY <1>0, <1>1 DEF Counting
  <2>. QED
    BY <2>1, <2>2
<1>. HIDE DEF n
<1>4. /\ v.created = st.created /\ v.freed = st.freed
      /\ v.pending = st.pending /\ v.heap = st.heap /\ v \in SType
  BY SMTT(30), Z3T(30), <1>1, <1>2 DEF SType, n
<1>5. st.pending \subseteq st.created
  BY DEF W
<1>. HIDE DEF v
<1>6. CASE u = v
  BY <1>4, <1>6 DEF L
<1>7. CASE n = 0 /\ u = stun_sess_on_destroy(v)
  <2>1. /\ u.created = v.created /\ u.freed = v.freed \cup v.pending
        /\ u.pending = {} /\ u.heap = v.heap
    BY <1>4, <1>7 DEF stun_sess_on_destroy, SType
  <2>. QED
    BY <1>3, <1>4, <1>5, <1>7, <2>1 DEF L
<1>. QED
  BY <1>2, <1>6, <1>7

\* retransmit_timer_callback().
LEMMA TimeoutLive ==
    ASSUME NEW st, W(st), L(st), NEW r \in Reqs, r \in st.client_tsx, r \notin st.freed,
           NEW o \in Sends, NEW u, u = RetransmitOrTimeout(st, r, o)
    PROVE  L(u)
<1>. DEFINE Q == {r}
            c == ClearId(st, r, "retransmit")
            res == tsx_transmit_msg(c, r, TRUE, o)
            d == ClearId(res.s, r, "retransmit")
<1>0. o \in Outcomes /\ "retransmit" \in Timers /\ r \in Q /\ \A x \in Q : x \notin st.freed
  BY SendsOutcomes DEF Timers
<1>1. Quiet(st, c) /\ Covers(st, c, Q)
  BY <1>0, ClearQuiet, IdCovers DEF ClearId
<1>2. \/ u = Complete(c, r, "timeout", "none", NoReq, o)
      \/ u = res.s
      \/ u = Complete(d, r, res.status, "none", NoReq, o)
  BY DEF RetransmitOrTimeout, Retransmitted
<1>. HIDE DEF c, Q
<1>3. r \in c.client_tsx /\ W(c)
  BY <1>1 DEF Quiet, Frame, FrameTsx
<1>4. Quiet(c, res.s) /\ Covers(c, res.s, Q)
  BY <1>0, <1>3, TransmitQuiet, TransmitCovers
<1>. HIDE DEF res
<1>5. Quiet(res.s, d) /\ Covers(res.s, d, Q)
  <2>1. W(res.s)
    BY <1>4 DEF Quiet
  <2>. QED
    BY <1>0, <2>1, ClearQuiet, IdCovers DEF ClearId
<1>. HIDE DEF d
<1>6. W(res.s) /\ W(d) /\ r \in d.client_tsx
  BY <1>3, <1>4, <1>5 DEF Quiet, Frame, FrameTsx
<1>7. Covers(st, res.s, Q) /\ Covers(st, d, Q)
  BY <1>1, <1>4, <1>5, CoversTrans
<1>8. L(c) /\ L(res.s) /\ L(d) /\ r \notin c.freed /\ r \notin d.freed
  <2>1. r \notin c.freed /\ r \notin d.freed
    BY <1>0, <1>1, <1>7 DEF Covers
  <2>. QED
    BY <1>0, <1>1, <1>3, <1>6, <1>7, <2>1, CoversLive
<1>9. \A x : GoodRetry(x, r, "none", NoReq)
  BY StunAssumption DEF GoodRetry, Retried
<1>10. CASE u = Complete(c, r, "timeout", "none", NoReq, o)
  BY <1>0, <1>3, <1>8, <1>9, <1>10, CompleteLive
<1>11. CASE u = Complete(d, r, res.status, "none", NoReq, o)
  BY <1>0, <1>6, <1>8, <1>9, <1>11, CompleteLive
<1>. QED
  BY <1>2, <1>8, <1>10, <1>11

\* With one thread, no callback is in progress when another step is taken:
\* a request that a callback works on has not been freed, and one that is
\* about to be freed has no timers.
Live ==
    /\ L(s)
    /\ \A th \in Holders :
        /\ th \in conf.threads /\ thr[th].req \notin s.freed
        /\ At(th, "erase") => \A e \in Timers : <<thr[th].req, e>> \notin s.heap

LInv == Alone => Live

\* A thread that polls alone is the only one.
LEMMA OnlyThread ==
    ASSUME IInv, Alone, NEW x \in conf.threads, NEW y \in conf.threads
    PROVE  x = y
<1>1. conf.threads \subseteq Threads
  BY StunAssumption DEF IInv, RInv, ConfigType
<1>2. Counting
  BY HoldersFinite
<1>3. IsFiniteSet(conf.threads)
  BY <1>1, <1>2, StunAssumption DEF Counting
<1>4. \E z : conf.threads = {z}
  BY <1>2, <1>3 DEF Alone, Counting
<1>. QED
  BY <1>4

\* The thread is idle: no callback is in progress.
LEMMA NobodyWorks ==
    ASSUME IInv, Alone, Live, SomeoneIdle
    PROVE  Holders = {}
<1>1. PICK th \in conf.threads : At(th, "idle")
  BY DEF SomeoneIdle
<1>. QED
  BY <1>1, OnlyThread DEF Live, Holders

\* What every call of the user does to the memory of the requests.
LEMMA UserLive ==
    ASSUME IInv, L(s), NEW r \in Reqs, UserStep(r)
    PROVE  L(s')
<1>. DEFINE f == Fresh(s)
            Q == {r}
<1>1. W(s)
  BY DEF IInv, RInv
<1>2. /\ W(f) /\ Covers(s, f, {})
      /\ f.is_destroying = s.is_destroying /\ f.created = s.created
      /\ f.client_tsx = s.client_tsx /\ f.complete = s.complete
      /\ f.muted = s.muted /\ f.pending = s.pending /\ f.accepted = s.accepted
      /\ f.auth_retry = s.auth_retry /\ f.next_nonce = s.next_nonce /\ f.manual = s.manual
  BY SMTT(30), Z3T(30), <1>1, FreshSteps, OutCovers
<1>. HIDE DEF f
<1>3. f.freed = s.freed /\ L(f)
  BY <1>2, NoneCovers
<1>4. /\ s.accepted \subseteq s.client_tsx /\ s.pending \subseteq s.client_tsx
      /\ f.client_tsx \subseteq f.created /\ f \in SType
  BY <1>1, <1>2 DEF W
<1>5. CASE pj_stun_session_create_req(r)
  <2>1. s' = Create(f, r)
    BY <1>5 DEF pj_stun_session_create_req, Create, f
  <2>2. /\ s'.created = f.created \cup {r} /\ s'.freed = f.freed
        /\ s'.pending = f.pending /\ s'.heap = f.heap
    BY <1>4, <2>1 DEF Create, SType
  <2>. QED
    BY <1>3, <2>2 DEF L
<1>6. CASE pj_stun_msg_destroy_tdata(r)
  <2>1. /\ s' = destroy_tdata(f, r, FALSE) /\ r \notin f.client_tsx /\ r \in f.created
    BY <1>2, <1>6 DEF pj_stun_msg_destroy_tdata, Unsent, f
  <2>2. s' = Free(f, r, f.pending)
    BY <1>4, <2>1 DEF destroy_tdata, Free, SType
  <2>3. \A e \in Timers : <<r, e>> \notin f.heap
    BY <1>2, <2>1 DEF W
  <2>. QED
    BY <1>2, <1>3, <1>4, <2>1, <2>2, <2>3, FreedLive
<1>7. CASE \E retransmit \in conf.retransmits, o \in Sends :
               pj_stun_session_send_msg(r, retransmit, o)
  <2>1. PICK retransmit \in conf.retransmits, o \in Sends :
            pj_stun_session_send_msg(r, retransmit, o)
    BY <1>7
  <2>2. retransmit \in BOOLEAN /\ o \in Outcomes
    BY StunAssumption, SendsOutcomes DEF IInv, RInv, ConfigType
  <2>. DEFINE v == SendMsg(f, r, r, retransmit, o)
  <2>3. /\ s' = Accept(v, r)
        /\ r \in f.created /\ r \notin f.client_tsx /\ r \notin f.freed
    BY <1>2, <1>3, <2>1 DEF pj_stun_session_send_msg, Unsent, f
  <2>4. W(v) /\ Covers(f, v, Q)
    BY <1>2, <2>2, <2>3, SendMsgFrame, SendMsgCovers
  <2>. HIDE DEF v
  <2>5. L(v) /\ v \in SType
    <3>1. \A x \in Q : x \notin f.freed
      BY <2>3
    <3>2. v \in SType
      BY <2>4 DEF W
    <3>. HIDE DEF Q
    <3>. QED
      BY <1>3, <2>4, <3>1, <3>2, CoversLive
  <2>6. /\ s'.created = v.created /\ s'.freed = v.freed
        /\ s'.pending = v.pending /\ s'.heap = v.heap
    BY <2>3, <2>5 DEF Accept, SType
  <2>. QED
    BY <2>5, <2>6 DEF L
<1>8. CASE \E notify \in BOOLEAN : pj_stun_session_cancel_req(r, notify)
  <2>1. PICK notify \in BOOLEAN : pj_stun_session_cancel_req(r, notify)
    BY <1>8
  <2>. DEFINE v == IF notify THEN on_request_complete(f, r) ELSE f
              w == Cancel(v, r)
  <2>2. s' = Unforced(w, r) /\ r \in f.client_tsx /\ r \notin f.freed
    BY <1>2, <1>3, <1>4, <2>1 DEF pj_stun_session_cancel_req, Holds, Unforced, Cancel, f
  <2>3. W(v) /\ v.client_tsx = f.client_tsx
    <3>1. CASE notify
      <4>0. v = on_request_complete(f, r)
        BY <3>1
      <4>. HIDE DEF v
      <4>1. Unmoved(f, v, f.created)
        BY <1>2, <4>0, ToldUnmoved
      <4>. QED
        BY <4>1 DEF Unmoved
    <3>2. CASE ~notify
      BY <1>2, <3>2
    <3>. QED
      BY <3>1, <3>2
  <2>4. /\ v.created = f.created /\ v.freed = f.freed
        /\ v.pending = f.pending /\ v.heap = f.heap
    BY <1>4 DEF on_request_complete, SType
  <2>. HIDE DEF v
  <2>5. W(w) /\ w.client_tsx = v.client_tsx
    BY SMTT(30), Z3T(30), <2>3, CancelFlag
  <2>6. /\ w.created = v.created /\ w.freed = v.freed
        /\ w.pending = v.pending /\ w.heap = v.heap
    BY <2>3 DEF Cancel, W, SType
  <2>. HIDE DEF w
  <2>7. L(w)
    BY <1>3, <2>4, <2>6 DEF L
  <2>8. W(s') /\ Covers(w, s', Q)
    BY <2>2, <2>3, <2>5, UnforcedFrame, UnforcedCovers
  <2>. QED
    BY SMTT(30), Z3T(30), <2>2, <2>4, <2>6, <2>7, <2>8, CoversLive
<1>9. CASE \E mod_count \in BOOLEAN, o \in Sends :
               pj_stun_session_retransmit_req(r, mod_count, o)
  <2>1. PICK mod_count \in BOOLEAN, o \in Sends :
            pj_stun_session_retransmit_req(r, mod_count, o)
    BY <1>9
  <2>. DEFINE n == f.manual + 1
              g == [f EXCEPT !.manual = n]
              c == IF mod_count THEN pj_timer_heap_cancel_if_active(g, r, "retransmit") ELSE g
              res == tsx_transmit_msg(c, r, mod_count, o)
  <2>2. o \in Outcomes /\ n \in Nat /\ "retransmit" \in Timers
    BY SMTT(30), Z3T(30), <1>4, SendsOutcomes DEF SType, Timers
  <2>3. (s' = g \/ s' = res.s) /\ r \in f.client_tsx /\ r \notin f.freed
    BY <1>2, <1>3, <1>4, <2>1
       DEF pj_stun_session_retransmit_req, pj_stun_client_tsx_retransmit, Holds, f
  <2>. HIDE DEF n
  <2>4. W(g) /\ r \in g.client_tsx
    BY <1>2, <2>2, <2>3, ManualSteps DEF Steps
  <2>5. Covers(f, g, Q)
    <3>1. /\ g.created = f.created /\ g.freed = f.freed
          /\ g.pending = f.pending /\ g.heap = f.heap
      BY <1>4 DEF SType
    <3>. QED
      BY <3>1 DEF Covers
  <2>. HIDE DEF g
  <2>6. W(c) /\ Covers(g, c, Q) /\ r \in c.client_tsx
    BY SMTT(30), Z3T(30), <2>2, <2>4, CancelFrame, CancelCovers DEF Frame, FrameTsx, Covers
  <2>. HIDE DEF c
  <2>7. Quiet(c, res.s) /\ Covers(c, res.s, Q)
    BY <2>2, <2>6, TransmitQuiet, TransmitCovers
  <2>. HIDE DEF res
  <2>8. W(s') /\ Covers(f, s', Q)
    BY <2>3, <2>4, <2>5, <2>6, <2>7, CoversTrans DEF Quiet
  <2>. QED
    BY SMTT(30), Z3T(30), <1>3, <2>3, <2>8, CoversLive
<1>10. CASE \E resp \in Responses, q \in Reqs \cup {NoReq}, o \in Sends :
                on_incoming_response(r, resp, q, o)
  <2>1. PICK resp \in Responses, q \in Reqs \cup {NoReq}, o \in Sends :
            on_incoming_response(r, resp, q, o)
    BY <1>10
  <2>. DEFINE c == pj_timer_heap_cancel_if_active(f, r, "retransmit")
  <2>0. o \in Outcomes /\ "retransmit" \in Timers /\ conf.reqs \subseteq Reqs
    BY SendsOutcomes, StunAssumption DEF Timers, IInv, RInv, ConfigType
  <2>2. (s' = c \/ s' = Complete(c, r, "response", resp, q, o)) /\ r \in f.pending
    BY <1>2, <2>1 DEF on_incoming_response, pj_stun_client_tsx_on_rx_msg, f
  <2>3. Retried(f, resp) <=> Retried(s, resp)
    BY <1>2 DEF Retried
  <2>4. r \notin f.complete \cup f.muted /\ ~f.is_destroying => GoodRetry(f, r, resp, q)
    BY <1>2, <2>0, <2>1, <2>3 DEF on_incoming_response, GoodRetry
  <2>c. c = pj_timer_heap_cancel_if_active(f, r, "retransmit")
    OBVIOUS
  <2>. HIDE DEF c
  <2>5. Quiet(f, c) /\ Covers(f, c, Q)
    <3>1. Covers(f, c, Q)
      BY <1>2, <2>0, <2>c, CancelCovers
    <3>2. Quiet(f, c)
      BY <1>2, <2>0, <2>c, CancelQuiet
    <3>. QED
      BY <3>1, <3>2
  <2>6. /\ r \in c.client_tsx /\ W(c) /\ r \notin c.freed
        /\ r \notin c.complete \cup c.muted /\ ~c.is_destroying => GoodRetry(c, r, resp, q)
    BY <1>2, <1>3, <1>4, <2>2, <2>4, <2>5 DEF Quiet, Frame, FrameTsx, GoodRetry, Retried, L
  <2>7. L(c)
    <3>1. r \notin f.freed
      BY <1>3, <2>2 DEF L
    <3>2. \A x \in Q : x \notin f.freed
      BY <3>1
    <3>. HIDE DEF Q
    <3>. QED
      BY <1>3, <2>5, <2>6, <3>2, CoversLive
  <2>. QED
    BY <2>0, <2>2, <2>6, <2>7, CompleteLive
<1>. QED
  BY <1>5, <1>6, <1>7, <1>8, <1>9, <1>10 DEF UserStep

\* Nothing is freed or scheduled at first.
LEMMA InitLInv == Init => LInv
<1>. SUFFICES ASSUME Init PROVE Live
  BY DEF LInv
<1>1. s.heap = {} /\ s.freed = {} /\ s.pending = {}
  BY DEF Init, pj_stun_session_create
<1>2. Holders = {}
  BY DEF Init, Idle, At, Holders
<1>. QED
  BY <1>1, <1>2 DEF Live, L

\* Every step of a lone thread keeps memory alive.
LEMMA NextLInv == IInv /\ LInv /\ [Next]_vars => LInv'
<1>. SUFFICES ASSUME IInv, LInv, [Next]_vars, Alone' PROVE Live'
  BY DEF LInv
<1>0. conf' = conf
  BY DEF Next, UserStep, Proceed, Finished, vars, pj_stun_session_create_req,
     pj_stun_msg_destroy_tdata, pj_stun_session_send_msg, pj_stun_session_cancel_req,
     pj_stun_session_retransmit_req, on_incoming_response, pj_stun_session_destroy,
     pj_timer_heap_poll, retransmit_timer_callback, destroy_timer_callback,
     stun_tsx_on_destroy, Goto
<1>1. Alone /\ Live /\ L(s)
  BY <1>0 DEF LInv, Alone, Live
<1>2. W(s) /\ thr \in [Threads -> ThrType]
  BY DEF IInv, RInv
<1>. DEFINE f == Fresh(s)
<1>3. /\ W(f) /\ Steps(s, f, 0) /\ Covers(s, f, {})
      /\ f.created = s.created /\ f.client_tsx = s.client_tsx /\ f.muted = s.muted
      /\ f.pending = s.pending /\ f.heap = s.heap
  BY ZenonT(120), SMTT(30), <1>2, FreshSteps, OutCovers
<1>. HIDE DEF f
<1>4. f.freed = s.freed /\ L(f)
  BY <1>1, <1>3, NoneCovers
<1>5. CASE \E r \in Reqs : UserStep(r)
  <2>1. PICK r \in Reqs : UserStep(r)
    BY <1>5
  <2>2. SomeoneIdle
    BY <2>1 DEF UserStep, UserCalls, pj_stun_session_create_req, pj_stun_msg_destroy_tdata,
       pj_stun_session_send_msg, pj_stun_session_cancel_req,
       pj_stun_session_retransmit_req, on_incoming_response
  <2>3. L(s') /\ thr' = thr
    BY <1>1, <2>1, UserLive, UserSteps
  <2>4. Holders' = {}
    BY <1>1, <2>2, <2>3, NobodyWorks DEF Holders, At
  <2>. QED
    BY <2>3, <2>4 DEF Live, L
<1>6. CASE pj_stun_session_destroy
  <2>. DEFINE d == Destroying(f)
              x == d.heap \cap (d.pending \X Timers)
              v == StopAll(d, x)
  <2>1. ~s.is_destroying /\ SomeoneIdle
    BY <1>6 DEF pj_stun_session_destroy, UserCalls
  <2>2. /\ W(d) /\ Excess(d) = Excess(f) /\ d.heap = f.heap /\ d.pending = f.pending
    BY <1>3, DestroyingFrame
  <2>3. d.created = f.created /\ d.freed = f.freed /\ d \in SType
    BY <1>3, <2>2 DEF Destroying, W, SType
  <2>4. s' = pj_grp_lock_dec_ref(v) /\ thr' = thr
    BY <1>3, <1>6, <2>2 DEF pj_stun_session_destroy, Destroying, f
  <2>. HIDE DEF d
  <2>5. Steps(d, v, 0)
    BY <2>2, StopAllSteps
  <2>6. /\ v.created = d.created /\ v.freed = d.freed /\ v.pending = d.pending
        /\ v.heap = d.heap \ x
    BY <2>3 DEF StopAll, SType
  <2>. HIDE DEF x, v
  <2>7. L(v) /\ W(v)
    BY <1>4, <2>2, <2>3, <2>5, <2>6 DEF L, Steps
  <2>8. Excess(v) >= 1
    <3>1. Excess(s) \in Int /\ Excess(v) = Excess(s)
      <4>1. Excess(v) = Excess(d) + 0 /\ Excess(d) = Excess(f) /\ Excess(f) = Excess(s) + 0
        BY <1>3, <2>2, <2>5 DEF Steps
      <4>2. Excess(s) \in Int
        BY <1>2, ExcessType
      <4>. QED
        BY <4>1, <4>2
    <3>2. Excess(s) = 1 + Cardinality(Holders)
      BY <2>1 DEF IInv, RInv, One
    <3>3. Cardinality(Holders) \in Nat
      BY HoldersFinite
    <3>. QED
      BY <3>1, <3>2, <3>3
  <2>9. L(s')
    BY <2>4, <2>7, <2>8, DecRefLive
  <2>10. Holders' = {}
    BY <1>1, <2>1, <2>4, NobodyWorks DEF Holders, At
  <2>. QED
    BY <2>9, <2>10 DEF Live, L
<1>7. CASE \E th \in Threads, r \in Reqs, e \in Timers : pj_timer_heap_poll(th, r, e)
  <2>1. PICK th \in Threads, r \in Reqs, e \in Timers : pj_timer_heap_poll(th, r, e)
    BY <1>7
  <2>2. /\ th \in conf.threads /\ At(th, "idle") /\ <<r, e>> \in s.heap
        /\ s' = [f EXCEPT !.heap = f.heap \ {<<r, e>>}]
        /\ thr' = [thr EXCEPT ![th] = [pc |-> "fired", req |-> r, timer |-> e]]
    BY <2>1 DEF pj_timer_heap_poll, Goto, f
  <2>3. Holders = {}
    BY <1>1, <2>2, NobodyWorks DEF SomeoneIdle
  <2>4. /\ s'.created = f.created /\ s'.freed = f.freed
        /\ s'.pending = f.pending /\ s'.heap = f.heap \ {<<r, e>>}
    BY <1>3, <2>2 DEF W, SType
  <2>5. L(s') /\ r \notin s'.freed
    BY <1>1, <1>3, <1>4, <2>2, <2>4 DEF L
  <2>6. \A x \in Holders' : x = th /\ thr'[x].pc = "fired" /\ thr'[x].req = r
    BY <1>2, <2>2, <2>3 DEF Holders, At
  <2>. QED
    BY <1>0, <2>2, <2>5, <2>6 DEF Live, L, At
<1>8. CASE \E th \in Threads : Proceed(th)
  <2>1. PICK th \in Threads : Proceed(th)
    BY <1>8
  <2>. DEFINE r == thr[th].req
  <2>2. ~At(th, "idle")
    BY <2>1 DEF Proceed, At, retransmit_timer_callback, destroy_timer_callback, stun_tsx_on_destroy
  <2>3. /\ th \in Holders /\ \A x \in Holders : x = th
    BY <1>1, <2>2, OnlyThread DEF Holders, Live
  <2>4. thr[th] \in [pc : {"fired", "erase"}, req : Reqs, timer : Timers]
    <3>1. thr[th] \in ThrType
      BY <1>2
    <3>2. thr[th] # Idle
      BY <2>2 DEF At, Idle
    <3>. QED
      BY <3>1, <3>2 DEF ThrType
  <2>5. /\ r \in Reqs /\ r \in f.client_tsx /\ r \notin f.freed /\ r \in f.created
        /\ th \in conf.threads
        /\ At(th, "erase") => \A e \in Timers : <<r, e>> \notin f.heap
    BY <1>1, <1>3, <1>4, <2>2, <2>3, <2>4 DEF IInv, RInv, ThrInv, Live, W
  <2>6. \A v : Excess(v) = Excess(s) => Excess(v) >= 1
    <3>1. Excess(s) = One(~s.is_destroying) + Cardinality(Holders) /\ One(~s.is_destroying) \in Nat
      BY DEF IInv, RInv, One
    <3>2. Cardinality(Holders) >= 1
      <4>1. Cardinality(Holders) # 0
        BY <2>3, HoldersFinite DEF Counting
      <4>. QED
        BY <4>1, HoldersFinite
    <3>. QED
      BY <3>1, <3>2, HoldersFinite
  <2>7. \A v : L(v) /\ W(v) /\ Excess(v) = Excess(s) /\ s' = pj_grp_lock_dec_ref(v)
               /\ thr' = [thr EXCEPT ![th] = Idle] => Live'
    <3>. SUFFICES ASSUME NEW v, L(v), W(v), Excess(v) = Excess(s), s' = pj_grp_lock_dec_ref(v),
                         thr' = [thr EXCEPT ![th] = Idle]
                  PROVE  Live'
      OBVIOUS
    <3>1. L(s')
      BY <2>6, DecRefLive
    <3>2. Holders' = {}
      BY <1>2, <2>3 DEF Holders, At, Idle
    <3>. QED
      BY <3>1, <3>2 DEF Live, L
  <2>8. CASE \E o \in Sends : retransmit_timer_callback(th, o)
    <3>1. PICK o \in Sends : retransmit_timer_callback(th, o)
      BY <2>8
    <3>. DEFINE v == RetransmitOrTimeout(f, r, o)
    <3>2. s' = pj_grp_lock_dec_ref(v) /\ thr' = [thr EXCEPT ![th] = Idle]
      BY <3>1 DEF retransmit_timer_callback, Goto, f
    <3>. HIDE DEF r
    <3>3. Steps(f, v, 0) /\ L(v)
      BY <1>3, <1>4, <2>5, TimeoutSteps, TimeoutLive
    <3>. HIDE DEF v
    <3>4. W(v) /\ Excess(v) = Excess(s)
      <4>1. W(v) /\ Excess(v) = Excess(f) + 0
        BY <3>3 DEF Steps
      <4>2. Excess(f) = Excess(s) + 0
        BY <1>3 DEF Steps
      <4>3. Excess(s) \in Int
        BY <1>2, ExcessType
      <4>. QED
        BY <4>1, <4>2, <4>3
    <3>. QED
      BY <2>7, <3>2, <3>3, <3>4
  <2>9. CASE destroy_timer_callback(th)
    <3>. DEFINE c == ClearId(f, r, "destroy")
                x == [thr[th] EXCEPT !.pc = "erase"]
    <3>1. s' = pj_stun_client_tsx_stop(c, r) /\ thr' = [thr EXCEPT ![th] = x]
      BY <2>9 DEF destroy_timer_callback, Goto, f
    <3>2. x.req = r /\ x.pc = "erase"
      BY <2>4
    <3>. HIDE DEF r, x
    <3>3. "destroy" \in Timers
      BY DEF Timers
    <3>4. Quiet(f, c) /\ Covers(f, c, {})
      BY <1>3, <2>5, <3>3, ClearQuiet, IdCovers DEF ClearId
    <3>. HIDE DEF c
    <3>5. /\ W(s') /\ Frame(c, s') /\ s'.heap = c.heap \ {<<r, "retransmit">>, <<r, "destroy">>}
      BY SMTT(30), Z3T(30), <2>5, <3>1, <3>4, StopFrame DEF Quiet
    <3>6. Covers(f, s', {}) /\ \A e \in Timers : <<r, e>> \notin s'.heap
      BY <3>4, <3>5 DEF Covers, Frame, FrameTsx, Timers
    <3>7. L(s') /\ s'.freed = f.freed
      BY <1>4, <3>5, <3>6, NoneCovers
    <3>8. \A y \in Holders' : y = th /\ thr'[y].req = r
      BY <1>2, <2>3, <3>1, <3>2 DEF Holders, At
    <3>. QED
      BY <1>0, <2>5, <3>6, <3>7, <3>8 DEF Live, L
  <2>10. CASE stun_tsx_on_destroy(th)
    <3>. DEFINE p == f.pending \ {r}
                v == Free(f, r, p)
    <3>1. s' = pj_grp_lock_dec_ref(v) /\ thr' = [thr EXCEPT ![th] = Idle] /\ At(th, "erase")
      BY <2>10 DEF stun_tsx_on_destroy, Goto, Free, f
    <3>0. p \subseteq f.pending /\ r \notin p /\ r \in f.muted
      BY <1>3, <2>2, <3>1 DEF IInv, RInv, ThrInv, At
    <3>. HIDE DEF r
    <3>2. Steps(f, v, 0)
      BY <1>3, <2>5, <3>0, FreeMutedSteps
    <3>4. W(v) /\ Excess(v) = Excess(s)
      <4>1. W(v) /\ Excess(v) = Excess(f) + 0
        BY <3>2 DEF Steps
      <4>2. Excess(f) = Excess(s) + 0
        BY <1>3 DEF Steps
      <4>3. Excess(s) \in Int
        BY <1>2, ExcessType
      <4>. QED
        BY <4>1, <4>2, <4>3
    <3>. HIDE DEF p
    <3>3. L(v)
      BY <1>3, <1>4, <2>5, <3>0, <3>1, FreedLive
    <3>. HIDE DEF v
    <3>. QED
      BY <2>7, <3>1, <3>3, <3>4
  <2>. QED
    BY <2>1, <2>8, <2>9, <2>10 DEF Proceed
<1>9. CASE UNCHANGED vars
  BY <1>1, <1>9 DEF vars, Live, L, Holders, At
<1>. QED
  BY <1>5, <1>6, <1>7, <1>8, <1>9 DEF Next, Finished

----------------------------------------------------------------------------
(* The theorems.                                                            *)

INSTANCE FiniteSetTheorems

\* What is used of finite sets is so.
LEMMA CountingHolds == Counting
<1>1. IsFiniteSet(Reqs \X Timers)
  <2>1. IsFiniteSet({"retransmit"})
    BY FS_Singleton
  <2>2. Timers = {"retransmit"} \cup {"destroy"}
    BY DEF Timers
  <2>3. IsFiniteSet(Timers)
    BY <2>1, <2>2, FS_AddElement
  <2>. QED
    BY <2>3, FS_Product, StunAssumption
<1>2. \A S, X : IsFiniteSet(S) /\ X \subseteq S =>
          IsFiniteSet(X) /\ Cardinality(S \ X) = Cardinality(S) - Cardinality(X)
  <2>. SUFFICES ASSUME NEW S, NEW X, IsFiniteSet(S), X \subseteq S
                PROVE  IsFiniteSet(X) /\ Cardinality(S \ X) = Cardinality(S) - Cardinality(X)
    OBVIOUS
  <2>1. S \cap X = X
    OBVIOUS
  <2>2. Cardinality(S \ X) = Cardinality(S) - Cardinality(S \cap X)
    BY FS_Difference
  <2>. QED
    BY <2>1, <2>2, FS_Subset
<1>3. \A S : IsFiniteSet(S) => Cardinality(S) \in Nat /\ (Cardinality(S) = 0 <=> S = {})
  BY FS_CardinalityType, FS_EmptySet
<1>4. \A S, x : IsFiniteSet(S) /\ x \notin S => Cardinality(S \cup {x}) = Cardinality(S) + 1
  BY FS_AddElement
<1>5. \A S, x : IsFiniteSet(S) /\ x \in S => Cardinality(S \ {x}) = Cardinality(S) - 1
  BY FS_RemoveElement
<1>6. \A S : IsFiniteSet(S) /\ Cardinality(S) = 1 => \E x : S = {x}
  BY FS_Singleton
<1>. QED
  BY <1>1, <1>2, <1>3, <1>4, <1>5, <1>6 DEF Counting

\* The reachable states of the session satisfy the inductive invariant, whatever
\* its timers, its user, its peer and the sends do.
THEOREM Invariant == Spec => []IInv
<1>1. Init => IInv
  BY InitIInv, CountingHolds
<1>. QED
  BY <1>1, NextIInv, PTL DEF Spec

\* Every field of the session and of the threads keeps its type.
THEOREM TypeCorrect == Spec => []TypeOK
  BY Invariant, IInvConsequences, PTL

\* The reference counter of the session is exact in every reachable state,
\* whatever sends fail, responses arrive and timers race.
THEOREM RefsExact == Spec => []RefCounted
  BY Invariant, IInvConsequences, PTL

\* on_request_complete() is called at most once per request, unless a session
\* with long-term credentials lets the user cancel: pj_stun_session_cancel_req()
\* does not reach the request that answers a challenge for the cancelled one.
THEOREM ToldAtMostOnce == Spec => []ToldOnce
  BY Invariant, IInvConsequences, PTL

\* No request is forgotten before on_request_complete(), unless a session with
\* long-term credentials meets a malformed response or fails to send the answer
\* to a challenge, which handle_auth_challenge() does not report.
THEOREM NothingForgotten == Spec => []NotForgotten
  BY Invariant, IInvConsequences, PTL

\* With one thread, the memory of a request outlives the timers that
\* pj_timer_heap_poll() may fire and the callbacks in progress.
THEOREM NeverUsedFreed == Spec => []NoUseAfterFree
<1>1. Spec => []LInv
  BY Invariant, InitLInv, NextLInv, PTL DEF Spec
<1>2. LInv => NoUseAfterFree
  BY DEF LInv, Live, L, NoUseAfterFree
<1>. QED
  BY <1>1, <1>2, PTL
=============================================================================
