----------------------------- MODULE TsxProofs -----------------------------
(***************************************************************************)
(* Proofs about Tsx for every role, method, environment and finite set of  *)
(* threads: type correctness, at most one outstanding send, the exactness  *)
(* of the reference counter, that no thread works on a transaction whose   *)
(* group lock has been destroyed, and that the state never goes back.      *)
(*                                                                         *)
(* TsxSteps says what the operators do to a transaction.  Here the actions *)
(* add or remove the reference of a thread, and the state of the threads   *)
(* is related to that of the transaction.  The lemmas take what they need  *)
(* of finite sets as the hypothesis Counting, which the end discharges.    *)
(***************************************************************************)
EXTENDS TsxSteps

\* The provers are given time.
\* The provers tried on a leaf that names none, in this order.
USE ZenonT(10), SMTT(30), Z3T(30)

USE DEF NULL, CALLING, TRYING, PROCEEDING, COMPLETED, CONFIRMED, TERMINATED,
        DESTROYED, TIMER_INACTIVE, RETRANSMIT_TIMER, TIMEOUT_TIMER,
        TRANSPORT_ERR_TIMER, NoMsg, REQ, ACK

----------------------------------------------------------------------------
(* The inductive invariant: TypeOK, OneSend and RefCounted together, and    *)
(* what keeps the transaction alive.                                        *)

Holding(r) == r.pc \in {"fired", "timer", "transport_err", "notify", "rx", "sent"}

\* The part of OneSend that is about the threads.
OneCallback ==
    \A th \in Threads : At(th, "send_cb") =>
        tsx.rs_op.msg # NoMsg /\ \A x \in Threads : At(x, "send_cb") => x = th

\* One thread stops the layer; the transaction it is about to shut down has
\* been terminated and, without asynchronous resolutions, nobody else can
\* unregister it meanwhile.
OneStop ==
    \A th \in Threads : At(th, "stop") =>
        /\ tsx.state >= TERMINATED
        /\ "resolve" \notin Env => tsx.registered
        /\ \A x \in Threads : At(x, "stop") => x = th

IInv ==
    /\ Good(tsx) /\ Reg(tsx) /\ NoRes(tsx)
    /\ thr \in [Threads -> ThrType]
    /\ OneCallback
    /\ OneStop
    /\ Extra(tsx) = Cardinality(Holders)

\* What other threads may not do to a transaction while the layer is stopped.
Over(t, u) ==
    t.state >= TERMINATED =>
        u.state >= TERMINATED /\ ("resolve" \notin Env => u.registered = t.registered)

\* What is used of finite sets.  CountingHolds, at the end, shows it.
Counting ==
    /\ \A S, T : IsFiniteSet(S) /\ T \subseteq S => IsFiniteSet(T)
    /\ \A S : IsFiniteSet(S) => Cardinality(S) \in Nat /\ (Cardinality(S) = 0 <=> S = {})
    /\ \A S, x : IsFiniteSet(S) /\ x \notin S => Cardinality(S \cup {x}) = Cardinality(S) + 1
    /\ \A S, x : IsFiniteSet(S) /\ x \in S => Cardinality(S \ {x}) = Cardinality(S) - 1
    /\ \A S : IsFiniteSet(S) /\ Cardinality(S) = 1 => \E x : S = {x}

\* Finitely many threads hold a reference.
LEMMA HoldersFinite ==
    ASSUME Counting PROVE IsFiniteSet(Holders) /\ Cardinality(Holders) \in Nat
<1>1. IsFiniteSet(Threads) /\ Holders \subseteq Threads
  BY TsxAssumption DEF Holders
<1>2. IsFiniteSet(Holders)
  BY <1>1 DEF Counting
<1> QED BY <1>2 DEF Counting

\* The references that a transaction accounts for are a number.
LEMMA OwnRefsType == ASSUME NEW t \in TsxType PROVE OwnRefs(t) \in Int /\ t.ref \in Int
  BY SMTT(30), Z3T(30) DEF OwnRefs, One, TsxType

\* The invariant has what it is for.
LEMMA IInvImplies == ASSUME Counting, IInv PROVE TypeOK /\ OneSend /\ RefCounted
<1>1. RefCounted
  BY HoldersFinite, OwnRefsType DEF IInv, Good, Extra, RefCounted
<1> QED BY <1>1 DEF IInv, TypeOK, OneSend, OneCallback, Good

\* What a step of a thread does to the set of holders.
LEMMA GotoHolders ==
    ASSUME Counting, thr \in [Threads -> ThrType], NEW th \in Threads, NEW r \in ThrType,
           Goto(th, r)
    PROVE  /\ thr' \in [Threads -> ThrType]
           /\ \A x \in Threads : thr'[x] = IF x = th THEN r ELSE thr[x]
           /\ Cardinality(Holders') = Cardinality(Holders)
                                      + One(Holding(r)) - One(Holding(thr[th]))
<1>1. thr' \in [Threads -> ThrType]
  BY DEF Goto
<1>2. \A x \in Threads : thr'[x] = IF x = th THEN r ELSE thr[x]
  BY DEF Goto
<1>3. IsFiniteSet(Holders) /\ Cardinality(Holders) \in Nat
  BY HoldersFinite
<1>4. CASE Holding(r) <=> Holding(thr[th])
  <2>1. Holders' = Holders
    BY <1>2, <1>4 DEF Holders, Holding
  <2> QED BY <1>1, <1>2, <1>3, <1>4, <2>1 DEF One
<1>5. CASE Holding(r) /\ ~Holding(thr[th])
  <2>1. Holders' = Holders \cup {th} /\ th \notin Holders
    BY <1>2, <1>5 DEF Holders, Holding
  <2>2. Cardinality(Holders \cup {th}) = Cardinality(Holders) + 1
    BY <1>3, <2>1 DEF Counting
  <2> QED BY <1>1, <1>2, <1>3, <1>5, <2>1, <2>2 DEF One
<1>6. CASE ~Holding(r) /\ Holding(thr[th])
  <2>1. Holders' = Holders \ {th} /\ th \in Holders
    BY <1>2, <1>6 DEF Holders, Holding
  <2>2. Cardinality(Holders \ {th}) = Cardinality(Holders) - 1
    BY <1>3, <2>1 DEF Counting
  <2> QED BY <1>1, <1>2, <1>3, <1>6, <2>1, <2>2 DEF One
<1> QED BY <1>4, <1>5, <1>6

\* A step that no thread takes.
LEMMA StayStep ==
    ASSUME IInv, UNCHANGED <<conf, thr>>, Keeps(tsx, tsx'), LayerLocked => Over(tsx, tsx')
    PROVE  IInv'
<1>1. OneStop'
  BY DEF IInv, OneStop, At, LayerLocked, Over, Env
<1>2. Good(tsx)' /\ Reg(tsx)' /\ NoRes(tsx)'
  BY DEF IInv, Keeps, NoRes, Env
<1> QED BY <1>1, <1>2 DEF IInv, Keeps, OneCallback, At, Holders

\* A step of a thread to another place than a send callback.
LEMMA ThreadStep ==
    ASSUME Counting, IInv, NEW th \in Threads, NEW r \in ThrType, Goto(th, r), r.pc # "send_cb",
           Good(tsx'), Reg(tsx'), NoRes(tsx'),
           tsx.rs_op.msg # NoMsg => tsx'.rs_op.msg # NoMsg,
           (\E x \in Threads : x # th /\ At(x, "stop")) => Over(tsx, tsx'),
           r.pc = "stop" => /\ ~LayerLocked /\ tsx'.state >= TERMINATED
                            /\ "resolve" \notin Env => tsx'.registered,
           Extra(tsx') = Extra(tsx) + One(Holding(r)) - One(Holding(thr[th]))
    PROVE  IInv'
<1>1. /\ thr' \in [Threads -> ThrType]
      /\ \A x \in Threads : thr'[x] = IF x = th THEN r ELSE thr[x]
      /\ Cardinality(Holders') = Cardinality(Holders)
                                 + One(Holding(r)) - One(Holding(thr[th]))
  BY GotoHolders DEF IInv
<1>2. OneCallback'
  BY <1>1 DEF IInv, OneCallback, At
<1>3. conf' = conf /\ NoRes(tsx)'
  BY DEF Goto, NoRes, Env
<1>4. OneStop'
  <2>1. SUFFICES ASSUME NEW y \in Threads, At(y, "stop")'
        PROVE  /\ tsx'.state >= TERMINATED
               /\ "resolve" \notin Env => tsx'.registered
               /\ \A x \in Threads : At(x, "stop")' => x = y
    BY <1>3 DEF OneStop, Env
  <2>2. CASE r.pc = "stop"
    BY <1>1, <2>1, <2>2 DEF LayerLocked, At
  <2>3. CASE r.pc # "stop"
    <3>1. \A x \in Threads : At(x, "stop")' => x # th /\ At(x, "stop")
      BY <1>1, <2>3 DEF At
    <3> QED BY <2>1, <3>1 DEF IInv, OneStop, Over
  <2> QED BY <2>2, <2>3
<1> QED BY <1>1, <1>2, <1>3, <1>4 DEF IInv

\* Steps that change the reference counter.
UpdateRef(t, r) == [t EXCEPT !.ref = r]

\* Only the reference counter changes.
LEMMA UpdateRefGood ==
    ASSUME NEW t, Good(t), NEW r \in Int, NEW u, u = UpdateRef(t, r)
    PROVE  Good(u) /\ u.ref = r /\ u.rs_op = t.rs_op
           /\ u.state = t.state /\ u.registered = t.registered /\ (Reg(t) => Reg(u))
           /\ OwnRefs(u) = OwnRefs(t) /\ OwnRefs(t) \in Int /\ t.ref \in Int
<1>1. u \in TsxType /\ u.state = t.state /\ u.flag = t.flag /\ u.rs_op = t.rs_op
      /\ u.tp_op = t.tp_op /\ u.heap = t.heap /\ u.terminating = t.terminating
      /\ u.ref = r /\ u.registered = t.registered
  BY DEF Good, UpdateRef, TsxType
<1>2. OwnRefs(u) = OwnRefs(t) /\ OwnRefs(t) \in Int /\ t.ref \in Int
  BY <1>1, OwnRefsType DEF OwnRefs, Good
<1>3. Good(u) /\ (Reg(t) => Reg(u))
  BY <1>1 DEF Good, Outstanding, Has, Reg
<1> QED BY <1>1, <1>2, <1>3

\* pj_grp_lock_dec_ref() of a thread, which may be the last one.
LEMMA DropRefExtra ==
    ASSUME NEW t, Good(t), NEW u, u = DropRef(t)
    PROVE  Good(u) /\ Extra(u) = Extra(t) - 1 /\ u.rs_op = t.rs_op
           /\ u.state = t.state /\ u.registered = t.registered /\ (Reg(t) => Reg(u))
<1> DEFINE r == t.ref - 1
<1>1. u = UpdateRef(t, r) /\ r \in Int
  BY SMTT(30), Z3T(30) DEF DropRef, UpdateRef, Good, TsxType
<1>2. Good(u) /\ u.ref = r /\ u.rs_op = t.rs_op
      /\ u.state = t.state /\ u.registered = t.registered /\ (Reg(t) => Reg(u))
      /\ OwnRefs(u) = OwnRefs(t) /\ OwnRefs(t) \in Int /\ t.ref \in Int
  <2> HIDE DEF r
  <2> QED BY <1>1, UpdateRefGood
<1> QED BY <1>2 DEF Extra

\* An idle thread holds nothing.
LEMMA IdleType == Idle \in ThrType /\ ~Holding(Idle) /\ Idle.pc = "idle"
  BY DEF Idle, ThrType, Pcs, Timers, Msgs, Holding

\* A thread that holds a reference drops it at the end of its callback.
LEMMA EndStep ==
    ASSUME Counting, IInv, NEW th \in Threads, Holding(thr[th]), Goto(th, Idle),
           NEW t, Keeps(tsx, t), tsx' = DropRef(t), LayerLocked => Over(tsx, t)
    PROVE  IInv'
<1>1. Good(tsx') /\ Extra(tsx') = Extra(t) - 1 /\ tsx'.rs_op = t.rs_op
      /\ tsx'.state = t.state /\ tsx'.registered = t.registered /\ (Reg(t) => Reg(tsx'))
  BY DropRefExtra DEF Keeps
<1>2. Extra(tsx) \in Int
  BY HoldersFinite DEF IInv
<1>3. Extra(tsx') = Extra(tsx) + One(Holding(Idle)) - One(Holding(thr[th]))
  BY <1>1, <1>2, IdleType DEF Keeps, One
<1>4. Reg(tsx') /\ NoRes(tsx') /\ (tsx.rs_op.msg # NoMsg => tsx'.rs_op.msg # NoMsg)
  BY <1>1 DEF Keeps, NoRes, IInv
<1>5. (\E x \in Threads : x # th /\ At(x, "stop")) => Over(tsx, tsx')
  BY <1>1 DEF LayerLocked, Over
<1> QED BY <1>1, <1>3, <1>4, <1>5, IdleType, ThreadStep

\* The transaction at the start of a step.
LEMMA FreshFacts ==
    ASSUME IInv
    PROVE  /\ Mild(tsx, Fresh(tsx)) /\ Good(Fresh(tsx)) /\ Keeps(tsx, Fresh(tsx))
           /\ Reg(Fresh(tsx)) /\ NoRes(Fresh(tsx))
<1>1. Mild(tsx, Fresh(tsx))
  BY FreshMild DEF IInv
<1> QED BY <1>1 DEF Mild, Keeps, IInv

\* While the layer is stopped the transaction is over.
LEMMA LockedOver == ASSUME IInv, LayerLocked PROVE tsx.state >= TERMINATED
  BY DEF IInv, LayerLocked, OneStop

\* Mild steps do not disturb a thread that stops the layer.
LEMMA MildOver == ASSUME NEW t, NEW u, Mild(t, u) PROVE Over(t, u)
  BY DEF Mild, Over

\* Over composes.
LEMMA OverTransitive == ASSUME NEW t, NEW u, NEW v, Over(t, u), Over(u, v) PROVE Over(t, v)
  BY DEF Over

\* The actions of the transaction user.
LEMMA UserStepKeeps == ASSUME IInv, UserStep PROVE IInv'
<1> DEFINE t == Fresh(tsx)
<1>1. Mild(tsx, t) /\ Good(t) /\ Keeps(tsx, t) /\ t.state = tsx.state
  BY FreshFacts DEF Mild
<1>0. tsx.state < TERMINATED => ~LayerLocked
  BY SMTT(30), Z3T(30), LockedOver DEF IInv, Good, TsxType, States
<1>9. tsx.state < TERMINATED
  BY DEF UserStep, UserHasTsx, pjsip_tsx_send_msg, pjsip_tsx_recv_msg,
         pjsip_tsx_retransmit_no_state, pjsip_tsx_terminate, pjsip_tsx_stop_retransmit,
         pjsip_tsx_set_timeout
<1> HIDE DEF t
<1>2. ASSUME NEW ev, ev.msg \in Msgs, NEW o \in Outcomes, UNCHANGED <<conf, thr>>,
             tsx' = state_handler(t, ev, o).tsx
      PROVE  IInv'
  <2>1. Keeps(t, tsx')
    BY <1>1, <1>2, HandlerKeeps
  <2> QED BY <1>1, <1>2, <2>1, <1>0, <1>9, KeepsTransitive, StayStep
<1>3. ASSUME NEW m \in Msgs, NEW o \in Outcomes, pjsip_tsx_send_msg(m, o) PROVE IInv'
  <2>1. TxEvent(m).msg = m
    BY DEF TxEvent
  <2> QED BY <1>2, <1>3, <2>1 DEF pjsip_tsx_send_msg, t
<1>4. ASSUME NEW o \in Outcomes, pjsip_tsx_recv_msg(o) PROVE IInv'
  <2>1. RxEvent(REQ).msg \in Msgs
    BY MsgFacts DEF RxEvent
  <2> QED BY <1>2, <1>4, <2>1 DEF pjsip_tsx_recv_msg, t
<1>5. ASSUME NEW o \in Outcomes, pjsip_tsx_retransmit_no_state(o) PROVE IInv'
  <2>1. tsx.last_tx \in Msgs /\ Settled(t)
    <3>1. tsx.last_tx \in Msgs
      BY DEF IInv, Good, TsxType
    <3>2. t.state < TERMINATED
      BY <1>1, <1>9
    <3>3. Settled(t)
      BY <1>1, <3>2 DEF Good, Settled
    <3> QED BY <3>1, <3>3
  <2>2. UNCHANGED <<conf, thr>> /\ tsx' = tsx_send_msg(t, tsx.last_tx, o).tsx
    BY <1>5 DEF pjsip_tsx_retransmit_no_state, t
  <2>3. Keeps(t, tsx')
    BY <1>1, <2>1, <2>2, SendMsgKeeps
  <2> QED BY <1>1, <2>2, <2>3, <1>0, <1>9, KeepsTransitive, StayStep
<1>6. CASE pjsip_tsx_terminate
  <2>1. UNCHANGED <<conf, thr>> /\ UserCode \in Codes
        /\ tsx' = tsx_set_state(tsx_set_status_code(t, UserCode), TERMINATED)
    BY SMTT(30), Z3T(30), <1>6 DEF pjsip_tsx_terminate, t, UserCode, Codes
  <2>2. Keeps(t, tsx')
    BY <1>1, <2>1, TerminateKeeps
  <2> QED BY <1>1, <2>1, <2>2, <1>0, <1>9, KeepsTransitive, StayStep
<1>7. CASE pjsip_tsx_stop_retransmit
  <2>1. UNCHANGED <<conf, thr>> /\ tsx' = tsx_cancel_timer(t, "retransmit")
    BY <1>7 DEF pjsip_tsx_stop_retransmit, t
  <2>2. Keeps(t, tsx')
    BY <1>1, <2>1, CancelKeeps DEF Timers
  <2> QED BY <1>1, <2>1, <2>2, <1>0, <1>9, KeepsTransitive, StayStep
<1>8. CASE pjsip_tsx_set_timeout
  <2>1. UNCHANGED <<conf, thr>> /\ tsx' = RestartTimeout(t, TIMEOUT_TIMER)
    BY <1>8 DEF pjsip_tsx_set_timeout, t
  <2>2. Keeps(t, tsx')
    BY <1>1, <2>1, RestartKeeps
  <2> QED BY <1>1, <2>1, <2>2, <1>0, <1>9, KeepsTransitive, StayStep
<1> QED BY <1>3, <1>4, <1>5, <1>6, <1>7, <1>8 DEF UserStep

\* A thread that holds a reference goes on with its callback.
LEMMA MoveStep ==
    ASSUME Counting, IInv, NEW th \in Threads, NEW pc \in {"timer", "transport_err", "notify"},
           Holding(thr[th]), Goto(th, [thr[th] EXCEPT !.pc = pc]), Keeps(tsx, tsx'),
           LayerLocked => Over(tsx, tsx')
    PROVE  IInv'
<1> DEFINE r == [thr[th] EXCEPT !.pc = pc]
<1>1. thr[th] \in ThrType
  BY DEF IInv
<1>2. r \in ThrType /\ r.pc = pc
  BY <1>1 DEF ThrType, Pcs
<1> HIDE DEF r
<1>3. Holding(r) /\ r.pc # "send_cb" /\ r.pc # "stop" /\ Goto(th, r)
  BY <1>2 DEF Holding, r
<1>4. Extra(tsx') = Extra(tsx) + One(Holding(r)) - One(Holding(thr[th]))
  <2>1. Extra(tsx) \in Int
    BY HoldersFinite DEF IInv
  <2> QED BY <1>3, <2>1 DEF Keeps, One
<1>5. Good(tsx') /\ Reg(tsx') /\ NoRes(tsx')
      /\ (tsx.rs_op.msg # NoMsg => tsx'.rs_op.msg # NoMsg)
      /\ ((\E x \in Threads : x # th /\ At(x, "stop")) => Over(tsx, tsx'))
  BY DEF Keeps, IInv, LayerLocked
<1> QED BY <1>2, <1>3, <1>4, <1>5, ThreadStep

\* An idle thread starts on the transaction with a reference of its own.
LEMMA StartStep ==
    ASSUME Counting, IInv, NEW th \in Threads, At(th, "idle"), NEW r \in ThrType, Holding(r),
           Goto(th, r), Good(tsx'), Extra(tsx') = Extra(tsx) + 1,
           Reg(tsx'), tsx'.rs_op = tsx.rs_op, tsx'.state = tsx.state,
           tsx'.registered = tsx.registered
    PROVE  IInv'
<1>1. ~Holding(thr[th]) /\ r.pc # "send_cb" /\ r.pc # "stop"
  BY DEF At, Holding
<1>2. Extra(tsx) \in Int
  BY HoldersFinite DEF IInv
<1>3. Extra(tsx') = Extra(tsx) + One(Holding(r)) - One(Holding(thr[th]))
  BY <1>1, <1>2 DEF One
<1>4. NoRes(tsx') /\ Over(tsx, tsx')
  BY DEF IInv, NoRes, Over
<1> QED BY <1>1, <1>3, <1>4, ThreadStep

\* A thread enters a callback, or takes an expired timer.
LEMMA StartKeeps == ASSUME Counting, IInv, NEW th \in Threads, Start(th) PROVE IInv'
<1> DEFINE t == Fresh(tsx)
<1>1. Mild(tsx, t) /\ Good(t) /\ Keeps(tsx, t) /\ t.state = tsx.state
      /\ t.tp_op = tsx.tp_op /\ t.rs_op = tsx.rs_op /\ t \in TsxType
      /\ t.registered = tsx.registered /\ Reg(t) /\ NoRes(t)
  BY FreshFacts DEF Mild, Good
<1>0. t.heap = tsx.heap
  BY DEF IInv, Good, TsxType, Fresh
<1> HIDE DEF t
<1>2. ASSUME NEW e \in Timers, pj_timer_heap_poll(th, e) PROVE IInv'
  <2> DEFINE r == [Idle EXCEPT !.pc = "fired", !.timer = e]
             h == t.heap \ {e}
  <2>1. r \in ThrType /\ Holding(r)
    BY DEF Idle, ThrType, Pcs, Msgs, Holding
  <2>2. At(th, "idle") /\ e \in t.heap /\ Goto(th, r) /\ tsx' = [t EXCEPT !.heap = h]
    BY <1>0, <1>2 DEF pj_timer_heap_poll, t
  <2>3. h \in SUBSET Timers
    BY <1>1 DEF TsxType
  <2>4. tsx' \in TsxType /\ tsx'.state = t.state /\ tsx'.flag = t.flag /\ tsx'.rs_op = t.rs_op
        /\ tsx'.tp_op = t.tp_op /\ tsx'.terminating = t.terminating
        /\ tsx'.heap = h /\ tsx'.ref = t.ref /\ tsx'.registered = t.registered
    <3> HIDE DEF h, r
    <3> QED BY <1>1, <2>2, <2>3 DEF TsxType
  <2>5. Extra(tsx') = Extra(t) + 1
    BY SMTT(30), Z3T(30), <1>1, <2>2, <2>4 DEF Extra, OwnRefs, One, TsxType, Timers
  <2>6. Good(tsx') /\ Reg(tsx')
    BY <1>1, <2>4 DEF Good, Outstanding, Has, Reg
  <2> HIDE DEF r
  <2> QED BY <1>1, <2>1, <2>2, <2>4, <2>5, <2>6, StartStep DEF Keeps
<1>3. ASSUME NEW m \in Msgs, mod_tsx_layer_on_rx(th, m) PROVE IInv'
  <2> DEFINE r == [Idle EXCEPT !.pc = "rx", !.msg = m]
             n == t.ref + 1
  <2>1. r \in ThrType /\ Holding(r)
    BY DEF Idle, ThrType, Pcs, Timers, Holding
  <2>2. At(th, "idle") /\ Goto(th, r) /\ tsx' = UpdateRef(t, n)
    BY <1>3 DEF mod_tsx_layer_on_rx, t, UpdateRef
  <2>3. n \in Int
    <3>1. t.ref \in Int
      BY <1>1, OwnRefsType
    <3> QED BY <3>1
  <2>4. Good(tsx') /\ tsx'.ref = n /\ tsx'.rs_op = t.rs_op
        /\ tsx'.state = t.state /\ tsx'.registered = t.registered /\ Reg(tsx')
        /\ OwnRefs(tsx') = OwnRefs(t) /\ OwnRefs(t) \in Int /\ t.ref \in Int
    <3> HIDE DEF n
    <3>1. Good(tsx') /\ tsx'.ref = n /\ tsx'.rs_op = t.rs_op
          /\ tsx'.state = t.state /\ tsx'.registered = t.registered /\ (Reg(t) => Reg(tsx'))
          /\ OwnRefs(tsx') = OwnRefs(t) /\ OwnRefs(t) \in Int /\ t.ref \in Int
      <4>1. Good(t) /\ tsx' = UpdateRef(t, n) /\ n \in Int
        BY <1>1, <2>2, <2>3
      <4> HIDE DEF t
      <4> QED BY SMTT(30), Z3T(30), <4>1, UpdateRefGood
    <3> QED BY <1>1, <3>1
  <2>5. Extra(tsx') = Extra(tsx) + 1
    BY <1>1, <2>4 DEF Extra, Keeps
  <2> HIDE DEF r
  <2> QED BY <1>1, <2>1, <2>2, <2>4, <2>5, StartStep
<1>4. ASSUME NEW err \in BOOLEAN, transport_callback(th, err) PROVE IInv'
  <2> DEFINE r == [Idle EXCEPT !.pc = "sent", !.err = err]
             f == t.flag \ {"PENDING_TRANSPORT"}
  <2>1. r \in ThrType /\ Holding(r)
    BY DEF Idle, ThrType, Pcs, Timers, Msgs, Holding
  <2>2. At(th, "idle") /\ Goto(th, r) /\ t.tp_op # NoMsg
        /\ tsx' = [t EXCEPT !.tp_op = NoMsg, !.flag = f]
    BY <1>1, <1>4 DEF transport_callback, t, ClearFlags, TsxType
  <2>3. f \in SUBSET Flags
    BY <1>1 DEF TsxType
  <2>4. tsx' \in TsxType /\ tsx'.state = t.state /\ tsx'.rs_op = t.rs_op
        /\ tsx'.tp_op = NoMsg /\ tsx'.terminating = t.terminating
        /\ tsx'.heap = t.heap /\ tsx'.ref = t.ref /\ tsx'.registered = t.registered
        /\ tsx'.flag = f
    <3> HIDE DEF f, r
    <3> QED BY <1>1, <2>2, <2>3, MsgFacts DEF TsxType
  <2>5. Extra(tsx') = Extra(t) + 1
    BY SMTT(30), Z3T(30), <1>1, <2>2, <2>4 DEF Extra, OwnRefs, One, TsxType
  <2>6. Good(tsx') /\ t.rs_op.msg = NoMsg /\ Reg(tsx')
    BY <1>1, <2>2, <2>4 DEF Good, Outstanding, Reg, Has
  <2> HIDE DEF r
  <2> QED BY <1>1, <2>1, <2>2, <2>4, <2>5, <2>6, StartStep DEF Keeps
<1>5. ASSUME NEW res \in {"ok", "error", "retry"}, send_msg_callback(th, res) PROVE IInv'
  <2> DEFINE r == [Idle EXCEPT !.pc = "send_cb", !.res = res]
  <2>1. r \in ThrType /\ ~Holding(r) /\ r.pc = "send_cb"
    BY DEF Idle, ThrType, Pcs, Timers, Msgs, Holding
  <2>2. At(th, "idle") /\ tsx.rs_op.msg # NoMsg /\ \A x \in Threads : ~At(x, "send_cb")
    BY <1>5 DEF send_msg_callback
  <2>3. CASE tsx.rs_op.attached
    <3>1. tsx' = t /\ Goto(th, r)
      BY <1>5, <2>3 DEF send_msg_callback, t
    <3> HIDE DEF r
    <3>2. /\ thr' \in [Threads -> ThrType]
          /\ \A x \in Threads : thr'[x] = IF x = th THEN r ELSE thr[x]
          /\ Cardinality(Holders') = Cardinality(Holders)
                                     + One(Holding(r)) - One(Holding(thr[th]))
      BY <2>1, <3>1, GotoHolders DEF IInv
    <3>3. OneCallback'
      BY <1>1, <2>1, <2>2, <3>1, <3>2 DEF OneCallback, At
    <3>4. Cardinality(Holders') = Cardinality(Holders)
      BY <2>1, <2>2, <3>2, HoldersFinite DEF One, Holding, At
    <3>5. conf' = conf /\ NoRes(tsx)'
      BY <1>1, <3>1 DEF Goto, NoRes, Env
    <3>6. \A x \in Threads : At(x, "stop")' => At(x, "stop")
      BY <2>1, <3>2 DEF At
    <3>7. OneStop'
      BY <1>1, <3>1, <3>5, <3>6 DEF IInv, OneStop, Env
    <3> QED BY <1>1, <3>1, <3>2, <3>3, <3>4, <3>5, <3>7 DEF IInv, Keeps
  <2>4. CASE ~tsx.rs_op.attached
    <3>1. tsx' = [t EXCEPT !.rs_op = NoOp] /\ UNCHANGED <<conf, thr>>
      BY <1>5, <2>4 DEF send_msg_callback, t
    <3>2. tsx' \in TsxType /\ tsx'.state = t.state /\ tsx'.rs_op.msg = NoMsg
          /\ tsx'.tp_op = t.tp_op /\ tsx'.terminating = t.terminating
          /\ tsx'.heap = t.heap /\ tsx'.ref = t.ref /\ tsx'.registered = t.registered
          /\ tsx'.flag = t.flag
      BY <1>1, <3>1, MsgFacts DEF TsxType, NoOp
    <3>3. Good(tsx') /\ Extra(tsx') = Extra(tsx) /\ Reg(tsx') /\ NoRes(tsx)'
      BY <1>1, <2>2, <3>2 DEF Good, Outstanding, Has, Reg, NoRes, Extra, OwnRefs, Keeps
    <3>4. OneStop'
      BY <1>1, <3>1, <3>2 DEF IInv, OneStop, At, Env
    <3> QED BY <2>2, <3>1, <3>3, <3>4 DEF IInv, OneCallback, At, Holders
  <2> QED BY <2>3, <2>4
<1>6. CASE mod_tsx_layer_stop(th)
  <2> DEFINE r == [Idle EXCEPT !.pc = "stop"]
  <2>1. r \in ThrType /\ ~Holding(r) /\ r.pc # "send_cb"
    BY DEF Idle, ThrType, Pcs, Timers, Msgs, Holding
  <2>2. At(th, "idle") /\ Goto(th, r) /\ tsx.registered /\ ~LayerLocked
        /\ \/ tsx' = t /\ ~(tsx.state < TERMINATED)
           \/ tsx' = tsx_set_state(tsx_set_status_code(t, PJSIP_SC_TSX_TRANSPORT_ERROR),
                                   TERMINATED)
    BY <1>6 DEF mod_tsx_layer_stop, t
  <2>3. PJSIP_SC_TSX_TRANSPORT_ERROR \in Codes /\ tsx.state \in Int
    BY SMTT(30), Z3T(30) DEF Codes, PJSIP_SC_TSX_TRANSPORT_ERROR, IInv, Good, TsxType, States
  <2>4. Keeps(tsx, tsx') /\ tsx'.state >= TERMINATED /\ tsx'.registered
    <3>1. CASE tsx' = t /\ ~(tsx.state < TERMINATED)
      <4>1. t.state >= TERMINATED
        BY <1>1, <2>3, <3>1
      <4>2. t.registered
        BY <1>1, <2>2
      <4> QED BY <1>1, <3>1, <4>1, <4>2
    <3>2. CASE tsx' = tsx_set_state(tsx_set_status_code(t, PJSIP_SC_TSX_TRANSPORT_ERROR),
                                    TERMINATED)
      <4>1. Keeps(t, tsx') /\ tsx'.state = TERMINATED /\ tsx'.registered = t.registered
        BY <1>1, <2>3, <3>2, TerminateKeeps
      <4>2. Keeps(tsx, tsx')
        BY <1>1, <4>1, KeepsTransitive
      <4>3. tsx'.state >= TERMINATED
        BY <4>1
      <4> QED BY <1>1, <2>2, <4>1, <4>2, <4>3
    <3> QED BY <2>2, <3>1, <3>2
  <2>5. Extra(tsx') = Extra(tsx) + One(Holding(r)) - One(Holding(thr[th]))
    <3>1. Extra(tsx) \in Int
      BY HoldersFinite DEF IInv
    <3> QED BY <2>1, <2>2, <2>4, <3>1 DEF Keeps, One, Holding, At
  <2>6. Good(tsx') /\ Reg(tsx') /\ NoRes(tsx')
        /\ (tsx.rs_op.msg # NoMsg => tsx'.rs_op.msg # NoMsg)
        /\ ((\E x \in Threads : x # th /\ At(x, "stop")) => Over(tsx, tsx'))
    BY <2>2, <2>4 DEF Keeps, IInv, LayerLocked
  <2> HIDE DEF r
  <2> QED BY <2>1, <2>2, <2>4, <2>5, <2>6, ThreadStep
<1> QED BY <1>2, <1>3, <1>4, <1>5, <1>6 DEF Start

\* A thread goes on in its callback.
LEMMA ProceedKeeps == ASSUME Counting, IInv, NEW th \in Threads, Proceed(th) PROVE IInv'
<1> DEFINE t == Fresh(tsx)
<1>1. Mild(tsx, t) /\ Good(t) /\ Keeps(tsx, t) /\ t.rs_op = tsx.rs_op
      /\ thr[th] \in ThrType /\ Over(tsx, t) /\ t.registered = tsx.registered
      /\ t.state = tsx.state /\ t.flag = tsx.flag
  BY FreshFacts, MildOver DEF Mild, IInv, Fresh, Good, TsxType
<1> HIDE DEF t
<1>2. CASE tsx_timer_callback(th)
  <2> DEFINE e == thr[th].timer
             u == [t EXCEPT !.id[e] = TIMER_INACTIVE]
  <2>1. Holding(thr[th]) /\ e \in Timers
    BY <1>1, <1>2 DEF tsx_timer_callback, At, Holding, ThrType
  <2>2. Mild(t, u)
    <3> DEFINE ids == [t.id EXCEPT ![e] = TIMER_INACTIVE]
    <3>0. u = [t EXCEPT !.id = ids] /\ ids \in [Timers -> 0..3] /\ t \in TsxType
      <4> HIDE DEF e
      <4> QED BY SMTT(30), Z3T(30), <1>1, <2>1 DEF Good, TsxType
    <3>1. u \in TsxType /\ SameSends(t, u) /\ u.heap = t.heap /\ u.ref = t.ref
      <4> HIDE DEF ids, u
      <4> QED BY <3>0 DEF TsxType, SameSends
    <3> HIDE DEF u
    <3> QED BY <1>1, <3>1, OtherFields
  <2>3. \/ tsx' = u /\ Goto(th, [thr[th] EXCEPT !.pc = "timer"])
        \/ tsx' = u /\ Goto(th, [thr[th] EXCEPT !.pc = "transport_err"])
        \/ tsx' = DropRef(u) /\ Goto(th, Idle)
    BY <1>2 DEF tsx_timer_callback, t
  <2> HIDE DEF u
  <2>4. Keeps(tsx, u) /\ Over(tsx, u)
    BY <1>1, <2>2, KeepsTransitive, MildOver, OverTransitive DEF Mild
  <2> QED BY <2>1, <2>3, <2>4, MoveStep, EndStep
<1>3. CASE TransportErr(th)
  <2> DEFINE a == tsx_update_transport(t, "none")
             b == IF a.status_code < 200
                  THEN tsx_set_status_code(a, PJSIP_SC_TSX_TRANSPORT_ERROR) ELSE a
  <2>1. Holding(thr[th]) /\ Goto(th, [thr[th] EXCEPT !.pc = "notify"])
        /\ tsx' = tsx_set_state_no_notify(b, TERMINATED)
    BY <1>3 DEF TransportErr, At, Holding, t
  <2>2. Mild(t, a)
    BY <1>1, UpdateTransportKeeps, SameMild
  <2> HIDE DEF a
  <2>3. Mild(a, b)
    <3>1. PJSIP_SC_TSX_TRANSPORT_ERROR \in Codes
      BY SMTT(30), Z3T(30) DEF Codes, PJSIP_SC_TSX_TRANSPORT_ERROR
    <3> QED BY ZenonT(120), SMTT(30), <2>2, <3>1, StatusCodeMild, SelfMild DEF Mild, Keeps
  <2> HIDE DEF b
  <2>4. Keeps(b, tsx') /\ tsx'.state = TERMINATED /\ tsx'.registered = b.registered
    BY <2>1, <2>3, SetStateNoNotifyKeeps DEF Mild, Keeps
  <2>5. Keeps(tsx, tsx') /\ Over(tsx, tsx')
    BY <1>1, <2>2, <2>3, <2>4, KeepsTransitive DEF Mild, Over
  <2> QED BY <2>1, <2>5, MoveStep
<1>4. CASE TransportErrNotify(th)
  <2> DEFINE a == NotifyTU(t)
  <2>1. Holding(thr[th]) /\ Goto(th, Idle) /\ tsx' = DropRef(a)
    BY <1>4 DEF TransportErrNotify, At, Holding, t
  <2>2. Keeps(tsx, a) /\ Over(tsx, a)
    BY <1>1, NotifyMild, KeepsTransitive, MildOver, OverTransitive DEF Mild
  <2> HIDE DEF a
  <2> QED BY <2>1, <2>2, EndStep
<1>5. CASE TransportCallbackDone(th)
  <2> DEFINE a == IF thr[th].err THEN PostTransportErr(t) ELSE t
  <2>1. Holding(thr[th]) /\ Goto(th, Idle) /\ tsx' = DropRef(a)
    BY <1>5 DEF TransportCallbackDone, At, Holding, t
  <2>2. Keeps(tsx, a) /\ Over(tsx, a)
    BY <1>1, PostKeeps, KeepsTransitive DEF SameSends, Over
  <2> HIDE DEF a
  <2> QED BY <2>1, <2>2, EndStep
<1>6. CASE LayerStopShutdown(th)
  <2>1. At(th, "stop") /\ ~Holding(thr[th]) /\ Goto(th, Idle)
        /\ tsx' = tsx_shutdown(mod_tsx_layer_unregister_tsx(t))
    BY <1>6 DEF LayerStopShutdown, At, Holding, t
  <2>2. Keeps(t, tsx')
    BY <1>1, <2>1, DestroyKeeps
  <2>3. Keeps(tsx, tsx')
    BY <1>1, <2>2, KeepsTransitive
  <2>4. Extra(tsx') = Extra(tsx) + One(Holding(Idle)) - One(Holding(thr[th]))
    <3>1. Extra(tsx) \in Int
      BY HoldersFinite DEF IInv
    <3>2. One(Holding(Idle)) = 0 /\ One(Holding(thr[th])) = 0
      BY <2>1, IdleType DEF One
    <3>3. Extra(tsx') = Extra(tsx)
      BY <2>3 DEF Keeps
    <3> QED BY <3>1, <3>2, <3>3
  <2>5. Good(tsx') /\ Reg(tsx') /\ NoRes(tsx')
        /\ (tsx.rs_op.msg # NoMsg => tsx'.rs_op.msg # NoMsg)
        /\ ~(\E x \in Threads : x # th /\ At(x, "stop"))
    BY <2>1, <2>3 DEF Keeps, IInv, OneStop
  <2> QED BY <2>1, <2>4, <2>5, IdleType, ThreadStep
<1>7. ASSUME NEW ev, ev.msg \in Msgs, NEW o \in Outcomes, Holding(thr[th]), Goto(th, Idle),
             tsx' = DropRef(state_handler(t, ev, o).tsx),
             ev.type = "TIMER" => ~(LayerLocked /\ tsx.state = TERMINATED)
      PROVE  IInv'
  <2> DEFINE h == state_handler(t, ev, o)
             a == h.tsx
  <2>1. Keeps(t, a)
    BY <1>1, <1>7, HandlerKeeps
  <2>2. LayerLocked => a = t
    <3>1. LayerLocked => t.state >= TERMINATED
                         /\ (ev.type # "TIMER" \/ t.state # TERMINATED)
      BY <1>1, <1>7, LockedOver
    <3>2. h = state_handler(t, ev, o)
      OBVIOUS
    <3> HIDE DEF h
    <3> QED BY SMTT(30), Z3T(30), <1>1, <3>1, <3>2, HandlerOver
  <2> HIDE DEF h
  <2>3. Keeps(tsx, a) /\ (LayerLocked => Over(tsx, a))
    BY <1>1, <2>1, <2>2, KeepsTransitive
  <2> QED BY <1>7, <2>3, EndStep DEF h
<1>8. ASSUME NEW o \in Outcomes, TimerDispatch(th, o) PROVE IInv'
  <2>1. TimerEvent(thr[th].timer).msg \in Msgs
    BY MsgFacts DEF TimerEvent
  <2>2. Holding(thr[th]) /\ ~(LayerLocked /\ tsx.state = TERMINATED)
    BY <1>8 DEF TimerDispatch, At, Holding
  <2> QED BY <1>7, <1>8, <2>1, <2>2 DEF TimerDispatch, t
<1>9. ASSUME NEW o \in Outcomes, RecvMsg(th, o) PROVE IInv'
  <2>1. RxEvent(thr[th].msg).msg \in Msgs /\ RxEvent(thr[th].msg).type # "TIMER"
    BY <1>1 DEF RxEvent, ThrType
  <2>2. Holding(thr[th])
    BY <1>9 DEF RecvMsg, At, Holding
  <2> QED BY <1>7, <1>9, <2>1, <2>2 DEF RecvMsg, t
<1>10. ASSUME NEW o \in Outcomes, SendCallback(th, o) PROVE IInv'
  <2>1. At(th, "send_cb") /\ Goto(th, Idle) /\ ~Holding(thr[th])
        /\ \/ tsx' = SendCallbackOk(t, o)
           \/ tsx' = SendCallbackFailed(t)
           \/ tsx' = SendCallbackRetry(t)
    BY <1>10 DEF SendCallback, t, At, Holding
  <2>2. t.rs_op.msg # NoMsg /\ "resolve" \in Env /\ Reg(tsx)
    BY <1>1, <2>1 DEF IInv, OneCallback, NoRes
  <2>3. Good(tsx') /\ Extra(tsx') = Extra(tsx) /\ Reg(tsx')
        /\ (tsx'.state = tsx.state \/ tsx'.state >= TERMINATED)
    <3>1. CASE tsx' = SendCallbackOk(t, o)
      BY <1>1, <2>2, <3>1, SendCallbackOkSends DEF Sends, Keeps
    <3>2. CASE tsx' = SendCallbackFailed(t)
      BY <1>1, <2>2, <3>2, SendCallbackFailedSends DEF Sends, Keeps
    <3>3. CASE tsx' = SendCallbackRetry(t)
      BY <1>1, <2>2, <3>3, SendCallbackRetryKeeps DEF Keeps
    <3> QED BY <2>1, <3>1, <3>2, <3>3
  <2>4. /\ thr' \in [Threads -> ThrType]
        /\ \A x \in Threads : thr'[x] = IF x = th THEN Idle ELSE thr[x]
        /\ Cardinality(Holders') = Cardinality(Holders)
                                   + One(Holding(Idle)) - One(Holding(thr[th]))
    BY <2>1, IdleType, GotoHolders DEF IInv
  <2>5. OneCallback'
    BY <2>1, <2>4, IdleType DEF IInv, OneCallback, At
  <2>6. Cardinality(Holders') = Cardinality(Holders)
    <3>1. One(Holding(Idle)) = 0 /\ One(Holding(thr[th])) = 0
      BY <2>1, IdleType DEF One
    <3> QED BY <2>4, <3>1, HoldersFinite
  <2>7. conf' = conf /\ NoRes(tsx)'
    BY <2>1, <2>2 DEF Goto, NoRes, Env
  <2>8. \A x \in Threads : At(x, "stop")' => At(x, "stop")
    BY <2>4, IdleType DEF At
  <2>9. OneStop'
    BY <2>2, <2>3, <2>7, <2>8 DEF IInv, OneStop, Env
  <2> QED BY <2>3, <2>4, <2>5, <2>6, <2>7, <2>9 DEF IInv
<1> QED BY <1>2, <1>3, <1>4, <1>5, <1>6, <1>8, <1>9, <1>10 DEF Proceed

\* A created transaction: pjsip_tsx_create_uac2() and _uas2().
LEMMA InitIInv == ASSUME Counting, Init PROVE IInv
<1>1. ASSUME NEW rel \in Reliables
      PROVE  LET t == tsx_create(rel)
             IN  Good(t) /\ Extra(t) = 0 /\ Reg(t) /\ NoRes(t)
  <2> DEFINE t == tsx_create(rel)
  <2>1. rel \in BOOLEAN /\ <<>> \in Seq(States)
    BY TsxAssumption
  <2>2. t \in TsxType
    <3>1. NULL \in States /\ 0 \in Codes /\ TIMER_INACTIVE \in 0..3 /\ 1 \in Int
      BY DEF States, Codes
    <3>2. [e \in Timers |-> TIMER_INACTIVE] \in [Timers -> 0..3]
      BY <3>1
    <3> QED BY <2>1, <3>1, <3>2, MsgFacts DEF tsx_create, TsxType, NoOp
  <2>3. t.rs_op.msg = NoMsg /\ t.tp_op = NoMsg /\ t.heap = {} /\ ~t.terminating /\ t.ref = 1
        /\ t.registered /\ t.flag = {}
    BY DEF tsx_create, NoOp
  <2> HIDE DEF t
  <2>4. Good(t) /\ Extra(t) = 0 /\ Reg(t) /\ NoRes(t)
    BY <2>2, <2>3 DEF Good, Outstanding, Reg, NoRes, Has, Extra, OwnRefs, One
  <2> QED BY <2>4 DEF t
<1>2. Good(tsx) /\ Extra(tsx) = 0 /\ Reg(tsx) /\ NoRes(tsx)
  <2>1. PICK rel \in Reliables :
           \/ tsx = tsx_create(rel)
           \/ \E tp \in UasTransports : tsx = tsx_update_transport(tsx_create(rel), tp)
    BY DEF Init, pjsip_tsx_create_uac, pjsip_tsx_create_uas
  <2> DEFINE t == tsx_create(rel)
  <2>2. Good(t) /\ Extra(t) = 0 /\ Reg(t) /\ NoRes(t)
    BY <1>1
  <2> HIDE DEF t
  <2>3. ASSUME NEW tp \in UasTransports, tsx = tsx_update_transport(t, tp)
        PROVE  Good(tsx) /\ Extra(tsx) = 0 /\ Reg(tsx) /\ NoRes(tsx)
    <3>1. tp \in {"none", "up", "down"}
      BY DEF UasTransports
    <3> QED BY <2>2, <2>3, <3>1, UpdateTransportKeeps DEF Keeps
  <2> QED BY <2>1, <2>2, <2>3 DEF t
<1>3. thr \in [Threads -> ThrType] /\ \A th \in Threads : thr[th] = Idle
  BY IdleType DEF Init
<1>4. Holders = {} /\ OneCallback /\ OneStop
  BY <1>3, IdleType DEF Holders, Holding, OneCallback, OneStop, At
<1>5. Cardinality(Holders) = 0
  BY <1>4, HoldersFinite DEF Counting
<1> QED BY <1>2, <1>3, <1>4, <1>5 DEF IInv

\* Every step keeps the invariant.
LEMMA NextIInv == ASSUME Counting, IInv, [Next]_vars PROVE IInv'
<1>1. CASE UserStep
  BY <1>1, UserStepKeeps
<1>2. ASSUME NEW th \in Threads, Start(th) \/ Proceed(th) PROVE IInv'
  BY <1>2, StartKeeps, ProceedKeeps
<1>3. CASE tsx_tp_state_callback
  <2> DEFINE t == Fresh(tsx)
  <2>1. Good(t) /\ Keeps(tsx, t) /\ Mild(tsx, t)
    BY FreshFacts
  <2>2. UNCHANGED <<conf, thr>> /\ tsx' = PostTransportErr(t)
    BY <1>3 DEF tsx_tp_state_callback
  <2> HIDE DEF t
  <2>3. Keeps(tsx, tsx') /\ Over(tsx, tsx')
    BY <2>1, <2>2, PostKeeps, KeepsTransitive DEF SameSends, Over, Mild
  <2> QED BY <2>2, <2>3, StayStep
<1>4. CASE ResolverSends
  <2> DEFINE t == Fresh(tsx)
             u == Emit(t, tsx.rs_op.msg)
  <2>1. Mild(tsx, t) /\ Good(t)
    BY FreshFacts
  <2>2. UNCHANGED <<conf, thr>> /\ tsx' = [u EXCEPT !.rs_op.sending = TRUE] /\ tsx.rs_op.msg \in Msgs
    BY <1>4 DEF ResolverSends, IInv, Good, TsxType
  <2> HIDE DEF t
  <2>3. Mild(t, u)
    BY <2>1, <2>2, EmitMild
  <2> HIDE DEF u
  <2>4. Good(u) /\ Keeps(tsx, u)
    BY <2>1, <2>3, KeepsTransitive DEF Mild, Keeps
  <2>5. tsx' \in TsxType /\ tsx'.state = u.state /\ tsx'.flag = u.flag
        /\ tsx'.rs_op.msg = u.rs_op.msg /\ tsx'.tp_op = u.tp_op
        /\ tsx'.terminating = u.terminating /\ tsx'.heap = u.heap /\ tsx'.ref = u.ref
        /\ tsx'.registered = u.registered
    BY <2>2, <2>4 DEF Good, TsxType
  <2>6. Keeps(u, tsx')
    BY <2>4, <2>5 DEF Keeps, Good, Outstanding, Has, Reg, NoRes, Extra, OwnRefs
  <2>7. Over(tsx, tsx')
    BY <2>1, <2>3, <2>5 DEF Mild, Over
  <2> QED BY <2>2, <2>4, <2>6, <2>7, KeepsTransitive, StayStep
<1>5. CASE Destroyed \/ UNCHANGED vars
  <2>1. UNCHANGED vars
    BY <1>5 DEF Destroyed
  <2> QED BY <2>1 DEF vars, IInv, OneCallback, OneStop, NoRes, Env, At, Holders
<1> QED BY <1>1, <1>2, <1>3, <1>4, <1>5 DEF Next

\* No thread is in a callback of the transaction, or about to shut it down in
\* mod_tsx_layer_stop(), when its group lock has been destroyed: either the thread
\* holds a reference, or the one that tsx_shutdown() drops is still there.
LEMMA InvariantAlive == ASSUME Counting, IInv PROVE NoUseAfterDestroy
<1> SUFFICES ASSUME "resolve" \notin Env, NEW th \in Threads, ~At(th, "idle")
             PROVE  Alive
  BY DEF NoUseAfterDestroy
<1>1. tsx \in TsxType /\ thr[th] \in ThrType /\ RefCounted
  BY IInvImplies DEF IInv, Good
<1>2. Cardinality(Holders) \in Nat /\ IsFiniteSet(Holders)
  BY HoldersFinite
<1>3. OwnRefs(tsx) \in Nat /\ (~tsx.terminating => OwnRefs(tsx) > 0)
  BY <1>1 DEF OwnRefs, One
<1>4. CASE th \in Holders
  <2>1. Cardinality(Holders) # 0
    BY <1>2, <1>4 DEF Counting
  <2> QED BY <1>1, <1>2, <1>3, <2>1 DEF RefCounted, Alive
<1>5. CASE At(th, "stop")
  <2>1. ~tsx.terminating
    BY <1>5 DEF IInv, OneStop, Reg
  <2> QED BY <1>1, <1>2, <1>3, <2>1 DEF RefCounted, Alive
<1>6. ~At(th, "send_cb")
  BY DEF IInv, OneCallback, NoRes
<1> QED BY <1>1, <1>4, <1>5, <1>6 DEF ThrType, Pcs, Holders, At

----------------------------------------------------------------------------
(* The state never goes back.                                               *)

\* What a thread may be in the middle of.  A posted transport error is handled
\* without having looked at the state under the lock: the thread that polls
\* alone still finds a transaction that is not destroyed.
ThreadOk(r, th) ==
    /\ r.pc # "idle" => th \in conf.threads
    /\ r.pc = "sent" /\ r.err => MayPostError
    /\ r.pc = "transport_err" => MayPostError /\ (Alone => tsx.state <= TERMINATED)

SInv ==
    /\ conf \in Configs
    /\ Core(tsx) /\ Unsent(tsx)
    /\ \A th \in Threads : ThreadOk(thr[th], th)

\* A thread that polls alone is the only one.
LEMMA OneThread ==
    ASSUME Counting, conf \in Configs, Alone, NEW x \in conf.threads, NEW y \in conf.threads
    PROVE  x = y
<1>1. conf.threads \subseteq Threads /\ IsFiniteSet(Threads)
  BY TsxAssumption DEF ConfigType
<1>2. IsFiniteSet(conf.threads)
  BY <1>1 DEF Counting
<1>3. PICK z : conf.threads = {z}
  BY <1>2 DEF Alone, Counting
<1> QED BY <1>3

\* A transaction is a client or a server.
LEMMA RoleType == ASSUME conf \in Configs PROVE Role \in {"UAC", "UAS"}
  BY TsxAssumption DEF ConfigType, Role

\* A step of one thread.
LEMMA ThreadBack ==
    ASSUME Counting, IInv, SInv, NEW th \in Threads, th \in conf.threads, NEW r \in ThrType, Goto(th, r),
           Core(tsx'), Unsent(tsx'),
           r.pc = "sent" /\ r.err => MayPostError,
           r.pc = "transport_err" => MayPostError /\ tsx'.state <= TERMINATED
    PROVE  SInv'
<1>1. conf' = conf /\ \A x \in Threads : thr'[x] = IF x = th THEN r ELSE thr[x]
  BY DEF Goto, IInv
<1>2. Core(tsx)' /\ Unsent(tsx)'
  BY <1>1 DEF Core, Prior, Unsent, Unposted, MayPostError, Role, Env, Served, Has
<1>3. (MayPostError' <=> MayPostError) /\ (Alone' <=> Alone)
  BY <1>1 DEF MayPostError, Alone, Env
<1>4. ASSUME NEW x \in Threads PROVE ThreadOk(thr[x], x)'
  <2>1. CASE x = th
    <3>1. thr'[x] = r
      BY <1>1, <2>1
    <3> QED BY <1>1, <1>3, <2>1, <3>1 DEF ThreadOk
  <2>2. CASE x # th
    <3>1. thr'[x] = thr[x] /\ ThreadOk(thr[x], x)
      BY <1>1, <2>2 DEF SInv
    <3>2. thr[x].pc = "transport_err" => ~Alone
      BY <2>2, <3>1, OneThread DEF ThreadOk, SInv
    <3> QED BY <1>1, <1>3, <3>1, <3>2 DEF ThreadOk
  <2> QED BY <2>1, <2>2
<1> QED BY <1>1, <1>2, <1>4 DEF SInv

\* A step of the user, the transport or the resolver.
LEMMA StayBack ==
    ASSUME SInv, UNCHANGED <<conf, thr>>, Core(tsx'), Unsent(tsx'),
           tsx.state <= TERMINATED => tsx'.state <= TERMINATED
    PROVE  SInv'
<1>1. Core(tsx)' /\ Unsent(tsx)'
  BY DEF Core, Prior, Unsent, Unposted, MayPostError, Role, Env, Served, Has
<1>2. (MayPostError' <=> MayPostError) /\ (Alone' <=> Alone)
  BY DEF MayPostError, Alone, Env
<1> QED BY <1>1, <1>2 DEF SInv, ThreadOk

\* A record that differs in its heap, its references or its resolution only.
LEMMA SameCore ==
    ASSUME NEW t, NEW u, Core(t), Unsent(t), u.state = t.state, u.terminating = t.terminating,
           u.last_tx = t.last_tx, u.flag = t.flag, u.transport = t.transport,
           u.tp_op = t.tp_op, u.id = t.id
    PROVE  Core(u) /\ Unsent(u)
  BY DEF Core, Prior, Unsent, Unposted, Served, Has

\* Dropping a reference, the last one included.
LEMMA DropRefCore ==
    ASSUME NEW t, Good(t), Core(t), Unsent(t), NEW u, u = DropRef(t)
    PROVE  Core(u) /\ Unsent(u) /\ u.state = t.state
<1>1. /\ u.terminating = t.terminating /\ u.last_tx = t.last_tx /\ u.flag = t.flag
      /\ u.transport = t.transport /\ u.tp_op = t.tp_op /\ u.id = t.id /\ u.state = t.state
  BY DEF DropRef, Good, TsxType
<1> QED BY <1>1, SameCore

\* The transaction at the start of a step.
LEMMA FreshCore ==
    ASSUME IInv, SInv
    PROVE  /\ Calm(tsx, Fresh(tsx)) /\ Good(Fresh(tsx)) /\ Reg(Fresh(tsx))
           /\ Core(Fresh(tsx)) /\ Unsent(Fresh(tsx)) /\ Fresh(tsx).state = tsx.state
           /\ tsx.state \in 0..7
<1>1. Calm(tsx, Fresh(tsx)) /\ tsx.state \in 0..7
  BY FreshCalm DEF IInv, Good, TsxType, States
<1>2. Reg(Fresh(tsx))
  BY FreshFacts
<1> QED BY <1>1, <1>2, CalmGood, CalmCore DEF SInv

\* The calls of the user.
LEMMA UserBack == ASSUME IInv, SInv, UserStep PROVE SInv' /\ tsx'.state >= tsx.state
<1> DEFINE t == Fresh(tsx)
<1>1. /\ Calm(tsx, t) /\ Good(t) /\ Reg(t) /\ Core(t) /\ Unsent(t) /\ t.state = tsx.state
      /\ tsx.state \in 0..7
  BY FreshCore
<1>2. tsx.state < TERMINATED /\ Role \in {"UAC", "UAS"}
  BY RoleType DEF SInv, UserStep, UserHasTsx, pjsip_tsx_send_msg, pjsip_tsx_recv_msg,
         pjsip_tsx_retransmit_no_state, pjsip_tsx_terminate, pjsip_tsx_stop_retransmit,
         pjsip_tsx_set_timeout
<1> HIDE DEF t
<1>3. ASSUME UNCHANGED <<conf, thr>>, Core(tsx'), Unsent(tsx'), tsx'.state >= t.state,
             tsx'.state <= TERMINATED
      PROVE  SInv' /\ tsx'.state >= tsx.state
  BY <1>1, <1>3, StayBack
<1>4. ASSUME UNCHANGED <<conf, thr>>, Calm(t, tsx')
      PROVE  SInv' /\ tsx'.state >= tsx.state
  <2>1. Core(tsx') /\ Unsent(tsx') /\ tsx'.state = t.state
    BY <1>1, <1>4, CalmGood, CalmCore
  <2> QED BY <1>1, <1>2, <1>3, <1>4, <2>1
<1>5. ASSUME NEW ev, ev.msg \in Msgs, NEW o \in Outcomes, UNCHANGED <<conf, thr>>,
             tsx' = state_handler(t, ev, o).tsx
      PROVE  SInv' /\ tsx'.state >= tsx.state
  <2>1. Core(tsx') /\ tsx'.state >= t.state /\ Unsent(tsx') /\ tsx'.state <= TERMINATED
    BY <1>1, <1>2, <1>5, HandlerFwd
  <2> QED BY <1>3, <1>5, <2>1
<1>6. ASSUME NEW m \in Msgs, NEW o \in Outcomes, pjsip_tsx_send_msg(m, o)
      PROVE  SInv' /\ tsx'.state >= tsx.state
  <2>1. TxEvent(m).msg = m
    BY DEF TxEvent
  <2> QED BY <1>5, <1>6, <2>1 DEF pjsip_tsx_send_msg, t
<1>7. ASSUME NEW o \in Outcomes, pjsip_tsx_recv_msg(o)
      PROVE  SInv' /\ tsx'.state >= tsx.state
  <2>1. RxEvent(REQ).msg \in Msgs
    BY MsgFacts DEF RxEvent
  <2> QED BY <1>5, <1>7, <2>1 DEF pjsip_tsx_recv_msg, t
<1>8. ASSUME NEW o \in Outcomes, pjsip_tsx_retransmit_no_state(o)
      PROVE  SInv' /\ tsx'.state >= tsx.state
  <2>1. Ready(t) /\ tsx.last_tx \in Msgs
    BY <1>1, <1>2 DEF Ready, Settled, IInv, Good, TsxType
  <2>2. UNCHANGED <<conf, thr>> /\ tsx' = tsx_send_msg(t, tsx.last_tx, o).tsx
        /\ tsx.last_tx # NoMsg /\ tsx.state = PROCEEDING
    BY <1>8 DEF pjsip_tsx_retransmit_no_state, t
  <2>3. Fwd(t, tsx')
    BY <2>1, <2>2, SendReady
  <2>4. Unsent(tsx')
    BY <1>1, <2>2, <2>3 DEF Fwd, Unsent
  <2> QED BY <1>3, <2>2, <2>3, <2>4 DEF Fwd
<1>9. CASE pjsip_tsx_terminate
  <2> DEFINE a == tsx_set_status_code(t, UserCode)
  <2>1. UNCHANGED <<conf, thr>> /\ UserCode \in Codes /\ tsx' = tsx_set_state(a, TERMINATED)
    BY SMTT(30), Z3T(30), <1>9 DEF pjsip_tsx_terminate, t, UserCode, Codes
  <2>2. Calm(t, a)
    BY <1>1, <2>1, StatusCodeCalm
  <2> HIDE DEF a
  <2>3. Core(tsx') /\ tsx'.state = TERMINATED
    BY SMTT(30), Z3T(30), <1>1, <2>1, <2>2, CalmGood, CalmCore, TerminateCore DEF Core
  <2>4. Unsent(tsx')
    BY <2>3 DEF Unsent
  <2> QED BY <1>1, <1>2, <1>3, <2>1, <2>3, <2>4
<1>10. CASE pjsip_tsx_stop_retransmit
  <2>1. UNCHANGED <<conf, thr>> /\ tsx' = tsx_cancel_timer(t, "retransmit")
    BY <1>10 DEF pjsip_tsx_stop_retransmit, t
  <2> QED BY <1>1, <1>4, <2>1, CancelCalm DEF Timers
<1>11. CASE pjsip_tsx_set_timeout
  <2>1. UNCHANGED <<conf, thr>> /\ tsx' = RestartTimeout(t, TIMEOUT_TIMER)
    BY <1>11 DEF pjsip_tsx_set_timeout, t
  <2> QED BY <1>1, <1>4, <2>1, RestartCalm
<1> QED BY <1>6, <1>7, <1>8, <1>9, <1>10, <1>11 DEF UserStep

\* A thread enters a callback, or takes an expired timer.
LEMMA StartBack ==
    ASSUME Counting, IInv, SInv, NEW th \in Threads, Start(th) PROVE SInv' /\ tsx'.state >= tsx.state
<1> DEFINE t == Fresh(tsx)
<1>1. /\ Calm(tsx, t) /\ Good(t) /\ Core(t) /\ Unsent(t) /\ t.state = tsx.state
      /\ tsx.state \in 0..7 /\ th \in conf.threads
  BY FreshCore DEF Start
<1>0. t \in TsxType /\ t.tp_op = tsx.tp_op
  BY <1>1 DEF Good, Calm, Mild
<1> HIDE DEF t
<1>2. ASSUME NEW r \in ThrType, Goto(th, r), r.pc # "transport_err",
             r.pc = "sent" /\ r.err => MayPostError, Core(tsx'), Unsent(tsx'),
             tsx'.state >= t.state
      PROVE  SInv' /\ tsx'.state >= tsx.state
  BY <1>1, <1>2, ThreadBack
<1>3. ASSUME NEW e \in Timers, pj_timer_heap_poll(th, e) PROVE SInv' /\ tsx'.state >= tsx.state
  <2> DEFINE r == [Idle EXCEPT !.pc = "fired", !.timer = e]
             h == t.heap \ {e}
  <2>1. r \in ThrType /\ r.pc = "fired"
    BY DEF Idle, ThrType, Pcs, Msgs
  <2>2. Goto(th, r) /\ tsx' = [t EXCEPT !.heap = h]
    BY <1>3 DEF pj_timer_heap_poll, t
  <2>3. /\ tsx'.terminating = t.terminating /\ tsx'.last_tx = t.last_tx /\ tsx'.flag = t.flag
        /\ tsx'.transport = t.transport /\ tsx'.tp_op = t.tp_op /\ tsx'.id = t.id
        /\ tsx'.state = t.state
    <3> HIDE DEF h, r
    <3> QED BY <1>0, <2>2 DEF TsxType
  <2>4. Core(tsx') /\ Unsent(tsx') /\ tsx'.state >= t.state
    BY <1>1, <2>3, SameCore
  <2> HIDE DEF r
  <2> QED BY <1>2, <2>1, <2>2, <2>4
<1>4. ASSUME NEW m \in Msgs, mod_tsx_layer_on_rx(th, m) PROVE SInv' /\ tsx'.state >= tsx.state
  <2> DEFINE r == [Idle EXCEPT !.pc = "rx", !.msg = m]
             n == t.ref + 1
  <2>1. r \in ThrType /\ r.pc = "rx"
    BY DEF Idle, ThrType, Pcs, Timers
  <2>2. Goto(th, r) /\ tsx' = UpdateRef(t, n)
    BY <1>4 DEF mod_tsx_layer_on_rx, t, UpdateRef
  <2>3. /\ tsx'.terminating = t.terminating /\ tsx'.last_tx = t.last_tx /\ tsx'.flag = t.flag
        /\ tsx'.transport = t.transport /\ tsx'.tp_op = t.tp_op /\ tsx'.id = t.id
        /\ tsx'.state = t.state
    <3> HIDE DEF n, r
    <3> QED BY <1>0, <2>2 DEF TsxType, UpdateRef
  <2>4. Core(tsx') /\ Unsent(tsx') /\ tsx'.state >= t.state
    BY <1>1, <2>3, SameCore
  <2> HIDE DEF r
  <2> QED BY <1>2, <2>1, <2>2, <2>4
<1>5. ASSUME NEW err \in BOOLEAN, transport_callback(th, err)
      PROVE  SInv' /\ tsx'.state >= tsx.state
  <2> DEFINE r == [Idle EXCEPT !.pc = "sent", !.err = err]
             f == t.flag \ {"PENDING_TRANSPORT"}
  <2>1. r \in ThrType /\ r.pc = "sent" /\ r.err = err
    BY DEF Idle, ThrType, Pcs, Timers, Msgs
  <2>2. Goto(th, r) /\ t.tp_op # NoMsg /\ (err => "send_error" \in Env)
        /\ tsx' = [t EXCEPT !.tp_op = NoMsg, !.flag = f]
    BY <1>0, <1>5 DEF transport_callback, t, ClearFlags, TsxType
  <2>3. /\ tsx'.terminating = t.terminating /\ tsx'.last_tx = t.last_tx /\ tsx'.flag = f
        /\ tsx'.transport = t.transport /\ tsx'.tp_op = NoMsg /\ tsx'.id = t.id
        /\ tsx'.state = t.state
    <3> HIDE DEF f, r
    <3> QED BY <1>0, <2>2 DEF TsxType
  <2>4. Unposted(tsx') /\ "pending" \in Env
    BY <1>1, <2>2, <2>3 DEF Core, Prior, Unposted
  <2>5. Core(tsx') /\ Unsent(tsx') /\ tsx'.state >= t.state
    BY SMTT(30), Z3T(30), <1>1, <2>2, <2>3, <2>4 DEF Core, Prior, Unsent, Served, Has
  <2>6. r.pc = "sent" /\ r.err => MayPostError
    BY <2>1, <2>2, <2>4 DEF MayPostError
  <2> HIDE DEF r
  <2> QED BY <1>2, <2>1, <2>2, <2>5, <2>6
<1>6. ASSUME NEW res \in {"ok", "error", "retry"}, send_msg_callback(th, res)
      PROVE  SInv' /\ tsx'.state >= tsx.state
  <2> DEFINE r == [Idle EXCEPT !.pc = "send_cb", !.res = res]
  <2>1. r \in ThrType /\ r.pc = "send_cb"
    BY DEF Idle, ThrType, Pcs, Timers, Msgs
  <2>2. CASE tsx.rs_op.attached
    <3>1. tsx' = t /\ Goto(th, r)
      BY <1>6, <2>2 DEF send_msg_callback, t
    <3>2. tsx'.state >= t.state
      BY <1>1, <3>1
    <3> HIDE DEF r
    <3> QED BY <1>1, <1>2, <2>1, <3>1, <3>2
  <2>3. CASE ~tsx.rs_op.attached
    <3>1. tsx' = [t EXCEPT !.rs_op = NoOp] /\ UNCHANGED <<conf, thr>>
      BY <1>6, <2>3 DEF send_msg_callback, t
    <3>2. /\ tsx'.terminating = t.terminating /\ tsx'.last_tx = t.last_tx
          /\ tsx'.flag = t.flag /\ tsx'.transport = t.transport /\ tsx'.tp_op = t.tp_op
          /\ tsx'.id = t.id /\ tsx'.state = t.state
      BY <1>0, <3>1 DEF TsxType
    <3>3. Core(tsx') /\ Unsent(tsx') /\ tsx'.state = tsx.state
      BY <1>1, <3>2, SameCore
    <3> QED BY <1>1, <3>1, <3>3, StayBack
  <2> QED BY <2>2, <2>3
<1>7. CASE mod_tsx_layer_stop(th)
  <2> DEFINE r == [Idle EXCEPT !.pc = "stop"]
             a == tsx_set_status_code(t, PJSIP_SC_TSX_TRANSPORT_ERROR)
  <2>1. r \in ThrType /\ r.pc = "stop"
    BY DEF Idle, ThrType, Pcs, Timers, Msgs
  <2>2. Goto(th, r) /\ (tsx' = t \/ (tsx.state < TERMINATED /\ tsx' = tsx_set_state(a, TERMINATED)))
    BY <1>7 DEF mod_tsx_layer_stop, t
  <2>3. PJSIP_SC_TSX_TRANSPORT_ERROR \in Codes
    BY SMTT(30), Z3T(30) DEF Codes, PJSIP_SC_TSX_TRANSPORT_ERROR
  <2>4. Calm(t, a)
    BY <1>1, <2>3, StatusCodeCalm
  <2> HIDE DEF a
  <2>5. Core(tsx') /\ Unsent(tsx') /\ tsx'.state >= t.state
    <3>1. CASE tsx' = t
      BY <1>1, <3>1
    <3>2. CASE tsx.state < TERMINATED /\ tsx' = tsx_set_state(a, TERMINATED)
      <4>1. Core(tsx') /\ tsx'.state = TERMINATED
        BY SMTT(30), Z3T(30), <1>1, <2>4, <3>2, CalmGood, CalmCore, TerminateCore DEF Core
      <4> QED BY <1>1, <3>2, <4>1 DEF Unsent
    <3> QED BY <2>2, <3>1, <3>2
  <2> HIDE DEF r
  <2> QED BY <1>2, <2>1, <2>2, <2>5
<1> QED BY <1>3, <1>4, <1>5, <1>6, <1>7 DEF Start

\* A thread that handles a posted transport error is the one step that may go
\* back, from Destroyed to Terminated.
LEMMA ProceedBack ==
    ASSUME Counting, IInv, SInv, NEW th \in Threads, Proceed(th)
    PROVE  SInv' /\ (Alone \/ ~MayPostError => tsx'.state >= tsx.state)
<1> DEFINE t == Fresh(tsx)
<1>1. /\ Calm(tsx, t) /\ Good(t) /\ Reg(t) /\ Core(t) /\ Unsent(t) /\ t.state = tsx.state
      /\ tsx.state \in 0..7 /\ thr[th] \in ThrType
  BY FreshCore DEF IInv
<1>2. th \in conf.threads /\ Role \in {"UAC", "UAS"} /\ ThreadOk(thr[th], th)
  <2>1. thr[th].pc # "idle"
    BY DEF Proceed, tsx_timer_callback, TransportErr, TransportErrNotify,
           TransportCallbackDone, LayerStopShutdown, TimerDispatch, RecvMsg, SendCallback, At
  <2> QED BY <2>1, RoleType DEF SInv, ThreadOk
<1> HIDE DEF t
<1>3. ASSUME NEW u, Good(u), Core(u), Unsent(u), u.state >= t.state,
             tsx' = u \/ tsx' = DropRef(u), Goto(th, Idle)
      PROVE  SInv' /\ tsx'.state >= tsx.state
  <2>1. Core(tsx') /\ Unsent(tsx') /\ tsx'.state = u.state
    BY <1>3, DropRefCore
  <2>2. Idle \in ThrType /\ Idle.pc = "idle"
    BY IdleType
  <2>3. SInv'
    BY <1>2, <1>3, <2>1, <2>2, ThreadBack
  <2> QED BY <1>1, <1>3, <2>1, <2>3
<1>4. CASE tsx_timer_callback(th)
  <2> DEFINE e == thr[th].timer
             ids == [t.id EXCEPT ![e] = TIMER_INACTIVE]
             u == [t EXCEPT !.id = ids]
  <2>1. e \in Timers /\ t \in TsxType /\ t.id \in [Timers -> 0..3] /\ t.id = tsx.id
    BY <1>1 DEF ThrType, Good, TsxType, IInv, Fresh, t
  <2>2. ids \in [Timers -> 0..3] /\ Unposted(u) /\ [t EXCEPT !.id[e] = TIMER_INACTIVE] = u
    <3> HIDE DEF e
    <3>1. ids \in [Timers -> 0..3] /\ [t EXCEPT !.id[e] = TIMER_INACTIVE] = u
      BY SMTT(30), Z3T(30), <2>1 DEF TsxType
    <3>2. u.id = ids
      <4> HIDE DEF ids
      <4> QED BY <2>1 DEF TsxType
    <3> QED BY SMTT(30), Z3T(30), <1>1, <2>1, <3>1, <3>2 DEF Unposted, Core, Prior
  <2>3. \/ tsx' = u /\ Goto(th, [thr[th] EXCEPT !.pc = "timer"])
        \/ /\ tsx' = u /\ Goto(th, [thr[th] EXCEPT !.pc = "transport_err"])
           /\ tsx.state < TERMINATED /\ tsx.id[e] = TRANSPORT_ERR_TIMER
        \/ tsx' = DropRef(u) /\ Goto(th, Idle)
    BY <1>4, <2>2 DEF tsx_timer_callback, t
  <2>4. /\ u \in TsxType /\ u.terminating = t.terminating /\ u.last_tx = t.last_tx
        /\ u.flag = t.flag /\ u.transport = t.transport /\ u.tp_op = t.tp_op
        /\ u.state = t.state /\ u.rs_op = t.rs_op
    <3> HIDE DEF ids
    <3> QED BY <2>1, <2>2 DEF TsxType
  <2> HIDE DEF u, ids
  <2>5. Core(u) /\ Unsent(u)
    BY <1>1, <2>2, <2>4 DEF Core, Prior, Unsent, Served, Has
  <2>6. Good(u)
    BY <1>1, <2>4 DEF Good, Outstanding, Has
  <2>7. ASSUME NEW pc \in {"timer", "transport_err"}, tsx' = u,
               Goto(th, [thr[th] EXCEPT !.pc = pc]),
               pc = "transport_err" => MayPostError /\ tsx.state <= TERMINATED
        PROVE  SInv' /\ tsx'.state >= tsx.state
    <3> DEFINE r == [thr[th] EXCEPT !.pc = pc]
    <3>1. r \in ThrType /\ r.pc = pc
      BY <1>1, <2>7 DEF ThrType, Pcs
    <3> HIDE DEF r
    <3>2. Goto(th, r)
      BY <2>7 DEF r
    <3>3. SInv'
      BY <1>1, <1>2, <2>4, <2>5, <2>7, <3>1, <3>2, ThreadBack
    <3> QED BY <1>1, <2>4, <2>7, <3>3
  <2>8. tsx.id[e] = TRANSPORT_ERR_TIMER => MayPostError
    BY <1>1, <2>1 DEF Core, Prior, Unposted
  <2>9. u.state >= t.state
    BY <1>1, <2>4
  <2> HIDE DEF e
  <2>10. CASE tsx' = DropRef(u) /\ Goto(th, Idle)
    BY <1>3, <2>5, <2>6, <2>9, <2>10
  <2>11. tsx.state < TERMINATED => tsx.state <= TERMINATED
    BY <1>1
  <2> QED BY <2>3, <2>7, <2>8, <2>10, <2>11
<1>5. CASE TransportErr(th)
  <2> DEFINE a == tsx_update_transport(t, "none")
             b == IF a.status_code < 200
                  THEN tsx_set_status_code(a, PJSIP_SC_TSX_TRANSPORT_ERROR) ELSE a
             r == [thr[th] EXCEPT !.pc = "notify"]
  <2>1. Goto(th, r) /\ tsx' = tsx_set_state_no_notify(b, TERMINATED)
        /\ thr[th].pc = "transport_err"
    BY <1>5 DEF TransportErr, At, t
  <2>2. Calm(t, a)
    BY <1>1, NoTransportCalm
  <2> HIDE DEF a
  <2>3. Calm(a, b)
    <3>1. PJSIP_SC_TSX_TRANSPORT_ERROR \in Codes
      BY SMTT(30), Z3T(30) DEF Codes, PJSIP_SC_TSX_TRANSPORT_ERROR
    <3>2. Good(a)
      BY <2>2, CalmGood
    <3> QED BY <3>1, <3>2, StatusCodeCalm, SelfCalm
  <2> HIDE DEF b
  <2>4. Core(tsx') /\ tsx'.state = TERMINATED
    <3>1. Good(b) /\ Core(b)
      BY <1>1, <2>2, <2>3, CalmGood, CalmCore
    <3> QED BY <2>1, <3>1, SetStateNoNotifyCore
  <2>5. Unsent(tsx')
    BY <2>4 DEF Unsent
  <2>6. r \in ThrType /\ r.pc = "notify"
    BY <1>1 DEF ThrType, Pcs
  <2> HIDE DEF r
  <2>7. SInv'
    BY <1>2, <2>1, <2>4, <2>5, <2>6, ThreadBack
  <2>8. Alone \/ ~MayPostError => tsx.state <= TERMINATED
    BY <1>2, <2>1 DEF ThreadOk
  <2> QED BY <1>1, <2>4, <2>7, <2>8
<1>6. CASE TransportErrNotify(th)
  <2> DEFINE a == NotifyTU(t)
  <2>1. Goto(th, Idle) /\ tsx' = DropRef(a)
    BY <1>6 DEF TransportErrNotify, t
  <2>2. Calm(t, a)
    BY <1>1, NotifyCalm
  <2> HIDE DEF a
  <2>3. Good(a) /\ Core(a) /\ Unsent(a) /\ a.state >= t.state
    BY <1>1, <2>2, CalmGood, CalmCore
  <2> QED BY <1>3, <2>1, <2>3
<1>7. CASE TransportCallbackDone(th)
  <2> DEFINE a == IF thr[th].err THEN PostTransportErr(t) ELSE t
  <2>1. Goto(th, Idle) /\ tsx' = DropRef(a) /\ (thr[th].err => MayPostError)
    BY <1>2, <1>7 DEF TransportCallbackDone, At, t, ThreadOk
  <2>2. Calm(t, a)
    BY <1>1, <2>1, PostCalm, SelfCalm
  <2> HIDE DEF a
  <2>3. Good(a) /\ Core(a) /\ Unsent(a) /\ a.state >= t.state
    BY <1>1, <2>2, CalmGood, CalmCore
  <2> QED BY <1>3, <2>1, <2>3
<1>8. CASE LayerStopShutdown(th)
  <2>1. At(th, "stop") /\ Goto(th, Idle)
        /\ tsx' = tsx_shutdown(mod_tsx_layer_unregister_tsx(t))
    BY <1>8 DEF LayerStopShutdown, t
  <2>2. t.state >= TERMINATED
    BY <1>1, <2>1 DEF IInv, OneStop
  <2>3. Core(tsx') /\ tsx'.state = t.state
    BY <1>1, <2>1, <2>2, DestroyCore DEF Core
  <2>4. Good(tsx') /\ Unsent(tsx') /\ tsx'.state >= t.state
    <3>1. Good(tsx')
      BY <1>1, <2>1, DestroyKeeps DEF Keeps
    <3>2. tsx'.state # NULL /\ tsx'.state >= t.state
      BY <1>1, <2>2, <2>3
    <3> QED BY <3>1, <3>2 DEF Unsent
  <2> QED BY <1>3, <2>1, <2>3, <2>4
<1>9. ASSUME NEW ev, ev.msg \in Msgs, NEW o \in Outcomes, Goto(th, Idle),
             tsx' = DropRef(state_handler(t, ev, o).tsx)
      PROVE  SInv' /\ tsx'.state >= tsx.state
  <2> DEFINE h == state_handler(t, ev, o)
  <2>1. Good(h.tsx)
    BY <1>1, <1>9, HandlerKeeps DEF Keeps
  <2>2. Core(h.tsx) /\ h.tsx.state >= t.state /\ Unsent(h.tsx)
    BY <1>1, <1>2, <1>9, HandlerFwd
  <2> QED BY <1>3, <1>9, <2>1, <2>2
<1>10. ASSUME NEW o \in Outcomes, TimerDispatch(th, o) PROVE SInv' /\ tsx'.state >= tsx.state
  <2>1. TimerEvent(thr[th].timer).msg \in Msgs
    BY MsgFacts DEF TimerEvent
  <2> QED BY <1>9, <1>10, <2>1 DEF TimerDispatch, t
<1>11. ASSUME NEW o \in Outcomes, RecvMsg(th, o) PROVE SInv' /\ tsx'.state >= tsx.state
  <2>1. RxEvent(thr[th].msg).msg \in Msgs
    BY <1>1 DEF RxEvent, ThrType
  <2> QED BY <1>9, <1>11, <2>1 DEF RecvMsg, t
<1>12. ASSUME NEW o \in Outcomes, SendCallback(th, o) PROVE SInv' /\ tsx'.state >= tsx.state
  <2>1. At(th, "send_cb") /\ Goto(th, Idle)
        /\ \/ tsx' = SendCallbackOk(t, o)
           \/ tsx' = SendCallbackFailed(t)
           \/ tsx' = SendCallbackRetry(t)
    BY <1>12 DEF SendCallback, t
  <2>2. t.rs_op.msg # NoMsg
    BY <1>1, <2>1 DEF IInv, OneCallback, Calm, Mild
  <2>3. t.state # NULL
    BY <1>1, <2>2 DEF Good, Unsent, Outstanding
  <2>4. Core(tsx') /\ tsx'.state >= t.state
    <3>1. CASE tsx' = SendCallbackOk(t, o)
      BY <1>1, <2>2, <3>1, SendCallbackOkCore
    <3>2. CASE tsx' = SendCallbackFailed(t)
      BY <1>1, <2>2, <3>2, SendCallbackFailedCore
    <3>3. CASE tsx' = SendCallbackRetry(t)
      <4>1. Core(tsx') /\ tsx'.state = t.state
        BY <1>1, <3>3, SendCallbackRetryCore
      <4> QED BY <1>1, <4>1
    <3> QED BY <2>1, <3>1, <3>2, <3>3
  <2>5. Unsent(tsx')
    BY <1>1, <2>3, <2>4 DEF Unsent
  <2>6. SInv'
    BY <1>2, <2>1, <2>4, <2>5, IdleType, ThreadBack
  <2> QED BY <1>1, <2>4, <2>6
<1> QED BY <1>4, <1>5, <1>6, <1>7, <1>8, <1>10, <1>11, <1>12 DEF Proceed

\* The transport goes down, the resolver sends, or nothing happens.
LEMMA OtherBack ==
    ASSUME IInv, SInv, tsx_tp_state_callback \/ ResolverSends \/ UNCHANGED vars
    PROVE  SInv' /\ tsx'.state >= tsx.state
<1> DEFINE t == Fresh(tsx)
<1>1. /\ Calm(tsx, t) /\ Good(t) /\ Core(t) /\ Unsent(t) /\ t.state = tsx.state
      /\ tsx.state \in 0..7
  BY FreshCore
<1> HIDE DEF t
<1>2. CASE tsx_tp_state_callback
  <2>1. tsx' = PostTransportErr(t) /\ UNCHANGED <<conf, thr>> /\ MayPostError
    BY <1>2 DEF tsx_tp_state_callback, t, MayPostError
  <2>2. Calm(t, tsx')
    BY <1>1, <2>1, PostCalm
  <2>3. Core(tsx') /\ Unsent(tsx') /\ tsx'.state = tsx.state
    BY <1>1, <2>2, CalmGood, CalmCore
  <2> QED BY <1>1, <2>1, <2>3, StayBack
<1>3. CASE ResolverSends
  <2> DEFINE m == tsx.rs_op.msg
             a == Emit(t, m)
             op == [a.rs_op EXCEPT !.sending = TRUE]
  <2>1. tsx' = [a EXCEPT !.rs_op = op] /\ UNCHANGED <<conf, thr>> /\ m \in Msgs
    BY <1>3 DEF ResolverSends, t, IInv, Good, TsxType
  <2>2. Calm(t, a)
    BY <1>1, <2>1, EmitCalm
  <2> HIDE DEF a
  <2>3. Good(a) /\ Core(a) /\ Unsent(a) /\ a.state = tsx.state /\ a \in TsxType
    BY <1>1, <2>2, CalmGood, CalmCore DEF Good
  <2> HIDE DEF op, m
  <2>4. /\ tsx'.terminating = a.terminating /\ tsx'.last_tx = a.last_tx /\ tsx'.flag = a.flag
        /\ tsx'.transport = a.transport /\ tsx'.tp_op = a.tp_op /\ tsx'.id = a.id
        /\ tsx'.state = a.state
    BY <2>1, <2>3 DEF TsxType
  <2>5. Core(tsx') /\ Unsent(tsx') /\ tsx'.state = tsx.state
    BY <2>3, <2>4, SameCore
  <2> QED BY <1>1, <2>1, <2>5, StayBack
<1>4. CASE UNCHANGED vars
  <2>1. UNCHANGED <<conf, thr>> /\ tsx' = tsx /\ Core(tsx) /\ Unsent(tsx)
    BY <1>4 DEF vars, SInv
  <2> QED BY <1>1, <2>1, StayBack
<1> QED BY <1>2, <1>3, <1>4

\* A created transaction is good.
LEMMA CreateGood == ASSUME NEW rel \in Reliables PROVE Good(tsx_create(rel))
<1> DEFINE t == tsx_create(rel)
<1>1. rel \in BOOLEAN /\ <<>> \in Seq(States)
  BY TsxAssumption
<1>2. t \in TsxType
  <2>1. NULL \in States /\ 0 \in Codes /\ TIMER_INACTIVE \in 0..3 /\ 1 \in Int
    BY DEF States, Codes
  <2>2. [e \in Timers |-> TIMER_INACTIVE] \in [Timers -> 0..3]
    BY <2>1
  <2> QED BY <1>1, <2>1, <2>2, MsgFacts DEF tsx_create, TsxType, NoOp
<1>3. t.rs_op.msg = NoMsg /\ t.tp_op = NoMsg
  BY DEF tsx_create, NoOp
<1> HIDE DEF t
<1> QED BY <1>2, <1>3 DEF Good, Outstanding, t

\* A created transaction has its first state.
LEMMA InitSInv == ASSUME Init PROVE SInv
<1>1. PICK rel \in Reliables :
        \/ Role = "UAC" /\ tsx = pjsip_tsx_create_uac(rel)
        \/ Role = "UAS" /\ \E tp \in UasTransports : tsx = pjsip_tsx_create_uas(rel, tp)
  BY DEF Init
<1> DEFINE c == tsx_create(rel)
<1>2. c.state = NULL /\ c.terminating = FALSE /\ c.last_tx = NoMsg /\ c.flag = {}
      /\ c.transport = FALSE /\ c.tp_op = NoMsg /\ c.id = [e \in Timers |-> TIMER_INACTIVE]
  BY DEF tsx_create
<1>3. Unposted(c)
  BY SMTT(30), Z3T(30), <1>2 DEF Unposted
<1>4. Core(c) /\ Unsent(c)
  BY SMTT(30), Z3T(30), <1>2, <1>3 DEF Core, Prior, Unsent, Has
<1>5. Core(tsx) /\ Unsent(tsx)
  <2>1. CASE Role = "UAC"
    BY <1>1, <1>4, <2>1 DEF pjsip_tsx_create_uac
  <2>2. CASE Role = "UAS"
    <3>1. PICK tp \in UasTransports : tsx = tsx_update_transport(c, tp)
      BY <1>1, <2>2 DEF pjsip_tsx_create_uas
    <3>2. Good(c)
      BY CreateGood
    <3>3. Mild(c, tsx) /\ (Unposted(c) => Unposted(tsx)) /\ tsx.flag = c.flag
          /\ tsx.terminating = c.terminating /\ tsx.last_tx = c.last_tx /\ tsx.tp_op = c.tp_op
      <4> HIDE DEF c
      <4>1. CASE tp = "none"
        <5>1. Calm(c, tsx)
          BY <3>1, <3>2, <4>1, NoTransportCalm
        <5>2. SameSends(c, tsx)
          BY <3>1, <3>2, <4>1, UpdateTransportKeeps
        <5> QED BY <5>1, <5>2 DEF Calm, Rest, SameSends
      <4>2. CASE tp # "none"
        <5>1. tp = "down" => MayPostError
          BY DEF UasTransports, MayPostError
        <5> QED BY <3>1, <3>2, <4>2, <5>1, NewTransport
      <4> QED BY <4>1, <4>2
    <3>4. tsx.state = NULL
      BY <1>2, <3>3 DEF Mild
    <3> HIDE DEF c
    <3> QED BY SMTT(30), Z3T(30), <1>2, <1>3, <2>2, <3>3, <3>4 DEF Core, Prior, Unsent, Has
  <2> QED BY <1>1, <2>1, <2>2
<1>6. conf \in Configs /\ \A th \in Threads : thr[th] = Idle
  BY DEF Init
<1>7. ASSUME NEW th \in Threads PROVE ThreadOk(thr[th], th)
  <2>1. thr[th].pc = "idle"
    BY <1>6, IdleType
  <2> QED BY <2>1 DEF ThreadOk
<1> QED BY <1>5, <1>6, <1>7 DEF SInv

\* Every step keeps the invariant and goes forward.
LEMMA NextBack ==
    ASSUME Counting, IInv, SInv, [Next]_vars
    PROVE  SInv' /\ (Alone \/ ~MayPostError => tsx'.state >= tsx.state)
<1>1. CASE UserStep
  BY <1>1, UserBack
<1>2. ASSUME NEW th \in Threads, Start(th) \/ Proceed(th)
      PROVE  SInv' /\ (Alone \/ ~MayPostError => tsx'.state >= tsx.state)
  BY <1>2, StartBack, ProceedBack
<1>3. CASE tsx_tp_state_callback \/ ResolverSends \/ Destroyed \/ UNCHANGED vars
  BY <1>3, OtherBack DEF Destroyed
<1> QED BY <1>1, <1>2, <1>3 DEF Next

----------------------------------------------------------------------------
(* The theorems.                                                            *)

INSTANCE FiniteSetTheorems

\* What is used of finite sets is so.
LEMMA CountingHolds == Counting
<1>1. \A S, T : IsFiniteSet(S) /\ T \subseteq S => IsFiniteSet(T)
  BY FS_Subset
<1>2. \A S : IsFiniteSet(S) => Cardinality(S) \in Nat /\ (Cardinality(S) = 0 <=> S = {})
  BY FS_CardinalityType, FS_EmptySet
<1>3. \A S, x : IsFiniteSet(S) /\ x \notin S => Cardinality(S \cup {x}) = Cardinality(S) + 1
  BY FS_AddElement
<1>4. \A S, x : IsFiniteSet(S) /\ x \in S => Cardinality(S \ {x}) = Cardinality(S) - 1
  BY FS_RemoveElement
<1>5. \A S : IsFiniteSet(S) /\ Cardinality(S) = 1 => \E x : S = {x}
  BY FS_Singleton
<1> QED BY <1>1, <1>2, <1>3, <1>4, <1>5 DEF Counting

\* The inductive invariant holds.
THEOREM Invariant == Spec => []IInv
<1>1. Init => IInv
  BY InitIInv, CountingHolds
<1>2. IInv /\ [Next]_vars => IInv'
  BY NextIInv, CountingHolds
<1> QED BY <1>1, <1>2, PTL DEF Spec

\* The invariant has what it is for, destruction included.
LEMMA InvariantImplies == IInv => TypeOK /\ OneSend /\ RefCounted /\ NoUseAfterDestroy
  BY IInvImplies, InvariantAlive, CountingHolds

\* Every field of the transaction and of the threads keeps its type.
THEOREM TypeCorrect == Spec => []TypeOK
  BY Invariant, InvariantImplies, PTL

\* At most one send is outstanding and, before termination, the flag that
\* tsx_send_msg() tests says so; at most one send callback is running.
THEOREM AtMostOneSend == Spec => []OneSend
  BY Invariant, InvariantImplies, PTL

\* The reference counter of the transaction is exact in every reachable state.
THEOREM RefsExact == Spec => []RefCounted
  BY Invariant, InvariantImplies, PTL

\* The transaction outlives every callback and every shutdown that is in
\* progress on it, as long as no lookup is pending.
THEOREM NeverUsedDestroyed == Spec => []NoUseAfterDestroy
  BY Invariant, InvariantImplies, PTL

\* pj_assert(state >= tsx->state) of tsx_set_state(): when one thread polls, or
\* when no transport error can be posted, no step moves the state of the
\* transaction back.
THEOREM StateNeverBack == Spec => StateNeverGoesBack
<1>1. Init => IInv /\ SInv
  BY InitIInv, InitSInv, CountingHolds
<1>2. IInv /\ SInv /\ [Next]_vars => (IInv /\ SInv)'
  BY NextIInv, NextBack, CountingHolds
<1>3. IInv /\ SInv /\ [Next]_vars => [Alone \/ ~MayPostError => tsx'.state >= tsx.state]_vars
  BY NextBack, CountingHolds
<1> QED BY <1>1, <1>2, <1>3, PTL DEF Spec, StateNeverGoesBack

============================================================================
