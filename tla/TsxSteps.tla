------------------------------ MODULE TsxSteps ------------------------------
(***************************************************************************)
(* Lemmas about the operators of Tsx, for every role, method, environment  *)
(* and set of threads.  The operators map transaction records to           *)
(* transaction records; what they have in common is stated once.           *)
(*                                                                         *)
(* Keeps(t, u): the result u is well formed and holds as many references   *)
(* as its timers, sends and terminating flag account for if t did.  Mild   *)
(* and Sends add what the state and the sends in progress may become.      *)
(* Core(t), in the second half, is what keeps the state from going back:   *)
(* Fwd(t, u) says that u has it and that its state is not before that of   *)
(* t.  Each operator has a lemma of each kind.                             *)
(***************************************************************************)
EXTENDS Tsx, TLAPS

\* The provers are given time.
\* The provers tried on a leaf that names none, in this order.
USE ZenonT(10), SMTT(30), Z3T(30)

\* The part of OneSend that is about the record alone.
Good(t) ==
    /\ t \in TsxType
    /\ t.rs_op.msg = NoMsg \/ t.tp_op = NoMsg
    /\ t.state < TERMINATED /\ Outstanding(t) => Has(t, "PENDING_TRANSPORT")

\* References that the transaction does not account for by itself.
Extra(t) == t.ref - OwnRefs(t)

\* A transaction is unregistered when it is shut down, and only then.
Reg(t) ==
    /\ t.registered <=> ~t.terminating
    /\ Has(t, "PENDING_DESTROY") => t.terminating

\* No send waits for the resolution unless it may be asynchronous.
NoRes(t) == "resolve" \notin Env => t.rs_op.msg = NoMsg

Keeps(t, u) ==
    /\ Good(u)
    /\ Extra(u) = Extra(t)
    /\ t.rs_op.msg # NoMsg => u.rs_op.msg # NoMsg
    /\ Reg(t) => Reg(u)
    /\ NoRes(t) => NoRes(u)

\* The sends in progress, and what governs them, are the same.
SameSends(t, u) ==
    /\ u.state = t.state /\ u.flag = t.flag /\ u.rs_op = t.rs_op
    /\ u.tp_op = t.tp_op /\ u.terminating = t.terminating
    /\ u.registered = t.registered

USE DEF NULL, CALLING, TRYING, PROCEEDING, COMPLETED, CONFIRMED, TERMINATED,
        DESTROYED, TIMER_INACTIVE, RETRANSMIT_TIMER, TIMEOUT_TIMER,
        TRANSPORT_ERR_TIMER, NoMsg, REQ, ACK

\* The messages that the code names are messages.
LEMMA MsgFacts == NoMsg \in Msgs /\ REQ \in Msgs /\ ACK \in Msgs /\ Responses \subseteq Msgs
  BY DEF Msgs

\* What tsx_schedule_timer() and tsx_cancel_timer() assign.
UpdateTimer(t, e, i, h, r) == [t EXCEPT !.heap = h, !.id[e] = i, !.ref = r]

\* What the timer functions assign keeps the type and the sends.
LEMMA UpdateType ==
    ASSUME NEW t \in TsxType, NEW e \in Timers, NEW i \in 0..3,
           NEW h \in SUBSET Timers, NEW r \in Int
    PROVE  LET u == UpdateTimer(t, e, i, h, r)
           IN  u \in TsxType /\ SameSends(t, u) /\ u.heap = h /\ u.ref = r
<1>1. UpdateTimer(t, e, i, h, r) \in TsxType
  BY DEF TsxType, UpdateTimer
<1>2. LET u == UpdateTimer(t, e, i, h, r)
      IN  SameSends(t, u) /\ u.heap = h /\ u.ref = r
  BY DEF TsxType, UpdateTimer, SameSends
<1> QED BY <1>1, <1>2

\* Scheduling a timer of the transaction adds the reference it accounts for.
LEMMA ScheduleKeeps ==
    ASSUME NEW t, Good(t), NEW e \in Timers, NEW i \in 0..3,
           NEW u, u = tsx_schedule_timer(t, e, i)
    PROVE  Keeps(t, u) /\ SameSends(t, u)
<1> DEFINE h == t.heap \cup {e}
           r == t.ref + 1
<1>1. t \in TsxType /\ h \in SUBSET Timers /\ r \in Int
  BY SMTT(30), Z3T(30) DEF Good, TsxType
<1>2. CASE e \in t.heap
  BY <1>2 DEF tsx_schedule_timer, Keeps, SameSends
<1>3. CASE e \notin t.heap
  <2>1. u = UpdateTimer(t, e, i, h, r)
    BY <1>3 DEF tsx_schedule_timer, UpdateTimer
  <2>2. u \in TsxType /\ SameSends(t, u) /\ u.heap = h /\ u.ref = r
    BY SMTT(30), Z3T(30), <1>1, <2>1, UpdateType
  <2>3. Extra(u) = Extra(t)
    BY SMTT(30), Z3T(30), <1>1, <1>3, <2>2 DEF TsxType, SameSends, Extra, OwnRefs, One, Timers
  <2> QED
    BY <2>2, <2>3 DEF SameSends, Keeps, Good, Outstanding, Has, Reg, NoRes
<1> QED
  BY <1>2, <1>3

\* Cancelling it gives the reference back if the timer was armed.
LEMMA CancelKeeps ==
    ASSUME NEW t, Good(t), NEW e \in Timers,
           NEW u, u = tsx_cancel_timer(t, e)
    PROVE  Keeps(t, u) /\ SameSends(t, u) /\ u.heap = t.heap \ {e}
<1> DEFINE h == t.heap \ {e}
           r == IF e \in t.heap THEN t.ref - 1 ELSE t.ref
<1>1. t \in TsxType /\ h \in SUBSET Timers /\ r \in Int
  BY SMTT(30), Z3T(30) DEF Good, TsxType
<1>2. u = UpdateTimer(t, e, 0, h, r)
  BY DEF tsx_cancel_timer, UpdateTimer
<1>3. u \in TsxType /\ SameSends(t, u) /\ u.heap = h /\ u.ref = r
  BY SMTT(30), Z3T(30), <1>1, <1>2, UpdateType
<1>4. Extra(u) = Extra(t)
  BY SMTT(30), Z3T(30), <1>1, <1>3 DEF TsxType, SameSends, Extra, OwnRefs, One, Timers
<1> QED
  BY <1>3, <1>4 DEF SameSends, Keeps, Good, Outstanding, Has, Reg, NoRes

\* Keeps composes along the calls of a handler.
LEMMA KeepsTransitive ==
    ASSUME NEW t, NEW u, NEW v, Keeps(t, u), Keeps(u, v)
    PROVE  Keeps(t, v)
  BY DEF Keeps

\* Cancelling and scheduling the timeout timer again.
LEMMA RestartKeeps ==
    ASSUME NEW t, Good(t), NEW i \in 0..3, NEW u, u = RestartTimeout(t, i)
    PROVE  Keeps(t, u) /\ SameSends(t, u)
<1> DEFINE v == tsx_cancel_timer(t, "timeout")
<1>1. Keeps(t, v) /\ SameSends(t, v)
  BY CancelKeeps DEF Timers
<1>2. Keeps(v, u) /\ SameSends(v, u)
  <2>1. u = tsx_schedule_timer(v, "timeout", i)
    BY DEF RestartTimeout
  <2>2. Good(v)
    BY <1>1 DEF Keeps
  <2> HIDE DEF v
  <2> QED BY <2>1, <2>2, ScheduleKeeps DEF Timers
<1> HIDE DEF v
<1> QED BY <1>1, <1>2, KeepsTransitive DEF SameSends

\* Well-formedness only depends on these fields.
LEMMA PostKeeps ==
    ASSUME NEW t, Good(t), NEW u, u = PostTransportErr(t)
    PROVE  Keeps(t, u) /\ SameSends(t, u)
<1> DEFINE v == [t EXCEPT !.transport_err = TRUE]
<1>1. v \in TsxType /\ SameSends(t, v) /\ v.heap = t.heap /\ v.ref = t.ref
  BY DEF Good, TsxType, SameSends
<1>2. u = RestartTimeout(v, TRANSPORT_ERR_TIMER)
  BY DEF PostTransportErr
<1> HIDE DEF v
<1>3. Keeps(t, v)
  BY <1>1 DEF SameSends, Keeps, Good, Outstanding, Has, Reg, NoRes, Extra, OwnRefs
<1>4. Keeps(v, u) /\ SameSends(v, u)
  BY <1>2, <1>3, RestartKeeps DEF Keeps
<1> QED BY <1>1, <1>3, <1>4, KeepsTransitive DEF SameSends

\* tsx_update_transport(), with an error posted for a transport that is down.
LEMMA UpdateTransportKeeps ==
    ASSUME NEW t, Good(t), NEW tp \in {"none", "up", "down"},
           NEW u, u = tsx_update_transport(t, tp)
    PROVE  Keeps(t, u) /\ SameSends(t, u)
<1> DEFINE v == [t EXCEPT !.transport = tp # "none"]
<1>1. v \in TsxType /\ SameSends(t, v) /\ v.heap = t.heap /\ v.ref = t.ref
  BY ZenonT(120), SMTT(30) DEF Good, TsxType, SameSends
<1>2. u = IF tp = "down" THEN PostTransportErr(v) ELSE v
  BY DEF tsx_update_transport
<1> HIDE DEF v
<1>3. Keeps(t, v)
  BY <1>1 DEF SameSends, Keeps, Good, Outstanding, Has, Reg, NoRes, Extra, OwnRefs
<1>4. Keeps(v, u) /\ SameSends(v, u)
  BY <1>2, <1>3, PostKeeps DEF Keeps, SameSends
<1> QED BY <1>1, <1>3, <1>4, KeepsTransitive DEF SameSends

\* tsx_set_status_code().
LEMMA StatusCodeKeeps ==
    ASSUME NEW t, Good(t), NEW code \in Codes,
           NEW u, u = tsx_set_status_code(t, code)
    PROVE  Keeps(t, u) /\ SameSends(t, u)
<1>1. u \in TsxType /\ SameSends(t, u) /\ u.heap = t.heap /\ u.ref = t.ref
  BY DEF Good, TsxType, SameSends, tsx_set_status_code
<1> QED
  BY <1>1 DEF SameSends, Keeps, Good, Outstanding, Has, Reg, NoRes, Extra, OwnRefs

\* tsx_shutdown() drops its reference once.
UpdateShutdown(t, u, f, r) ==
    [u EXCEPT !.last_tx = NoMsg, !.flag = f, !.tsx_user = @ /\ ~Has(t, "PENDING_TRANSPORT"),
              !.ref = r, !.terminating = TRUE]

\* What tsx_shutdown() assigns keeps the type.
LEMMA ShutdownType ==
    ASSUME NEW t, NEW u \in TsxType, NEW f \in SUBSET Flags, NEW r \in Int
    PROVE  LET w == UpdateShutdown(t, u, f, r)
           IN  /\ w \in TsxType /\ w.flag = f /\ w.ref = r /\ w.terminating
               /\ w.heap = u.heap /\ w.rs_op = u.rs_op /\ w.tp_op = u.tp_op
               /\ w.state = u.state /\ w.registered = u.registered
<1>1. UpdateShutdown(t, u, f, r) \in TsxType
  BY ZenonT(120), SMTT(30), MsgFacts DEF TsxType, UpdateShutdown
<1>2. LET w == UpdateShutdown(t, u, f, r)
      IN  /\ w.flag = f /\ w.ref = r /\ w.terminating
          /\ w.heap = u.heap /\ w.rs_op = u.rs_op /\ w.tp_op = u.tp_op
          /\ w.state = u.state /\ w.registered = u.registered
  BY DEF TsxType, UpdateShutdown
<1> QED BY <1>1, <1>2

\* tsx_shutdown() cancels both timers and drops the reference of the transaction.
LEMMA ShutdownKeeps ==
    ASSUME NEW t, Good(t), NEW w, w = tsx_shutdown(t)
    PROVE  /\ Good(w) /\ Extra(w) = Extra(t) /\ w.terminating
           /\ w.state = t.state /\ w.rs_op = t.rs_op /\ w.tp_op = t.tp_op
           /\ w.registered = t.registered
<1> DEFINE t1 == tsx_update_transport(t, "none")
           t2 == tsx_cancel_timer(t1, "timeout")
           u == tsx_cancel_timer(t2, "retransmit")
           pending == Has(t, "PENDING_TRANSPORT")
           f == (u.flag \ {"PENDING_RESCHED", "PENDING_SEND"})
                \cup IF pending THEN {"PENDING_DESTROY"} ELSE {}
           r == IF t.terminating THEN u.ref ELSE u.ref - 1
<1>1. Keeps(t, t1) /\ SameSends(t, t1)
  BY UpdateTransportKeeps
<1>2. Keeps(t1, t2) /\ SameSends(t1, t2)
  <2> HIDE DEF t1
  <2> QED BY <1>1, CancelKeeps DEF Keeps, Timers
<1>3. Keeps(t2, u) /\ SameSends(t2, u)
  <2> HIDE DEF t2
  <2> QED BY <1>2, CancelKeeps DEF Keeps, Timers
<1>4. w = UpdateShutdown(t, u, f, r)
  BY DEF tsx_shutdown, UpdateShutdown
<1>5. Keeps(t, u) /\ SameSends(t, u)
  <2> HIDE DEF t1, t2, u
  <2> QED BY <1>1, <1>2, <1>3, KeepsTransitive DEF SameSends
<1> HIDE DEF t1, t2, u
<1>6. u \in TsxType /\ u.ref \in Int /\ u.flag \in SUBSET Flags
      /\ u.terminating \in BOOLEAN
  BY <1>5 DEF Keeps, Good, TsxType
<1>7. f \in SUBSET Flags /\ r \in Int
  BY <1>6 DEF Flags
<1>8. /\ w \in TsxType /\ w.flag = f /\ w.ref = r /\ w.terminating
      /\ w.heap = u.heap /\ w.rs_op = u.rs_op /\ w.tp_op = u.tp_op
      /\ w.state = u.state /\ w.registered = u.registered
  <2> HIDE DEF f, r
  <2> QED BY SMTT(30), Z3T(30), <1>4, <1>6, <1>7, ShutdownType
<1>9. Extra(w) = Extra(u)
  BY SMTT(30), Z3T(30), <1>5, <1>6, <1>8 DEF SameSends, Extra, OwnRefs, One
<1>10. Good(w)
  BY <1>5, <1>8 DEF Keeps, Good, Outstanding, Has, SameSends
<1> QED BY <1>5, <1>8, <1>9, <1>10 DEF Keeps, SameSends

\* The transaction is unregistered and shut down together.
LEMMA DestroyKeeps ==
    ASSUME NEW t, Good(t), NEW w, w = tsx_shutdown(mod_tsx_layer_unregister_tsx(t))
    PROVE  /\ Keeps(t, w)
           /\ w.state = t.state /\ w.rs_op = t.rs_op /\ w.tp_op = t.tp_op
<1> DEFINE y == mod_tsx_layer_unregister_tsx(t)
<1>1. y \in TsxType /\ y.state = t.state /\ y.flag = t.flag /\ y.rs_op = t.rs_op
      /\ y.tp_op = t.tp_op /\ y.terminating = t.terminating /\ y.heap = t.heap
      /\ y.ref = t.ref /\ y.registered = FALSE
  BY DEF Good, TsxType, mod_tsx_layer_unregister_tsx
<1> HIDE DEF y
<1>2. Good(y) /\ Extra(y) = Extra(t)
  BY <1>1 DEF Good, Outstanding, Has, Extra, OwnRefs
<1>3. /\ Good(w) /\ Extra(w) = Extra(y) /\ w.terminating
      /\ w.state = y.state /\ w.rs_op = y.rs_op /\ w.tp_op = y.tp_op
      /\ w.registered = y.registered
  BY <1>2, ShutdownKeeps DEF y
<1> QED BY <1>1, <1>2, <1>3 DEF Keeps, Reg, NoRes

----------------------------------------------------------------------------
(* Operators that leave the state alone, and changes of state.              *)

\* Whatever is outstanding is known to tsx_send_msg().
Settled(t) == Outstanding(t) => Has(t, "PENDING_TRANSPORT")

Mild(t, u) ==
    /\ Keeps(t, u)
    /\ u.state = t.state /\ u.rs_op = t.rs_op /\ u.tp_op = t.tp_op
    /\ u.registered = t.registered
    /\ Has(u, "PENDING_TRANSPORT") <=> Has(t, "PENDING_TRANSPORT")

\* Mild composes.
LEMMA MildTransitive ==
    ASSUME NEW t, NEW u, NEW v, Mild(t, u), Mild(u, v)
    PROVE  Mild(t, v)
  BY KeepsTransitive DEF Mild

\* What keeps the references and the sends is mild.
LEMMA SameMild ==
    ASSUME NEW t, NEW u, Keeps(t, u), SameSends(t, u)
    PROVE  Mild(t, u)
  BY DEF Mild, SameSends, Settled, Outstanding, Has

\* Fields that neither the references nor the sends depend on.
LEMMA OtherFields ==
    ASSUME NEW t, Good(t), NEW u \in TsxType, SameSends(t, u),
           u.heap = t.heap, u.ref = t.ref
    PROVE  Mild(t, u)
<1>1. Keeps(t, u)
  BY DEF SameSends, Keeps, Good, Outstanding, Has, Reg, NoRes, Extra, OwnRefs
<1> QED BY <1>1, SameMild

\* Flags that no send and no destruction depends on may change.
LEMMA FlagsMild ==
    ASSUME NEW t, Good(t), NEW f \in SUBSET Flags,
           "PENDING_TRANSPORT" \in f <=> Has(t, "PENDING_TRANSPORT"),
           "PENDING_DESTROY" \in f => Has(t, "PENDING_DESTROY"),
           NEW u, u = [t EXCEPT !.flag = f]
    PROVE  Mild(t, u)
<1>1. u \in TsxType /\ u.state = t.state /\ u.flag = f /\ u.rs_op = t.rs_op
      /\ u.tp_op = t.tp_op /\ u.terminating = t.terminating
      /\ u.heap = t.heap /\ u.ref = t.ref /\ u.registered = t.registered
  BY DEF Good, TsxType
<1> QED
  BY <1>1 DEF Mild, Keeps, Good, Outstanding, Has, Reg, NoRes, Extra, OwnRefs, Settled

\* Setting such a flag is mild.
LEMMA SetFlagMild ==
    ASSUME NEW t, Good(t), NEW f \in {"PENDING_SEND", "PENDING_RESCHED"},
           NEW u, u = SetFlag(t, f)
    PROVE  Mild(t, u)
<1>1. t.flag \cup {f} \in SUBSET Flags /\ u = [t EXCEPT !.flag = t.flag \cup {f}]
  BY DEF Good, TsxType, Flags, SetFlag
<1> QED BY <1>1, FlagsMild DEF Has

\* Clearing such a flag is mild.
LEMMA ClearFlagMild ==
    ASSUME NEW t, Good(t), NEW f \in {"PENDING_SEND", "PENDING_RESCHED"},
           NEW u, u = ClearFlags(t, {f})
    PROVE  Mild(t, u)
<1>1. t.flag \ {f} \in SUBSET Flags /\ u = [t EXCEPT !.flag = t.flag \ {f}]
  BY DEF Good, TsxType, Flags, ClearFlags
<1> QED BY <1>1, FlagsMild DEF Has

\* The message to retransmit is recorded.
LEMMA LastTxMild ==
    ASSUME NEW t, Good(t), NEW m \in Msgs, NEW u, u = [t EXCEPT !.last_tx = m]
    PROVE  Mild(t, u)
<1>1. u \in TsxType /\ SameSends(t, u) /\ u.heap = t.heap /\ u.ref = t.ref
  BY DEF Good, TsxType, SameSends
<1> QED BY <1>1, OtherFields

\* Setting tsx_user.
LEMMA UserMild ==
    ASSUME NEW t, Good(t), NEW b \in BOOLEAN, NEW u, u = [t EXCEPT !.tsx_user = b]
    PROVE  Mild(t, u)
<1>1. u \in TsxType /\ SameSends(t, u) /\ u.heap = t.heap /\ u.ref = t.ref
  BY DEF Good, TsxType, SameSends
<1> QED BY <1>1, OtherFields

\* A step starts with nothing sent and nobody told.
LEMMA FreshMild ==
    ASSUME NEW t, Good(t), NEW u, u = Fresh(t)
    PROVE  Mild(t, u)
<1>1. <<>> \in Seq(States)
  OBVIOUS
<1>2. u \in TsxType /\ SameSends(t, u) /\ u.heap = t.heap /\ u.ref = t.ref
  BY <1>1 DEF Good, TsxType, SameSends, Fresh
<1> QED BY <1>2, OtherFields

\* A message that reaches the wire.
LEMMA EmitMild ==
    ASSUME NEW t, Good(t), NEW m \in Msgs, NEW u, u = Emit(t, m)
    PROVE  Mild(t, u)
<1>1. u \in TsxType /\ SameSends(t, u) /\ u.heap = t.heap /\ u.ref = t.ref
  BY DEF Good, TsxType, SameSends, Emit
<1> QED BY <1>1, OtherFields

\* Telling the user of the state.
LEMMA NotifyMild ==
    ASSUME NEW t, Good(t), NEW u, u = NotifyTU(t)
    PROVE  Mild(t, u)
<1>1. Append(t.note, t.state) \in Seq(States) /\ t.told \cup {t.state} \in SUBSET States
  BY SMTT(30), Z3T(30) DEF Good, TsxType
<1>2. u \in TsxType /\ SameSends(t, u) /\ u.heap = t.heap /\ u.ref = t.ref
  BY <1>1 DEF Good, TsxType, SameSends, NotifyTU
<1> QED BY <1>2, OtherFields

\* tsx_set_state(), which unregisters and shuts down a transaction it destroys.
LEMMA SetStateKeeps ==
    ASSUME NEW t, Good(t), NEW s \in States, s < TERMINATED => Settled(t),
           NEW w, w = tsx_set_state(t, s)
    PROVE  /\ Keeps(t, w) /\ w.state = s /\ w.rs_op.msg = t.rs_op.msg /\ w.tp_op = t.tp_op
           /\ s # DESTROYED => w.registered = t.registered
<1> DEFINE v == [t EXCEPT !.state = s]
           u == NotifyTU(v)
           c == [ClearFlags(u, {"PENDING_TRANSPORT"}) EXCEPT !.rs_op.attached = FALSE]
           x == IF Has(u, "PENDING_TRANSPORT") THEN c ELSE u
<1>1. v \in TsxType /\ v.state = s /\ v.flag = t.flag /\ v.rs_op = t.rs_op
      /\ v.tp_op = t.tp_op /\ v.terminating = t.terminating
      /\ v.heap = t.heap /\ v.ref = t.ref /\ v.registered = t.registered
  BY DEF Good, TsxType
<1>2. Keeps(t, v) /\ v.state = s /\ v.rs_op = t.rs_op /\ v.tp_op = t.tp_op
  <2> HIDE DEF v
  <2> QED BY <1>1 DEF Keeps, Good, Outstanding, Has, Reg, NoRes, Extra, OwnRefs, Settled
<1>3. Mild(v, u)
  <2> HIDE DEF v
  <2> QED BY <1>2, NotifyMild DEF Keeps
<1> HIDE DEF v, u
<1>4. Keeps(t, u) /\ u.state = s /\ u.rs_op = t.rs_op /\ u.tp_op = t.tp_op
      /\ u.registered = t.registered
  BY <1>1, <1>2, <1>3, KeepsTransitive DEF Mild
<1>5. Good(u) /\ u \in TsxType
  BY <1>4 DEF Keeps, Good
<1>6. w = IF s = TERMINATED THEN RestartTimeout(x, TIMEOUT_TIMER)
          ELSE IF s = DESTROYED THEN tsx_shutdown(mod_tsx_layer_unregister_tsx(u)) ELSE u
  <2>1. w = StateEntered(u)
    BY DEF tsx_set_state, v, u
  <2> QED BY <1>4, <2>1 DEF StateEntered
<1>7. CASE s = TERMINATED
  <2>1. c \in TsxType /\ c.state = u.state /\ c.tp_op = u.tp_op
        /\ c.terminating = u.terminating /\ c.heap = u.heap /\ c.ref = u.ref
        /\ c.rs_op.msg = u.rs_op.msg /\ c.registered = u.registered
        /\ c.flag = u.flag \ {"PENDING_TRANSPORT"}
    BY <1>5 DEF TsxType, ClearFlags
  <2> HIDE DEF c
  <2>2. Keeps(u, c)
    BY SMTT(30), Z3T(30), <1>4, <1>5, <1>7, <2>1 DEF Keeps, Good, Outstanding, Has, Reg, NoRes, Extra, OwnRefs
  <2>3. Keeps(u, x) /\ x.state = u.state /\ x.rs_op.msg = u.rs_op.msg /\ x.tp_op = u.tp_op
        /\ x.registered = u.registered
    BY <1>5, <2>1, <2>2 DEF Keeps
  <2> HIDE DEF x
  <2>4. Keeps(x, w) /\ SameSends(x, w)
    BY <1>6, <1>7, <2>3, RestartKeeps DEF Keeps
  <2> QED BY <1>4, <2>3, <2>4, KeepsTransitive DEF SameSends
<1>8. CASE s = DESTROYED
  <2>1. Keeps(u, w) /\ w.state = u.state /\ w.rs_op = u.rs_op /\ w.tp_op = u.tp_op
    BY SMTT(30), Z3T(30), <1>5, <1>6, <1>8, DestroyKeeps
  <2> QED BY <1>4, <1>8, <2>1, KeepsTransitive
<1>9. CASE s # TERMINATED /\ s # DESTROYED
  BY <1>4, <1>6, <1>9
<1> QED BY <1>7, <1>8, <1>9

\* tsx_set_state() to TERMINATED without telling the user.
LEMMA SetStateNoNotifyKeeps ==
    ASSUME NEW t, Good(t), NEW w, w = tsx_set_state_no_notify(t, TERMINATED)
    PROVE  Keeps(t, w) /\ w.state = TERMINATED /\ w.registered = t.registered
<1> DEFINE v == [t EXCEPT !.tsx_user = FALSE]
           u == tsx_set_state(v, TERMINATED)
<1>1. Mild(t, v)
  BY UserMild
<1>2. Keeps(v, u) /\ u.state = TERMINATED /\ u.registered = v.registered
  <2> HIDE DEF v
  <2> QED BY SMTT(30), Z3T(30), <1>1, SetStateKeeps DEF Mild, Keeps, States
<1>3. w = [u EXCEPT !.tsx_user = t.tsx_user] /\ t.tsx_user \in BOOLEAN
  BY DEF tsx_set_state_no_notify, Good, TsxType
<1> HIDE DEF u, v
<1>4. Mild(u, w)
  BY <1>2, <1>3, UserMild DEF Keeps
<1> QED BY <1>1, <1>2, <1>4, KeepsTransitive DEF Mild

----------------------------------------------------------------------------
(* Sending.                                                                 *)

\* A resolution is pending only where resolutions may be asynchronous.
LEMMA OutcomeRel ==
    ASSUME NEW o \in Outcomes
    PROVE  o.rel \in BOOLEAN /\ (o.rs = "pending" => "resolve" \in Env)
  BY TsxAssumption DEF Outcomes

\* References are accounted for and whatever is outstanding is known.
Sends(t, u) ==
    /\ Good(u) /\ Extra(u) = Extra(t) /\ Settled(u)
    /\ Reg(t) => Reg(u)
    /\ NoRes(u)
    /\ u.state = t.state \/ u.state >= TERMINATED

\* A mild step may follow the sends.
LEMMA MildSends ==
    ASSUME NEW t, NEW u, NEW v, Sends(t, u), Mild(u, v)
    PROVE  Sends(t, v)
  BY DEF Sends, Mild, Keeps, Settled, Outstanding

UpdateTp(t, m, r) == [t EXCEPT !.tp_op = m, !.ref = r]

\* tsx_send_msg() with a transport at hand.
LEMMA SendResolvedKeeps ==
    ASSUME NEW t, Good(t), ~Outstanding(t), NEW m \in Msgs, m # NoMsg, NEW tp,
           NEW s, s = SendResolved(t, m, tp)
    PROVE  /\ Keeps(t, s.tsx) /\ Settled(s.tsx)
           /\ s.tsx.state = t.state \/ s.tsx.state >= TERMINATED
<1>1. CASE t.transport /\ tp = "ok"
  <2>1. s.tsx = Emit(t, m)
    BY <1>1 DEF SendResolved, Ok
  <2>2. Mild(t, s.tsx)
    BY <2>1, EmitMild
  <2> QED BY <2>2 DEF Mild, Settled, Outstanding
<1>2. CASE t.transport /\ tp = "pending"
  <2> DEFINE p == SetFlag(t, "PENDING_TRANSPORT")
             q == Emit(p, m)
             w == UpdateTp(q, m, q.ref + 1)
  <2>1. p \in TsxType /\ p.flag = t.flag \cup {"PENDING_TRANSPORT"}
        /\ p.state = t.state /\ p.rs_op = t.rs_op /\ p.tp_op = t.tp_op
        /\ p.heap = t.heap /\ p.ref = t.ref /\ p.terminating = t.terminating
        /\ p.registered = t.registered
    BY DEF SetFlag, Good, TsxType, Flags
  <2>2. s.tsx = w
    BY <1>2 DEF SendResolved, Ok, UpdateTp
  <2> HIDE DEF p
  <2>3. Good(p) /\ Keeps(t, p) /\ ~Outstanding(p) /\ Has(p, "PENDING_TRANSPORT")
    BY <2>1 DEF Keeps, Good, Outstanding, Has, Reg, NoRes, Extra, OwnRefs
  <2>4. Mild(p, q)
    BY <2>3, EmitMild
  <2> HIDE DEF q
  <2>5. q \in TsxType /\ q.ref + 1 \in Int /\ Good(q) /\ ~Outstanding(q)
        /\ Has(q, "PENDING_TRANSPORT")
    BY SMTT(30), Z3T(30), <2>3, <2>4 DEF Mild, Keeps, Good, TsxType, Outstanding
  <2>6. w \in TsxType
    BY <2>5 DEF UpdateTp, TsxType
  <2>7. w.tp_op = m /\ w.ref = q.ref + 1 /\ w.flag = q.flag
        /\ w.rs_op = q.rs_op /\ w.heap = q.heap /\ w.terminating = q.terminating
        /\ w.state = q.state /\ w.registered = q.registered
    BY <2>5 DEF UpdateTp, TsxType
  <2> HIDE DEF w
  <2>8. Extra(w) = Extra(q)
    BY SMTT(30), Z3T(30), <2>5, <2>7 DEF Extra, OwnRefs, One, Outstanding, TsxType
  <2>9. Keeps(q, w) /\ Settled(w)
    BY <2>5, <2>6, <2>7, <2>8 DEF Keeps, Good, Outstanding, Has, Reg, NoRes, Settled
  <2> QED BY <2>1, <2>2, <2>3, <2>4, <2>7, <2>9, KeepsTransitive DEF Mild
<1>3. CASE ~(t.transport /\ tp = "ok") /\ ~(t.transport /\ tp = "pending")
  <2> DEFINE p == tsx_update_transport(t, "none")
             q == tsx_set_status_code(p, PJSIP_SC_TSX_TRANSPORT_ERROR)
  <2>1. s.tsx = tsx_set_state(q, TERMINATED)
    BY <1>3 DEF SendResolved, Err
  <2>2. Mild(t, p)
    BY UpdateTransportKeeps, SameMild
  <2>3. Mild(p, q)
    <3> HIDE DEF p
    <3>1. Good(p) /\ PJSIP_SC_TSX_TRANSPORT_ERROR \in Codes
      BY SMTT(30), Z3T(30), <2>2 DEF Mild, Keeps, Codes, PJSIP_SC_TSX_TRANSPORT_ERROR
    <3>2. Keeps(p, q) /\ SameSends(p, q)
      BY <3>1, StatusCodeKeeps
    <3> QED BY <3>2, SameMild
  <2> HIDE DEF p, q
  <2>4. Keeps(q, s.tsx) /\ s.tsx.rs_op.msg = q.rs_op.msg /\ s.tsx.tp_op = q.tp_op
        /\ s.tsx.state = TERMINATED
    BY SMTT(30), Z3T(30), <2>1, <2>3, SetStateKeeps DEF Mild, Keeps, States
  <2> QED BY SMTT(30), Z3T(30), <2>2, <2>3, <2>4, KeepsTransitive DEF Mild, Settled, Outstanding
<1> QED BY <1>1, <1>2, <1>3

UpdateRs(t, rel) == [t EXCEPT !.is_reliable = rel, !.rs_op = NoOp]

\* send_msg_callback() of a send that succeeded.
LEMMA SendCallbackOkSends ==
    ASSUME NEW t, Good(t), t.rs_op.msg # NoMsg, NEW o \in Outcomes,
           NEW w, w = SendCallbackOk(t, o)
    PROVE  Sends(t, w)
<1> DEFINE tp == IF o.down THEN "down" ELSE "up"
           a0 == tsx_update_transport(t, tp)
           a == UpdateRs(a0, o.rel)
           f == (a.flag \ {"PENDING_TRANSPORT"}) \cup {"RESOLVED_SERVER"}
           b == [a EXCEPT !.flag = f]
           c == ClearFlags(b, {"PENDING_SEND"})
           d == IF ~Has(b, "PENDING_SEND") \/ b.last_tx = NoMsg THEN c
                ELSE IF Deferred(c, c.last_tx) THEN Defer(c).tsx
                ELSE SendResolved(c, c.last_tx, o.again).tsx
           e == ClearFlags(d, {"PENDING_RESCHED"})
<1>1. w = IF Has(b, "PENDING_DESTROY") THEN tsx_set_state(b, DESTROYED)
          ELSE IF Has(d, "PENDING_RESCHED") /\ ~d.is_reliable
          THEN tsx_resched_retransmission(e) ELSE e
  <2>1. b = SetFlag(ClearFlags(a, {"PENDING_TRANSPORT"}), "RESOLVED_SERVER")
    <3>1. a \in TsxType
      <4>1. Mild(t, a0)
        BY UpdateTransportKeeps, SameMild
      <4> HIDE DEF a0
      <4> QED BY ZenonT(120), SMTT(30), <4>1, MsgFacts, OutcomeRel DEF Mild, Keeps, Good, TsxType, UpdateRs, NoOp
    <3> HIDE DEF a
    <3> QED BY <3>1 DEF SetFlag, ClearFlags, TsxType
  <2>2. w = TransportReady(b, o)
    BY <2>1 DEF SendCallbackOk, UpdateRs
  <2> QED BY <2>2 DEF TransportReady, SendDeferred, ReschedDeferred
<1>2. Mild(t, a0)
  BY UpdateTransportKeeps, SameMild
<1> HIDE DEF a0
<1>3. a \in TsxType /\ a.rs_op.msg = NoMsg /\ a.tp_op = a0.tp_op /\ a.state = a0.state
      /\ a.flag = a0.flag /\ a.heap = a0.heap /\ a.ref = a0.ref
      /\ a.terminating = a0.terminating /\ a.registered = a0.registered
  BY ZenonT(120), SMTT(30), <1>2, MsgFacts, OutcomeRel DEF Mild, Keeps, Good, TsxType, UpdateRs, NoOp
<1> HIDE DEF a
<1>4. Good(a) /\ Extra(a) = Extra(t) /\ ~Outstanding(a) /\ (Reg(t) => Reg(a))
      /\ a.state = t.state
  BY <1>2, <1>3 DEF Mild, Keeps, Good, Outstanding, Has, Reg, Extra, OwnRefs
<1>5. f \in SUBSET Flags
  BY <1>3 DEF TsxType, Flags
<1>6. b \in TsxType /\ b.flag = f /\ b.rs_op = a.rs_op /\ b.tp_op = a.tp_op
      /\ b.state = a.state /\ b.heap = a.heap /\ b.ref = a.ref
      /\ b.terminating = a.terminating /\ b.registered = a.registered
  <2> HIDE DEF f
  <2> QED BY ZenonT(120), SMTT(30), <1>3, <1>5 DEF TsxType
<1> HIDE DEF b
<1>7. Good(b) /\ Extra(b) = Extra(t) /\ ~Outstanding(b) /\ (Reg(t) => Reg(b))
      /\ NoRes(b) /\ b.state = t.state
  BY <1>4, <1>6 DEF Good, Outstanding, Has, Reg, NoRes, Extra, OwnRefs
<1>8. Mild(b, c)
  BY <1>7, ClearFlagMild
<1> HIDE DEF c
<1>9. Good(c) /\ Extra(c) = Extra(t) /\ ~Outstanding(c) /\ c \in TsxType
      /\ (Reg(t) => Reg(c)) /\ NoRes(c) /\ c.state = t.state
  BY <1>7, <1>8 DEF Mild, Keeps, Outstanding, Good
<1>10. Sends(t, d)
  <2>1. CASE ~Has(b, "PENDING_SEND") \/ b.last_tx = NoMsg
    BY <1>9, <2>1 DEF Sends, Settled
  <2>2. CASE ~(~Has(b, "PENDING_SEND") \/ b.last_tx = NoMsg) /\ Deferred(c, c.last_tx)
    <3>1. d = c \/ d = SetFlag(c, "PENDING_SEND")
      BY <2>2 DEF Defer, Ok
    <3> HIDE DEF d
    <3>2. d = c \/ Mild(c, d)
      BY <1>9, <3>1, SetFlagMild
    <3> QED BY <1>9, <3>2 DEF Mild, Keeps, Sends, Settled, Outstanding
  <2>3. CASE ~(~Has(b, "PENDING_SEND") \/ b.last_tx = NoMsg) /\ ~Deferred(c, c.last_tx)
    <3>1. c.last_tx = b.last_tx /\ c.last_tx \in Msgs
      BY <1>6, <1>9 DEF c, ClearFlags, TsxType
    <3>2. d = SendResolved(c, c.last_tx, o.again).tsx
      BY <2>3
    <3> HIDE DEF d
    <3>3. Keeps(c, d) /\ Settled(d) /\ (d.state = c.state \/ d.state >= TERMINATED)
      BY <1>9, <2>3, <3>1, <3>2, SendResolvedKeeps
    <3> QED BY <1>9, <3>3 DEF Keeps, Sends
  <2> QED BY <2>1, <2>2, <2>3
<1> HIDE DEF d
<1>11. Mild(d, e)
  BY <1>10, ClearFlagMild DEF Sends
<1> HIDE DEF e
<1>12. Sends(t, e)
  BY <1>10, <1>11, MildSends
<1>13. CASE Has(b, "PENDING_DESTROY")
  <2>1. w = tsx_set_state(b, DESTROYED)
    BY <1>1, <1>13
  <2>2. Keeps(b, w) /\ w.rs_op.msg = b.rs_op.msg /\ w.tp_op = b.tp_op
        /\ w.state = DESTROYED
    BY SMTT(30), Z3T(30), <1>7, <2>1, SetStateKeeps DEF States
  <2> QED BY <1>7, <2>2 DEF Keeps, Sends, Settled, Outstanding
<1>14. CASE ~Has(b, "PENDING_DESTROY") /\ Has(d, "PENDING_RESCHED") /\ ~d.is_reliable
  <2>1. w = tsx_schedule_timer(e, "retransmit", RETRANSMIT_TIMER)
    BY <1>1, <1>14 DEF tsx_resched_retransmission
  <2>2. Mild(e, w)
    BY <1>12, <2>1, ScheduleKeeps, SameMild DEF Sends, Timers
  <2> QED BY <1>12, <2>2, MildSends
<1> QED BY <1>1, <1>12, <1>13, <1>14

\* send_msg_callback() of a send that failed for good.
LEMMA SendCallbackFailedSends ==
    ASSUME NEW t, Good(t), t.rs_op.msg # NoMsg, NEW w, w = SendCallbackFailed(t)
    PROVE  Sends(t, w)
<1> DEFINE a == [t EXCEPT !.rs_op = NoOp, !.transport_err = TRUE, !.transport = FALSE]
           f == (a.flag \ {"PENDING_TRANSPORT"}) \cup {"RESOLVED_SERVER"}
           b0 == [a EXCEPT !.flag = f]
           b == tsx_set_status_code(b0, PJSIP_SC_TSX_TRANSPORT_ERROR)
<1>1. a \in TsxType /\ a.rs_op.msg = NoMsg /\ a.tp_op = t.tp_op /\ a.state = t.state
      /\ a.flag = t.flag /\ a.heap = t.heap /\ a.ref = t.ref
      /\ a.terminating = t.terminating /\ a.registered = t.registered
  BY MsgFacts DEF Good, TsxType, NoOp
<1>2. b0 = SetFlag(ClearFlags(a, {"PENDING_TRANSPORT"}), "RESOLVED_SERVER")
  <2> HIDE DEF a
  <2> QED BY <1>1 DEF SetFlag, ClearFlags, TsxType
<1>3. w = IF b.state < TERMINATED THEN tsx_set_state(b, TERMINATED)
          ELSE IF Has(b, "PENDING_DESTROY") THEN tsx_set_state(b, DESTROYED) ELSE b
  <2>1. w = SendGivenUp(b)
    BY <1>2 DEF SendCallbackFailed
  <2> QED BY <2>1 DEF SendGivenUp
<1> HIDE DEF a
<1>4. f \in SUBSET Flags
  BY <1>1 DEF TsxType, Flags
<1>5. b0 \in TsxType /\ b0.rs_op = a.rs_op /\ b0.tp_op = a.tp_op
      /\ b0.state = a.state /\ b0.heap = a.heap /\ b0.ref = a.ref
      /\ b0.terminating = a.terminating /\ b0.registered = a.registered /\ b0.flag = f
  <2> HIDE DEF f
  <2> QED BY ZenonT(120), SMTT(30), <1>1, <1>4 DEF TsxType
<1> HIDE DEF b0
<1>6. Good(b0) /\ Extra(b0) = Extra(t) /\ ~Outstanding(b0) /\ (Reg(t) => Reg(b0))
      /\ NoRes(b0)
  BY <1>1, <1>5 DEF Good, Outstanding, Has, Reg, NoRes, Extra, OwnRefs
<1>7. Keeps(b0, b) /\ SameSends(b0, b)
  <2>1. PJSIP_SC_TSX_TRANSPORT_ERROR \in Codes
    BY SMTT(30), Z3T(30) DEF Codes, PJSIP_SC_TSX_TRANSPORT_ERROR
  <2> QED BY <1>6, <2>1, StatusCodeKeeps
<1> HIDE DEF b
<1>8. Good(b) /\ Extra(b) = Extra(t) /\ ~Outstanding(b) /\ (Reg(t) => Reg(b))
      /\ NoRes(b) /\ b.state = t.state
  BY <1>1, <1>5, <1>6, <1>7 DEF Keeps, SameSends, Outstanding
<1>9. CASE w = b
  BY <1>8, <1>9 DEF Sends, Settled
<1>10. ASSUME NEW s \in {TERMINATED, DESTROYED}, w = tsx_set_state(b, s)
       PROVE  Sends(t, w)
  <2>1. Keeps(b, w) /\ w.rs_op.msg = b.rs_op.msg /\ w.tp_op = b.tp_op /\ w.state = s
    BY SMTT(30), Z3T(30), <1>8, <1>10, SetStateKeeps DEF States
  <2> QED BY <1>8, <2>1 DEF Keeps, Sends, Settled, Outstanding
<1> QED BY <1>3, <1>9, <1>10

\* send_msg_callback() when the next address is tried.
LEMMA SendCallbackRetryKeeps ==
    ASSUME NEW t, Good(t), NEW w, w = SendCallbackRetry(t)
    PROVE  Keeps(t, w) /\ w.state = t.state
<1> DEFINE a == IF t.id["timeout"] # TIMER_INACTIVE
                THEN RestartTimeout(t, TIMEOUT_TIMER) ELSE t
<1>1. Keeps(t, a) /\ a.state = t.state
  BY SMTT(30), Z3T(30), RestartKeeps DEF Keeps, SameSends
<1> DEFINE op == [a.rs_op EXCEPT !.sending = FALSE, !.attached = TRUE]
<1>2. w = [a EXCEPT !.rs_op = op, !.transport = FALSE]
  BY DEF SendCallbackRetry
<1> HIDE DEF a
<1>0. op \in [msg : Msgs, sending : BOOLEAN, attached : BOOLEAN] /\ op.msg = a.rs_op.msg
  BY <1>1 DEF Keeps, Good, TsxType
<1> HIDE DEF op
<1>3. w \in TsxType /\ w.rs_op.msg = a.rs_op.msg /\ w.tp_op = a.tp_op
      /\ w.state = a.state /\ w.heap = a.heap /\ w.ref = a.ref
      /\ w.terminating = a.terminating /\ w.flag = a.flag
      /\ w.registered = a.registered
  BY ZenonT(120), SMTT(30), <1>0, <1>1, <1>2 DEF Keeps, Good, TsxType
<1>4. Keeps(a, w)
  BY <1>1, <1>3 DEF Keeps, Good, Outstanding, Has, Reg, NoRes, Extra, OwnRefs
<1> QED BY <1>1, <1>3, <1>4, KeepsTransitive

\* tsx_send_msg() while another send is outstanding.
LEMMA DeferKeeps ==
    ASSUME NEW t, Good(t), NEW s, s = Defer(t)
    PROVE  Mild(t, s.tsx)
<1>1. s.tsx = t \/ s.tsx = SetFlag(t, "PENDING_SEND")
  BY DEF Defer, Ok
<1>2. Mild(t, t)
  BY DEF Mild, Keeps
<1> QED BY <1>1, <1>2, SetFlagMild

UpdateOp(t, f, op) == [t EXCEPT !.flag = f, !.rs_op = op]

\* tsx_send_msg() starts a send only if none is outstanding.
LEMMA SendMsgKeeps ==
    ASSUME NEW t, Good(t), Settled(t), NEW m \in Msgs, NEW o \in Outcomes,
           NEW s, s = tsx_send_msg(t, m, o)
    PROVE  Keeps(t, s.tsx) /\ Settled(s.tsx)
<1>1. CASE m = NoMsg
  BY <1>1 DEF tsx_send_msg, Err, Keeps
<1>2. CASE m # NoMsg /\ Deferred(t, m)
  <2>1. s = Defer(t)
    BY <1>2 DEF tsx_send_msg
  <2> QED BY SMTT(30), Z3T(30), <2>1, DeferKeeps DEF Mild, Settled, Outstanding
<1>3. CASE m # NoMsg /\ ~Deferred(t, m)
           /\ ((t.transport /\ o.tp # "error") \/ Has(t, "RESOLVED_SERVER"))
  <2>1. s = SendResolved(t, m, o.tp)
    BY <1>3 DEF tsx_send_msg
  <2>2. ~Outstanding(t)
    BY <1>3 DEF Deferred, Settled
  <2> QED BY <1>3, <2>1, <2>2, SendResolvedKeeps
<1>4. CASE m # NoMsg /\ ~Deferred(t, m)
           /\ ~((t.transport /\ o.tp # "error") \/ Has(t, "RESOLVED_SERVER"))
  <2> DEFINE a0 == tsx_update_transport(t, "none")
             f == a0.flag \cup {"PENDING_TRANSPORT"}
             op == [msg |-> m, sending |-> FALSE, attached |-> TRUE]
             b == UpdateOp(a0, f, op)
             x == Emit(b, m)
             c == CASE o.rs = "pending" -> b
                    [] o.rs = "error" -> SendCallbackFailed(b)
                    [] OTHER -> SendCallbackOk(x, o)
  <2>1. Mild(t, a0)
    BY UpdateTransportKeeps, SameMild
  <2>2. b = [SetFlag(a0, "PENDING_TRANSPORT") EXCEPT !.rs_op = op]
    <3>1. a0 \in TsxType
      BY <2>1 DEF Mild, Keeps, Good
    <3> HIDE DEF a0, op
    <3> QED BY <3>1 DEF UpdateOp, SetFlag, TsxType
  <2>3. s.tsx = c
    <3>1. s = StatelessSent(send_request_stateless(b, m, o))
      BY <1>4, <2>2 DEF tsx_send_msg
    <3> HIDE DEF b
    <3> QED BY <3>1 DEF StatelessSent, send_request_stateless
  <2> HIDE DEF a0
  <2>4. a0 \in TsxType /\ f \in SUBSET Flags /\ ~Outstanding(t) /\ ~Outstanding(a0)
    BY <1>4, <2>1 DEF Mild, Keeps, Good, TsxType, Flags, Deferred, Settled, Outstanding
  <2>5. op \in [msg : Msgs, sending : BOOLEAN, attached : BOOLEAN] /\ op.msg = m
    OBVIOUS
  <2>6. b \in TsxType /\ b.flag = f /\ b.rs_op.msg = m /\ b.tp_op = a0.tp_op
        /\ b.state = a0.state /\ b.heap = a0.heap /\ b.ref = a0.ref
        /\ b.terminating = a0.terminating /\ b.registered = a0.registered
    <3> HIDE DEF f, op
    <3> QED BY <2>4, <2>5 DEF TsxType, UpdateOp
  <2> HIDE DEF b
  <2>7. Good(b) /\ Extra(b) = Extra(t) /\ (Reg(t) => Reg(b))
        /\ Settled(b) /\ b.rs_op.msg # NoMsg
    BY <1>4, <2>1, <2>4, <2>6
       DEF Mild, Keeps, Good, Outstanding, Has, Reg, Extra, OwnRefs, Settled
  <2>8. Mild(b, x)
    BY <2>7, EmitMild
  <2> HIDE DEF x
  <2>9. Good(c) /\ Extra(c) = Extra(t) /\ Settled(c) /\ (Reg(t) => Reg(c)) /\ NoRes(c)
    <3>1. CASE o.rs = "pending"
      BY <2>7, <3>1, OutcomeRel DEF NoRes
    <3>2. CASE o.rs = "error"
      <4>1. c = SendCallbackFailed(b)
        BY <3>2
      <4> HIDE DEF c
      <4>2. Sends(b, c)
        BY <2>7, <4>1, SendCallbackFailedSends
      <4> QED BY <2>7, <4>2 DEF Sends
    <3>3. CASE o.rs # "pending" /\ o.rs # "error"
      <4>1. c = SendCallbackOk(x, o)
        BY <3>3
      <4> HIDE DEF c
      <4>2. Sends(x, c)
        BY <2>7, <2>8, <4>1, SendCallbackOkSends DEF Mild, Keeps
      <4> QED BY <2>7, <2>8, <4>2 DEF Mild, Keeps, Sends
    <3> QED BY <3>1, <3>2, <3>3
  <2> QED BY <2>3, <2>4, <2>9 DEF Keeps, Outstanding
<1> QED BY <1>1, <1>2, <1>3, <1>4

----------------------------------------------------------------------------
(* State handlers.                                                          *)

\* Mild steps of a settled transaction leave it good and settled.
LEMMA MildGood == ASSUME NEW t, NEW u, Mild(t, u), Settled(t)
                  PROVE  Good(u) /\ Settled(u)
  BY DEF Mild, Keeps, Settled, Outstanding

\* tsx_cancel_timer().
LEMMA CancelMild ==
    ASSUME NEW t, Good(t), NEW e \in Timers, NEW u, u = tsx_cancel_timer(t, e)
    PROVE  Mild(t, u)
  BY CancelKeeps, SameMild

\* tsx_schedule_timer().
LEMMA ScheduleMild ==
    ASSUME NEW t, Good(t), NEW e \in Timers, NEW i \in 0..3,
           NEW u, u = tsx_schedule_timer(t, e, i)
    PROVE  Mild(t, u)
  BY ScheduleKeeps, SameMild

\* Restarting the timeout timer.
LEMMA RestartMild ==
    ASSUME NEW t, Good(t), NEW i \in 0..3, NEW u, u = RestartTimeout(t, i)
    PROVE  Mild(t, u)
  BY RestartKeeps, SameMild

\* tsx_set_status_code().
LEMMA StatusCodeMild ==
    ASSUME NEW t, Good(t), NEW code \in Codes, NEW u, u = tsx_set_status_code(t, code)
    PROVE  Mild(t, u)
  BY StatusCodeKeeps, SameMild

\* Doing nothing is mild.
LEMMA SelfMild == ASSUME NEW t, Good(t) PROVE Mild(t, t)
  BY DEF Mild, Keeps

\* Scheduling the next retransmission.
LEMMA ScheduleRetransmitMild ==
    ASSUME NEW t, Good(t), NEW u, u = ScheduleRetransmit(t)
    PROVE  Mild(t, u)
<1>1. CASE Has(t, "PENDING_TRANSPORT")
  BY <1>1, SetFlagMild DEF ScheduleRetransmit
<1>2. CASE ~Has(t, "PENDING_TRANSPORT")
  BY <1>2, ScheduleMild DEF ScheduleRetransmit, Timers
<1> QED BY <1>1, <1>2

\* The outcomes of tsx_retransmit().
Retransmits(t, o, s) == \/ s.tsx = t
                        \/ s = tsx_send_msg(t, t.last_tx, o)
                        \/ s = tsx_send_msg(ScheduleRetransmit(t), t.last_tx, o)

\* tsx_retransmit().
LEMMA RetransmitKeeps ==
    ASSUME NEW t, Good(t), Settled(t), NEW o \in Outcomes,
           NEW s, Retransmits(t, o, s)
    PROVE  Keeps(t, s.tsx)
<1> DEFINE a == ScheduleRetransmit(t)
<1>1. \/ s.tsx = t
      \/ s = tsx_send_msg(t, t.last_tx, o)
      \/ s = tsx_send_msg(a, t.last_tx, o)
  BY DEF Retransmits
<1>2. Mild(t, a) /\ Mild(t, t) /\ t.last_tx \in Msgs
  BY ScheduleRetransmitMild, SelfMild DEF Good, TsxType
<1> HIDE DEF a
<1>3. ASSUME NEW x, Mild(t, x), s = tsx_send_msg(x, t.last_tx, o)
      PROVE  Keeps(t, s.tsx)
  <2>1. Keeps(x, s.tsx)
    BY <1>2, <1>3, MildGood, SendMsgKeeps
  <2> QED BY <1>3, <2>1, KeepsTransitive DEF Mild
<1> QED BY <1>1, <1>2, <1>3 DEF Mild

\* Terminating with a status code.
LEMMA TerminateKeeps ==
    ASSUME NEW t, Good(t), NEW code \in Codes,
           NEW u, u = tsx_set_state(tsx_set_status_code(t, code), TERMINATED)
    PROVE  Keeps(t, u) /\ u.state = TERMINATED /\ u.registered = t.registered
<1> DEFINE a == tsx_set_status_code(t, code)
<1>1. Mild(t, a)
  BY StatusCodeMild
<1>2. Keeps(a, u) /\ u.state = TERMINATED /\ u.registered = a.registered
  <2>1. u = tsx_set_state(a, TERMINATED) /\ TERMINATED \in States /\ ~(TERMINATED < TERMINATED)
    BY DEF States
  <2> HIDE DEF a
  <2>2. Good(a)
    BY <1>1 DEF Mild, Keeps
  <2> QED BY SMTT(30), Z3T(30), <2>1, <2>2, SetStateKeeps
<1> HIDE DEF a
<1> QED BY <1>1, <1>2, KeepsTransitive DEF Mild

\* The timeout timer terminates with 408.
LEMMA TimedOutKeeps == ASSUME NEW t, Good(t), NEW u, u = TimedOut(t) PROVE Keeps(t, u)
<1>1. PJSIP_SC_TSX_TIMEOUT \in Codes
  BY SMTT(30), Z3T(30) DEF Codes, PJSIP_SC_TSX_TIMEOUT
<1> QED BY <1>1, TerminateKeeps DEF TimedOut

\* tsx_on_state_null().
LEMMA NullKeeps ==
    ASSUME NEW t, Good(t), Settled(t), NEW ev, ev.msg \in Msgs, NEW o \in Outcomes,
           NEW h, h = tsx_on_state_null(t, ev, o)
    PROVE  Keeps(t, h.tsx)
<1> DEFINE z == [t EXCEPT !.last_tx = ev.msg]
           s == tsx_send_msg(z, ev.msg, o)
           a == RestartTimeout(s.tsx, TIMEOUT_TIMER)
           b == IF a.is_reliable THEN a ELSE ScheduleRetransmit(a)
<1>1. CASE Role = "UAS"
  <2>1. h.tsx = tsx_set_state(t, TRYING)
    BY <1>1 DEF tsx_on_state_null, Ok
  <2> QED BY SMTT(30), Z3T(30), <2>1, SetStateKeeps DEF States
<1>2. CASE Role # "UAS" /\ ev.type # "TX"
  BY <1>2 DEF tsx_on_state_null, Err, Keeps
<1>3. CASE Role # "UAS" /\ ev.type = "TX"
  <2>1. h = IF s.ok THEN Ok(tsx_set_state(b, CALLING)) ELSE s
    <3>1. h = RequestSent(s)
      BY <1>3 DEF tsx_on_state_null
    <3> QED BY <3>1 DEF RequestSent
  <2>2. Mild(t, z)
    BY LastTxMild
  <2> HIDE DEF z
  <2>3. Keeps(z, s.tsx) /\ Settled(s.tsx)
    BY <2>2, MildGood, SendMsgKeeps
  <2> HIDE DEF s
  <2>4. Mild(s.tsx, a)
    BY <2>3, RestartMild DEF Keeps
  <2> HIDE DEF a
  <2>5. Mild(a, b)
    BY ZenonT(120), SMTT(30), <2>4, ScheduleRetransmitMild, SelfMild DEF Mild, Keeps
  <2> HIDE DEF b
  <2>6. Keeps(t, s.tsx) /\ Keeps(t, b) /\ Settled(b)
    BY ZenonT(120), SMTT(30), <2>2, <2>3, <2>4, <2>5, KeepsTransitive, MildGood DEF Mild
  <2>7. CASE s.ok
    <3>1. h.tsx = tsx_set_state(b, CALLING)
      BY <2>1, <2>7 DEF Ok
    <3>2. Keeps(b, h.tsx)
      BY SMTT(30), Z3T(30), <2>6, <3>1, SetStateKeeps DEF Keeps, States
    <3> QED BY <2>6, <3>2, KeepsTransitive
  <2> QED BY <2>1, <2>6, <2>7
<1> QED BY <1>1, <1>2, <1>3

\* A final failure at a client: the ACK of an INVITE, and what follows it.
LEMMA FinalFailureKeeps ==
    ASSUME NEW t, Good(t), Settled(t), NEW o \in Outcomes,
           NEW h, h = FinalFailure(t, o)
    PROVE  Keeps(t, h.tsx)
<1> DEFINE z == tsx_cancel_timer(t, "retransmit")
           a == tsx_cancel_timer(z, "timeout")
           s == IF Invite THEN tsx_send_msg(a, ACK, o) ELSE Ok(a)
           b == tsx_set_state(s.tsx, COMPLETED)
           c == IF Invite THEN [b EXCEPT !.last_tx = ACK] ELSE b
<1>1. h = IF s.ok THEN Ok(RestartTimeout(c, TIMEOUT_TIMER)) ELSE s
  <2>1. h = AckSent(s)
    BY DEF FinalFailure
  <2> QED BY <2>1 DEF AckSent
<1>2. Mild(t, z)
  BY CancelMild DEF Timers
<1> HIDE DEF z
<1>3. Mild(z, a)
  BY <1>2, CancelMild, MildGood DEF Timers
<1> HIDE DEF a
<1>4. Mild(t, a) /\ Good(a) /\ Settled(a)
  BY <1>2, <1>3, MildTransitive, MildGood
<1>5. Keeps(a, s.tsx) /\ Settled(s.tsx)
  <2>1. CASE Invite
    BY <1>4, <2>1, SendMsgKeeps, MsgFacts
  <2>2. CASE ~Invite
    BY <1>4, <2>2 DEF Ok, Keeps
  <2> QED BY <2>1, <2>2
<1> HIDE DEF s
<1>6. Keeps(s.tsx, b)
  BY SMTT(30), Z3T(30), <1>5, SetStateKeeps DEF Keeps, States
<1> HIDE DEF b
<1>7. Mild(b, c)
  BY <1>6, LastTxMild, SelfMild, MsgFacts DEF Keeps
<1> HIDE DEF c
<1>8. Keeps(t, s.tsx) /\ Keeps(t, c)
  BY <1>4, <1>5, <1>6, <1>7, KeepsTransitive DEF Mild
<1>9. CASE s.ok
  <2>1. h.tsx = RestartTimeout(c, TIMEOUT_TIMER)
    BY <1>1, <1>9 DEF Ok
  <2>2. Mild(c, h.tsx)
    BY <1>8, <2>1, RestartMild DEF Keeps
  <2> QED BY <1>8, <2>2, KeepsTransitive DEF Mild
<1> QED BY <1>1, <1>8, <1>9

\* A change of state after operators that leave the state alone.
LEMMA MildSetState ==
    ASSUME NEW t, Settled(t), NEW a, Mild(t, a), NEW s \in States,
           NEW u, u = tsx_set_state(a, s)
    PROVE  Keeps(t, u)
<1>1. Good(a) /\ Settled(a)
  BY MildGood
<1>2. Keeps(a, u)
  BY <1>1, SetStateKeeps
<1> QED BY <1>2, KeepsTransitive DEF Mild

\* tsx_on_state_proceeding_uac().
LEMMA ProceedingUacKeeps ==
    ASSUME NEW t, Good(t), Settled(t), NEW ev, ev.msg \in Msgs, NEW o \in Outcomes,
           NEW h, h = tsx_on_state_proceeding_uac(t, ev, o)
    PROVE  Keeps(t, h.tsx)
<1>1. CASE IsTimer(ev, "retransmit")
  <2>1. Retransmits(t, o, h)
    BY <1>1 DEF tsx_on_state_proceeding_uac, tsx_retransmit, Ok, Err, Retransmits
  <2> QED BY <2>1, RetransmitKeeps
<1>2. CASE ~IsTimer(ev, "retransmit") /\ IsTimer(ev, "timeout")
  <2>1. h.tsx = TimedOut(t)
    BY <1>2 DEF tsx_on_state_proceeding_uac, Ok
  <2> QED BY <2>1, TimedOutKeeps
<1>3. CASE ~IsTimer(ev, "retransmit") /\ ~IsTimer(ev, "timeout") /\ ev.type = "TX"
  <2>1. h.tsx = t
    BY <1>3 DEF tsx_on_state_proceeding_uac, Err
  <2> QED BY <2>1 DEF Keeps
<1>4. CASE ~IsTimer(ev, "retransmit") /\ ~IsTimer(ev, "timeout") /\ ev.type # "TX"
  <2> DEFINE a == tsx_set_status_code(t, ev.msg)
             b == tsx_cancel_timer(a, "timeout")
             d == tsx_schedule_timer(b, "timeout", TIMEOUT_TIMER)
             c == tsx_cancel_timer(d, "retransmit")
  <2>1. h = CASE Class(ev.msg, 100) -> Ok(tsx_set_state(a, PROCEEDING))
              [] Class(ev.msg, 200) -> Ok(IF Invite THEN tsx_set_state(b, TERMINATED)
                                          ELSE tsx_set_state(c, COMPLETED))
              [] OTHER -> FinalFailure(a, o)
    BY <1>4 DEF tsx_on_state_proceeding_uac
  <2>2. Mild(t, a)
    <3>1. ev.msg \in Codes
      BY SMTT(30), Z3T(30) DEF Msgs, Responses, Codes
    <3> QED BY <3>1, StatusCodeMild
  <2> HIDE DEF a
  <2>3. Mild(a, b)
    BY <2>2, MildGood, CancelMild DEF Timers
  <2> HIDE DEF b
  <2>4. Mild(t, b)
    BY <2>2, <2>3, MildTransitive
  <2>5. Mild(b, d)
    BY <2>4, MildGood, ScheduleMild DEF Timers
  <2> HIDE DEF d
  <2>6. Mild(t, d)
    BY <2>4, <2>5, MildTransitive
  <2>7. Mild(d, c)
    BY <2>6, MildGood, CancelMild DEF Timers
  <2> HIDE DEF c
  <2>8. Mild(t, c)
    BY <2>6, <2>7, MildTransitive
  <2>9. \/ h.tsx = tsx_set_state(a, PROCEEDING)
        \/ h.tsx = tsx_set_state(b, TERMINATED)
        \/ h.tsx = tsx_set_state(c, COMPLETED)
        \/ h = FinalFailure(a, o)
    BY <2>1 DEF Ok
  <2>10. CASE h = FinalFailure(a, o)
    BY <2>2, <2>10, MildGood, FinalFailureKeeps, KeepsTransitive DEF Mild
  <2>11. PROCEEDING \in States /\ TERMINATED \in States /\ COMPLETED \in States
    BY DEF States
  <2>12. CASE h.tsx = tsx_set_state(a, PROCEEDING)
    BY <2>2, <2>11, <2>12, MildSetState
  <2>13. CASE h.tsx = tsx_set_state(b, TERMINATED)
    BY <2>4, <2>11, <2>13, MildSetState
  <2>14. CASE h.tsx = tsx_set_state(c, COMPLETED)
    BY <2>8, <2>11, <2>14, MildSetState
  <2> QED BY <2>9, <2>10, <2>12, <2>13, <2>14
<1> QED BY <1>1, <1>2, <1>3, <1>4

\* tsx_on_state_calling().
LEMMA CallingKeeps ==
    ASSUME NEW t, Good(t), Settled(t), NEW ev, ev.msg \in Msgs, NEW o \in Outcomes,
           NEW h, h = tsx_on_state_calling(t, ev, o)
    PROVE  Keeps(t, h.tsx)
<1> DEFINE a == tsx_cancel_timer(t, "retransmit")
           x == tsx_cancel_timer(a, "timeout")
           y == tsx_schedule_timer(a, "retransmit", RETRANSMIT_TIMER)
           final == IF t.id["timeout"] # TIMER_INACTIVE THEN x ELSE a
           provisional == IF Invite THEN x ELSE IF a.is_reliable THEN a ELSE y
           b == IF ev.msg >= 200 THEN final ELSE provisional
           ca == ClearFlags(a, {"PENDING_RESCHED"})
           cb == ClearFlags(b, {"PENDING_RESCHED"})
           p == tsx_on_state_proceeding_uac(cb, ev, o)
<1>1. \/ Retransmits(t, o, h)
      \/ h.tsx = TimedOut(ca)
      \/ h.tsx = t
      \/ h.tsx = p.tsx
  BY DEF tsx_on_state_calling, tsx_retransmit, Ok, Err, Retransmits
<1>2. Mild(t, a)
  BY CancelMild DEF Timers
<1> HIDE DEF a
<1>3. Mild(a, x) /\ Mild(a, y) /\ Mild(a, a)
  BY SMTT(30), Z3T(30), <1>2, MildGood, CancelMild, ScheduleMild, SelfMild DEF Timers
<1>4. Mild(a, b)
  BY <1>3
<1> HIDE DEF b
<1>5. Mild(t, b)
  BY <1>2, <1>4, MildTransitive
<1>6. Mild(a, ca) /\ Mild(b, cb)
  BY <1>2, <1>5, MildGood, ClearFlagMild
<1> HIDE DEF ca, cb
<1>7. Mild(t, ca) /\ Mild(t, cb)
  BY <1>2, <1>5, <1>6, MildTransitive
<1>8. CASE Retransmits(t, o, h)
  BY <1>8, RetransmitKeeps
<1>9. CASE h.tsx = TimedOut(ca)
  <2>1. Keeps(ca, h.tsx)
    BY <1>7, <1>9, MildGood, TimedOutKeeps
  <2> QED BY <1>7, <2>1, KeepsTransitive DEF Mild
<1>10. CASE h.tsx = t
  BY <1>10 DEF Keeps
<1>11. CASE h.tsx = p.tsx
  <2>1. Keeps(cb, p.tsx)
    BY <1>7, MildGood, ProceedingUacKeeps
  <2> QED BY <1>7, <1>11, <2>1, KeepsTransitive DEF Mild
<1> QED BY <1>1, <1>8, <1>9, <1>10, <1>11

\* What follows the sending of a response by a server.
LEMMA ResponseSentKeeps ==
    ASSUME NEW t, Good(t), Settled(t), NEW m \in Msgs, NEW u, u = ResponseSent(t, m)
    PROVE  Keeps(t, u)
<1> DEFINE a == [t EXCEPT !.last_tx = m]
           b == tsx_set_state(a, PROCEEDING)
           b1 == tsx_cancel_timer(b, "retransmit")
           b2 == ScheduleRetransmit(b1)
           c0 == tsx_cancel_timer(a, "retransmit")
           c == RestartTimeout(c0, TIMEOUT_TIMER)
           c1 == ScheduleRetransmit(c)
<1>1. u = b \/ u = b2 \/ u = tsx_set_state(c, COMPLETED) \/ u = tsx_set_state(c1, COMPLETED)
  BY DEF ResponseSent
<1>2. Mild(t, a)
  BY LastTxMild
<1> HIDE DEF a
<1>3. Keeps(t, b)
  BY <1>2, MildSetState DEF States
<1> HIDE DEF b
<1>4. Mild(b, b1)
  BY <1>3, CancelMild DEF Keeps, Timers
<1> HIDE DEF b1
<1>5. Mild(b1, b2)
  BY <1>4, ScheduleRetransmitMild DEF Mild, Keeps
<1> HIDE DEF b2
<1>6. Keeps(t, b2)
  BY <1>3, <1>4, <1>5, KeepsTransitive DEF Mild
<1>7. Mild(a, c0)
  BY <1>2, MildGood, CancelMild DEF Timers
<1> HIDE DEF c0
<1>8. Mild(t, c0)
  BY <1>2, <1>7, MildTransitive
<1>9. Mild(c0, c)
  BY <1>8, MildGood, RestartMild
<1> HIDE DEF c
<1>10. Mild(t, c)
  BY <1>8, <1>9, MildTransitive
<1>11. Mild(c, c1)
  BY <1>10, MildGood, ScheduleRetransmitMild
<1> HIDE DEF c1
<1>12. Mild(t, c1)
  BY <1>10, <1>11, MildTransitive
<1> QED BY <1>1, <1>3, <1>6, <1>10, <1>12, MildSetState DEF States

\* tsx_on_state_proceeding_uas().
LEMMA ProceedingUasKeeps ==
    ASSUME NEW t, Good(t), Settled(t), NEW ev, ev.msg \in Msgs, NEW o \in Outcomes,
           NEW h, h = tsx_on_state_proceeding_uas(t, ev, o)
    PROVE  Keeps(t, h.tsx)
<1> DEFINE z == [t EXCEPT !.last_tx = NoMsg]
           a == tsx_set_status_code(z, ev.msg)
           s == tsx_send_msg(a, ev.msg, o)
<1>1. \/ Retransmits(t, o, h)
      \/ h.tsx = TimedOut(t)
      \/ h = IF s.ok THEN Ok(ResponseSent(s.tsx, ev.msg)) ELSE s
  BY DEF tsx_on_state_proceeding_uas, Responded, tsx_retransmit, Retransmits, Ok, Err
<1>2. Mild(t, z)
  BY LastTxMild, MsgFacts
<1> HIDE DEF z
<1>3. Mild(z, a)
  <2>1. ev.msg \in Codes
    BY SMTT(30), Z3T(30) DEF Msgs, Responses, Codes
  <2> QED BY <1>2, <2>1, MildGood, StatusCodeMild
<1> HIDE DEF a
<1>4. Mild(t, a)
  BY <1>2, <1>3, MildTransitive
<1>5. Keeps(a, s.tsx) /\ Settled(s.tsx)
  BY <1>4, MildGood, SendMsgKeeps
<1> HIDE DEF s
<1>6. Keeps(t, s.tsx)
  BY <1>4, <1>5, KeepsTransitive DEF Mild
<1>7. CASE Retransmits(t, o, h)
  BY <1>7, RetransmitKeeps
<1>8. CASE h.tsx = TimedOut(t)
  BY <1>8, TimedOutKeeps
<1>9. CASE s.ok /\ h.tsx = ResponseSent(s.tsx, ev.msg)
  <2>1. Keeps(s.tsx, h.tsx)
    BY <1>5, <1>9, ResponseSentKeeps DEF Keeps
  <2> QED BY <1>6, <2>1, KeepsTransitive
<1> QED BY <1>1, <1>6, <1>7, <1>8, <1>9 DEF Ok

\* tsx_on_state_trying().
LEMMA TryingKeeps ==
    ASSUME NEW t, Good(t), Settled(t), NEW ev, ev.msg \in Msgs, NEW o \in Outcomes,
           NEW h, h = tsx_on_state_trying(t, ev, o)
    PROVE  Keeps(t, h.tsx)
<1>1. h.tsx = t \/ h = tsx_on_state_proceeding_uas(t, ev, o)
  BY DEF tsx_on_state_trying, Ok
<1> QED BY SMTT(30), Z3T(30), <1>1, ProceedingUasKeeps DEF Keeps

\* tsx_on_state_completed_uas().
LEMMA CompletedUasKeeps ==
    ASSUME NEW t, Good(t), Settled(t), NEW ev, ev.msg \in Msgs, NEW o \in Outcomes,
           NEW h, h = tsx_on_state_completed_uas(t, ev, o)
    PROVE  Keeps(t, h.tsx)
<1> DEFINE z == tsx_cancel_timer(t, "retransmit")
           a == ClearFlags(z, {"PENDING_RESCHED"})
           b == RestartTimeout(a, TIMEOUT_TIMER)
<1>1. \/ Retransmits(t, o, h)
      \/ h.tsx = TimedOut(t)
      \/ h.tsx = tsx_set_state(t, TERMINATED)
      \/ h.tsx = tsx_set_state(b, CONFIRMED)
  BY DEF tsx_on_state_completed_uas, tsx_retransmit, Retransmits, Ok, Err
<1>2. Mild(t, z)
  BY CancelMild DEF Timers
<1> HIDE DEF z
<1>3. Mild(z, a)
  BY <1>2, MildGood, ClearFlagMild
<1> HIDE DEF a
<1>4. Mild(t, a)
  BY <1>2, <1>3, MildTransitive
<1>5. Mild(a, b)
  BY <1>4, MildGood, RestartMild
<1> HIDE DEF b
<1>6. Mild(t, b) /\ Mild(t, t) /\ CONFIRMED \in States /\ TERMINATED \in States
  BY <1>4, <1>5, MildTransitive, SelfMild DEF States
<1>7. CASE Retransmits(t, o, h)
  BY <1>7, RetransmitKeeps
<1>8. CASE h.tsx = TimedOut(t)
  BY <1>8, TimedOutKeeps
<1>9. CASE h.tsx = tsx_set_state(t, TERMINATED)
  BY <1>6, <1>9, MildSetState
<1>10. CASE h.tsx = tsx_set_state(b, CONFIRMED)
  BY <1>6, <1>10, MildSetState
<1> QED BY <1>1, <1>7, <1>8, <1>9, <1>10

\* tsx_on_state_completed_uac() and tsx_on_state_confirmed().
LEMMA CompletedUacKeeps ==
    ASSUME NEW t, Good(t), Settled(t), NEW ev, NEW o \in Outcomes,
           NEW h, \/ h = tsx_on_state_completed_uac(t, ev, o)
                  \/ h = tsx_on_state_confirmed(t, ev, o)
    PROVE  Keeps(t, h.tsx)
<1>1. Retransmits(t, o, h) \/ h.tsx = tsx_set_state(t, TERMINATED)
  BY DEF tsx_on_state_completed_uac, tsx_on_state_confirmed, tsx_retransmit,
         Retransmits, Ok, Err
<1>2. Mild(t, t) /\ TERMINATED \in States
  BY SelfMild DEF States
<1>3. CASE Retransmits(t, o, h)
  BY <1>3, RetransmitKeeps
<1>4. CASE h.tsx = tsx_set_state(t, TERMINATED)
  BY <1>2, <1>4, MildSetState
<1> QED BY <1>1, <1>3, <1>4

\* tsx_on_state_terminated() and tsx_on_state_destroyed().
LEMMA OverKeeps ==
    ASSUME NEW t, Good(t), NEW ev, NEW o,
           NEW h, \/ h = tsx_on_state_terminated(t, ev, o)
                  \/ h = tsx_on_state_destroyed(t, ev, o)
    PROVE  Keeps(t, h.tsx)
<1>1. h.tsx = t \/ h.tsx = tsx_set_state(t, DESTROYED)
  BY DEF tsx_on_state_terminated, tsx_on_state_destroyed, Ok, Err
<1> QED BY SMTT(30), Z3T(30), <1>1, SetStateKeeps DEF States, Keeps

\* Whichever handler state_handler points to.
LEMMA HandlerKeeps ==
    ASSUME NEW t, Good(t), NEW ev, ev.msg \in Msgs, NEW o \in Outcomes,
           NEW h, h = state_handler(t, ev, o)
    PROVE  Keeps(t, h.tsx)
<1>1. t.state \in States
  BY DEF Good, TsxType
<1>2. CASE t.state < TERMINATED
  <2>1. Settled(t)
    BY <1>2 DEF Good, Settled
  <2>2. \/ h = tsx_on_state_null(t, ev, o)
        \/ h = tsx_on_state_calling(t, ev, o)
        \/ h = tsx_on_state_trying(t, ev, o)
        \/ h = tsx_on_state_proceeding_uac(t, ev, o)
        \/ h = tsx_on_state_proceeding_uas(t, ev, o)
        \/ h = tsx_on_state_completed_uac(t, ev, o)
        \/ h = tsx_on_state_completed_uas(t, ev, o)
        \/ h = tsx_on_state_confirmed(t, ev, o)
    BY <1>1, <1>2 DEF state_handler, States
  <2>3. CASE h = tsx_on_state_null(t, ev, o)
    BY <1>1, <2>1, <2>3, NullKeeps
  <2>4. CASE h = tsx_on_state_calling(t, ev, o)
    BY <1>1, <2>1, <2>4, CallingKeeps
  <2>5. CASE h = tsx_on_state_trying(t, ev, o)
    BY <1>1, <2>1, <2>5, TryingKeeps
  <2>6. CASE h = tsx_on_state_proceeding_uac(t, ev, o)
    BY <1>1, <2>1, <2>6, ProceedingUacKeeps
  <2>7. CASE h = tsx_on_state_proceeding_uas(t, ev, o)
    BY <1>1, <2>1, <2>7, ProceedingUasKeeps
  <2>8. CASE h = tsx_on_state_completed_uac(t, ev, o) \/ h = tsx_on_state_confirmed(t, ev, o)
    BY <1>1, <2>1, <2>8, CompletedUacKeeps
  <2>9. CASE h = tsx_on_state_completed_uas(t, ev, o)
    BY <1>1, <2>1, <2>9, CompletedUasKeeps
  <2> QED BY <2>2, <2>3, <2>4, <2>5, <2>6, <2>7, <2>8, <2>9
<1>3. CASE ~(t.state < TERMINATED)
  <2>1. \/ h = tsx_on_state_terminated(t, ev, o)
        \/ h = tsx_on_state_destroyed(t, ev, o)
    BY <1>1, <1>3 DEF state_handler, States
  <2> QED BY <2>1, OverKeeps
<1> QED BY <1>2, <1>3

\* A terminated transaction only reacts to a timer, a destroyed one to nothing.
LEMMA HandlerOver ==
    ASSUME NEW t, Good(t), t.state >= TERMINATED, NEW ev, NEW o,
           ev.type # "TIMER" \/ t.state # TERMINATED,
           NEW h, h = state_handler(t, ev, o)
    PROVE  h.tsx = t
<1>1. t.state = TERMINATED \/ t.state = DESTROYED
  BY SMTT(30), Z3T(30) DEF Good, TsxType, States
<1>2. h = IF t.state = TERMINATED THEN tsx_on_state_terminated(t, ev, o)
          ELSE tsx_on_state_destroyed(t, ev, o)
  BY <1>1 DEF state_handler
<1> QED BY <1>1, <1>2 DEF tsx_on_state_terminated, tsx_on_state_destroyed, Err

----------------------------------------------------------------------------
(* What keeps the state from going back.  Core is about one record; a       *)
(* client that has sent its request either waits for the transport or has   *)
(* resolved its server, so that the ACK never goes through the resolution.  *)

Served(t) == Has(t, "PENDING_TRANSPORT") \/ Has(t, "RESOLVED_SERVER")

\* No transport error has been posted unless one may be.
Unposted(t) == ~MayPostError => \A e \in Timers : t.id[e] # TRANSPORT_ERR_TIMER

Prior(t) ==
    /\ t.terminating => t.state >= TERMINATED
    /\ t.state = CALLING => Role = "UAC"
    /\ Role = "UAC" /\ t.state # NULL /\ t.state < TERMINATED => Served(t)
    /\ Role = "UAC" /\ (t.transport \/ t.tp_op # NoMsg) => Has(t, "RESOLVED_SERVER")
    /\ t.tp_op # NoMsg => "pending" \in Env
    /\ Unposted(t)

Core(t) == Prior(t) /\ (t.state = DESTROYED => t.last_tx = NoMsg)

\* Nothing has been sent in state Null.
Unsent(t) == t.state = NULL => ~Has(t, "PENDING_TRANSPORT") /\ ~Has(t, "PENDING_SEND")

Rest(t, u) ==
    /\ u.terminating = t.terminating /\ u.last_tx = t.last_tx
    /\ u.transport => t.transport
    /\ t.transport_err => u.transport_err
    /\ Has(u, "PENDING_SEND") => Has(t, "PENDING_SEND")
    /\ Has(u, "RESOLVED_SERVER") <=> Has(t, "RESOLVED_SERVER")
    /\ Unposted(t) => Unposted(u)

Calm(t, u) == Mild(t, u) /\ Rest(t, u)

\* Doing nothing is calm.
LEMMA SelfCalm == ASSUME NEW t, Good(t) PROVE Calm(t, t)
  BY SelfMild DEF Calm, Rest

\* Calm composes.
LEMMA CalmTransitive ==
    ASSUME NEW t, NEW u, NEW v, Calm(t, u), Calm(u, v)
    PROVE  Calm(t, v)
  BY MildTransitive DEF Calm, Rest

\* What follows from Calm of the references and of the state.
LEMMA CalmGood == ASSUME NEW t, NEW u, Calm(t, u) PROVE Good(u) /\ Mild(t, u) /\ u.state = t.state
  BY DEF Calm, Mild, Keeps

\* Calm steps carry over what keeps the state from going back.
LEMMA CalmCore ==
    ASSUME NEW t, NEW u, Calm(t, u)
    PROVE  /\ (Prior(t) => Prior(u)) /\ (Core(t) => Core(u)) /\ (Unsent(t) => Unsent(u))
           /\ (Served(u) <=> Served(t))
  BY DEF Calm, Rest, Mild, Prior, Core, Unsent, Served

\* What the timer functions assign leaves the rest alone.
LEMMA UpdateRest ==
    ASSUME NEW t \in TsxType, NEW e \in Timers, NEW i \in 0..3,
           i # TRANSPORT_ERR_TIMER \/ MayPostError,
           NEW h \in SUBSET Timers, NEW r \in Int, NEW u, u = UpdateTimer(t, e, i, h, r)
    PROVE  Rest(t, u)
<1>1. /\ u.terminating = t.terminating /\ u.last_tx = t.last_tx
      /\ u.transport = t.transport /\ u.transport_err = t.transport_err
      /\ u.flag = t.flag /\ u.id = [t.id EXCEPT ![e] = i] /\ t.id \in [Timers -> 0..3]
  BY DEF TsxType, UpdateTimer
<1> QED BY <1>1 DEF Rest, Unposted, Has

\* tsx_schedule_timer().
LEMMA ScheduleCalm ==
    ASSUME NEW t, Good(t), NEW e \in Timers, NEW i \in 0..3,
           i # TRANSPORT_ERR_TIMER \/ MayPostError,
           NEW u, u = tsx_schedule_timer(t, e, i)
    PROVE  Calm(t, u)
<1> DEFINE h == t.heap \cup {e}
           r == t.ref + 1
<1>1. t \in TsxType /\ h \in SUBSET Timers /\ r \in Int
  BY SMTT(30), Z3T(30) DEF Good, TsxType
<1>2. Mild(t, u)
  BY ScheduleMild
<1>3. u = t \/ u = UpdateTimer(t, e, i, h, r)
  BY DEF tsx_schedule_timer, UpdateTimer
<1> HIDE DEF h, r
<1> QED BY <1>1, <1>2, <1>3, UpdateRest, SelfCalm DEF Calm

\* tsx_cancel_timer().
LEMMA CancelCalm ==
    ASSUME NEW t, Good(t), NEW e \in Timers, NEW u, u = tsx_cancel_timer(t, e)
    PROVE  Calm(t, u)
<1> DEFINE h == t.heap \ {e}
           r == IF e \in t.heap THEN t.ref - 1 ELSE t.ref
<1>1. t \in TsxType /\ h \in SUBSET Timers /\ r \in Int
  BY SMTT(30), Z3T(30) DEF Good, TsxType
<1>2. Mild(t, u)
  BY CancelMild
<1>3. u = UpdateTimer(t, e, 0, h, r)
  BY DEF tsx_cancel_timer, UpdateTimer
<1> HIDE DEF h, r
<1> QED BY <1>1, <1>2, <1>3, UpdateRest DEF Calm

\* Restarting the timeout timer.
LEMMA RestartCalm ==
    ASSUME NEW t, Good(t), NEW i \in 0..3, i # TRANSPORT_ERR_TIMER \/ MayPostError,
           NEW u, u = RestartTimeout(t, i)
    PROVE  Calm(t, u)
<1> DEFINE v == tsx_cancel_timer(t, "timeout")
<1>1. Calm(t, v)
  BY CancelCalm DEF Timers
<1>2. u = tsx_schedule_timer(v, "timeout", i)
  BY DEF RestartTimeout
<1> HIDE DEF v
<1>3. Calm(v, u)
  BY <1>1, <1>2, CalmGood, ScheduleCalm DEF Timers
<1> QED BY <1>1, <1>3, CalmTransitive

\* Posting a transport error with a timer.
LEMMA PostCalm ==
    ASSUME NEW t, Good(t), MayPostError, NEW u, u = PostTransportErr(t)
    PROVE  Calm(t, u)
<1> DEFINE v == [t EXCEPT !.transport_err = TRUE]
<1>1. v \in TsxType /\ SameSends(t, v) /\ v.heap = t.heap /\ v.ref = t.ref
      /\ v.last_tx = t.last_tx /\ v.transport = t.transport /\ v.transport_err
      /\ v.id = t.id
  BY DEF Good, TsxType, SameSends
<1>2. u = RestartTimeout(v, TRANSPORT_ERR_TIMER)
  BY DEF PostTransportErr
<1> HIDE DEF v
<1>3. Mild(t, v)
  BY <1>1, OtherFields
<1>4. Calm(t, v)
  BY <1>1, <1>3 DEF Calm, Rest, SameSends, Has, Unposted
<1>5. Calm(v, u)
  BY <1>2, <1>4, CalmGood, RestartCalm
<1> QED BY <1>4, <1>5, CalmTransitive

\* The transaction lets go of its transport.
LEMMA NoTransportCalm ==
    ASSUME NEW t, Good(t), NEW u, u = tsx_update_transport(t, "none")
    PROVE  Calm(t, u) /\ ~u.transport
<1>1. u = [t EXCEPT !.transport = FALSE]
  BY DEF tsx_update_transport
<1>2. /\ u.terminating = t.terminating /\ u.last_tx = t.last_tx /\ ~u.transport
      /\ u.transport_err = t.transport_err /\ u.flag = t.flag /\ u.id = t.id
  BY <1>1 DEF Good, TsxType
<1>3. Mild(t, u)
  BY UpdateTransportKeeps, SameMild
<1> QED BY <1>2, <1>3 DEF Calm, Rest, Has, Unposted

\* tsx_set_status_code().
LEMMA StatusCodeCalm ==
    ASSUME NEW t, Good(t), NEW code \in Codes, NEW u, u = tsx_set_status_code(t, code)
    PROVE  Calm(t, u)
<1>1. /\ u.terminating = t.terminating /\ u.last_tx = t.last_tx /\ u.transport = t.transport
      /\ u.transport_err = t.transport_err /\ u.flag = t.flag /\ u.id = t.id
  BY DEF Good, TsxType, tsx_set_status_code
<1>2. Mild(t, u)
  BY StatusCodeMild
<1> QED BY <1>1, <1>2 DEF Calm, Rest, Has, Unposted

\* A message that reaches the wire.
LEMMA EmitCalm ==
    ASSUME NEW t, Good(t), NEW m \in Msgs, NEW u, u = Emit(t, m)
    PROVE  Calm(t, u)
<1>1. /\ u.terminating = t.terminating /\ u.last_tx = t.last_tx /\ u.transport = t.transport
      /\ u.transport_err = t.transport_err /\ u.flag = t.flag /\ u.id = t.id
  BY DEF Good, TsxType, Emit
<1>2. Mild(t, u)
  BY EmitMild
<1> QED BY <1>1, <1>2 DEF Calm, Rest, Has, Unposted

\* The start of a step.
LEMMA FreshCalm ==
    ASSUME NEW t, Good(t), NEW u, u = Fresh(t)
    PROVE  Calm(t, u)
<1>1. /\ u.terminating = t.terminating /\ u.last_tx = t.last_tx /\ u.transport = t.transport
      /\ u.transport_err = t.transport_err /\ u.flag = t.flag /\ u.id = t.id
  BY DEF Good, TsxType, Fresh
<1>2. Mild(t, u)
  BY FreshMild
<1> QED BY <1>1, <1>2 DEF Calm, Rest, Has, Unposted

\* Setting tsx_user.
LEMMA UserCalm ==
    ASSUME NEW t, Good(t), NEW b \in BOOLEAN, NEW u, u = [t EXCEPT !.tsx_user = b]
    PROVE  Calm(t, u)
<1>1. /\ u.terminating = t.terminating /\ u.last_tx = t.last_tx /\ u.transport = t.transport
      /\ u.transport_err = t.transport_err /\ u.flag = t.flag /\ u.id = t.id
  BY DEF Good, TsxType
<1>2. Mild(t, u)
  BY UserMild
<1> QED BY <1>1, <1>2 DEF Calm, Rest, Has, Unposted

\* Telling the user of the state.
LEMMA NotifyCalm ==
    ASSUME NEW t, Good(t), NEW u, u = NotifyTU(t)
    PROVE  Calm(t, u)
<1>1. /\ u.terminating = t.terminating /\ u.last_tx = t.last_tx /\ u.transport = t.transport
      /\ u.transport_err = t.transport_err /\ u.flag = t.flag /\ u.id = t.id
  BY DEF Good, TsxType, NotifyTU
<1>2. Mild(t, u)
  BY NotifyMild
<1> QED BY <1>1, <1>2 DEF Calm, Rest, Has, Unposted

\* The flags of deferred work.
LEMMA ReschedCalm ==
    ASSUME NEW t, Good(t), NEW u,
           \/ u = SetFlag(t, "PENDING_RESCHED")
           \/ u = ClearFlags(t, {"PENDING_RESCHED"})
           \/ u = ClearFlags(t, {"PENDING_SEND"})
    PROVE  Calm(t, u)
<1>1. /\ u.terminating = t.terminating /\ u.last_tx = t.last_tx /\ u.transport = t.transport
      /\ u.transport_err = t.transport_err /\ u.id = t.id
      /\ \/ u.flag = t.flag \cup {"PENDING_RESCHED"} \/ u.flag = t.flag \ {"PENDING_RESCHED"}
         \/ u.flag = t.flag \ {"PENDING_SEND"}
  BY ZenonT(120), SMTT(30) DEF Good, TsxType, SetFlag, ClearFlags
<1>2. Mild(t, u)
  BY SetFlagMild, ClearFlagMild
<1> QED BY <1>1, <1>2 DEF Calm, Rest, Has, Unposted

\* Scheduling the next retransmission.
LEMMA ScheduleRetransmitCalm ==
    ASSUME NEW t, Good(t), NEW u, u = ScheduleRetransmit(t)
    PROVE  Calm(t, u)
<1>1. u = SetFlag(t, "PENDING_RESCHED") \/ u = tsx_schedule_timer(t, "retransmit", RETRANSMIT_TIMER)
  BY DEF ScheduleRetransmit
<1>2. RETRANSMIT_TIMER \in 0..3 /\ RETRANSMIT_TIMER # TRANSPORT_ERR_TIMER /\ "retransmit" \in Timers
  BY DEF Timers
<1> QED BY <1>1, <1>2, ReschedCalm, ScheduleCalm

\* An assignment of last_tx.
LEMMA LastTxCore ==
    ASSUME NEW t, Good(t), Core(t), NEW m \in Msgs, m = NoMsg \/ t.state # DESTROYED,
           NEW u, u = [t EXCEPT !.last_tx = m]
    PROVE  /\ Core(u) /\ Mild(t, u) /\ (Unsent(t) => Unsent(u)) /\ (Served(u) <=> Served(t))
           /\ u.last_tx = m /\ u.flag = t.flag
<1>1. /\ u.terminating = t.terminating /\ u.last_tx = m /\ u.transport = t.transport
      /\ u.flag = t.flag /\ u.id = t.id /\ u.state = t.state /\ u.tp_op = t.tp_op
  BY DEF Good, TsxType
<1>2. Mild(t, u)
  BY LastTxMild
<1> QED BY <1>1, <1>2 DEF Prior, Core, Unsent, Served, Has, Unposted

\* tsx_shutdown() leaves nothing to send and no timer.
LEMMA ShutdownCore ==
    ASSUME NEW t, Good(t), Prior(t), t.state >= TERMINATED, NEW w, w = tsx_shutdown(t)
    PROVE  Core(w) /\ w.state = t.state
<1> DEFINE t1 == tsx_update_transport(t, "none")
           t2 == tsx_cancel_timer(t1, "timeout")
           u == tsx_cancel_timer(t2, "retransmit")
           pending == Has(t, "PENDING_TRANSPORT")
           f == (u.flag \ {"PENDING_RESCHED", "PENDING_SEND"})
                \cup IF pending THEN {"PENDING_DESTROY"} ELSE {}
           r == IF t.terminating THEN u.ref ELSE u.ref - 1
<1>1. Calm(t, t1)
  BY NoTransportCalm
<1>2. w = UpdateShutdown(t, u, f, r)
  BY DEF tsx_shutdown, UpdateShutdown
<1> HIDE DEF t1
<1>3. Calm(t1, t2)
  BY <1>1, CalmGood, CancelCalm DEF Timers
<1> HIDE DEF t2
<1>4. Calm(t2, u)
  BY <1>3, CalmGood, CancelCalm DEF Timers
<1> HIDE DEF u
<1>5. Calm(t, u)
  BY <1>1, <1>3, <1>4, CalmTransitive
<1>6. Prior(u) /\ u.state = t.state /\ u \in TsxType /\ t.state \in Int
  BY SMTT(30), Z3T(30), <1>5, CalmGood, CalmCore DEF Good, TsxType, States
<1>7. "RESOLVED_SERVER" \in f <=> "RESOLVED_SERVER" \in u.flag
  OBVIOUS
<1> HIDE DEF f, r
<1>8. /\ w.terminating /\ w.last_tx = NoMsg /\ w.transport = u.transport
      /\ w.flag = f /\ w.id = u.id /\ w.state = u.state /\ w.tp_op = u.tp_op
  BY <1>2, <1>6 DEF UpdateShutdown, TsxType
<1>9. Unposted(w)
  BY <1>6, <1>8 DEF Prior, Unposted
<1> QED BY <1>6, <1>7, <1>8, <1>9 DEF Prior, Core, Has

\* Unregistering and shutting down a transaction that is over.
LEMMA DestroyCore ==
    ASSUME NEW t, Good(t), Prior(t), t.state >= TERMINATED,
           NEW w, w = tsx_shutdown(mod_tsx_layer_unregister_tsx(t))
    PROVE  Core(w) /\ w.state = t.state
<1> DEFINE y == mod_tsx_layer_unregister_tsx(t)
<1>1. y \in TsxType /\ y.state = t.state /\ y.flag = t.flag /\ y.rs_op = t.rs_op
      /\ y.tp_op = t.tp_op /\ y.terminating = t.terminating /\ y.transport = t.transport
      /\ y.id = t.id
  BY DEF Good, TsxType, mod_tsx_layer_unregister_tsx
<1> HIDE DEF y
<1>2. Good(y) /\ Prior(y)
  BY <1>1 DEF Good, Outstanding, Has, Prior, Served, Unposted
<1> QED BY <1>1, <1>2, ShutdownCore DEF y

\* A change of state.
LEMMA SetStateCore ==
    ASSUME NEW t, Good(t), Prior(t), NEW s \in States,
           s < TERMINATED => Settled(t) /\ ~t.terminating,
           s = CALLING => Role = "UAC",
           Role = "UAC" /\ s # NULL /\ s < TERMINATED => Served(t),
           NEW w, w = tsx_set_state(t, s)
    PROVE  /\ Core(w) /\ w.state = s
           /\ s = TERMINATED /\ t.transport_err => w.transport_err
           /\ s < TERMINATED => (Served(w) <=> Served(t))
<1> DEFINE v == [t EXCEPT !.state = s]
           u == NotifyTU(v)
           c == [ClearFlags(u, {"PENDING_TRANSPORT"}) EXCEPT !.rs_op.attached = FALSE]
           x == IF Has(u, "PENDING_TRANSPORT") THEN c ELSE u
<1>1. v \in TsxType /\ v.state = s /\ v.flag = t.flag /\ v.rs_op = t.rs_op
      /\ v.tp_op = t.tp_op /\ v.terminating = t.terminating
      /\ v.transport = t.transport /\ v.id = t.id /\ v.transport_err = t.transport_err
  BY DEF Good, TsxType
<1>2. Good(v) /\ Prior(v) /\ (Served(v) <=> Served(t))
  <2> HIDE DEF v
  <2>1. s \in Int /\ (s >= TERMINATED \/ s < TERMINATED)
    BY DEF States
  <2>2. Good(v)
    BY <1>1, <2>1 DEF Good, Outstanding, Has, Settled
  <2>3. Unposted(v) /\ (Served(v) <=> Served(t))
    BY <1>1 DEF Prior, Unposted, Served, Has
  <2> QED BY <1>1, <2>1, <2>2, <2>3 DEF Prior, Has
<1>3. Calm(v, u)
  <2> HIDE DEF v
  <2> QED BY <1>2, NotifyCalm
<1>4. w = StateEntered(u)
  BY DEF tsx_set_state
<1> HIDE DEF v, u
<1>5. Good(u) /\ Prior(u) /\ u.state = s /\ u \in TsxType /\ (Served(u) <=> Served(t))
      /\ (t.transport_err => u.transport_err)
  BY <1>1, <1>2, <1>3, CalmGood, CalmCore DEF Good, Calm, Rest
<1>6. w = IF s = TERMINATED THEN RestartTimeout(x, TIMEOUT_TIMER)
          ELSE IF s = DESTROYED THEN tsx_shutdown(mod_tsx_layer_unregister_tsx(u)) ELSE u
  BY <1>4, <1>5 DEF StateEntered
<1>7. CASE s = TERMINATED
  <2>1. c \in TsxType /\ c.state = u.state /\ c.tp_op = u.tp_op /\ c.last_tx = u.last_tx
        /\ c.terminating = u.terminating /\ c.transport = u.transport /\ c.id = u.id
        /\ c.rs_op.msg = u.rs_op.msg /\ c.transport_err = u.transport_err
        /\ c.flag = u.flag \ {"PENDING_TRANSPORT"}
    BY <1>5 DEF TsxType, ClearFlags
  <2> HIDE DEF c
  <2>2. Good(c) /\ Unposted(c)
    BY SMTT(30), Z3T(30), <1>5, <1>7, <2>1 DEF Good, Prior, Unposted
  <2>3. Prior(c)
    BY SMTT(30), Z3T(30), <1>5, <1>7, <2>1, <2>2 DEF Prior, Has
  <2>4. Good(x) /\ Core(x) /\ x.state = s /\ (t.transport_err => x.transport_err)
    BY SMTT(30), Z3T(30), <1>5, <1>7, <2>1, <2>2, <2>3 DEF Core
  <2> HIDE DEF x
  <2>5. Calm(x, w)
    BY <1>6, <1>7, <2>4, RestartCalm
  <2> QED BY SMTT(30), Z3T(30), <1>7, <2>4, <2>5, CalmGood, CalmCore DEF Calm, Rest
<1>8. CASE s = DESTROYED
  <2>1. w = tsx_shutdown(mod_tsx_layer_unregister_tsx(u)) /\ u.state >= TERMINATED
    BY <1>5, <1>6, <1>8
  <2> QED BY <1>5, <1>8, <2>1, DestroyCore
<1>9. CASE s # TERMINATED /\ s # DESTROYED
  BY <1>5, <1>6, <1>9 DEF Core
<1> QED BY <1>7, <1>8, <1>9

\* Terminating without telling the user.
LEMMA SetStateNoNotifyCore ==
    ASSUME NEW t, Good(t), Core(t), NEW w, w = tsx_set_state_no_notify(t, TERMINATED)
    PROVE  Core(w) /\ w.state = TERMINATED
<1> DEFINE v == [t EXCEPT !.tsx_user = FALSE]
           u == tsx_set_state(v, TERMINATED)
<1>1. Calm(t, v)
  BY UserCalm
<1>2. w = [u EXCEPT !.tsx_user = t.tsx_user] /\ t.tsx_user \in BOOLEAN
  BY DEF tsx_set_state_no_notify, Good, TsxType
<1> HIDE DEF v
<1>3. Good(v) /\ Prior(v) /\ Core(t) /\ TERMINATED \in States
  BY <1>1, CalmGood, CalmCore DEF Core, States
<1>4. Good(u) /\ Core(u) /\ u.state = TERMINATED
  BY SMTT(30), Z3T(30), <1>3, SetStateKeeps, SetStateCore DEF Keeps
<1> HIDE DEF u
<1>5. Calm(u, w)
  BY <1>2, <1>4, UserCalm
<1> QED BY <1>4, <1>5, CalmGood, CalmCore

\* Terminating.
LEMMA TerminateCore ==
    ASSUME NEW t, Good(t), Prior(t), NEW u, u = tsx_set_state(t, TERMINATED)
    PROVE  Good(u) /\ Core(u) /\ u.state = TERMINATED
  BY SMTT(30), Z3T(30), SetStateKeeps, SetStateCore DEF States, Keeps

\* What the environment allows a send to end with.
LEMMA OutcomeFacts ==
    ASSUME NEW o \in Outcomes
    PROVE  /\ o.rel \in BOOLEAN /\ (o.down => "disconnect" \in Env)
           /\ (o.tp = "pending" => "pending" \in Env)
           /\ (o.again = "pending" => "pending" \in Env)
  BY TsxAssumption DEF Outcomes

\* tsx_send_msg() with a transport at hand.
LEMMA SendResolvedCore ==
    ASSUME NEW t, Good(t), ~Outstanding(t), Core(t), NEW m \in Msgs, m # NoMsg,
           NEW tp, tp = "pending" => "pending" \in Env,
           NEW s, s = SendResolved(t, m, tp)
    PROVE  /\ Core(s.tsx)
           /\ s.ok => s.tsx.state = t.state /\ (Role = "UAC" => Served(s.tsx))
           /\ ~s.ok => s.tsx.state = TERMINATED
<1>0. t \in TsxType
  BY DEF Good
<1>1. CASE t.transport /\ tp = "ok"
  <2>1. s.tsx = Emit(t, m) /\ s.ok
    BY <1>1 DEF SendResolved, Ok
  <2>2. Calm(t, s.tsx)
    BY <2>1, EmitCalm
  <2> QED BY <1>1, <2>1, <2>2, CalmGood, CalmCore DEF Core, Prior, Served
<1>2. CASE t.transport /\ tp = "pending"
  <2> DEFINE p == SetFlag(t, "PENDING_TRANSPORT")
             q == Emit(p, m)
             w == UpdateTp(q, m, q.ref + 1)
  <2>1. p \in TsxType /\ p.flag = t.flag \cup {"PENDING_TRANSPORT"}
        /\ p.state = t.state /\ p.rs_op = t.rs_op /\ p.tp_op = t.tp_op
        /\ p.last_tx = t.last_tx /\ p.id = t.id /\ p.terminating = t.terminating
        /\ p.transport = t.transport
    BY <1>0 DEF SetFlag, TsxType, Flags
  <2>2. s.tsx = w /\ s.ok
    BY <1>2 DEF SendResolved, Ok, UpdateTp
  <2> HIDE DEF p
  <2>3. Good(p) /\ Prior(p)
    <3>1. Good(p)
      BY <2>1 DEF Good, Outstanding, Has
    <3>2. Unposted(p)
      BY <2>1 DEF Core, Prior, Unposted
    <3> QED BY <2>1, <3>1, <3>2 DEF Core, Prior, Has, Served
  <2>4. Calm(p, q)
    BY <2>3, EmitCalm
  <2> HIDE DEF q
  <2>5. q \in TsxType /\ Prior(q) /\ q.state = t.state /\ q.last_tx = t.last_tx
        /\ Has(q, "PENDING_TRANSPORT") /\ (Role = "UAC" => Has(q, "RESOLVED_SERVER"))
    BY <1>2, <2>1, <2>3, <2>4, CalmGood, CalmCore DEF Calm, Rest, Mild, Good, Core, Prior, Has
  <2>6. w.tp_op = m /\ w.flag = q.flag /\ w.transport = q.transport /\ w.id = q.id
        /\ w.terminating = q.terminating /\ w.state = q.state /\ w.last_tx = q.last_tx
    BY <2>5 DEF UpdateTp, TsxType
  <2> HIDE DEF w
  <2>7. Unposted(w)
    BY <2>5, <2>6 DEF Prior, Unposted
  <2>8. Prior(w) /\ Served(w)
    BY <1>2, <2>5, <2>6, <2>7 DEF Prior, Served, Has
  <2> QED BY <2>2, <2>5, <2>6, <2>8 DEF Core
<1>3. CASE ~(t.transport /\ tp = "ok") /\ ~(t.transport /\ tp = "pending")
  <2> DEFINE p == tsx_update_transport(t, "none")
             q == tsx_set_status_code(p, PJSIP_SC_TSX_TRANSPORT_ERROR)
  <2>1. s.tsx = tsx_set_state(q, TERMINATED) /\ ~s.ok
    BY <1>3 DEF SendResolved, Err
  <2>2. Calm(t, p)
    BY NoTransportCalm
  <2>3. Calm(p, q)
    <3> HIDE DEF p
    <3>1. Good(p) /\ PJSIP_SC_TSX_TRANSPORT_ERROR \in Codes
      BY SMTT(30), Z3T(30), <2>2, CalmGood DEF Codes, PJSIP_SC_TSX_TRANSPORT_ERROR
    <3> QED BY <3>1, StatusCodeCalm
  <2> HIDE DEF p, q
  <2>4. Good(q) /\ Prior(q)
    BY <2>2, <2>3, CalmGood, CalmCore DEF Core
  <2> QED BY <2>1, <2>4, TerminateCore
<1> QED BY <1>1, <1>2, <1>3

\* The transaction gets a transport, which may be shutting down.
LEMMA NewTransport ==
    ASSUME NEW t, Good(t), NEW tp, tp # "none", tp = "down" => MayPostError,
           NEW u, u = tsx_update_transport(t, tp)
    PROVE  /\ Mild(t, u) /\ (Unposted(t) => Unposted(u))
           /\ u.flag = t.flag /\ u.terminating = t.terminating /\ u.last_tx = t.last_tx
           /\ u.tp_op = t.tp_op
<1> DEFINE v == [t EXCEPT !.transport = TRUE]
<1>1. v \in TsxType /\ SameSends(t, v) /\ v.heap = t.heap /\ v.ref = t.ref
      /\ v.last_tx = t.last_tx /\ v.id = t.id
  BY DEF Good, TsxType, SameSends
<1>2. u = v \/ (tp = "down" /\ u = PostTransportErr(v))
  BY DEF tsx_update_transport
<1> HIDE DEF v
<1>3. Mild(t, v) /\ (Unposted(t) => Unposted(v)) /\ Good(v)
  BY <1>1, OtherFields DEF Unposted, Mild, Keeps
<1>4. CASE u = v
  BY <1>1, <1>3, <1>4 DEF SameSends
<1>5. CASE tp = "down" /\ u = PostTransportErr(v)
  <2>1. Calm(v, u)
    BY <1>3, <1>5, PostCalm
  <2>2. SameSends(v, u)
    BY <1>3, <1>5, PostKeeps
  <2> QED BY <1>1, <1>3, <2>1, <2>2, MildTransitive DEF Calm, Rest, SameSends
<1> QED BY <1>2, <1>4, <1>5

\* The transport of the transaction is known.
LEMMA SendCallbackOkCore ==
    ASSUME NEW t, Good(t), t.rs_op.msg # NoMsg, Core(t), Reg(t), NEW o \in Outcomes,
           NEW w, w = SendCallbackOk(t, o)
    PROVE  /\ Core(w) /\ w.state >= t.state
           /\ t.state < TERMINATED => w.state = t.state \/ w.state = TERMINATED
           /\ t.state < TERMINATED /\ (~Has(t, "PENDING_SEND") \/ t.last_tx = NoMsg)
                 => w.state = t.state
           /\ Role = "UAC" /\ w.state = t.state /\ t.state < TERMINATED => Served(w)
<1> DEFINE tp == IF o.down THEN "down" ELSE "up"
           a0 == tsx_update_transport(t, tp)
           a == UpdateRs(a0, o.rel)
           f == (a.flag \ {"PENDING_TRANSPORT"}) \cup {"RESOLVED_SERVER"}
           b == [a EXCEPT !.flag = f]
           c == ClearFlags(b, {"PENDING_SEND"})
           d == IF ~Has(b, "PENDING_SEND") \/ b.last_tx = NoMsg THEN c
                ELSE IF Deferred(c, c.last_tx) THEN Defer(c).tsx
                ELSE SendResolved(c, c.last_tx, o.again).tsx
           e == ClearFlags(d, {"PENDING_RESCHED"})
<1>0. tp # "none" /\ (tp = "down" => MayPostError)
  BY OutcomeFacts DEF MayPostError
<1>1. Mild(t, a0) /\ Unposted(a0) /\ a0 \in TsxType
      /\ a0.flag = t.flag /\ a0.terminating = t.terminating /\ a0.last_tx = t.last_tx
      /\ a0.tp_op = t.tp_op /\ a0.state = t.state
  <2>1. Unposted(t)
    BY DEF Core, Prior
  <2>2. a0 = tsx_update_transport(t, tp)
    OBVIOUS
  <2> HIDE DEF tp, a0
  <2>3. Mild(t, a0) /\ (Unposted(t) => Unposted(a0))
        /\ a0.flag = t.flag /\ a0.terminating = t.terminating /\ a0.last_tx = t.last_tx
        /\ a0.tp_op = t.tp_op
    BY <1>0, <2>2, NewTransport
  <2>4. a0 \in TsxType /\ a0.state = t.state
    BY <2>3 DEF Mild, Keeps, Good
  <2> QED BY <2>1, <2>3, <2>4
<1>2. a \in TsxType /\ a.rs_op.msg = NoMsg /\ a.tp_op = a0.tp_op /\ a.state = a0.state
      /\ a.flag = a0.flag /\ a.last_tx = a0.last_tx /\ a.id = a0.id
      /\ a.terminating = a0.terminating
  <2> HIDE DEF a0
  <2> QED BY <1>1, MsgFacts, OutcomeRel DEF TsxType, UpdateRs, NoOp
<1>3. w = IF Has(b, "PENDING_DESTROY") THEN tsx_set_state(b, DESTROYED)
          ELSE IF Has(d, "PENDING_RESCHED") /\ ~d.is_reliable
          THEN tsx_resched_retransmission(e) ELSE e
  <2>1. b = SetFlag(ClearFlags(a, {"PENDING_TRANSPORT"}), "RESOLVED_SERVER")
    <3> HIDE DEF a
    <3> QED BY <1>2 DEF SetFlag, ClearFlags, TsxType
  <2>2. w = TransportReady(b, o)
    BY <2>1 DEF SendCallbackOk, UpdateRs
  <2> QED BY <2>2 DEF TransportReady, SendDeferred, ReschedDeferred
<1> HIDE DEF a0, a
<1>4. f \in SUBSET Flags
  BY <1>2 DEF TsxType, Flags
<1>5. b \in TsxType /\ b.flag = f /\ b.rs_op = a.rs_op /\ b.tp_op = a.tp_op
      /\ b.state = a.state /\ b.last_tx = a.last_tx /\ b.id = a.id
      /\ b.terminating = a.terminating
  <2> HIDE DEF f
  <2> QED BY ZenonT(120), SMTT(30), <1>2, <1>4 DEF TsxType
<1> HIDE DEF b
<1>6. /\ "RESOLVED_SERVER" \in b.flag /\ "PENDING_TRANSPORT" \notin b.flag
      /\ ("PENDING_SEND" \in b.flag <=> "PENDING_SEND" \in t.flag)
      /\ ("PENDING_DESTROY" \in b.flag <=> "PENDING_DESTROY" \in t.flag)
  BY <1>1, <1>2, <1>5
<1> HIDE DEF f
<1>7. t.tp_op = NoMsg /\ t.state \in Int /\ t.state \in States
  BY SMTT(30), Z3T(30) DEF Good, TsxType, States
<1>8. Good(b) /\ ~Outstanding(b) /\ b.state = t.state
  BY <1>1, <1>2, <1>5, <1>7 DEF Good, Outstanding
<1>9. Unposted(b)
  BY ZenonT(120), SMTT(30), <1>1, <1>2, <1>5 DEF Unposted
<1>10. Core(b)
  BY <1>1, <1>2, <1>5, <1>6, <1>7, <1>8, <1>9 DEF Core, Prior, Has, Served
<1>11. Calm(b, c)
  BY <1>8, ReschedCalm
<1>12. ~Has(c, "PENDING_SEND") /\ c.last_tx = b.last_tx
  <2>1. c.flag = b.flag \ {"PENDING_SEND"} /\ c.last_tx = b.last_tx
    BY <1>5 DEF ClearFlags, TsxType
  <2> QED BY <2>1 DEF Has
<1> HIDE DEF c
<1>13. Good(c) /\ Core(c) /\ ~Outstanding(c) /\ ~Has(c, "PENDING_TRANSPORT")
       /\ Has(c, "RESOLVED_SERVER") /\ c.state = t.state /\ c.last_tx = t.last_tx
       /\ c.last_tx \in Msgs /\ ~Has(c, "PENDING_SEND")
  <2>1. Core(c)
    BY <1>10, <1>11, CalmCore
  <2>2. c.last_tx = t.last_tx
    BY <1>1, <1>2, <1>5, <1>12
  <2>3. Good(c) /\ c.state = b.state /\ c.rs_op = b.rs_op /\ c.tp_op = b.tp_op
        /\ (Has(c, "PENDING_TRANSPORT") <=> Has(b, "PENDING_TRANSPORT"))
        /\ (Has(c, "RESOLVED_SERVER") <=> Has(b, "RESOLVED_SERVER"))
    BY <1>11 DEF Calm, Rest, Mild, Keeps
  <2>4. ~Outstanding(c) /\ c.last_tx \in Msgs
    BY <1>8, <2>3 DEF Outstanding, Good, TsxType
  <2>5. ~Has(c, "PENDING_TRANSPORT") /\ Has(c, "RESOLVED_SERVER")
    BY <1>6, <2>3 DEF Has
  <2> QED BY <1>8, <1>12, <2>1, <2>2, <2>3, <2>4, <2>5
<1>14. /\ Good(d) /\ Core(d)
       /\ \/ d.state = t.state /\ (Role = "UAC" => Served(d))
          \/ d.state = TERMINATED /\ t.last_tx # NoMsg /\ Has(t, "PENDING_SEND")
  <2>1. CASE ~Has(b, "PENDING_SEND") \/ b.last_tx = NoMsg \/ Deferred(c, c.last_tx)
    <3>1. d = c
      BY <1>13, <2>1 DEF Defer, Ok
    <3> QED BY <1>13, <3>1 DEF Served
  <2>2. CASE Has(b, "PENDING_SEND") /\ b.last_tx # NoMsg /\ ~Deferred(c, c.last_tx)
    <3> DEFINE s == SendResolved(c, c.last_tx, o.again)
    <3>1. d = s.tsx
      BY <2>2
    <3>2. c.last_tx # NoMsg /\ t.last_tx # NoMsg /\ Has(t, "PENDING_SEND")
      BY <1>6, <1>12, <1>13, <2>2 DEF Has
    <3>3. o.again = "pending" => "pending" \in Env
      BY OutcomeFacts
    <3>4. Good(s.tsx)
      BY <1>13, <3>2, SendResolvedKeeps DEF Keeps
    <3>5. /\ Core(s.tsx)
          /\ s.ok => s.tsx.state = c.state /\ (Role = "UAC" => Served(s.tsx))
          /\ ~s.ok => s.tsx.state = TERMINATED
      BY SMTT(30), Z3T(30), <1>13, <3>2, <3>3, SendResolvedCore
    <3> HIDE DEF s, d
    <3> QED BY <1>13, <3>1, <3>2, <3>4, <3>5
  <2> QED BY <2>1, <2>2
<1> HIDE DEF d
<1>15. Calm(d, e)
  BY <1>14, ReschedCalm
<1> HIDE DEF e
<1>16. CASE Has(b, "PENDING_DESTROY")
  <2>1. t.state >= TERMINATED
    BY <1>6, <1>16 DEF Reg, Core, Prior, Has
  <2>2. w = tsx_set_state(b, DESTROYED)
    BY <1>3, <1>16
  <2>3. Core(w) /\ w.state = DESTROYED
    BY SMTT(30), Z3T(30), <1>8, <1>10, <2>2, SetStateCore DEF States, Core
  <2> QED BY <1>7, <2>1, <2>3 DEF States
<1>17. CASE ~Has(b, "PENDING_DESTROY")
  <2>1. w = e \/ w = tsx_schedule_timer(e, "retransmit", RETRANSMIT_TIMER)
    BY <1>3, <1>17 DEF tsx_resched_retransmission
  <2>2. Calm(e, w)
    <3>1. Good(e) /\ "retransmit" \in Timers
      BY <1>15, CalmGood DEF Timers
    <3>2. CASE w = e
      BY <3>1, <3>2, SelfCalm
    <3>3. CASE w = tsx_schedule_timer(e, "retransmit", RETRANSMIT_TIMER)
      BY <3>1, <3>3, ScheduleCalm
    <3> QED BY <2>1, <3>2, <3>3
  <2>3. Calm(d, w)
    BY <1>15, <2>2, CalmTransitive
  <2>4. Core(w) /\ w.state = d.state /\ (Served(w) <=> Served(d))
    BY <1>14, <2>3, CalmGood, CalmCore
  <2>5. t.last_tx # NoMsg => t.state # DESTROYED
    BY DEF Core
  <2> QED BY <1>7, <1>14, <2>4, <2>5 DEF States
<1> QED BY <1>16, <1>17

\* No server is left.
LEMMA SendCallbackFailedCore ==
    ASSUME NEW t, Good(t), t.rs_op.msg # NoMsg, Core(t), NEW w, w = SendCallbackFailed(t)
    PROVE  /\ Core(w) /\ w.state >= t.state /\ w.state >= TERMINATED
           /\ t.state < TERMINATED => w.state = TERMINATED /\ w.transport_err
<1> DEFINE a == [t EXCEPT !.rs_op = NoOp, !.transport_err = TRUE, !.transport = FALSE]
           f == (a.flag \ {"PENDING_TRANSPORT"}) \cup {"RESOLVED_SERVER"}
           b0 == [a EXCEPT !.flag = f]
           b == tsx_set_status_code(b0, PJSIP_SC_TSX_TRANSPORT_ERROR)
<1>0. t \in TsxType /\ t.state \in States /\ t.tp_op = NoMsg
  BY DEF Good, TsxType
<1>1. a \in TsxType /\ a.rs_op.msg = NoMsg /\ a.tp_op = t.tp_op /\ a.state = t.state
      /\ a.flag = t.flag /\ a.last_tx = t.last_tx /\ a.id = t.id
      /\ a.terminating = t.terminating /\ a.transport = FALSE /\ a.transport_err = TRUE
  BY ZenonT(120), SMTT(30), <1>0, MsgFacts DEF TsxType, NoOp
<1>2. b0 = SetFlag(ClearFlags(a, {"PENDING_TRANSPORT"}), "RESOLVED_SERVER")
  <2> HIDE DEF a
  <2> QED BY <1>1 DEF SetFlag, ClearFlags, TsxType
<1>3. w = IF b.state < TERMINATED THEN tsx_set_state(b, TERMINATED)
          ELSE IF Has(b, "PENDING_DESTROY") THEN tsx_set_state(b, DESTROYED) ELSE b
  <2>1. w = SendGivenUp(b)
    BY <1>2 DEF SendCallbackFailed
  <2> QED BY <2>1 DEF SendGivenUp
<1> HIDE DEF a
<1>4. f \in SUBSET Flags
  BY <1>1 DEF TsxType, Flags
<1>5. b0 \in TsxType /\ b0.rs_op = a.rs_op /\ b0.tp_op = a.tp_op
      /\ b0.state = a.state /\ b0.last_tx = a.last_tx /\ b0.id = a.id /\ b0.flag = f
      /\ b0.terminating = a.terminating /\ b0.transport = FALSE /\ b0.transport_err = TRUE
  <2> HIDE DEF f
  <2> QED BY ZenonT(120), SMTT(30), <1>1, <1>4 DEF TsxType
<1> HIDE DEF b0
<1>6. Good(b0) /\ Has(b0, "RESOLVED_SERVER") /\ b0.state = t.state
  BY <1>0, <1>1, <1>5 DEF Good, Outstanding, Has
<1> HIDE DEF f
<1>7. Unposted(b0)
  BY <1>1, <1>5 DEF Core, Prior, Unposted
<1>8. Core(b0)
  BY <1>1, <1>5, <1>6, <1>7 DEF Core, Prior, Served
<1>9. Calm(b0, b)
  <2>1. PJSIP_SC_TSX_TRANSPORT_ERROR \in Codes
    BY SMTT(30), Z3T(30) DEF Codes, PJSIP_SC_TSX_TRANSPORT_ERROR
  <2> QED BY <1>6, <2>1, StatusCodeCalm
<1> HIDE DEF b
<1>10. Good(b) /\ Core(b) /\ b.state = t.state /\ b.transport_err
  BY <1>5, <1>6, <1>8, <1>9, CalmGood, CalmCore DEF Calm, Rest
<1>11. CASE b.state < TERMINATED
  <2>1. w = tsx_set_state(b, TERMINATED)
    BY <1>3, <1>11
  <2>2. Core(w) /\ w.state = TERMINATED /\ w.transport_err
    BY SMTT(30), Z3T(30), <1>10, <2>1, SetStateCore DEF States, Core
  <2> QED BY <1>0, <1>10, <1>11, <2>2 DEF States
<1>12. CASE ~(b.state < TERMINATED) /\ Has(b, "PENDING_DESTROY")
  <2>1. w = tsx_set_state(b, DESTROYED)
    BY <1>3, <1>12
  <2>2. Core(w) /\ w.state = DESTROYED
    BY SMTT(30), Z3T(30), <1>10, <2>1, SetStateCore DEF States, Core
  <2> QED BY <1>0, <1>10, <1>12, <2>2 DEF States
<1>13. CASE ~(b.state < TERMINATED) /\ ~Has(b, "PENDING_DESTROY")
  <2>1. w = b
    BY <1>3, <1>13
  <2> QED BY <1>0, <1>10, <1>13, <2>1 DEF States
<1> QED BY <1>11, <1>12, <1>13

\* Another server is tried.
LEMMA SendCallbackRetryCore ==
    ASSUME NEW t, Good(t), Core(t), NEW w, w = SendCallbackRetry(t)
    PROVE  Core(w) /\ w.state = t.state
<1> DEFINE a == IF t.id["timeout"] # TIMER_INACTIVE
                THEN RestartTimeout(t, TIMEOUT_TIMER) ELSE t
           op == [a.rs_op EXCEPT !.sending = FALSE, !.attached = TRUE]
<1>1. Calm(t, a)
  BY RestartCalm, SelfCalm
<1>2. w = [a EXCEPT !.rs_op = op, !.transport = FALSE]
  BY DEF SendCallbackRetry
<1> HIDE DEF a
<1>3. Core(a) /\ a \in TsxType /\ a.state = t.state
  BY <1>1, CalmGood, CalmCore DEF Good
<1> HIDE DEF op
<1>4. w.tp_op = a.tp_op /\ w.transport = FALSE /\ w.last_tx = a.last_tx
      /\ w.state = a.state /\ w.id = a.id /\ w.terminating = a.terminating /\ w.flag = a.flag
  BY <1>2, <1>3 DEF TsxType
<1>5. Unposted(w)
  BY <1>3, <1>4 DEF Core, Prior, Unposted
<1> QED BY <1>3, <1>4, <1>5 DEF Core, Prior, Served, Has

\* What tsx_send_msg() does to a transaction that is not terminated.
LEMMA SendMsgCore ==
    ASSUME NEW t, Good(t), Settled(t), Core(t), Reg(t), t.state < TERMINATED,
           NEW m \in Msgs, NEW o \in Outcomes, NEW s, s = tsx_send_msg(t, m, o)
    PROVE  /\ Core(s.tsx)
           /\ s.tsx.state = t.state \/ s.tsx.state = TERMINATED
           /\ m # NoMsg /\ ~s.ok => s.tsx.state = TERMINATED
           /\ Role = "UAC" /\ m # NoMsg /\ s.tsx.state = t.state => Served(s.tsx)
           /\ s.ok /\ (Served(t) \/ ~Has(t, "PENDING_SEND") \/ t.last_tx = NoMsg)
                 => s.tsx.state = t.state
<1>1. CASE m = NoMsg
  <2>1. s.tsx = t
    BY <1>1 DEF tsx_send_msg, Err
  <2> QED BY <1>1, <2>1
<1>2. CASE m # NoMsg /\ Deferred(t, m)
  <2>1. Has(t, "PENDING_TRANSPORT")
    BY <1>2 DEF Deferred, is_pending, Settled, Outstanding
  <2>2. s.tsx = SetFlag(t, "PENDING_SEND") /\ s.ok
    BY <1>2, <2>1 DEF tsx_send_msg, Defer, Ok
  <2>3. /\ s.tsx.terminating = t.terminating /\ s.tsx.last_tx = t.last_tx
        /\ s.tsx.transport = t.transport /\ s.tsx.flag = t.flag \cup {"PENDING_SEND"}
        /\ s.tsx.id = t.id /\ s.tsx.state = t.state /\ s.tsx.tp_op = t.tp_op
    BY ZenonT(120), SMTT(30), <2>2 DEF Good, TsxType, SetFlag
  <2>4. Unposted(s.tsx)
    BY <2>3 DEF Core, Prior, Unposted
  <2> QED BY <2>1, <2>2, <2>3, <2>4 DEF Core, Prior, Served, Has
<1>3. CASE m # NoMsg /\ ~Deferred(t, m)
           /\ ((t.transport /\ o.tp # "error") \/ Has(t, "RESOLVED_SERVER"))
  <2>1. s = SendResolved(t, m, o.tp)
    BY <1>3 DEF tsx_send_msg
  <2>2. ~Outstanding(t) /\ (o.tp = "pending" => "pending" \in Env)
    BY <1>3, OutcomeFacts DEF Deferred, Settled
  <2>3. /\ Core(s.tsx)
        /\ s.ok => s.tsx.state = t.state /\ (Role = "UAC" => Served(s.tsx))
        /\ ~s.ok => s.tsx.state = TERMINATED
    BY SMTT(30), Z3T(30), <1>3, <2>1, <2>2, SendResolvedCore
  <2>4. t.state # TERMINATED
    OBVIOUS
  <2> QED BY <2>3, <2>4
<1>4. CASE m # NoMsg /\ ~Deferred(t, m)
           /\ ~((t.transport /\ o.tp # "error") \/ Has(t, "RESOLVED_SERVER"))
  <2> DEFINE a0 == tsx_update_transport(t, "none")
             f == a0.flag \cup {"PENDING_TRANSPORT"}
             op == [msg |-> m, sending |-> FALSE, attached |-> TRUE]
             b == UpdateOp(a0, f, op)
             x == Emit(b, m)
             c == CASE o.rs = "pending" -> b
                    [] o.rs = "error" -> SendCallbackFailed(b)
                    [] OTHER -> SendCallbackOk(x, o)
  <2>1. Calm(t, a0) /\ ~a0.transport
    BY NoTransportCalm
  <2>2. b = [SetFlag(a0, "PENDING_TRANSPORT") EXCEPT !.rs_op = op]
    <3>1. a0 \in TsxType
      BY <2>1, CalmGood DEF Good
    <3> HIDE DEF a0, op
    <3> QED BY <3>1 DEF UpdateOp, SetFlag, TsxType
  <2>3. s.tsx = c /\ (s.ok <=> ~(c.state = TERMINATED /\ c.transport_err))
    <3>1. s = StatelessSent(send_request_stateless(b, m, o))
      BY <1>4, <2>2 DEF tsx_send_msg
    <3>2. c = send_request_stateless(b, m, o)
      BY DEF send_request_stateless
    <3> HIDE DEF c
    <3>3. s = StatelessSent(c)
      BY <3>1, <3>2
    <3>4. s.tsx = c
      BY <3>3 DEF StatelessSent
    <3>5. s.ok = (~(c.state = TERMINATED /\ c.transport_err))
      BY <3>3 DEF StatelessSent
    <3> QED BY <3>4, <3>5
  <2> HIDE DEF a0
  <2>4. ~Has(t, "PENDING_TRANSPORT") /\ ~Served(t) /\ ~Outstanding(t) /\ t.tp_op = NoMsg
    BY <1>4 DEF Deferred, Settled, Served, Outstanding
  <2>5. /\ a0 \in TsxType /\ f \in SUBSET Flags /\ Core(a0) /\ a0.state = t.state
        /\ a0.last_tx = t.last_tx /\ a0.terminating = t.terminating /\ a0.tp_op = NoMsg
        /\ (Has(a0, "PENDING_SEND") => Has(t, "PENDING_SEND"))
        /\ Reg(a0)
    <3>1. Core(a0) /\ a0.state = t.state /\ a0 \in TsxType
      BY <2>1, CalmGood, CalmCore DEF Good
    <3>2. f \in SUBSET Flags
      BY <3>1 DEF TsxType, Flags
    <3> HIDE DEF f
    <3> QED BY <2>1, <2>4, <3>1, <3>2 DEF Calm, Rest, Mild, Keeps
  <2>6. op \in [msg : Msgs, sending : BOOLEAN, attached : BOOLEAN] /\ op.msg = m
    OBVIOUS
  <2>7. b \in TsxType /\ b.flag = f /\ b.rs_op.msg = m /\ b.tp_op = a0.tp_op
        /\ b.state = a0.state /\ b.last_tx = a0.last_tx /\ b.id = a0.id
        /\ b.terminating = a0.terminating /\ b.registered = a0.registered
        /\ b.transport = a0.transport
    <3> HIDE DEF f, op
    <3> QED BY ZenonT(120), SMTT(30), <2>5, <2>6 DEF TsxType, UpdateOp
  <2> HIDE DEF b, op
  <2>8. /\ Has(b, "PENDING_TRANSPORT")
        /\ (Has(b, "RESOLVED_SERVER") <=> Has(a0, "RESOLVED_SERVER"))
        /\ (Has(b, "PENDING_SEND") <=> Has(a0, "PENDING_SEND"))
        /\ (Has(b, "PENDING_DESTROY") <=> Has(a0, "PENDING_DESTROY"))
    BY <2>7 DEF Has
  <2> HIDE DEF f
  <2>9. Good(b) /\ Reg(b)
    BY <2>5, <2>7, <2>8 DEF Good, Reg, Outstanding
  <2>10. Unposted(b)
    BY <2>5, <2>7 DEF Core, Prior, Unposted
  <2>11. Core(b) /\ Served(b)
    BY <2>1, <2>5, <2>7, <2>8, <2>10 DEF Core, Prior, Served
  <2>12. Calm(b, x)
    BY <2>9, EmitCalm
  <2> HIDE DEF x
  <2>13. /\ Good(x) /\ Reg(x) /\ Core(x) /\ x.state = t.state /\ x.last_tx = t.last_tx
         /\ x.rs_op.msg # NoMsg /\ (Has(x, "PENDING_SEND") => Has(t, "PENDING_SEND"))
    BY <1>4, <2>5, <2>7, <2>8, <2>9, <2>11, <2>12, CalmGood, CalmCore
       DEF Calm, Mild, Keeps, Rest
  <2>14. t.state # TERMINATED /\ b.state = t.state /\ b.rs_op.msg # NoMsg /\ b.state < TERMINATED
    BY SMTT(30), Z3T(30), <1>4, <2>5, <2>7
  <2>15. CASE o.rs = "pending"
    <3>1. c = b
      BY <2>15
    <3> QED BY <2>3, <2>11, <2>14, <3>1
  <2>16. CASE o.rs = "error"
    <3>1. c = SendCallbackFailed(b)
      BY <2>16
    <3> HIDE DEF c
    <3>2. Core(c) /\ c.state = TERMINATED /\ c.transport_err
      BY <2>9, <2>11, <2>14, <3>1, SendCallbackFailedCore
    <3> QED BY <2>3, <2>14, <3>2
  <2>17. CASE o.rs # "pending" /\ o.rs # "error"
    <3>1. c = SendCallbackOk(x, o)
      BY <2>17
    <3> HIDE DEF c
    <3>2. /\ c.state = x.state \/ c.state = TERMINATED
          /\ ~Has(x, "PENDING_SEND") \/ x.last_tx = NoMsg => c.state = x.state
          /\ Role = "UAC" /\ c.state = x.state => Served(c)
      BY <2>13, <3>1, SendCallbackOkCore
    <3>3. Core(c)
      BY <2>13, <3>1, SendCallbackOkCore
    <3> QED BY <2>3, <2>4, <2>13, <2>14, <3>2, <3>3
  <2> QED BY <2>15, <2>16, <2>17
<1> QED BY <1>1, <1>2, <1>3, <1>4

----------------------------------------------------------------------------
(* Handlers: a transaction that is not terminated goes forward.             *)

Fwd(t, u) == Core(u) /\ u.state >= t.state /\ u.state <= TERMINATED

\* The part of the invariant a handler starts from.
Ready(t) == Good(t) /\ Settled(t) /\ Core(t) /\ Reg(t) /\ t.state < TERMINATED

\* What a transaction ready for an event has.
LEMMA ReadyFacts ==
    ASSUME NEW t, Ready(t)
    PROVE  /\ Good(t) /\ Settled(t) /\ Core(t) /\ Prior(t) /\ Reg(t) /\ ~t.terminating
           /\ t.state \in 0..5 /\ Fwd(t, t)
  BY SMTT(30), Z3T(30) DEF Ready, Core, Prior, Good, TsxType, States, Fwd

\* Calm steps leave it ready.
LEMMA CalmReady ==
    ASSUME NEW t, NEW u, Ready(t), Calm(t, u)
    PROVE  Ready(u) /\ u.state = t.state
<1>1. Good(u) /\ Mild(t, u) /\ u.state = t.state
  BY CalmGood
<1>2. Good(u) /\ Settled(u)
  BY <1>1, MildGood DEF Ready
<1> QED BY <1>1, <1>2, CalmCore DEF Ready, Mild, Keeps

\* A handler ends with a change of state.
LEMMA EnterFwd ==
    ASSUME NEW t, Ready(t), NEW s \in States, s >= t.state, s <= TERMINATED,
           s = CALLING => Role = "UAC",
           Role = "UAC" /\ s # NULL /\ s < TERMINATED => Served(t),
           NEW u, u = tsx_set_state(t, s)
    PROVE  Fwd(t, u) /\ u.state = s /\ Good(u) /\ (s < TERMINATED => Ready(u))
<1>1. Good(t) /\ Settled(t) /\ Prior(t) /\ ~t.terminating /\ Reg(t)
  BY ReadyFacts
<1>2. Core(u) /\ u.state = s
  BY <1>1, SetStateCore
<1>3. Keeps(t, u) /\ u.rs_op.msg = t.rs_op.msg /\ u.tp_op = t.tp_op
  BY SMTT(30), Z3T(30), <1>1, SetStateKeeps
<1>4. Good(u) /\ Reg(u)
  BY <1>1, <1>3 DEF Keeps
<1>5. s < TERMINATED => Settled(u)
  BY <1>2, <1>4 DEF Good, Settled
<1> QED BY <1>2, <1>4, <1>5 DEF Fwd, Ready

\* Entering TERMINATED goes forward.
LEMMA EnterTerminated ==
    ASSUME NEW t, Ready(t), NEW u, u = tsx_set_state(t, TERMINATED)
    PROVE  Fwd(t, u)
<1>1. TERMINATED \in States /\ TERMINATED >= t.state
  BY ReadyFacts DEF States
<1> QED BY SMTT(30), Z3T(30), <1>1, EnterFwd

\* Going forward after calm steps.
LEMMA CalmFwd ==
    ASSUME NEW t, NEW u, NEW v, Calm(t, u), Fwd(u, v)
    PROVE  Fwd(t, v)
  BY CalmGood DEF Fwd

\* Calm steps after going forward.
LEMMA FwdCalm ==
    ASSUME NEW t, NEW u, NEW v, Fwd(t, u), Calm(u, v)
    PROVE  Fwd(t, v)
  BY CalmGood, CalmCore DEF Fwd

\* What a handler knows of tsx_send_msg().
LEMMA SendReady ==
    ASSUME NEW t, Ready(t), NEW m \in Msgs, m # NoMsg, NEW o \in Outcomes,
           NEW s, s = tsx_send_msg(t, m, o)
    PROVE  /\ Fwd(t, s.tsx)
           /\ ~s.ok => s.tsx.state = TERMINATED
           /\ s.ok /\ (Served(t) \/ ~Has(t, "PENDING_SEND") \/ t.last_tx = NoMsg)
                 => Ready(s.tsx) /\ s.tsx.state = t.state /\ (Role = "UAC" => Served(s.tsx))
<1>1. Good(t) /\ Settled(t) /\ Core(t) /\ Reg(t) /\ t.state < TERMINATED /\ t.state \in 0..5
  BY ReadyFacts DEF Ready
<1>2. Keeps(t, s.tsx) /\ Settled(s.tsx)
  BY <1>1, SendMsgKeeps
<1>3. /\ Core(s.tsx)
      /\ s.tsx.state = t.state \/ s.tsx.state = TERMINATED
      /\ m # NoMsg /\ ~s.ok => s.tsx.state = TERMINATED
      /\ Role = "UAC" /\ m # NoMsg /\ s.tsx.state = t.state => Served(s.tsx)
      /\ s.ok /\ (Served(t) \/ ~Has(t, "PENDING_SEND") \/ t.last_tx = NoMsg)
            => s.tsx.state = t.state
  BY SMTT(30), Z3T(30), <1>1, SendMsgCore
<1> QED BY <1>1, <1>2, <1>3 DEF Fwd, Ready, Keeps

\* tsx_retransmit().
LEMMA RetransmitFwd ==
    ASSUME NEW t, Ready(t), NEW o \in Outcomes, NEW s, Retransmits(t, o, s)
    PROVE  Fwd(t, s.tsx)
<1> DEFINE a == ScheduleRetransmit(t)
<1>1. \/ s.tsx = t
      \/ s = tsx_send_msg(t, t.last_tx, o)
      \/ s = tsx_send_msg(a, t.last_tx, o)
  BY DEF Retransmits
<1>2. Calm(t, a) /\ Calm(t, t) /\ t.last_tx \in Msgs /\ Fwd(t, t)
  BY SMTT(30), Z3T(30), ReadyFacts, ScheduleRetransmitCalm, SelfCalm DEF Good, TsxType
<1> HIDE DEF a
<1>3. ASSUME NEW x, Calm(t, x), s = tsx_send_msg(x, t.last_tx, o)
      PROVE  Fwd(t, s.tsx)
  <2>1. Ready(x)
    BY <1>3, CalmReady
  <2>2. Fwd(x, s.tsx)
    <3>1. CASE t.last_tx = NoMsg
      <4>1. s.tsx = x
        BY <1>3, <3>1 DEF tsx_send_msg, Err
      <4> QED BY <2>1, <4>1, ReadyFacts
    <3>2. CASE t.last_tx # NoMsg
      BY <1>2, <1>3, <2>1, <3>2, SendReady
    <3> QED BY <3>1, <3>2
  <2> QED BY <1>3, <2>2, CalmFwd
<1> QED BY <1>1, <1>2, <1>3

\* The timeout timer.
LEMMA TimedOutFwd == ASSUME NEW t, Ready(t), NEW u, u = TimedOut(t) PROVE Fwd(t, u)
<1> DEFINE a == tsx_set_status_code(t, PJSIP_SC_TSX_TIMEOUT)
<1>1. PJSIP_SC_TSX_TIMEOUT \in Codes
  BY SMTT(30), Z3T(30) DEF Codes, PJSIP_SC_TSX_TIMEOUT
<1>2. Calm(t, a)
  BY <1>1, ReadyFacts, StatusCodeCalm
<1>3. u = tsx_set_state(a, TERMINATED)
  BY DEF TimedOut
<1> HIDE DEF a
<1> QED BY <1>2, <1>3, CalmReady, EnterTerminated, CalmFwd

\* tsx_on_state_null().
LEMMA NullFwd ==
    ASSUME Role \in {"UAC", "UAS"},
           NEW t, Ready(t), Unsent(t), t.state = NULL, NEW ev, ev.msg \in Msgs,
           NEW o \in Outcomes, NEW h, h = tsx_on_state_null(t, ev, o)
    PROVE  Fwd(t, h.tsx) /\ Unsent(h.tsx)
<1> DEFINE z == [t EXCEPT !.last_tx = ev.msg]
           s == tsx_send_msg(z, ev.msg, o)
           a == RestartTimeout(s.tsx, TIMEOUT_TIMER)
           b == IF a.is_reliable THEN a ELSE ScheduleRetransmit(a)
<1>1. CASE Role = "UAS"
  <2>1. h.tsx = tsx_set_state(t, TRYING)
    BY <1>1 DEF tsx_on_state_null, Ok
  <2>2. Fwd(t, h.tsx) /\ h.tsx.state = TRYING
    BY SMTT(30), Z3T(30), <1>1, <2>1, EnterFwd DEF States
  <2> QED BY <2>2 DEF Unsent
<1>2. CASE Role # "UAS" /\ ev.type # "TX"
  <2>1. h.tsx = t
    BY <1>2 DEF tsx_on_state_null, Err
  <2> QED BY <2>1, ReadyFacts
<1>3. CASE Role # "UAS" /\ ev.type = "TX"
  <2>1. h = IF s.ok THEN Ok(tsx_set_state(b, CALLING)) ELSE s
    <3>1. h = RequestSent(s)
      BY <1>3 DEF tsx_on_state_null
    <3> QED BY <3>1 DEF RequestSent
  <2>2. Core(z) /\ Mild(t, z) /\ Unsent(z) /\ z.state = NULL
    <3>1. Core(z) /\ Mild(t, z) /\ Unsent(z)
      BY SMTT(30), Z3T(30), ReadyFacts, LastTxCore
    <3> QED BY <3>1 DEF Mild
  <2> HIDE DEF z
  <2>3. Ready(z)
    BY <2>2, MildGood, ReadyFacts DEF Ready, Mild, Keeps
  <2>4. Role = "UAC"
    BY <1>3
  <2>5. CASE ev.msg = NoMsg
    <3>1. h.tsx = z
      BY <2>1, <2>5 DEF tsx_send_msg, Err
    <3> QED BY <2>2, <2>3, <3>1, ReadyFacts DEF Fwd
  <2>6. CASE ev.msg # NoMsg /\ ~s.ok
    <3>1. h = s
      BY <2>1, <2>6
    <3>2. Fwd(z, s.tsx) /\ s.tsx.state = TERMINATED
      BY SMTT(30), Z3T(30), <2>3, <2>6, SendReady
    <3> HIDE DEF s
    <3> QED BY <2>2, <3>1, <3>2 DEF Fwd, Unsent
  <2>7. CASE ev.msg # NoMsg /\ s.ok
    <3>1. h.tsx = tsx_set_state(b, CALLING)
      BY <2>1, <2>7 DEF Ok
    <3>2. ~Has(z, "PENDING_SEND")
      BY <2>2 DEF Unsent
    <3>3. Ready(s.tsx) /\ s.tsx.state = z.state /\ (Role = "UAC" => Served(s.tsx))
      BY <2>3, <2>7, <3>2, SendReady
    <3> HIDE DEF s
    <3>4. Calm(s.tsx, a)
      BY <3>3, ReadyFacts, RestartCalm
    <3> HIDE DEF a
    <3>5. Calm(a, b)
      BY <3>4, CalmGood, SelfCalm, ScheduleRetransmitCalm
    <3> HIDE DEF b
    <3>6. Calm(s.tsx, b)
      BY <3>4, <3>5, CalmTransitive
    <3>7. Ready(b) /\ b.state = NULL /\ Served(b)
      BY <2>2, <2>4, <3>3, <3>6, CalmReady, CalmCore
    <3>8. CALLING \in States
      BY DEF States
    <3>9. Fwd(b, h.tsx) /\ h.tsx.state = CALLING
      BY SMTT(30), Z3T(30), <2>4, <3>1, <3>7, <3>8, EnterFwd
    <3> QED BY <3>9 DEF Fwd, Unsent
  <2> QED BY <2>5, <2>6, <2>7
<1> QED BY <1>1, <1>2, <1>3

\* A client that is served, and the states after it.
Client(t) == Ready(t) /\ Role = "UAC" /\ Served(t)

\* Calm steps leave a client one that has sent its request.
LEMMA CalmClient ==
    ASSUME NEW t, NEW u, Client(t), Calm(t, u)
    PROVE  Client(u) /\ Ready(u) /\ u.state = t.state
  BY CalmReady, CalmCore DEF Client

\* tsx_set_state() of a client to a later state.
LEMMA ClientEnter ==
    ASSUME NEW t, Client(t), NEW s \in States, s >= t.state, s <= TERMINATED, s # NULL,
           NEW u, u = tsx_set_state(t, s)
    PROVE  Fwd(t, u) /\ u.state = s /\ Good(u) /\ (s < TERMINATED => Ready(u))
  BY EnterFwd DEF Client

\* A final failure at a client.
LEMMA FinalFailureFwd ==
    ASSUME NEW t, Client(t), t.state <= COMPLETED, NEW o \in Outcomes,
           NEW h, h = FinalFailure(t, o)
    PROVE  Fwd(t, h.tsx)
<1> DEFINE z == tsx_cancel_timer(t, "retransmit")
           a == tsx_cancel_timer(z, "timeout")
           s == IF Invite THEN tsx_send_msg(a, ACK, o) ELSE Ok(a)
           b == tsx_set_state(s.tsx, COMPLETED)
           c == IF Invite THEN [b EXCEPT !.last_tx = ACK] ELSE b
<1>0. Good(t) /\ "retransmit" \in Timers /\ "timeout" \in Timers
  BY ReadyFacts DEF Client, Timers
<1>1. h = IF s.ok THEN Ok(RestartTimeout(c, TIMEOUT_TIMER)) ELSE s
  <2>1. h = AckSent(s)
    BY DEF FinalFailure
  <2> QED BY <2>1 DEF AckSent
<1>2. Calm(t, z)
  BY <1>0, CancelCalm
<1> HIDE DEF z
<1>3. Calm(z, a)
  BY <1>0, <1>2, CalmGood, CancelCalm
<1> HIDE DEF a
<1>4. Calm(t, a)
  BY <1>2, <1>3, CalmTransitive
<1>5. Client(a) /\ Ready(a) /\ a.state = t.state /\ Served(a) /\ Fwd(a, a)
  BY <1>4, CalmClient, ReadyFacts DEF Client
<1>6. Fwd(a, s.tsx) /\ (s.ok => Client(s.tsx) /\ s.tsx.state = t.state)
  <2>1. CASE Invite
    <3>1. s = tsx_send_msg(a, ACK, o)
      BY <2>1
    <3> HIDE DEF s
    <3> QED BY SMTT(30), Z3T(30), <1>5, <3>1, SendReady, MsgFacts DEF Client
  <2>2. CASE ~Invite
    BY <1>5, <2>2 DEF Ok
  <2> QED BY <2>1, <2>2
<1> HIDE DEF s
<1>7. CASE s.ok
  <2>0. COMPLETED \in States
    BY DEF States
  <2>1. Fwd(s.tsx, b) /\ b.state = COMPLETED /\ Good(b) /\ Ready(b)
    BY SMTT(30), Z3T(30), <1>6, <1>7, <2>0, ClientEnter
  <2> HIDE DEF b
  <2>2. Good(c) /\ Core(c) /\ c.state = COMPLETED
    <3>1. CASE Invite
      <4>1. c = [b EXCEPT !.last_tx = ACK] /\ ACK \in Msgs
        BY <3>1, MsgFacts
      <4> HIDE DEF c
      <4>2. Core(c) /\ Mild(b, c)
        BY SMTT(30), Z3T(30), <2>1, <4>1, ReadyFacts, LastTxCore
      <4> QED BY <2>1, <4>2 DEF Mild, Keeps
    <3>2. CASE ~Invite
      BY <2>1, <3>2, ReadyFacts
    <3> QED BY <3>1, <3>2
  <2> HIDE DEF c
  <2>3. h.tsx = RestartTimeout(c, TIMEOUT_TIMER)
    BY <1>1, <1>7 DEF Ok
  <2>4. Calm(c, h.tsx)
    BY <2>2, <2>3, RestartCalm
  <2>5. Core(h.tsx) /\ h.tsx.state = COMPLETED
    BY <2>2, <2>4, CalmGood, CalmCore
  <2>6. t.state \in 0..5
    BY ReadyFacts DEF Client
  <2> QED BY <2>5, <2>6 DEF Fwd
<1>8. CASE ~s.ok
  <2>1. h = s
    BY <1>1, <1>8
  <2> QED BY <1>4, <1>6, <2>1, CalmFwd
<1> QED BY <1>7, <1>8

\* tsx_on_state_proceeding_uac().
LEMMA ProceedingUacFwd ==
    ASSUME NEW t, Client(t), t.state <= PROCEEDING, NEW ev, ev.msg \in Msgs, NEW o \in Outcomes,
           NEW h, h = tsx_on_state_proceeding_uac(t, ev, o)
    PROVE  Fwd(t, h.tsx)
<1>0. Ready(t) /\ Good(t) /\ Fwd(t, t)
  BY ReadyFacts DEF Client
<1>1. CASE IsTimer(ev, "retransmit")
  <2>1. Retransmits(t, o, h)
    BY <1>1 DEF tsx_on_state_proceeding_uac, tsx_retransmit, Ok, Err, Retransmits
  <2> QED BY <1>0, <2>1, RetransmitFwd
<1>2. CASE ~IsTimer(ev, "retransmit") /\ IsTimer(ev, "timeout")
  <2>1. h.tsx = TimedOut(t)
    BY <1>2 DEF tsx_on_state_proceeding_uac, Ok
  <2> QED BY <1>0, <2>1, TimedOutFwd
<1>3. CASE ~IsTimer(ev, "retransmit") /\ ~IsTimer(ev, "timeout") /\ ev.type = "TX"
  <2>1. h.tsx = t
    BY <1>3 DEF tsx_on_state_proceeding_uac, Err
  <2> QED BY <1>0, <2>1
<1>4. CASE ~IsTimer(ev, "retransmit") /\ ~IsTimer(ev, "timeout") /\ ev.type # "TX"
  <2> DEFINE a == tsx_set_status_code(t, ev.msg)
             b == tsx_cancel_timer(a, "timeout")
             d == tsx_schedule_timer(b, "timeout", TIMEOUT_TIMER)
             c == tsx_cancel_timer(d, "retransmit")
  <2>0. "retransmit" \in Timers /\ "timeout" \in Timers
    BY DEF Timers
  <2>1. h = CASE Class(ev.msg, 100) -> Ok(tsx_set_state(a, PROCEEDING))
              [] Class(ev.msg, 200) -> Ok(IF Invite THEN tsx_set_state(b, TERMINATED)
                                          ELSE tsx_set_state(c, COMPLETED))
              [] OTHER -> FinalFailure(a, o)
    BY <1>4 DEF tsx_on_state_proceeding_uac
  <2>2. Calm(t, a)
    <3>1. ev.msg \in Codes
      BY SMTT(30), Z3T(30) DEF Msgs, Responses, Codes
    <3> QED BY <1>0, <3>1, StatusCodeCalm
  <2> HIDE DEF a
  <2>3. Calm(a, b)
    BY <2>0, <2>2, CalmGood, CancelCalm
  <2> HIDE DEF b
  <2>4. Calm(b, d)
    BY <2>0, <2>3, CalmGood, ScheduleCalm
  <2> HIDE DEF d
  <2>5. Calm(d, c)
    BY <2>0, <2>4, CalmGood, CancelCalm
  <2> HIDE DEF c
  <2>6. Calm(t, b) /\ Calm(t, c)
    BY <2>2, <2>3, <2>4, <2>5, CalmTransitive
  <2>7. \/ h.tsx = tsx_set_state(a, PROCEEDING)
        \/ h.tsx = tsx_set_state(b, TERMINATED)
        \/ h.tsx = tsx_set_state(c, COMPLETED)
        \/ h = FinalFailure(a, o)
    BY SMTT(30), Z3T(30), <2>1 DEF Ok
  <2>8. ASSUME NEW x, Calm(t, x), NEW s \in {PROCEEDING, COMPLETED, TERMINATED},
               h.tsx = tsx_set_state(x, s)
        PROVE  Fwd(t, h.tsx)
    <3>1. Client(x) /\ x.state = t.state /\ t.state \in 0..5
      BY <1>0, <2>8, CalmClient, ReadyFacts
    <3>2. s \in States /\ s >= x.state /\ s <= TERMINATED /\ s # NULL
      BY <3>1 DEF States
    <3>3. Fwd(x, h.tsx)
      BY <2>8, <3>1, <3>2, ClientEnter
    <3> QED BY <2>8, <3>3, CalmFwd
  <2>9. CASE h = FinalFailure(a, o)
    <3>1. Client(a) /\ a.state <= COMPLETED
      BY <1>0, <2>2, CalmClient, ReadyFacts
    <3>2. Fwd(a, h.tsx)
      BY <2>9, <3>1, FinalFailureFwd
    <3> QED BY <2>2, <3>2, CalmFwd
  <2> QED BY <2>2, <2>6, <2>7, <2>8, <2>9
<1> QED BY <1>1, <1>2, <1>3, <1>4

\* tsx_on_state_calling().
LEMMA CallingFwd ==
    ASSUME NEW t, Client(t), t.state <= PROCEEDING, NEW ev, ev.msg \in Msgs, NEW o \in Outcomes,
           NEW h, h = tsx_on_state_calling(t, ev, o)
    PROVE  Fwd(t, h.tsx)
<1> DEFINE a == tsx_cancel_timer(t, "retransmit")
           x == tsx_cancel_timer(a, "timeout")
           y == tsx_schedule_timer(a, "retransmit", RETRANSMIT_TIMER)
           final == IF t.id["timeout"] # TIMER_INACTIVE THEN x ELSE a
           provisional == IF Invite THEN x ELSE IF a.is_reliable THEN a ELSE y
           b == IF ev.msg >= 200 THEN final ELSE provisional
           ca == ClearFlags(a, {"PENDING_RESCHED"})
           cb == ClearFlags(b, {"PENDING_RESCHED"})
           p == tsx_on_state_proceeding_uac(cb, ev, o)
<1>0. /\ Ready(t) /\ Good(t) /\ Fwd(t, t) /\ "retransmit" \in Timers /\ "timeout" \in Timers
      /\ RETRANSMIT_TIMER \in 0..3 /\ RETRANSMIT_TIMER # TRANSPORT_ERR_TIMER
  BY ReadyFacts DEF Client, Timers
<1>1. \/ Retransmits(t, o, h)
      \/ h.tsx = TimedOut(ca)
      \/ h.tsx = t
      \/ h.tsx = p.tsx
  BY DEF tsx_on_state_calling, tsx_retransmit, Ok, Err, Retransmits
<1>2. Calm(t, a)
  BY <1>0, CancelCalm
<1> HIDE DEF a
<1>3. Calm(a, x) /\ Calm(a, y) /\ Calm(a, a)
  BY <1>0, <1>2, CalmGood, CancelCalm, ScheduleCalm, SelfCalm
<1>4. Calm(a, b)
  BY <1>3
<1> HIDE DEF b
<1>5. Calm(t, b)
  BY <1>2, <1>4, CalmTransitive
<1>6. Calm(a, ca) /\ Calm(b, cb)
  BY <1>2, <1>5, CalmGood, ReschedCalm
<1> HIDE DEF ca, cb
<1>7. Calm(t, ca) /\ Calm(t, cb)
  BY <1>2, <1>5, <1>6, CalmTransitive
<1>8. CASE Retransmits(t, o, h)
  BY <1>0, <1>8, RetransmitFwd
<1>9. CASE h.tsx = TimedOut(ca)
  <2>1. Fwd(ca, h.tsx)
    BY <1>0, <1>7, <1>9, CalmReady, TimedOutFwd
  <2> QED BY <1>7, <2>1, CalmFwd
<1>10. CASE h.tsx = t
  BY <1>0, <1>10
<1>11. CASE h.tsx = p.tsx
  <2>1. Client(cb) /\ cb.state <= PROCEEDING
    BY <1>7, CalmClient
  <2>2. Fwd(cb, p.tsx)
    BY <2>1, ProceedingUacFwd
  <2> QED BY <1>7, <1>11, <2>2, CalmFwd
<1> QED BY <1>1, <1>8, <1>9, <1>10, <1>11

\* Ready, and served when it is a client.
Held(t) == Ready(t) /\ (Role = "UAC" => Served(t))

\* Calm steps of a client that has sent, or of a server.
LEMMA CalmHeld ==
    ASSUME NEW t, NEW u, Held(t), Calm(t, u)
    PROVE  Held(u) /\ Ready(u) /\ u.state = t.state
  BY CalmReady, CalmCore DEF Held

\* tsx_set_state() of either to a later state.
LEMMA HeldEnter ==
    ASSUME NEW t, Held(t), NEW s \in {PROCEEDING, COMPLETED, CONFIRMED, TERMINATED}, s >= t.state,
           NEW u, u = tsx_set_state(t, s)
    PROVE  Fwd(t, u) /\ Good(u)
<1>1. s \in States /\ s <= TERMINATED /\ s # CALLING
  BY DEF States
<1> QED BY <1>1, EnterFwd DEF Held

\* What follows the sending of a response by a server.
LEMMA ResponseSentFwd ==
    ASSUME NEW t, Held(t), t.state <= PROCEEDING, NEW m \in Msgs, NEW u, u = ResponseSent(t, m)
    PROVE  Fwd(t, u)
<1> DEFINE a == [t EXCEPT !.last_tx = m]
           b == tsx_set_state(a, PROCEEDING)
           b1 == tsx_cancel_timer(b, "retransmit")
           b2 == ScheduleRetransmit(b1)
           c0 == tsx_cancel_timer(a, "retransmit")
           c == RestartTimeout(c0, TIMEOUT_TIMER)
           c1 == ScheduleRetransmit(c)
<1>0. Good(t) /\ Settled(t) /\ Core(t) /\ Reg(t) /\ t.state \in 0..5 /\ t.state < TERMINATED
      /\ "retransmit" \in Timers
  BY ReadyFacts DEF Held, Ready, Timers
<1>1. u = b \/ u = b2 \/ u = tsx_set_state(c, COMPLETED) \/ u = tsx_set_state(c1, COMPLETED)
  BY DEF ResponseSent
<1>2. Core(a) /\ Mild(t, a) /\ (Served(a) <=> Served(t))
  BY SMTT(30), Z3T(30), <1>0, LastTxCore
<1> HIDE DEF a
<1>3. Held(a) /\ Good(a) /\ a.state = t.state
  <2>1. Good(a) /\ Settled(a) /\ a.state = t.state /\ Reg(a)
    BY <1>0, <1>2, MildGood DEF Mild, Keeps
  <2> QED BY <1>0, <1>2, <2>1 DEF Held, Ready
<1>4. Fwd(a, b) /\ Good(b)
  BY <1>0, <1>3, HeldEnter
<1> HIDE DEF b
<1>5. Calm(b, b1)
  BY <1>0, <1>4, CancelCalm
<1> HIDE DEF b1
<1>6. Calm(b1, b2)
  BY <1>5, CalmGood, ScheduleRetransmitCalm
<1> HIDE DEF b2
<1>7. Fwd(a, b2)
  BY <1>4, <1>5, <1>6, FwdCalm
<1>8. Calm(a, c0)
  BY <1>0, <1>3, CancelCalm
<1> HIDE DEF c0
<1>9. Calm(c0, c)
  BY <1>8, CalmGood, RestartCalm
<1> HIDE DEF c
<1>10. Calm(a, c)
  BY <1>8, <1>9, CalmTransitive
<1>11. Calm(c, c1)
  BY <1>9, CalmGood, ScheduleRetransmitCalm
<1> HIDE DEF c1
<1>12. Calm(a, c1)
  BY <1>10, <1>11, CalmTransitive
<1>13. ASSUME NEW x, Calm(a, x), u = tsx_set_state(x, COMPLETED)
       PROVE  Fwd(a, u)
  <2>1. Held(x) /\ x.state = t.state
    BY <1>3, <1>13, CalmHeld
  <2>2. Fwd(x, u)
    BY <1>0, <1>13, <2>1, HeldEnter
  <2> QED BY <1>13, <2>2, CalmFwd
<1>14. Fwd(a, u)
  BY <1>1, <1>4, <1>7, <1>10, <1>12, <1>13
<1> QED BY <1>3, <1>14 DEF Fwd

\* tsx_on_state_proceeding_uas().
LEMMA ProceedingUasFwd ==
    ASSUME NEW t, Held(t), t.state <= PROCEEDING, NEW ev, ev.msg \in Msgs, NEW o \in Outcomes,
           NEW h, h = tsx_on_state_proceeding_uas(t, ev, o)
    PROVE  Fwd(t, h.tsx)
<1> DEFINE z == [t EXCEPT !.last_tx = NoMsg]
           a == tsx_set_status_code(z, ev.msg)
           s == tsx_send_msg(a, ev.msg, o)
<1>0. Ready(t) /\ Good(t) /\ Settled(t) /\ Core(t) /\ Reg(t) /\ t.state \in 0..5
      /\ t.state < TERMINATED
  BY ReadyFacts DEF Held, Ready
<1>1. \/ Retransmits(t, o, h)
      \/ h.tsx = TimedOut(t)
      \/ h = IF s.ok THEN Ok(ResponseSent(s.tsx, ev.msg)) ELSE s
  BY DEF tsx_on_state_proceeding_uas, Responded, tsx_retransmit, Retransmits, Ok, Err
<1>2. Core(z) /\ Mild(t, z) /\ (Served(z) <=> Served(t)) /\ z.last_tx = NoMsg
  BY SMTT(30), Z3T(30), <1>0, LastTxCore, MsgFacts
<1> HIDE DEF z
<1>3. Held(z) /\ Good(z) /\ z.state = t.state
  <2>1. Good(z) /\ Settled(z) /\ z.state = t.state /\ Reg(z)
    BY <1>0, <1>2, MildGood DEF Mild, Keeps
  <2> QED BY <1>0, <1>2, <2>1 DEF Held, Ready
<1>4. Calm(z, a) /\ a.last_tx = NoMsg
  <2>1. ev.msg \in Codes
    BY SMTT(30), Z3T(30) DEF Msgs, Responses, Codes
  <2>2. Calm(z, a)
    BY <1>3, <2>1, StatusCodeCalm
  <2> HIDE DEF a
  <2> QED BY <1>2, <2>2 DEF Calm, Rest
<1> HIDE DEF a
<1>5. Ready(a) /\ a.state = t.state
  BY <1>3, <1>4, CalmHeld
<1>6. CASE Retransmits(t, o, h)
  BY <1>0, <1>6, RetransmitFwd
<1>7. CASE h.tsx = TimedOut(t)
  BY <1>0, <1>7, TimedOutFwd
<1>8. CASE ev.msg = NoMsg /\ h = IF s.ok THEN Ok(ResponseSent(s.tsx, ev.msg)) ELSE s
  <2>1. h.tsx = a
    BY <1>8 DEF tsx_send_msg, Err
  <2> QED BY <1>5, <2>1, ReadyFacts DEF Fwd
<1>9. CASE ev.msg # NoMsg /\ h = IF s.ok THEN Ok(ResponseSent(s.tsx, ev.msg)) ELSE s
  <2>1. /\ Fwd(a, s.tsx)
        /\ s.ok => Ready(s.tsx) /\ s.tsx.state = a.state /\ (Role = "UAC" => Served(s.tsx))
    BY <1>4, <1>5, <1>9, SendReady
  <2> HIDE DEF s
  <2>2. CASE s.ok
    <3>1. h.tsx = ResponseSent(s.tsx, ev.msg)
      BY <1>9, <2>2 DEF Ok
    <3>2. Held(s.tsx) /\ s.tsx.state = t.state
      BY <1>5, <2>1, <2>2 DEF Held
    <3>3. Fwd(s.tsx, h.tsx)
      BY <3>1, <3>2, ResponseSentFwd
    <3> QED BY <3>2, <3>3 DEF Fwd
  <2>3. CASE ~s.ok
    BY <1>5, <1>9, <2>1, <2>3 DEF Fwd
  <2> QED BY <2>2, <2>3
<1> QED BY <1>1, <1>6, <1>7, <1>8, <1>9

\* tsx_on_state_completed_uas().
LEMMA CompletedUasFwd ==
    ASSUME NEW t, Held(t), t.state = COMPLETED, NEW ev, ev.msg \in Msgs, NEW o \in Outcomes,
           NEW h, h = tsx_on_state_completed_uas(t, ev, o)
    PROVE  Fwd(t, h.tsx)
<1> DEFINE z == tsx_cancel_timer(t, "retransmit")
           a == ClearFlags(z, {"PENDING_RESCHED"})
           b == RestartTimeout(a, TIMEOUT_TIMER)
<1>0. Ready(t) /\ Good(t) /\ "retransmit" \in Timers
  BY ReadyFacts DEF Held, Timers
<1>1. \/ Retransmits(t, o, h)
      \/ h.tsx = TimedOut(t)
      \/ h.tsx = tsx_set_state(t, TERMINATED)
      \/ h.tsx = tsx_set_state(b, CONFIRMED)
  BY DEF tsx_on_state_completed_uas, tsx_retransmit, Retransmits, Ok, Err
<1>2. Calm(t, z)
  BY <1>0, CancelCalm
<1> HIDE DEF z
<1>3. Calm(z, a)
  BY <1>2, CalmGood, ReschedCalm
<1> HIDE DEF a
<1>4. Calm(a, b)
  BY SMTT(30), Z3T(30), <1>3, CalmGood, RestartCalm
<1> HIDE DEF b
<1>5. Calm(t, b)
  BY <1>2, <1>3, <1>4, CalmTransitive
<1>6. CASE Retransmits(t, o, h)
  BY <1>0, <1>6, RetransmitFwd
<1>7. CASE h.tsx = TimedOut(t)
  BY <1>0, <1>7, TimedOutFwd
<1>8. CASE h.tsx = tsx_set_state(t, TERMINATED)
  BY <1>0, <1>8, EnterTerminated
<1>9. CASE h.tsx = tsx_set_state(b, CONFIRMED)
  <2>1. Held(b) /\ b.state = COMPLETED
    BY <1>5, CalmHeld
  <2>2. Fwd(b, h.tsx)
    BY <1>9, <2>1, HeldEnter
  <2> QED BY <1>5, <2>2, CalmFwd
<1> QED BY <1>1, <1>6, <1>7, <1>8, <1>9

\* tsx_on_state_completed_uac() and tsx_on_state_confirmed().
LEMMA CompletedUacFwd ==
    ASSUME NEW t, Ready(t), NEW ev, NEW o \in Outcomes,
           NEW h, \/ h = tsx_on_state_completed_uac(t, ev, o)
                  \/ h = tsx_on_state_confirmed(t, ev, o)
    PROVE  Fwd(t, h.tsx)
<1>1. Retransmits(t, o, h) \/ h.tsx = tsx_set_state(t, TERMINATED)
  BY DEF tsx_on_state_completed_uac, tsx_on_state_confirmed, tsx_retransmit,
         Retransmits, Ok, Err
<1> QED BY <1>1, RetransmitFwd, EnterTerminated

\* No handler moves the state back, whichever the state and the event.
LEMMA HandlerFwd ==
    ASSUME Role \in {"UAC", "UAS"},
           NEW t, Good(t), Core(t), Reg(t), Unsent(t), NEW ev, ev.msg \in Msgs,
           NEW o \in Outcomes, NEW h, h = state_handler(t, ev, o)
    PROVE  /\ Core(h.tsx) /\ h.tsx.state >= t.state /\ Unsent(h.tsx)
           /\ t.state < TERMINATED => h.tsx.state <= TERMINATED
<1>1. t.state \in 0..7
  BY DEF Good, TsxType, States
<1>2. CASE t.state < TERMINATED
  <2>1. Ready(t)
    BY <1>2 DEF Good, Settled, Ready
  <2>2. CASE t.state = NULL
    <3>1. h = tsx_on_state_null(t, ev, o)
      BY <2>2 DEF state_handler
    <3>2. Fwd(t, h.tsx) /\ Unsent(h.tsx)
      BY <2>1, <2>2, <3>1, NullFwd
    <3> QED BY <3>2 DEF Fwd
  <2>3. CASE t.state # NULL
    <3>1. Held(t)
      BY <1>2, <2>1, <2>3 DEF Held, Core, Prior
    <3>2. Fwd(t, h.tsx)
      <4>1. CASE t.state = CALLING
        <5>1. h = tsx_on_state_calling(t, ev, o)
          BY <4>1 DEF state_handler
        <5>2. Client(t) /\ t.state <= PROCEEDING
          BY <3>1, <4>1 DEF Held, Client, Core, Prior
        <5> QED BY <5>1, <5>2, CallingFwd
      <4>2. CASE t.state = TRYING
        <5>1. h = tsx_on_state_trying(t, ev, o)
          BY <4>2 DEF state_handler
        <5>2. h.tsx = t \/ h = tsx_on_state_proceeding_uas(t, ev, o)
          BY <5>1 DEF tsx_on_state_trying, Ok
        <5> QED BY <2>1, <3>1, <4>2, <5>2, ReadyFacts, ProceedingUasFwd
      <4>3. CASE t.state = PROCEEDING /\ Role = "UAC"
        <5>1. h = tsx_on_state_proceeding_uac(t, ev, o)
          BY <4>3 DEF state_handler
        <5>2. Client(t)
          BY <3>1, <4>3 DEF Held, Client
        <5> QED BY <4>3, <5>1, <5>2, ProceedingUacFwd
      <4>4. CASE t.state = PROCEEDING /\ Role # "UAC"
        <5>1. h = tsx_on_state_proceeding_uas(t, ev, o)
          BY <4>4 DEF state_handler
        <5> QED BY <3>1, <4>4, <5>1, ProceedingUasFwd
      <4>5. CASE t.state = COMPLETED
        <5>1. \/ h = tsx_on_state_completed_uac(t, ev, o)
              \/ h = tsx_on_state_completed_uas(t, ev, o)
          BY <4>5 DEF state_handler
        <5> QED BY <2>1, <3>1, <4>5, <5>1, CompletedUacFwd, CompletedUasFwd
      <4>6. CASE t.state = CONFIRMED
        <5>1. h = tsx_on_state_confirmed(t, ev, o)
          BY <4>6 DEF state_handler
        <5> QED BY <2>1, <5>1, CompletedUacFwd
      <4>7. t.state \in {CALLING, TRYING, PROCEEDING, COMPLETED, CONFIRMED}
        BY <1>1, <1>2, <2>3
      <4> QED BY <4>1, <4>2, <4>3, <4>4, <4>5, <4>6, <4>7
    <3>3. h.tsx.state # NULL
      BY <1>1, <2>3, <3>2 DEF Fwd
    <3> QED BY <3>2, <3>3 DEF Fwd, Unsent
  <2> QED BY <2>2, <2>3
<1>3. CASE ~(t.state < TERMINATED)
  <2>1. h.tsx = t \/ h.tsx = tsx_set_state(t, DESTROYED)
    BY <1>1, <1>3 DEF state_handler, tsx_on_state_terminated, tsx_on_state_destroyed, Ok, Err
  <2>2. CASE h.tsx = t
    BY <1>1, <2>2
  <2>3. CASE h.tsx = tsx_set_state(t, DESTROYED)
    <3>1. Core(h.tsx) /\ h.tsx.state = DESTROYED
      BY SMTT(30), Z3T(30), <1>3, <2>3, SetStateCore DEF States, Core
    <3> QED BY <1>1, <1>3, <3>1 DEF Unsent
  <2> QED BY <1>3, <2>1, <2>2, <2>3
<1> QED BY <1>2, <1>3

=============================================================================
