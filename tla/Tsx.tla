-------------------------------- MODULE Tsx --------------------------------
(***************************************************************************)
(* One SIP transaction of pjsip/src/pjsip/sip_transaction.c, UAC or UAS,   *)
(* INVITE or not, driven by worker threads that poll the timer heap and    *)
(* the sockets.                                                            *)
(*                                                                         *)
(* The transaction object is one record, tsx.  A function of the source    *)
(* that runs with the group lock held is an operator from records to       *)
(* records of the same name; an action is a stretch of code one thread     *)
(* runs without another thread being able to get in between: the code      *)
(* before the group lock is taken, the code under it, the code after it.   *)
(*                                                                         *)
(* Time is not modelled: an armed timer may fire at any moment, so every   *)
(* order of expiry is covered, whatever the configured T1, T2, T4 and TD.  *)
(***************************************************************************)
EXTENDS Integers, Sequences, FiniteSets

CONSTANTS
    Configs,    \* the transactions considered, see ConfigType
    Reliables,  \* values PJSIP_TRANSPORT_IS_RELIABLE may have for a transport
    Threads     \* threads that may poll the endpoint

\* pending    : a transport send may return PJ_EPENDING
\* resolve    : the server resolution may complete in a later callback
\* send_error : a send, or the resolution, may fail
\* disconnect : the transport may report PJSIP_TP_STATE_DISCONNECTED
\* terminate  : the transaction user may call pjsip_tsx_terminate()
\* stop       : the transaction layer module may be stopped
EnvEvents == {"pending", "resolve", "send_error", "disconnect", "terminate", "stop"}

\* The role and method of a transaction, what its environment may do, and the
\* threads that poll.
ConfigType == [role : {"UAC", "UAS"}, method : {"INVITE", "OTHER"},
               env : SUBSET EnvEvents, threads : SUBSET Threads]

ASSUME TsxAssumption ==
    /\ Configs \subseteq ConfigType
    /\ Reliables \subseteq BOOLEAN /\ Reliables # {}
    /\ IsFiniteSet(Threads)

\* pjsip_tsx_state_e, in the order of the enumeration.
NULL == 0
CALLING == 1
TRYING == 2
PROCEEDING == 3
COMPLETED == 4
CONFIRMED == 5
TERMINATED == 6
DESTROYED == 7
States == NULL..DESTROYED

\* Messages: none, a request, an ACK, or the status code of a response
\* (100, another 1xx, 2xx, 300-699).
NoMsg == 0
REQ == 1
ACK == 2
Responses == {100, 180, 200, 300}
Msgs == {NoMsg, REQ, ACK} \cup Responses

PJSIP_SC_TSX_TIMEOUT == 408
PJSIP_SC_TSX_TRANSPORT_ERROR == 503
UserCode == 487      \* the code of pjsip_tsx_terminate(), any code >= 200
Codes == 0..699

Class(code, c) == code \div 100 = c \div 100

\* Timer entries, and the values of pj_timer_entry.id.
Timers == {"retransmit", "timeout"}
TIMER_INACTIVE == 0
RETRANSMIT_TIMER == 1
TIMEOUT_TIMER == 2
TRANSPORT_ERR_TIMER == 3

Flags == {"PENDING_TRANSPORT", "PENDING_RESCHED", "PENDING_SEND",
          "PENDING_DESTROY", "RESOLVED_SERVER"}

\* The state of a send handed to the server resolution: the message, whether
\* it is on its way to the transport, and whether tdata->mod_data still points
\* to the transaction (which is when tsx->pending_tx is set).
NoOp == [msg |-> NoMsg, sending |-> FALSE, attached |-> FALSE]

VARIABLES
    conf,   \* the configuration, which does not change
    tsx,    \* the transaction object
    thr     \* what each polling thread is doing with it

vars == <<conf, tsx, thr>>

Role == conf.role
Method == conf.method
Env == conf.env

Idle == [pc |-> "idle", timer |-> "timeout", msg |-> NoMsg, err |-> FALSE, res |-> "ok"]
Pcs == {"idle", "fired", "timer", "transport_err", "notify", "rx",
        "sent", "send_cb", "stop"}

Invite == Method = "INVITE"

Has(t, f) == f \in t.flag
SetFlag(t, f) == [t EXCEPT !.flag = @ \cup {f}]
ClearFlags(t, fs) == [t EXCEPT !.flag = @ \ fs]

\* Result of a function: the transaction after it, and whether it returned
\* PJ_SUCCESS.
Ok(t) == [tsx |-> t, ok |-> TRUE]
Err(t) == [tsx |-> t, ok |-> FALSE]

----------------------------------------------------------------------------
(* Timers.  The timer heap takes a reference of the group lock for every    *)
(* entry it holds, and refuses to schedule an entry twice.                  *)

tsx_schedule_timer(t, e, active_id) ==
    IF e \in t.heap THEN t
    ELSE [t EXCEPT !.heap = @ \cup {e}, !.id[e] = active_id, !.ref = @ + 1]

tsx_cancel_timer(t, e) ==
    [t EXCEPT !.heap = @ \ {e}, !.id[e] = TIMER_INACTIVE,
              !.ref = IF e \in t.heap THEN @ - 1 ELSE @]

\* The cancel and schedule of the timeout timer done under lock_timer().
RestartTimeout(t, active_id) ==
    tsx_schedule_timer(tsx_cancel_timer(t, "timeout"), "timeout", active_id)

\* tsx_tp_state_callback(PJSIP_TP_STATE_DISCONNECTED): post the error.
PostTransportErr(t) ==
    RestartTimeout([t EXCEPT !.transport_err = TRUE], TRANSPORT_ERR_TIMER)

\* tp is "none", "up", or "down" for a transport already shutting down.
tsx_update_transport(t, tp) ==
    LET u == [t EXCEPT !.transport = tp # "none"]
    IN  IF tp = "down" THEN PostTransportErr(u) ELSE u

tsx_set_status_code(t, code) == [t EXCEPT !.status_code = code]

----------------------------------------------------------------------------
(* State changes.                                                          *)

mod_tsx_layer_unregister_tsx(t) == [t EXCEPT !.registered = FALSE]

\* Mutant: a second shutdown drops the reference again.
tsx_shutdown_Twice(t) ==
    LET u == tsx_cancel_timer(tsx_cancel_timer(
                 tsx_update_transport(t, "none"), "timeout"), "retransmit")
    IN  [u EXCEPT !.last_tx = NoMsg, !.ref = @ - 1, !.terminating = TRUE]

tsx_shutdown(t) ==
    LET pending == Has(t, "PENDING_TRANSPORT")
    IN  [tsx_cancel_timer(tsx_cancel_timer(
             tsx_update_transport(t, "none"), "timeout"), "retransmit")
            EXCEPT !.last_tx = NoMsg,
                   !.flag = (@ \ {"PENDING_RESCHED", "PENDING_SEND"})
                            \cup IF pending THEN {"PENDING_DESTROY"} ELSE {},
                   !.tsx_user = @ /\ ~pending,
                   !.ref = IF t.terminating THEN @ ELSE @ - 1,
                   !.terminating = TRUE]

\* on_tsx_state() of the transaction user; note is what it was told in this
\* step, told everything it has been told so far.
NotifyTU(t) ==
    IF t.tsx_user
    THEN [t EXCEPT !.note = Append(@, t.state), !.told = @ \cup {t.state}]
    ELSE t

\* What tsx_set_state() does once the user has been told.
StateEntered(t) ==
    IF t.state = TERMINATED
    THEN RestartTimeout(
             IF Has(t, "PENDING_TRANSPORT")
             THEN [ClearFlags(t, {"PENDING_TRANSPORT"}) EXCEPT !.rs_op.attached = FALSE]
             ELSE t,
             TIMEOUT_TIMER)
    ELSE IF t.state = DESTROYED
    THEN tsx_shutdown(mod_tsx_layer_unregister_tsx(t))
    ELSE t

tsx_set_state(t, state) == StateEntered(NotifyTU([t EXCEPT !.state = state]))

tsx_set_state_no_notify(t, state) ==
    [tsx_set_state([t EXCEPT !.tsx_user = FALSE], state)
         EXCEPT !.tsx_user = t.tsx_user]

----------------------------------------------------------------------------
(* Sending.  An outcome o says what the environment does during one call:   *)
(* o.tp is what pjsip_transport_send() returns, o.rs how the full server    *)
(* resolution goes, o.rel whether the transport it finds is reliable,       *)
(* o.down whether that transport is already shutting down, o.again what     *)
(* pjsip_transport_send() returns for a deferred message sent after it.     *)

Outcomes ==
    LET sync == {"ok"} \cup IF "send_error" \in Env THEN {"error"} ELSE {}
        any(async) == sync \cup IF async \in Env THEN {"pending"} ELSE {}
    IN  [tp : any("pending"), rs : any("resolve"), rel : Reliables,
         down : IF "disconnect" \in Env THEN BOOLEAN ELSE {FALSE},
         again : any("pending")]

Emit(t, m) == [t EXCEPT !.out = @ \cup {m}, !.wire = @ \cup {m}]

\* tdata->is_pending: the message is being sent by the transport.
is_pending(t, m) == m = t.tp_op \/ (m = t.rs_op.msg /\ t.rs_op.sending)

\* Mutant: a send that is pending is not recorded in the flag.
SendResolved_NoFlag(t, m, tp) ==
    IF t.transport /\ tp = "ok" THEN Ok(Emit(t, m))
    ELSE IF t.transport /\ tp = "pending"
    THEN Ok([Emit(t, m) EXCEPT !.tp_op = m, !.ref = @ + 1])
    ELSE Err(tsx_set_state(tsx_update_transport(t, "none"), TERMINATED))

\* The part of tsx_send_msg() that uses the transport of the transaction, or
\* gives up because the server has been resolved before.
SendResolved(t, m, tp) ==
    IF t.transport /\ tp = "ok"
    THEN Ok(Emit(t, m))
    ELSE IF t.transport /\ tp = "pending"
    THEN Ok([Emit(SetFlag(t, "PENDING_TRANSPORT"), m)
                 EXCEPT !.tp_op = m, !.ref = @ + 1])
    ELSE Err(tsx_set_state(
                 tsx_set_status_code(tsx_update_transport(t, "none"),
                                     PJSIP_SC_TSX_TRANSPORT_ERROR),
                 TERMINATED))

\* The tests tsx_send_msg() makes before it sends anything.
Deferred(t, m) == Has(t, "PENDING_TRANSPORT") \/ is_pending(t, m)
\* Mutant: the message is dropped instead of put off.
Defer_Drops(t) == Ok(t)

Defer(t) ==
    Ok(IF Has(t, "PENDING_TRANSPORT") THEN SetFlag(t, "PENDING_SEND") ELSE t)

tsx_resched_retransmission(t) ==
    tsx_schedule_timer(t, "retransmit", RETRANSMIT_TIMER)

\* The transport is known: send what was put off, and restart the
\* retransmissions that were.
SendDeferred(t, o) ==
    LET c == ClearFlags(t, {"PENDING_SEND"})
    IN  IF ~Has(t, "PENDING_SEND") \/ t.last_tx = NoMsg THEN c
        ELSE IF Deferred(c, c.last_tx) THEN Defer(c).tsx
        ELSE SendResolved(c, c.last_tx, o.again).tsx

ReschedDeferred(t) ==
    LET e == ClearFlags(t, {"PENDING_RESCHED"})
    IN  IF Has(t, "PENDING_RESCHED") /\ ~t.is_reliable
        THEN tsx_resched_retransmission(e) ELSE e

TransportReady(t, o) ==
    IF Has(t, "PENDING_DESTROY") THEN tsx_set_state(t, DESTROYED)
    ELSE ReschedDeferred(SendDeferred(t, o))

\* send_msg_callback() with sent > 0, under the group lock.
SendCallbackOk(t, o) ==
    TransportReady(
        SetFlag(ClearFlags([tsx_update_transport(t, IF o.down THEN "down" ELSE "up")
                                EXCEPT !.is_reliable = o.rel, !.rs_op = NoOp],
                           {"PENDING_TRANSPORT"}), "RESOLVED_SERVER"), o)

SendGivenUp(t) ==
    IF t.state < TERMINATED THEN tsx_set_state(t, TERMINATED)
    ELSE IF Has(t, "PENDING_DESTROY") THEN tsx_set_state(t, DESTROYED)
    ELSE t

\* send_msg_callback() with sent < 0 and no server left to try.
SendCallbackFailed(t) ==
    SendGivenUp(tsx_set_status_code(
        SetFlag(ClearFlags([t EXCEPT !.rs_op = NoOp, !.transport_err = TRUE,
                                     !.transport = FALSE],
                           {"PENDING_TRANSPORT"}), "RESOLVED_SERVER"),
        PJSIP_SC_TSX_TRANSPORT_ERROR))

\* send_msg_callback() with sent < 0 and another server to try.
SendCallbackRetry(t) ==
    [IF t.id["timeout"] # TIMER_INACTIVE THEN RestartTimeout(t, TIMEOUT_TIMER) ELSE t
         EXCEPT !.rs_op = [@ EXCEPT !.sending = FALSE, !.attached = TRUE],
                !.transport = FALSE]

\* pjsip_endpt_send_request_stateless() or pjsip_endpt_send_response(): the
\* callback may be called before it returns.
send_request_stateless(t, m, o) ==
    CASE o.rs = "pending" -> t
      [] o.rs = "error" -> SendCallbackFailed(t)
      [] OTHER -> SendCallbackOk(Emit(t, m), o)

\* An error found by the callback is returned by tsx_send_msg().
StatelessSent(t) == [tsx |-> t, ok |-> ~(t.state = TERMINATED /\ t.transport_err)]

tsx_send_msg(t, m, o) ==
    IF m = NoMsg THEN Err(t)
    ELSE IF Deferred(t, m) THEN Defer(t)
    ELSE IF (t.transport /\ o.tp # "error") \/ Has(t, "RESOLVED_SERVER")
    THEN SendResolved(t, m, o.tp)
    ELSE StatelessSent(send_request_stateless(
             [SetFlag(tsx_update_transport(t, "none"), "PENDING_TRANSPORT")
                  EXCEPT !.rs_op = [msg |-> m, sending |-> FALSE, attached |-> TRUE]],
             m, o))

\* Retransmissions are armed at once, or once the transport is known.
ScheduleRetransmit(t) ==
    IF Has(t, "PENDING_TRANSPORT") THEN SetFlag(t, "PENDING_RESCHED")
    ELSE tsx_schedule_timer(t, "retransmit", RETRANSMIT_TIMER)

tsx_retransmit(t, resched, o) ==
    IF resched /\ "retransmit" \in t.heap THEN Ok(t)
    ELSE IF t.last_tx = NoMsg THEN Err(t)
    ELSE tsx_send_msg(IF resched THEN ScheduleRetransmit(t) ELSE t, t.last_tx, o)

----------------------------------------------------------------------------
(* State handlers.  An event is a message to send (TX), a message received  *)
(* (RX) or an expired timer (TIMER).                                        *)

TxEvent(m) == [type |-> "TX", msg |-> m, timer |-> "timeout"]
RxEvent(m) == [type |-> "RX", msg |-> m, timer |-> "timeout"]
TimerEvent(e) == [type |-> "TIMER", msg |-> NoMsg, timer |-> e]

IsTimer(ev, e) == ev.type = "TIMER" /\ ev.timer = e

\* Timeout: the transaction ends with PJSIP_SC_TSX_TIMEOUT.
TimedOut(t) == tsx_set_state(tsx_set_status_code(t, PJSIP_SC_TSX_TIMEOUT), TERMINATED)

\* The request has been sent: start Timers B or F and A or E.
RequestSent(s) ==
    LET a == RestartTimeout(s.tsx, TIMEOUT_TIMER)
    IN  IF s.ok
        THEN Ok(tsx_set_state(IF a.is_reliable THEN a ELSE ScheduleRetransmit(a), CALLING))
        ELSE s

tsx_on_state_null(t, ev, o) ==
    IF Role = "UAS" THEN Ok(tsx_set_state(t, TRYING))
    ELSE IF ev.type # "TX" THEN Err(t)
    ELSE RequestSent(tsx_send_msg([t EXCEPT !.last_tx = ev.msg], ev.msg, o))

\* The ACK, if any, has been sent: start Timer D or K.
AckSent(s) ==
    LET b == tsx_set_state(s.tsx, COMPLETED)
    IN  IF s.ok
        THEN Ok(RestartTimeout(IF Invite THEN [b EXCEPT !.last_tx = ACK] ELSE b,
                               TIMEOUT_TIMER))
        ELSE s

\* A 300-699 response at the UAC: for INVITE, acknowledge it.
FinalFailure(t, o) ==
    LET a == tsx_cancel_timer(tsx_cancel_timer(t, "retransmit"), "timeout")
    IN  AckSent(IF Invite THEN tsx_send_msg(a, ACK, o) ELSE Ok(a))

tsx_on_state_proceeding_uac(t, ev, o) ==
    IF IsTimer(ev, "retransmit") THEN tsx_retransmit(t, TRUE, o)
    ELSE IF IsTimer(ev, "timeout") THEN Ok(TimedOut(t))
    ELSE IF ev.type = "TX" THEN Err(t)
    ELSE LET a == tsx_set_status_code(t, ev.msg)
             b == tsx_cancel_timer(a, "timeout")
             c == tsx_cancel_timer(
                      tsx_schedule_timer(b, "timeout", TIMEOUT_TIMER), "retransmit")
         IN  CASE Class(ev.msg, 100) -> Ok(tsx_set_state(a, PROCEEDING))
               [] Class(ev.msg, 200) -> Ok(IF Invite
                                           THEN tsx_set_state(b, TERMINATED)
                                           ELSE tsx_set_state(c, COMPLETED))
               [] OTHER -> FinalFailure(a, o)

tsx_on_state_calling(t, ev, o) ==
    LET a == tsx_cancel_timer(t, "retransmit")
        final == IF t.id["timeout"] # TIMER_INACTIVE
                 THEN tsx_cancel_timer(a, "timeout") ELSE a
        provisional == IF Invite THEN tsx_cancel_timer(a, "timeout")
                       ELSE IF a.is_reliable THEN a
                       ELSE tsx_schedule_timer(a, "retransmit", RETRANSMIT_TIMER)
        b == IF ev.msg >= 200 THEN final ELSE provisional
    IN  IF IsTimer(ev, "retransmit") THEN tsx_retransmit(t, TRUE, o)
        ELSE IF IsTimer(ev, "timeout")
        THEN Ok(TimedOut(ClearFlags(a, {"PENDING_RESCHED"})))
        ELSE IF ev.type = "TX" THEN Err(t)
        ELSE Ok(tsx_on_state_proceeding_uac(ClearFlags(b, {"PENDING_RESCHED"}), ev, o).tsx)

\* Mutant: the 1xx timer is stopped after the retransmission is scheduled.
ResponseSent_Swapped(t, m) ==
    LET a == [t EXCEPT !.last_tx = m]
        b == tsx_cancel_timer(ScheduleRetransmit(a), "retransmit")
    IN  IF Class(m, 100) THEN tsx_set_state(a, PROCEEDING)
        ELSE tsx_set_state(RestartTimeout(b, TIMEOUT_TIMER), COMPLETED)

\* The UAS has sent response m: what the transaction does about it.
\* tsx->handle_200resp is always set, so a 2xx to INVITE is retransmitted too.
ResponseSent(t, m) ==
    LET a == [t EXCEPT !.last_tx = m]
        b == tsx_set_state(a, PROCEEDING)
        c == RestartTimeout(tsx_cancel_timer(a, "retransmit"), TIMEOUT_TIMER)
    IN  IF Class(m, 100)
        THEN IF Invite /\ m > 100
             THEN ScheduleRetransmit(tsx_cancel_timer(b, "retransmit")) ELSE b
        ELSE tsx_set_state(IF Invite /\ (Class(m, 200) \/ ~c.is_reliable)
                           THEN ScheduleRetransmit(c) ELSE c,
                           COMPLETED)

Responded(s, m) == IF s.ok THEN Ok(ResponseSent(s.tsx, m)) ELSE s

tsx_on_state_proceeding_uas(t, ev, o) ==
    IF ev.type = "RX" THEN tsx_send_msg(t, t.last_tx, o)
    ELSE IF IsTimer(ev, "retransmit") THEN tsx_retransmit(t, TRUE, o)
    ELSE IF IsTimer(ev, "timeout") THEN Err(TimedOut(t))
    ELSE Responded(tsx_send_msg(tsx_set_status_code([t EXCEPT !.last_tx = NoMsg], ev.msg),
                                ev.msg, o),
                   ev.msg)

tsx_on_state_trying(t, ev, o) ==
    IF ev.type # "TX" THEN Ok(t) ELSE tsx_on_state_proceeding_uas(t, ev, o)

tsx_on_state_completed_uas(t, ev, o) ==
    LET a == ClearFlags(tsx_cancel_timer(t, "retransmit"), {"PENDING_RESCHED"})
    IN  IF IsTimer(ev, "retransmit") THEN tsx_retransmit(t, TRUE, o)
        ELSE IF IsTimer(ev, "timeout")
        THEN Ok(IF Invite THEN TimedOut(t) ELSE tsx_set_state(t, TERMINATED))
        ELSE IF ev.type = "TX" \/ (ev.msg = ACK /\ ~Invite) THEN Err(t)
        ELSE IF ev.msg = ACK
        THEN Ok(tsx_set_state(RestartTimeout(a, TIMEOUT_TIMER), CONFIRMED))
        ELSE tsx_retransmit(t, FALSE, o)

\* Mutant: a stray retransmit event is not ignored.
tsx_on_state_completed_uac_Stray(t, ev, o) ==
    IF IsTimer(ev, "timeout") THEN Ok(tsx_set_state(t, TERMINATED))
    ELSE IF IsTimer(ev, "retransmit") THEN tsx_retransmit(t, TRUE, o)
    ELSE Ok(t)

tsx_on_state_completed_uac(t, ev, o) ==
    IF IsTimer(ev, "timeout") THEN Ok(tsx_set_state(t, TERMINATED))
    ELSE IF ev.type = "RX" /\ Invite /\ ev.msg >= 200 THEN tsx_retransmit(t, FALSE, o)
    ELSE Ok(t)

tsx_on_state_confirmed(t, ev, o) ==
    IF IsTimer(ev, "timeout") THEN Ok(tsx_set_state(t, TERMINATED)) ELSE Ok(t)

\* Mutant: a response found its way into a terminated transaction.
tsx_on_state_terminated_Rx(t, ev, o) ==
    IF ev.type = "TIMER" THEN Ok(tsx_set_state(t, DESTROYED))
    ELSE tsx_on_state_proceeding_uac(t, ev, o)

\* Mutant: the timer is started again.
tsx_on_state_terminated_Again(t, ev, o) ==
    IF ev.type = "TIMER" THEN Ok(RestartTimeout(t, TIMEOUT_TIMER)) ELSE Err(t)

tsx_on_state_terminated(t, ev, o) ==
    IF ev.type = "TIMER" THEN Ok(tsx_set_state(t, DESTROYED)) ELSE Err(t)

tsx_on_state_destroyed(t, ev, o) == Err(t)

\* tsx_state_handler_uac[] and tsx_state_handler_uas[]
state_handler(t, ev, o) ==
    CASE t.state = NULL -> tsx_on_state_null(t, ev, o)
      [] t.state = CALLING -> tsx_on_state_calling(t, ev, o)
      [] t.state = TRYING -> tsx_on_state_trying(t, ev, o)
      [] t.state = PROCEEDING -> IF Role = "UAC"
                                 THEN tsx_on_state_proceeding_uac(t, ev, o)
                                 ELSE tsx_on_state_proceeding_uas(t, ev, o)
      [] t.state = COMPLETED -> IF Role = "UAC"
                                THEN tsx_on_state_completed_uac(t, ev, o)
                                ELSE tsx_on_state_completed_uas(t, ev, o)
      [] t.state = CONFIRMED -> tsx_on_state_confirmed(t, ev, o)
      [] t.state = TERMINATED -> tsx_on_state_terminated(t, ev, o)
      [] OTHER -> tsx_on_state_destroyed(t, ev, o)

----------------------------------------------------------------------------
(* Creation: the transaction is registered in the hash table, in state Null,*)
(* with the one reference that tsx_shutdown() drops.  A UAS transaction     *)
(* answers on the transport of the request when it can.                     *)

tsx_create(rel) ==
    [state |-> NULL, status_code |-> 0, flag |-> {}, transport |-> FALSE,
     is_reliable |-> rel, transport_err |-> FALSE, last_tx |-> NoMsg,
     rs_op |-> NoOp, tp_op |-> NoMsg, heap |-> {},
     id |-> [e \in Timers |-> TIMER_INACTIVE], terminating |-> FALSE,
     tsx_user |-> TRUE, registered |-> TRUE, ref |-> 1,
     note |-> <<>>, told |-> {}, out |-> {}, wire |-> {}]

pjsip_tsx_create_uac(rel) == tsx_create(rel)

pjsip_tsx_create_uas(rel, tp) == tsx_update_transport(tsx_create(rel), tp)

UasTransports == {"none", "up"} \cup IF "disconnect" \in Env THEN {"down"} ELSE {}

Init ==
    /\ conf \in Configs
    /\ \E rel \in Reliables :
          \/ Role = "UAC" /\ tsx = pjsip_tsx_create_uac(rel)
          \/ Role = "UAS" /\ \E tp \in UasTransports : tsx = pjsip_tsx_create_uas(rel, tp)
    /\ thr = [th \in Threads |-> Idle]

\* What was sent and notified is recorded for one step.
Fresh(t) == [t EXCEPT !.out = {}, !.note = <<>>]

DropRef(t) == [t EXCEPT !.ref = @ - 1]

Alive == tsx.ref > 0

----------------------------------------------------------------------------
(* The transaction user.  It uses the transaction until it has been told    *)
(* that it is terminated.                                                   *)

UserHasTsx == Alive /\ TERMINATED \notin tsx.told /\ tsx.state < TERMINATED

\* What the user sends: the request, or one more response until a final one.
pjsip_tsx_send_msg(m, o) ==
    /\ UserHasTsx
    /\ \/ Role = "UAC" /\ tsx.state = NULL /\ m = REQ
       \/ Role = "UAS" /\ tsx.state \in {TRYING, PROCEEDING} /\ m \in Responses
    /\ tsx' = state_handler(Fresh(tsx), TxEvent(m), o).tsx
    /\ UNCHANGED <<conf, thr>>

\* The user passes the request that created a UAS transaction to it.
pjsip_tsx_recv_msg(o) ==
    /\ UserHasTsx /\ Role = "UAS" /\ tsx.state = NULL
    /\ tsx' = state_handler(Fresh(tsx), RxEvent(REQ), o).tsx
    /\ UNCHANGED <<conf, thr>>

pjsip_tsx_terminate ==
    /\ UserHasTsx /\ "terminate" \in Env
    /\ tsx' = tsx_set_state(tsx_set_status_code(Fresh(tsx), UserCode), TERMINATED)
    /\ UNCHANGED <<conf, thr>>

pjsip_tsx_stop_retransmit ==
    /\ UserHasTsx /\ Role = "UAC" /\ Invite
    /\ tsx' = tsx_cancel_timer(Fresh(tsx), "retransmit")
    /\ UNCHANGED <<conf, thr>>

pjsip_tsx_set_timeout ==
    /\ UserHasTsx /\ Role = "UAC" /\ Invite /\ tsx.state # NULL
    /\ tsx.status_code < 200 \/ tsx.id["timeout"] = TIMER_INACTIVE
    /\ tsx' = RestartTimeout(Fresh(tsx), TIMEOUT_TIMER)
    /\ UNCHANGED <<conf, thr>>

\* Used for the retransmission of reliable provisional responses.
pjsip_tsx_retransmit_no_state(o) ==
    /\ UserHasTsx /\ Role = "UAS" /\ Invite /\ tsx.state = PROCEEDING
    /\ tsx.last_tx # NoMsg
    /\ tsx' = tsx_send_msg(Fresh(tsx), tsx.last_tx, o).tsx
    /\ UNCHANGED <<conf, thr>>

----------------------------------------------------------------------------
(* The polling threads.                                                     *)

Goto(th, r) == thr' = [thr EXCEPT ![th] = r] /\ UNCHANGED conf
At(th, pc) == thr[th].pc = pc

\* A thread in the middle of mod_tsx_layer_stop() holds the mutex of the hash
\* table, which finding and unregistering a transaction need.
LayerLocked == \E th \in Threads : At(th, "stop")

\* pj_timer_heap_poll() takes the entry off the heap, with its reference, and
\* calls the callback without any lock.
pj_timer_heap_poll(th, e) ==
    /\ At(th, "idle") /\ e \in tsx.heap
    /\ tsx' = [Fresh(tsx) EXCEPT !.heap = @ \ {e}]
    /\ Goto(th, [Idle EXCEPT !.pc = "fired", !.timer = e])

\* tsx_timer_callback() up to the point where it takes the group lock.  A
\* transport error posted to a terminated transaction is dropped.
tsx_timer_callback(th) ==
    LET e == thr[th].timer
        t == [Fresh(tsx) EXCEPT !.id[e] = TIMER_INACTIVE]
    IN  /\ At(th, "fired")
        /\ IF tsx.id[e] # TRANSPORT_ERR_TIMER
           THEN tsx' = t /\ Goto(th, [thr[th] EXCEPT !.pc = "timer"])
           ELSE IF tsx.state < TERMINATED
           THEN tsx' = t /\ Goto(th, [thr[th] EXCEPT !.pc = "transport_err"])
           ELSE tsx' = DropRef(t) /\ Goto(th, Idle)

\* Mutant: the mutex of the hash table is not waited for.
TimerDispatch_NoMutex(th, o) ==
    /\ At(th, "timer")
    /\ tsx' = DropRef(state_handler(Fresh(tsx), TimerEvent(thr[th].timer), o).tsx)
    /\ Goto(th, Idle)

\* The timer event is dispatched under the group lock.
TimerDispatch(th, o) ==
    /\ At(th, "timer") /\ ~(LayerLocked /\ tsx.state = TERMINATED)
    /\ tsx' = DropRef(state_handler(Fresh(tsx), TimerEvent(thr[th].timer), o).tsx)
    /\ Goto(th, Idle)

\* The posted transport error is processed under the group lock, without
\* notifying the user ...
TransportErr(th) ==
    LET t == tsx_update_transport(Fresh(tsx), "none")
    IN  /\ At(th, "transport_err")
        /\ tsx' = tsx_set_state_no_notify(
                      IF t.status_code < 200
                      THEN tsx_set_status_code(t, PJSIP_SC_TSX_TRANSPORT_ERROR) ELSE t,
                      TERMINATED)
        /\ Goto(th, [thr[th] EXCEPT !.pc = "notify"])

\* ... who is notified afterwards, without the group lock, of the state the
\* transaction has by then.
TransportErrNotify(th) ==
    /\ At(th, "notify")
    /\ tsx' = DropRef(NotifyTU(Fresh(tsx)))
    /\ Goto(th, Idle)

\* mod_tsx_layer_on_rx_request() and mod_tsx_layer_on_rx_response() find the
\* transaction and take a reference.  Any message the peer may have sent by
\* now arrives, any number of times, in any order.
PeerMsgs ==
    IF Role = "UAC" THEN IF REQ \in tsx.wire THEN Responses ELSE {}
    ELSE {REQ} \cup IF Invite /\ tsx.wire \cap {200, 300} # {} THEN {ACK} ELSE {}

mod_tsx_layer_on_rx(th, m) ==
    /\ At(th, "idle") /\ m \in PeerMsgs
    /\ tsx.registered /\ tsx.state # TERMINATED /\ ~LayerLocked
    /\ tsx' = [Fresh(tsx) EXCEPT !.ref = @ + 1]
    /\ Goto(th, [Idle EXCEPT !.pc = "rx", !.msg = m])

RecvMsg(th, o) ==
    /\ At(th, "rx")
    /\ tsx' = DropRef(state_handler(Fresh(tsx), RxEvent(thr[th].msg), o).tsx)
    /\ Goto(th, Idle)

\* transport_callback(): the transport has finished an asynchronous send.
transport_callback(th, err) ==
    /\ At(th, "idle") /\ tsx.tp_op # NoMsg
    /\ err => "send_error" \in Env
    /\ tsx' = ClearFlags([Fresh(tsx) EXCEPT !.tp_op = NoMsg], {"PENDING_TRANSPORT"})
    /\ Goto(th, [Idle EXCEPT !.pc = "sent", !.err = err])

\* The rest of it: post the error, drop the reference of the send.
TransportCallbackDone(th) ==
    /\ At(th, "sent")
    /\ tsx' = DropRef(IF thr[th].err THEN PostTransportErr(Fresh(tsx)) ELSE Fresh(tsx))
    /\ Goto(th, Idle)

\* tsx_tp_state_callback() is called while the transaction listens to its
\* transport.
tsx_tp_state_callback ==
    /\ "disconnect" \in Env /\ tsx.transport
    /\ tsx' = PostTransportErr(Fresh(tsx))
    /\ UNCHANGED <<conf, thr>>

\* The resolver has an address and hands the message to a transport; it calls
\* send_msg_callback() itself and waits for it.
ResolverSends ==
    /\ tsx.rs_op.msg # NoMsg /\ ~tsx.rs_op.sending
    /\ \A th \in Threads : ~At(th, "send_cb")
    /\ tsx' = [Emit(Fresh(tsx), tsx.rs_op.msg) EXCEPT !.rs_op.sending = TRUE]
    /\ UNCHANGED <<conf, thr>>

\* send_msg_callback() up to the group lock: it returns at once when the
\* transaction has detached itself from the message.  res is "ok", "error"
\* (no server left) or "retry" (there is another server).
send_msg_callback(th, res) ==
    /\ At(th, "idle") /\ tsx.rs_op.msg # NoMsg
    /\ \A x \in Threads : ~At(x, "send_cb")
    /\ \/ res = "ok" /\ tsx.rs_op.sending
       \/ res \in {"error", "retry"} /\ "send_error" \in Env
    /\ IF tsx.rs_op.attached
       THEN tsx' = Fresh(tsx) /\ Goto(th, [Idle EXCEPT !.pc = "send_cb", !.res = res])
       ELSE tsx' = [Fresh(tsx) EXCEPT !.rs_op = NoOp] /\ UNCHANGED <<conf, thr>>

\* The rest of it, under the group lock.
SendCallback(th, o) ==
    /\ At(th, "send_cb") /\ Alive
    /\ tsx' = IF thr[th].res = "ok" THEN SendCallbackOk(Fresh(tsx), o)
              ELSE IF thr[th].res = "error" \/ Has(tsx, "PENDING_DESTROY")
              THEN SendCallbackFailed(Fresh(tsx))
              ELSE SendCallbackRetry(Fresh(tsx))
    /\ Goto(th, Idle)

\* mod_tsx_layer_stop(): terminate the transaction under the group lock ...
mod_tsx_layer_stop(th) ==
    /\ "stop" \in Env /\ At(th, "idle") /\ tsx.registered /\ ~LayerLocked
    /\ tsx' = IF tsx.state < TERMINATED
              THEN tsx_set_state(tsx_set_status_code(Fresh(tsx),
                                     PJSIP_SC_TSX_TRANSPORT_ERROR), TERMINATED)
              ELSE Fresh(tsx)
    /\ Goto(th, [Idle EXCEPT !.pc = "stop"])

\* ... then unregister it and shut it down, without it.
LayerStopShutdown(th) ==
    /\ At(th, "stop")
    /\ tsx' = tsx_shutdown(mod_tsx_layer_unregister_tsx(Fresh(tsx)))
    /\ Goto(th, Idle)

\* The transaction has been destroyed: nothing is left to do.
Destroyed ==
    /\ ~Alive /\ \A th \in Threads : At(th, "idle")
    /\ UNCHANGED vars

UserStep ==
    \/ \E o \in Outcomes :
          \/ \E m \in Msgs : pjsip_tsx_send_msg(m, o)
          \/ pjsip_tsx_recv_msg(o)
          \/ pjsip_tsx_retransmit_no_state(o)
    \/ pjsip_tsx_terminate
    \/ pjsip_tsx_stop_retransmit
    \/ pjsip_tsx_set_timeout

\* What a thread does once it has started on the transaction.
Proceed(th) ==
    \/ tsx_timer_callback(th)
    \/ TransportErr(th)
    \/ TransportErrNotify(th)
    \/ TransportCallbackDone(th)
    \/ LayerStopShutdown(th)
    \/ \E o \in Outcomes : TimerDispatch(th, o) \/ RecvMsg(th, o) \/ SendCallback(th, o)

Start(th) ==
    /\ th \in conf.threads
    /\ \/ \E e \in Timers : pj_timer_heap_poll(th, e)
       \/ \E m \in Msgs : mod_tsx_layer_on_rx(th, m)
       \/ \E err \in BOOLEAN : transport_callback(th, err)
       \/ \E res \in {"ok", "error", "retry"} : send_msg_callback(th, res)
       \/ mod_tsx_layer_stop(th)

Next ==
    \/ UserStep
    \/ \E th \in Threads : Start(th) \/ Proceed(th)
    \/ tsx_tp_state_callback
    \/ ResolverSends
    \/ Destroyed

Spec == Init /\ [][Next]_vars

----------------------------------------------------------------------------
(* Properties.                                                              *)

TsxType ==
    [state : States, status_code : Codes, flag : SUBSET Flags,
     transport : BOOLEAN, is_reliable : BOOLEAN, transport_err : BOOLEAN,
     last_tx : Msgs, rs_op : [msg : Msgs, sending : BOOLEAN, attached : BOOLEAN],
     tp_op : Msgs, heap : SUBSET Timers, id : [Timers -> 0..3],
     terminating : BOOLEAN, tsx_user : BOOLEAN, registered : BOOLEAN,
     ref : Int, note : Seq(States), told : SUBSET States,
     out : SUBSET Msgs, wire : SUBSET Msgs]

ThrType == [pc : Pcs, timer : Timers, msg : Msgs, err : BOOLEAN,
            res : {"ok", "error", "retry"}]

\* The variables have the types of the fields of pjsip_transaction.
TypeOK == tsx \in TsxType /\ thr \in [Threads -> ThrType]

\* Some send of transaction t is outstanding.
Outstanding(t) == t.rs_op.msg # NoMsg \/ t.tp_op # NoMsg

\* One thread polls; a transport error may be posted.
Alone == Cardinality(conf.threads) = 1
MayPostError == "disconnect" \in Env \/ {"pending", "send_error"} \subseteq Env

\* At most one send is outstanding, and until the transaction is terminated
\* TSX_HAS_PENDING_TRANSPORT says so: that flag is all tsx_send_msg() looks at
\* before it starts another one, which would reuse the same send state and
\* drop a reference for it.  A callback is called once.
OneSend ==
    /\ tsx.rs_op.msg = NoMsg \/ tsx.tp_op = NoMsg
    /\ tsx.state < TERMINATED /\ Outstanding(tsx) => Has(tsx, "PENDING_TRANSPORT")
    /\ \A th \in Threads : At(th, "send_cb") =>
          tsx.rs_op.msg # NoMsg /\ \A x \in Threads : At(x, "send_cb") => x = th

\* Threads that hold a reference of the group lock.
Holders == {th \in Threads :
              thr[th].pc \in {"fired", "timer", "transport_err", "notify", "rx", "sent"}}

One(b) == IF b THEN 1 ELSE 0

\* The references the transaction itself accounts for: one until tsx_shutdown(),
\* one per armed timer, one for the send the transport has not completed.
OwnRefs(t) == One(~t.terminating) + One("retransmit" \in t.heap)
              + One("timeout" \in t.heap) + One(t.tp_op # NoMsg)

\* The reference counter of the group lock is exact, whatever callbacks race:
\* the transaction's own references, and one per thread between its lookup of
\* the transaction (or the expiry of a timer, or the end of a send) and the
\* end of its callback.  So the transaction is destroyed neither while one of
\* these is outstanding nor, once they are gone, leaked.
RefCounted == tsx.ref = OwnRefs(tsx) + Cardinality(Holders)

\* pj_assert(state >= tsx->state) of tsx_set_state(): the state never goes back.
\* (tsx_timer_callback() tests the state before it takes the lock when it handles
\* a posted transport error, so two threads can.)
StateNeverGoesBack == [][Alone \/ ~MayPostError => tsx'.state >= tsx.state]_vars

\* No thread runs code of the transaction after it has been destroyed: not in a
\* timer, receive or send callback, nor in the stop of the layer.  (A callback of
\* the resolution holds no reference: the transaction may be destroyed before it
\* takes the lock.)
NoUseAfterDestroy ==
    "resolve" \notin Env => \A th \in Threads : ~At(th, "idle") => Alive

\* An event for timer e is on its way to the transaction.
OnItsWay(e) == e \in tsx.heap \/ \E th \in Threads :
                  thr[th].pc \in {"fired", "timer"} /\ thr[th].timer = e

\* "Send later if transport is still pending", says tsx_send_msg(): so does a
\* transport that returns PJ_EPENDING.
DeferredIsSent ==
    tsx.state < TERMINATED /\ Has(tsx, "PENDING_SEND") => Has(tsx, "PENDING_TRANSPORT")

\* A UAC that has got a final failure to its INVITE has acknowledged it, or
\* will when the pending transport is ready.
FinalIsAcked ==
    "pending" \notin Env /\ Role = "UAC" /\ Invite /\ tsx.state = COMPLETED =>
        ACK \in tsx.wire \/ {"PENDING_TRANSPORT", "PENDING_SEND"} \subseteq tsx.flag

\* A retransmit timer that expired before the event that ends retransmission was
\* handled sends nothing any more: no request after a final response, no response
\* after the ACK, and, if one thread polls, no INVITE after a provisional response.
NoStaleRetransmission ==
    [][/\ Role = "UAS" /\ tsx.state = CONFIRMED => tsx'.out = {}
       /\ Role = "UAC" /\ ~ResolverSends
             /\ (tsx.state = COMPLETED \/ (Alone /\ Invite /\ tsx.state = PROCEEDING))
          => REQ \notin tsx'.out]_vars

\* A UAS keeps retransmitting its final response to an INVITE over an
\* unreliable transport until the ACK or Timer H, whichever threads race to
\* restart the retransmit timer.
KeepsRetransmitting ==
    "pending" \notin Env /\ Role = "UAS" /\ Invite
        /\ ~tsx.is_reliable /\ tsx.state = COMPLETED =>
        OnItsWay("retransmit")

----------------------------------------------------------------------------
(* Fairness: a thread that has started a callback finishes it, a timer that *)
(* is armed for good is fired some day, because the heap is polled for ever *)
(* and pops its entries in the order of their expiry, and a transport ends  *)
(* every send it has left pending.                                          *)

FairSpec ==
    /\ Spec
    /\ \A th \in Threads : WF_vars(Proceed(th))
    /\ \A e \in Timers : SF_vars(\E th \in conf.threads : pj_timer_heap_poll(th, e))
    /\ WF_vars(\E th \in conf.threads, err \in BOOLEAN : transport_callback(th, err))

\* A transaction that is over, and a non-INVITE client transaction from its start
\* whatever the server does, is destroyed after its user was told that it has
\* terminated.  (A posted transport error takes the place of the timer event that
\* moves the transaction on, and is dropped if the state is Terminated by then.)
EventuallyDestroyed ==
    ~MayPostError /\ (\/ tsx.state >= COMPLETED
                      \/ Role = "UAC" /\ ~Invite /\ tsx.state = CALLING)
        ~> ~Alive /\ TERMINATED \in tsx.told

============================================================================
