------------------------------ MODULE StunSess ------------------------------
(***************************************************************************)
(* The requests of a STUN session: the client transactions of              *)
(* pjnath/src/pjnath/stun_transaction.c, and the part of stun_session.c    *)
(* that creates, authenticates, completes, cancels and frees them.         *)
(*                                                                         *)
(* The session and its transactions share one group lock, so a function    *)
(* that takes it is one step.  What is not under it is the time between    *)
(* the expiry of a timer and its callback, and the first half of the       *)
(* callback that frees a request.                                          *)
(*                                                                         *)
(* A request, its transaction and its timers live in one memory pool.      *)
(***************************************************************************)
EXTENDS Integers, FiniteSets

CONSTANTS
    Reqs,           \* the pj_stun_tx_data that can be created
    NoReq,          \* no request
    Threads,        \* threads that poll timers and sockets, or call the API
    MaxTransmit,    \* PJ_STUN_MAX_TRANSMIT_COUNT, 7 in the source
    MaxAuthRetry,   \* the 3 of handle_auth_challenge()
    Nonces,         \* nonces the server may use
    NoNonce,        \* the empty next_nonce
    MaxManual,      \* bound: transmissions the user may ask for explicitly
    Configs         \* the sessions considered, see ConfigType

\* send_error  : on_send_msg() of the user may fail
\* pending     : on_send_msg() may return PJ_EPENDING
\* provisional : the server may answer with an ERROR-CODE of at most 200
\* malformed   : the server may leave out ERROR-CODE or NONCE
\* cancel      : the user may call pj_stun_session_cancel_req()
\* retransmit  : the user may call pj_stun_session_retransmit_req()
\* destroy     : the user may call pj_stun_session_destroy()
EnvEvents == {"send_error", "pending", "provisional", "malformed", "cancel",
              "retransmit", "destroy"}

\* Whether auth_type is PJ_STUN_AUTH_LONG_TERM, the values of the retransmit
\* argument (FALSE over TCP), what the environment may do, and the requests and
\* threads in use.
ConfigType == [long_term : BOOLEAN, retransmits : SUBSET BOOLEAN,
               env : SUBSET EnvEvents, reqs : SUBSET Reqs, threads : SUBSET Threads]

ASSUME StunAssumption ==
    /\ IsFiniteSet(Reqs) /\ NoReq \notin Reqs
    /\ IsFiniteSet(Threads)
    /\ MaxTransmit \in Nat /\ MaxAuthRetry \in Nat /\ MaxManual \in Nat
    /\ NoNonce \notin Nonces
    /\ Nonces \cap {"none", "success", "error", "provisional", "malformed"} = {}
    /\ Configs \subseteq ConfigType

Timers == {"retransmit", "destroy"}

VARIABLES
    conf,   \* the configuration, which never changes
    s,      \* the session and its requests
    thr     \* what each thread is doing

vars == <<conf, s, thr>>

LongTerm == conf.long_term
Env == conf.env

Idle == [pc |-> "idle", req |-> NoReq, timer |-> "retransmit"]

\* Fields of s, by the field of the source they stand for.  A flag of a
\* request is a set of requests, a timer id one of <<request, timer>>.
pj_stun_session_create ==
    [ref |-> 1,                             \* of grp_lock
     is_destroying |-> FALSE, gone |-> FALSE, \* gone: stun_sess_on_destroy() ran
     auth_retry |-> 0, next_nonce |-> NoNonce,
     created |-> {},                        \* tdata->pool exists
     freed |-> {},                          \* and has been released
     pending |-> {},                        \* pending_request_list
     client_tsx |-> {},                     \* tdata->client_tsx is set
     complete |-> {}, muted |-> {},         \* muted: cb.on_complete is NULL
     require_retransmit |-> {},
     transmit_count |-> [r \in Reqs |-> 0],
     token |-> [r \in Reqs |-> r],          \* the request the user knows it by
     heap |-> {}, id |-> {},                \* timers armed; with id set
     accepted |-> {},                       \* send_msg() returned PJ_SUCCESS
     cancelled |-> {},                      \* by the user
     told |-> [r \in Reqs |-> 0],           \* calls of on_request_complete()
     manual |-> 0,                          \* explicit retransmissions
     out |-> {}]                            \* requests sent in this step

Fresh(st) == [st EXCEPT !.out = {}]

----------------------------------------------------------------------------
(* Timers of a request.  An armed one holds a reference of the group lock. *)

pj_timer_heap_schedule_w_grp_lock(st, r, e) ==
    [st EXCEPT !.heap = @ \cup {<<r, e>>}, !.id = @ \cup {<<r, e>>}, !.ref = @ + 1]

\* Mutant: the reference of the timer is kept.
cancel_if_active_KeepsRef(st, r, e) ==
    [st EXCEPT !.heap = @ \ {<<r, e>>}, !.id = @ \ {<<r, e>>}]

pj_timer_heap_cancel_if_active(st, r, e) ==
    [st EXCEPT !.heap = @ \ {<<r, e>>}, !.id = @ \ {<<r, e>>},
               !.ref = IF <<r, e>> \in st.heap THEN @ - 1 ELSE @]

pj_stun_client_tsx_stop(st, r) ==
    pj_timer_heap_cancel_if_active(
        pj_timer_heap_cancel_if_active(st, r, "retransmit"), r, "destroy")

\* Mutant: on_complete() stays set.
schedule_destroy_Loud(st, r) ==
    pj_timer_heap_schedule_w_grp_lock(pj_stun_client_tsx_stop(st, r), r, "destroy")

pj_stun_client_tsx_schedule_destroy(st, r) ==
    [pj_timer_heap_schedule_w_grp_lock(pj_stun_client_tsx_stop(st, r), r, "destroy")
         EXCEPT !.muted = @ \cup {r}]

\* Mutant: the request is freed at once.
destroy_tdata_AtOnce(st, r, force) ==
    [st EXCEPT !.pending = @ \ {r}, !.freed = @ \cup {r}]

destroy_tdata(st, r, force) ==
    IF force
    THEN [pj_stun_client_tsx_stop(st, r) EXCEPT !.pending = @ \ {r}, !.freed = @ \cup {r}]
    ELSE IF r \in st.client_tsx
    THEN pj_stun_client_tsx_schedule_destroy(st, r)
    ELSE [st EXCEPT !.freed = @ \cup {r}]

----------------------------------------------------------------------------
(* Transmission.  o is what on_send_msg() of the user returns: "ok",        *)
(* "error" or "pending" (PJ_EPENDING, the packet is on its way).  A result  *)
(* is the new state and the status returned.                                *)

Sends == {"ok"} \cup (IF "send_error" \in Env THEN {"error"} ELSE {})
                \cup (IF "pending" \in Env THEN {"pending"} ELSE {})

Result(st, status) == [s |-> st, status |-> status]

\* Mutant: the transmission is not counted.
Counted_Uncounted(st, r) ==
    IF r \in st.require_retransmit
    THEN pj_timer_heap_schedule_w_grp_lock(st, r, "retransmit") ELSE st

\* The timer is armed and the transmission counted before anything is sent.
Counted(st, r) ==
    IF r \in st.require_retransmit
    THEN [pj_timer_heap_schedule_w_grp_lock(st, r, "retransmit")
              EXCEPT !.transmit_count[r] = @ + 1]
    ELSE [st EXCEPT !.transmit_count[r] = @ + 1]

\* stun_tsx_on_send_msg()
stun_tsx_on_send_msg(st, r, o) ==
    IF st.is_destroying THEN Result(st, "error")
    ELSE Result(IF o = "error" THEN st ELSE [st EXCEPT !.out = @ \cup {r}], o)

\* A transmission that failed stops the retransmissions.
Transmitted(res, r, mod_count) ==
    IF res.status = "ok" \/ ~mod_count THEN res
    ELSE Result(pj_timer_heap_cancel_if_active(res.s, r, "retransmit"), res.status)

tsx_transmit_msg(st, r, mod_count, o) ==
    IF mod_count /\ r \in st.require_retransmit /\ <<r, "retransmit">> \in st.heap
    THEN Result([st EXCEPT !.id = @ \ {<<r, "retransmit">>}], "error")
    ELSE Transmitted(stun_tsx_on_send_msg(IF mod_count THEN Counted(st, r) ELSE st, r, o),
                     r, mod_count)

\* Over a reliable transport the retransmit timer is used for the timeout.
Started(st, r, retransmit) ==
    IF retransmit THEN [st EXCEPT !.require_retransmit = @ \cup {r}]
    ELSE [pj_timer_heap_schedule_w_grp_lock(st, r, "retransmit")
              EXCEPT !.transmit_count[r] = MaxTransmit]

pj_stun_client_tsx_send_msg(st, r, retransmit, o) ==
    Transmitted(tsx_transmit_msg(Started(st, r, retransmit), r, TRUE, o), r, TRUE)

\* Whether the request goes to the pending list or is freed in a while.
Queued(res, r) ==
    IF res.status = "error" THEN destroy_tdata(res.s, r, FALSE)
    ELSE [res.s EXCEPT !.pending = @ \cup {r}]

\* pj_stun_session_send_msg() with a request, called with the lock held.
SendMsg(st, r, token, retransmit, o) ==
    Queued(pj_stun_client_tsx_send_msg(
               [st EXCEPT !.client_tsx = @ \cup {r}, !.token[r] = token],
               r, retransmit, o),
           r)

----------------------------------------------------------------------------
(* Completion.  A response is "success", "error" (any final error),         *)
(* "provisional", "malformed", or a challenge that carries a nonce.  q is   *)
(* the request created to answer a challenge.                               *)

\* The challenge is answered with a new request, unless the nonce is the one
\* just used or there have been too many.
Retried(st, resp) ==
    /\ LongTerm /\ resp \in Nonces \ {st.next_nonce}
    /\ st.auth_retry < MaxAuthRetry

\* handle_auth_challenge() without the new request.
auth_retry(st, resp) ==
    IF ~LongTerm \/ resp \in {"none", "malformed"} \/ resp = st.next_nonce
    THEN st.auth_retry
    ELSE IF resp \in Nonces THEN st.auth_retry + 1 ELSE 0

handle_auth_challenge(st, r, resp, q, o) ==
    IF Retried(st, resp)
    THEN SendMsg([st EXCEPT !.auth_retry = auth_retry(st, resp), !.next_nonce = resp,
                            !.created = @ \cup {q}],
                 q, st.token[r], r \in st.require_retransmit, o)
    ELSE [st EXCEPT !.auth_retry = auth_retry(st, resp)]

\* Whether the user is told: not of a challenge that is answered, nor of a
\* response that lacks what it must have.
notify_user(st, resp) == ~Retried(st, resp) /\ ~(LongTerm /\ resp = "malformed")

on_request_complete(st, r) == [st EXCEPT !.told[st.token[r]] = @ + 1]

\* Mutant: the user is told nothing when the answer is an error.
stun_tsx_on_complete_Quiet(st, r, status, resp, q, o) ==
    IF st.is_destroying THEN destroy_tdata(st, r, FALSE)
    ELSE IF resp = "error" THEN destroy_tdata(st, r, FALSE)
    ELSE destroy_tdata(IF notify_user(st, resp)
                       THEN on_request_complete(handle_auth_challenge(st, r, resp, q, o), r)
                       ELSE handle_auth_challenge(st, r, resp, q, o),
                       r, status = "timeout")

stun_tsx_on_complete(st, r, status, resp, q, o) ==
    IF st.is_destroying THEN destroy_tdata(st, r, FALSE)
    ELSE destroy_tdata(IF notify_user(st, resp)
                       THEN on_request_complete(handle_auth_challenge(st, r, resp, q, o), r)
                       ELSE handle_auth_challenge(st, r, resp, q, o),
                       r, status = "timeout")

\* if (!tsx->complete) { ... }, common to the three places that complete.
Complete(st, r, status, resp, q, o) ==
    IF r \in st.complete THEN st
    ELSE IF r \in st.muted THEN [st EXCEPT !.complete = @ \cup {r}]
    ELSE stun_tsx_on_complete([st EXCEPT !.complete = @ \cup {r}], r, status, resp, q, o)
----------------------------------------------------------------------------
(* The last reference: stun_sess_on_destroy() frees what is still pending.  *)

stun_sess_on_destroy(st) ==
    [st EXCEPT !.gone = TRUE, !.freed = @ \cup st.pending, !.pending = {}]

\* Mutant: a session with pending requests is not destroyed.
Released_IfEmpty(st) ==
    IF st.ref = 0 /\ ~st.gone /\ st.pending = {} THEN stun_sess_on_destroy(st) ELSE st

Released(st) == IF st.ref = 0 /\ ~st.gone THEN stun_sess_on_destroy(st) ELSE st

pj_grp_lock_dec_ref(st) == Released([st EXCEPT !.ref = @ - 1])

Goto(th, r) == thr' = [thr EXCEPT ![th] = r] /\ UNCHANGED conf
At(th, pc) == thr[th].pc = pc
SomeoneIdle == \E th \in conf.threads : At(th, "idle")

----------------------------------------------------------------------------
(* The user.                                                                *)

UserCalls == SomeoneIdle /\ ~s.is_destroying

\* The next request to be allocated: their names do not matter.
NewReq == CHOOSE r \in conf.reqs \ s.created : TRUE

pj_stun_session_create_req(r) ==
    /\ UserCalls /\ r \in conf.reqs \ s.created /\ r = NewReq
    /\ s' = [Fresh(s) EXCEPT !.created = @ \cup {r}]
    /\ UNCHANGED <<conf, thr>>

Unsent(r) == r \in s.created /\ r \notin s.client_tsx /\ r \notin s.freed

\* pj_stun_msg_destroy_tdata() of a request that is not going to be sent.
pj_stun_msg_destroy_tdata(r) ==
    /\ SomeoneIdle /\ Unsent(r) /\ ~s.gone
    /\ s' = destroy_tdata(Fresh(s), r, FALSE)
    /\ UNCHANGED <<conf, thr>>

Accept(st, r) == IF r \in st.pending THEN [st EXCEPT !.accepted = @ \cup {r}] ELSE st

pj_stun_session_send_msg(r, retransmit, o) ==
    /\ UserCalls /\ Unsent(r)
    /\ s' = Accept(SendMsg(Fresh(s), r, r, retransmit, o), r)
    /\ UNCHANGED <<conf, thr>>

\* The user has an outstanding request, and its tdata, until it is told that
\* it is complete or cancels it.
Holds(r) == r \in s.accepted /\ s.told[r] = 0 /\ r \notin s.cancelled

\* The user is restricted to requests that were not freed, here and in
\* pj_stun_session_retransmit_req(): one that was challenged is freed after its
\* retry has taken its place, and the source would then use memory that is gone.
pj_stun_session_cancel_req(r, notify) ==
    /\ UserCalls /\ "cancel" \in Env
    /\ Holds(r) /\ r \notin s.freed
    /\ s' = destroy_tdata(
                [IF notify THEN on_request_complete(Fresh(s), r) ELSE Fresh(s)
                     EXCEPT !.cancelled = @ \cup {r}],
                r, FALSE)
    /\ UNCHANGED <<conf, thr>>

pj_stun_client_tsx_retransmit(st, r, mod_count, o) ==
    IF <<r, "destroy">> \in st.id THEN st
    ELSE tsx_transmit_msg(
             IF mod_count THEN pj_timer_heap_cancel_if_active(st, r, "retransmit") ELSE st,
             r, mod_count, o).s

pj_stun_session_retransmit_req(r, mod_count, o) ==
    /\ UserCalls /\ "retransmit" \in Env /\ s.manual < MaxManual
    /\ Holds(r) /\ r \notin s.freed
    /\ s' = pj_stun_client_tsx_retransmit([Fresh(s) EXCEPT !.manual = @ + 1],
                                          r, mod_count, o)
    /\ UNCHANGED <<conf, thr>>

\* Every pending transaction is stopped, and the reference of the session
\* dropped.
StopAll(st, stopped) ==
    [st EXCEPT !.heap = @ \ stopped, !.id = @ \ (st.pending \X Timers),
               !.ref = @ - Cardinality(stopped)]

pj_stun_session_destroy ==
    /\ UserCalls /\ "destroy" \in Env
    /\ s' = pj_grp_lock_dec_ref(
                StopAll([Fresh(s) EXCEPT !.is_destroying = TRUE],
                        s.heap \cap (s.pending \X Timers)))
    /\ UNCHANGED <<conf, thr>>

----------------------------------------------------------------------------
(* The threads.                                                             *)

\* An expired timer is taken off the heap with its reference.
pj_timer_heap_poll(th, r, e) ==
    /\ th \in conf.threads /\ At(th, "idle") /\ <<r, e>> \in s.heap
    /\ s' = [Fresh(s) EXCEPT !.heap = @ \ {<<r, e>>}]
    /\ Goto(th, [pc |-> "fired", req |-> r, timer |-> e])

ClearId(st, r, e) == [st EXCEPT !.id = @ \ {<<r, e>>}]

\* What is left of retransmit_timer_callback() after the transmission.
Retransmitted(res, r, o) ==
    IF res.status = "ok" THEN res.s
    ELSE Complete(ClearId(res.s, r, "retransmit"), r, res.status, "none", NoReq, o)

RetransmitOrTimeout(st, r, o) ==
    IF st.transmit_count[r] >= MaxTransmit
    THEN Complete(ClearId(st, r, "retransmit"), r, "timeout", "none", NoReq, o)
    ELSE Retransmitted(tsx_transmit_msg(ClearId(st, r, "retransmit"), r, TRUE, o), r, o)

retransmit_timer_callback(th, o) ==
    /\ At(th, "fired") /\ thr[th].timer = "retransmit"
    /\ s' = pj_grp_lock_dec_ref(RetransmitOrTimeout(Fresh(s), thr[th].req, o))
    /\ Goto(th, Idle)

\* destroy_timer_callback() and stun_tsx_on_destroy() up to the lock ...
destroy_timer_callback(th) ==
    /\ At(th, "fired") /\ thr[th].timer = "destroy"
    /\ s' = pj_stun_client_tsx_stop(ClearId(Fresh(s), thr[th].req, "destroy"), thr[th].req)
    /\ Goto(th, [thr[th] EXCEPT !.pc = "erase"])

\* ... and under it.
stun_tsx_on_destroy(th) ==
    /\ At(th, "erase")
    /\ s' = pj_grp_lock_dec_ref([Fresh(s) EXCEPT !.pending = @ \ {thr[th].req},
                                                 !.freed = @ \cup {thr[th].req}])
    /\ Goto(th, Idle)

pj_stun_client_tsx_on_rx_msg(st, r, resp, q, o) ==
    IF resp = "provisional" THEN pj_timer_heap_cancel_if_active(st, r, "retransmit")
    ELSE Complete(pj_timer_heap_cancel_if_active(st, r, "retransmit"),
                  r, "response", resp, q, o)

Responses == {"success", "error"} \cup (IF LongTerm THEN Nonces ELSE {})
             \cup (Env \cap {"provisional", "malformed"})

\* pj_stun_session_on_rx_pkt() with a response, which may arrive any number of
\* times: only a pending request is found.
on_incoming_response(r, resp, q, o) ==
    /\ UserCalls /\ r \in s.pending
    /\ IF Retried(s, resp) /\ r \notin s.complete \cup s.muted
       THEN q \in conf.reqs \ s.created /\ q = NewReq ELSE q = NoReq
    /\ s' = pj_stun_client_tsx_on_rx_msg(Fresh(s), r, resp, q, o)
    /\ UNCHANGED <<conf, thr>>

----------------------------------------------------------------------------

Init == conf \in Configs /\ s = pj_stun_session_create /\ thr = [th \in Threads |-> Idle]

UserStep(r) ==
    \/ pj_stun_session_create_req(r)
    \/ pj_stun_msg_destroy_tdata(r)
    \/ \E retransmit \in conf.retransmits, o \in Sends :
          pj_stun_session_send_msg(r, retransmit, o)
    \/ \E notify \in BOOLEAN : pj_stun_session_cancel_req(r, notify)
    \/ \E mod_count \in BOOLEAN, o \in Sends :
          pj_stun_session_retransmit_req(r, mod_count, o)
    \/ \E resp \in Responses, q \in Reqs \cup {NoReq}, o \in Sends :
          on_incoming_response(r, resp, q, o)

Proceed(th) ==
    \/ \E o \in Sends : retransmit_timer_callback(th, o)
    \/ destroy_timer_callback(th)
    \/ stun_tsx_on_destroy(th)

\* The session is gone, and with it everything that can happen.
Finished ==
    /\ s.gone /\ \A th \in Threads : At(th, "idle")
    /\ UNCHANGED vars

Next ==
    \/ \E r \in Reqs : UserStep(r)
    \/ pj_stun_session_destroy
    \/ \E th \in Threads, r \in Reqs, e \in Timers : pj_timer_heap_poll(th, r, e)
    \/ \E th \in Threads : Proceed(th)
    \/ Finished

Spec == Init /\ [][Next]_vars
----------------------------------------------------------------------------
(* Properties.                                                              *)

SType ==
    [ref : Int, is_destroying : BOOLEAN, gone : BOOLEAN, auth_retry : Nat,
     next_nonce : Nonces \cup {NoNonce}, created : SUBSET Reqs, freed : SUBSET Reqs,
     pending : SUBSET Reqs, client_tsx : SUBSET Reqs, complete : SUBSET Reqs,
     muted : SUBSET Reqs, require_retransmit : SUBSET Reqs,
     transmit_count : [Reqs -> Nat], token : [Reqs -> Reqs],
     heap : SUBSET (Reqs \X Timers), id : SUBSET (Reqs \X Timers),
     accepted : SUBSET Reqs, cancelled : SUBSET Reqs, told : [Reqs -> Nat],
     manual : Nat, out : SUBSET Reqs]

\* A thread is idle, or runs the callback of a timer of a request.
ThrType == {Idle} \cup [pc : {"fired", "erase"}, req : Reqs, timer : Timers]

\* The session, its requests and the threads keep their types.
TypeOK == s \in SType /\ thr \in [Threads -> ThrType]

\* The configurations in which the source keeps its promises.
Alone == Cardinality(conf.threads) = 1
NoCancelledRetry == ~(LongTerm /\ "cancel" \in Env)
NoSilentEnd == LongTerm => "malformed" \notin Env /\ "send_error" \notin Env
KeepsTimer == /\ Env \cap {"provisional", "pending"} = {}
              /\ "retransmit" \in Env => FALSE \notin conf.retransmits

One(b) == IF b THEN 1 ELSE 0
Holders == {th \in Threads : ~At(th, "idle")}

\* The group lock counts one reference of the session until it is destroyed,
\* one per armed timer and one per callback in progress: the session is freed
\* neither under a callback nor, once these are over, never.
RefCounted == s.ref = One(~s.is_destroying) + Cardinality(s.heap) + Cardinality(Holders)

\* on_request_complete() is called at most once for a request of the user,
\* whatever responses, timeouts, challenges and cancellation race for it.
\* (pj_stun_session_cancel_req() cancels a request that has been challenged,
\* and not its retry, which completes once more.)
ToldOnce == NoCancelledRetry => \A r \in Reqs : s.told[r] <= 1

\* A request the user waits for is not forgotten: some pending request that
\* can still complete carries its token.  (handle_auth_challenge() is silent
\* about a malformed challenge and about a retry that cannot be sent.)
NotForgotten ==
    NoSilentEnd =>
    \A r \in Reqs : Holds(r) /\ ~s.is_destroying =>
        \E q \in s.pending \ (s.complete \cup s.muted) : s.token[q] = r

\* Timer e of request r is armed, or its callback is about to run.
OnItsWay(r, e) ==
    \/ <<r, e>> \in s.heap
    \/ \E th \in Threads : thr[th].req = r /\ thr[th].timer = e /\ ~At(th, "idle")

\* "on_request_complete() is called with a response or when the internal timer
\* [...] has timed-out": a request that is pending has a timer that will time
\* out.
TimesOut ==
    \A r \in s.pending \ (s.complete \cup s.muted) :
        ~s.is_destroying => OnItsWay(r, "retransmit")

\* The memory of a request outlives its armed timers and their callbacks.  (With
\* a second thread, a callback may wait for the lock while the request is freed.)
NoUseAfterFree == Alone =>
    /\ \A r \in Reqs, e \in Timers : <<r, e>> \in s.heap => r \notin s.freed
    /\ \A th \in Holders : thr[th].req \notin s.freed

----------------------------------------------------------------------------
(* Fairness: a thread finishes the callback it has started, and the heap is *)
(* polled for ever.                                                         *)

FairSpec ==
    /\ Spec
    /\ \A th \in Threads : WF_vars(Proceed(th))
    /\ \A r \in Reqs, e \in Timers : SF_vars(\E th \in Threads : pj_timer_heap_poll(th, r, e))

\* Every request the user sends is answered for in the end.
EventuallyTold ==
    \A r \in Reqs : KeepsTimer /\ NoSilentEnd /\ r \in s.accepted ~> ~Holds(r) \/ s.is_destroying

\* A session that is destroyed goes away, and nothing that was allocated for its
\* requests outlives it but what the user created and did not send.
EventuallyGone == s.is_destroying ~> s.gone /\ s.client_tsx \subseteq s.freed

============================================================================
