------------------------------ MODULE Transport ------------------------------
(***************************************************************************)
(* SIP transports: the manager of sip_transport.c (references, the idle    *)
(* timer, registration, shutdown, destruction) with the TCP transport of   *)
(* sip_transport_tcp.c (asynchronous connection, transmissions delayed     *)
(* until it is there, disconnection, keep-alive).                          *)
(*                                                                         *)
(* A thread works off its list todo of steps; a call puts the steps of the *)
(* function it makes in front.  A step is what happens inside one lock, or *)
(* between two operations that other threads can see.  With one thread in  *)
(* conf.threads the program is the usual one that polls the endpoint and   *)
(* makes all its calls from one thread; with more, any thread may be in    *)
(* any of these functions.                                                 *)
(***************************************************************************)
EXTENDS Integers, Sequences, FiniteSets

CONSTANTS
    Tps, NoTp,        \* transports
    Keys,             \* keys of the hash table: type and remote address
    Msgs, NoMsg,      \* transmit data
    Threads, NoThread,
    MaxUsers,         \* bound: references held by users of a transport
    Configs           \* see Init

ASSUME TransportAssumption ==
    /\ NoTp \notin Tps /\ NoMsg \notin Msgs /\ NoThread \notin Threads
    /\ MaxUsers \in Nat /\ Keys # {}
    /\ \A c \in Configs : IsFiniteSet(c.threads) /\ c.threads \subseteq Threads

VARIABLES
    conf,      \* how the environment behaves
    tp,        \* pjsip_transport and tcp_transport
    table,     \* the hash table of the manager
    tp_list,   \* its list of replaced transports
    mgr_lock,  \* who has the lock of the manager
    todo,      \* the steps the threads are going to take
    users,     \* references held outside of the functions modelled here
    msg        \* transmit data: whether they are pending, and with whom

vars == <<conf, tp, table, tp_list, mgr_lock, todo, users, msg>>

Step(name, t, m) == [do |-> name, t |-> t, m |-> m]
S(name, t) == Step(name, t, NoMsg)

\* A thread begins a call, or goes on from step `name' with others.
Begin(th, steps) == /\ todo[th] = <<>>
                    /\ th \in conf.threads
                    /\ todo' = [todo EXCEPT ![th] = steps]
At(th, name, t, m) == todo[th] # <<>> /\ Head(todo[th]) = Step(name, t, m)
Continue(th, steps) == todo' = [todo EXCEPT ![th] = steps \o Tail(@)]

\* How often a step is on the lists of the threads.
Planned(step) == Cardinality(UNION {{<<th, i>> : i \in {j \in DOMAIN todo[th] : todo[th][j] = step}}
                                    : th \in Threads})

LockFree(th) == mgr_lock \in {NoThread, th}
\* The lock of the transport matters where a message is being delayed.
TpLockFree(th, t) == \A x \in Threads \ {th}, m \in Msgs : ~At(x, "delay", t, m)

Alive(t) == tp[t].life = "live"
Closing(t) == tp[t].is_shutdown \/ tp[t].is_destroying

-----------------------------------------------------------------------------
(***************************************************************************)
(* The manager.                                                            *)
(***************************************************************************)
\* pjsip_transport_add_ref: the counter, and under the lock the timer.
add_ref(th, t) ==
    /\ At(th, "add_ref", t, NoMsg)
    /\ tp' = [tp EXCEPT ![t].ref_cnt = @ + 1, ![t].used = TRUE]
    /\ Continue(th, IF tp[t].ref_cnt = 0 THEN <<S("cancel_idle", t)>> ELSE <<>>)
    /\ UNCHANGED <<conf, table, tp_list, mgr_lock, users, msg>>

\* Mutant: the idle timer goes on for a transport that is used again.
cancel_idle_Forgotten(th, t) ==
    /\ At(th, "cancel_idle", t, NoMsg) /\ LockFree(th)
    /\ Continue(th, <<>>)
    /\ UNCHANGED <<conf, tp, table, tp_list, mgr_lock, users, msg>>

cancel_idle(th, t) ==
    /\ At(th, "cancel_idle", t, NoMsg) /\ LockFree(th)
    /\ tp' = IF tp[t].ref_cnt = 1 /\ tp[t].id
             THEN [tp EXCEPT ![t].id = FALSE, ![t].armed = FALSE] ELSE tp
    /\ Continue(th, <<>>)
    /\ UNCHANGED <<conf, table, tp_list, mgr_lock, users, msg>>

\* pjsip_transport_dec_ref.
dec_ref(th, t) ==
    /\ At(th, "dec_ref", t, NoMsg)
    /\ tp' = [tp EXCEPT ![t].ref_cnt = @ - 1]
    /\ Continue(th, IF tp[t].ref_cnt = 1 THEN <<S("start_idle", t)>> ELSE <<>>)
    /\ UNCHANGED <<conf, table, tp_list, mgr_lock, users, msg>>

start_idle(th, t) ==
    /\ At(th, "start_idle", t, NoMsg) /\ LockFree(th)
    /\ tp' = IF tp[t].ref_cnt = 0 /\ ~tp[t].is_destroying
             THEN [tp EXCEPT ![t].id = TRUE, ![t].armed = TRUE] ELSE tp
    /\ Continue(th, <<>>)
    /\ UNCHANGED <<conf, table, tp_list, mgr_lock, users, msg>>

unlock(th) ==
    /\ At(th, "unlock", NoTp, NoMsg)
    /\ mgr_lock' = NoThread
    /\ Continue(th, <<>>)
    /\ UNCHANGED <<conf, tp, table, tp_list, users, msg>>

\* The idle timer is taken from the heap, and its callback runs.
idle_expires(th, t) ==
    /\ tp[t].armed
    /\ Begin(th, <<S("idle_callback", t)>>)
    /\ tp' = [tp EXCEPT ![t].armed = FALSE]
    /\ UNCHANGED <<conf, table, tp_list, mgr_lock, users, msg>>

transport_idle_callback(th, t) ==
    /\ At(th, "idle_callback", t, NoMsg)
    /\ tp' = [tp EXCEPT ![t].id = FALSE]
    /\ Continue(th, <<S("destroy", t)>>)
    /\ UNCHANGED <<conf, table, tp_list, mgr_lock, users, msg>>

pjsip_transport_destroy(th, t) ==
    /\ At(th, "destroy", t, NoMsg)
    /\ Continue(th, IF tp[t].ref_cnt = 0 THEN <<S("destroy_transport", t)>> ELSE <<>>)
    /\ UNCHANGED <<conf, tp, table, tp_list, mgr_lock, users, msg>>

\* Mutant: a transport that was replaced stays in the list.
Unlisted_TableOnly(t) ==
    /\ table' = [k \in Keys |-> IF table[k] = t THEN NoTp ELSE table[k]]
    /\ UNCHANGED tp_list

\* The transport leaves the table if it is the one found there, or else the list.
Unlisted(t) == IF table[tp[t].key] = t
               THEN table' = [table EXCEPT ![tp[t].key] = NoTp] /\ UNCHANGED tp_list
               ELSE tp_list' = tp_list \ {t} /\ UNCHANGED table

destroy_transport(th, t) ==
    /\ At(th, "destroy_transport", t, NoMsg) /\ LockFree(th) /\ TpLockFree(th, t)
    /\ tp' = [tp EXCEPT ![t].is_destroying = TRUE, ![t].id = FALSE,
                        ![t].armed = @ /\ ~tp[t].id]
    /\ Unlisted(t)
    /\ Continue(th, <<S("tcp_destroy", t)>>)
    /\ UNCHANGED <<conf, mgr_lock, users, msg>>

\* A transport nobody uses starts its timer by being used for a moment.
pjsip_transport_shutdown(th, t) ==
    /\ At(th, "shutdown", t, NoMsg) /\ LockFree(th) /\ TpLockFree(th, t)
    /\ IF tp[t].is_shutdown THEN Continue(th, <<>>) /\ UNCHANGED <<tp, mgr_lock>>
       ELSE /\ tp' = [tp EXCEPT ![t].is_shutdown = TRUE, ![t].ka = FALSE]
            /\ IF tp[t].ref_cnt = 0
               THEN /\ mgr_lock' = th
                    /\ Continue(th, <<S("add_ref", t), S("dec_ref", t), S("unlock", NoTp)>>)
               ELSE UNCHANGED mgr_lock /\ Continue(th, <<>>)
    /\ UNCHANGED <<conf, table, tp_list, users, msg>>

\* pjsip_transport_register: the transport that was there is kept in the list.
Register(t, k) == /\ table' = [table EXCEPT ![k] = t]
                  /\ tp_list' = IF table[k] # NoTp THEN tp_list \cup {table[k]} ELSE tp_list

Unused == [life |-> "none", key |-> CHOOSE k \in Keys : TRUE, ref_cnt |-> 0, id |-> FALSE,
           armed |-> FALSE, is_shutdown |-> FALSE, is_destroying |-> FALSE,
           has_pending_connect |-> FALSE, ka |-> FALSE,
           delayed |-> <<>>, ioq |-> {}, reading |-> FALSE, used |-> FALSE]

\* tcp_create.
Create(t, k, connecting, reading) ==
    /\ t \in conf.tps /\ tp[t].life = "none"
    /\ tp' = [tp EXCEPT ![t] = [Unused EXCEPT !.life = "live", !.key = k,
                                              !.has_pending_connect = connecting,
                                              !.reading = reading]]
    /\ Register(t, k)

\* on_connect_complete: there is a connection, or one that cannot be read, or none.
AfterConnect(t, result) == CASE result = "connected" -> <<S("flush", t), S("start_ka", t)>>
                             [] result = "unreadable" -> <<S("init_shutdown", t)>>
                             [] result = "failed" -> <<S("cancel_delayed", t)>>

Found(k) == table[k] # NoTp /\ ~tp[table[k]].is_shutdown

\* There is a user more.
MayJoin(t) == users[t] + Planned(S("hold", t)) < MaxUsers
hold(th, t) ==
    /\ At(th, "hold", t, NoMsg)
    /\ users' = [users EXCEPT ![t] = @ + 1]
    /\ Continue(th, <<>>)
    /\ UNCHANGED <<conf, tp, table, tp_list, mgr_lock, msg>>

\* pjsip_tpmgr_acquire_transport, for a new user: a transport to that address, or
\* one that begins to connect, or connects at once (lis_create_transport).
acquire_transport(th, k) ==
    /\ LockFree(th)
    /\ \/ /\ Found(k) /\ MayJoin(table[k])
          /\ Begin(th, <<S("add_ref", table[k]), S("unlock", NoTp), S("hold", table[k])>>)
          /\ UNCHANGED <<tp, table, tp_list>>
       \/ /\ ~Found(k)
          /\ \E t \in Tps, result \in {"pending", "connected", "unreadable"} :
                /\ Create(t, k, result = "pending", result = "connected")
                /\ Begin(th, (IF result = "pending" THEN <<>> ELSE AfterConnect(t, result))
                             \o <<S("add_ref", t), S("unlock", NoTp), S("hold", t)>>)
    /\ mgr_lock' = th
    /\ UNCHANGED <<conf, users, msg>>

\* The connection is refused at once: the new transport is destroyed again.
acquire_fails(th, k) ==
    /\ LockFree(th)
    /\ ~Found(k)
    /\ \E t \in Tps : /\ Create(t, k, TRUE, FALSE)
                      /\ Begin(th, <<S("destroy", t), S("unlock", NoTp)>>)
    /\ mgr_lock' = th
    /\ UNCHANGED <<conf, users, msg>>

\* A user keeps a reference to the transport a message came by, or gives one up.
use_transport(th, t) ==
    /\ Alive(t) /\ tp[t].reading
    /\ MayJoin(t)
    /\ Begin(th, <<S("add_ref", t), S("hold", t)>>)
    /\ UNCHANGED <<conf, tp, table, tp_list, mgr_lock, users, msg>>

\* A message of t is pending, and not because its send is about to return an error.
Waiting(t) == \E m \in Msgs : msg[m].pending /\ msg[m].t = t /\ Planned(Step("sent", t, m)) = 0

\* Who sends a message keeps the transport until the message is reported.
MayLeave(t) == users[t] > 0 /\ (users[t] = 1 => ~Waiting(t))

release_transport(th, t) ==
    /\ MayLeave(t)
    /\ Begin(th, <<S("dec_ref", t)>>)
    /\ users' = [users EXCEPT ![t] = @ - 1]
    /\ UNCHANGED <<conf, tp, table, tp_list, mgr_lock, msg>>

-----------------------------------------------------------------------------
(***************************************************************************)
(* TCP.                                                                    *)
(***************************************************************************)
\* transport_send_callback: the sender is told, and may send the message again.
Reported(m) == msg' = [msg EXCEPT ![m].pending = FALSE]

\* pjsip_transport_send, by a user.
pjsip_transport_send(th, t, m) ==
    /\ m \in conf.msgs /\ users[t] > 0 /\ ~msg[m].pending
    /\ \A x \in Threads : \A i \in DOMAIN todo[x] : todo[x][i].m # m
    /\ Begin(th, <<S("add_ref", t), Step("send_msg", t, m), S("dec_ref", t)>>)
    /\ UNCHANGED <<conf, tp, table, tp_list, mgr_lock, users, msg>>

\* tcp_send_msg: while connecting, the lock of the transport is held until the
\* message is in the list.
tcp_send_msg(th, t, m) ==
    /\ At(th, "send_msg", t, m)
    /\ msg' = [msg EXCEPT ![m] = [pending |-> TRUE, t |-> t]]
    /\ Continue(th, <<Step(IF tp[t].has_pending_connect THEN "delay" ELSE "asock_send", t, m)>>)
    /\ UNCHANGED <<conf, tp, table, tp_list, mgr_lock, users>>

delay_tdata(th, t, m) ==
    /\ At(th, "delay", t, m)
    /\ tp' = [tp EXCEPT ![t].delayed = Append(@, m)]
    /\ Continue(th, <<>>)
    /\ UNCHANGED <<conf, table, tp_list, mgr_lock, users, msg>>

\* The socket takes the message, at once or later, or fails: then the transport is
\* shut down before the send returns.
asock_send(th, t, m) ==
    /\ At(th, "asock_send", t, m)
    /\ \/ /\ tp' = [tp EXCEPT ![t].ioq = @ \cup {m}]
          /\ Continue(th, <<>>) /\ UNCHANGED msg
       \/ Continue(th, <<>>) /\ Reported(m) /\ UNCHANGED tp
       \/ Continue(th, <<S("init_shutdown", t), Step("sent", t, m)>>) /\ UNCHANGED <<tp, msg>>
    /\ UNCHANGED <<conf, table, tp_list, mgr_lock, users>>

send_returns(th, t, m) ==
    /\ At(th, "sent", t, m)
    /\ Reported(m)
    /\ Continue(th, <<>>)
    /\ UNCHANGED <<conf, tp, table, tp_list, mgr_lock, users>>

\* Mutant: the reference is not given back.
tcp_init_shutdown_Kept(th, t) ==
    /\ At(th, "init_shutdown", t, NoMsg)
    /\ Continue(th, IF Closing(t) THEN <<>>
                    ELSE <<S("add_ref", t), S("state_cb", t), S("check_again", t)>>)
    /\ UNCHANGED <<conf, tp, table, tp_list, mgr_lock, users, msg>>

\* tcp_init_shutdown: the listeners of the transport are told, then it is shut
\* down, and lives at least until then.
tcp_init_shutdown(th, t) ==
    /\ At(th, "init_shutdown", t, NoMsg)
    /\ Continue(th, IF Closing(t) THEN <<>>
                    ELSE <<S("add_ref", t), S("state_cb", t), S("check_again", t), S("dec_ref", t)>>)
    /\ UNCHANGED <<conf, tp, table, tp_list, mgr_lock, users, msg>>

\* In the callback the application may shut the transport down, or a user leave.
state_cb(th, t) ==
    /\ At(th, "state_cb", t, NoMsg)
    /\ \/ Continue(th, <<>>) /\ UNCHANGED users
       \/ Continue(th, <<S("shutdown", t)>>) /\ UNCHANGED users
       \/ /\ MayLeave(t)
          /\ Continue(th, <<S("dec_ref", t)>>)
          /\ users' = [users EXCEPT ![t] = @ - 1]
    /\ UNCHANGED <<conf, tp, table, tp_list, mgr_lock, msg>>

\* Mutant: the transport is destroyed at once.
check_again_Destroys(th, t) ==
    /\ At(th, "check_again", t, NoMsg)
    /\ Continue(th, IF Closing(t) THEN <<>> ELSE <<S("destroy_transport", t)>>)
    /\ UNCHANGED <<conf, tp, table, tp_list, mgr_lock, users, msg>>

check_again(th, t) ==
    /\ At(th, "check_again", t, NoMsg)
    /\ Continue(th, IF Closing(t) THEN <<>> ELSE <<S("shutdown", t)>>)
    /\ UNCHANGED <<conf, tp, table, tp_list, mgr_lock, users, msg>>

on_connect_complete(th, t, result) ==
    /\ Alive(t) /\ tp[t].has_pending_connect
    /\ result = "unreadable" => conf.cutoff
    /\ tp' = [tp EXCEPT ![t].has_pending_connect = FALSE,
                        ![t].reading = ~Closing(t) /\ result = "connected"]
    /\ Begin(th, IF Closing(t) THEN <<>> ELSE AfterConnect(t, result))
    /\ UNCHANGED <<conf, table, tp_list, mgr_lock, users, msg>>

\* The messages that were delayed get an error, which shuts the transport down.
cancel_delayed(th, t) ==
    /\ At(th, "cancel_delayed", t, NoMsg)
    /\ IF tp[t].delayed = <<>> THEN Continue(th, <<S("init_shutdown", t)>>) /\ UNCHANGED <<tp, msg>>
       ELSE /\ tp' = [tp EXCEPT ![t].delayed = Tail(@)]
            /\ Reported(Head(tp[t].delayed))
            /\ Continue(th, <<S("init_shutdown", t), S("cancel_delayed", t)>>)
    /\ UNCHANGED <<conf, table, tp_list, mgr_lock, users>>

\* tcp_flush_pending_tx: a message that was delayed for too long is dropped.
FlushOne(th, t, m) ==
    \/ /\ conf.expires
       /\ tp' = [tp EXCEPT ![t].delayed = Tail(@)]
       /\ Continue(th, <<S("flush", t)>>) /\ UNCHANGED msg
    \/ /\ tp' = [tp EXCEPT ![t].delayed = Tail(@), ![t].ioq = @ \cup {m}]
       /\ Continue(th, <<S("flush", t)>>) /\ UNCHANGED msg
    \/ /\ tp' = [tp EXCEPT ![t].delayed = Tail(@)]
       /\ Continue(th, <<S("flush", t)>>) /\ Reported(m)
    \/ /\ tp' = [tp EXCEPT ![t].delayed = Tail(@)]
       /\ Continue(th, <<S("init_shutdown", t), S("flush", t)>>) /\ Reported(m)

\* Mutant: only the first delayed message is sent.
tcp_flush_pending_tx_One(th, t) ==
    /\ At(th, "flush", t, NoMsg) /\ TpLockFree(th, t)
    /\ IF tp[t].delayed = <<>> THEN Continue(th, <<>>) /\ UNCHANGED <<tp, msg>>
       ELSE /\ tp' = [tp EXCEPT ![t].delayed = Tail(@)]
            /\ Continue(th, <<>>)
            /\ Reported(Head(tp[t].delayed))
    /\ UNCHANGED <<conf, table, tp_list, mgr_lock, users>>

tcp_flush_pending_tx(th, t) ==
    /\ At(th, "flush", t, NoMsg) /\ TpLockFree(th, t)
    /\ IF tp[t].delayed = <<>> THEN Continue(th, <<>>) /\ UNCHANGED <<tp, msg>>
                               ELSE FlushOne(th, t, Head(tp[t].delayed))
    /\ UNCHANGED <<conf, table, tp_list, mgr_lock, users>>

start_keep_alive(th, t) ==
    /\ At(th, "start_ka", t, NoMsg)
    /\ tp' = [tp EXCEPT ![t].ka = TRUE]
    /\ Continue(th, <<>>)
    /\ UNCHANGED <<conf, table, tp_list, mgr_lock, users, msg>>

\* A message that the socket took is sent, or fails.
on_data_sent(th, t, m, ok) ==
    /\ Alive(t) /\ m \in tp[t].ioq
    /\ tp' = [tp EXCEPT ![t].ioq = @ \ {m}]
    /\ Reported(m)
    /\ Begin(th, IF ok THEN <<>> ELSE <<S("init_shutdown", t)>>)
    /\ UNCHANGED <<conf, table, tp_list, mgr_lock, users>>

\* on_data_read, when the peer has closed.
disconnected(th, t) ==
    /\ Alive(t) /\ tp[t].reading
    /\ Begin(th, <<S("init_shutdown", t)>>)
    /\ tp' = [tp EXCEPT ![t].reading = FALSE]
    /\ UNCHANGED <<conf, table, tp_list, mgr_lock, users, msg>>

keep_alive_expires(th, t) ==
    /\ tp[t].ka
    /\ Begin(th, <<S("keep_alive", t)>>)
    /\ tp' = [tp EXCEPT ![t].ka = FALSE]
    /\ UNCHANGED <<conf, table, tp_list, mgr_lock, users, msg>>

tcp_keep_alive_timer(th, t) ==
    /\ At(th, "keep_alive", t, NoMsg)
    /\ \/ tp' = [tp EXCEPT ![t].ka = TRUE] /\ Continue(th, <<>>)
       \/ UNCHANGED tp /\ Continue(th, <<S("init_shutdown", t)>>)
    /\ UNCHANGED <<conf, table, tp_list, mgr_lock, users, msg>>

\* What was delayed gets an error; what the socket took is forgotten with it.
Closed(r) == [r EXCEPT !.life = "closed", !.delayed = <<>>, !.ioq = {},
                       !.reading = FALSE, !.ka = FALSE]

tcp_destroy(th, t) ==
    /\ At(th, "tcp_destroy", t, NoMsg)
    /\ tp' = [tp EXCEPT ![t] = Closed(@)]
    /\ msg' = [m \in Msgs |-> IF \E i \in DOMAIN tp[t].delayed : tp[t].delayed[i] = m
                              THEN [msg[m] EXCEPT !.pending = FALSE] ELSE msg[m]]
    /\ Continue(th, <<>>)
    /\ UNCHANGED <<conf, table, tp_list, mgr_lock, users>>

\* A connection is accepted, and can be read or not.
accepted(th, t) ==
    /\ At(th, "accepted", t, NoMsg)
    /\ Continue(th, IF Closing(t) THEN <<>> ELSE <<S("start_ka", t)>>)
    /\ UNCHANGED <<conf, tp, table, tp_list, mgr_lock, users, msg>>

on_accept_complete(th, t, k, ok) ==
    /\ LockFree(th)
    /\ Create(t, k, FALSE, ok)
    /\ Begin(th, <<S(IF ok THEN "accepted" ELSE "destroy", t)>>)
    /\ UNCHANGED <<conf, mgr_lock, users, msg>>

\* The application shuts a transport down.
app_shutdown(th, t) ==
    /\ Alive(t) /\ ~tp[t].is_shutdown
    /\ tp[t].has_pending_connect => conf.cutoff
    /\ Begin(th, <<S("shutdown", t)>>)
    /\ UNCHANGED <<conf, tp, table, tp_list, mgr_lock, users, msg>>

-----------------------------------------------------------------------------
\* threads, tps, msgs: who makes calls, on which transports, to send what;
\* expires: a connection may take longer than a delayed request is good for;
\* cutoff: a transport may be shut down before it sends what is delayed, by the
\* application while it connects or because the new connection cannot be read.
Init ==
    /\ conf \in Configs
    /\ tp = [t \in Tps |-> Unused]
    /\ table = [k \in Keys |-> NoTp]
    /\ tp_list = {}
    /\ mgr_lock = NoThread
    /\ todo = [th \in Threads |-> <<>>]
    /\ users = [t \in Tps |-> 0]
    /\ msg = [m \in Msgs |-> [pending |-> FALSE, t |-> NoTp]]

\* A thread goes on with what it does.
Proceed(th) ==
    \/ unlock(th)
    \/ \E t \in Tps :
          \/ add_ref(th, t) \/ cancel_idle(th, t) \/ dec_ref(th, t) \/ start_idle(th, t)
          \/ transport_idle_callback(th, t) \/ pjsip_transport_destroy(th, t)
          \/ destroy_transport(th, t) \/ pjsip_transport_shutdown(th, t)
          \/ tcp_init_shutdown(th, t) \/ state_cb(th, t) \/ check_again(th, t)
          \/ cancel_delayed(th, t) \/ tcp_flush_pending_tx(th, t)
          \/ start_keep_alive(th, t) \/ tcp_keep_alive_timer(th, t)
          \/ tcp_destroy(th, t) \/ accepted(th, t) \/ hold(th, t)
          \/ \E m \in Msgs : \/ tcp_send_msg(th, t, m) \/ delay_tdata(th, t, m)
                            \/ asock_send(th, t, m) \/ send_returns(th, t, m)

\* What the network and the timers do to it.
Event(th) ==
    \E t \in Tps :
       \/ idle_expires(th, t) \/ keep_alive_expires(th, t) \/ disconnected(th, t)
       \/ \E result \in {"connected", "unreadable", "failed"} : on_connect_complete(th, t, result)
       \/ \E m \in Msgs, ok \in BOOLEAN : on_data_sent(th, t, m, ok)
       \/ \E k \in Keys, ok \in BOOLEAN : on_accept_complete(th, t, k, ok)

\* What its users do.
Call(th) ==
    \/ \E k \in Keys : acquire_transport(th, k) \/ acquire_fails(th, k)
    \/ \E t \in Tps : \/ use_transport(th, t) \/ release_transport(th, t) \/ app_shutdown(th, t)
                      \/ \E m \in Msgs : pjsip_transport_send(th, t, m)

Next == \E th \in Threads : Proceed(th) \/ Event(th) \/ Call(th)

\* A thread goes on; a connection is made or fails; the socket sends or fails; the
\* endpoint is polled for its timers.
Fairness ==
    /\ \A th \in Threads : WF_vars(Proceed(th))
    /\ SF_vars(\E th \in Threads, t \in Tps : idle_expires(th, t))
    /\ SF_vars(\E th \in Threads, t \in Tps, r \in {"connected", "unreadable", "failed"} :
                  on_connect_complete(th, t, r))
    /\ \A m \in Msgs : SF_vars(\E th \in Threads, t \in Tps, ok \in BOOLEAN : on_data_sent(th, t, m, ok))

Spec == Init /\ [][Next]_vars /\ Fairness

-----------------------------------------------------------------------------
(***************************************************************************)
(* Properties.                                                             *)
(***************************************************************************)
TpType == [life : {"none", "live", "closed"}, key : Keys, ref_cnt : Int, id : BOOLEAN,
           armed : BOOLEAN, is_shutdown : BOOLEAN, is_destroying : BOOLEAN,
           has_pending_connect : BOOLEAN, ka : BOOLEAN, reading : BOOLEAN,
           delayed : Seq(Msgs), ioq : SUBSET Msgs, used : BOOLEAN]

\* The state has its types.
TypeOK ==
    /\ tp \in [Tps -> TpType]
    /\ table \in [Keys -> Tps \cup {NoTp}] /\ tp_list \subseteq Tps
    /\ mgr_lock \in Threads \cup {NoThread}
    /\ users \in [Tps -> 0..MaxUsers]
    /\ msg \in [Msgs -> [pending : BOOLEAN, t : Tps \cup {NoTp}]]

Serial == Cardinality(conf.threads) = 1

Quiet(t) == \A th \in Threads : \A i \in DOMAIN todo[th] : todo[th][i].t # t

\* The reference counter of a transport is the number of its users and of the calls
\* in progress that will give a reference back (pjsip_transport_add_ref and
\* pjsip_transport_dec_ref are paired on every path of the send, shutdown and
\* connect handlers).
RefsExact ==
    \A t \in Tps : tp[t].ref_cnt = users[t] + Planned(S("hold", t)) + Planned(S("dec_ref", t))
                                   - Planned(S("add_ref", t))

\* A transport that is not being destroyed is in the hash table or, replaced by one
\* with its key, in the list, never in both; one that is, is in neither
\* (pjsip_transport_register and destroy_transport).
FoundOrListed ==
    \A t \in Tps : LET found == table[tp[t].key] = t IN
       IF tp[t].life = "live" /\ ~tp[t].is_destroying THEN found # (t \in tp_list)
       ELSE ~found /\ t \notin tp_list

\* "Must have no user." (sip_transport.c:1185): no user has a reference to a
\* transport that is destroyed.
NoUserLeft == \A t \in Tps : tp[t].life = "closed" => users[t] = 0

\* In a program of one thread no user has a reference to a transport that is
\* destroyed, and no timer of it is in the heap: whoever comes while the idle timer
\* runs stops it (destroy_transport, tcp_destroy).
NoneDestroyedInUse ==
    Serial => NoUserLeft /\ \A t \in Tps : tp[t].life = "closed" => ~tp[t].armed /\ ~tp[t].ka

\* In a program of one thread, once all calls have returned, the idle timer of a
\* transport runs if and only if it was used and has no user any more.
IdleIsTimed ==
    Serial => \A t \in Tps : Alive(t) /\ tp[t].used /\ Quiet(t) =>
                 (tp[t].armed <=> tp[t].ref_cnt = 0) /\ (tp[t].id <=> tp[t].armed)

Holds(t, m) == Alive(t) /\ (m \in tp[t].ioq \/ \E i \in DOMAIN tp[t].delayed : tp[t].delayed[i] = m)

\* "application will be notified later about the completion via the callback"
\* (sip_transport.h:1328): a message that is pending is in the list or with the
\* socket of a transport that is not destroyed, or on its way there.
PendingIsHeld ==
    \A m \in Msgs : msg[m].pending =>
       \/ \E t \in Tps : Holds(t, m)
       \/ \E th \in Threads : \E i \in DOMAIN todo[th] : todo[th][i].m = m

\* In a program of one thread, every message whose transmission was pending is
\* reported to its sender, unless the transport is shut down between connect() and
\* the end of the delayed list: on_connect_complete then returns, and the list waits
\* for the users to leave.  With two threads it is not so: when connect() fails,
\* on_connect_complete empties the list without the lock of the transport, and
\* tcp_send_msg, which has seen has_pending_connect, may append to it afterwards
\* (sip_transport_tcp.c:1428, 1439-1449, 1257-1286).
PendingIsReported ==
    \A m \in Msgs : (Serial /\ msg[m].pending /\ ~conf.cutoff) ~> ~msg[m].pending

=============================================================================
