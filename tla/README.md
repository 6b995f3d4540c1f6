# A TLA+ verification of pjproject 2.4

pjproject is a C implementation of SIP, SDP, RTP and NAT traversal. This
directory holds TLA+ specifications of its concurrent core, translated from the
source, the TLC configurations that check them on small instances, and proofs
of the most important invariants for every instance.

## The system

The libraries are layered: `pjlib` (memory, locks, timers, sockets),
`pjlib-util` (DNS, small protocols), `pjnath` (STUN, TURN, ICE), `pjsip` (SIP
core), `pjsip-ua` and `pjsip-simple` (INVITE sessions, registration, event
subscription), `pjmedia` (SDP negotiation, RTP streams, jitter buffer,
conference bridge) and `pjsua-lib` (the API applications use). Every library
is driven the same way: some number of worker threads call
`pjsip_endpt_handle_events()`, which polls the timer heap and the ioqueue, and
callbacks run on whichever thread happened to poll. Objects are protected by
group locks (`pj_grp_lock_t`), which combine a recursive mutex with a reference
counter; an object dies when the last reference goes.

### Inventory

| Component | State it keeps | Operations | What is hard about it |
|---|---|---|---|
| SIP transaction (`sip_transaction.c`) | state, status code, transport flags, last message, two timers, group lock references | create, send, receive, terminate, stop/restart timers; timer, transport and resolver callbacks; layer stop | timers that expired before they were cancelled; callbacks that race with destruction; sends that complete later; transport disconnects |
| Timer heap (`timer.c`) | array heap, slot of every timer id, free list | schedule, cancel, poll | array surgery keeps ids valid; growth; an entry scheduled while it is being polled |
| Group lock (`lock.c`) | owner, recursion, chained locks, reference count | acquire, tryacquire, release, add/dec ref, chain, unchain | destruction when the last reference goes inside `release`; chaining while held |
| SIP transport and its manager (`sip_transport.c`) | reference count, idle timer, hash table, listeners, shutdown and destroy flags | acquire, send, add/dec ref, shutdown, destroy, idle callback, state listeners | a transport found in the table while its idle timer fires |
| STUN client transaction (`stun_transaction.c`) | transmit count, retransmit and destroy timers, completion flag | send, retransmit, response, schedule destroy, stop, destroy | response racing the last retransmission; callback that destroys the object |
| SDP negotiator (`sdp_neg.c`) | local, remote and active SDP, state | create/modify/set offers and answers, negotiate, cancel | glare, cancelled offers, which SDP is active |
| INVITE session (`sip_inv.c`), dialog (`sip_dialog.c`), UA layer (`sip_ua_layer.c`) | session state, pending transactions, negotiator, dialog sets | offer/answer, CANCEL, re-INVITE, PRACK, BYE, fork | crossing of requests, late responses, retransmitted 2xx |
| Session timers, 100rel, REFER, Replaces (`pjsip-ua`) | timers, RSeq, refresher | refresh, PRACK | refresh races, lost PRACK |
| Registration, publication, subscription (`sip_reg.c`, `publishc.c`, `evsub.c`) | refresh timer, pending request counters | register, refresh, unregister, destroy | destroy from a callback |
| ICE, STUN session, TURN session (`pjnath`) | check lists, candidate pairs, permissions, channels | checks, nomination, refresh | both agents' checks interleave; timers against responses |
| DNS resolver (`resolver.c`, `srv_resolver.c`) | pending queries, cache, name server states | query, answer, timeout, cancel | one answer wakes many queries; cancel from a callback |
| ioqueue, active socket (`ioqueue_*.c`, `activesock.c`) | pending operations per key, closing flag | read, write, accept, connect, unregister | dispatch racing unregister |
| Memory pools (`pool.c`, `pool_caching.c`), hash table, red-black tree, lists | blocks, free lists, buckets, nodes | allocate, reset, release | sizes at the boundary |
| Jitter buffer (`jbuf.c`), delay buffer (`delaybuf.c`) | frame ring, origin, discard count, levels | put, get, reset | reordering, sequence number restart, full ring |
| Conference bridge, RTP/RTCP, streams, ports (`pjmedia`) | ports, connections, counters | connect, get/put frame | sequence wrap, counters |
| pjsua-lib, pjsua2 | calls, accounts, buddies | application API | lock order between call, dialog and library |
| Codecs, echo cancellers, devices, parsers, printers, sample applications, third-party code, MicroSIP | | | computation and I/O, outside TLC's reach |

### What must hold

* Transaction: it is never touched after it is destroyed and never leaked; its
  state only advances; no request after a final response, no response after the
  ACK; a message that is put off is sent in the end; it ends by itself.
* STUN session: completion is reported once and in the end; a destroyed session
  goes away with all it allocated.
* Timer heap: it behaves as a set of entries with expiry times from which the
  earliest one is taken, and an id always finds its entry.
* Group lock: mutual exclusion over every chained lock, no deadlock, and
  destruction exactly once, when the last reference goes.
* Transport: references are exact, it is not destroyed in use, an idle one is
  timed, and every message that is pending is reported.
* Jitter buffer: frames are played once and in order; the ring stays exact.
* Negotiator: with applications that keep to one negotiation at a time, both parties
  end with the same active media whatever crosses, is refused or fails, and no SDP in use is in memory that was reset.

## Overview

| Modules | Part of the system | Checked | Proved |
|---|---|---|---|
| `Tsx`, `MCTsx`, `TsxSteps`, `TsxProofs` | SIP transaction with the threads that poll, the user, the peer and the transport | `tsx`, `tsx_deferred_lost` | types, one send, exact references, no use after destruction, state never back |
| `StunSess`, `MCStunSess`, `StunProofs` | STUN session and its client transactions | `stun`, `stun_pending` | types, exact references, told at most once, nothing forgotten, no use after freeing |
| `TimerHeap`, `TimerSet`, `MCTimerHeap`, `TimerProofs` | timer heap, and the set of timers it implements | `timer`, `timer_race` | everything but liveness |
| `GrpLock`, `RefLock`, `MCGrpLock`, `GrpLockProofs` | group lock, and the reference-counted lock it implements | `grplock` | everything but liveness |
| `JitterBuf`, `MCJitterBuf`, `JitterBufProofs` | jitter buffer between a network and a player | `jbuf` | types, exact ring, room for every frame, removals, order of play |
| `Transport`, `MCTransport`, `TransportProofs` | transport manager composed with the TCP transport | `transport`, `transport_lost` | exact references, found or listed |
| `SdpNeg`, `MCSdpNeg`, `SdpProofs` | two SDP negotiators composed by the offers and answers of INVITE sessions | `sdp`, `sdp_initial` | one answer for every offer, SDP in use is held |

Within each module, the configuration (role, method, environment, number of
threads, settings) is a variable `conf` that is chosen initially and never
changes, so that one run asks one question of several environments, and a
theorem covers them all.  Definitions called `X_Y` and marked "Mutant" are
plausible mistakes in `X`; replacing `X` by one of them makes TLC find the
property it is listed with in `PROJECT.json` violated.

## The modules

### Tsx: the SIP transaction

`tsx` is a record with the fields of `pjsip_transaction` that control depends
on: `state`, `status_code`, the flags of `transport_flag` as a set, the last
message sent, whether a transport is attached, the pending resolution and
stateless send (`rs_op`), the send the transport has not completed (`tp_op`),
the two timers (`heap`, `id`), `terminating` and the references of the group
lock.  `note`, `told`, `out` and `wire` record what the user was told and what
was sent.  Each state handler (`tsx_on_state_calling` and so on) is an operator
from a state and an event to a state, with the name it has in the source; the
actions are the entry points: `pjsip_tsx_send_msg`, `pjsip_tsx_recv_msg`,
`pjsip_tsx_terminate`, `pjsip_tsx_stop_retransmit`, `pjsip_tsx_set_timeout`,
`pjsip_tsx_retransmit_no_state`, `tsx_timer_callback`, `send_msg_callback`,
`transport_callback`, `tsx_tp_state_callback`, `mod_tsx_layer_on_rx`,
`mod_tsx_layer_stop`.

What one thread does between two points at which it holds no lock is one step.
So a timer callback has a step at which the entry leaves the heap ("fired"),
one at which it has tested the timer id without the lock, and one at which it
has the lock; the transport error posted through a timer is handled in three
steps, because the user is notified after the lock is released.  Messages of
the peer are arbitrary in number and order, which covers loss, duplication and
reordering.

Left out: the values of timers (any armed timer may fire, in any order); calls
the user makes from inside a callback; an error that
`pjsip_endpt_send_request_stateless()` returns at once;
a failure to create the ACK of a final failure (`sip_transaction.c:3010`);
`tsx->handle_200resp` being 0; `pjsip_tsx_set_transport()`; the difference
between the status codes 502 and 503; several transactions in one hash table
and module loading.  Sections that hold only the mutex of the hash table are
atomic, and so are `tsx_tp_state_callback()` and `pjsip_tsx_set_timeout()`, which
hold only the mutex of the timers (`mutex_b`).

### StunSess: the STUN session

`s` is a record of the session and of sets of requests: `created`, `pending`
(in the list `pending_request_list`), `client_tsx`, `complete`, `muted`
(scheduled for destruction), `freed`, the armed timers and what the user was
told.  A request that is retried after a challenge is a new request with the
`token` of the one the user sent.  The operators are the functions of
`stun_transaction.c` and `stun_session.c` by their names.

Left out: encoding and its errors, credentials beyond the nonce, indications,
the server half (incoming requests and the cache of responses), and calls from
inside of callbacks.  The user does not cancel or retransmit a request whose memory
was freed: this is a restriction, because a request that was challenged is freed
300 ms after its retry has taken its place, without the user being told, so that
`pj_stun_session_cancel_req()` would search the list by memory that is gone.  After
a use of freed memory, the model goes on as if the memory were intact.

### TimerHeap and TimerSet: the timer heap

The arrays `heap` and `timer_ids`, `freelist`, `cur_size` and `max_size` are
those of the source, as are `timer_id`, `timer_value` and `grp_lock` of the
entries.  Every iteration of `reheap_up()` and `reheap_down()` is a step (`hole`
is the loop's state), so that the invariants say what holds in the middle of the
surgery as well; `lock` shows who is doing it.  The unlocked test and the
reading of the clock in `schedule_w_grp_lock()` are a step of their own.
`TimerSet` is what users rely on: a set of armed entries, of which a poll takes
the earliest one that has expired.  The mapping takes the entries with an id as
armed.

Left out: `next_delay`, `pj_timer_heap_count()`, `pj_timer_heap_earliest_time()`,
changing the lock, destruction of the heap, and the destruction of a group lock
whose last reference an entry holds (its owner keeps one).  Entries that are
reused without `pj_timer_entry_init()` are not considered.

### GrpLock and RefLock: the group lock

`lock_list`, `owner`, `owner_cnt`, `ref_cnt` and `destroy_list` are those of
`pj_grp_lock_t`; `holder` and `nest` are the recursive mutexes.  A call walks the
list one mutex at a time (`lck` is its pointer into the list), so that another
thread may chain or unchain a lock between any two steps of the walk; releasing
walks backwards and gives its reference back in a last step, which may destroy
the object.  Users hold references, acquire, re-enter, try, add and remove
handlers, chain and unchain external locks and take these directly.  `RefLock`
is the promise: a recursive lock of one owner with a count of references, which
is gone when the count comes to zero.  The mapping counts for each thread the
references it holds and those its calls have yet to give back.

Left out: `pj_grp_lock_replace()`, explicit destruction, reference debugging.
Users follow `lock.h`: they hold a reference while they call, and take an
external lock directly only while they hold no other.

### JitterBuf: the jitter buffer

`fl` is the ring (`jb_framelist`) and `jb` the levels, history and prefetch of
`pjmedia_jbuf`.  A slot holds the sequence number of its frame, which stands for
its content.  `net` are the frames on their way, which may be lost, repeated and
reordered within a window; `out` is what the player got.  A call is one step,
since callers hold a mutex; each round of the loop of
`pjmedia_jbuf_remove_frame()` is one.

A buffer is created with the default prefetch and given its settings afterwards;
whether it begins by prefetching depends on the default, as in the source.

Left out: contents, statistics, peeking and changing the settings later.

### Transport: transport manager and TCP transport

`tp` has the fields of `pjsip_transport` and `tcp_transport`, `table` and
`tp_list` are those of the manager.  The functions call each other across locks:
a thread has a list `todo` of the steps it is going to take, and a step is what
happens inside one lock or between two operations others can see.  So the two
tests of the counter in `pjsip_transport_dec_ref()`, the callbacks in the middle
of a shutdown and the idle timer interleave with every other call.

Left out: UDP and TLS, `pjsip_tpmgr_destroy()`, raw sends, selectors, addresses
and the framing of data.  State callbacks are modelled where the TCP transport
reports a disconnection (`state_cb`); those for SHUTDOWN (`sip_transport.c:1153`),
CONNECTED (`sip_transport_tcp.c:1490`) and DESTROY (`sip_transport.c:1189`, between
the test of the counter and the destruction) are not.

### SdpNeg: offers and answers

`neg[p]` is the negotiator of a party; an SDP has a version, its media, and the
memory it is allocated in.  The operators are the functions of `sdp_neg.c`;
matching of formats, payload types and directions is modelled by what it does.
`tsx[p]` is the INVITE transaction of a session (`inv->invite_tsx`), `cseq[p]` the
last CSeq its dialog has taken.  The actions are what INVITE sessions do: the first
INVITE with an offer (`FirstOffer`), `pjsip_inv_reinvite()` with an offer or without
one, which asks for an offer in the 2xx response (`Reinvite`), `pjsip_inv_update()`
(`Update`), the requests when they arrive (`OnInvite`, `OnUpdate`), answering or
refusing an INVITE when the application is ready (`SetAnswer`, `Respond`, `Refuse`),
and the responses and the ACK (`OnInviteOk`, `OnInviteFail`, `OnAck`,
`OnUpdateResponse`; `OnUpdateEnd` is the end of the transaction of an UPDATE, at
which the code looks at the negotiator once more).  Messages under way are a set, in
no order, so that any may overtake any other.

`inv_negotiate_sdp()` calls `on_media_update()` after the negotiation and before the
exchange and reset of the pools (`FlipFlop`); `InCallback` is what the application
does in it.  The session does not keep an application from doing things out of turn,
and does not cope with all of them.  They are switches of a configuration:

* `overlap`: an UPDATE while an INVITE is pending, which `pjsip_inv_update()` does not
  test (`sip_inv.c:2904`), or a re-INVITE while a negotiation is under way;
* `decline`: `on_rx_offer()` leaves an offer in a 2xx response (or an ACK) without an
  answer; the negotiator keeps it, as the status is ignored (`sip_inv.c:4996`);
* `nested`: an UPDATE made in `on_media_update()`.

Left out: a first INVITE without an offer, call states, CANCEL, BYE, PRACK and
100rel, early media and forking, authentication, session timers, retransmissions, a
re-INVITE made in a callback, a refusal after `pjsip_inv_set_sdp_answer()`, the time
between a failure response and the release of its transaction, addresses, custom
matching, and the asymmetric mode, which no caller uses.

## The runs

| Run | Shows | States |
|---|---|---|
| `tsx` | eight properties of the transaction in eight configurations of role, method, environment and one or two threads | 90 433 |
| `tsx_deferred_lost` | violation: a message that is put off while the transport's send is pending is never sent | |
| `stun` | six properties of the session in six configurations, with up to three requests and two threads | 80 149 |
| `stun_pending` | violation: a send that returns `PJ_EPENDING` leaves a request without a timer | |
| `timer` | five properties of the heap in three configurations, among them the refinement of `TimerSet` and liveness | 82 812 |
| `timer_race` | violation: two threads that schedule one entry put it into the heap twice | |
| `grplock` | six properties of the group lock, among them the refinement of `RefLock`, freedom from deadlock and that the last reference destroys it | 39 408 |
| `jbuf` | five properties of the jitter buffer for faulty networks, both discards, the video stream, no prefetch and a stream without end | 264 457 |
| `transport` | five properties of transports for one thread with two transports or two messages, early shutdown, and two threads without messages | 78 065 |
| `transport_lost` | violation: a request that waits too long for its connection is dropped without its sender being told | |
| `sdp` | five properties of two parties with audio and video, different payload types, hold, refused media and no common codec, in all settings of the negotiator, and with the eight combinations of the switches in the default one | 370 008 |
| `sdp_initial` | violation: the initial SDP is kept in a pool that a failed negotiation resets | |

The five violations are findings; `PROJECT.json` quotes for each what a comment
or the documentation of the source says instead.

`TypeOK` documents the state of each module.  It is a theorem of `TsxProofs`,
`StunProofs`, `TimerProofs` and `JitterBufProofs`, and no property of a run.

Several properties are conditioned on the configuration, because the code does
not keep them in every environment.  The condition is written in the property
and explained beside it; these are the shortfalls it excludes:

* `StateNeverGoesBack`: `tsx_timer_callback()` tests the state before it takes
  the lock when it handles a posted transport error; with two threads a
  transaction that was destroyed meanwhile is set to Terminated again.
* `NoUseAfterDestroy`: `send_msg_callback()` of an asynchronous resolution holds
  no reference.
* `EventuallyDestroyed`: a transport error posted to a Terminated transaction
  replaces the timer that would destroy it.
* `NoStaleRetransmission`: a second thread that popped the retransmit timer
  before the provisional response was handled sends the INVITE once more; and
  the callback of a resolution sends what it was started for.
* `FinalIsAcked`, `KeepsRetransmitting`: see `tsx_deferred_lost`.
* `ToldOnce`: cancelling a request that has been challenged does not cancel the
  request that answers the challenge.
* `NotForgotten`: with long-term credentials, a malformed challenge and a retry
  that cannot be sent are not reported.
* `EventuallyTold`: a provisional response, a pending send (see `stun_pending`)
  and, over TCP, a retransmission by the user cancel the only timer of a request.
* `NoUseAfterFree`: a second thread may wait for the lock with a retransmit timer
  it has popped while the request is completed and freed.
* `HolderHasAll`: the external locks are chained behind the own lock.  One that
  is chained in front of it (a negative position, which no caller uses) is not
  taken by a thread that waits for the own lock at that moment.
* `PlayedInOrder`: the stream does not wrap, and no frame is overtaken by as many
  as `MAX_MISORDER`; the buffer takes that for a restart of the sequence.
* `NoneDestroyedInUse`, `IdleIsTimed`: one thread.  With two, the idle callback
  destroys a transport that another thread has just found in the table.
* `PendingIsReported`: one thread, and not for a transport that is shut down between
  its connection and the end of the delayed list, nor for an expired request (see
  `transport_lost`).  With two threads, `on_connect_complete()` of a connection that
  failed empties the list without the lock that `tcp_send_msg()` takes, and a sender
  that has seen `has_pending_connect` may append to it afterwards.
* `MediaAgree`, `VersionsFresh`: not for a call with an answer in which every
  medium is off, a success for the answerer and a failure for the offerer.
* `MediaAgree`: not for `overlap`: an UPDATE made while one's own re-INVITE asks for
  an offer takes the offer of the 2xx response for its answer, and both parties end
  with different media; not for `nested`.
* `OneAnswerComing`: for none of the switches.  With `decline`, the offer of a 2xx
  response stays with one party when the ACK has cancelled it at the other.
* `NegotiationEnds`: for none of the switches.  With `decline`, such an offer stays
  for ever; `overlap` and `nested` can do it with four offers, when the answer in an
  ACK is taken for an offer.
* `SdpHeld`: not for `nested`: the offer of the UPDATE is in the pool that is then
  reset, or exchanged and reset by the next negotiation while it is active.  With
  `overlap` and `decline` it holds.
* `VersionsFresh`: not for `overlap`, in which a re-INVITE repeats the offer of an
  UPDATE, nor for the active SDP offered again to a party that asks.

### Bounds

`tsx`: messages are the request, the ACK, a provisional response, a final
success and a final failure; one transaction; two threads, enough for a race of
any two callbacks (a race of three is covered by the theorems only).  There is no bound on the
number of messages, retransmissions and timer events.

`stun`: `MaxTransmit` = 2 transmissions (the source has 7), so that there is one
retransmission and then the time-out; `MaxAuthRetry` = 1 challenge answered (3);
three requests allow a retry beside another request; `MaxManual` = 1 explicit
retransmission.

`timer`: `Size` = 1, so that the arrays have three cells first, and grow at the
second and the fifth entry; six entries make a tree of three levels, in which
the last entry can belong above or below the slot it is moved to; delays of 0
to 2 ticks; `MaxPerPoll` = 2 of three entries due.  One configuration has two
threads and callbacks that call the API.  The number of calls is bounded by
`calls`, the clock by `time`.

`grplock`: two threads nest twice (`MaxDepth`), hold one reference beside their
acquisitions (`MaxRefs`), and chain two external locks: the walk then has a place
before, between and after them.  One configuration has the locks, one a handler.

`jbuf`: a ring of four slots (the source has 50 and more), a restart at four
frames behind (100), sequence numbers that wrap at 8 (2^16), cycles and history of
one or two, and six frames sent, so that the ring fills, overflows, restarts and
is shrunk by each discard; the endless stream wraps for ever.

`transport`: two transports with one key, two messages, two references of users
(`MaxUsers`): enough for replacement in the table, a list of two delayed messages,
and a user who comes while another leaves.

`sdp`: three offers or requests for one (`MaxOffers`), so that an offer can be
refused, cross another one and follow a failure; two media and three formats for
each party.

### Fairness

A thread that has started something finishes it (weak fairness of `Proceed`, or
`Step`): a thread of the source that holds no lock of anyone else runs on.  The
heap is polled for ever, as applications do with `pjsip_endpt_handle_events()`; a
poll takes entries in the order of expiry, so an entry that is armed again and
again is also taken again and again (strong fairness of the firing of each timer
in `Tsx`, `StunSess` and `Transport`, where time is not modelled; in `TimerHeap`,
where it is, weak fairness of the clock and of polling is enough).  A socket
completes every connection and send it left pending, with success or not.  The
endless stream of `JitterBuf` is fed and read for ever.  A session of `SdpNeg` that
has a message or an offer before it handles it in the end, as the transaction
below it sees to.  Nothing is assumed of the peer or of the user otherwise.

## The proofs

The theorems hold for every finite set of threads, requests or entries and for
every configuration, where TLC covers a few.

`TsxProofs`: `TypeCorrect` (`TypeOK`), `AtMostOneSend` (`OneSend`), `RefsExact`
(`RefCounted`), `NeverUsedDestroyed` (`NoUseAfterDestroy`) and `StateNeverBack`
(`StateNeverGoesBack`); `TsxSteps` has what each operator of `Tsx` does to a
transaction.  The invariant joins the first three: the reference count needs that a send is outstanding at most once,
because the callback of a send gives back a reference; that needs the type of the
flags.  `NoUseAfterDestroy` needs more of it: a thread in `mod_tsx_layer_stop()` holds no
reference, so the invariant says that the transaction it is about to shut down is
terminated and still registered (`OneStop`), hence not shut down yet (`Reg`).
Every handler is shown to preserve `Keeps`, a relation between a state and its
successor that says how references and sends may change, and the actions follow.
That the state never goes back rests on a second invariant, `SInv`: a handler
assigns a state without a look at the one it leaves only where it can be reached
from that one, so that what a state implies has to be known (`Core`).  A client
that has sent its request waits for the transport or has resolved its server, hence
the ACK never fails in a resolution; a send is pending, and an error posted, only
where the environment allows it; and a thread that polls alone handles a posted
error before the transaction is destroyed (`ThreadOk`).

`StunProofs`: `TypeCorrect` (`TypeOK`), `RefsExact` (`RefCounted`),
`ToldAtMostOnce` (`ToldOnce`), `NothingForgotten` (`NotForgotten`) and
`NeverUsedFreed` (`NoUseAfterFree`).
The first part of the module has what each function of the session and of its
transactions keeps.
`Excess`, the references that no armed timer holds, is left alone by every
operator on timers.  `ToldOnce` needs that at most one request that can still
complete carries a token, and that none does after the user was told;
`NotForgotten` that there is one until then.  `NoUseAfterFree` needs, for a thread
that polls alone (`LInv`), that what has been freed had been created and is pending
no more, since only what is pending is armed again, and that a callback about to
erase a request has left none of its timers armed; what an operator may arm is
stated once, as `Covers`.

`TimerProofs`: `TypeCorrect`, `IdsAlwaysValid`, `AlwaysOrdered`,
`AlwaysAnIdLeft`, `RefsExact` and `ArraysImplementSet`, which says that
`TimerHeap` implements `TimerSet`.  They assume `~Racy`, that no two threads
schedule one entry at the same time (`timer_race` shows why).  The properties
speak of states in which the lock is free; the invariant has to say what holds
inside the loops.  It views the arrays as a tree in which the entry that is
being moved fills the hole (`Tree`): the entries of the tree are those armed,
once each, and ids give slots except for that of the hole (`SlotsOK`); every
entry is no later than its children, except at the hole, where the error has
one direction and the parent of the hole is no later than its children
(`OrderOK`); the free list is a path of distinct unused ids that ends just past
the array (`FreeOK`).  That the root is the earliest entry needs an induction
over slots, which is done by the least element of a finite set.

`SdpProofs`: `AnswersMatchOffers` (`OneAnswerComing`, for applications that do
nothing out of turn) and `SdpAlwaysHeld` (`SdpHeld`, for all but `nested`), for any
media and any number of requests.  `SessionInv` joins two invariants.  `Held` says
which SDPs of a negotiator exist in each of its states and in which pool they are:
the active ones in the dialog's pool or the active one, offers and answers under
negotiation in the dialog's pool or the provisional one, which is why the exchange of
the pools keeps what is in use.  It says nothing of messages, and so survives
requests that overlap and offers that are left.  `Session` is for applications that do
nothing out of turn.  It says of each party that its offer is with the other one or
one message about it is under way (`OneOffer`); that an INVITE of it, or a response
to one, is under way only while that INVITE is pending, and only one asks for an offer
(`OneCall`); that its 2xx response and the ACK belong to the INVITE that is pending
with it, by method and CSeq (`OneClosing`); and what that INVITE says of the state of
the negotiator (`TsxState`).  The last three are needed because messages overtake each
other: an ACK cancels an offer it does not answer, and must not find that of another
request.  The actions are first reduced to what they do to the states of the
negotiators, the transactions and the messages (`Step`), and a lemma for each kind
of change shows that `Party`, the conjunction of the four, is kept.

`GrpLockProofs`: `HandlersAlwaysAtTheEnd` (`HandlersRunAtTheEnd`), `InsideHasAll`
(`HolderHasAll`), `NothingIsKept` (`NothingKept`), `NeverDeadlocked` (`NoDeadlock`)
and `GroupLockIsRefLock` (`ImplementsRefLock`), for any threads, external locks,
handlers and depth of nesting.  Two invariants carry them.  That the count reaches zero says nothing of
a thread in the middle of a walk, so `RInv` says that `ref_cnt` is the number of
references the threads answer for (`Counted`, the size of a set with one token for
each), and that a thread which its call has not counted yet, on its way in or
backing out of a failed try, answers for another one (`OnTheWay`): each step adds
or removes one token or none, and the counter with them.  `AInv` joins to it what
the threads have of the mutexes: `Held` computes, from where a thread is in its
call, how often it must have each mutex, and `Mutexes` says that the mutexes
agree.  Everybody takes the group's own lock first, so at most one thread is past it
(`Apart`, `Owned`) and the list changes under nobody's walk; chaining locks the new
mutex as often as the owner has entered, which is what `Held` asks of a member of
the list.  Nobody waits in a circle because who waits for another member has the
group's own lock, and who has a member without it uses it directly and waits for
nothing.

`JitterBufProofs`: `JitterTypeOK` (`TypeOK`), `RingStaysExact` (`RingExact`),
`OneRoundMakesRoom` (`PutFits`), `RemovesWhatIsAsked` (`RemovesAsAsked`) and
`FramesPlayInOrder` (`PlayedInOrder`), for any capacity, limits, settings and
discard algorithm.  The invariant `JInv` views the ring as a window of frames at
distances from its start.  The counter of discarded frames stays the number of
marks because no frame is marked twice: the progressive algorithm marks only ahead
of its reference frame, and all other operations let marks fall behind it
(`Behind`).  Frames play in order because the window starts behind the last one
played and never moves back; this needs a network that overtakes a frame by fewer
than `MAX_MISORDER` others and a stream that ends before sequence numbers repeat
(`~Endless`), as `PlayedInOrder` says.

`TransportProofs`: `CounterIsExact` (`RefsExact`) and `AlwaysFoundOrListed`
(`FoundOrListed`), for any number of threads, transports, messages and users.  The
counter is compared with sums over the lists of all the threads.  A step of the
model takes the first step off one list and puts at most five in front (`Rewrites`);
each has a weight, what it owes to the counter, and the counter changes by the
difference (`Balance`).  How often a step is planned is counted as the size of a set
of places, so that putting one step in front is adding one place, and no induction
over lists is needed.  The rest of the invariant (`Base`) keeps the life and the key
of a transport in agreement with the lists, the hash table and the list of replaced
transports.

The assumptions are those of the `ASSUME`s: sets are finite, "none" values are not
members, limits are natural numbers, configurations have their type.  TLC
evaluates them in the runs.

Only model-checked are:

* liveness, since the provers do not handle fairness;
* `MediaAgree` of `SdpNeg`, on what a recursive function computes (the placing of
  media), which would need an induction over data;
* `VersionsFresh` of `SdpNeg`, for the same reason: it rests on the offerer accepting
  every answer the answerer made, which is about the media the functions place;
* `KeepsRetransmitting` and `NoStaleRetransmission` of `Tsx`, which are claimed for
  the configurations of the run only;
* `FinalIsAcked` of `Tsx`, and `NoneDestroyedInUse` and `IdleIsTimed` of `Transport`:
  they need larger inductive invariants.

## Not modelled

`PROJECT.json` lists every component with its reason.  In short:

* computation and I/O without state that threads share: codecs, echo cancellers,
  devices, parsers and printers, message encodings, digests, presence documents,
  containers, memory pools, RTP counters, mixing;
* layers over components that are modelled, whose own state is small: client
  registration and publication, STUN socket, TLS and loop transports, the
  endpoint, server authentication;
* components that need others first: the dialog and UA layer, and on top of it
  100rel, session timers, event subscription and pjsua-lib;
* large protocols of their own: ICE, TURN, the DNS resolver, and the ioqueue,
  which the models take as an environment that completes every operation once;
* applications, samples, bindings, third-party code and MicroSIP.
