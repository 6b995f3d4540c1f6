------------------------------- MODULE SdpNeg -------------------------------
(***************************************************************************)
(* The SDP negotiator (pjmedia/src/pjmedia/sdp_neg.c) of two parties of a  *)
(* call, and what an INVITE session (pjsip/src/pjsip-ua/sip_inv.c) does    *)
(* with it: re-INVITE, UPDATE, offers asked for by a re-INVITE without     *)
(* SDP, the responses and ACKs that may arrive in any order, the callbacks *)
(* into the application, and the two pools that SDP is allocated from in   *)
(* turns.  Three things an application may do are switches of a            *)
(* configuration, because the code does not cope with all of them:         *)
(*   overlap  it makes an UPDATE while an INVITE is pending, or a          *)
(*            re-INVITE while a negotiation is under way;                  *)
(*   decline  on_rx_offer() leaves an offer in a 2xx response unanswered;  *)
(*   nested   it makes an UPDATE in on_media_update().                     *)
(*                                                                         *)
(* A medium is its type, whether its port is nonzero, its direction, as    *)
(* the set of "send" and "recv", and its formats.  A format is a payload   *)
(* type, static below 96, and the encoding its rtpmap gives.  Addresses,   *)
(* transports, clock rates, other attributes and the custom matching of    *)
(* formats are left out; so is the asymmetric mode, which no caller uses.  *)
(***************************************************************************)
EXTENDS Integers, Sequences, SequencesExt

CONSTANTS Peers,        \* the parties of the call
          NoSdp,        \* a null pointer to an SDP
          Configs,      \* what an instance fixes: see conf
          MaxOffers     \* bound: offers and requests for one

\* A call has two parties.
ASSUME PeersAssumption == \E p, q \in Peers : p # q /\ Peers = {p, q}

\* A medium is proposed.
ASSUME ConfigsAssumption == \A c \in Configs : \A p \in Peers : NoSdp \notin c.caps[p]

VARIABLES conf,         \* [prefer, multi, change, caps, overlap, decline, nested]: codec
                        \* preference, multiple codecs, change of media, what each party
                        \* may propose, and the switches
          neg,          \* the negotiator of each party; its state is NULL if there is none
          tsx,          \* the INVITE transaction that is pending with each party
          cseq,         \* the highest CSeq each party has received
          msgs,         \* messages under way, in any order
          offers,       \* offers and requests made so far
          sent,         \* versions each party has sent in this call
          hollow        \* an answer without any active medium was sent in this call

vars == <<conf, neg, tsx, cseq, msgs, offers, sent, hollow>>

Other(p) == CHOOSE q \in Peers : q # p

Both == {"send", "recv"}
Opposite(d) == CHOOSE e \in Both : e # d

\* Where an SDP is allocated.  Memory that was "reset" is no longer its own.
Memory == {"pool", "prov", "active", "reset"}

Clone(pool, s) == [ver |-> s.ver, media |-> s.media, mem |-> pool]

Local(media) == [ver |-> 0, media |-> media]

-----------------------------------------------------------------------------
(* Media.                                                                  *)

\* The port becomes 0 and the attributes go; nothing reads the formats of a
\* medium whose port is 0.
Deactivated(m) == [m EXCEPT !.port = FALSE, !.dir = Both]

\* Mutant: the direction of the remote side is ignored.
update_media_direction_Kept(remote, local) == local.dir

\* update_media_direction(): what is left of the direction of the local side.
update_media_direction(remote, local) == {d \in local.dir : Opposite(d) \in remote.dir}

IsEvent(f) == f.enc = "telephone-event"

\* Static payload types are compared by number, dynamic ones by encoding.
SameFormat(f, g) == IF f.pt < 96 THEN f.pt = g.pt ELSE f.enc = g.enc

FirstMatch(f, fmts) == SelectInSeq(fmts, LAMBDA g : SameFormat(f, g))

\* Format i of the master is taken if the slave has a match and it is the first
\* such telephone-event, or the first such codec unless several are allowed.
Taken(i, master, slave) ==
    /\ FirstMatch(master[i], slave) # 0
    /\ ~\E k \in 1..(i - 1) :
           /\ FirstMatch(master[k], slave) # 0
           /\ IF IsEvent(master[i]) THEN IsEvent(master[k]) ELSE ~conf.multi /\ ~IsEvent(master[k])

Matches(master, slave) ==
    LET taken == SelectSeq([i \in DOMAIN master |-> i], LAMBDA i : Taken(i, master, slave))
    IN  [n \in DOMAIN taken |-> [master |-> master[taken[n]],
                                 slave |-> slave[FirstMatch(master[taken[n]], slave)]]]

\* Our medium with the formats found, which get the payload types of the offer,
\* and NoSdp if the master has a codec and none was found.
Rearranged(offer, preanswer, master, found) ==
    IF (\E f \in ToSet(master) : ~IsEvent(f)) /\ (\A x \in ToSet(found) : IsEvent(x.master))
    THEN NoSdp
    ELSE [preanswer EXCEPT
             !.fmts = [n \in DOMAIN found |->
                          IF conf.prefer THEN [pt |-> found[n].master.pt, enc |-> found[n].slave.enc]
                                         ELSE [pt |-> found[n].slave.pt, enc |-> found[n].master.enc]],
             !.dir = update_media_direction(offer, preanswer)]

\* match_offer(): the answer to one medium of an offer from one of ours.
match_offer(offer, preanswer) ==
    CASE ~offer.port -> Deactivated(offer)
      [] offer.port /\ ~preanswer.port -> preanswer
      [] OTHER -> IF conf.prefer
                  THEN Rearranged(offer, preanswer, offer.fmts, Matches(offer.fmts, preanswer.fmts))
                  ELSE Rearranged(offer, preanswer, preanswer.fmts, Matches(preanswer.fmts, offer.fmts))

\* Each medium of the offer is answered from the first of ours of its type that
\* is not used yet and matches: its number, or 0.
Free(om, initial, used) == {j \in DOMAIN initial : initial[j].type = om.type /\ j \notin used}

FirstGood(om, initial, used) ==
    SelectInSeq([j \in DOMAIN initial |-> j],
                LAMBDA j : j \in Free(om, initial, used) /\ match_offer(om, initial[j]) # NoSdp)

Picks(initial, offer) ==
    LET pick[i \in DOMAIN offer] == FirstGood(offer[i], initial, {pick[k] : k \in 1..(i - 1)})
    IN  [i \in DOMAIN offer |-> pick[i]]

AnswerMedia(initial, offer, pick) ==
    [i \in DOMAIN offer |-> IF pick[i] = 0 THEN Deactivated(offer[i])
                            ELSE match_offer(offer[i], initial[pick[i]])]

\* One of ours was tried and had no common codec.
CodecMissing(initial, offer, pick) ==
    \E i \in DOMAIN offer : \E j \in Free(offer[i], initial, {pick[k] : k \in 1..(i - 1)}) :
        pick[i] = 0 \/ j < pick[i]

HasActive(media) == \E m \in ToSet(media) : m.port

\* create_answer(): without an active medium it fails only if a codec was missing.
create_answer(initial, offer) ==
    LET pick == Picks(initial, offer)
        media == AnswerMedia(initial, offer, pick)
    IN  [local |-> media, remote |-> offer,
         ok |-> HasActive(media) \/ ~CodecMissing(initial, offer, pick)]

\* Media that are on: ours keeps the formats that were answered, in the order of
\* the answer, and the answer those that are ours.
Narrowed(om, am, kept) ==
    IF kept = <<>> THEN [offer |-> Deactivated(om), answer |-> Deactivated(am)]
    ELSE [offer |-> [om EXCEPT
                        !.fmts = SortSeq(kept, LAMBDA f, g : FirstMatch(f, am.fmts) < FirstMatch(g, am.fmts)),
                        !.dir = update_media_direction(am, om)],
          answer |-> [am EXCEPT
                        !.fmts = SelectSeq(@, LAMBDA g : \E f \in ToSet(kept) :
                                                  am.fmts[FirstMatch(f, am.fmts)] = g)]]

\* process_m_answer(): a medium of our offer, and of the answer to it, after they
\* have been compared.
process_m_answer(om, am) ==
    CASE am.type # om.type \/ ~am.port -> [offer |-> Deactivated(om), answer |-> am]
      [] am.type = om.type /\ am.port /\ ~om.port -> [offer |-> om, answer |-> am]
      [] OTHER -> Narrowed(om, am, SelectSeq(om.fmts, LAMBDA f : FirstMatch(f, am.fmts) # 0))

\* The medium of the answer that each of the offer is compared with is the next
\* one; one of another type is compared with our next one too.
Differs(om, answer, k) == k <= Len(answer) /\ answer[k].type # om.type

Positions(offer, answer) ==
    LET ami[i \in 1..(Len(offer) + 1)] ==
            IF i = 1 THEN 1
            ELSE LET k == ami[i - 1] IN IF Differs(offer[i - 1], answer, k) THEN k ELSE k + 1
    IN  [i \in 1..(Len(offer) + 1) |-> ami[i]]

OfferAfter(offer, answer, ami) ==
    [i \in DOMAIN offer |-> IF ami[i] > Len(answer) THEN Deactivated(offer[i])
                            ELSE process_m_answer(offer[i], answer[ami[i]]).offer]

\* A medium that the answer does not have is added, off.
AnswerAfter(offer, answer, ami) ==
    LET Of(k) == {i \in DOMAIN offer : ami[i] = k /\ ~Differs(offer[i], answer, k)}
        Compared(k, is) == IF is = {} THEN answer[k]
                           ELSE LET om == offer[CHOOSE i \in is : TRUE]
                                IN  IF k > Len(answer) THEN Deactivated(om)
                                    ELSE process_m_answer(om, answer[k]).answer
    IN  [k \in 1..Max({Len(answer), ami[Len(offer) + 1] - 1}) |-> Compared(k, Of(k))]

\* process_answer(): without an active medium it fails.
process_answer(offer, answer) ==
    LET ami == Positions(offer, answer)
        ours == OfferAfter(offer, answer, ami)
    IN  [local |-> ours, remote |-> AnswerAfter(offer, answer, ami), ok |-> HasActive(ours)]

-----------------------------------------------------------------------------
(* Offers that modify a session.                                           *)

\* Without the flag, each medium of the active SDP keeps its place: the next
\* new medium of its type is moved there, or a deactivated one put in.
Reordered(old, new) ==
    LET placed[oi \in 0..Len(old)] ==
            IF oi = 0 THEN new
            ELSE LET media == placed[oi - 1]
                     ni == SelectInSubSeq(media, oi, Len(media), LAMBDA m : m.type = old[oi].type)
                 IN  IF ni = 0 THEN InsertAt(media, oi, Deactivated(old[oi]))
                     ELSE InsertAt(RemoveAt(media, ni), oi, media[ni])
    IN  placed[Len(old)]

\* With it, only the missing ones at the end are added.
Extended(old, new) ==
    new \o [i \in 1..(Len(old) - Len(new)) |-> Deactivated(old[Len(new) + i])]

NewMedia(old, new) == IF conf.change THEN Extended(old, new) ELSE Reordered(old, new)

NextVersion(s) == s.ver + 1

-----------------------------------------------------------------------------
(* The operations on the negotiator n.                                     *)

NoNeg == [state |-> "NULL", has_remote_answer |-> FALSE, initial |-> NoSdp,
          neg_local |-> NoSdp, neg_remote |-> NoSdp, active_local |-> NoSdp, active_remote |-> NoSdp]

create_w_local_offer(local) ==
    [state |-> "LOCAL_OFFER", has_remote_answer |-> FALSE, initial |-> Clone("pool", local),
     neg_local |-> Clone("pool", local), neg_remote |-> NoSdp,
     active_local |-> NoSdp, active_remote |-> NoSdp]

\* pjsua gives a session no initial SDP.
create_w_remote_offer(remote) ==
    [state |-> "REMOTE_OFFER", has_remote_answer |-> FALSE, initial |-> NoSdp,
     neg_local |-> NoSdp, neg_remote |-> Clone("pool", remote),
     active_local |-> NoSdp, active_remote |-> NoSdp]

modify_local_offer2(n, local) ==
    LET new == [ver |-> NextVersion(n.active_local), mem |-> "prov",
                media |-> NewMedia(n.active_local.media, local.media)]
    IN  [n EXCEPT !.state = "LOCAL_OFFER", !.initial = new, !.neg_local = new]

send_local_offer(n) ==
    [n EXCEPT !.state = "LOCAL_OFFER", !.initial = Clone("prov", n.active_local),
              !.neg_local = Clone("prov", n.active_local)]

set_remote_answer(n, remote) ==
    [n EXCEPT !.state = "WAIT_NEGO", !.has_remote_answer = TRUE,
              !.neg_remote = Clone("prov", remote)]

set_remote_offer(n, remote) ==
    [n EXCEPT !.state = "REMOTE_OFFER", !.neg_remote = Clone("prov", remote)]

\* What is cloned from memory that was reset is anything; of the initial SDP
\* only the version of a first answer is used, and that is never from there.
set_local_answer(n, local) ==
    [n EXCEPT !.state = "WAIT_NEGO", !.neg_local = Clone("prov", local),
              !.initial = Clone("prov", IF @ = NoSdp THEN local ELSE @)]

\* Mutant: the next offer has the version of the refused one.
cancel_offer_Same(n) ==
    [n EXCEPT !.neg_local = NoSdp, !.neg_remote = NoSdp, !.has_remote_answer = FALSE,
              !.state = "DONE"]

\* A refused offer uses up its version.
cancel_offer(n) ==
    LET bump == n.state = "LOCAL_OFFER" /\ n.active_local # NoSdp
    IN  [n EXCEPT !.neg_local = NoSdp, !.neg_remote = NoSdp, !.has_remote_answer = FALSE,
                  !.active_local = IF bump THEN [@ EXCEPT !.ver = n.active_local.ver + 1] ELSE @,
                  !.state = "DONE"]

\* pjmedia_sdp_neg_negotiate(): the outcome, and the negotiator after it.
Outcome(n) == IF n.has_remote_answer THEN process_answer(n.neg_local.media, n.neg_remote.media)
                                     ELSE create_answer(n.neg_local.media, n.neg_remote.media)

\* Our offer becomes active as it is; an answer has the next version.
NowActive(n, media) ==
    IF n.has_remote_answer THEN [n.neg_local EXCEPT !.media = media]
    ELSE [ver |-> NextVersion(IF n.active_local # NoSdp THEN n.active_local ELSE n.initial),
          media |-> media, mem |-> "prov"]

negotiate(n, r) ==
    [n EXCEPT !.active_local = IF r.ok THEN NowActive(n, r.local) ELSE @,
              !.active_remote = IF r.ok THEN [n.neg_remote EXCEPT !.media = r.remote] ELSE @,
              !.state = "DONE", !.neg_local = NoSdp, !.neg_remote = NoSdp,
              !.has_remote_answer = FALSE]

\* Mutant: the pools are not swapped.
FlipFlop_NoSwap(s, ok) ==
    IF s # NoSdp /\ s.mem = "prov" THEN [s EXCEPT !.mem = "reset"] ELSE s

\* inv_negotiate_sdp(): on success the two pools are swapped; either way the one
\* that is now provisional is reset.
FlipFlop(s, ok) ==
    CASE s = NoSdp -> s
      [] s # NoSdp /\ s.mem = "prov" -> [s EXCEPT !.mem = IF ok THEN "active" ELSE "reset"]
      [] s # NoSdp /\ s.mem = "active" /\ ok -> [s EXCEPT !.mem = "reset"]
      [] OTHER -> s

\* What the callback on_media_update() may do, pjsua hands it to the application:
\* nothing, or an UPDATE with the media up.
InCallback(n, r, up) ==
    IF up = NoSdp THEN negotiate(n, r) ELSE modify_local_offer2(negotiate(n, r), Local(up))

\* inv_negotiate_sdp(): the negotiation, the callback, and then the pools.
inv_negotiate_sdp(n, r, up) ==
    [InCallback(n, r, up) EXCEPT
        !.initial = FlipFlop(@, r.ok), !.neg_local = FlipFlop(@, r.ok),
        !.active_local = FlipFlop(@, r.ok), !.active_remote = FlipFlop(@, r.ok)]

-----------------------------------------------------------------------------
(* The INVITE sessions of the two parties.                                 *)

\* inv->invite_tsx: the side it is, whether its INVITE has an offer ("invite") or
\* asks for one ("ask"), and its CSeq.  "first" is the INVITE that began the call,
\* at the party called: the session is not CONFIRMED before its ACK.
NoTsx == [role |-> "none", method |-> "none", cseq |-> 0]

State(p) == neg[p].state

\* A response or an ACK has the method and the CSeq of its request.
Message(p, type, method, n, s) ==
    [to |-> p, type |-> type, method |-> method, cseq |-> n,
     sdp |-> IF s = NoSdp THEN NoSdp ELSE [ver |-> s.ver, media |-> s.media]]

Reply(p, m, type, s) == Message(Other(p), type, m.method, m.cseq, s)

\* An offer; and what ends one, with an answer or without.
IsOffer(m) == \/ m.type = "request" /\ m.method # "ask"
              \/ m.type = "ok" /\ m.method = "ask"

IsReply(m) == \/ m.type \in {"ok", "fail"} /\ m.method \in {"invite", "update"}
              \/ m.type = "ack" /\ m.method = "ask"

\* p has handled the messages in and sends the messages out.
Send(p, in, out) ==
    LET withSdp == {m \in out : m.sdp # NoSdp}
    IN  /\ msgs' = (msgs \ in) \cup out
        /\ sent' = [sent EXCEPT ![p] = @ \cup {m.sdp.ver : m \in withSdp}]
        /\ hollow' = (hollow \/ \E m \in withSdp : ~IsOffer(m) /\ ~HasActive(m.sdp.media))
        /\ offers' = IF \E m \in out : m.type = "request" THEN offers + 1 ELSE offers
        /\ UNCHANGED conf

\* A call whose first negotiation fails is ended.
Ended == /\ neg' = [q \in Peers |-> NoNeg]
         /\ tsx' = [q \in Peers |-> NoTsx]
         /\ cseq' = [q \in Peers |-> 0]
         /\ msgs' = {}
         /\ sent' = [q \in Peers |-> {}]
         /\ hollow' = FALSE
         /\ UNCHANGED <<conf, offers>>

Init == /\ conf \in Configs
        /\ neg = [p \in Peers |-> NoNeg]
        /\ tsx = [p \in Peers |-> NoTsx]
        /\ cseq = [p \in Peers |-> 0]
        /\ msgs = {}
        /\ offers = 0
        /\ sent = [p \in Peers |-> {}]
        /\ hollow = FALSE

\* The media of an UPDATE made in the callback of this negotiation.  It needs a
\* dialog that is established, which it is not before the first 2xx is sent.
Callbacks(p, n, r) ==
    {NoSdp} \cup IF /\ conf.nested /\ offers < MaxOffers
                    /\ n.active_local # NoSdp \/ (n.has_remote_answer /\ r.ok)
                 THEN conf.caps[p] ELSE {}

Called(p, n, r, up) ==
    IF up = NoSdp THEN {}
    ELSE {Message(Other(p), "request", "update", offers + 1, InCallback(n, r, up).neg_local)}

\* An offer of ours that got no answer is cancelled.
Unanswered(n) == IF n.state = "LOCAL_OFFER" THEN cancel_offer(n) ELSE n

\* inv_check_sdp_in_incoming_msg() in LOCAL_OFFER: the SDP is taken as the answer,
\* whichever offer it was made for.  When an INVITE of an established call closes
\* with it, an offer made in the callback counts as unanswered.
TakesAnswer(p, m, closes, out) ==
    LET w == set_remote_answer(neg[p], m.sdp)
        r == Outcome(w)
    IN  IF w.active_local = NoSdp /\ ~r.ok THEN Ended
        ELSE \E up \in Callbacks(p, w, r) :
                LET n == inv_negotiate_sdp(w, r, up)
                IN  /\ neg' = [neg EXCEPT ![p] = IF closes /\ w.active_local # NoSdp
                                                 THEN Unanswered(n) ELSE n]
                    /\ tsx' = IF closes THEN [tsx EXCEPT ![p] = NoTsx] ELSE tsx
                    /\ Send(p, {m}, out \cup Called(p, w, r, up))
                    /\ UNCHANGED cseq

\* What on_rx_offer() makes of an offer in a 2xx response or an ACK.
OnRxOffer(p) == conf.caps[p] \cup IF conf.decline THEN {NoSdp} ELSE {}

\* In another state: an offer in DONE, which on_rx_offer() answers with media or
\* leaves, and ignored while one is open.
Offered(n, s, media) ==
    IF n.state # "DONE" THEN n
    ELSE IF media = NoSdp THEN set_remote_offer(n, s)
    ELSE set_local_answer(set_remote_offer(n, s), Local(media))

-----------------------------------------------------------------------------
(* Requests of the application.                                            *)

\* pjsip_inv_create_uac() and the first INVITE.
FirstOffer(p) ==
    /\ \A q \in Peers : State(q) = "NULL"
    /\ offers < MaxOffers
    /\ \E media \in conf.caps[p] :
          LET n == create_w_local_offer(Local(media))
          IN  /\ neg' = [neg EXCEPT ![p] = n]
              /\ Send(p, {}, {Message(Other(p), "request", "invite", offers + 1, n.neg_local)})
    /\ tsx' = [tsx EXCEPT ![p] = [role |-> "uac", method |-> "invite", cseq |-> offers + 1]]
    /\ UNCHANGED cseq

\* The negotiator after pjsip_inv_reinvite() with these media: without them, or if
\* an offer was made or answered already, it is left as it is.
ForReinvite(n, media) ==
    CASE media # NoSdp /\ n.state = "DONE" -> modify_local_offer2(n, Local(media))
      [] media # NoSdp /\ n.state = "REMOTE_OFFER" -> set_local_answer(n, Local(media))
      [] OTHER -> n

\* pjsip_inv_invite() sends the local offer, or the local answer not yet negotiated.
SendsSdp(n) == n.state = "LOCAL_OFFER" \/ (n.state = "WAIT_NEGO" /\ ~n.has_remote_answer)

\* pjsip_inv_reinvite(): refused only while an INVITE is pending.
Reinvite(p) ==
    /\ tsx[p].role = "none" /\ neg[p].active_local # NoSdp
    /\ State(p) = "DONE" \/ conf.overlap
    /\ offers < MaxOffers
    /\ \E media \in conf.caps[p] \cup {NoSdp} :
          LET n == ForReinvite(neg[p], media)
              method == IF SendsSdp(n) THEN "invite" ELSE "ask"
              body == IF SendsSdp(n) THEN n.neg_local ELSE NoSdp
          IN  /\ neg' = [neg EXCEPT ![p] = n]
              /\ tsx' = [tsx EXCEPT ![p] = [role |-> "uac", method |-> method, cseq |-> offers + 1]]
              /\ Send(p, {}, {Message(Other(p), "request", method, offers + 1, body)})
    /\ UNCHANGED cseq

\* pjsip_inv_update(): refused only while a negotiation is under way.
Update(p) ==
    /\ State(p) = "DONE" /\ neg[p].active_local # NoSdp
    /\ tsx[p].role \in {"none", "first"} \/ conf.overlap
    /\ offers < MaxOffers
    /\ \E media \in conf.caps[p] :
          LET n == modify_local_offer2(neg[p], Local(media))
          IN  /\ neg' = [neg EXCEPT ![p] = n]
              /\ Send(p, {}, {Message(Other(p), "request", "update", offers + 1, n.neg_local)})
    /\ UNCHANGED <<tsx, cseq>>

-----------------------------------------------------------------------------
(* Requests that arrive.                                                   *)

\* The dialog notes the CSeq, and refuses one that is out of order.
Noted(p, m) == cseq' = [cseq EXCEPT ![p] = Max({m.cseq, @})]

Refused(p, m) == /\ Send(p, {m}, {Reply(p, m, "fail", NoSdp)})
                 /\ UNCHANGED <<neg, tsx>>

\* Mutant: an INVITE with an offer is taken while a negotiation is under way.
CanInvite_Unchecked(p, m) == /\ m.cseq > cseq[p] /\ tsx[p].role = "none"
                             /\ m.method = "invite" \/ State(p) \in {"NULL", "DONE"}

\* An INVITE gets 491 or 500 while another, or a negotiation, is under way.
CanInvite(p, m) == m.cseq > cseq[p] /\ tsx[p].role = "none" /\ State(p) \in {"NULL", "DONE"}

\* on_create_offer() makes the offer that an INVITE asks for; without one the
\* active SDP is offered.
CreatedOffer(n, media) == IF media = NoSdp THEN send_local_offer(n)
                                           ELSE modify_local_offer2(n, Local(media))

OnInvite(p, m) ==
    /\ m.type = "request" /\ m.method \in {"invite", "ask"}
    /\ IF ~CanInvite(p, m) THEN Refused(p, m)
       ELSE \/ /\ m.method = "invite"
               /\ neg' = [neg EXCEPT ![p] = IF @.state = "NULL" THEN create_w_remote_offer(m.sdp)
                                                                ELSE set_remote_offer(@, m.sdp)]
               /\ tsx' = [tsx EXCEPT ![p] = [role |-> IF State(p) = "NULL" THEN "first" ELSE "uas",
                                             method |-> "invite", cseq |-> m.cseq]]
               /\ Send(p, {m}, {})
            \/ /\ m.method = "ask"
               /\ \E media \in conf.caps[p] \cup {NoSdp} :
                     LET n == CreatedOffer(neg[p], media)
                     IN  /\ neg' = [neg EXCEPT ![p] = n]
                         /\ Send(p, {m}, {Reply(p, m, "ok", n.neg_local)})
               /\ tsx' = [tsx EXCEPT ![p] = [role |-> "uas", method |-> "ask", cseq |-> m.cseq]]
    /\ Noted(p, m)

\* inv_respond_incoming_update(): the answer is made, or not, before it returns.
OnUpdate(p, m) ==
    /\ m.type = "request" /\ m.method = "update"
    /\ IF m.cseq <= cseq[p] \/ State(p) # "DONE" THEN Refused(p, m)
       ELSE /\ \/ /\ neg' = [neg EXCEPT ![p] = cancel_offer(Offered(@, m.sdp, NoSdp))]
                  /\ Send(p, {m}, {Reply(p, m, "fail", NoSdp)})
               \/ \E media \in conf.caps[p] :
                     LET w == Offered(neg[p], m.sdp, media)
                         r == Outcome(w)
                     IN  \E up \in Callbacks(p, w, r) :
                            LET n == inv_negotiate_sdp(w, r, up)
                            IN  /\ neg' = [neg EXCEPT ![p] = IF r.ok THEN n ELSE Unanswered(n)]
                                /\ Send(p, {m}, Called(p, w, r, up) \cup
                                           {IF r.ok THEN Reply(p, m, "ok", n.active_local)
                                                    ELSE Reply(p, m, "fail", NoSdp)})
            /\ UNCHANGED tsx
    /\ Noted(p, m)

-----------------------------------------------------------------------------
(* An INVITE with an offer is answered when the application is ready.      *)

\* An offer of the other party in an INVITE is with p.
Offering(p) == tsx[p].role \in {"uas", "first"} /\ State(p) \in {"REMOTE_OFFER", "WAIT_NEGO"}

\* pjsip_inv_set_sdp_answer().
SetAnswer(p) ==
    /\ Offering(p) /\ State(p) = "REMOTE_OFFER"
    /\ \E media \in conf.caps[p] : neg' = [neg EXCEPT ![p] = set_local_answer(@, Local(media))]
    /\ UNCHANGED <<conf, tsx, cseq, msgs, offers, sent, hollow>>

\* A failure response to a re-INVITE.
Refuse(p) ==
    /\ Offering(p) /\ State(p) = "REMOTE_OFFER" /\ neg[p].active_local # NoSdp
    /\ neg' = [neg EXCEPT ![p] = cancel_offer(@)]
    /\ tsx' = [tsx EXCEPT ![p] = NoTsx]
    /\ Send(p, {}, {Reply(p, tsx[p], "fail", NoSdp)})
    /\ UNCHANGED cseq

\* Mutant: a failed negotiation leaves the offer open.
RespondWith_AsksAgain(p, r, n, out) ==
    IF r.ok
    THEN /\ neg' = [neg EXCEPT ![p] = n]
         /\ Send(p, {}, out \cup {Reply(p, tsx[p], "ok", n.active_local)})
         /\ UNCHANGED tsx
    ELSE /\ neg' = [neg EXCEPT ![p].state = "REMOTE_OFFER"]
         /\ Send(p, {}, out)
         /\ UNCHANGED tsx

\* process_answer(): the 2xx response, or a failure response.
RespondWith(p, r, n, out) ==
    /\ neg' = [neg EXCEPT ![p] = n]
    /\ tsx' = IF r.ok THEN tsx ELSE [tsx EXCEPT ![p] = NoTsx]
    /\ Send(p, {}, out \cup {IF r.ok THEN Reply(p, tsx[p], "ok", n.active_local)
                                     ELSE Reply(p, tsx[p], "fail", NoSdp)})

Respond(p) ==
    /\ Offering(p) /\ State(p) = "WAIT_NEGO"
    /\ LET r == Outcome(neg[p])
       IN  \E up \in Callbacks(p, neg[p], r) :
              RespondWith(p, r, inv_negotiate_sdp(neg[p], r, up), Called(p, neg[p], r, up))
    /\ UNCHANGED cseq

-----------------------------------------------------------------------------
(* Responses and ACKs.                                                     *)

\* A 2xx response to an INVITE with SDP that is not taken as an answer.  An offer
\* in it that was answered is negotiated for the ACK; an offer that on_rx_offer()
\* left stays with the negotiator, as no one looks at the status.
OfferIn2xx(p, m) ==
    /\ \E media \in OnRxOffer(p) :
          LET w == Offered(neg[p], m.sdp, media)
              r == Outcome(w)
          IN  IF w.state # "WAIT_NEGO"
              THEN /\ neg' = [neg EXCEPT ![p] = w]
                   /\ Send(p, {m}, {Reply(p, m, "ack", NoSdp)})
              ELSE \E up \in Callbacks(p, w, r) :
                      LET n == inv_negotiate_sdp(w, r, up)
                      IN  /\ neg' = [neg EXCEPT ![p] = n]
                          /\ Send(p, {m}, Called(p, w, r, up) \cup
                                     {Reply(p, m, "ack", IF r.ok THEN n.active_local ELSE NoSdp)})
    /\ tsx' = [tsx EXCEPT ![p] = NoTsx]
    /\ UNCHANGED cseq

OnInviteOk(p, m) ==
    /\ m.type = "ok" /\ m.method \in {"invite", "ask"}
    /\ IF State(p) = "LOCAL_OFFER" THEN TakesAnswer(p, m, TRUE, {Reply(p, m, "ack", NoSdp)})
                                   ELSE OfferIn2xx(p, m)

\* A failure response cancels any offer of ours.
OnInviteFail(p, m) ==
    /\ m.type = "fail" /\ m.method \in {"invite", "ask"}
    /\ IF neg[p].active_local = NoSdp THEN Ended
       ELSE /\ neg' = [neg EXCEPT ![p] = Unanswered(@)]
            /\ tsx' = [tsx EXCEPT ![p] = NoTsx]
            /\ Send(p, {m}, {})
            /\ UNCHANGED cseq

\* The ACK: its SDP counts if the INVITE had none, and in a confirmed session any
\* offer of ours is cancelled that it does not answer.
OnAck(p, m) ==
    /\ m.type = "ack"
    /\ IF m.cseq # tsx[p].cseq \/ Offering(p)
       THEN Send(p, {m}, {}) /\ UNCHANGED <<neg, tsx, cseq>>
       ELSE IF m.sdp # NoSdp /\ m.method = "ask" /\ State(p) = "LOCAL_OFFER"
       THEN TakesAnswer(p, m, TRUE, {})
       ELSE /\ \E media \in OnRxOffer(p) :
                  neg' = [neg EXCEPT ![p] =
                             IF m.sdp # NoSdp /\ m.method = "ask" THEN Offered(@, m.sdp, media)
                             ELSE IF tsx[p].role = "first" THEN @ ELSE Unanswered(@)]
            /\ tsx' = [tsx EXCEPT ![p] = NoTsx]
            /\ Send(p, {m}, {})
            /\ UNCHANGED cseq

\* inv_handle_update_response(): a response that finds no offer of ours is left,
\* and the end of its transaction cancels the offer it then finds.
OnUpdateResponse(p, m) ==
    /\ m.type \in {"ok", "fail"} /\ m.method = "update"
    /\ IF State(p) = "LOCAL_OFFER" /\ m.type = "ok" THEN TakesAnswer(p, m, FALSE, {})
       ELSE /\ neg' = [neg EXCEPT ![p] = Unanswered(@)]
            /\ Send(p, {m}, IF State(p) = "LOCAL_OFFER" THEN {}
                            ELSE {Message(p, "end", "update", m.cseq, NoSdp)})
            /\ UNCHANGED <<tsx, cseq>>

OnUpdateEnd(p, m) ==
    /\ m.type = "end"
    /\ neg' = [neg EXCEPT ![p] = Unanswered(@)]
    /\ Send(p, {m}, {})
    /\ UNCHANGED <<tsx, cseq>>

OnMessage(p) == \E m \in {x \in msgs : x.to = p} :
                    \/ OnInvite(p, m) \/ OnUpdate(p, m) \/ OnInviteOk(p, m) \/ OnInviteFail(p, m)
                    \/ OnAck(p, m) \/ OnUpdateResponse(p, m) \/ OnUpdateEnd(p, m)

Next == \E p \in Peers : \/ FirstOffer(p) \/ Reinvite(p) \/ Update(p)
                         \/ SetAnswer(p) \/ Refuse(p) \/ Respond(p) \/ OnMessage(p)

\* Messages arrive (the transactions retransmit them), and applications answer or
\* refuse: weak fairness of OnMessage(p), SetAnswer(p) and Respond(p), one of which
\* is enabled when something is pending, written out by what they change.
Pending(p) == Offering(p) \/ \E m \in msgs : m.to = p

Served(p) == \/ Offering(p) /\ State(p)' # State(p)
             \/ \E m \in msgs \ msgs' : m.to = p

Fairness == \A p \in Peers : []<>~Pending(p) \/ []<><<Served(p)>>_vars

Spec == Init /\ [][Next]_vars /\ Fairness

-----------------------------------------------------------------------------
(* Properties.                                                             *)

Media == [type : {"audio", "video"}, port : BOOLEAN, dir : SUBSET Both,
          fmts : Seq([pt : 0..127, enc : STRING])]

IsWire(s) == s.ver \in Nat /\ s.media \in Seq(Media)

IsSdp(s) == s = NoSdp \/ (DOMAIN s = {"ver", "media", "mem"} /\ IsWire(s) /\ s.mem \in Memory)

\* The variables have their types.
TypeOK ==
    /\ \A p \in Peers :
          /\ neg[p].state \in {"NULL", "LOCAL_OFFER", "REMOTE_OFFER", "WAIT_NEGO", "DONE"}
          /\ neg[p].has_remote_answer \in BOOLEAN
          /\ \A f \in {"initial", "neg_local", "neg_remote", "active_local", "active_remote"} :
                IsSdp(neg[p][f])
    /\ \A p \in Peers : tsx[p].role \in {"none", "uac", "uas", "first"} /\ tsx[p].cseq \in Nat
    /\ \A m \in msgs : /\ m.to \in Peers
                       /\ m.type \in {"request", "ok", "fail", "ack", "end"}
                       /\ m.method \in {"invite", "ask", "update"}
                       /\ m.sdp = NoSdp \/ IsWire(m.sdp)
    /\ offers \in 0..MaxOffers
    /\ \A p \in Peers : sent[p] \subseteq Nat
    /\ hollow \in BOOLEAN

Mirrored(m, n) ==
    /\ m.type = n.type /\ m.port = n.port
    /\ m.port => m.fmts = n.fmts /\ n.dir = {Opposite(d) : d \in m.dir}

\* When nothing is under way both parties have the same active session: the
\* same media lines, the same lines on, the same payload types in the same
\* order, and opposite directions.  It survives offers that cross, are refused
\* or fail.  An answer in which every medium is off is a success for the
\* answerer (sdp_neg.c:1389) and a failure for the offerer (sdp_neg.c:952), so
\* a call in which one was sent is left out.  So are overlap and nested: an
\* UPDATE made while one's own re-INVITE asks for an offer takes that offer as
\* its answer (sip_inv.c:2026), and one made in on_media_update() is cancelled
\* by the code that called it (sip_inv.c:5000).
MediaAgree ==
    (/\ ~conf.overlap /\ ~conf.nested /\ ~hollow
     /\ msgs = {} /\ \A p \in Peers : State(p) = "DONE" /\ neg[p].active_local # NoSdp) =>
        \A p \in Peers :
            LET m == neg[p].active_local.media
                n == neg[Other(p)].active_local.media
            IN  Len(m) = Len(n) /\ \A i \in DOMAIN m : Mirrored(m[i], n[i])

\* The application does nothing out of turn.
Orderly == ~conf.overlap /\ ~conf.decline /\ ~conf.nested

\* What is under way about an offer of p, and whether p has an offer to answer.
Concerns(p, m) == \/ m.to = Other(p) /\ IsOffer(m)
                  \/ m.to = p /\ IsReply(m)

Coming(p) == {m \in msgs : Concerns(p, m)}

Open(p) == State(p) \in {"REMOTE_OFFER", "WAIT_NEGO"}

\* A party that waits for an answer has exactly one coming: its offer is under
\* way, with the other party, or answered.  The other way round, an answer and a
\* refusal find the negotiator in the state that set_remote_answer() and
\* cancel_offer() assert (sdp_neg.c:456, sdp_neg.c:1398).  This is so for an
\* application that does nothing out of turn: each of the switches breaks it, as
\* an offer of its own then meets the responses and ACKs to another request
\* (sip_inv.c:2026, sip_inv.c:537, sip_inv.c:5000, sip_inv.c:5025), or an offer
\* that was left (sip_inv.c:2023) outlives the offerer's.
OneAnswerComing == Orderly =>
    \A p \in Peers :
        IF State(p) # "LOCAL_OFFER" THEN Coming(p) = {} /\ ~Open(Other(p))
        ELSE IF Open(Other(p)) THEN Coming(p) = {} ELSE \E m \in msgs : Coming(p) = {m}

\* The SDP in use and the SDP being negotiated are in memory that was not reset:
\* the two pools of the session are swapped and reset in step with the negotiator
\* (sip_inv.c:1848).  An UPDATE made in on_media_update() is left out: its offer
\* is in the pool that is then swapped, and reset while it is active, or reset at
\* once (sip_inv.c:1837-1852).
SdpHeld == ~conf.nested =>
    \A p \in Peers :
        \A f \in {"neg_local", "neg_remote", "active_local", "active_remote"} :
            neg[p][f] = NoSdp \/ neg[p][f].mem # "reset"

\* The active SDP offered again by send_local_offer().
Repeats(m) == m.type = "ok" /\ m.method = "ask" /\ m.sdp.ver = neg[Other(m.to)].active_local.ver

\* A new offer or an answer has a version its sender has not used in this call,
\* also after offers that were refused (sdp_neg.c:336, sdp_neg.c:1409): otherwise
\* the receiver may take it for one that it knows.  Left out are the active SDP
\* offered again, a call with an answer that has every medium off, see MediaAgree,
\* and overlap, in which a re-INVITE repeats the offer of an UPDATE (sip_inv.c:2832).
VersionsFresh ==
    [][\A m \in msgs' \ msgs :
          (m.sdp # NoSdp /\ ~Repeats(m) /\ ~hollow /\ ~conf.overlap) =>
              m.sdp.ver \notin sent[Other(m.to)]]_vars

\* When the application answers, the initial SDP that set_local_answer() retains
\* (sdp_neg.c:507) is in memory that was not reset.
InitialRetained ==
    [][\A p \in Peers : (State(p) = "REMOTE_OFFER" /\ State(p)' = "WAIT_NEGO") =>
          (neg[p].initial = NoSdp \/ neg[p].initial.mem # "reset")]_vars

\* Every negotiation comes to an end, whatever crosses: no negotiator is left
\* waiting for an answer or with an offer (sdp_neg.c:1473, sdp_neg.c:1416).  This
\* is so for an application that does nothing out of turn: an offer in a 2xx
\* response that on_rx_offer() leaves stays for ever (sip_inv.c:2023, ignored at
\* sip_inv.c:4996), and so does the SDP of an ACK that is taken for an offer,
\* because an offer out of turn has closed the negotiation that it answers.
NegotiationEnds ==
    \A p \in Peers : (Orderly /\ State(p) \notin {"NULL", "DONE"}) ~> (State(p) \in {"NULL", "DONE"})

=============================================================================
