----------------------------- MODULE SdpProofs ------------------------------
(***************************************************************************)
(* Proofs about SdpNeg: as long as the application does nothing out of     *)
(* turn, whatever is offered, asked for, refused or crosses, one answer    *)
(* comes for every offer; and, unless it makes an UPDATE in the callback   *)
(* on_media_update(), no SDP in use is in memory that was reset.  What the *)
(* negotiation makes of the media plays no part.                           *)
(***************************************************************************)
EXTENDS SdpNeg, TLAPS

\* The provers tried on a leaf that names none, in this order.
USE ZenonT(10), SMTT(30), Z3T(30)

-----------------------------------------------------------------------------
(* The inductive invariant of the negotiators.                             *)

NegFields == {"state", "has_remote_answer", "initial", "neg_local", "neg_remote",
              "active_local", "active_remote"}

SdpFields == {"ver", "media", "mem"}

States == {"NULL", "LOCAL_OFFER", "REMOTE_OFFER", "WAIT_NEGO", "DONE"}

\* An SDP of a negotiation in progress, and one in use, if any.
Provisional(s) == DOMAIN s = SdpFields /\ s.mem \in {"pool", "prov"}

InUse(s) == s = NoSdp \/ (DOMAIN s = SdpFields /\ s.mem \in {"pool", "active"})

\* What a negotiator has in each of its states.
Good(n) ==
    /\ DOMAIN n = NegFields
    /\ n.state \in States
    /\ n.neg_local = NoSdp \/ Provisional(n.neg_local)
    /\ n.neg_remote = NoSdp \/ Provisional(n.neg_remote)
    /\ n.state \in {"LOCAL_OFFER", "WAIT_NEGO"} => Provisional(n.neg_local)
    /\ n.state \in {"REMOTE_OFFER", "WAIT_NEGO"} => Provisional(n.neg_remote)
    /\ InUse(n.active_local)
    /\ InUse(n.active_remote)

Held == DOMAIN neg = Peers /\ DOMAIN tsx = Peers /\ \A p \in Peers : Good(neg[p])

-----------------------------------------------------------------------------
(* The operations on a negotiator.                                         *)

LEMMA CloneProvisional ==
    ASSUME NEW s, NEW pool \in {"pool", "prov"}
    PROVE  Provisional(Clone(pool, s))
  BY DEF Clone, Provisional, SdpFields

LEMMA NoNegGood == Good(NoNeg) /\ NoNeg.state = "NULL"
  BY DEF NoNeg, Good, NegFields, States, InUse

LEMMA create_w_local_offerGood ==
    ASSUME NEW s
    PROVE  Good(create_w_local_offer(s)) /\ create_w_local_offer(s).state = "LOCAL_OFFER"
  BY CloneProvisional DEF create_w_local_offer, Good, NegFields, States, InUse

LEMMA create_w_remote_offerGood ==
    ASSUME NEW s
    PROVE  Good(create_w_remote_offer(s)) /\ create_w_remote_offer(s).state = "REMOTE_OFFER"
  BY CloneProvisional DEF create_w_remote_offer, Good, NegFields, States, InUse

LEMMA modify_local_offer2Good ==
    ASSUME NEW n, Good(n), NEW s
    PROVE  Good(modify_local_offer2(n, s)) /\ modify_local_offer2(n, s).state = "LOCAL_OFFER"
<1>. DEFINE new == [ver |-> NextVersion(n.active_local), mem |-> "prov",
                    media |-> NewMedia(n.active_local.media, s.media)]
<1>1. Provisional(new)
  BY DEF Provisional, SdpFields
<1>2. modify_local_offer2(n, s)
        = [n EXCEPT !.state = "LOCAL_OFFER", !.initial = new, !.neg_local = new]
  BY DEF modify_local_offer2
<1>. HIDE DEF new
<1>. QED
  BY <1>1, <1>2 DEF Good, NegFields, States

LEMMA send_local_offerGood ==
    ASSUME NEW n, Good(n)
    PROVE  Good(send_local_offer(n)) /\ send_local_offer(n).state = "LOCAL_OFFER"
  BY CloneProvisional DEF send_local_offer, Good, NegFields, States

LEMMA set_remote_answerGood ==
    ASSUME NEW n, Good(n), n.state = "LOCAL_OFFER", NEW s
    PROVE  Good(set_remote_answer(n, s)) /\ set_remote_answer(n, s).state = "WAIT_NEGO"
  BY CloneProvisional DEF set_remote_answer, Good, NegFields, States

LEMMA set_remote_offerGood ==
    ASSUME NEW n, Good(n), NEW s
    PROVE  Good(set_remote_offer(n, s)) /\ set_remote_offer(n, s).state = "REMOTE_OFFER"
  BY CloneProvisional DEF set_remote_offer, Good, NegFields, States

LEMMA set_local_answerGood ==
    ASSUME NEW n, Good(n), n.state = "REMOTE_OFFER", NEW s
    PROVE  Good(set_local_answer(n, s)) /\ set_local_answer(n, s).state = "WAIT_NEGO"
  BY CloneProvisional DEF set_local_answer, Good, NegFields, States

LEMMA cancel_offerGood ==
    ASSUME NEW n, Good(n)
    PROVE  Good(cancel_offer(n)) /\ cancel_offer(n).state = "DONE"
<1>. DEFINE active == IF n.state = "LOCAL_OFFER" /\ n.active_local # NoSdp
                      THEN [n.active_local EXCEPT !.ver = n.active_local.ver + 1]
                      ELSE n.active_local
<1>1. InUse(active)
  BY DEF Good, InUse, SdpFields
<1>2. cancel_offer(n) = [n EXCEPT !.neg_local = NoSdp, !.neg_remote = NoSdp,
                            !.has_remote_answer = FALSE, !.active_local = active, !.state = "DONE"]
  BY DEF cancel_offer
<1>. HIDE DEF active
<1>. QED
  BY <1>1, <1>2 DEF Good, NegFields, States

\* A negotiation that succeeds makes provisional memory active; one that fails
\* leaves what is active alone.
LEMMA FlipFlopInUse ==
    ASSUME NEW s, NEW ok
    PROVE  /\ Provisional(s) /\ ok => InUse(FlipFlop(s, ok))
           /\ InUse(s) /\ ~ok => InUse(FlipFlop(s, ok))
  BY DEF FlipFlop, InUse, Provisional, SdpFields

LEMMA NowActiveProvisional ==
    ASSUME NEW n, Good(n), n.state = "WAIT_NEGO", NEW media
    PROVE  Provisional(NowActive(n, media))
  BY DEF NowActive, Good, Provisional, SdpFields

\* The callback of a configuration without nested does nothing.
LEMMA NoCallbacks ==
    ASSUME ~conf.nested, NEW p, NEW n, NEW r
    PROVE  Callbacks(p, n, r) = {NoSdp} /\ Called(p, n, r, NoSdp) = {}
  BY DEF Callbacks, Called

LEMMA inv_negotiate_sdpGood ==
    ASSUME NEW n, Good(n), n.state = "WAIT_NEGO", NEW r
    PROVE  Good(inv_negotiate_sdp(n, r, NoSdp)) /\ inv_negotiate_sdp(n, r, NoSdp).state = "DONE"
<1>. DEFINE local == IF r.ok THEN NowActive(n, r.local) ELSE n.active_local
            remote == IF r.ok THEN [n.neg_remote EXCEPT !.media = r.remote] ELSE n.active_remote
            after == negotiate(n, r)
<1>1. after = [n EXCEPT !.active_local = local, !.active_remote = remote, !.state = "DONE",
                        !.neg_local = NoSdp, !.neg_remote = NoSdp, !.has_remote_answer = FALSE]
  BY DEF negotiate
<1>2. InUse(FlipFlop(local, r.ok)) /\ InUse(FlipFlop(remote, r.ok))
  <2>1. CASE r.ok
    <3>1. Provisional(local) /\ Provisional(remote)
      BY <2>1, NowActiveProvisional DEF Good, Provisional, SdpFields
    <3>. QED
      BY <2>1, <3>1, FlipFlopInUse
  <2>2. CASE ~r.ok
    BY <2>2, FlipFlopInUse DEF Good
  <2>. QED
    BY <2>1, <2>2
<1>. HIDE DEF local, remote
<1>3. DOMAIN after = NegFields /\ after.state = "DONE" /\ after.neg_local = NoSdp
      /\ after.neg_remote = NoSdp /\ after.active_local = local /\ after.active_remote = remote
  BY <1>1 DEF Good, NegFields
<1>4. FlipFlop(after.neg_local, r.ok) = NoSdp
  BY <1>3 DEF FlipFlop
<1>5. InCallback(n, r, NoSdp) = after
  BY DEF InCallback
<1>. HIDE DEF after
<1>6. inv_negotiate_sdp(n, r, NoSdp)
        = [after EXCEPT !.initial = FlipFlop(after.initial, r.ok),
                        !.neg_local = FlipFlop(after.neg_local, r.ok),
                        !.active_local = FlipFlop(after.active_local, r.ok),
                        !.active_remote = FlipFlop(after.active_remote, r.ok)]
  BY <1>5 DEF inv_negotiate_sdp
<1>. QED
  BY <1>2, <1>3, <1>4, <1>6 DEF Good, NegFields, States

Closed(s) == IF s = "LOCAL_OFFER" THEN "DONE" ELSE s

LEMMA UnansweredGood ==
    ASSUME NEW n, Good(n)
    PROVE  Good(Unanswered(n)) /\ Unanswered(n).state = Closed(n.state)
  BY cancel_offerGood, SMTT(30), Z3T(30) DEF Unanswered, Closed

LEMMA OfferedGood ==
    ASSUME NEW n, Good(n), NEW s, NEW media
    PROVE  /\ Good(Offered(n, s, media))
           /\ n.state = "DONE" => Offered(n, s, media).state = IF media = NoSdp THEN "REMOTE_OFFER"
                                                                             ELSE "WAIT_NEGO"
           /\ n.state # "DONE" => Offered(n, s, media) = n
  BY set_remote_offerGood, set_local_answerGood DEF Offered

LEMMA ForReinviteGood ==
    ASSUME NEW n, Good(n), NEW media
    PROVE  /\ Good(ForReinvite(n, media))
           /\ n.state = "DONE" /\ media # NoSdp => ForReinvite(n, media).state = "LOCAL_OFFER"
           /\ media = NoSdp => ForReinvite(n, media) = n
  BY modify_local_offer2Good, set_local_answerGood DEF ForReinvite

LEMMA CreatedOfferGood ==
    ASSUME NEW n, Good(n), NEW media
    PROVE  Good(CreatedOffer(n, media)) /\ CreatedOffer(n, media).state = "LOCAL_OFFER"
  BY send_local_offerGood, modify_local_offer2Good DEF CreatedOffer

LEMMA OtherParty ==
    ASSUME NEW p \in Peers
    PROVE  Other(p) \in Peers /\ Other(p) # p /\ Other(Other(p)) = p /\ Peers = {p, Other(p)}
<1>1. PICK a, b \in Peers : a # b /\ Peers = {a, b}
  BY PeersAssumption
<1>2. \A x \in Peers : Other(x) \in Peers /\ Other(x) # x
  BY <1>1 DEF Other
<1>. QED
  BY <1>1, <1>2

-----------------------------------------------------------------------------
(* The inductive invariant of the parties.  S has the states of the        *)
(* negotiators, T the INVITE transactions and M the messages, so that a    *)
(* step is given by what it makes of them.                                 *)

OpenState(s) == s \in {"REMOTE_OFFER", "WAIT_NEGO"}

IsMessage(m) ==
    /\ m.type \in {"request", "ok", "fail", "ack"}
    /\ m.method \in {"invite", "ask", "update"}
    /\ m.type = "ack" => m.method # "update"

\* A message about an offer of p, between p and q.
About(p, q, m) == \/ m.to = q /\ IsOffer(m)
                  \/ m.to = p /\ IsReply(m)

\* An INVITE of p that q has not taken yet, or a response to it.
Calls(p, q, m) == \/ m.to = q /\ m.type = "request"
                  \/ m.to = p /\ m.type \in {"ok", "fail"}

\* A 2xx response of p to an INVITE, or the ACK to it.
Closes(p, q, m) == \/ m.to = q /\ m.type = "ok" /\ m.method # "update"
                   \/ m.to = p /\ m.type = "ack"

\* An offer of p is with q, or one message about it is under way.
OneOffer(S, M, p, q) ==
    /\ S[p] = "LOCAL_OFFER" => OpenState(S[q]) \/ \E m \in M : About(p, q, m)
    /\ OpenState(S[q]) => S[p] = "LOCAL_OFFER"
    /\ \A m \in M : About(p, q, m) => /\ S[p] = "LOCAL_OFFER" /\ ~OpenState(S[q])
                                      /\ \A k \in M : About(p, q, k) => k = m

\* An INVITE of p is under way only while it is pending with p; only one asks.
OneCall(S, T, M, p, q) ==
    /\ OpenState(S[q]) => T[p].role = "uac" /\ T[p].method = "invite"
    /\ \A m \in M : (Calls(p, q, m) /\ m.method \in {"invite", "ask"}) =>
          T[p].role = "uac" /\ T[p].method = m.method
    /\ \A m, k \in M : (Calls(p, q, m) /\ m.method = "ask" /\ Calls(p, q, k) /\ k.method = "ask") => k = m

\* A 2xx response of p and the ACK to it belong to the INVITE that is pending.
OneClosing(S, T, M, p, q) ==
    \A m \in M : Closes(p, q, m) =>
       /\ T[p].role \in {"uas", "first"} /\ T[p].method = m.method /\ T[p].cseq = m.cseq
       /\ ~OpenState(S[p])
       /\ \A k \in M : Closes(p, q, k) => k = m

\* What the INVITE that is pending says of the negotiator.
TsxState(s, t) ==
    /\ OpenState(s) => t.role \in {"uas", "first"} /\ t.method = "invite"
    /\ t.role = "uas" /\ t.method = "invite" => s # "LOCAL_OFFER"
    /\ t.role = "first" => t.method = "invite"
    /\ t.role = "uac" /\ t.method = "ask" => s = "DONE"
    /\ s = "NULL" => t.role = "none"

Party(S, T, M, p, q) ==
    /\ OneOffer(S, M, p, q)
    /\ OneCall(S, T, M, p, q)
    /\ OneClosing(S, T, M, p, q)
    /\ TsxState(S[p], T[p])

NegStates == [p \in Peers |-> State(p)]

Session == /\ \A m \in msgs : IsMessage(m)
           /\ \A p \in Peers : Party(NegStates, tsx, msgs, p, Other(p))
-----------------------------------------------------------------------------
(* What the steps make of it: p has done something that leaves q alone.    *)

Step(S, T, M, S2, T2, p, q) ==
    /\ p # q /\ S2[q] = S[q] /\ T2[q] = T[q]
    /\ \A m \in M : IsMessage(m)
    /\ Party(S, T, M, p, q) /\ Party(S, T, M, q, p)

\* A party begins the call, or makes a re-INVITE with an offer.
LEMMA RequestMade ==
    ASSUME NEW S, NEW T, NEW M, NEW S2, NEW T2, NEW M2, NEW p, NEW q,
           Step(S, T, M, S2, T2, p, q),
           S[p] \in {"NULL", "DONE"}, T[p].role = "none", S2[p] = "LOCAL_OFFER",
           T2[p].role = "uac", T2[p].method = "invite",
           NEW x, x.to = q, x.type = "request", x.method = "invite", M2 = M \cup {x}
    PROVE  Party(S2, T2, M2, p, q) /\ Party(S2, T2, M2, q, p)
<1>. USE SMTT(30), Z3T(30) DEF Step, Party, OneOffer, OneCall, OneClosing, TsxState, About, Calls, Closes,
          IsOffer, IsReply, OpenState, IsMessage
<1>1. OneOffer(S2, M2, p, q)
  OBVIOUS
<1>2. OneOffer(S2, M2, q, p)
  OBVIOUS
<1>3. OneCall(S2, T2, M2, p, q)
  OBVIOUS
<1>4. OneCall(S2, T2, M2, q, p)
  OBVIOUS
<1>5. OneClosing(S2, T2, M2, p, q) /\ OneClosing(S2, T2, M2, q, p)
  OBVIOUS
<1>6. TsxState(S2[p], T2[p]) /\ TsxState(S2[q], T2[q])
  OBVIOUS
<1>. HIDE DEF OneOffer, OneCall, OneClosing, TsxState
<1>. QED
  BY <1>1, <1>2, <1>3, <1>4, <1>5, <1>6 DEF Party

\* A party makes an UPDATE.
LEMMA UpdateMade ==
    ASSUME NEW S, NEW T, NEW M, NEW S2, NEW T2, NEW M2, NEW p, NEW q,
           Step(S, T, M, S2, T2, p, q),
           S[p] = "DONE", T[p].role \in {"none", "first"}, S2[p] = "LOCAL_OFFER", T2[p] = T[p],
           NEW x, x.to = q, x.type = "request", x.method = "update", M2 = M \cup {x}
    PROVE  Party(S2, T2, M2, p, q) /\ Party(S2, T2, M2, q, p)
<1>. USE SMTT(30), Z3T(30) DEF Step, Party, OneOffer, OneCall, OneClosing, TsxState, About, Calls, Closes,
          IsOffer, IsReply, OpenState, IsMessage
<1>1. OneOffer(S2, M2, p, q)
  OBVIOUS
<1>2. OneOffer(S2, M2, q, p)
  OBVIOUS
<1>3. OneCall(S2, T2, M2, p, q)
  OBVIOUS
<1>4. OneCall(S2, T2, M2, q, p)
  OBVIOUS
<1>5. OneClosing(S2, T2, M2, p, q) /\ OneClosing(S2, T2, M2, q, p)
  OBVIOUS
<1>6. TsxState(S2[p], T2[p]) /\ TsxState(S2[q], T2[q])
  OBVIOUS
<1>. HIDE DEF OneOffer, OneCall, OneClosing, TsxState
<1>. QED
  BY <1>1, <1>2, <1>3, <1>4, <1>5, <1>6 DEF Party

\* A party asks for an offer.
LEMMA AskMade ==
    ASSUME NEW S, NEW T, NEW M, NEW S2, NEW T2, NEW M2, NEW p, NEW q,
           Step(S, T, M, S2, T2, p, q),
           S[p] = "DONE", T[p].role = "none", S2[p] = S[p],
           T2[p].role = "uac", T2[p].method = "ask",
           NEW x, x.to = q, x.type = "request", x.method = "ask", M2 = M \cup {x}
    PROVE  Party(S2, T2, M2, p, q) /\ Party(S2, T2, M2, q, p)
<1>. USE SMTT(30), Z3T(30) DEF Step, Party, OneOffer, OneCall, OneClosing, TsxState, About, Calls, Closes,
          IsOffer, IsReply, OpenState, IsMessage
<1>1. OneOffer(S2, M2, p, q)
  OBVIOUS
<1>2. OneOffer(S2, M2, q, p)
  OBVIOUS
<1>3. OneCall(S2, T2, M2, p, q)
  OBVIOUS
<1>4. OneCall(S2, T2, M2, q, p)
  OBVIOUS
<1>5. OneClosing(S2, T2, M2, p, q) /\ OneClosing(S2, T2, M2, q, p)
  OBVIOUS
<1>6. TsxState(S2[p], T2[p]) /\ TsxState(S2[q], T2[q])
  OBVIOUS
<1>. HIDE DEF OneOffer, OneCall, OneClosing, TsxState
<1>. QED
  BY <1>1, <1>2, <1>3, <1>4, <1>5, <1>6 DEF Party

\* A request is refused, or an UPDATE answered.
LEMMA RequestAnswered ==
    ASSUME NEW S, NEW T, NEW M, NEW S2, NEW T2, NEW M2, NEW p, NEW q,
           Step(S, T, M, S2, T2, p, q),
           NEW m \in M, m.to = p, m.type = "request", S2[p] = S[p], T2[p] = T[p],
           NEW x, x.to = q, x.method = m.method, x.type \in {"ok", "fail"}, x.type = "ok" => m.method = "update",
           M2 = (M \ {m}) \cup {x}
    PROVE  Party(S2, T2, M2, p, q) /\ Party(S2, T2, M2, q, p)
<1>. USE SMTT(30), Z3T(30) DEF Step, Party, OneOffer, OneCall, OneClosing, TsxState, About, Calls, Closes,
          IsOffer, IsReply, OpenState, IsMessage
<1>1. OneOffer(S2, M2, p, q)
  OBVIOUS
<1>2. OneOffer(S2, M2, q, p)
  OBVIOUS
<1>3. OneCall(S2, T2, M2, p, q)
  OBVIOUS
<1>4. OneCall(S2, T2, M2, q, p)
  OBVIOUS
<1>5. OneClosing(S2, T2, M2, p, q) /\ OneClosing(S2, T2, M2, q, p)
  OBVIOUS
<1>6. TsxState(S2[p], T2[p]) /\ TsxState(S2[q], T2[q])
  OBVIOUS
<1>. HIDE DEF OneOffer, OneCall, OneClosing, TsxState
<1>. QED
  BY <1>1, <1>2, <1>3, <1>4, <1>5, <1>6 DEF Party

\* An INVITE with an offer is taken.
LEMMA InviteTaken ==
    ASSUME NEW S, NEW T, NEW M, NEW S2, NEW T2, NEW M2, NEW p, NEW q,
           Step(S, T, M, S2, T2, p, q),
           NEW m \in M, m.to = p, m.type = "request", m.method = "invite",
           S[p] \in {"NULL", "DONE"}, T[p].role = "none", S2[p] = "REMOTE_OFFER",
           T2[p].role \in {"uas", "first"}, T2[p].method = "invite",
           M2 = M \ {m}
    PROVE  Party(S2, T2, M2, p, q) /\ Party(S2, T2, M2, q, p)
<1>. USE SMTT(30), Z3T(30) DEF Step, Party, OneOffer, OneCall, OneClosing, TsxState, About, Calls, Closes,
          IsOffer, IsReply, OpenState, IsMessage
<1>1. OneOffer(S2, M2, p, q)
  OBVIOUS
<1>2. OneOffer(S2, M2, q, p)
  OBVIOUS
<1>3. OneCall(S2, T2, M2, p, q)
  OBVIOUS
<1>4. OneCall(S2, T2, M2, q, p)
  OBVIOUS
<1>5. OneClosing(S2, T2, M2, p, q) /\ OneClosing(S2, T2, M2, q, p)
  OBVIOUS
<1>6. TsxState(S2[p], T2[p]) /\ TsxState(S2[q], T2[q])
  OBVIOUS
<1>. HIDE DEF OneOffer, OneCall, OneClosing, TsxState
<1>. QED
  BY <1>1, <1>2, <1>3, <1>4, <1>5, <1>6 DEF Party

\* An INVITE without one is taken, and answered with an offer.
LEMMA AskTaken ==
    ASSUME NEW S, NEW T, NEW M, NEW S2, NEW T2, NEW M2, NEW p, NEW q,
           Step(S, T, M, S2, T2, p, q),
           NEW m \in M, m.to = p, m.type = "request", m.method = "ask",
           S[p] \in {"NULL", "DONE"}, T[p].role = "none", S2[p] = "LOCAL_OFFER",
           T2[p].role = "uas", T2[p].method = "ask", T2[p].cseq = m.cseq,
           NEW x, x.to = q, x.type = "ok", x.method = "ask", x.cseq = m.cseq, M2 = (M \ {m}) \cup {x}
    PROVE  Party(S2, T2, M2, p, q) /\ Party(S2, T2, M2, q, p)
<1>. USE SMTT(30), Z3T(30) DEF Step, Party, OneOffer, OneCall, OneClosing, TsxState, About, Calls, Closes,
          IsOffer, IsReply, OpenState, IsMessage
<1>1. OneOffer(S2, M2, p, q)
  OBVIOUS
<1>2. OneOffer(S2, M2, q, p)
  OBVIOUS
<1>3. OneCall(S2, T2, M2, p, q)
  OBVIOUS
<1>4. OneCall(S2, T2, M2, q, p)
  OBVIOUS
<1>5. OneClosing(S2, T2, M2, p, q) /\ OneClosing(S2, T2, M2, q, p)
  OBVIOUS
<1>6. TsxState(S2[p], T2[p]) /\ TsxState(S2[q], T2[q])
  OBVIOUS
<1>. HIDE DEF OneOffer, OneCall, OneClosing, TsxState
<1>. QED
  BY <1>1, <1>2, <1>3, <1>4, <1>5, <1>6 DEF Party

\* The application has answered.
LEMMA AnswerSet ==
    ASSUME NEW S, NEW T, NEW M, NEW S2, NEW T2, NEW M2, NEW p, NEW q,
           Step(S, T, M, S2, T2, p, q),
           OpenState(S[p]), OpenState(S2[p]), T2[p] = T[p], M2 = M
    PROVE  Party(S2, T2, M2, p, q) /\ Party(S2, T2, M2, q, p)
<1>. USE SMTT(30), Z3T(30) DEF Step, Party, OneOffer, OneCall, OneClosing, TsxState, About, Calls, Closes,
          IsOffer, IsReply, OpenState, IsMessage
<1>1. OneOffer(S2, M2, p, q)
  OBVIOUS
<1>2. OneOffer(S2, M2, q, p)
  OBVIOUS
<1>3. OneCall(S2, T2, M2, p, q)
  OBVIOUS
<1>4. OneCall(S2, T2, M2, q, p)
  OBVIOUS
<1>5. OneClosing(S2, T2, M2, p, q) /\ OneClosing(S2, T2, M2, q, p)
  OBVIOUS
<1>6. TsxState(S2[p], T2[p]) /\ TsxState(S2[q], T2[q])
  OBVIOUS
<1>. HIDE DEF OneOffer, OneCall, OneClosing, TsxState
<1>. QED
  BY <1>1, <1>2, <1>3, <1>4, <1>5, <1>6 DEF Party

\* An INVITE gets its 2xx response.
LEMMA InviteAnswered ==
    ASSUME NEW S, NEW T, NEW M, NEW S2, NEW T2, NEW M2, NEW p, NEW q,
           Step(S, T, M, S2, T2, p, q),
           OpenState(S[p]), S2[p] = "DONE", T2[p] = T[p],
           NEW x, x.to = q, x.type = "ok", x.method = "invite", x.cseq = T[p].cseq, M2 = M \cup {x}
    PROVE  Party(S2, T2, M2, p, q) /\ Party(S2, T2, M2, q, p)
<1>. USE SMTT(30), Z3T(30) DEF Step, Party, OneOffer, OneCall, OneClosing, TsxState, About, Calls, Closes,
          IsOffer, IsReply, OpenState, IsMessage
<1>1. OneOffer(S2, M2, p, q)
  OBVIOUS
<1>2. OneOffer(S2, M2, q, p)
  OBVIOUS
<1>3. OneCall(S2, T2, M2, p, q)
  OBVIOUS
<1>4. OneCall(S2, T2, M2, q, p)
  OBVIOUS
<1>5. OneClosing(S2, T2, M2, p, q) /\ OneClosing(S2, T2, M2, q, p)
  OBVIOUS
<1>6. TsxState(S2[p], T2[p]) /\ TsxState(S2[q], T2[q])
  OBVIOUS
<1>. HIDE DEF OneOffer, OneCall, OneClosing, TsxState
<1>. QED
  BY <1>1, <1>2, <1>3, <1>4, <1>5, <1>6 DEF Party

\* An INVITE gets a failure response.
LEMMA InviteRefused ==
    ASSUME NEW S, NEW T, NEW M, NEW S2, NEW T2, NEW M2, NEW p, NEW q,
           Step(S, T, M, S2, T2, p, q),
           OpenState(S[p]), S2[p] = "DONE", T2[p].role = "none",
           NEW x, x.to = q, x.type = "fail", x.method = "invite", M2 = M \cup {x}
    PROVE  Party(S2, T2, M2, p, q) /\ Party(S2, T2, M2, q, p)
<1>. USE SMTT(30), Z3T(30) DEF Step, Party, OneOffer, OneCall, OneClosing, TsxState, About, Calls, Closes,
          IsOffer, IsReply, OpenState, IsMessage
<1>1. OneOffer(S2, M2, p, q)
  OBVIOUS
<1>2. OneOffer(S2, M2, q, p)
  OBVIOUS
<1>3. OneCall(S2, T2, M2, p, q)
  OBVIOUS
<1>4. OneCall(S2, T2, M2, q, p)
  OBVIOUS
<1>5. OneClosing(S2, T2, M2, p, q) /\ OneClosing(S2, T2, M2, q, p)
  OBVIOUS
<1>6. TsxState(S2[p], T2[p]) /\ TsxState(S2[q], T2[q])
  OBVIOUS
<1>. HIDE DEF OneOffer, OneCall, OneClosing, TsxState
<1>. QED
  BY <1>1, <1>2, <1>3, <1>4, <1>5, <1>6 DEF Party

\* The answer in a 2xx response is taken, and the ACK sent.
LEMMA AnswerTaken ==
    ASSUME NEW S, NEW T, NEW M, NEW S2, NEW T2, NEW M2, NEW p, NEW q,
           Step(S, T, M, S2, T2, p, q),
           NEW m \in M, m.to = p, m.type = "ok", m.method = "invite",
           S2[p] = "DONE", T2[p].role = "none",
           NEW x, x.to = q, x.type = "ack", x.method = "invite", x.cseq = m.cseq, M2 = (M \ {m}) \cup {x}
    PROVE  Party(S2, T2, M2, p, q) /\ Party(S2, T2, M2, q, p)
<1>. USE SMTT(30), Z3T(30) DEF Step, Party, OneOffer, OneCall, OneClosing, TsxState, About, Calls, Closes,
          IsOffer, IsReply, OpenState, IsMessage
<1>1. OneOffer(S2, M2, p, q)
  OBVIOUS
<1>2. OneOffer(S2, M2, q, p)
  OBVIOUS
<1>3. OneCall(S2, T2, M2, p, q)
  OBVIOUS
<1>4. OneCall(S2, T2, M2, q, p)
  OBVIOUS
<1>5. OneClosing(S2, T2, M2, p, q) /\ OneClosing(S2, T2, M2, q, p)
  OBVIOUS
<1>6. TsxState(S2[p], T2[p]) /\ TsxState(S2[q], T2[q])
  OBVIOUS
<1>. HIDE DEF OneOffer, OneCall, OneClosing, TsxState
<1>. QED
  BY <1>1, <1>2, <1>3, <1>4, <1>5, <1>6 DEF Party

\* The offer in a 2xx response is taken, and answered in the ACK.
LEMMA OfferTaken ==
    ASSUME NEW S, NEW T, NEW M, NEW S2, NEW T2, NEW M2, NEW p, NEW q,
           Step(S, T, M, S2, T2, p, q),
           NEW m \in M, m.to = p, m.type = "ok", m.method = "ask",
           S2[p] = "DONE", T2[p].role = "none",
           NEW x, x.to = q, x.type = "ack", x.method = "ask", x.cseq = m.cseq, M2 = (M \ {m}) \cup {x}
    PROVE  Party(S2, T2, M2, p, q) /\ Party(S2, T2, M2, q, p)
<1>. USE SMTT(30), Z3T(30) DEF Step, Party, OneOffer, OneCall, OneClosing, TsxState, About, Calls, Closes,
          IsOffer, IsReply, OpenState, IsMessage
<1>1. OneOffer(S2, M2, p, q)
  OBVIOUS
<1>2. OneOffer(S2, M2, q, p)
  OBVIOUS
<1>3. OneCall(S2, T2, M2, p, q)
  OBVIOUS
<1>4. OneCall(S2, T2, M2, q, p)
  OBVIOUS
<1>5. OneClosing(S2, T2, M2, p, q) /\ OneClosing(S2, T2, M2, q, p)
  OBVIOUS
<1>6. TsxState(S2[p], T2[p]) /\ TsxState(S2[q], T2[q])
  OBVIOUS
<1>. HIDE DEF OneOffer, OneCall, OneClosing, TsxState
<1>. QED
  BY <1>1, <1>2, <1>3, <1>4, <1>5, <1>6 DEF Party

\* A failure response to an INVITE arrives.
LEMMA CallFailed ==
    ASSUME NEW S, NEW T, NEW M, NEW S2, NEW T2, NEW M2, NEW p, NEW q,
           Step(S, T, M, S2, T2, p, q),
           NEW m \in M, m.to = p, m.type = "fail", m.method \in {"invite", "ask"},
           S2[p] = "DONE", T2[p].role = "none", M2 = M \ {m}
    PROVE  Party(S2, T2, M2, p, q) /\ Party(S2, T2, M2, q, p)
<1>. USE SMTT(30), Z3T(30) DEF Step, Party, OneOffer, OneCall, OneClosing, TsxState, About, Calls, Closes,
          IsOffer, IsReply, OpenState, IsMessage
<1>1. OneOffer(S2, M2, p, q)
  OBVIOUS
<1>2. OneOffer(S2, M2, q, p)
  OBVIOUS
<1>3. OneCall(S2, T2, M2, p, q)
  OBVIOUS
<1>4. OneCall(S2, T2, M2, q, p)
  OBVIOUS
<1>5. OneClosing(S2, T2, M2, p, q) /\ OneClosing(S2, T2, M2, q, p)
  OBVIOUS
<1>6. TsxState(S2[p], T2[p]) /\ TsxState(S2[q], T2[q])
  OBVIOUS
<1>. HIDE DEF OneOffer, OneCall, OneClosing, TsxState
<1>. QED
  BY <1>1, <1>2, <1>3, <1>4, <1>5, <1>6 DEF Party

\* The ACK arrives.
LEMMA AckTaken ==
    ASSUME NEW S, NEW T, NEW M, NEW S2, NEW T2, NEW M2, NEW p, NEW q,
           Step(S, T, M, S2, T2, p, q),
           NEW m \in M, m.to = p, m.type = "ack", T2[p].role = "none", M2 = M \ {m},
           S2[p] = IF m.method = "ask" THEN "DONE" ELSE S[p]
    PROVE  Party(S2, T2, M2, p, q) /\ Party(S2, T2, M2, q, p)
<1>. USE SMTT(30), Z3T(30) DEF Step, Party, OneOffer, OneCall, OneClosing, TsxState, About, Calls, Closes,
          IsOffer, IsReply, OpenState, IsMessage
<1>1. OneOffer(S2, M2, p, q)
  OBVIOUS
<1>2. OneOffer(S2, M2, q, p)
  OBVIOUS
<1>3. OneCall(S2, T2, M2, p, q)
  OBVIOUS
<1>4. OneCall(S2, T2, M2, q, p)
  OBVIOUS
<1>5. OneClosing(S2, T2, M2, p, q) /\ OneClosing(S2, T2, M2, q, p)
  OBVIOUS
<1>6. TsxState(S2[p], T2[p]) /\ TsxState(S2[q], T2[q])
  OBVIOUS
<1>. HIDE DEF OneOffer, OneCall, OneClosing, TsxState
<1>. QED
  BY <1>1, <1>2, <1>3, <1>4, <1>5, <1>6 DEF Party

\* A response to an UPDATE arrives.
LEMMA UpdateClosed ==
    ASSUME NEW S, NEW T, NEW M, NEW S2, NEW T2, NEW M2, NEW p, NEW q,
           Step(S, T, M, S2, T2, p, q),
           NEW m \in M, m.to = p, m.type \in {"ok", "fail"}, m.method = "update",
           S2[p] = "DONE", T2[p] = T[p], M2 = M \ {m}
    PROVE  Party(S2, T2, M2, p, q) /\ Party(S2, T2, M2, q, p)
<1>. USE SMTT(30), Z3T(30) DEF Step, Party, OneOffer, OneCall, OneClosing, TsxState, About, Calls, Closes,
          IsOffer, IsReply, OpenState, IsMessage
<1>1. OneOffer(S2, M2, p, q)
  OBVIOUS
<1>2. OneOffer(S2, M2, q, p)
  OBVIOUS
<1>3. OneCall(S2, T2, M2, p, q)
  OBVIOUS
<1>4. OneCall(S2, T2, M2, q, p)
  OBVIOUS
<1>5. OneClosing(S2, T2, M2, p, q) /\ OneClosing(S2, T2, M2, q, p)
  OBVIOUS
<1>6. TsxState(S2[p], T2[p]) /\ TsxState(S2[q], T2[q])
  OBVIOUS
<1>. HIDE DEF OneOffer, OneCall, OneClosing, TsxState
<1>. QED
  BY <1>1, <1>2, <1>3, <1>4, <1>5, <1>6 DEF Party

-----------------------------------------------------------------------------
(* The actions.                                                            *)

\* p goes to state s of its negotiator and has t pending, the messages in gone are
\* handled and those in out sent.
Acts(p, s, t, gone, out) ==
    /\ DOMAIN neg' = Peers /\ Good(neg'[p]) /\ State(p)' = s /\ neg'[Other(p)] = neg[Other(p)]
    /\ DOMAIN tsx' = Peers /\ tsx'[p] = t /\ tsx'[Other(p)] = tsx[Other(p)]
    /\ msgs' = (msgs \ gone) \cup out
    /\ conf' = conf

LEMMA ActsBy ==
    ASSUME Held, NEW p \in Peers, NEW n, Good(n), NEW gone, NEW out, Send(p, gone, out),
           neg' = [neg EXCEPT ![p] = n]
    PROVE  /\ tsx' = tsx => Acts(p, n.state, tsx[p], gone, out)
           /\ \A t : tsx' = [tsx EXCEPT ![p] = t] => Acts(p, n.state, t, gone, out)
<1>1. Other(p) \in Peers /\ Other(p) # p
  BY OtherParty
<1>2. DOMAIN neg' = Peers /\ neg'[p] = n /\ neg'[Other(p)] = neg[Other(p)]
  BY <1>1 DEF Held
<1>3. State(p)' = n.state /\ Good(neg'[p])
  BY <1>2 DEF State
<1>4. msgs' = (msgs \ gone) \cup out /\ conf' = conf
  BY DEF Send
<1>5. tsx' = tsx => Acts(p, n.state, tsx[p], gone, out)
  BY <1>2, <1>3, <1>4 DEF Acts, Held
<1>6. ASSUME NEW t, tsx' = [tsx EXCEPT ![p] = t] PROVE Acts(p, n.state, t, gone, out)
  <2>1. DOMAIN tsx' = Peers /\ tsx'[p] = t /\ tsx'[Other(p)] = tsx[Other(p)]
    BY <1>1, <1>6 DEF Held
  <2>. QED
    BY <1>2, <1>3, <1>4, <2>1 DEF Acts
<1>. QED
  BY <1>5, <1>6

\* The same without a change of the negotiator.
LEMMA ActsSame ==
    ASSUME Held, NEW p \in Peers, NEW gone, NEW out, Send(p, gone, out), neg' = neg, tsx' = tsx
    PROVE  Acts(p, State(p), tsx[p], gone, out)
  BY OtherParty DEF Acts, Held, Send, State

LEMMA FirstOfferActs ==
    ASSUME Held, NEW p \in Peers, FirstOffer(p)
    PROVE  /\ State(p) = "NULL"
           /\ \E s : Acts(p, "LOCAL_OFFER", [role |-> "uac", method |-> "invite", cseq |-> offers + 1],
                          {}, {Message(Other(p), "request", "invite", offers + 1, s)})
<1>1. PICK media \in conf.caps[p] :
         /\ neg' = [neg EXCEPT ![p] = create_w_local_offer(Local(media))]
         /\ Send(p, {}, {Message(Other(p), "request", "invite", offers + 1,
                                 create_w_local_offer(Local(media)).neg_local)})
  BY DEF FirstOffer
<1>. DEFINE n == create_w_local_offer(Local(media))
            t == [role |-> "uac", method |-> "invite", cseq |-> offers + 1]
            x == Message(Other(p), "request", "invite", offers + 1, n.neg_local)
<1>2. Good(n) /\ n.state = "LOCAL_OFFER"
  BY create_w_local_offerGood
<1>3. State(p) = "NULL" /\ tsx' = [tsx EXCEPT ![p] = t]
  BY DEF FirstOffer
<1>4. neg' = [neg EXCEPT ![p] = n] /\ Send(p, {}, {x})
  BY <1>1
<1>5. Acts(p, "LOCAL_OFFER", t, {}, {x})
  <2>. HIDE DEF n, t, x
  <2>. QED
    BY <1>2, <1>3, <1>4, ActsBy
<1>. QED
  BY <1>3, <1>5

LEMMA ReinviteActs ==
    ASSUME Held, NEW p \in Peers, Reinvite(p)
    PROVE  /\ tsx[p].role = "none"
           /\ State(p) = "DONE" \/ conf.overlap
           /\ \E st \in States, method \in {"invite", "ask"} : \E s :
                 /\ Acts(p, st, [role |-> "uac", method |-> method, cseq |-> offers + 1],
                         {}, {Message(Other(p), "request", method, offers + 1, s)})
                 /\ State(p) = "DONE" => st = IF method = "invite" THEN "LOCAL_OFFER" ELSE "DONE"
<1>1. PICK media \in conf.caps[p] \cup {NoSdp} :
         LET n == ForReinvite(neg[p], media)
             method == IF SendsSdp(n) THEN "invite" ELSE "ask"
             body == IF SendsSdp(n) THEN n.neg_local ELSE NoSdp
         IN  /\ neg' = [neg EXCEPT ![p] = n]
             /\ tsx' = [tsx EXCEPT ![p] = [role |-> "uac", method |-> method, cseq |-> offers + 1]]
             /\ Send(p, {}, {Message(Other(p), "request", method, offers + 1, body)})
  BY DEF Reinvite
<1>. DEFINE n == ForReinvite(neg[p], media)
            method == IF SendsSdp(n) THEN "invite" ELSE "ask"
            body == IF SendsSdp(n) THEN n.neg_local ELSE NoSdp
            t == [role |-> "uac", method |-> method, cseq |-> offers + 1]
            x == Message(Other(p), "request", method, offers + 1, body)
<1>2. /\ neg' = [neg EXCEPT ![p] = n]
      /\ tsx' = [tsx EXCEPT ![p] = t]
      /\ Send(p, {}, {x})
  BY <1>1
<1>3. Good(neg[p]) /\ Good(n) /\ n.state \in States
  BY ForReinviteGood DEF Held, Good
<1>4. State(p) = "DONE" => n.state = IF method = "invite" THEN "LOCAL_OFFER" ELSE "DONE"
  BY <1>3, ForReinviteGood DEF SendsSdp, State
<1>5. tsx[p].role = "none" /\ (State(p) = "DONE" \/ conf.overlap)
  BY DEF Reinvite
<1>6. Acts(p, n.state, t, {}, {x})
  <2>. HIDE DEF n, t, x
  <2>. QED
    BY <1>2, <1>3, ActsBy
<1>. QED
  <2>1. method \in {"invite", "ask"}
    OBVIOUS
  <2>. HIDE DEF n, method, body
  <2>. QED
    BY <1>3, <1>4, <1>5, <1>6, <2>1

LEMMA UpdateActs ==
    ASSUME Held, NEW p \in Peers, Update(p)
    PROVE  /\ State(p) = "DONE" /\ (tsx[p].role \in {"none", "first"} \/ conf.overlap)
           /\ \E s : Acts(p, "LOCAL_OFFER", tsx[p], {},
                          {Message(Other(p), "request", "update", offers + 1, s)})
<1>1. PICK media \in conf.caps[p] :
         /\ neg' = [neg EXCEPT ![p] = modify_local_offer2(neg[p], Local(media))]
         /\ Send(p, {}, {Message(Other(p), "request", "update", offers + 1,
                                 modify_local_offer2(neg[p], Local(media)).neg_local)})
  BY DEF Update
<1>. DEFINE n == modify_local_offer2(neg[p], Local(media))
            x == Message(Other(p), "request", "update", offers + 1, n.neg_local)
<1>2. Good(n) /\ n.state = "LOCAL_OFFER"
  BY modify_local_offer2Good DEF Held
<1>3. State(p) = "DONE" /\ (tsx[p].role \in {"none", "first"} \/ conf.overlap) /\ tsx' = tsx
  BY DEF Update
<1>4. neg' = [neg EXCEPT ![p] = n] /\ Send(p, {}, {x})
  BY <1>1
<1>5. Acts(p, "LOCAL_OFFER", tsx[p], {}, {x})
  <2>. HIDE DEF n, x
  <2>. QED
    BY <1>2, <1>3, <1>4, ActsBy
<1>. QED
  BY <1>3, <1>5

LEMMA RefusedActs ==
    ASSUME Held, NEW p \in Peers, NEW m, Refused(p, m)
    PROVE  Acts(p, State(p), tsx[p], {m}, {Reply(p, m, "fail", NoSdp)})
  BY ActsSame DEF Refused

LEMMA OnInviteActs ==
    ASSUME Held, NEW p \in Peers, NEW m, OnInvite(p, m)
    PROVE  /\ m.type = "request"
           /\ \/ Acts(p, State(p), tsx[p], {m}, {Reply(p, m, "fail", NoSdp)})
              \/ /\ m.method = "invite" /\ tsx[p].role = "none" /\ State(p) \in {"NULL", "DONE"}
                 /\ \E role \in {"uas", "first"} :
                       Acts(p, "REMOTE_OFFER", [role |-> role, method |-> "invite", cseq |-> m.cseq], {m}, {})
              \/ /\ m.method = "ask" /\ tsx[p].role = "none" /\ State(p) \in {"NULL", "DONE"}
                 /\ \E s : Acts(p, "LOCAL_OFFER", [role |-> "uas", method |-> "ask", cseq |-> m.cseq],
                                {m}, {Reply(p, m, "ok", s)})
<1>1. m.type = "request" /\ Good(neg[p])
  BY DEF OnInvite, Held
<1>2. CASE Refused(p, m)
  BY <1>1, <1>2, RefusedActs
<1>3. CASE ~Refused(p, m)
  <2>1. tsx[p].role = "none" /\ State(p) \in {"NULL", "DONE"}
    BY <1>3 DEF OnInvite, CanInvite
  <2>2. CASE m.method = "invite"
    <3>. DEFINE n == IF neg[p].state = "NULL" THEN create_w_remote_offer(m.sdp)
                                              ELSE set_remote_offer(neg[p], m.sdp)
                role == IF State(p) = "NULL" THEN "first" ELSE "uas"
                t == [role |-> role, method |-> "invite", cseq |-> m.cseq]
    <3>1. neg' = [neg EXCEPT ![p] = n] /\ Send(p, {m}, {}) /\ tsx' = [tsx EXCEPT ![p] = t]
      BY <1>3, <2>2 DEF OnInvite
    <3>2. Good(n) /\ n.state = "REMOTE_OFFER" /\ role \in {"uas", "first"}
      BY <1>1, create_w_remote_offerGood, set_remote_offerGood
    <3>3. Acts(p, "REMOTE_OFFER", t, {m}, {})
      <4>. HIDE DEF n, t
      <4>. QED
        BY <3>1, <3>2, ActsBy
    <3>. HIDE DEF role
    <3>. QED
      BY <1>1, <2>1, <2>2, <3>2, <3>3
  <2>3. CASE m.method # "invite"
    <3>1. PICK media \in conf.caps[p] \cup {NoSdp} :
             /\ neg' = [neg EXCEPT ![p] = CreatedOffer(neg[p], media)]
             /\ Send(p, {m}, {Reply(p, m, "ok", CreatedOffer(neg[p], media).neg_local)})
      BY <1>3, <2>3 DEF OnInvite
    <3>. DEFINE n == CreatedOffer(neg[p], media)
                t == [role |-> "uas", method |-> "ask", cseq |-> m.cseq]
                x == Reply(p, m, "ok", n.neg_local)
    <3>2. m.method = "ask" /\ tsx' = [tsx EXCEPT ![p] = t]
      BY <1>3, <2>3 DEF OnInvite
    <3>3. Good(n) /\ n.state = "LOCAL_OFFER"
      BY <1>1, CreatedOfferGood
    <3>4. neg' = [neg EXCEPT ![p] = n] /\ Send(p, {m}, {x})
      BY <3>1
    <3>5. Acts(p, "LOCAL_OFFER", t, {m}, {x})
      <4>. HIDE DEF n, t, x
      <4>. QED
        BY <3>2, <3>3, <3>4, ActsBy
    <3>. QED
      BY <1>1, <2>1, <3>2, <3>5
  <2>. QED
    BY <2>2, <2>3
<1>. QED
  BY <1>2, <1>3

LEMMA OnUpdateActs ==
    ASSUME Held, conf \in Configs, ~conf.nested, NEW p \in Peers, NEW m, OnUpdate(p, m)
    PROVE  /\ m.type = "request" /\ m.method = "update"
           /\ \E type \in {"ok", "fail"} : \E s :
                 Acts(p, State(p), tsx[p], {m}, {Reply(p, m, type, s)})
<1>1. m.type = "request" /\ m.method = "update" /\ Good(neg[p])
  BY DEF OnUpdate, Held
<1>2. CASE Refused(p, m)
  BY <1>1, <1>2, RefusedActs
<1>3. CASE ~Refused(p, m)
  <2>1. State(p) = "DONE" /\ neg[p].state = "DONE" /\ tsx' = tsx
    BY <1>3 DEF OnUpdate, State
  <2>. DEFINE c == cancel_offer(Offered(neg[p], m.sdp, NoSdp))
              f == Reply(p, m, "fail", NoSdp)
  <2>2. CASE neg' = [neg EXCEPT ![p] = c] /\ Send(p, {m}, {f})
    <3>1. Good(c) /\ c.state = "DONE"
      BY <1>1, OfferedGood, cancel_offerGood
    <3>2. Acts(p, "DONE", tsx[p], {m}, {f})
      <4>. HIDE DEF c, f
      <4>. QED
        BY <2>1, <2>2, <3>1, ActsBy
    <3>. QED
      BY <1>1, <2>1, <3>2
  <2>3. CASE ~(neg' = [neg EXCEPT ![p] = c] /\ Send(p, {m}, {f}))
    <3>1. PICK media \in conf.caps[p] :
             LET w == Offered(neg[p], m.sdp, media)
                 r == Outcome(w)
             IN  \E up \in Callbacks(p, w, r) :
                    LET n == inv_negotiate_sdp(w, r, up)
                    IN  /\ neg' = [neg EXCEPT ![p] = IF r.ok THEN n ELSE Unanswered(n)]
                        /\ Send(p, {m}, Called(p, w, r, up) \cup
                                   {IF r.ok THEN Reply(p, m, "ok", n.active_local)
                                            ELSE Reply(p, m, "fail", NoSdp)})
      BY <1>3, <2>3 DEF OnUpdate
    <3>. DEFINE w == Offered(neg[p], m.sdp, media)
                r == Outcome(w)
                n == inv_negotiate_sdp(w, r, NoSdp)
                after == IF r.ok THEN n ELSE Unanswered(n)
                x == IF r.ok THEN Reply(p, m, "ok", n.active_local) ELSE Reply(p, m, "fail", NoSdp)
    <3>2. media # NoSdp
      BY ConfigsAssumption
    <3>3. Good(w) /\ w.state = "WAIT_NEGO"
      BY <1>1, <2>1, <3>2, OfferedGood, SMTT(30), Z3T(30)
    <3>4. Callbacks(p, w, r) = {NoSdp} /\ Called(p, w, r, NoSdp) = {}
      BY NoCallbacks
    <3>5. neg' = [neg EXCEPT ![p] = after] /\ Send(p, {m}, {x})
      <4>1. neg' = [neg EXCEPT ![p] = after] /\ Send(p, {m}, {} \cup {x})
        BY <3>1, <3>4
      <4>. QED
        <5>1. {} \cup {x} = {x}
          OBVIOUS
        <5>. HIDE DEF x
        <5>. QED
          BY <4>1, <5>1
    <3>6. Good(after) /\ after.state = "DONE"
      <4>1. Good(n) /\ n.state = "DONE"
        <5>. HIDE DEF w, r
        <5>. QED
          BY <3>3, inv_negotiate_sdpGood
      <4>. HIDE DEF n
      <4>. QED
        BY <4>1, UnansweredGood DEF Closed
    <3>7. Acts(p, "DONE", tsx[p], {m}, {x})
      <4>. HIDE DEF after, x
      <4>. QED
        BY <2>1, <3>5, <3>6, ActsBy
    <3>8. \E type \in {"ok", "fail"} : \E s : x = Reply(p, m, type, s)
      <4>. HIDE DEF n, r
      <4>. QED
        OBVIOUS
    <3>. HIDE DEF x
    <3>. QED
      BY <1>1, <2>1, <3>7, <3>8
  <2>. QED
    BY <2>2, <2>3
<1>. QED
  BY <1>2, <1>3

LEMMA SetAnswerActs ==
    ASSUME Held, NEW p \in Peers, SetAnswer(p)
    PROVE  OpenState(State(p)) /\ Acts(p, "WAIT_NEGO", tsx[p], {}, {})
<1>1. PICK media \in conf.caps[p] :
         neg' = [neg EXCEPT ![p] = set_local_answer(neg[p], Local(media))]
  BY DEF SetAnswer
<1>. DEFINE n == set_local_answer(neg[p], Local(media))
<1>2. State(p) = "REMOTE_OFFER" /\ tsx' = tsx /\ msgs' = msgs /\ conf' = conf
  BY DEF SetAnswer
<1>3. Good(n) /\ n.state = "WAIT_NEGO"
  BY <1>2, set_local_answerGood DEF Held, State
<1>. HIDE DEF n
<1>4. /\ DOMAIN neg' = Peers /\ neg'[p] = n /\ neg'[Other(p)] = neg[Other(p)]
      /\ msgs' = (msgs \ {}) \cup {}
  BY <1>1, <1>2, OtherParty DEF Held, n
<1>. QED
  BY <1>2, <1>3, <1>4 DEF Acts, Held, State, OpenState

LEMMA RefuseActs ==
    ASSUME Held, NEW p \in Peers, Refuse(p)
    PROVE  OpenState(State(p)) /\ Acts(p, "DONE", NoTsx, {}, {Reply(p, tsx[p], "fail", NoSdp)})
<1>. DEFINE n == cancel_offer(neg[p])
            x == Reply(p, tsx[p], "fail", NoSdp)
<1>1. neg' = [neg EXCEPT ![p] = n] /\ Send(p, {}, {x}) /\ tsx' = [tsx EXCEPT ![p] = NoTsx]
      /\ State(p) = "REMOTE_OFFER"
  BY DEF Refuse
<1>2. Good(n) /\ n.state = "DONE"
  BY cancel_offerGood DEF Held
<1>3. Acts(p, "DONE", NoTsx, {}, {x})
  <2>. HIDE DEF n, x
  <2>. QED
    BY <1>1, <1>2, ActsBy
<1>. QED
  BY <1>1, <1>3 DEF OpenState

LEMMA RespondActs ==
    ASSUME Held, ~conf.nested, NEW p \in Peers, Respond(p)
    PROVE  /\ OpenState(State(p))
           /\ \/ \E s : Acts(p, "DONE", tsx[p], {}, {Reply(p, tsx[p], "ok", s)})
              \/ Acts(p, "DONE", NoTsx, {}, {Reply(p, tsx[p], "fail", NoSdp)})
<1>. DEFINE r == Outcome(neg[p])
            n == inv_negotiate_sdp(neg[p], r, NoSdp)
            x == IF r.ok THEN Reply(p, tsx[p], "ok", n.active_local) ELSE Reply(p, tsx[p], "fail", NoSdp)
<1>1. Callbacks(p, neg[p], r) = {NoSdp} /\ Called(p, neg[p], r, NoSdp) = {}
  BY NoCallbacks
<1>2. State(p) = "WAIT_NEGO" /\ RespondWith(p, r, n, {})
  BY <1>1 DEF Respond
<1>3. neg' = [neg EXCEPT ![p] = n] /\ Send(p, {}, {} \cup {x})
      /\ tsx' = IF r.ok THEN tsx ELSE [tsx EXCEPT ![p] = NoTsx]
  BY <1>2 DEF RespondWith
<1>4. Good(n) /\ n.state = "DONE"
  <2>1. Good(neg[p]) /\ neg[p].state = "WAIT_NEGO"
    BY <1>2 DEF Held, State
  <2>. HIDE DEF r
  <2>. QED
    BY <2>1, inv_negotiate_sdpGood
<1>5. Send(p, {}, {x})
  <2>1. {} \cup {x} = {x}
    OBVIOUS
  <2>. HIDE DEF x
  <2>. QED
    BY <1>3, <2>1
<1>6. CASE r.ok
  <2>1. Acts(p, "DONE", tsx[p], {}, {x}) /\ x = Reply(p, tsx[p], "ok", n.active_local)
    <3>1. x = Reply(p, tsx[p], "ok", n.active_local)
      BY <1>6
    <3>. HIDE DEF n, r, x
    <3>. QED
      BY <1>3, <1>4, <1>5, <1>6, <3>1, ActsBy
  <2>. HIDE DEF n, x
  <2>. QED
    BY <1>2, <2>1 DEF OpenState
<1>7. CASE ~r.ok
  <2>1. Acts(p, "DONE", NoTsx, {}, {x}) /\ x = Reply(p, tsx[p], "fail", NoSdp)
    <3>1. x = Reply(p, tsx[p], "fail", NoSdp)
      BY <1>7
    <3>. HIDE DEF n, r, x
    <3>. QED
      BY <1>3, <1>4, <1>5, <1>7, <3>1, ActsBy
  <2>. HIDE DEF n, x
  <2>. QED
    BY <1>2, <2>1 DEF OpenState
<1>. QED
  BY <1>6, <1>7

LEMMA TakesAnswerActs ==
    ASSUME Held, ~conf.nested, NEW p \in Peers, State(p) = "LOCAL_OFFER", NEW m,
           NEW closes \in BOOLEAN, NEW out, TakesAnswer(p, m, closes, out)
    PROVE  Ended \/ Acts(p, "DONE", IF closes THEN NoTsx ELSE tsx[p], {m}, out)
<1>. SUFFICES ASSUME ~Ended
              PROVE  Acts(p, "DONE", IF closes THEN NoTsx ELSE tsx[p], {m}, out)
  OBVIOUS
<1>. DEFINE w == set_remote_answer(neg[p], m.sdp)
            r == Outcome(w)
            n == inv_negotiate_sdp(w, r, NoSdp)
            after == IF closes /\ w.active_local # NoSdp THEN Unanswered(n) ELSE n
<1>1. Callbacks(p, w, r) = {NoSdp} /\ Called(p, w, r, NoSdp) = {}
  BY NoCallbacks
<1>2. /\ neg' = [neg EXCEPT ![p] = after] /\ Send(p, {m}, out \cup {})
      /\ tsx' = IF closes THEN [tsx EXCEPT ![p] = NoTsx] ELSE tsx
  BY <1>1 DEF TakesAnswer
<1>3. Send(p, {m}, out)
  <2>1. out \cup {} = out
    OBVIOUS
  <2>. QED
    BY <1>2, <2>1
<1>4. Good(after) /\ after.state = "DONE"
  <2>1. Good(w) /\ w.state = "WAIT_NEGO"
    BY set_remote_answerGood DEF Held, State
  <2>2. Good(n) /\ n.state = "DONE"
    <3>. HIDE DEF w, r
    <3>. QED
      BY <2>1, inv_negotiate_sdpGood
  <2>. HIDE DEF n, w
  <2>. QED
    BY <2>2, UnansweredGood DEF Closed
<1>. HIDE DEF after
<1>. QED
  BY <1>2, <1>3, <1>4, ActsBy

LEMMA OfferIn2xxActs ==
    ASSUME Held, conf \in Configs, ~conf.nested, NEW p \in Peers, NEW m, OfferIn2xx(p, m)
    PROVE  \E st \in States : \E s :
              /\ Acts(p, st, NoTsx, {m}, {Reply(p, m, "ack", s)})
              /\ State(p) = "DONE" /\ ~conf.decline => st = "DONE"
<1>1. PICK media \in OnRxOffer(p) :
         LET w == Offered(neg[p], m.sdp, media)
             r == Outcome(w)
         IN  IF w.state # "WAIT_NEGO"
             THEN /\ neg' = [neg EXCEPT ![p] = w]
                  /\ Send(p, {m}, {Reply(p, m, "ack", NoSdp)})
             ELSE \E up \in Callbacks(p, w, r) :
                     LET n == inv_negotiate_sdp(w, r, up)
                     IN  /\ neg' = [neg EXCEPT ![p] = n]
                         /\ Send(p, {m}, Called(p, w, r, up) \cup
                                    {Reply(p, m, "ack", IF r.ok THEN n.active_local ELSE NoSdp)})
  BY DEF OfferIn2xx
<1>. DEFINE w == Offered(neg[p], m.sdp, media)
            r == Outcome(w)
            n == inv_negotiate_sdp(w, r, NoSdp)
            s == IF r.ok THEN n.active_local ELSE NoSdp
            x == Reply(p, m, "ack", s)
            y == Reply(p, m, "ack", NoSdp)
<1>2. tsx' = [tsx EXCEPT ![p] = NoTsx]
  BY DEF OfferIn2xx
<1>3. Good(w) /\ w.state \in States
  BY OfferedGood DEF Held, Good
<1>4. CASE w.state # "WAIT_NEGO"
  <2>1. neg' = [neg EXCEPT ![p] = w] /\ Send(p, {m}, {y})
    BY <1>1, <1>4
  <2>2. ~(State(p) = "DONE" /\ ~conf.decline)
    <3>1. ~conf.decline => media # NoSdp
      BY ConfigsAssumption DEF OnRxOffer
    <3>. QED
      BY <1>4, <3>1, OfferedGood, SMTT(30), Z3T(30) DEF Held, State
  <2>3. Acts(p, w.state, NoTsx, {m}, {y})
    <3>. HIDE DEF w, y
    <3>. QED
      BY <1>2, <1>3, <2>1, ActsBy
  <2>. HIDE DEF w
  <2>. QED
    BY <1>3, <2>2, <2>3
<1>5. CASE w.state = "WAIT_NEGO"
  <2>1. Callbacks(p, w, r) = {NoSdp} /\ Called(p, w, r, NoSdp) = {}
    BY NoCallbacks
  <2>2. neg' = [neg EXCEPT ![p] = n] /\ Send(p, {m}, {} \cup {x})
    BY <1>1, <1>5, <2>1
  <2>3. Send(p, {m}, {x})
    <3>1. {} \cup {x} = {x}
      OBVIOUS
    <3>. HIDE DEF x
    <3>. QED
      BY <2>2, <3>1
  <2>4. Good(n) /\ n.state = "DONE"
    <3>. HIDE DEF w, r
    <3>. QED
      BY <1>3, <1>5, inv_negotiate_sdpGood
  <2>5. Acts(p, "DONE", NoTsx, {m}, {x})
    <3>. HIDE DEF n, x
    <3>. QED
      BY <1>2, <2>2, <2>3, <2>4, ActsBy
  <2>. HIDE DEF s
  <2>. QED
    BY <2>5 DEF States
<1>. QED
  BY <1>4, <1>5

LEMMA OnInviteOkActs ==
    ASSUME Held, conf \in Configs, ~conf.nested, NEW p \in Peers, NEW m, OnInviteOk(p, m)
    PROVE  /\ m.type = "ok" /\ m.method \in {"invite", "ask"}
           /\ \/ Ended
              \/ \E st \in States : \E s :
                    /\ Acts(p, st, NoTsx, {m}, {Reply(p, m, "ack", s)})
                    /\ State(p) = "LOCAL_OFFER" \/ (State(p) = "DONE" /\ ~conf.decline) => st = "DONE"
<1>1. m.type = "ok" /\ m.method \in {"invite", "ask"}
  BY DEF OnInviteOk
<1>2. CASE State(p) = "LOCAL_OFFER"
  <2>1. TakesAnswer(p, m, TRUE, {Reply(p, m, "ack", NoSdp)})
    BY <1>2 DEF OnInviteOk
  <2>2. Ended \/ Acts(p, "DONE", NoTsx, {m}, {Reply(p, m, "ack", NoSdp)})
    BY <1>2, <2>1, TakesAnswerActs
  <2>. QED
    BY <1>1, <2>2 DEF States
<1>3. CASE State(p) # "LOCAL_OFFER"
  BY <1>1, <1>3, OfferIn2xxActs DEF OnInviteOk
<1>. QED
  BY <1>2, <1>3

LEMMA OnInviteFailActs ==
    ASSUME Held, NEW p \in Peers, NEW m, OnInviteFail(p, m)
    PROVE  /\ m.type = "fail" /\ m.method \in {"invite", "ask"}
           /\ Ended \/ Acts(p, Closed(State(p)), NoTsx, {m}, {})
<1>1. m.type = "fail" /\ m.method \in {"invite", "ask"}
  BY DEF OnInviteFail
<1>2. CASE Ended
  BY <1>1, <1>2
<1>3. CASE ~Ended
  <2>. DEFINE n == Unanswered(neg[p])
  <2>1. neg' = [neg EXCEPT ![p] = n] /\ tsx' = [tsx EXCEPT ![p] = NoTsx] /\ Send(p, {m}, {})
    BY <1>3 DEF OnInviteFail
  <2>2. Good(n) /\ n.state = Closed(State(p))
    BY UnansweredGood DEF Held, State
  <2>. HIDE DEF n
  <2>. QED
    BY <1>1, <2>1, <2>2, ActsBy
<1>. QED
  BY <1>2, <1>3

LEMMA OnAckActs ==
    ASSUME Held, ~conf.nested, NEW p \in Peers, NEW m, OnAck(p, m)
    PROVE  /\ m.type = "ack"
           /\ \/ /\ m.cseq # tsx[p].cseq \/ OpenState(State(p))
                 /\ Acts(p, State(p), tsx[p], {m}, {})
              \/ Ended
              \/ \E st \in States :
                    /\ Acts(p, st, NoTsx, {m}, {})
                    /\ State(p) = "LOCAL_OFFER" /\ m.method = "ask" /\ tsx[p].role # "first" => st = "DONE"
                    /\ m.method = "invite" => st = IF tsx[p].role = "first" THEN State(p) ELSE Closed(State(p))
<1>1. m.type = "ack" /\ Good(neg[p])
  BY DEF OnAck, Held
<1>2. CASE m.cseq # tsx[p].cseq \/ Offering(p)
  <2>1. Acts(p, State(p), tsx[p], {m}, {})
    BY <1>2, ActsSame DEF OnAck
  <2>2. m.cseq # tsx[p].cseq \/ OpenState(State(p))
    BY <1>2 DEF Offering, OpenState
  <2>. QED
    BY <1>1, <2>1, <2>2
<1>3. CASE /\ ~(m.cseq # tsx[p].cseq \/ Offering(p))
           /\ m.sdp # NoSdp /\ m.method = "ask" /\ State(p) = "LOCAL_OFFER"
  <2>1. TakesAnswer(p, m, TRUE, {})
    BY <1>3 DEF OnAck
  <2>2. Ended \/ Acts(p, "DONE", NoTsx, {m}, {})
    BY <1>3, <2>1, TakesAnswerActs
  <2>. QED
    BY <1>1, <1>3, <2>2 DEF States
<1>4. CASE /\ ~(m.cseq # tsx[p].cseq \/ Offering(p))
           /\ ~(m.sdp # NoSdp /\ m.method = "ask" /\ State(p) = "LOCAL_OFFER")
  <2>1. /\ tsx' = [tsx EXCEPT ![p] = NoTsx] /\ Send(p, {m}, {})
        /\ \E media \in OnRxOffer(p) :
              neg' = [neg EXCEPT ![p] =
                         IF m.sdp # NoSdp /\ m.method = "ask" THEN Offered(@, m.sdp, media)
                         ELSE IF tsx[p].role = "first" THEN @ ELSE Unanswered(@)]
    BY <1>4 DEF OnAck
  <2>2. PICK media \in OnRxOffer(p) :
           neg' = [neg EXCEPT ![p] =
                      IF m.sdp # NoSdp /\ m.method = "ask" THEN Offered(@, m.sdp, media)
                      ELSE IF tsx[p].role = "first" THEN @ ELSE Unanswered(@)]
    BY <2>1
  <2>. DEFINE n == IF m.sdp # NoSdp /\ m.method = "ask" THEN Offered(neg[p], m.sdp, media)
                   ELSE IF tsx[p].role = "first" THEN neg[p] ELSE Unanswered(neg[p])
  <2>3. neg' = [neg EXCEPT ![p] = n]
    BY <2>2
  <2>4. Good(n)
    BY <1>1, OfferedGood, UnansweredGood
  <2>5. n.state \in States
    BY <2>4 DEF Good
  <2>6. State(p) = "LOCAL_OFFER" /\ m.method = "ask" /\ tsx[p].role # "first" => n.state = "DONE"
    BY <1>1, <1>4, UnansweredGood DEF State, Closed
  <2>7. m.method = "invite" => n.state = IF tsx[p].role = "first" THEN State(p) ELSE Closed(State(p))
    BY <1>1, UnansweredGood DEF State
  <2>. HIDE DEF n
  <2>8. Acts(p, n.state, NoTsx, {m}, {})
    BY <2>1, <2>3, <2>4, ActsBy
  <2>. QED
    BY <1>1, <2>5, <2>6, <2>7, <2>8
<1>. QED
  BY <1>2, <1>3, <1>4

LEMMA OnUpdateResponseActs ==
    ASSUME Held, ~conf.nested, NEW p \in Peers, NEW m, OnUpdateResponse(p, m)
    PROVE  /\ m.type \in {"ok", "fail"} /\ m.method = "update"
           /\ Ended \/ \E out : /\ Acts(p, Closed(State(p)), tsx[p], {m}, out)
                                /\ State(p) = "LOCAL_OFFER" => out = {}
<1>1. m.type \in {"ok", "fail"} /\ m.method = "update"
  BY DEF OnUpdateResponse
<1>2. CASE State(p) = "LOCAL_OFFER" /\ m.type = "ok"
  <2>1. TakesAnswer(p, m, FALSE, {})
    BY <1>2 DEF OnUpdateResponse
  <2>2. Ended \/ Acts(p, "DONE", tsx[p], {m}, {})
    BY <1>2, <2>1, TakesAnswerActs
  <2>3. Closed(State(p)) = "DONE"
    BY <1>2 DEF Closed
  <2>. QED
    BY <1>1, <2>2, <2>3
<1>3. CASE ~(State(p) = "LOCAL_OFFER" /\ m.type = "ok")
  <2>. DEFINE n == Unanswered(neg[p])
              out == IF State(p) = "LOCAL_OFFER" THEN {} ELSE {Message(p, "end", "update", m.cseq, NoSdp)}
  <2>1. neg' = [neg EXCEPT ![p] = n] /\ Send(p, {m}, out) /\ tsx' = tsx
    BY <1>3 DEF OnUpdateResponse
  <2>2. Good(n) /\ n.state = Closed(State(p)) /\ (State(p) = "LOCAL_OFFER" => out = {})
    BY UnansweredGood DEF Held, State
  <2>. HIDE DEF n, out
  <2>3. Acts(p, Closed(State(p)), tsx[p], {m}, out)
    BY <2>1, <2>2, ActsBy
  <2>. QED
    BY <1>1, <2>2, <2>3
<1>. QED
  BY <1>2, <1>3

LEMMA OnUpdateEndActs ==
    ASSUME Held, NEW p \in Peers, NEW m, OnUpdateEnd(p, m)
    PROVE  m.type = "end" /\ Acts(p, Closed(State(p)), tsx[p], {m}, {})
<1>. DEFINE n == Unanswered(neg[p])
<1>1. m.type = "end" /\ neg' = [neg EXCEPT ![p] = n] /\ Send(p, {m}, {}) /\ tsx' = tsx
  BY DEF OnUpdateEnd
<1>2. Good(n) /\ n.state = Closed(State(p))
  BY UnansweredGood DEF Held, State
<1>. HIDE DEF n
<1>. QED
  BY <1>1, <1>2, ActsBy

-----------------------------------------------------------------------------
(* A step of p keeps the invariants.                                       *)

LEMMA ActsHeld ==
    ASSUME Held, NEW p \in Peers, NEW s, NEW t, NEW gone, NEW out, Acts(p, s, t, gone, out)
    PROVE  Held'
  BY OtherParty, SMTT(30), Z3T(30) DEF Held, Acts

LEMMA ActsStep ==
    ASSUME Held, Session, NEW p \in Peers, NEW s, NEW t, NEW gone, NEW out, Acts(p, s, t, gone, out)
    PROVE  /\ Step(NegStates, tsx, msgs, NegStates', tsx', p, Other(p))
           /\ NegStates[p] = State(p) /\ NegStates'[p] = s /\ tsx'[p] = t
           /\ msgs' = (msgs \ gone) \cup out
<1>1. Other(p) \in Peers /\ p # Other(p) /\ Other(Other(p)) = p
  BY OtherParty
<1>2. NegStates[p] = State(p) /\ NegStates'[p] = State(p)'
  BY DEF NegStates
<1>3. NegStates'[Other(p)] = NegStates[Other(p)]
  BY <1>1 DEF NegStates, State, Acts
<1>4. /\ Party(NegStates, tsx, msgs, p, Other(p)) /\ Party(NegStates, tsx, msgs, Other(p), p)
      /\ \A m \in msgs : IsMessage(m)
  BY <1>1 DEF Session
<1>. QED
  BY <1>1, <1>2, <1>3, <1>4 DEF Acts, Step

LEMMA ActsSession ==
    ASSUME Held, Session, NEW p \in Peers, NEW s, NEW t, NEW gone, NEW out, Acts(p, s, t, gone, out),
           \A x \in out : IsMessage(x),
           Party(NegStates', tsx', msgs', p, Other(p)), Party(NegStates', tsx', msgs', Other(p), p)
    PROVE  Session'
<1>1. \A m \in msgs' : IsMessage(m)
  BY DEF Acts, Session
<1>2. \A r \in Peers : Party(NegStates', tsx', msgs', r, Other(r))
  <2>1. Peers = {p, Other(p)} /\ Other(Other(p)) = p
    BY OtherParty
  <2>. QED
    BY <2>1
<1>. QED
  BY <1>1, <1>2 DEF Session

LEMMA MessageSays ==
    ASSUME NEW p, NEW type, NEW method, NEW n, NEW s
    PROVE  LET x == Message(p, type, method, n, s)
           IN  x.to = p /\ x.type = type /\ x.method = method /\ x.cseq = n
  BY DEF Message

LEMMA ReplySays ==
    ASSUME NEW p, NEW m, NEW type, NEW s
    PROVE  LET x == Reply(p, m, type, s)
           IN  x.to = Other(p) /\ x.type = type /\ x.method = m.method /\ x.cseq = m.cseq
  BY DEF Reply, Message

LEMMA EndedInv ==
    ASSUME Ended
    PROVE  Held' /\ Session'
<1>1. /\ neg' = [r \in Peers |-> NoNeg] /\ tsx' = [r \in Peers |-> NoTsx] /\ msgs' = {}
  BY DEF Ended
<1>2. Held'
  BY <1>1, NoNegGood DEF Held
<1>3. \A r \in Peers : NegStates'[r] = "NULL" /\ tsx'[r].role = "none"
  BY <1>1 DEF NegStates, State, NoNeg, NoTsx
<1>4. ASSUME NEW r \in Peers PROVE Party(NegStates', tsx', msgs', r, Other(r))
  BY <1>1, <1>3, OtherParty, SMTT(30), Z3T(30)
     DEF Party, OneOffer, OneCall, OneClosing, TsxState, OpenState
<1>. QED
  BY <1>1, <1>2, <1>4 DEF Session

LEMMA FirstOfferSession ==
    ASSUME Held, Session, NEW p \in Peers, FirstOffer(p)
    PROVE  Session'
<1>. DEFINE t == [role |-> "uac", method |-> "invite", cseq |-> offers + 1]
<1>1. PICK s : Acts(p, "LOCAL_OFFER", t, {}, {Message(Other(p), "request", "invite", offers + 1, s)})
  BY FirstOfferActs
<1>. DEFINE x == Message(Other(p), "request", "invite", offers + 1, s)
<1>2. x.to = Other(p) /\ x.type = "request" /\ x.method = "invite" /\ IsMessage(x)
  BY MessageSays, SMTT(30), Z3T(30) DEF IsMessage
<1>3. t.role = "uac" /\ t.method = "invite"
  OBVIOUS
<1>4. Acts(p, "LOCAL_OFFER", t, {}, {x})
  BY <1>1
<1>. HIDE DEF t, x
<1>5. /\ Step(NegStates, tsx, msgs, NegStates', tsx', p, Other(p))
      /\ NegStates[p] = State(p) /\ NegStates'[p] = "LOCAL_OFFER" /\ tsx'[p] = t /\ msgs' = msgs \cup {x}
  BY <1>4, ActsStep, SMTT(30), Z3T(30)
<1>6. State(p) = "NULL" /\ tsx[p].role = "none"
  BY <1>5, FirstOfferActs DEF Step, Party, TsxState
<1>7. Party(NegStates', tsx', msgs', p, Other(p)) /\ Party(NegStates', tsx', msgs', Other(p), p)
  BY <1>2, <1>3, <1>5, <1>6, RequestMade
<1>. QED
  BY <1>2, <1>4, <1>7, ActsSession

LEMMA ReinviteSession ==
    ASSUME Held, Session, ~conf.overlap, NEW p \in Peers, Reinvite(p)
    PROVE  Session'
<1>1. PICK st \in States, method \in {"invite", "ask"} : \E s :
         /\ Acts(p, st, [role |-> "uac", method |-> method, cseq |-> offers + 1],
                 {}, {Message(Other(p), "request", method, offers + 1, s)})
         /\ State(p) = "DONE" => st = IF method = "invite" THEN "LOCAL_OFFER" ELSE "DONE"
  BY ReinviteActs
<1>2. PICK s :
         /\ Acts(p, st, [role |-> "uac", method |-> method, cseq |-> offers + 1],
                 {}, {Message(Other(p), "request", method, offers + 1, s)})
         /\ State(p) = "DONE" => st = IF method = "invite" THEN "LOCAL_OFFER" ELSE "DONE"
  BY <1>1
<1>. DEFINE t == [role |-> "uac", method |-> method, cseq |-> offers + 1]
            x == Message(Other(p), "request", method, offers + 1, s)
<1>3. x.to = Other(p) /\ x.type = "request" /\ x.method = method /\ IsMessage(x)
  BY MessageSays, SMTT(30), Z3T(30) DEF IsMessage
<1>4. t.role = "uac" /\ t.method = method
  OBVIOUS
<1>5. Acts(p, st, t, {}, {x})
  BY <1>2
<1>6. tsx[p].role = "none" /\ State(p) = "DONE"
  BY ReinviteActs
<1>. HIDE DEF t, x
<1>7. /\ Step(NegStates, tsx, msgs, NegStates', tsx', p, Other(p))
      /\ NegStates[p] = "DONE" /\ NegStates'[p] = st /\ tsx'[p] = t /\ msgs' = msgs \cup {x}
  BY <1>5, <1>6, ActsStep, SMTT(30), Z3T(30)
<1>8. CASE method = "invite"
  <2>1. st = "LOCAL_OFFER"
    BY <1>2, <1>6, <1>8
  <2>2. Party(NegStates', tsx', msgs', p, Other(p)) /\ Party(NegStates', tsx', msgs', Other(p), p)
    BY <1>3, <1>4, <1>6, <1>7, <1>8, <2>1, RequestMade
  <2>. QED
    BY <1>3, <1>5, <2>2, ActsSession
<1>9. CASE method = "ask"
  <2>1. st = "DONE"
    BY <1>2, <1>6, <1>9
  <2>2. Party(NegStates', tsx', msgs', p, Other(p)) /\ Party(NegStates', tsx', msgs', Other(p), p)
    BY <1>3, <1>4, <1>6, <1>7, <1>9, <2>1, AskMade
  <2>. QED
    BY <1>3, <1>5, <2>2, ActsSession
<1>. QED
  BY <1>8, <1>9

LEMMA UpdateSession ==
    ASSUME Held, Session, ~conf.overlap, NEW p \in Peers, Update(p)
    PROVE  Session'
<1>1. PICK s : Acts(p, "LOCAL_OFFER", tsx[p], {}, {Message(Other(p), "request", "update", offers + 1, s)})
  BY UpdateActs
<1>. DEFINE x == Message(Other(p), "request", "update", offers + 1, s)
<1>2. x.to = Other(p) /\ x.type = "request" /\ x.method = "update" /\ IsMessage(x)
  BY MessageSays, SMTT(30), Z3T(30) DEF IsMessage
<1>3. Acts(p, "LOCAL_OFFER", tsx[p], {}, {x})
  BY <1>1
<1>4. State(p) = "DONE" /\ tsx[p].role \in {"none", "first"}
  BY UpdateActs
<1>. HIDE DEF x
<1>5. /\ Step(NegStates, tsx, msgs, NegStates', tsx', p, Other(p))
      /\ NegStates[p] = "DONE" /\ NegStates'[p] = "LOCAL_OFFER" /\ tsx'[p] = tsx[p] /\ msgs' = msgs \cup {x}
  BY <1>3, <1>4, ActsStep, SMTT(30), Z3T(30)
<1>6. Party(NegStates', tsx', msgs', p, Other(p)) /\ Party(NegStates', tsx', msgs', Other(p), p)
  BY <1>2, <1>4, <1>5, UpdateMade
<1>. QED
  BY <1>2, <1>3, <1>6, ActsSession

\* A request answered at once, with no change of the session.
LEMMA ReplySession ==
    ASSUME Held, Session, NEW p \in Peers, NEW m \in msgs, m.to = p, m.type = "request",
           NEW type \in {"ok", "fail"}, type = "ok" => m.method = "update", NEW s,
           Acts(p, State(p), tsx[p], {m}, {Reply(p, m, type, s)})
    PROVE  Session'
<1>. DEFINE x == Reply(p, m, type, s)
<1>1. /\ x.to = Other(p) /\ x.method = m.method
      /\ x.type \in {"ok", "fail"} /\ (x.type = "ok" => m.method = "update")
  BY ReplySays, SMTT(30), Z3T(30)
<1>2. IsMessage(x)
  BY <1>1 DEF IsMessage, Session
<1>3. Acts(p, State(p), tsx[p], {m}, {x})
  OBVIOUS
<1>. HIDE DEF x
<1>4. /\ Step(NegStates, tsx, msgs, NegStates', tsx', p, Other(p))
      /\ NegStates'[p] = NegStates[p] /\ tsx'[p] = tsx[p] /\ msgs' = (msgs \ {m}) \cup {x}
  BY <1>3, ActsStep
<1>5. Party(NegStates', tsx', msgs', p, Other(p)) /\ Party(NegStates', tsx', msgs', Other(p), p)
  BY <1>1, <1>4, RequestAnswered, SMTT(30), Z3T(30)
<1>. QED
  BY <1>2, <1>3, <1>5, ActsSession

LEMMA OnInviteSession ==
    ASSUME Held, Session, NEW p \in Peers, NEW m \in msgs, m.to = p, OnInvite(p, m)
    PROVE  Session'
<1>1. m.type = "request"
  BY OnInviteActs
<1>2. CASE Acts(p, State(p), tsx[p], {m}, {Reply(p, m, "fail", NoSdp)})
  BY <1>1, <1>2, ReplySession
<1>3. ASSUME m.method = "invite", tsx[p].role = "none", State(p) \in {"NULL", "DONE"},
             NEW role \in {"uas", "first"},
             Acts(p, "REMOTE_OFFER", [role |-> role, method |-> "invite", cseq |-> m.cseq], {m}, {})
      PROVE  Session'
  <2>. DEFINE t == [role |-> role, method |-> "invite", cseq |-> m.cseq]
  <2>1. t.role = role /\ t.method = "invite" /\ Acts(p, "REMOTE_OFFER", t, {m}, {})
    BY <1>3
  <2>. HIDE DEF t
  <2>2. /\ Step(NegStates, tsx, msgs, NegStates', tsx', p, Other(p))
        /\ NegStates[p] = State(p) /\ NegStates'[p] = "REMOTE_OFFER" /\ tsx'[p] = t /\ msgs' = msgs \ {m}
    BY <2>1, ActsStep, SMTT(30), Z3T(30)
  <2>3. Party(NegStates', tsx', msgs', p, Other(p)) /\ Party(NegStates', tsx', msgs', Other(p), p)
    BY <1>1, <1>3, <2>1, <2>2, InviteTaken
  <2>. QED
    BY <2>1, <2>3, ActsSession, SMTT(30), Z3T(30)
<1>4. ASSUME m.method = "ask", tsx[p].role = "none", State(p) \in {"NULL", "DONE"}, NEW s,
             Acts(p, "LOCAL_OFFER", [role |-> "uas", method |-> "ask", cseq |-> m.cseq],
                  {m}, {Reply(p, m, "ok", s)})
      PROVE  Session'
  <2>. DEFINE t == [role |-> "uas", method |-> "ask", cseq |-> m.cseq]
              x == Reply(p, m, "ok", s)
  <2>1. t.role = "uas" /\ t.method = "ask" /\ t.cseq = m.cseq /\ Acts(p, "LOCAL_OFFER", t, {m}, {x})
    BY <1>4
  <2>2. x.to = Other(p) /\ x.type = "ok" /\ x.method = "ask" /\ x.cseq = m.cseq /\ IsMessage(x)
    BY <1>4, ReplySays, SMTT(30), Z3T(30) DEF IsMessage
  <2>. HIDE DEF t, x
  <2>3. /\ Step(NegStates, tsx, msgs, NegStates', tsx', p, Other(p))
        /\ NegStates[p] = State(p) /\ NegStates'[p] = "LOCAL_OFFER" /\ tsx'[p] = t
        /\ msgs' = (msgs \ {m}) \cup {x}
    BY <2>1, ActsStep, SMTT(30), Z3T(30)
  <2>4. tsx'[p].role = "uas" /\ tsx'[p].method = "ask" /\ tsx'[p].cseq = m.cseq
    BY <2>1, <2>3
  <2>5. Party(NegStates', tsx', msgs', p, Other(p)) /\ Party(NegStates', tsx', msgs', Other(p), p)
    BY <1>1, <1>4, <2>2, <2>3, <2>4, AskTaken, SMTT(30), Z3T(30)
  <2>. QED
    BY <2>1, <2>2, <2>5, ActsSession
<1>. QED
  BY <1>2, <1>3, <1>4, OnInviteActs

LEMMA OnUpdateSession ==
    ASSUME Held, Session, conf \in Configs, ~conf.nested, NEW p \in Peers, NEW m \in msgs, m.to = p,
           OnUpdate(p, m)
    PROVE  Session'
  BY OnUpdateActs, ReplySession

LEMMA SetAnswerSession ==
    ASSUME Held, Session, NEW p \in Peers, SetAnswer(p)
    PROVE  Session'
<1>1. OpenState(State(p)) /\ Acts(p, "WAIT_NEGO", tsx[p], {}, {})
  BY SetAnswerActs
<1>2. /\ Step(NegStates, tsx, msgs, NegStates', tsx', p, Other(p))
      /\ NegStates[p] = State(p) /\ NegStates'[p] = "WAIT_NEGO" /\ tsx'[p] = tsx[p] /\ msgs' = msgs
  BY <1>1, ActsStep, SMTT(30), Z3T(30)
<1>3. OpenState(NegStates[p]) /\ OpenState(NegStates'[p])
  BY <1>1, <1>2 DEF OpenState
<1>4. Party(NegStates', tsx', msgs', p, Other(p)) /\ Party(NegStates', tsx', msgs', Other(p), p)
  BY <1>2, <1>3, AnswerSet
<1>. QED
  BY <1>1, <1>4, ActsSession, SMTT(30), Z3T(30)

\* A failure response to the INVITE that is pending.
LEMMA FailSession ==
    ASSUME Held, Session, NEW p \in Peers, OpenState(State(p)),
           Acts(p, "DONE", NoTsx, {}, {Reply(p, tsx[p], "fail", NoSdp)})
    PROVE  Session'
<1>. DEFINE x == Reply(p, tsx[p], "fail", NoSdp)
<1>1. Acts(p, "DONE", NoTsx, {}, {x})
  OBVIOUS
<1>2. x.to = Other(p) /\ x.type = "fail" /\ x.method = tsx[p].method
  BY ReplySays, SMTT(30), Z3T(30)
<1>. HIDE DEF x
<1>3. /\ Step(NegStates, tsx, msgs, NegStates', tsx', p, Other(p))
      /\ NegStates[p] = State(p) /\ NegStates'[p] = "DONE" /\ tsx'[p] = NoTsx /\ msgs' = msgs \cup {x}
  BY <1>1, ActsStep, SMTT(30), Z3T(30)
<1>4. tsx[p].method = "invite" /\ NoTsx.role = "none"
  BY <1>3 DEF Step, Party, TsxState, NoTsx
<1>5. IsMessage(x)
  BY <1>2, <1>4 DEF IsMessage
<1>6. Party(NegStates', tsx', msgs', p, Other(p)) /\ Party(NegStates', tsx', msgs', Other(p), p)
  BY <1>2, <1>3, <1>4, InviteRefused
<1>. QED
  BY <1>1, <1>5, <1>6, ActsSession

LEMMA RespondSession ==
    ASSUME Held, Session, ~conf.nested, NEW p \in Peers, Respond(p)
    PROVE  Session'
<1>1. OpenState(State(p))
  BY RespondActs
<1>2. ASSUME NEW s, Acts(p, "DONE", tsx[p], {}, {Reply(p, tsx[p], "ok", s)}) PROVE Session'
  <2>. DEFINE x == Reply(p, tsx[p], "ok", s)
  <2>1. Acts(p, "DONE", tsx[p], {}, {x})
    BY <1>2
  <2>2. x.to = Other(p) /\ x.type = "ok" /\ x.method = tsx[p].method /\ x.cseq = tsx[p].cseq
    BY ReplySays, SMTT(30), Z3T(30)
  <2>. HIDE DEF x
  <2>3. /\ Step(NegStates, tsx, msgs, NegStates', tsx', p, Other(p))
        /\ NegStates[p] = State(p) /\ NegStates'[p] = "DONE" /\ tsx'[p] = tsx[p] /\ msgs' = msgs \cup {x}
    BY <2>1, ActsStep, SMTT(30), Z3T(30)
  <2>4. tsx[p].method = "invite"
    BY <1>1, <2>3 DEF Step, Party, TsxState
  <2>5. IsMessage(x)
    BY <2>2, <2>4 DEF IsMessage
  <2>6. Party(NegStates', tsx', msgs', p, Other(p)) /\ Party(NegStates', tsx', msgs', Other(p), p)
    BY <1>1, <2>2, <2>3, <2>4, InviteAnswered
  <2>. QED
    BY <2>1, <2>5, <2>6, ActsSession
<1>. QED
  BY <1>1, <1>2, RespondActs, FailSession

\* What the messages to p say of it.
LEMMA Arrives ==
    ASSUME Session, NEW p \in Peers, NEW m \in msgs, m.to = p
    PROVE  /\ m.type \in {"request", "ok", "fail", "ack"}
           /\ IsReply(m) => State(p) = "LOCAL_OFFER"
           /\ m.type \in {"ok", "fail"} /\ m.method = "ask" => State(p) = "DONE"
           /\ m.type = "ack" => /\ m.method = tsx[p].method /\ m.cseq = tsx[p].cseq
                                /\ m.method \in {"invite", "ask"}
                                /\ ~OpenState(State(p))
                                /\ m.method = "ask" => tsx[p].role # "first"
                                /\ m.method = "invite" /\ State(p) = "LOCAL_OFFER" => tsx[p].role = "first"
<1>1. NegStates[p] = State(p) /\ IsMessage(m)
  BY DEF NegStates, Session
<1>2. /\ OneOffer(NegStates, msgs, p, Other(p)) /\ OneCall(NegStates, tsx, msgs, p, Other(p))
      /\ OneClosing(NegStates, tsx, msgs, p, Other(p)) /\ TsxState(NegStates[p], tsx[p])
  BY DEF Session, Party
<1>3. IsReply(m) => State(p) = "LOCAL_OFFER"
  BY <1>1, <1>2 DEF OneOffer, About
<1>4. m.type \in {"ok", "fail"} /\ m.method = "ask" => State(p) = "DONE"
  BY <1>1, <1>2 DEF OneCall, Calls, TsxState
<1>5. m.type = "ack" => /\ m.method = tsx[p].method /\ m.cseq = tsx[p].cseq
                        /\ tsx[p].role \in {"uas", "first"} /\ ~OpenState(State(p))
  BY <1>1, <1>2 DEF OneClosing, Closes
<1>. QED
  BY <1>1, <1>2, <1>3, <1>4, <1>5 DEF IsMessage, TsxState

LEMMA OnInviteOkSession ==
    ASSUME Held, Session, conf \in Configs, ~conf.nested, ~conf.decline,
           NEW p \in Peers, NEW m \in msgs, m.to = p, OnInviteOk(p, m)
    PROVE  Session'
<1>1. m.type = "ok" /\ m.method \in {"invite", "ask"}
  BY OnInviteOkActs
<1>2. State(p) = "LOCAL_OFFER" \/ (State(p) = "DONE" /\ ~conf.decline)
  BY <1>1, Arrives DEF IsReply
<1>3. ASSUME NEW s, Acts(p, "DONE", NoTsx, {m}, {Reply(p, m, "ack", s)}) PROVE Session'
  <2>. DEFINE x == Reply(p, m, "ack", s)
  <2>1. Acts(p, "DONE", NoTsx, {m}, {x})
    BY <1>3
  <2>2. x.to = Other(p) /\ x.type = "ack" /\ x.method = m.method /\ x.cseq = m.cseq
    BY ReplySays, SMTT(30), Z3T(30)
  <2>. HIDE DEF x
  <2>3. /\ Step(NegStates, tsx, msgs, NegStates', tsx', p, Other(p))
        /\ NegStates'[p] = "DONE" /\ tsx'[p] = NoTsx /\ msgs' = (msgs \ {m}) \cup {x}
    BY <2>1, ActsStep, SMTT(30), Z3T(30)
  <2>4. NoTsx.role = "none"
    BY DEF NoTsx
  <2>5. IsMessage(x)
    BY <1>1, <2>2 DEF IsMessage
  <2>6. Party(NegStates', tsx', msgs', p, Other(p)) /\ Party(NegStates', tsx', msgs', Other(p), p)
    <3>1. CASE m.method = "invite"
      BY <1>1, <2>2, <2>3, <2>4, <3>1, AnswerTaken
    <3>2. CASE m.method = "ask"
      BY <1>1, <2>2, <2>3, <2>4, <3>2, OfferTaken
    <3>. QED
      BY <1>1, <3>1, <3>2
  <2>. QED
    BY <2>1, <2>5, <2>6, ActsSession
<1>. QED
  BY <1>2, <1>3, OnInviteOkActs, EndedInv

LEMMA OnInviteFailSession ==
    ASSUME Held, Session, NEW p \in Peers, NEW m \in msgs, m.to = p, OnInviteFail(p, m)
    PROVE  Session'
<1>1. m.type = "fail" /\ m.method \in {"invite", "ask"}
  BY OnInviteFailActs
<1>2. Closed(State(p)) = "DONE"
  BY <1>1, Arrives DEF IsReply, Closed
<1>3. CASE Acts(p, "DONE", NoTsx, {m}, {})
  <2>1. /\ Step(NegStates, tsx, msgs, NegStates', tsx', p, Other(p))
        /\ NegStates'[p] = "DONE" /\ tsx'[p] = NoTsx /\ msgs' = msgs \ {m}
    BY <1>3, ActsStep, SMTT(30), Z3T(30)
  <2>2. NoTsx.role = "none"
    BY DEF NoTsx
  <2>3. Party(NegStates', tsx', msgs', p, Other(p)) /\ Party(NegStates', tsx', msgs', Other(p), p)
    BY <1>1, <2>1, <2>2, CallFailed
  <2>. QED
    BY <1>3, <2>3, ActsSession, SMTT(30), Z3T(30)
<1>. QED
  BY <1>2, <1>3, OnInviteFailActs, EndedInv

LEMMA OnAckSession ==
    ASSUME Held, Session, ~conf.nested, NEW p \in Peers, NEW m \in msgs, m.to = p, OnAck(p, m)
    PROVE  Session'
<1>1. m.type = "ack"
  BY OnAckActs
<1>. DEFINE st == IF m.method = "ask" THEN "DONE" ELSE State(p)
<1>2. Ended \/ Acts(p, st, NoTsx, {m}, {})
  <2>1. m.cseq = tsx[p].cseq /\ ~OpenState(State(p)) /\ m.method \in {"invite", "ask"}
    BY <1>1, Arrives
  <2>2. CASE m.method = "ask"
    <3>1. State(p) = "LOCAL_OFFER" /\ tsx[p].role # "first"
      BY <1>1, <2>2, Arrives DEF IsReply
    <3>. QED
      BY <2>1, <2>2, <3>1, OnAckActs
  <2>3. CASE m.method = "invite"
    <3>1. State(p) = IF tsx[p].role = "first" THEN State(p) ELSE Closed(State(p))
      BY <1>1, <2>3, Arrives DEF Closed
    <3>2. Ended \/ Acts(p, State(p), NoTsx, {m}, {})
      BY <2>1, <2>3, <3>1, OnAckActs
    <3>. QED
      BY <2>3, <3>2
  <2>. QED
    BY <2>1, <2>2, <2>3
<1>3. CASE Acts(p, st, NoTsx, {m}, {})
  <2>. HIDE DEF st
  <2>1. /\ Step(NegStates, tsx, msgs, NegStates', tsx', p, Other(p)) /\ NegStates[p] = State(p)
        /\ NegStates'[p] = st /\ tsx'[p] = NoTsx /\ msgs' = msgs \ {m}
    BY <1>3, ActsStep, SMTT(30), Z3T(30)
  <2>2. NoTsx.role = "none" /\ NegStates'[p] = IF m.method = "ask" THEN "DONE" ELSE NegStates[p]
    BY <2>1 DEF NoTsx, st
  <2>3. Party(NegStates', tsx', msgs', p, Other(p)) /\ Party(NegStates', tsx', msgs', Other(p), p)
    BY <1>1, <2>1, <2>2, AckTaken
  <2>. QED
    BY <1>3, <2>3, ActsSession, SMTT(30), Z3T(30)
<1>. QED
  BY <1>2, <1>3, EndedInv

LEMMA OnUpdateResponseSession ==
    ASSUME Held, Session, ~conf.nested, NEW p \in Peers, NEW m \in msgs, m.to = p, OnUpdateResponse(p, m)
    PROVE  Session'
<1>1. m.type \in {"ok", "fail"} /\ m.method = "update"
  BY OnUpdateResponseActs
<1>2. State(p) = "LOCAL_OFFER" /\ Closed(State(p)) = "DONE"
  BY <1>1, Arrives DEF IsReply, Closed
<1>3. CASE Acts(p, "DONE", tsx[p], {m}, {})
  <2>1. /\ Step(NegStates, tsx, msgs, NegStates', tsx', p, Other(p))
        /\ NegStates'[p] = "DONE" /\ tsx'[p] = tsx[p] /\ msgs' = msgs \ {m}
    BY <1>3, ActsStep, SMTT(30), Z3T(30)
  <2>2. Party(NegStates', tsx', msgs', p, Other(p)) /\ Party(NegStates', tsx', msgs', Other(p), p)
    BY <1>1, <2>1, UpdateClosed
  <2>. QED
    BY <1>3, <2>2, ActsSession, SMTT(30), Z3T(30)
<1>. QED
  BY <1>2, <1>3, OnUpdateResponseActs, EndedInv

-----------------------------------------------------------------------------
(* The theorems.                                                           *)

LEMMA SendConf ==
    ASSUME NEW p, NEW gone, NEW out, Send(p, gone, out)
    PROVE  conf' = conf
  BY DEF Send

\* The configuration of a call stays.
LEMMA ConfKept ==
    ASSUME [Next]_vars
    PROVE  conf' = conf
<1>1. CASE UNCHANGED vars
  BY <1>1 DEF vars
<1>2. CASE Next
  <2>1. Ended => conf' = conf
    BY DEF Ended
  <2>2. ASSUME NEW p, NEW m, NEW closes, NEW out, TakesAnswer(p, m, closes, out) PROVE conf' = conf
    BY <2>1, <2>2, SendConf DEF TakesAnswer
  <2>3. PICK p \in Peers : \/ FirstOffer(p) \/ Reinvite(p) \/ Update(p)
                           \/ SetAnswer(p) \/ Refuse(p) \/ Respond(p) \/ OnMessage(p)
    BY <1>2 DEF Next
  <2>4. CASE FirstOffer(p) \/ Reinvite(p) \/ Update(p)
    BY <2>4, SendConf DEF FirstOffer, Reinvite, Update
  <2>5. CASE SetAnswer(p) \/ Refuse(p)
    BY <2>5, SendConf DEF SetAnswer, Refuse
  <2>6. CASE Respond(p)
    BY <2>6, SendConf DEF Respond, RespondWith
  <2>7. CASE OnMessage(p)
    <3>1. PICK m \in msgs :
             \/ OnInvite(p, m) \/ OnUpdate(p, m) \/ OnInviteOk(p, m) \/ OnInviteFail(p, m)
             \/ OnAck(p, m) \/ OnUpdateResponse(p, m) \/ OnUpdateEnd(p, m)
      BY <2>7 DEF OnMessage
    <3>2. CASE OnInvite(p, m)
      BY <3>2, SendConf DEF OnInvite, Refused
    <3>3. CASE OnUpdate(p, m)
      BY <3>3, SendConf DEF OnUpdate, Refused
    <3>4. CASE OnInviteOk(p, m)
      BY <2>2, <3>4, SendConf DEF OnInviteOk, OfferIn2xx
    <3>5. CASE OnInviteFail(p, m)
      BY <2>1, <3>5, SendConf DEF OnInviteFail
    <3>6. CASE OnAck(p, m)
      BY <2>2, <3>6, SendConf DEF OnAck
    <3>7. CASE OnUpdateResponse(p, m) \/ OnUpdateEnd(p, m)
      BY <2>2, <3>7, SendConf DEF OnUpdateResponse, OnUpdateEnd
    <3>. QED
      BY <3>1, <3>2, <3>3, <3>4, <3>5, <3>6, <3>7
  <2>. QED
    BY <2>3, <2>4, <2>5, <2>6, <2>7
<1>. QED
  BY <1>1, <1>2

LEMMA NextHeld ==
    ASSUME Held, conf \in Configs, ~conf.nested, Next
    PROVE  Held'
<1>1. PICK p \in Peers : \/ FirstOffer(p) \/ Reinvite(p) \/ Update(p)
                         \/ SetAnswer(p) \/ Refuse(p) \/ Respond(p) \/ OnMessage(p)
  BY DEF Next
<1>2. CASE FirstOffer(p)
  BY <1>2, FirstOfferActs, ActsHeld
<1>3. CASE Reinvite(p)
  BY <1>3, ReinviteActs, ActsHeld
<1>4. CASE Update(p)
  BY <1>4, UpdateActs, ActsHeld
<1>5. CASE SetAnswer(p)
  BY <1>5, SetAnswerActs, ActsHeld
<1>6. CASE Refuse(p)
  BY <1>6, RefuseActs, ActsHeld
<1>7. CASE Respond(p)
  BY <1>7, RespondActs, ActsHeld
<1>8. CASE OnMessage(p)
  <2>1. PICK m \in msgs :
           \/ OnInvite(p, m) \/ OnUpdate(p, m) \/ OnInviteOk(p, m) \/ OnInviteFail(p, m)
           \/ OnAck(p, m) \/ OnUpdateResponse(p, m) \/ OnUpdateEnd(p, m)
    BY <1>8 DEF OnMessage
  <2>2. CASE OnInvite(p, m)
    BY <2>2, OnInviteActs, ActsHeld
  <2>3. CASE OnUpdate(p, m)
    BY <2>3, OnUpdateActs, ActsHeld
  <2>4. CASE OnInviteOk(p, m)
    BY <2>4, OnInviteOkActs, ActsHeld, EndedInv
  <2>5. CASE OnInviteFail(p, m)
    BY <2>5, OnInviteFailActs, ActsHeld, EndedInv
  <2>6. CASE OnAck(p, m)
    BY <2>6, OnAckActs, ActsHeld, EndedInv
  <2>7. CASE OnUpdateResponse(p, m)
    BY <2>7, OnUpdateResponseActs, ActsHeld, EndedInv
  <2>8. CASE OnUpdateEnd(p, m)
    BY <2>8, OnUpdateEndActs, ActsHeld
  <2>. QED
    BY <2>1, <2>2, <2>3, <2>4, <2>5, <2>6, <2>7, <2>8
<1>. QED
  BY <1>1, <1>2, <1>3, <1>4, <1>5, <1>6, <1>7, <1>8

LEMMA NextSession ==
    ASSUME Held, Session, conf \in Configs, Orderly, Next
    PROVE  Session'
<1>1. ~conf.overlap /\ ~conf.decline /\ ~conf.nested
  BY DEF Orderly
<1>2. PICK p \in Peers : \/ FirstOffer(p) \/ Reinvite(p) \/ Update(p)
                         \/ SetAnswer(p) \/ Refuse(p) \/ Respond(p) \/ OnMessage(p)
  BY DEF Next
<1>3. CASE OnMessage(p)
  <2>1. PICK m \in msgs :
           /\ m.to = p
           /\ \/ OnInvite(p, m) \/ OnUpdate(p, m) \/ OnInviteOk(p, m) \/ OnInviteFail(p, m)
              \/ OnAck(p, m) \/ OnUpdateResponse(p, m) \/ OnUpdateEnd(p, m)
    BY <1>3 DEF OnMessage
  <2>2. ~OnUpdateEnd(p, m)
    BY <2>1, Arrives DEF OnUpdateEnd
  <2>. QED
    BY <1>1, <2>1, <2>2, OnInviteSession, OnUpdateSession, OnInviteOkSession, OnInviteFailSession,
       OnAckSession, OnUpdateResponseSession
<1>4. CASE Refuse(p)
  BY <1>4, RefuseActs, FailSession
<1>. QED
  BY <1>1, <1>2, <1>3, <1>4, FirstOfferSession, ReinviteSession, UpdateSession, SetAnswerSession,
     RespondSession

\* The invariant: with no UPDATE in the callback the negotiators are as Good says,
\* and with nothing out of turn the parties are as Party says.
SessionInv == /\ conf \in Configs
              /\ ~conf.nested => Held
              /\ Orderly => Session

LEMMA InitInv ==
    ASSUME Init
    PROVE  SessionInv
<1>1. /\ neg = [r \in Peers |-> NoNeg] /\ tsx = [r \in Peers |-> NoTsx] /\ msgs = {}
      /\ conf \in Configs
  BY DEF Init
<1>2. Held
  BY <1>1, NoNegGood DEF Held
<1>3. \A r \in Peers : NegStates[r] = "NULL" /\ tsx[r].role = "none"
  BY <1>1 DEF NegStates, State, NoNeg, NoTsx
<1>4. ASSUME NEW r \in Peers PROVE Party(NegStates, tsx, msgs, r, Other(r))
  BY <1>1, <1>3, OtherParty, SMTT(30), Z3T(30)
     DEF Party, OneOffer, OneCall, OneClosing, TsxState, OpenState
<1>. QED
  BY <1>1, <1>2, <1>4 DEF Session, SessionInv

LEMMA NextInv ==
    ASSUME SessionInv, [Next]_vars
    PROVE  SessionInv'
<1>1. conf' = conf
  BY ConfKept
<1>2. CASE UNCHANGED vars
  BY <1>2 DEF vars, SessionInv, Held, Session, NegStates, State, Orderly
<1>3. CASE Next
  <2>1. conf' \in Configs
    BY <1>1 DEF SessionInv
  <2>2. (~conf.nested => Held)'
    BY <1>1, <1>3, NextHeld DEF SessionInv
  <2>3. (Orderly => Session)'
    BY <1>1, <1>3, NextSession DEF SessionInv, Orderly
  <2>. QED
    BY <2>1, <2>2, <2>3 DEF SessionInv
<1>. QED
  BY <1>2, <1>3

LEMMA InvAlways == Spec => []SessionInv
<1>1. Init => SessionInv
  BY InitInv
<1>2. SessionInv /\ [Next]_vars => SessionInv'
  BY NextInv
<1>. QED
  BY <1>1, <1>2, PTL DEF Spec

\* Whatever the media, the number of offers and the order in which the messages
\* arrive: a party of an application that does nothing out of turn which waits for
\* an answer has exactly one coming, and one that does not wait has none, so
\* inv_check_sdp_in_incoming_msg() takes each SDP for what it was sent as.
THEOREM AnswersMatchOffers == Spec => []OneAnswerComing
<1>1. ASSUME SessionInv PROVE OneAnswerComing
  <2>. SUFFICES ASSUME Orderly, NEW p \in Peers
                PROVE  IF State(p) # "LOCAL_OFFER" THEN Coming(p) = {} /\ ~Open(Other(p))
                       ELSE IF Open(Other(p)) THEN Coming(p) = {} ELSE \E m \in msgs : Coming(p) = {m}
    BY DEF OneAnswerComing
  <2>1. OneOffer(NegStates, msgs, p, Other(p))
    BY <1>1 DEF SessionInv, Session, Party
  <2>2. /\ NegStates[p] = State(p)
        /\ OpenState(NegStates[Other(p)]) <=> Open(Other(p))
    BY OtherParty DEF NegStates, OpenState, Open
  <2>3. \A m \in msgs : About(p, Other(p), m) <=> Concerns(p, m)
    BY DEF About, Concerns
  <2>4. /\ State(p) = "LOCAL_OFFER" => Open(Other(p)) \/ \E m \in msgs : Concerns(p, m)
        /\ Open(Other(p)) => State(p) = "LOCAL_OFFER"
        /\ \A m \in msgs : Concerns(p, m) => /\ State(p) = "LOCAL_OFFER" /\ ~Open(Other(p))
                                             /\ \A k \in msgs : Concerns(p, k) => k = m
    BY <2>1, <2>2, <2>3 DEF OneOffer
  <2>. QED
    BY <2>4 DEF Coming
<1>. QED
  BY <1>1, InvAlways, PTL

\* Whatever is offered, declined or crosses, as long as no UPDATE is made in
\* on_media_update(): the pools that inv_negotiate_sdp() swaps and resets never
\* hold an SDP that is in use or being negotiated when they are reset.
THEOREM SdpAlwaysHeld == Spec => []SdpHeld
<1>1. ASSUME SessionInv PROVE SdpHeld
  <2>. SUFFICES ASSUME ~conf.nested, NEW p \in Peers,
                       NEW f \in {"neg_local", "neg_remote", "active_local", "active_remote"}
                PROVE  neg[p][f] = NoSdp \/ neg[p][f].mem # "reset"
    BY DEF SdpHeld
  <2>1. Good(neg[p])
    BY <1>1 DEF SessionInv, Held
  <2>. QED
    BY <2>1 DEF Good, Provisional, InUse
<1>. QED
  BY <1>1, InvAlways, PTL

=============================================================================
