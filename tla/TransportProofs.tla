--------------------------- MODULE TransportProofs --------------------------
(***************************************************************************)
(* The references to a transport, and the places where the manager finds   *)
(* it, for any number of threads, transports, messages and users.          *)
(*                                                                         *)
(* The inductive invariant RefInv says of each transport that its counter  *)
(* less its users is what the steps on the lists of all the threads still  *)
(* owe: a step that gives a reference back, or hands it to a user, owes    *)
(* one, a step that takes one is owed one (Weight).  A step of a thread    *)
(* takes the first step off the list of the thread and puts at most five   *)
(* in front (Rewrites), and changes the counter by the difference of their *)
(* weights (Balance).  Base has the rest: the types, the lives of the      *)
(* transports that are on the lists, the keys in the hash table, and       *)
(* FoundOrListed.                                                          *)
(***************************************************************************)
EXTENDS Transport, TLAPS

\* The provers are given time.
\* The provers tried on a leaf that names none, in this order.
USE ZenonT(10), SMTT(30), Z3T(30)

Names == {"add_ref", "cancel_idle", "dec_ref", "start_idle", "unlock", "idle_callback", "destroy",
          "destroy_transport", "shutdown", "tcp_destroy", "hold", "flush", "start_ka",
          "init_shutdown", "cancel_delayed", "send_msg", "delay", "asock_send", "state_cb",
          "check_again", "keep_alive", "accepted", "sent"}
Steps == [do : Names, t : Tps \cup {NoTp}, m : Msgs \cup {NoMsg}]
Lists == [Threads -> Seq(Steps)]

\* What a step still to be taken does to what a transport owes.
Weight(s, t) == IF s \in {S("hold", t), S("dec_ref", t)} THEN 1 ELSE IF s = S("add_ref", t) THEN -1 ELSE 0

\* The same for the steps of a short list.
Share(q, i, t) == IF i <= Len(q) THEN Weight(q[i], t) ELSE 0
Weights(q, t) == Share(q, 1, t) + Share(q, 2, t) + Share(q, 3, t) + Share(q, 4, t) + Share(q, 5, t)

\* A weight is a number.
LEMMA WeightInt == \A s, t : Weight(s, t) \in Int
  BY DEF Weight

\* A sum of five numbers, the first taken apart.
LEMMA SumApart ==
    ASSUME NEW a \in Int, NEW b \in Int, NEW c \in Int, NEW d \in Int, NEW e \in Int
    PROVE  a + b + c + d + e = a + (b + c + d + e + 0) /\ a + b + c + d + e \in Int
  OBVIOUS

\* The weights of a list are that of its first step and those of the rest.
LEMMA WeightsTail ==
    ASSUME NEW q \in Seq(Steps), q # <<>>, Len(q) <= 5, NEW t
    PROVE  /\ Weights(q, t) = Weight(Head(q), t) + Weights(Tail(q), t)
           /\ Weights(q, t) \in Int
  <1> DEFINE n == Len(q)
  <1>0. n \in Nat /\ n >= 1 /\ n <= 5 /\ Len(Tail(q)) = n - 1 /\ Head(q) = q[1]
    OBVIOUS
  <1>1. \A i \in 1..(n - 1) : Tail(q)[i] = q[i + 1]
    OBVIOUS
  <1>5. Len(q) = n
    OBVIOUS
  <1> HIDE DEF n
  <1>2. /\ Share(Tail(q), 1, t) = Share(q, 2, t) /\ Share(Tail(q), 2, t) = Share(q, 3, t)
        /\ Share(Tail(q), 3, t) = Share(q, 4, t) /\ Share(Tail(q), 4, t) = Share(q, 5, t)
        /\ Share(Tail(q), 5, t) = 0 /\ Share(q, 1, t) = Weight(Head(q), t)
    BY <1>0, <1>1, <1>5 DEF Share
  <1>3. \A i \in 1..5 : Share(q, i, t) \in Int
    BY WeightInt DEF Share
  <1>4. /\ Share(q, 1, t) \in Int /\ Share(q, 2, t) \in Int /\ Share(q, 3, t) \in Int
        /\ Share(q, 4, t) \in Int /\ Share(q, 5, t) \in Int
    BY <1>3
  <1>6. /\ Share(q, 1, t) + Share(q, 2, t) + Share(q, 3, t) + Share(q, 4, t) + Share(q, 5, t)
           = Share(q, 1, t) + (Share(q, 2, t) + Share(q, 3, t) + Share(q, 4, t) + Share(q, 5, t) + 0)
        /\ Share(q, 1, t) + Share(q, 2, t) + Share(q, 3, t) + Share(q, 4, t) + Share(q, 5, t) \in Int
    BY <1>4, SumApart
  <1> QED
    BY <1>2, <1>6 DEF Weights

\* The steps that end a transport, and those that start or stop its idle timer.
Ending == {"idle_callback", "destroy", "destroy_transport", "tcp_destroy"}
Idling == {"cancel_idle", "start_idle"}

\* A step that the model writes: its fields, and its weight for each transport.
LEMMA StepOf ==
    ASSUME NEW name \in Names, NEW t \in Tps \cup {NoTp}, NEW m \in Msgs \cup {NoMsg}
    PROVE  /\ Step(name, t, m) \in Steps /\ Step(name, t, m).do = name /\ Step(name, t, m).t = t
           /\ \A u \in Tps : Weight(Step(name, t, m), u)
                 = IF u = t /\ m = NoMsg /\ name \in {"hold", "dec_ref"} THEN 1
                   ELSE IF u = t /\ m = NoMsg /\ name = "add_ref" THEN -1 ELSE 0
  BY DEF Step, Steps, Weight, S

\* A list of steps of one transport, with their weight.
Fits(q, t, w) ==
    /\ q \in Seq(Steps) /\ Len(q) <= 5
    /\ \A i \in 1..Len(q) : /\ q[i].t \in {t, NoTp} /\ q[i].do # "tcp_destroy"
                            /\ i > 1 => q[i].do \notin Ending \cup Idling
                            /\ \A u \in Tps : u # t => Weight(q[i], u) = 0
    /\ Weights(q, t) = w
    /\ Share(q, 5, t) >= 0 /\ Share(q, 4, t) + Share(q, 5, t) >= 0
    /\ Share(q, 3, t) + Share(q, 4, t) + Share(q, 5, t) >= 0
    /\ Share(q, 2, t) + Share(q, 3, t) + Share(q, 4, t) + Share(q, 5, t) >= 0 /\ w >= 0

\* The value that stands for no message, or no transport, is none.
LEMMA NoMessage == NoMsg \in Msgs \cup {NoMsg} /\ NoTp \in Tps \cup {NoTp} /\ NoTp \notin Tps
  BY TransportAssumption

\* The empty list fits every transport.
LEMMA FitsNone == ASSUME NEW t \in Tps PROVE Fits(<<>>, t, 0)
  <1>1. <<>> \in Seq(Steps) /\ Len(<<>>) = 0
    OBVIOUS
  <1>2. \A i \in 1..5 : Share(<<>>, i, t) = 0
    BY <1>1 DEF Share
  <1>3. 1 \in 1..5 /\ 2 \in 1..5 /\ 3 \in 1..5 /\ 4 \in 1..5 /\ 5 \in 1..5
    OBVIOUS
  <1> QED
    BY <1>1, <1>2, <1>3 DEF Fits, Weights

\* A step in front of a list.
LEMMA FitsMore ==
    ASSUME NEW t \in Tps, NEW q, NEW w \in Int, Fits(q, t, w), Len(q) <= 4,
           q # <<>> => q[1].do \notin Ending \cup Idling,
           NEW s \in Steps, s.t \in {t, NoTp}, s.do # "tcp_destroy",
           \A u \in Tps : u # t => Weight(s, u) = 0,
           w + Weight(s, t) >= 0
    PROVE  Fits(<<s>> \o q, t, w + Weight(s, t))
  <1> DEFINE r == <<s>> \o q
             n == Len(q)
  <1>1. q \in Seq(Steps) /\ n \in Nat /\ n <= 4 /\ Len(q) = n
    BY DEF Fits
  <1>2. r \in Seq(Steps) /\ Len(r) = n + 1 /\ r[1] = s /\ \A i \in 1..n : r[i + 1] = q[i]
    BY <1>1
  <1>5. q = <<>> <=> n = 0
    BY <1>1
  <1> HIDE DEF r, n
  <1>3. \A i \in 1..(n + 1) : i = 1 \/ (i - 1 \in 1..n /\ (i - 1) + 1 = i)
    BY SMTT(30), Z3T(30), <1>1
  <1>4. ASSUME NEW i \in 1..Len(r), i # 1
        PROVE  i - 1 \in 1..n /\ r[i] = q[i - 1] /\ (i = 2 => r[i] = q[1]) /\ (i # 2 => i - 1 > 1) /\ n # 0
    BY SMTT(30), Z3T(30), <1>1, <1>2, <1>3, <1>4
  <1>6. /\ Share(r, 2, t) = Share(q, 1, t) /\ Share(r, 3, t) = Share(q, 2, t)
        /\ Share(r, 4, t) = Share(q, 3, t) /\ Share(r, 5, t) = Share(q, 4, t)
        /\ Share(q, 5, t) = 0 /\ Share(r, 1, t) = Weight(s, t)
    BY SMTT(30), Z3T(30), <1>1, <1>2 DEF Share
  <1>7. /\ Share(q, 1, t) \in Int /\ Share(q, 2, t) \in Int /\ Share(q, 3, t) \in Int /\ Share(q, 4, t) \in Int
        /\ Share(q, 5, t) \in Int /\ Weight(s, t) \in Int
    BY WeightInt DEF Share
  <1>8. ASSUME NEW i \in 1..Len(r)
        PROVE  /\ r[i].t \in {t, NoTp} /\ r[i].do # "tcp_destroy"
               /\ i > 1 => r[i].do \notin Ending \cup Idling
               /\ \A u \in Tps : u # t => Weight(r[i], u) = 0
    <2>1. CASE i = 1
      BY SMTT(30), Z3T(30), <2>1, <1>2
    <2>2. CASE i # 1
      BY SMTT(30), Z3T(30), <2>2, <1>1, <1>4, <1>5 DEF Fits
    <2> QED
      BY <2>1, <2>2
  <1>9. /\ Weights(r, t) = w + Weight(s, t)
        /\ Share(r, 5, t) >= 0 /\ Share(r, 4, t) + Share(r, 5, t) >= 0
        /\ Share(r, 3, t) + Share(r, 4, t) + Share(r, 5, t) >= 0
        /\ Share(r, 2, t) + Share(r, 3, t) + Share(r, 4, t) + Share(r, 5, t) >= 0
    <2> DEFINE a == Share(q, 1, t)
               b == Share(q, 2, t)
               c == Share(q, 3, t)
               d == Share(q, 4, t)
               v == Weight(s, t)
    <2>1. /\ w = a + b + c + d + 0 /\ d + 0 >= 0 /\ c + d + 0 >= 0 /\ b + c + d + 0 >= 0 /\ w >= 0
          /\ a \in Int /\ b \in Int /\ c \in Int /\ d \in Int /\ v \in Int
      BY <1>6, <1>7 DEF Fits, Weights
    <2>2. Weights(r, t) = v + a + b + c + d
      BY <1>6 DEF Weights
    <2>3. Share(r, 2, t) = a /\ Share(r, 3, t) = b /\ Share(r, 4, t) = c /\ Share(r, 5, t) = d
      BY <1>6
    <2> HIDE DEF a, b, c, d, v
    <2>4. v + a + b + c + d = w + v /\ d >= 0 /\ c + d >= 0 /\ b + c + d >= 0 /\ a + b + c + d >= 0
      BY <2>1
    <2> QED
      BY <2>2, <2>3, <2>4 DEF v
  <1> QED
    BY SMTT(30), Z3T(30), <1>1, <1>2, <1>8, <1>9 DEF Fits, r

\* A step of a transport; one that neither ends it nor is about its idle timer.
Of(s, t) == /\ s \in Steps /\ s.t \in {t, NoTp} /\ s.do # "tcp_destroy"
            /\ \A u \in Tps : u # t => Weight(s, u) = 0
Calm(s, t) == Of(s, t) /\ s.do \notin Ending \cup Idling

\* A list of one step, which takes no reference.
LEMMA FitsOne ==
    ASSUME NEW t \in Tps, NEW a, Of(a, t), Weight(a, t) >= 0
    PROVE  Fits(<<a>>, t, Weight(a, t))
  <1>1. <<a>> = <<a>> \o <<>> /\ Len(<<>>) = 0
    OBVIOUS
  <1>2. 0 + Weight(a, t) = Weight(a, t)
    BY WeightInt
  <1> DEFINE q == <<>>
             w == 0
  <1>3. Fits(q, t, w) /\ w \in Int /\ Len(q) <= 4 /\ q = <<>> /\ w + Weight(a, t) >= 0
    BY <1>1, <1>2, FitsNone
  <1> HIDE DEF q, w
  <1>4. Fits(<<a>> \o q, t, w + Weight(a, t))
    BY <1>3, FitsMore DEF Of
  <1> QED
    BY <1>1, <1>2, <1>4 DEF q, w

\* A list of two steps whose second gives back what the first takes.
LEMMA FitsTwo ==
    ASSUME NEW t \in Tps, NEW a, NEW b, Of(a, t), Calm(b, t),
           Weight(b, t) >= 0, Weight(b, t) + Weight(a, t) >= 0
    PROVE  Fits(<<a, b>>, t, Weight(b, t) + Weight(a, t))
  <1>1. <<a, b>> = <<a>> \o <<b>> /\ Len(<<b>>) = 1 /\ <<b>>[1] = b
    <2> DEFINE q == <<a>> \o <<b>>
    <2>1. Len(q) = 2 /\ q[1] = a /\ q[2] = b /\ q \in Seq({a, b})
      OBVIOUS
    <2>2. Len(<<b>>) = 1 /\ <<b>>[1] = b
      OBVIOUS
    <2> HIDE DEF q
    <2>3. q = <<a, b>>
      BY <2>1
    <2> QED
      BY <2>2, <2>3 DEF q
  <1>2. Fits(<<b>>, t, Weight(b, t)) /\ Weight(b, t) \in Int
    BY FitsOne, WeightInt DEF Calm
  <1> DEFINE q == <<b>>
             w == Weight(b, t)
  <1>3. Fits(q, t, w) /\ w \in Int /\ Len(q) <= 4 /\ q[1].do \notin Ending \cup Idling
        /\ w + Weight(a, t) >= 0
    BY <1>1, <1>2 DEF Calm
  <1> HIDE DEF q, w
  <1>4. Fits(<<a>> \o q, t, w + Weight(a, t))
    BY <1>3, FitsMore DEF Of
  <1> QED
    BY <1>1, <1>4 DEF q, w

\* A list of three steps.
LEMMA FitsThree ==
    ASSUME NEW t \in Tps, NEW a, NEW b, NEW c, Of(a, t), Calm(b, t), Calm(c, t),
           Weight(c, t) >= 0, Weight(c, t) + Weight(b, t) >= 0,
           Weight(c, t) + Weight(b, t) + Weight(a, t) >= 0
    PROVE  Fits(<<a, b, c>>, t, Weight(c, t) + Weight(b, t) + Weight(a, t))
  <1>1. <<a, b, c>> = <<a>> \o <<b, c>> /\ Len(<<b, c>>) = 2 /\ <<b, c>>[1] = b
    OBVIOUS
  <1>2. Fits(<<b, c>>, t, Weight(c, t) + Weight(b, t)) /\ Weight(c, t) + Weight(b, t) \in Int
    BY FitsTwo, WeightInt DEF Calm
  <1> DEFINE q == <<b, c>>
             w == Weight(c, t) + Weight(b, t)
  <1>3. Fits(q, t, w) /\ w \in Int /\ Len(q) <= 4 /\ q[1].do \notin Ending \cup Idling
        /\ w + Weight(a, t) >= 0
    BY <1>1, <1>2 DEF Calm
  <1> HIDE DEF q, w
  <1>4. Fits(<<a>> \o q, t, w + Weight(a, t))
    BY <1>3, FitsMore DEF Of
  <1> QED
    BY <1>1, <1>4 DEF q, w

\* A list of four steps, the longest that a function puts on a list by itself
\* (tcp_init_shutdown).
LEMMA FitsFour ==
    ASSUME NEW t \in Tps, NEW a, NEW b, NEW c, NEW d, Of(a, t), Calm(b, t), Calm(c, t), Calm(d, t),
           Weight(d, t) >= 0, Weight(d, t) + Weight(c, t) >= 0,
           Weight(d, t) + Weight(c, t) + Weight(b, t) >= 0,
           Weight(d, t) + Weight(c, t) + Weight(b, t) + Weight(a, t) >= 0
    PROVE  Fits(<<a, b, c, d>>, t, Weight(d, t) + Weight(c, t) + Weight(b, t) + Weight(a, t))
  <1>1. <<a, b, c, d>> = <<a>> \o <<b, c, d>> /\ Len(<<b, c, d>>) = 3 /\ <<b, c, d>>[1] = b
    OBVIOUS
  <1>2. /\ Fits(<<b, c, d>>, t, Weight(d, t) + Weight(c, t) + Weight(b, t))
        /\ Weight(d, t) + Weight(c, t) + Weight(b, t) \in Int
    BY FitsThree, WeightInt DEF Calm
  <1> DEFINE q == <<b, c, d>>
             w == Weight(d, t) + Weight(c, t) + Weight(b, t)
  <1>3. Fits(q, t, w) /\ w \in Int /\ Len(q) <= 4 /\ q[1].do \notin Ending \cup Idling
        /\ w + Weight(a, t) >= 0
    BY <1>1, <1>2 DEF Calm
  <1> HIDE DEF q, w
  <1>4. Fits(<<a>> \o q, t, w + Weight(a, t))
    BY <1>3, FitsMore DEF Of
  <1> QED
    BY <1>1, <1>4 DEF q, w

\* The steps that the functions put on a list.
LEMMA OfName ==
    ASSUME NEW t \in Tps, NEW name \in Names \ {"tcp_destroy"}
    PROVE  /\ Of(S(name, t), t) /\ S(name, t).do = name /\ S(name, t).t = t
           /\ name \notin Ending \cup Idling => Calm(S(name, t), t)
           /\ Weight(S(name, t), t) = IF name \in {"hold", "dec_ref"} THEN 1
                                      ELSE IF name = "add_ref" THEN -1 ELSE 0
  BY SMTT(30), Z3T(30), StepOf, NoMessage DEF S, Of, Calm

\* Giving up the lock of the manager concerns no transport.
LEMMA OfUnlock ==
    ASSUME NEW t \in Tps
    PROVE  Calm(S("unlock", NoTp), t) /\ Weight(S("unlock", NoTp), t) = 0
  <1>1. "unlock" \in Names /\ "unlock" \notin Ending \cup Idling
    BY DEF Names, Ending, Idling
  <1> QED
    BY SMTT(30), Z3T(30), <1>1, StepOf, NoMessage DEF S, Of, Calm

\* The steps with a message concern its transport, and take no reference.
LEMMA OfMsg ==
    ASSUME NEW t \in Tps, NEW m \in Msgs, NEW name \in {"send_msg", "delay", "asock_send", "sent"}
    PROVE  Calm(Step(name, t, m), t) /\ Weight(Step(name, t, m), t) = 0
  <1>1. name \in Names /\ name \notin Ending \cup Idling /\ name # "tcp_destroy"
    BY DEF Names, Ending, Idling
  <1> QED
    BY SMTT(30), Z3T(30), <1>1, StepOf, NoMessage, TransportAssumption DEF Of, Calm

\* One step of a function, and what it owes.
LEMMA Single ==
    ASSUME NEW t \in Tps, NEW name \in Names \ {"tcp_destroy", "add_ref"}
    PROVE  Fits(<<S(name, t)>>, t, IF name \in {"hold", "dec_ref"} THEN 1 ELSE 0)
  BY SMTT(30), Z3T(30), OfName, FitsOne

\* One step with a message owes nothing.
LEMMA SingleMsg ==
    ASSUME NEW t \in Tps, NEW m \in Msgs, NEW name \in {"send_msg", "delay", "asock_send", "sent"}
    PROVE  Fits(<<Step(name, t, m)>>, t, 0)
  BY SMTT(30), Z3T(30), OfMsg, FitsOne DEF Calm

\* The lists of several steps that the functions write: each step that takes a
\* reference is followed by one that gives it back or hands it to a user.
LEMMA Several ==
    ASSUME NEW t \in Tps
    PROVE  /\ Fits(<<S("init_shutdown", t), S("cancel_delayed", t)>>, t, 0)
           /\ Fits(<<S("init_shutdown", t), S("flush", t)>>, t, 0)
           /\ Fits(<<S("flush", t), S("start_ka", t)>>, t, 0)
           /\ Fits(<<S("destroy", t), S("unlock", NoTp)>>, t, 0)
           /\ Fits(<<S("add_ref", t), S("hold", t)>>, t, 0)
           /\ Fits(<<S("add_ref", t), S("dec_ref", t), S("unlock", NoTp)>>, t, 0)
           /\ Fits(<<S("add_ref", t), S("unlock", NoTp), S("hold", t)>>, t, 0)
           /\ Fits(<<S("add_ref", t), S("state_cb", t), S("check_again", t), S("dec_ref", t)>>, t, 0)
           /\ Fits(<<S("init_shutdown", t), S("add_ref", t), S("unlock", NoTp), S("hold", t)>>, t, 0)
           /\ \A m \in Msgs : /\ Fits(<<S("add_ref", t), Step("send_msg", t, m), S("dec_ref", t)>>, t, 0)
                             /\ Fits(<<S("init_shutdown", t), Step("sent", t, m)>>, t, 0)
  <1> DEFINE W(name) == Weight(S(name, t), t)
  <1>1. /\ Calm(S("init_shutdown", t), t) /\ W("init_shutdown") = 0
        /\ Calm(S("cancel_delayed", t), t) /\ W("cancel_delayed") = 0
        /\ Calm(S("flush", t), t) /\ W("flush") = 0 /\ Calm(S("start_ka", t), t) /\ W("start_ka") = 0
        /\ Calm(S("state_cb", t), t) /\ W("state_cb") = 0
        /\ Calm(S("check_again", t), t) /\ W("check_again") = 0
        /\ Calm(S("add_ref", t), t) /\ W("add_ref") = -1
        /\ Calm(S("dec_ref", t), t) /\ W("dec_ref") = 1 /\ Calm(S("hold", t), t) /\ W("hold") = 1
        /\ Of(S("destroy", t), t) /\ W("destroy") = 0
    <2>1. /\ {"init_shutdown", "cancel_delayed", "flush", "start_ka", "state_cb", "check_again",
              "add_ref", "dec_ref", "hold"} \subseteq Names \ (Ending \cup Idling)
          /\ "destroy" \in Names /\ "tcp_destroy" \in Ending
      BY DEF Names, Ending, Idling
    <2>2. \A name \in Names \ (Ending \cup Idling) : Calm(S(name, t), t)
      BY SMTT(30), Z3T(30), <2>1, OfName
    <2>3. \A name \in Names \ {"tcp_destroy"} : Weight(S(name, t), t) = IF name \in {"hold", "dec_ref"} THEN 1
                                      ELSE IF name = "add_ref" THEN -1 ELSE 0
      BY OfName
    <2> QED
      BY <2>1, <2>2, <2>3, OfName
  <1>2. Calm(S("unlock", NoTp), t) /\ Weight(S("unlock", NoTp), t) = 0
    BY OfUnlock
  <1>3. \A s : Calm(s, t) => Of(s, t)
    BY DEF Calm
  <1>4. \A m \in Msgs : /\ Calm(Step("send_msg", t, m), t) /\ Weight(Step("send_msg", t, m), t) = 0
                        /\ Calm(Step("sent", t, m), t) /\ Weight(Step("sent", t, m), t) = 0
    BY OfMsg
  <1>5. /\ Fits(<<S("init_shutdown", t), S("cancel_delayed", t)>>, t, 0)
        /\ Fits(<<S("init_shutdown", t), S("flush", t)>>, t, 0)
        /\ Fits(<<S("flush", t), S("start_ka", t)>>, t, 0)
        /\ Fits(<<S("destroy", t), S("unlock", NoTp)>>, t, 0)
        /\ Fits(<<S("add_ref", t), S("hold", t)>>, t, 0)
    BY <1>1, <1>2, <1>3, FitsTwo
  <1>6. /\ Fits(<<S("add_ref", t), S("dec_ref", t), S("unlock", NoTp)>>, t, 0)
        /\ Fits(<<S("add_ref", t), S("unlock", NoTp), S("hold", t)>>, t, 0)
    BY <1>1, <1>2, <1>3, FitsThree
  <1>7. \A m \in Msgs : Fits(<<S("add_ref", t), Step("send_msg", t, m), S("dec_ref", t)>>, t, 0)
    BY <1>1, <1>3, <1>4, FitsThree
  <1>8. /\ Fits(<<S("add_ref", t), S("state_cb", t), S("check_again", t), S("dec_ref", t)>>, t, 0)
        /\ Fits(<<S("init_shutdown", t), S("add_ref", t), S("unlock", NoTp), S("hold", t)>>, t, 0)
    BY <1>1, <1>2, <1>3, FitsFour
  <1>9. \A m \in Msgs : Fits(<<S("init_shutdown", t), Step("sent", t, m)>>, t, 0)
    BY <1>1, <1>3, <1>4, FitsTwo
  <1> QED
    BY <1>5, <1>6, <1>7, <1>8, <1>9

Types == /\ tp \in [Tps -> TpType]
         /\ table \in [Keys -> Tps \cup {NoTp}] /\ tp_list \subseteq Tps
         /\ users \in [Tps -> Nat]
         /\ todo \in Lists

\* A step is about a transport that was made, and ends one that is being destroyed.
Ok(p, s) == /\ s.t \in Tps => p[s.t].life # "none"
            /\ s.do = "tcp_destroy" => s.t \in Tps /\ p[s.t].is_destroying
AllOk == \A x \in Threads : \A i \in DOMAIN todo[x] : Ok(tp, todo[x][i])
Fresh == \A t \in Tps : tp[t].life = "none" =>
            /\ users[t] = 0 /\ tp[t].ref_cnt = 0
            /\ ~tp[t].armed /\ ~tp[t].id /\ ~tp[t].ka /\ ~tp[t].used
            /\ ~tp[t].is_destroying
KeyOf == \A k \in Keys : table[k] # NoTp => tp[table[k]].key = k
Base == Types /\ AllOk /\ Fresh /\ KeyOf /\ FoundOrListed

Rest(th) == IF todo[th] = <<>> THEN <<>> ELSE Tail(todo[th])
HeadWeight(th, t) == IF todo[th] = <<>> THEN 0 ELSE Weight(Head(todo[th]), t)
Rewrites(th, q) == /\ q \in Seq(Steps) /\ Len(q) <= 5
                   /\ todo' = [todo EXCEPT ![th] = q \o Rest(th)]
Balance(th, q) == \A u \in Tps : (tp'[u].ref_cnt - users'[u]) - (tp[u].ref_cnt - users[u])
                                      = Weights(q, u) - HeadWeight(th, u)
\* What most steps leave alone.
Keeps(u) == /\ tp'[u].life = tp[u].life /\ tp'[u].key = tp[u].key
            /\ tp'[u].is_destroying = tp[u].is_destroying
            /\ tp[u].life = "none" => tp'[u] = tp[u] /\ users'[u] = users[u]
Ordinary == /\ tp' \in [Tps -> TpType] /\ users' \in [Tps -> Nat]
            /\ table' = table /\ tp_list' = tp_list /\ \A u \in Tps : Keeps(u)
Plain(th) == /\ Ordinary
             /\ \E q : Rewrites(th, q) /\ Balance(th, q) /\ \A i \in 1..Len(q) : Ok(tp, q[i])

\* The step a thread is at is one of the steps, concerns a transport that was made,
\* and has the weight that its list loses.
LEMMA AtOk ==
    ASSUME Types, AllOk, NEW th \in Threads, NEW name, NEW t, NEW m, At(th, name, t, m)
    PROVE  /\ Step(name, t, m) \in Steps /\ Ok(tp, Step(name, t, m))
           /\ todo[th] # <<>> /\ Rest(th) = Tail(todo[th])
           /\ \A u : HeadWeight(th, u) = Weight(Step(name, t, m), u)
           /\ todo[th] \in Seq(Steps) /\ Rest(th) \in Seq(Steps)
  <1>1. todo[th] \in Seq(Steps) /\ todo[th] # <<>> /\ Head(todo[th]) = Step(name, t, m)
    BY DEF At, Types, Lists
  <1>2. 1 \in DOMAIN todo[th] /\ Head(todo[th]) = todo[th][1] /\ Head(todo[th]) \in Steps /\ Tail(todo[th]) \in Seq(Steps)
    BY <1>1
  <1> QED
    BY <1>1, <1>2 DEF AllOk, Rest, HeadWeight

\* A thread that goes on replaces the first step of its list.
LEMMA Continued ==
    ASSUME Types, AllOk, NEW th \in Threads, NEW name, NEW t, NEW m, At(th, name, t, m),
           NEW q \in Seq(Steps), Len(q) <= 5, Continue(th, q)
    PROVE  Rewrites(th, q)
  BY AtOk DEF Continue, Rewrites, Types, Lists

\* A thread that begins a call had an empty list.
LEMMA Begun ==
    ASSUME Types, NEW th \in Threads, NEW q \in Seq(Steps), Len(q) <= 5, Begin(th, q)
    PROVE  Rewrites(th, q) /\ \A u : HeadWeight(th, u) = 0
  <1>1. q \o <<>> = q
    OBVIOUS
  <1> QED
    BY <1>1 DEF Begin, Rewrites, Rest, HeadWeight, Types, Lists

\* The steps of a new list concern transports that were made, if its new steps do.
LEMMA ListsKept ==
    ASSUME Types, AllOk, NEW th \in Threads, NEW q, Rewrites(th, q), \A i \in 1..Len(q) : Ok(tp', q[i]),
           \A s \in Steps : Ok(tp, s) => Ok(tp', s)
    PROVE  todo' \in Lists /\ AllOk'
  <1> DEFINE r == Rest(th)
  <1>1. q \in Seq(Steps) /\ r \in Seq(Steps) /\ todo'[th] = q \o r
        /\ \A x \in Threads : x # th => todo'[x] = todo[x]
    BY SMTT(30), Z3T(30) DEF Rewrites, Types, Lists, Rest
  <1>2. todo' \in Lists
    BY SMTT(30), Z3T(30), <1>1 DEF Rewrites, Types, Lists
  <1>3. \A i \in 1..Len(r) : Ok(tp, r[i])
    BY DEF Types, Lists, Rest, AllOk
  <1> HIDE DEF r
  <1>4. ASSUME NEW i \in DOMAIN (q \o r)
        PROVE  (i \in 1..Len(q) /\ (q \o r)[i] = q[i]) \/ (i - Len(q) \in 1..Len(r) /\ (q \o r)[i] = r[i - Len(q)])
    BY <1>1
  <1>5. \A i \in 1..Len(r) : Ok(tp', r[i])
    BY <1>1, <1>3
  <1>6. \A i \in DOMAIN todo'[th] : Ok(tp', todo'[th][i])
    BY <1>1, <1>4, <1>5
  <1>7. \A x \in Threads : x # th => \A i \in DOMAIN todo'[x] : Ok(tp', todo'[x][i])
    BY SMTT(30), Z3T(30), <1>1 DEF Types, Lists, AllOk
  <1> QED
    BY <1>2, <1>6, <1>7 DEF AllOk

\* An ordinary step keeps the base: no transport changes its life, its key or its
\* place in the table and the list.
LEMMA OrdinaryKeeps ==
    ASSUME Base, NEW th \in Threads, Plain(th)
    PROVE  Base'
  <1>1. PICK q : Rewrites(th, q) /\ \A i \in 1..Len(q) : Ok(tp, q[i])
    BY DEF Plain
  <1>2. Types /\ AllOk /\ Ordinary
    BY DEF Base, Plain
  <1>3. \A s \in Steps : Ok(tp, s) => Ok(tp', s)
    BY <1>2 DEF Ordinary, Keeps, Ok
  <1>4. todo' \in Lists /\ AllOk'
    <2>1. \A i \in 1..Len(q) : q[i] \in Steps
      BY <1>1 DEF Rewrites
    <2>2. \A i \in 1..Len(q) : Ok(tp', q[i])
      BY <1>1, <1>3, <2>1
    <2> QED
      BY <1>1, <1>2, <1>3, <2>2, ListsKept
  <1>5. Fresh'
    BY ZenonT(120), SMTT(30), <1>2 DEF Base, Ordinary, Keeps, Fresh
  <1>6. KeyOf'
    BY ZenonT(120), SMTT(30), <1>2 DEF Base, Ordinary, Keeps, KeyOf, Types
  <1>7. FoundOrListed'
    BY SMTT(30), Z3T(30), <1>2 DEF Base, Ordinary, Keeps, FoundOrListed
  <1>8. Types'
    BY <1>2, <1>4 DEF Types, Ordinary
  <1> QED
    BY <1>4, <1>5, <1>6, <1>7, <1>8 DEF Base

\* One transport is changed to r, and has v users then.
Changes(t, r, v) ==
    /\ r \in TpType /\ tp' = [tp EXCEPT ![t] = r]
    /\ r.life = tp[t].life /\ r.key = tp[t].key /\ r.is_destroying = tp[t].is_destroying
    /\ v \in Nat /\ users' = [users EXCEPT ![t] = v]
    /\ table' = table /\ tp_list' = tp_list

\* A step that changes no transport changes each to itself.
LEMMA Untouched ==
    ASSUME Types, NEW t \in Tps, UNCHANGED <<tp, users, table, tp_list>>
    PROVE  Changes(t, tp[t], users[t])
  <1>1. tp[t] \in TpType /\ users[t] \in Nat /\ [tp EXCEPT ![t] = tp[t]] = tp
    BY DEF Types
  <1>2. [users EXCEPT ![t] = users[t]] = users
    BY <1>1 DEF Types
  <1> QED
    BY <1>1, <1>2 DEF Changes

\* A step that changes the record of one transport and no user.
LEMMA Altered ==
    ASSUME Types, NEW t \in Tps, NEW r \in TpType, tp' = [tp EXCEPT ![t] = r],
           r.life = tp[t].life, r.key = tp[t].key, r.is_destroying = tp[t].is_destroying,
           UNCHANGED <<users, table, tp_list>>
    PROVE  Changes(t, r, users[t])
  <1>1. users[t] \in Nat
    BY DEF Types
  <1>2. [users EXCEPT ![t] = users[t]] = users
    BY <1>1 DEF Types
  <1> QED
    BY <1>1, <1>2 DEF Changes

\* A step that changes the users of one transport and no record.
LEMMA Counted ==
    ASSUME Types, NEW t \in Tps, NEW v \in Nat, users' = [users EXCEPT ![t] = v],
           UNCHANGED <<tp, table, tp_list>>
    PROVE  Changes(t, tp[t], v)
  <1>1. tp[t] \in TpType /\ [tp EXCEPT ![t] = tp[t]] = tp
    BY DEF Types
  <1> QED
    BY <1>1 DEF Changes

\* The weights of a list that fits.
LEMMA FitsWeights ==
    ASSUME NEW t \in Tps, NEW q, NEW w \in Int, Fits(q, t, w)
    PROVE  \A u \in Tps : Weights(q, u) = IF u = t THEN w ELSE 0
  <1> SUFFICES ASSUME NEW u \in Tps, u # t PROVE Weights(q, u) = 0
    BY DEF Fits
  <1>1. \A i \in 1..5 : Share(q, i, u) = 0
    BY SMTT(30), Z3T(30) DEF Fits, Share
  <1>2. 1 \in 1..5 /\ 2 \in 1..5 /\ 3 \in 1..5 /\ 4 \in 1..5 /\ 5 \in 1..5
    OBVIOUS
  <1> QED
    BY <1>1, <1>2 DEF Weights

\* A step is ordinary if it changes one transport, puts on a list only steps of that
\* transport, and the change of the counter is what the lists lose and gain.
LEMMA PlainIf ==
    ASSUME Base, NEW th \in Threads, NEW t \in Tps, tp[t].life # "none", NEW q, NEW w \in Int, Fits(q, t, w),
           Rewrites(th, q), NEW r, NEW v, Changes(t, r, v),
           \A u \in Tps : HeadWeight(th, u) = IF u = t THEN (w + (v - users[t])) - (r.ref_cnt - tp[t].ref_cnt) ELSE 0
    PROVE  Plain(th)
  <1>1. /\ tp \in [Tps -> TpType] /\ users \in [Tps -> Nat] /\ tp[t] \in TpType /\ users[t] \in Nat
        /\ tp[t].ref_cnt \in Int
    BY DEF Base, Types, TpType
  <1>2. /\ tp' \in [Tps -> TpType] /\ tp'[t] = r /\ \A u \in Tps : u # t => tp'[u] = tp[u]
    BY <1>1 DEF Changes
  <1>3. /\ users' \in [Tps -> Nat] /\ users'[t] = v /\ \A u \in Tps : u # t => users'[u] = users[u]
    BY <1>1 DEF Changes
  <1>4. Ordinary
    BY <1>2, <1>3 DEF Changes, Ordinary, Keeps
  <1>5. r.ref_cnt \in Int /\ v \in Nat
    BY DEF Changes, TpType
  <1>6. Balance(th, q)
    <2>1. \A u \in Tps : Weights(q, u) = IF u = t THEN w ELSE 0
      BY FitsWeights
    <2>2. \A u \in Tps : tp[u].ref_cnt \in Int /\ users[u] \in Int
      BY SMTT(30), Z3T(30), <1>1 DEF TpType
    <2>3. /\ tp'[t].ref_cnt = r.ref_cnt
          /\ \A u \in Tps : u # t => tp'[u].ref_cnt = tp[u].ref_cnt
      BY <1>2
    <2> QED
      BY SMTT(30), Z3T(30), <1>1, <1>3, <1>5, <2>1, <2>2, <2>3 DEF Balance
  <1>7. \A i \in 1..Len(q) : Ok(tp, q[i])
    BY NoMessage DEF Fits, Ok
  <1> QED
    BY <1>4, <1>6, <1>7 DEF Plain

\* The same for a thread that goes on with a call.
LEMMA PlainStep ==
    ASSUME Base, NEW th \in Threads, NEW t \in Tps, NEW name \in Names, NEW m \in Msgs \cup {NoMsg},
           At(th, name, t, m), NEW q, NEW w \in Int, Fits(q, t, w),
           Continue(th, q), NEW r, NEW v, Changes(t, r, v),
           (w + (v - users[t])) - (r.ref_cnt - tp[t].ref_cnt) = IF m = NoMsg /\ name \in {"hold", "dec_ref"} THEN 1
                                                 ELSE IF m = NoMsg /\ name = "add_ref" THEN -1 ELSE 0
    PROVE  Plain(th)
  <1>1. /\ Step(name, t, m) \in Steps /\ Step(name, t, m).t = t
        /\ \A u \in Tps : Weight(Step(name, t, m), u)
                 = IF u = t /\ m = NoMsg /\ name \in {"hold", "dec_ref"} THEN 1
                   ELSE IF u = t /\ m = NoMsg /\ name = "add_ref" THEN -1 ELSE 0
    BY SMTT(30), Z3T(30), StepOf
  <1>2. Types /\ AllOk
    BY DEF Base
  <1>3. Ok(tp, Step(name, t, m)) /\ \A u : HeadWeight(th, u) = Weight(Step(name, t, m), u)
    BY SMTT(30), Z3T(30), <1>2, AtOk
  <1>4. tp[t].life # "none"
    BY <1>1, <1>3 DEF Ok
  <1>5. Rewrites(th, q)
    BY <1>2, Continued DEF Fits
  <1>6. \A u \in Tps : HeadWeight(th, u) = IF u = t THEN (w + (v - users[t])) - (r.ref_cnt - tp[t].ref_cnt) ELSE 0
    BY <1>1, <1>3
  <1> QED
    BY <1>4, <1>5, <1>6, PlainIf

\* The same for a thread that begins a call.
LEMMA PlainBegin ==
    ASSUME Base, NEW th \in Threads, NEW t \in Tps, tp[t].life # "none",
           NEW q, NEW w \in Int, Fits(q, t, w),
           Begin(th, q), NEW r, NEW v, Changes(t, r, v), (w + (v - users[t])) - (r.ref_cnt - tp[t].ref_cnt) = 0
    PROVE  Plain(th)
  <1>1. Types
    BY DEF Base
  <1>2. Rewrites(th, q) /\ \A u : HeadWeight(th, u) = 0
    BY <1>1, Begun DEF Fits
  <1>3. \A u \in Tps : HeadWeight(th, u) = IF u = t THEN (w + (v - users[t])) - (r.ref_cnt - tp[t].ref_cnt) ELSE 0
    BY <1>2
  <1> QED
    BY <1>2, <1>3, PlainIf

\* The step goes on, or the call begins, with a list that owes nothing.
Goes(th, t) == \E q : Fits(q, t, 0) /\ Continue(th, q)
Starts(th, t) == \E q : Fits(q, t, 0) /\ Begin(th, q)

\* The types of what the steps read.
LEMMA Facts ==
    ASSUME Base, NEW t \in Tps
    PROVE  /\ Types /\ AllOk /\ tp \in [Tps -> TpType] /\ tp[t] \in TpType
           /\ tp[t].ref_cnt \in Int /\ users[t] \in Nat /\ NoMsg \in Msgs \cup {NoMsg}
  BY DEF Base, Types, TpType

\* A step that neither changes the counter nor concerns it.
LEMMA Silent ==
    ASSUME Base, NEW th \in Threads, NEW t \in Tps, NEW m \in Msgs \cup {NoMsg},
           NEW name \in Names \ {"hold", "dec_ref", "add_ref"}, At(th, name, t, m), Goes(th, t),
           NEW r, Changes(t, r, users[t]), r.ref_cnt = tp[t].ref_cnt
    PROVE  Plain(th)
  <1>1. PICK q : Fits(q, t, 0) /\ Continue(th, q)
    BY DEF Goes
  <1>2. (0 + (users[t] - users[t])) - (r.ref_cnt - tp[t].ref_cnt) = 0
    BY Facts
  <1> QED
    BY SMTT(30), Z3T(30), <1>1, <1>2, PlainStep

\* A call that begins without changing the counter.
LEMMA SilentBegin ==
    ASSUME Base, NEW th \in Threads, NEW t \in Tps, tp[t].life # "none", Starts(th, t),
           NEW r, Changes(t, r, users[t]), r.ref_cnt = tp[t].ref_cnt
    PROVE  Plain(th)
  <1>1. PICK q : Fits(q, t, 0) /\ Begin(th, q)
    BY DEF Starts
  <1>2. (0 + (users[t] - users[t])) - (r.ref_cnt - tp[t].ref_cnt) = 0
    BY Facts
  <1> QED
    BY <1>1, <1>2, PlainBegin

Quietly == {"cancel_idle", "start_idle", "idle_callback", "destroy",
            "destroy_transport", "shutdown", "flush", "start_ka",
            "init_shutdown", "cancel_delayed", "state_cb",
            "check_again", "keep_alive", "accepted"}

\* The lists of one step that a function goes on with.
LEMMA Singles ==
    ASSUME NEW t \in Tps
    PROVE  /\ Fits(<<>>, t, 0)
           /\ \A name \in Quietly : Fits(<<S(name, t)>>, t, 0) /\ name \in Names \ {"hold", "dec_ref", "add_ref"}
           /\ Fits(<<S("dec_ref", t)>>, t, 1)
  <1>1. Quietly \subseteq Names \ {"tcp_destroy", "add_ref", "hold", "dec_ref"} /\ "dec_ref" \in Names \ {"tcp_destroy", "add_ref"}
    BY ZenonT(120), SMTT(30) DEF Quietly, Names
  <1> QED
    BY <1>1, Single, FitsNone

\* pjsip_transport_add_ref counts the reference its step stood for.
LEMMA AddRef ==
    ASSUME Base, NEW th \in Threads, NEW t \in Tps, add_ref(th, t)
    PROVE  Plain(th)
  <1> DEFINE c == tp[t].ref_cnt
             r == [tp[t] EXCEPT !.ref_cnt = c + 1, !.used = TRUE]
  <1>1. Types /\ tp \in [Tps -> TpType] /\ tp[t] \in TpType /\ c \in Int /\ c + 1 \in Int /\ users[t] \in Nat
    BY Facts
  <1>2. r \in TpType
    BY <1>1 DEF TpType
  <1>3. /\ r.life = tp[t].life /\ r.key = tp[t].key /\ r.is_destroying = tp[t].is_destroying
        /\ r.ref_cnt = c + 1
    BY <1>1 DEF TpType
  <1>4. tp' = [tp EXCEPT ![t] = r] /\ UNCHANGED <<users, table, tp_list>>
    BY <1>1 DEF add_ref
  <1>5. "cancel_idle" \in Quietly /\ "add_ref" \in Names /\ NoMsg \in Msgs \cup {NoMsg}
    BY DEF Names, Quietly
  <1> HIDE DEF r
  <1>6. Changes(t, r, users[t])
    BY <1>1, <1>2, <1>3, <1>4, Altered
  <1>7. (0 + (users[t] - users[t])) - (r.ref_cnt - tp[t].ref_cnt) = -1
    BY <1>1, <1>3
  <1>8. \E q : Fits(q, t, 0) /\ Continue(th, q) /\ At(th, "add_ref", t, NoMsg)
    BY <1>5, Singles DEF add_ref
  <1> QED
    BY SMTT(30), Z3T(30), <1>5, <1>6, <1>7, <1>8, PlainStep

\* pjsip_transport_dec_ref gives back the reference its step stood for.
LEMMA DecRef ==
    ASSUME Base, NEW th \in Threads, NEW t \in Tps, dec_ref(th, t)
    PROVE  Plain(th)
  <1> DEFINE c == tp[t].ref_cnt
             r == [tp[t] EXCEPT !.ref_cnt = c - 1]
  <1>1. Types /\ tp \in [Tps -> TpType] /\ tp[t] \in TpType /\ c \in Int /\ c - 1 \in Int /\ users[t] \in Nat
    BY Facts
  <1>2. r \in TpType
    BY <1>1 DEF TpType
  <1>3. /\ r.life = tp[t].life /\ r.key = tp[t].key /\ r.is_destroying = tp[t].is_destroying
        /\ r.ref_cnt = c - 1
    BY <1>1 DEF TpType
  <1>4. tp' = [tp EXCEPT ![t] = r] /\ UNCHANGED <<users, table, tp_list>>
    BY <1>1 DEF dec_ref
  <1>5. "start_idle" \in Quietly /\ "dec_ref" \in Names /\ NoMsg \in Msgs \cup {NoMsg}
    BY DEF Names, Quietly
  <1> HIDE DEF r
  <1>6. Changes(t, r, users[t])
    BY <1>1, <1>2, <1>3, <1>4, Altered
  <1>7. (0 + (users[t] - users[t])) - (r.ref_cnt - tp[t].ref_cnt) = 1
    BY <1>1, <1>3
  <1>8. \E q : Fits(q, t, 0) /\ Continue(th, q) /\ At(th, "dec_ref", t, NoMsg)
    BY <1>5, Singles DEF dec_ref
  <1> QED
    BY SMTT(30), Z3T(30), <1>5, <1>6, <1>7, <1>8, PlainStep

\* A caller becomes a user with the reference that was taken for it.
LEMMA Hold ==
    ASSUME Base, NEW th \in Threads, NEW t \in Tps, hold(th, t)
    PROVE  Plain(th)
  <1> DEFINE v == users[t] + 1
  <1>1. /\ Types /\ tp[t].ref_cnt \in Int /\ users[t] \in Nat /\ "hold" \in Names /\ NoMsg \in Msgs \cup {NoMsg}
        /\ v \in Nat /\ users' = [users EXCEPT ![t] = v] /\ UNCHANGED <<tp, table, tp_list>>
    BY Facts DEF Names, hold
  <1>2. (0 + (v - users[t])) - (tp[t].ref_cnt - tp[t].ref_cnt) = 1
    BY <1>1
  <1> HIDE DEF v
  <1>3. Changes(t, tp[t], v)
    BY <1>1, Counted
  <1>4. At(th, "hold", t, NoMsg) /\ Fits(<<>>, t, 0) /\ Continue(th, <<>>)
    BY Singles DEF hold
  <1> QED
    BY SMTT(30), Z3T(30), <1>1, <1>2, <1>3, <1>4, PlainStep

\* In the state callback a user may leave, whose reference the next step gives back.
LEMMA StateCb ==
    ASSUME Base, NEW th \in Threads, NEW t \in Tps, state_cb(th, t)
    PROVE  Plain(th)
  <1> DEFINE v == users[t] - 1
  <1>1. /\ Types /\ tp[t].ref_cnt \in Int /\ users[t] \in Nat /\ NoMsg \in Msgs \cup {NoMsg}
        /\ At(th, "state_cb", t, NoMsg) /\ "state_cb" \in Names \ {"hold", "dec_ref", "add_ref"} /\ "shutdown" \in Quietly
        /\ UNCHANGED <<tp, table, tp_list>>
    BY Facts DEF Names, Quietly, state_cb
  <1>2. CASE Goes(th, t) /\ users' = users
    <2>1. Changes(t, tp[t], users[t])
      BY <1>1, <1>2, Untouched
    <2> QED
      BY <1>1, <1>2, <2>1, Silent
  <1>3. CASE MayLeave(t) /\ Continue(th, <<S("dec_ref", t)>>) /\ users' = [users EXCEPT ![t] = v]
    <2>1. v \in Nat /\ (1 + (v - users[t])) - (tp[t].ref_cnt - tp[t].ref_cnt) = 0
      BY <1>1, <1>3 DEF MayLeave
    <2> HIDE DEF v
    <2>2. Changes(t, tp[t], v) /\ Fits(<<S("dec_ref", t)>>, t, 1)
      BY <1>1, <1>3, <2>1, Counted, Singles
    <2> QED
      BY SMTT(30), Z3T(30), <1>1, <1>3, <2>1, <2>2, PlainStep
  <1>4. \/ Goes(th, t) /\ users' = users
        \/ MayLeave(t) /\ Continue(th, <<S("dec_ref", t)>>) /\ users' = [users EXCEPT ![t] = v]
    BY <1>1, Singles DEF state_cb, Goes
  <1> QED
    BY <1>2, <1>3, <1>4

\* A user leaves, and its reference is given back by the step that follows.
LEMMA Release ==
    ASSUME Base, NEW th \in Threads, NEW t \in Tps, release_transport(th, t)
    PROVE  Plain(th)
  <1> DEFINE v == users[t] - 1
  <1>1. /\ Types /\ tp[t].ref_cnt \in Int /\ users[t] \in Nat /\ users[t] > 0
        /\ Begin(th, <<S("dec_ref", t)>>) /\ users' = [users EXCEPT ![t] = v]
        /\ UNCHANGED <<tp, table, tp_list>>
    BY Facts DEF release_transport, MayLeave
  <1>2. v \in Nat /\ (1 + (v - users[t])) - (tp[t].ref_cnt - tp[t].ref_cnt) = 0
    BY <1>1
  <1>3. tp[t].life # "none"
    BY <1>1 DEF Base, Fresh
  <1> HIDE DEF v
  <1>4. Changes(t, tp[t], v) /\ Fits(<<S("dec_ref", t)>>, t, 1)
    BY <1>1, <1>2, Counted, Singles
  <1> QED
    BY <1>1, <1>2, <1>3, <1>4, PlainBegin

\* A record of a transport with the same life and the same references.
Like(r, t) == /\ r \in TpType /\ r.ref_cnt = tp[t].ref_cnt
              /\ r.life = tp[t].life /\ r.key = tp[t].key /\ r.is_destroying = tp[t].is_destroying

\* A step that changes a transport, but not its life or its counter.
LEMMA SilentStep ==
    ASSUME Base, NEW th \in Threads, NEW t \in Tps, NEW m \in Msgs \cup {NoMsg},
           NEW name \in Names \ {"hold", "dec_ref", "add_ref"}, At(th, name, t, m), Goes(th, t),
           NEW r, Like(r, t), tp' = [tp EXCEPT ![t] = r] \/ tp' = tp, UNCHANGED <<users, table, tp_list>>
    PROVE  Plain(th)
  <1>1. Types
    BY DEF Base
  <1>2. CASE tp' = tp
    BY <1>1, <1>2, Untouched, Silent
  <1>3. CASE tp' = [tp EXCEPT ![t] = r]
    BY <1>1, <1>3, Altered, Silent DEF Like
  <1> QED
    BY <1>2, <1>3

\* A call that begins with such a change.
LEMMA SilentCall ==
    ASSUME Base, NEW th \in Threads, NEW t \in Tps, tp[t].life # "none", Starts(th, t),
           NEW r, Like(r, t), tp' = [tp EXCEPT ![t] = r] \/ tp' = tp, UNCHANGED <<users, table, tp_list>>
    PROVE  Plain(th)
  <1>1. Types
    BY DEF Base
  <1>2. CASE tp' = tp
    BY <1>1, <1>2, Untouched, SilentBegin
  <1>3. CASE tp' = [tp EXCEPT ![t] = r]
    BY <1>1, <1>3, Altered, SilentBegin DEF Like
  <1> QED
    BY <1>2, <1>3

\* A transport has its own life and its own references.
LEMMA Itself == ASSUME Base, NEW t \in Tps PROVE Like(tp[t], t)
  BY Facts DEF Like

\* The steps that change no transport.
LEMMA Passing ==
    ASSUME Base, NEW th \in Threads, NEW t \in Tps,
           \/ pjsip_transport_destroy(th, t) \/ tcp_init_shutdown(th, t) \/ check_again(th, t)
           \/ accepted(th, t)
           \/ \E m \in Msgs : tcp_send_msg(th, t, m)
    PROVE  Plain(th)
  <1>1. /\ {"destroy", "init_shutdown", "check_again", "accepted"} \subseteq Quietly
        /\ {"destroy_transport", "shutdown", "start_ka"} \subseteq Quietly
        /\ "send_msg" \in Names \ {"hold", "dec_ref", "add_ref"}
        /\ NoMsg \in Msgs \cup {NoMsg}
    BY DEF Quietly, Names
  <1>2. Quietly \subseteq Names \ {"hold", "dec_ref", "add_ref"}
    BY Singles
  <1>3. ASSUME pjsip_transport_destroy(th, t)
        PROVE  Goes(th, t) /\ At(th, "destroy", t, NoMsg) /\ UNCHANGED <<tp, users, table, tp_list>>
    BY <1>1, <1>3, Singles DEF pjsip_transport_destroy, Goes
  <1>4. ASSUME tcp_init_shutdown(th, t)
        PROVE  Goes(th, t) /\ At(th, "init_shutdown", t, NoMsg) /\ UNCHANGED <<tp, users, table, tp_list>>
    BY <1>1, <1>4, Singles, Several DEF tcp_init_shutdown, Goes
  <1>5. ASSUME check_again(th, t)
        PROVE  Goes(th, t) /\ At(th, "check_again", t, NoMsg) /\ UNCHANGED <<tp, users, table, tp_list>>
    BY <1>1, <1>5, Singles DEF check_again, Goes
  <1>6. ASSUME accepted(th, t)
        PROVE  Goes(th, t) /\ At(th, "accepted", t, NoMsg) /\ UNCHANGED <<tp, users, table, tp_list>>
    BY <1>1, <1>6, Singles DEF accepted, Goes
  <1>7. ASSUME NEW m \in Msgs, tcp_send_msg(th, t, m)
        PROVE  Goes(th, t) /\ At(th, "send_msg", t, m) /\ UNCHANGED <<tp, users, table, tp_list>>
    BY <1>1, <1>7, SingleMsg DEF tcp_send_msg, Goes
  <1>8. \E name \in Names \ {"hold", "dec_ref", "add_ref"}, m \in Msgs \cup {NoMsg} :
           Goes(th, t) /\ At(th, name, t, m) /\ UNCHANGED <<tp, users, table, tp_list>>
    BY <1>1, <1>2, <1>3, <1>4, <1>5, <1>6, <1>7
  <1> QED
    BY <1>8, Itself, SilentStep

\* The steps of the idle timer.
LEMMA IdleSteps ==
    ASSUME Base, NEW th \in Threads, NEW t \in Tps,
           cancel_idle(th, t) \/ start_idle(th, t) \/ transport_idle_callback(th, t)
    PROVE  Plain(th)
  <1>1. /\ {"cancel_idle", "start_idle", "idle_callback", "destroy"} \subseteq Quietly
        /\ NoMsg \in Msgs \cup {NoMsg} /\ TRUE \in BOOLEAN /\ FALSE \in BOOLEAN
    BY DEF Quietly
  <1>2. Quietly \subseteq Names \ {"hold", "dec_ref", "add_ref"}
    BY Singles
  <1>3. tp \in [Tps -> TpType] /\ tp[t] \in TpType
    BY Facts
  <1> DEFINE off == [tp[t] EXCEPT !.id = FALSE, !.armed = FALSE]
             on == [tp[t] EXCEPT !.id = TRUE, !.armed = TRUE]
             fired == [tp[t] EXCEPT !.id = FALSE]
  <1>4. off \in TpType /\ on \in TpType /\ fired \in TpType
    BY <1>1, <1>3 DEF TpType
  <1>5. Like(off, t) /\ Like(on, t) /\ Like(fired, t)
    BY <1>3, <1>4 DEF Like, TpType
  <1>6. ASSUME cancel_idle(th, t)
        PROVE  /\ Goes(th, t) /\ At(th, "cancel_idle", t, NoMsg) /\ UNCHANGED <<users, table, tp_list>>
               /\ tp' = [tp EXCEPT ![t] = off] \/ tp' = tp
    BY <1>3, <1>6, Singles DEF cancel_idle, Goes
  <1>7. ASSUME start_idle(th, t)
        PROVE  /\ Goes(th, t) /\ At(th, "start_idle", t, NoMsg) /\ UNCHANGED <<users, table, tp_list>>
               /\ tp' = [tp EXCEPT ![t] = on] \/ tp' = tp
    BY <1>3, <1>7, Singles DEF start_idle, Goes
  <1>8. ASSUME transport_idle_callback(th, t)
        PROVE  /\ Goes(th, t) /\ At(th, "idle_callback", t, NoMsg) /\ UNCHANGED <<users, table, tp_list>>
               /\ tp' = [tp EXCEPT ![t] = fired]
    BY <1>1, <1>3, <1>8, Singles DEF transport_idle_callback, Goes
  <1> HIDE DEF off, on, fired
  <1>9. CASE cancel_idle(th, t)
    BY <1>1, <1>2, <1>5, <1>6, <1>9, SilentStep
  <1>10. CASE start_idle(th, t)
    BY <1>1, <1>2, <1>5, <1>7, <1>10, SilentStep
  <1>11. CASE transport_idle_callback(th, t)
    BY <1>1, <1>2, <1>5, <1>8, <1>11, SilentStep
  <1> QED
    BY <1>9, <1>10, <1>11

\* The steps that change the state of a connection.
LEMMA Edits ==
    ASSUME Base, NEW t \in Tps, NEW m \in Msgs, NEW b \in BOOLEAN
    PROVE  /\ Like([tp[t] EXCEPT !.is_shutdown = TRUE, !.ka = FALSE], t)
           /\ Like([tp[t] EXCEPT !.delayed = Append(@, m)], t)
           /\ Like([tp[t] EXCEPT !.ioq = @ \cup {m}], t) /\ Like([tp[t] EXCEPT !.ioq = @ \ {m}], t)
           /\ Like([tp[t] EXCEPT !.ka = b], t)
           /\ Like([tp[t] EXCEPT !.reading = FALSE], t)
           /\ Like([tp[t] EXCEPT !.armed = FALSE], t)
           /\ Like([tp[t] EXCEPT !.has_pending_connect = FALSE, !.reading = b], t)
           /\ tp[t].delayed # <<>> => /\ Like([tp[t] EXCEPT !.delayed = Tail(@)], t)
                                      /\ Like([tp[t] EXCEPT !.delayed = Tail(@), !.ioq = @ \cup {m}], t)
                                      /\ Head(tp[t].delayed) \in Msgs
  <1>1. tp[t] \in TpType /\ TRUE \in BOOLEAN /\ FALSE \in BOOLEAN
    BY Facts
  <1>2. tp[t].delayed \in Seq(Msgs) /\ tp[t].ioq \subseteq Msgs
    BY <1>1 DEF TpType
  <1> DEFINE more == Append(tp[t].delayed, m)
             rest == Tail(tp[t].delayed)
             with == tp[t].ioq \cup {m}
             less == tp[t].ioq \ {m}
  <1>3. more \in Seq(Msgs) /\ with \in SUBSET Msgs /\ less \in SUBSET Msgs
    BY <1>2
  <1>4. tp[t].delayed # <<>> => rest \in Seq(Msgs) /\ Head(tp[t].delayed) \in Msgs
    BY <1>2
  <1> HIDE DEF more, rest, with, less
  <1>5. /\ [tp[t] EXCEPT !.is_shutdown = TRUE, !.ka = FALSE] \in TpType
        /\ [tp[t] EXCEPT !.delayed = more] \in TpType
        /\ [tp[t] EXCEPT !.ioq = with] \in TpType /\ [tp[t] EXCEPT !.ioq = less] \in TpType
        /\ [tp[t] EXCEPT !.ka = b] \in TpType
        /\ [tp[t] EXCEPT !.reading = FALSE] \in TpType
        /\ [tp[t] EXCEPT !.armed = FALSE] \in TpType
        /\ [tp[t] EXCEPT !.has_pending_connect = FALSE, !.reading = b] \in TpType
    BY ZenonT(120), SMTT(30), <1>1, <1>3 DEF TpType
  <1>6. tp[t].delayed # <<>> => /\ [tp[t] EXCEPT !.delayed = rest] \in TpType
                                /\ [tp[t] EXCEPT !.delayed = rest, !.ioq = with] \in TpType
    BY <1>1, <1>3, <1>4 DEF TpType
  <1>7. /\ Like([tp[t] EXCEPT !.is_shutdown = TRUE, !.ka = FALSE], t)
        /\ Like([tp[t] EXCEPT !.delayed = more], t)
        /\ Like([tp[t] EXCEPT !.ioq = with], t) /\ Like([tp[t] EXCEPT !.ioq = less], t)
        /\ Like([tp[t] EXCEPT !.ka = b], t)
        /\ Like([tp[t] EXCEPT !.reading = FALSE], t)
        /\ Like([tp[t] EXCEPT !.armed = FALSE], t)
        /\ Like([tp[t] EXCEPT !.has_pending_connect = FALSE, !.reading = b], t)
    BY <1>1, <1>5 DEF Like, TpType
  <1>8. tp[t].delayed # <<>> => /\ Like([tp[t] EXCEPT !.delayed = rest], t)
                                /\ Like([tp[t] EXCEPT !.delayed = rest, !.ioq = with], t)
    BY <1>1, <1>6 DEF Like, TpType
  <1> QED
    BY <1>4, <1>7, <1>8 DEF more, rest, with, less

\* At most the state of the connection is changed.
Edited(t) == /\ UNCHANGED <<users, table, tp_list>>
             /\ tp' = tp \/ \E r : Like(r, t) /\ tp' = [tp EXCEPT ![t] = r]

\* A step that changes at most the state of the connection is ordinary.
LEMMA EditedStep ==
    ASSUME Base, NEW th \in Threads, NEW t \in Tps, NEW m \in Msgs \cup {NoMsg},
           NEW name \in Names \ {"hold", "dec_ref", "add_ref"}, At(th, name, t, m), Goes(th, t), Edited(t)
    PROVE  Plain(th)
  BY Itself, SilentStep DEF Edited

\* So is a call that begins like this.
LEMMA EditedCall ==
    ASSUME Base, NEW th \in Threads, NEW t \in Tps, tp[t].life # "none", Starts(th, t), Edited(t)
    PROVE  Plain(th)
  BY Itself, SilentCall DEF Edited

\* pjsip_transport_shutdown: the reference it takes for a moment is given back.
LEMMA Shutdown ==
    ASSUME Base, NEW th \in Threads, NEW t \in Tps, pjsip_transport_shutdown(th, t)
    PROVE  Plain(th)
  <1>1. At(th, "shutdown", t, NoMsg) /\ "shutdown" \in Names \ {"hold", "dec_ref", "add_ref"} /\ NoMsg \in Msgs \cup {NoMsg}
    BY DEF pjsip_transport_shutdown, Names
  <1>2. Goes(th, t)
    BY Singles, Several DEF pjsip_transport_shutdown, Goes
  <1>3. Edited(t)
    <2> DEFINE r == [tp[t] EXCEPT !.is_shutdown = TRUE, !.ka = FALSE]
    <2>1. tp \in [Tps -> TpType] /\ tp[t] \in TpType /\ Like(r, t)
      <3>1. tp \in [Tps -> TpType] /\ tp[t] \in TpType /\ TRUE \in BOOLEAN /\ FALSE \in BOOLEAN
        BY Facts
      <3>2. r \in TpType
        BY <3>1 DEF TpType
      <3> QED
        BY <3>1, <3>2 DEF Like, TpType
    <2>2. tp' = tp \/ tp' = [tp EXCEPT ![t] = r]
      BY <2>1 DEF pjsip_transport_shutdown
    <2>3. UNCHANGED <<users, table, tp_list>>
      BY DEF pjsip_transport_shutdown
    <2> HIDE DEF r
    <2> QED
      BY <2>1, <2>2, <2>3 DEF Edited
  <1> QED
    BY <1>1, <1>2, <1>3, EditedStep

\* The keep-alive timer takes no reference.
LEMMA KeepAlive ==
    ASSUME Base, NEW th \in Threads, NEW t \in Tps, start_keep_alive(th, t) \/ tcp_keep_alive_timer(th, t)
    PROVE  Plain(th)
  <1> DEFINE r == [tp[t] EXCEPT !.ka = TRUE]
  <1>1. /\ "init_shutdown" \in Quietly /\ {"start_ka", "keep_alive"} \subseteq Names \ {"hold", "dec_ref", "add_ref"}
        /\ NoMsg \in Msgs \cup {NoMsg}
    BY DEF Names, Quietly
  <1>2. tp \in [Tps -> TpType] /\ tp[t] \in TpType /\ Like(r, t)
    <2>1. tp \in [Tps -> TpType] /\ tp[t] \in TpType /\ TRUE \in BOOLEAN
      BY Facts
    <2>2. r \in TpType
      BY <2>1 DEF TpType
    <2> QED
      BY <2>1, <2>2 DEF Like, TpType
  <1>3. tp' = tp \/ tp' = [tp EXCEPT ![t] = r]
    BY <1>2 DEF start_keep_alive, tcp_keep_alive_timer
  <1>4. UNCHANGED <<users, table, tp_list>>
    BY DEF start_keep_alive, tcp_keep_alive_timer
  <1> HIDE DEF r
  <1>5. Edited(t)
    BY <1>2, <1>3, <1>4 DEF Edited
  <1>6. Goes(th, t)
    BY <1>1, Singles DEF start_keep_alive, tcp_keep_alive_timer, Goes
  <1>7. At(th, "start_ka", t, NoMsg) \/ At(th, "keep_alive", t, NoMsg)
    BY DEF start_keep_alive, tcp_keep_alive_timer
  <1> QED
    BY <1>1, <1>5, <1>6, <1>7, EditedStep

\* tcp_send_msg and its ways to send take no reference.
LEMMA Sends ==
    ASSUME Base, NEW th \in Threads, NEW t \in Tps, NEW m \in Msgs,
           delay_tdata(th, t, m) \/ asock_send(th, t, m) \/ send_returns(th, t, m)
    PROVE  Plain(th)
  <1> DEFINE late == [tp[t] EXCEPT !.delayed = Append(@, m)]
             sent == [tp[t] EXCEPT !.ioq = @ \cup {m}]
  <1>1. /\ "init_shutdown" \in Quietly /\ {"delay", "asock_send", "sent"} \subseteq Names \ {"hold", "dec_ref", "add_ref"}
        /\ m \in Msgs \cup {NoMsg} /\ tp \in [Tps -> TpType] /\ tp[t] \in TpType
    BY Facts DEF Names, Quietly
  <1>2. Like(late, t) /\ Like(sent, t)
    BY Edits
  <1>3. tp' = tp \/ tp' = [tp EXCEPT ![t] = late] \/ tp' = [tp EXCEPT ![t] = sent]
    BY <1>1 DEF delay_tdata, asock_send, send_returns
  <1>4. UNCHANGED <<users, table, tp_list>>
    BY DEF delay_tdata, asock_send, send_returns
  <1> HIDE DEF late, sent
  <1>5. Edited(t)
    BY <1>2, <1>3, <1>4 DEF Edited
  <1>6. Goes(th, t)
    BY <1>1, Singles, Several DEF delay_tdata, asock_send, send_returns, Goes
  <1>7. At(th, "delay", t, m) \/ At(th, "asock_send", t, m) \/ At(th, "sent", t, m)
    BY DEF delay_tdata, asock_send, send_returns
  <1> QED
    BY <1>1, <1>5, <1>6, <1>7, EditedStep

\* Nor do the ways to work off the delayed messages.
LEMMA Flushes ==
    ASSUME Base, NEW th \in Threads, NEW t \in Tps,
           cancel_delayed(th, t) \/ tcp_flush_pending_tx(th, t)
    PROVE  Plain(th)
  <1> DEFINE m == Head(tp[t].delayed)
             rest == [tp[t] EXCEPT !.delayed = Tail(@)]
             sent == [tp[t] EXCEPT !.delayed = Tail(@), !.ioq = @ \cup {m}]
  <1>1. /\ {"init_shutdown", "flush"} \subseteq Quietly
        /\ {"cancel_delayed", "flush"} \subseteq Names \ {"hold", "dec_ref", "add_ref"}
        /\ NoMsg \in Msgs \cup {NoMsg} /\ tp \in [Tps -> TpType] /\ tp[t] \in TpType
    BY Facts DEF Names, Quietly
  <1>2. ASSUME tp[t].delayed # <<>> PROVE Like(rest, t) /\ Like(sent, t)
    <2>1. m \in Msgs
      BY SMTT(30), Z3T(30), <1>1, <1>2 DEF TpType
    <2> HIDE DEF m
    <2> QED
      BY <1>2, <2>1, Edits
  <1>3. tp' = tp \/ (tp[t].delayed # <<>> /\ (tp' = [tp EXCEPT ![t] = rest] \/ tp' = [tp EXCEPT ![t] = sent]))
    BY <1>1 DEF cancel_delayed, tcp_flush_pending_tx, FlushOne
  <1>4. UNCHANGED <<users, table, tp_list>>
    BY DEF cancel_delayed, tcp_flush_pending_tx
  <1> HIDE DEF rest, sent
  <1>5. Edited(t)
    BY <1>2, <1>3, <1>4 DEF Edited
  <1>6. Goes(th, t)
    BY <1>1, Singles, Several DEF cancel_delayed, tcp_flush_pending_tx, FlushOne, Goes
  <1>7. At(th, "cancel_delayed", t, NoMsg) \/ At(th, "flush", t, NoMsg)
    BY DEF cancel_delayed, tcp_flush_pending_tx
  <1> QED
    BY <1>1, <1>5, <1>6, <1>7, EditedStep

\* Nor does giving up the lock of the manager.
LEMMA Unlocks ==
    ASSUME Base, NEW th \in Threads, unlock(th)
    PROVE  Plain(th)
  <1>1. Types /\ AllOk
    BY DEF Base
  <1>2. <<>> \in Seq(Steps) /\ Len(<<>>) <= 5 /\ Len(<<>>) = 0
    OBVIOUS
  <1>3. Rewrites(th, <<>>)
    BY <1>1, <1>2, Continued DEF unlock
  <1>4. \A u \in Tps : HeadWeight(th, u) = 0
    BY SMTT(30), Z3T(30), <1>1, AtOk, OfUnlock DEF unlock, S
  <1>5. \A u \in Tps : Weights(<<>>, u) = 0
    BY FitsNone DEF Fits
  <1>6. Ordinary
    BY <1>1 DEF unlock, Ordinary, Keeps, Types
  <1>7. Balance(th, <<>>)
    BY SMTT(30), Z3T(30), <1>1, <1>4, <1>5 DEF unlock, Balance, Types, TpType
  <1> QED
    BY <1>2, <1>3, <1>6, <1>7 DEF Plain

\* A transport that the hash table gives was made, and is alive.
LEMMA FoundIsLive ==
    ASSUME Base, NEW k \in Keys, table[k] # NoTp
    PROVE  table[k] \in Tps /\ tp[table[k]].life = "live" /\ ~tp[table[k]].is_destroying
  BY DEF Base, Types, KeyOf, FoundOrListed

\* The calls that change no transport.
LEMMA Calling ==
    ASSUME Base, NEW th \in Threads, NEW t \in Tps,
           \/ use_transport(th, t) \/ app_shutdown(th, t) \/ \E m \in Msgs : pjsip_transport_send(th, t, m)
    PROVE  Plain(th)
  <1>1. "shutdown" \in Quietly
    BY DEF Quietly
  <1>2. tp[t].life # "none"
    <2>1. tp[t].life = "live" \/ users[t] > 0
      BY DEF use_transport, app_shutdown, pjsip_transport_send, Alive
    <2>2. users[t] > 0 => users[t] # 0
      BY Facts
    <2> QED
      BY <2>1, <2>2 DEF Base, Fresh
  <1>3. Starts(th, t)
    BY <1>1, Singles, Several DEF use_transport, app_shutdown, pjsip_transport_send, Starts
  <1>4. Edited(t)
    BY DEF use_transport, app_shutdown, pjsip_transport_send, Edited
  <1> QED
    BY <1>2, <1>3, <1>4, EditedCall

\* pjsip_tpmgr_acquire_transport on a transport that is found takes the reference
\* that its caller will hold.
LEMMA AcquireFound ==
    ASSUME Base, NEW th \in Threads, NEW k \in Keys, Found(k),
           Begin(th, <<S("add_ref", table[k]), S("unlock", NoTp), S("hold", table[k])>>),
           UNCHANGED <<users, tp, table, tp_list>>
    PROVE  Plain(th)
  <1> DEFINE t == table[k]
  <1>1. t \in Tps /\ tp[t].life # "none"
    BY FoundIsLive DEF Found
  <1>2. Starts(th, t)
    BY <1>1, Several DEF Starts
  <1>3. Edited(t)
    BY DEF Edited
  <1> HIDE DEF t
  <1> QED
    BY <1>1, <1>2, <1>3, EditedCall

\* What the network and the timers do.
LEMMA Events ==
    ASSUME Base, NEW th \in Threads, NEW t \in Tps,
           \/ idle_expires(th, t) \/ keep_alive_expires(th, t) \/ disconnected(th, t)
           \/ \E result \in {"connected", "unreadable", "failed"} : on_connect_complete(th, t, result)
           \/ \E m \in Msgs, ok \in BOOLEAN : on_data_sent(th, t, m, ok)
    PROVE  Plain(th)
  <1>1. /\ {"idle_callback", "keep_alive", "init_shutdown", "cancel_delayed"} \subseteq Quietly
        /\ tp \in [Tps -> TpType] /\ tp[t] \in TpType
    BY Facts DEF Quietly
  <1>2. tp[t].life # "none"
    BY DEF idle_expires, keep_alive_expires, disconnected, on_connect_complete, on_data_sent, Alive, Base, Fresh
  <1>3. Starts(th, t)
    <2>1. CASE idle_expires(th, t) \/ keep_alive_expires(th, t) \/ disconnected(th, t)
      BY <1>1, <2>1, Singles DEF idle_expires, keep_alive_expires, disconnected, Starts
    <2>2. CASE \E result \in {"connected", "unreadable", "failed"} : on_connect_complete(th, t, result)
      BY <1>1, <2>2, Singles, Several DEF on_connect_complete, AfterConnect, Starts
    <2>3. CASE \E m \in Msgs, ok \in BOOLEAN : on_data_sent(th, t, m, ok)
      BY <1>1, <2>3, Singles DEF on_data_sent, Starts
    <2> QED
      BY <2>1, <2>2, <2>3
  <1>4. Edited(t)
    <2>1. UNCHANGED <<users, table, tp_list>>
      BY DEF idle_expires, keep_alive_expires, disconnected, on_connect_complete, on_data_sent
    <2>2. CASE idle_expires(th, t) \/ keep_alive_expires(th, t) \/ disconnected(th, t)
      <3> DEFINE a == [tp[t] EXCEPT !.armed = FALSE]
                 b == [tp[t] EXCEPT !.ka = FALSE]
                 c == [tp[t] EXCEPT !.reading = FALSE]
      <3>1. tp' = [tp EXCEPT ![t] = a] \/ tp' = [tp EXCEPT ![t] = b] \/ tp' = [tp EXCEPT ![t] = c]
        BY <1>1, <2>2 DEF idle_expires, keep_alive_expires, disconnected
      <3>2. a \in TpType /\ b \in TpType /\ c \in TpType
        BY <1>1 DEF TpType
      <3>3. Like(a, t) /\ Like(b, t) /\ Like(c, t)
        BY <1>1, <3>2 DEF Like, TpType
      <3> HIDE DEF a, b, c
      <3> QED
        BY <2>1, <3>1, <3>3 DEF Edited
    <2>3. CASE \E result \in {"connected", "unreadable", "failed"} : on_connect_complete(th, t, result)
      <3>1. PICK result \in {"connected", "unreadable", "failed"} : on_connect_complete(th, t, result)
        BY <2>3
      <3> DEFINE b == ~Closing(t) /\ result = "connected"
                 r == [tp[t] EXCEPT !.has_pending_connect = FALSE, !.reading = b]
      <3>2. tp' = [tp EXCEPT ![t] = r]
        BY <1>1, <3>1 DEF on_connect_complete
      <3>3. b \in BOOLEAN /\ FALSE \in BOOLEAN
        OBVIOUS
      <3> HIDE DEF b
      <3>4. r \in TpType
        BY <1>1, <3>3 DEF TpType
      <3>5. Like(r, t)
        BY <1>1, <3>4 DEF Like, TpType
      <3> HIDE DEF r
      <3> QED
        BY <2>1, <3>2, <3>5 DEF Edited
    <2>4. CASE \E m \in Msgs, ok \in BOOLEAN : on_data_sent(th, t, m, ok)
      <3>1. PICK m \in Msgs, ok \in BOOLEAN : on_data_sent(th, t, m, ok)
        BY <2>4
      <3> DEFINE r == [tp[t] EXCEPT !.ioq = @ \ {m}]
      <3>2. tp' = [tp EXCEPT ![t] = r]
        BY <1>1, <3>1 DEF on_data_sent
      <3>3. Like(r, t)
        BY Edits
      <3> HIDE DEF r
      <3> QED
        BY <2>1, <3>2, <3>3 DEF Edited
    <2> QED
      BY <2>2, <2>3, <2>4
  <1> QED
    BY <1>2, <1>3, <1>4, EditedCall

\* A step works off one list, and what it does to the references of a transport is
\* what it takes from and puts on the list.
Moves(th) == \E q : Rewrites(th, q) /\ Balance(th, q)

\* An ordinary step moves references between the counter, the users and the lists.
LEMMA PlainMoves ==
    ASSUME Base, NEW th \in Threads, Plain(th)
    PROVE  Base' /\ Moves(th)
  BY OrdinaryKeeps DEF Plain, Moves

\* A list that fits, on a step that changes no counter.
LEMMA Balanced ==
    ASSUME Types, NEW th \in Threads, NEW t \in Tps, NEW q, Fits(q, t, 0), Rewrites(th, q),
           \A u \in Tps : HeadWeight(th, u) = 0, users' = users,
           \A u \in Tps : tp'[u].ref_cnt = tp[u].ref_cnt
    PROVE  Moves(th)
  <1>1. \A u \in Tps : Weights(q, u) = 0
    BY SMTT(30), Z3T(30), FitsWeights
  <1>2. \A u \in Tps : tp[u].ref_cnt \in Int /\ users[u] \in Int
    BY SMTT(30), Z3T(30) DEF Types, TpType
  <1> QED
    BY <1>1, <1>2 DEF Balance, Moves

\* destroy_transport: the transport is in neither place any more.
LEMMA Destroys ==
    ASSUME Base, NEW th \in Threads, NEW t \in Tps, destroy_transport(th, t)
    PROVE  Base' /\ Moves(th)
  <1> DEFINE b == tp[t].armed /\ ~tp[t].id
             r == [tp[t] EXCEPT !.is_destroying = TRUE, !.id = FALSE, !.armed = b]
             k == tp[t].key
             q == <<S("tcp_destroy", t)>>
  <1>1. /\ Types /\ AllOk /\ tp \in [Tps -> TpType] /\ tp[t] \in TpType /\ k \in Keys
        /\ At(th, "destroy_transport", t, NoMsg) /\ Unlisted(t) /\ users' = users /\ Continue(th, q)
    BY Facts DEF destroy_transport, TpType
  <1>2. tp' = [tp EXCEPT ![t] = r]
    BY <1>1 DEF destroy_transport
  <1>3. "tcp_destroy" \in Names /\ "destroy_transport" \in Names \ {"hold", "dec_ref", "add_ref"}
    BY DEF Names
  <1>4. /\ S("tcp_destroy", t) \in Steps /\ S("tcp_destroy", t).t = t
        /\ \A u \in Tps : Weight(S("tcp_destroy", t), u) = 0
        /\ \A u \in Tps : Weight(Step("destroy_transport", t, NoMsg), u) = 0
        /\ Step("destroy_transport", t, NoMsg).t = t
    BY SMTT(30), Z3T(30), <1>3, NoMessage, StepOf DEF S
  <1>5. q \in Seq(Steps) /\ Len(q) = 1 /\ q[1] = S("tcp_destroy", t) /\ Len(q) <= 5
    BY <1>4
  <1>6. \A u \in Tps : Weights(q, u) = 0
    BY <1>4, <1>5 DEF Weights, Share
  <1>7. TRUE \in BOOLEAN /\ FALSE \in BOOLEAN /\ b \in BOOLEAN
    OBVIOUS
  <1> HIDE DEF b, q
  <1>8. r \in TpType
    BY <1>1, <1>7 DEF TpType
  <1>9. /\ r.life = tp[t].life /\ r.key = k /\ r.is_destroying /\ r.ref_cnt = tp[t].ref_cnt
    BY <1>1 DEF TpType
  <1> HIDE DEF r
  <1>10. Rewrites(th, q) /\ tp[t].life # "none" /\ \A u \in Tps : HeadWeight(th, u) = 0
    <2>1. Ok(tp, Step("destroy_transport", t, NoMsg)) /\ \A u : HeadWeight(th, u) = Weight(Step("destroy_transport", t, NoMsg), u)
      BY SMTT(30), Z3T(30), <1>1, AtOk
    <2>2. Rewrites(th, q)
      BY <1>1, <1>5, Continued
    <2> QED
      BY <1>4, <2>1, <2>2 DEF Ok
  <1>11. /\ tp' \in [Tps -> TpType] /\ tp'[t] = r /\ \A u \in Tps : u # t => tp'[u] = tp[u]
    BY <1>1, <1>2, <1>8
  <1>12. todo' \in Lists /\ AllOk'
    <2>1. \A s \in Steps : Ok(tp, s) => Ok(tp', s)
      BY <1>9, <1>11 DEF Ok
    <2>2. \A i \in 1..Len(q) : Ok(tp', q[i])
      BY SMTT(30), Z3T(30), <1>4, <1>5, <1>9, <1>10, <1>11 DEF Ok
    <2> QED
      BY <1>1, <1>10, <2>1, <2>2, ListsKept
  <1>13. /\ table' \in [Keys -> Tps \cup {NoTp}] /\ tp_list' \subseteq Tps
         /\ \A x \in Keys : table'[x] = table[x] \/ table'[x] = NoTp
         /\ table'[k] # t /\ t \notin tp_list'
         /\ \A u \in Tps : u # t => (u \in tp_list' <=> u \in tp_list) /\ \A x \in Keys : table'[x] = u <=> table[x] = u
    <2>1. table \in [Keys -> Tps \cup {NoTp}] /\ tp_list \subseteq Tps /\ NoTp \notin Tps
      BY <1>1, NoMessage DEF Types
    <2>2. table[k] = t => t \notin tp_list
      BY DEF Base, FoundOrListed
    <2> QED
      BY SMTT(30), Z3T(30), <1>1, <2>1, <2>2 DEF Unlisted
  <1>14. Types'
    BY <1>1, <1>11, <1>12, <1>13 DEF Types
  <1>15. Fresh'
    BY ZenonT(120), SMTT(30), <1>1, <1>9, <1>10, <1>11 DEF Base, Fresh
  <1>16. KeyOf'
    BY SMTT(30), Z3T(30), <1>1, <1>9, <1>11, <1>13 DEF Base, KeyOf, Types
  <1>17. FoundOrListed'
    <2>1. \A u \in Tps : tp[u].key \in Keys
      BY <1>1 DEF TpType
    <2>2. ASSUME NEW u \in Tps, u # t
          PROVE  (table'[tp'[u].key] = u <=> table[tp[u].key] = u) /\ (u \in tp_list' <=> u \in tp_list)
      BY <1>11, <1>13, <2>1, <2>2
    <2> QED
      BY SMTT(30), Z3T(30), <1>9, <1>11, <1>13, <2>2 DEF Base, FoundOrListed
  <1>18. Base'
    BY <1>12, <1>14, <1>15, <1>16, <1>17 DEF Base
  <1>19. Balance(th, q)
    <2>1. \A u \in Tps : tp[u].ref_cnt \in Int /\ users[u] \in Int
      BY SMTT(30), Z3T(30), <1>1 DEF Types, TpType
    <2>2. \A u \in Tps : tp'[u].ref_cnt = tp[u].ref_cnt
      BY <1>9, <1>11
    <2> QED
      BY <1>1, <1>6, <1>10, <2>1, <2>2 DEF Balance
  <1> QED
    BY <1>10, <1>18, <1>19 DEF Moves

\* tcp_destroy: the transport is in neither place, and owes nothing new.
LEMMA TcpDestroys ==
    ASSUME Base, NEW th \in Threads, NEW t \in Tps, tcp_destroy(th, t)
    PROVE  Base' /\ Moves(th)
  <1> DEFINE r == Closed(tp[t])
  <1>1. /\ Types /\ AllOk /\ tp \in [Tps -> TpType] /\ tp[t] \in TpType /\ UNCHANGED <<users, table, tp_list>>
        /\ At(th, "tcp_destroy", t, NoMsg) /\ Continue(th, <<>>) /\ tp' = [tp EXCEPT ![t] = r]
    BY Facts DEF tcp_destroy
  <1>2. "tcp_destroy" \in Names
    BY DEF Names
  <1>3. /\ Step("tcp_destroy", t, NoMsg).t = t /\ Step("tcp_destroy", t, NoMsg).do = "tcp_destroy"
        /\ \A u \in Tps : Weight(Step("tcp_destroy", t, NoMsg), u) = 0
    BY SMTT(30), Z3T(30), <1>2, NoMessage, StepOf
  <1>4. <<>> \in Seq(Steps) /\ Len(<<>>) = 0 /\ Len(<<>>) <= 5
    OBVIOUS
  <1>5. Rewrites(th, <<>>) /\ tp[t].is_destroying /\ \A u \in Tps : HeadWeight(th, u) = 0
    <2>1. Ok(tp, Step("tcp_destroy", t, NoMsg)) /\ \A u : HeadWeight(th, u) = Weight(Step("tcp_destroy", t, NoMsg), u)
      BY SMTT(30), Z3T(30), <1>1, AtOk
    <2>2. Rewrites(th, <<>>)
      BY <1>1, <1>4, Continued
    <2> QED
      BY <1>3, <2>1, <2>2 DEF Ok
  <1>6. "closed" \in {"none", "live", "closed"} /\ <<>> \in Seq(Msgs) /\ {} \in SUBSET Msgs /\ FALSE \in BOOLEAN
    OBVIOUS
  <1>7. r \in TpType
    BY <1>1, <1>6 DEF TpType, Closed
  <1>8. /\ r.life = "closed" /\ r.key = tp[t].key /\ r.is_destroying = tp[t].is_destroying
        /\ r.ref_cnt = tp[t].ref_cnt
    BY <1>1 DEF TpType, Closed
  <1> HIDE DEF r
  <1>9. /\ tp' \in [Tps -> TpType] /\ tp'[t] = r /\ \A u \in Tps : u # t => tp'[u] = tp[u]
    BY <1>1, <1>7
  <1>10. todo' \in Lists /\ AllOk'
    <2>1. \A s \in Steps : Ok(tp, s) => Ok(tp', s)
      BY <1>8, <1>9 DEF Ok
    <2>2. \A i \in 1..Len(<<>>) : Ok(tp', <<>>[i])
      BY <1>4
    <2> QED
      BY <1>1, <1>5, <2>1, <2>2, ListsKept
  <1>11. Types'
    BY <1>1, <1>9, <1>10 DEF Types
  <1>12. Fresh'
    BY <1>1, <1>8, <1>9 DEF Base, Fresh
  <1>13. KeyOf'
    BY ZenonT(120), SMTT(30), <1>1, <1>8, <1>9 DEF Base, KeyOf, Types
  <1>14. FoundOrListed'
    BY SMTT(30), Z3T(30), <1>1, <1>5, <1>8, <1>9 DEF Base, FoundOrListed
  <1>15. Base'
    BY <1>10, <1>11, <1>12, <1>13, <1>14 DEF Base
  <1>16. \A u \in Tps : tp'[u].ref_cnt = tp[u].ref_cnt
    BY <1>8, <1>9
  <1> QED
    BY <1>1, <1>5, <1>15, <1>16, FitsNone, Balanced

\* A transport that was not made yet.
LEMMA UnusedType ==
    /\ Unused \in TpType /\ Unused.life = "none" /\ Unused.ref_cnt = 0 /\ ~Unused.armed /\ ~Unused.id
    /\ ~Unused.ka /\ ~Unused.used /\ ~Unused.is_destroying
  <1>1. Unused \in TpType
    <2> DEFINE any == CHOOSE x \in Keys : TRUE
    <2>1. any \in Keys
      BY TransportAssumption
    <2>2. Unused = [life |-> "none", key |-> any, ref_cnt |-> 0, id |-> FALSE,
                    armed |-> FALSE, is_shutdown |-> FALSE, is_destroying |-> FALSE,
                    has_pending_connect |-> FALSE, ka |-> FALSE,
                    delayed |-> <<>>, ioq |-> {}, reading |-> FALSE, used |-> FALSE]
      BY DEF Unused
    <2> HIDE DEF any
    <2>3. /\ "none" \in {"none", "live", "closed"} /\ 0 \in Int /\ FALSE \in BOOLEAN
          /\ <<>> \in Seq(Msgs) /\ {} \in SUBSET Msgs
      OBVIOUS
    <2> QED
      BY <2>1, <2>2, <2>3 DEF TpType
  <1> QED
    BY <1>1 DEF Unused

\* tcp_create: a transport that was never used becomes the one its key finds.
LEMMA Created ==
    ASSUME Base, NEW th \in Threads, NEW t \in Tps, NEW k \in Keys, NEW c \in BOOLEAN, NEW d \in BOOLEAN,
           Create(t, k, c, d), NEW q, Fits(q, t, 0), Begin(th, q), users' = users
    PROVE  Base' /\ Moves(th)
  <1> DEFINE r == [Unused EXCEPT !.life = "live", !.key = k, !.has_pending_connect = c, !.reading = d]
  <1>1. /\ Types /\ AllOk /\ tp \in [Tps -> TpType] /\ tp[t].life = "none" /\ Register(t, k)
        /\ tp' = [tp EXCEPT ![t] = r] /\ users[t] \in Nat
    BY Facts DEF Create
  <1>2. /\ r \in TpType /\ r.life = "live" /\ r.key = k /\ ~r.is_destroying /\ r.ref_cnt = 0
    <2>1. Unused \in TpType
      BY UnusedType
    <2>2. "live" \in {"none", "live", "closed"}
      OBVIOUS
    <2>3. r \in TpType
      BY <2>1, <2>2 DEF TpType
    <2>4. r.life = "live" /\ r.key = k /\ ~r.is_destroying /\ r.ref_cnt = 0
      BY DEF Unused
    <2> QED
      BY <2>3, <2>4
  <1> HIDE DEF r
  <1>3. /\ tp' \in [Tps -> TpType] /\ tp'[t] = r /\ \A u \in Tps : u # t => tp'[u] = tp[u]
    BY <1>1, <1>2
  <1>4. /\ table \in [Keys -> Tps \cup {NoTp}] /\ tp_list \subseteq Tps /\ NoTp \notin Tps
        /\ t \notin tp_list /\ (\A x \in Keys : table[x] # t)
    <2>1. table \in [Keys -> Tps \cup {NoTp}] /\ tp_list \subseteq Tps /\ NoTp \notin Tps
      BY <1>1, NoMessage DEF Types
    <2>2. t \notin tp_list
      BY <1>1 DEF Base, FoundOrListed
    <2>3. \A x \in Keys : table[x] # t
      BY <1>1, <2>1, FoundIsLive
    <2> QED
      BY <2>1, <2>2, <2>3
  <1>5. /\ table' \in [Keys -> Tps \cup {NoTp}] /\ tp_list' \subseteq Tps
        /\ table'[k] = t /\ t \notin tp_list' /\ \A x \in Keys : x # k => table'[x] = table[x]
        /\ \A u \in Tps : u \in tp_list' <=> (u \in tp_list \/ u = table[k])
    BY <1>1, <1>4 DEF Register
  <1>6. Rewrites(th, q) /\ \A u \in Tps : HeadWeight(th, u) = 0
    BY <1>1, Begun DEF Fits
  <1>7. todo' \in Lists /\ AllOk'
    <2>1. \A s \in Steps : Ok(tp, s) => Ok(tp', s)
      BY <1>1, <1>3 DEF Ok
    <2>2. \A i \in 1..Len(q) : Ok(tp', q[i])
      BY <1>2, <1>3, <1>4 DEF Ok, Fits
    <2> QED
      BY <1>1, <1>6, <2>1, <2>2, ListsKept
  <1>8. Types'
    BY <1>1, <1>3, <1>5, <1>7 DEF Types
  <1>9. Fresh'
    BY <1>2, <1>3 DEF Base, Fresh
  <1>10. KeyOf'
    <2> SUFFICES ASSUME NEW x \in Keys, table'[x] # NoTp PROVE tp'[table'[x]].key = x
      BY DEF KeyOf
    <2>1. CASE x = k
      BY <2>1, <1>2, <1>3, <1>5
    <2>2. CASE x # k
      BY SMTT(30), Z3T(30), <2>2, <1>3, <1>4, <1>5 DEF Base, KeyOf
    <2> QED
      BY <2>1, <2>2
  <1>11. FoundOrListed'
    <2>1. ASSUME NEW u \in Tps, u # t, u # table[k]
          PROVE  (table'[tp'[u].key] = u <=> table[tp[u].key] = u) /\ (u \in tp_list' <=> u \in tp_list)
      <3>1. tp[u].key \in Keys /\ tp'[u] = tp[u]
        BY <1>1, <1>3, <2>1 DEF TpType
      <3> QED
        BY <1>5, <2>1, <3>1
    <2>2. ASSUME NEW u \in Tps, u = table[k]
          PROVE  tp[u].life = "live" /\ ~tp[u].is_destroying /\ tp[u].key = k /\ u # t /\ u \in tp_list'
                 /\ table'[tp[u].key] # u /\ tp'[u] = tp[u]
      <3>1. table[k] # NoTp /\ u # t
        BY <1>4, <2>2
      <3>2. tp[u].life = "live" /\ ~tp[u].is_destroying /\ tp[u].key = k
        BY <2>2, <3>1, FoundIsLive DEF Base, KeyOf
      <3> QED
        BY <1>3, <1>5, <2>2, <3>1, <3>2
    <2>3. ASSUME NEW u \in Tps
          PROVE  IF tp'[u].life = "live" /\ ~tp'[u].is_destroying
                 THEN (table'[tp'[u].key] = u) # (u \in tp_list')
                 ELSE ~(table'[tp'[u].key] = u) /\ u \notin tp_list'
      <3>1. CASE u = t
        BY <3>1, <1>2, <1>3, <1>5
      <3>2. CASE u # t /\ u = table[k]
        BY <3>2, <2>2
      <3>3. CASE u # t /\ u # table[k]
        <4>1. tp'[u] = tp[u]
          BY <3>3, <1>3
        <4>2. IF tp[u].life = "live" /\ ~tp[u].is_destroying
              THEN (table[tp[u].key] = u) # (u \in tp_list)
              ELSE ~(table[tp[u].key] = u) /\ u \notin tp_list
          BY DEF Base, FoundOrListed
        <4> QED
          BY SMTT(30), Z3T(30), <3>3, <2>1, <4>1, <4>2
      <3> QED
        BY <3>1, <3>2, <3>3
    <2> QED
      BY <2>3 DEF FoundOrListed
  <1>12. Base'
    BY <1>7, <1>8, <1>9, <1>10, <1>11 DEF Base
  <1>13. \A u \in Tps : tp'[u].ref_cnt = tp[u].ref_cnt
    BY <1>1, <1>2, <1>3 DEF Base, Fresh
  <1> QED
    BY <1>1, <1>6, <1>12, <1>13, Balanced

\* Two steps in front of a list.
LEMMA InFront ==
    ASSUME NEW q \in Seq(Steps), NEW f \in Steps, NEW a \in Steps
    PROVE  /\ <<a>> \o q \in Seq(Steps) /\ Len(<<a>> \o q) = Len(q) + 1 /\ (<<a>> \o q)[1] = a
           /\ <<f>> \o (<<a>> \o q) = <<f, a>> \o q
  <1> DEFINE u == <<f>> \o (<<a>> \o q)
             v == <<f, a>> \o q
  <1>0. <<a>> \o q \in Seq(Steps) /\ Len(<<a>> \o q) = Len(q) + 1 /\ (<<a>> \o q)[1] = a
    OBVIOUS
  <1>1. Len(u) = Len(q) + 2 /\ u \in Seq(Steps)
    OBVIOUS
  <1>2. Len(v) = Len(q) + 2 /\ v \in Seq(Steps)
    OBVIOUS
  <1>3. \A i \in 1..(Len(q) + 2) : u[i] = v[i]
    OBVIOUS
  <1> HIDE DEF u, v
  <1>4. u = v
    BY <1>1, <1>2, <1>3
  <1> QED
    BY <1>0, <1>4 DEF u, v

\* A step that owes nothing.
LEMMA FitsZero ==
    ASSUME NEW t \in Tps, NEW q, Fits(q, t, 0), Len(q) <= 4, q[1].do \notin Ending \cup Idling,
           NEW s, Calm(s, t), Weight(s, t) = 0
    PROVE  Fits(<<s>> \o q, t, 0)
  <1> DEFINE w == 0
  <1>1. w \in Int /\ w + Weight(s, t) = 0 /\ w + Weight(s, t) >= 0 /\ Fits(q, t, w)
    OBVIOUS
  <1> HIDE DEF w
  <1>2. Fits(<<s>> \o q, t, w + Weight(s, t))
    BY <1>1, FitsMore DEF Calm, Of
  <1> QED
    BY <1>1, <1>2

\* The steps of a call that has made a transport and connected it at once.
LEMMA AfterCreate ==
    ASSUME NEW t \in Tps
    PROVE  /\ Fits(<<>> \o <<S("add_ref", t), S("unlock", NoTp), S("hold", t)>>, t, 0)
           /\ Fits(<<S("init_shutdown", t)>> \o <<S("add_ref", t), S("unlock", NoTp), S("hold", t)>>, t, 0)
           /\ Fits(<<S("flush", t), S("start_ka", t)>> \o <<S("add_ref", t), S("unlock", NoTp), S("hold", t)>>, t, 0)
  <1> DEFINE q == <<S("add_ref", t), S("unlock", NoTp), S("hold", t)>>
             f == S("flush", t)
             a == S("start_ka", t)
             i == S("init_shutdown", t)
  <1>1. {"flush", "start_ka", "init_shutdown", "add_ref"} \subseteq (Names \ {"tcp_destroy"}) \ (Ending \cup Idling)
    BY DEF Names, Ending, Idling
  <1>2. /\ Calm(f, t) /\ Calm(a, t) /\ Calm(i, t)
        /\ Weight(f, t) = 0 /\ Weight(a, t) = 0 /\ Weight(i, t) = 0
    BY <1>1, OfName
  <1>3. Fits(q, t, 0) /\ q[1].do \notin Ending \cup Idling /\ Len(q) = 3 /\ Len(q) <= 4 /\ q \in Seq(Steps)
    <2>1. Fits(q, t, 0) /\ q[1] = S("add_ref", t) /\ Len(q) = 3
      BY Several
    <2>2. S("add_ref", t).do = "add_ref"
      BY <1>1, OfName
    <2> HIDE DEF q
    <2> QED
      BY SMTT(30), Z3T(30), <1>1, <2>1, <2>2 DEF Fits
  <1>4. <<>> \o q = q
    BY <1>3
  <1>5. f \in Steps /\ a \in Steps
    BY <1>2 DEF Calm, Of
  <1> HIDE DEF q, f, a, i
  <1> DEFINE p == <<a>> \o q
  <1>6. Fits(<<i>> \o q, t, 0) /\ Fits(p, t, 0)
    BY <1>2, <1>3, FitsZero
  <1>7. Len(p) = 3 + 1 /\ p[1] = a /\ <<f>> \o p = <<f, a>> \o q
    <2>1. Len(p) = Len(q) + 1 /\ p[1] = a /\ <<f>> \o p = <<f, a>> \o q
      BY <1>3, <1>5, InFront
    <2> QED
      BY <1>3, <2>1
  <1> HIDE DEF p
  <1>8. Len(p) <= 4 /\ p[1].do \notin Ending \cup Idling
    BY <1>2, <1>7 DEF Calm
  <1>9. Fits(<<f>> \o p, t, 0)
    BY <1>2, <1>6, <1>8, FitsZero
  <1> QED
    BY <1>3, <1>4, <1>6, <1>7, <1>9 DEF q, f, a, i

\* The actions that make a transport.
LEMMA Makes ==
    ASSUME Base, NEW th \in Threads,
           \/ \E k \in Keys : acquire_transport(th, k) \/ acquire_fails(th, k)
           \/ \E t \in Tps, k \in Keys, ok \in BOOLEAN : on_accept_complete(th, t, k, ok)
    PROVE  Base' /\ Moves(th)
  <1>1. ASSUME NEW k \in Keys, acquire_transport(th, k) PROVE Base' /\ Moves(th)
    <2>1. CASE /\ Found(k) /\ UNCHANGED <<tp, table, tp_list>>
               /\ Begin(th, <<S("add_ref", table[k]), S("unlock", NoTp), S("hold", table[k])>>)
      <3>1. users' = users
        BY <1>1 DEF acquire_transport
      <3> QED
        BY <2>1, <3>1, AcquireFound, PlainMoves
    <2>2. ASSUME NEW t \in Tps, NEW result \in {"pending", "connected", "unreadable"},
                 Create(t, k, result = "pending", result = "connected"),
                 Begin(th, (IF result = "pending" THEN <<>> ELSE AfterConnect(t, result))
                             \o <<S("add_ref", t), S("unlock", NoTp), S("hold", t)>>)
          PROVE  Base' /\ Moves(th)
      <3> DEFINE q == (IF result = "pending" THEN <<>> ELSE AfterConnect(t, result))
                             \o <<S("add_ref", t), S("unlock", NoTp), S("hold", t)>>
                 c == result = "pending"
                 d == result = "connected"
      <3>1. Fits(q, t, 0)
        BY AfterCreate DEF AfterConnect
      <3>2. users' = users /\ c \in BOOLEAN /\ d \in BOOLEAN /\ Create(t, k, c, d) /\ Begin(th, q)
        BY <1>1, <2>2 DEF acquire_transport
      <3> HIDE DEF q, c, d
      <3> QED
        BY <3>1, <3>2, Created
    <2> QED
      BY <1>1, <2>1, <2>2 DEF acquire_transport
  <1>2. ASSUME NEW k \in Keys, acquire_fails(th, k) PROVE Base' /\ Moves(th)
    <2>1. PICK t \in Tps : Create(t, k, TRUE, FALSE) /\ Begin(th, <<S("destroy", t), S("unlock", NoTp)>>)
      BY <1>2 DEF acquire_fails
    <2>2. users' = users /\ Fits(<<S("destroy", t), S("unlock", NoTp)>>, t, 0)
      BY <1>2, Several DEF acquire_fails
    <2> QED
      BY <2>1, <2>2, Created
  <1>3. ASSUME NEW t \in Tps, NEW k \in Keys, NEW ok \in BOOLEAN, on_accept_complete(th, t, k, ok)
        PROVE  Base' /\ Moves(th)
    <2> DEFINE q == <<S(IF ok THEN "accepted" ELSE "destroy", t)>>
    <2>1. Create(t, k, FALSE, ok) /\ Begin(th, q) /\ users' = users
      BY <1>3 DEF on_accept_complete
    <2>2. Fits(q, t, 0)
      BY Singles DEF Quietly
    <2> HIDE DEF q
    <2> QED
      BY <2>1, <2>2, Created
  <1> QED
    BY <1>1, <1>2, <1>3

\* Every step keeps the base, and takes its steps from and puts them on one list.
LEMMA NextMoves ==
    ASSUME Base, Next
    PROVE  Base' /\ \E th \in Threads : Moves(th)
  <1>1. PICK th \in Threads : Proceed(th) \/ Event(th) \/ Call(th)
    BY DEF Next
  <1>2. ASSUME Plain(th) PROVE Base' /\ Moves(th)
    BY <1>2, PlainMoves
  <1>3. CASE Proceed(th)
    <2>1. CASE unlock(th)
      BY <1>2, <2>1, Unlocks
    <2>2. ASSUME NEW t \in Tps,
                 \/ add_ref(th, t) \/ cancel_idle(th, t) \/ dec_ref(th, t) \/ start_idle(th, t)
                 \/ transport_idle_callback(th, t) \/ pjsip_transport_destroy(th, t)
                 \/ destroy_transport(th, t) \/ pjsip_transport_shutdown(th, t)
                 \/ tcp_init_shutdown(th, t) \/ state_cb(th, t) \/ check_again(th, t)
                 \/ cancel_delayed(th, t) \/ tcp_flush_pending_tx(th, t)
                 \/ start_keep_alive(th, t) \/ tcp_keep_alive_timer(th, t)
                 \/ tcp_destroy(th, t) \/ accepted(th, t) \/ hold(th, t)
                 \/ \E m \in Msgs : \/ tcp_send_msg(th, t, m) \/ delay_tdata(th, t, m)
                                   \/ asock_send(th, t, m) \/ send_returns(th, t, m)
          PROVE  Base' /\ Moves(th)
      <3>1. CASE add_ref(th, t)
        BY <1>2, <3>1, AddRef
      <3>2. CASE dec_ref(th, t)
        BY <1>2, <3>2, DecRef
      <3>3. CASE cancel_idle(th, t) \/ start_idle(th, t) \/ transport_idle_callback(th, t)
        BY <1>2, <3>3, IdleSteps
      <3>4. CASE \/ pjsip_transport_destroy(th, t) \/ tcp_init_shutdown(th, t) \/ check_again(th, t)
                 \/ accepted(th, t) \/ \E m \in Msgs : tcp_send_msg(th, t, m)
        BY <1>2, <3>4, Passing
      <3>5. CASE destroy_transport(th, t)
        BY <3>5, Destroys
      <3>6. CASE pjsip_transport_shutdown(th, t)
        BY <1>2, <3>6, Shutdown
      <3>7. CASE state_cb(th, t)
        BY <1>2, <3>7, StateCb
      <3>8. CASE cancel_delayed(th, t) \/ tcp_flush_pending_tx(th, t)
        BY <1>2, <3>8, Flushes
      <3>9. CASE start_keep_alive(th, t) \/ tcp_keep_alive_timer(th, t)
        BY <1>2, <3>9, KeepAlive
      <3>10. CASE tcp_destroy(th, t)
        BY <3>10, TcpDestroys
      <3>11. CASE hold(th, t)
        BY <1>2, <3>11, Hold
      <3>12. CASE \E m \in Msgs : delay_tdata(th, t, m) \/ asock_send(th, t, m) \/ send_returns(th, t, m)
        BY <1>2, <3>12, Sends
      <3> QED
        BY <2>2, <3>1, <3>2, <3>3, <3>4, <3>5, <3>6, <3>7, <3>8, <3>9, <3>10, <3>11, <3>12
    <2> QED
      BY <1>3, <2>1, <2>2 DEF Proceed
  <1>4. CASE Event(th)
    <2>1. ASSUME NEW t \in Tps,
                 \/ idle_expires(th, t) \/ keep_alive_expires(th, t) \/ disconnected(th, t)
                 \/ \E result \in {"connected", "unreadable", "failed"} : on_connect_complete(th, t, result)
                 \/ \E m \in Msgs, ok \in BOOLEAN : on_data_sent(th, t, m, ok)
          PROVE  Base' /\ Moves(th)
      BY <1>2, <2>1, Events
    <2>2. ASSUME NEW t \in Tps, NEW k \in Keys, NEW ok \in BOOLEAN, on_accept_complete(th, t, k, ok)
          PROVE  Base' /\ Moves(th)
      BY <2>2, Makes
    <2> QED
      BY <1>4, <2>1, <2>2 DEF Event
  <1>5. CASE Call(th)
    <2>1. ASSUME NEW k \in Keys, acquire_transport(th, k) \/ acquire_fails(th, k)
          PROVE  Base' /\ Moves(th)
      BY <2>1, Makes
    <2>2. ASSUME NEW t \in Tps, release_transport(th, t)
          PROVE  Base' /\ Moves(th)
      BY <1>2, <2>2, Release
    <2>3. ASSUME NEW t \in Tps,
                 use_transport(th, t) \/ app_shutdown(th, t) \/ \E m \in Msgs : pjsip_transport_send(th, t, m)
          PROVE  Base' /\ Moves(th)
      BY <1>2, <2>3, Calling
    <2> QED
      BY <1>5, <2>1, <2>2, <2>3 DEF Call
  <1> QED
    BY <1>1, <1>3, <1>4, <1>5

-----------------------------------------------------------------------------
(***************************************************************************)
(* Counting: how often a step is on the lists of all the threads.          *)
(***************************************************************************)
INSTANCE FiniteSetTheorems

\* Where a step is on the lists.
Places(td, s) == {p \in Threads \X (Nat \ {0}) : p[2] \in DOMAIN td[p[1]] /\ td[p[1]][p[2]] = s}
Pushed(td, th, s) == [td EXCEPT ![th] = <<s>> \o td[th]]

\* How often a step is planned is the number of its places.
LEMMA PlannedPlaces == ASSUME todo \in Lists, NEW s PROVE Planned(s) = Cardinality(Places(todo, s))
  <1>1. \A th \in Threads : DOMAIN todo[th] \subseteq Nat \ {0}
    BY DEF Lists
  <1>2. UNION {{<<th, i>> : i \in {j \in DOMAIN todo[th] : todo[th][j] = s}} : th \in Threads} = Places(todo, s)
    BY SMTT(30), Z3T(30), <1>1 DEF Places
  <1> QED
    BY <1>2 DEF Planned

\* The elements of a list with a step in front.
LEMMA PushedList ==
    ASSUME NEW q \in Seq(Steps), NEW s \in Steps
    PROVE  /\ <<s>> \o q \in Seq(Steps) /\ Len(<<s>> \o q) = Len(q) + 1
           /\ (<<s>> \o q)[1] = s /\ \A i \in 1..Len(q) : (<<s>> \o q)[i + 1] = q[i]
  OBVIOUS

\* A step that is put in front has one place more, every other step as many as before.
LEMMA PushedPlaces ==
    ASSUME NEW td \in Lists, NEW th \in Threads, NEW x \in Steps, NEW s,
           IsFiniteSet(Places(td, s)) \/ IsFiniteSet(Places(Pushed(td, th, x), s))
    PROVE  /\ IsFiniteSet(Places(td, s)) /\ IsFiniteSet(Places(Pushed(td, th, x), s))
           /\ Cardinality(Places(Pushed(td, th, x), s))
                = Cardinality(Places(td, s)) + (IF x = s THEN 1 ELSE 0)
  <1> DEFINE new == Pushed(td, th, x)
             F == [p \in Places(td, s) |-> IF p[1] = th THEN <<th, p[2] + 1>> ELSE p]
             T == Places(new, s) \ {<<th, 1>>}
  <1>1. td[th] \in Seq(Steps) /\ \A y \in Threads : td[y] \in Seq(Steps)
    BY DEF Lists
  <1>2. /\ new \in Lists /\ new[th][1] = x /\ DOMAIN new[th] = 1..(Len(td[th]) + 1)
        /\ \A i \in 1..Len(td[th]) : new[th][i + 1] = td[th][i]
        /\ \A y \in Threads : y # th => new[y] = td[y]
    BY SMTT(30), Z3T(30), <1>1, PushedList DEF Pushed, Lists
  <1>3. \A y \in Threads : DOMAIN td[y] \subseteq Nat \ {0} /\ DOMAIN td[th] = 1..Len(td[th])
    BY <1>1
  <1> HIDE DEF new
  <1>4. \A p \in Places(td, s) : F[p] \in T
    <2> SUFFICES ASSUME NEW p \in Places(td, s) PROVE F[p] \in T
      OBVIOUS
    <2>1. PICK y \in Threads, i \in Nat \ {0} : p = <<y, i>>
      BY DEF Places
    <2>2. i \in DOMAIN td[y] /\ td[y][i] = s
      BY <2>1 DEF Places
    <2>3. CASE y = th
      <3>1. F[p] = <<th, i + 1>> /\ i \in 1..Len(td[th]) /\ i + 1 # 1
        BY SMTT(30), Z3T(30), <2>1, <2>2, <2>3, <1>3
      <3>2. i + 1 \in DOMAIN new[th] /\ new[th][i + 1] = s /\ i + 1 \in Nat \ {0}
        BY SMTT(30), Z3T(30), <3>1, <2>2, <2>3, <1>2
      <3>3. <<th, i + 1>> \in Places(new, s) /\ <<th, i + 1>> # <<th, 1>>
        BY <3>1, <3>2 DEF Places
      <3> QED
        BY <3>1, <3>3
    <2>4. CASE y # th
      <3>1. F[p] = <<y, i>>
        BY <2>1, <2>4
      <3>2. <<y, i>> \in Places(new, s) /\ <<y, i>> # <<th, 1>>
        BY <2>2, <2>4, <1>2 DEF Places
      <3> QED
        BY <3>1, <3>2
    <2> QED
      BY <2>3, <2>4
  <1>5. \A p, r \in Places(td, s) : F[p] = F[r] => p = r
    <2> SUFFICES ASSUME NEW p \in Places(td, s), NEW r \in Places(td, s), F[p] = F[r] PROVE p = r
      OBVIOUS
    <2>1. PICK y \in Threads, i \in Nat \ {0} : p = <<y, i>>
      BY DEF Places
    <2>2. PICK z \in Threads, j \in Nat \ {0} : r = <<z, j>>
      BY DEF Places
    <2>3. F[p] = IF y = th THEN <<th, i + 1>> ELSE <<y, i>>
      BY <2>1
    <2>4. F[r] = IF z = th THEN <<th, j + 1>> ELSE <<z, j>>
      BY <2>2
    <2> QED
      BY <2>1, <2>2, <2>3, <2>4
  <1>6. \A r \in T : \E p \in Places(td, s) : F[p] = r
    <2> SUFFICES ASSUME NEW r \in T PROVE \E p \in Places(td, s) : F[p] = r
      OBVIOUS
    <2>1. PICK z \in Threads, j \in Nat \ {0} : r = <<z, j>> /\ j \in DOMAIN new[z] /\ new[z][j] = s
      BY SMTT(30), Z3T(30) DEF Places
    <2>2. CASE z = th
      <3>1. j # 1 /\ j - 1 \in 1..Len(td[th]) /\ (j - 1) + 1 = j
        BY SMTT(30), Z3T(30), <2>1, <2>2, <1>2
      <3>2. td[th][j - 1] = s
        BY <3>1, <2>1, <2>2, <1>2
      <3>3. <<th, j - 1>> \in Places(td, s)
        BY <3>1, <3>2, <1>3 DEF Places
      <3>4. F[<<th, j - 1>>] = r
        BY <3>1, <3>3, <2>1, <2>2
      <3> QED
        BY <3>3, <3>4
    <2>3. CASE z # th
      <3>1. r \in Places(td, s) /\ F[r] = r
        BY <2>1, <2>3, <1>2 DEF Places
      <3> QED
        BY <3>1
    <2> QED
      BY <2>2, <2>3
  <1>7. F \in Bijection(Places(td, s), T)
    <2>1. F \in [Places(td, s) -> T]
      BY <1>4
    <2> HIDE DEF F, T
    <2> QED
      BY <2>1, <1>5, <1>6 DEF Bijection, Injection, Surjection, IsInjective
  <1>8. IsFiniteSet(Places(td, s)) /\ IsFiniteSet(T) /\ Cardinality(T) = Cardinality(Places(td, s))
    <2>1. T \subseteq Places(new, s)
      OBVIOUS
    <2> HIDE DEF F, T
    <2>2. CASE IsFiniteSet(Places(td, s))
      BY <2>2, <1>7, FS_Bijection DEF ExistsBijection
    <2>3. CASE IsFiniteSet(Places(new, s))
      <3>1. IsFiniteSet(T)
        BY <2>1, <2>3, FS_Subset
      <3>2. IsFiniteSet(Places(td, s))
        BY <3>1, <1>7, FS_Injection DEF Bijection
      <3> QED
        BY <3>2, <1>7, FS_Bijection DEF ExistsBijection
    <2> QED
      BY <2>2, <2>3 DEF new
  <1>9. <<th, 1>> \in Places(new, s) <=> x = s
    BY SMTT(30), Z3T(30), <1>2 DEF Places
  <1>10. CASE x = s
    <2>1. Places(new, s) = T \cup {<<th, 1>>} /\ <<th, 1>> \notin T
      BY <1>9, <1>10
    <2> HIDE DEF T
    <2> QED
      BY SMTT(30), Z3T(30), <1>8, <1>10, <2>1, FS_AddElement DEF new
  <1>11. CASE x # s
    <2>1. Places(new, s) = T
      BY <1>9, <1>11
    <2> HIDE DEF T
    <2> QED
      BY <1>8, <1>11, <2>1, FS_CardinalityType DEF new
  <1> QED
    BY <1>10, <1>11

Finite(td) == \A s \in Steps : IsFiniteSet(Places(td, s))
Owed(td, t) == Cardinality(Places(td, S("hold", t))) + Cardinality(Places(td, S("dec_ref", t)))
               - Cardinality(Places(td, S("add_ref", t)))

\* The steps about references are different steps.
LEMMA RefSteps ==
    ASSUME NEW t \in Tps
    PROVE  /\ {S("hold", t), S("dec_ref", t), S("add_ref", t)} \subseteq Steps
           /\ S("hold", t) # S("dec_ref", t) /\ S("hold", t) # S("add_ref", t) /\ S("dec_ref", t) # S("add_ref", t)
  BY DEF S, Step, Steps, Names

\* Putting a step in front of a list changes what is owed by its weight.
LEMMA PushOwes ==
    ASSUME NEW td \in Lists, NEW th \in Threads, NEW x \in Steps,
           Finite(td) \/ Finite(Pushed(td, th, x))
    PROVE  /\ Finite(td) /\ Finite(Pushed(td, th, x))
           /\ \A t \in Tps : /\ Owed(Pushed(td, th, x), t) = Owed(td, t) + Weight(x, t)
                            /\ Owed(td, t) \in Int /\ Owed(Pushed(td, th, x), t) \in Int
  <1>1. Finite(td) /\ Finite(Pushed(td, th, x))
    BY PushedPlaces DEF Finite
  <1>2. ASSUME NEW t \in Tps
        PROVE  /\ Owed(Pushed(td, th, x), t) = Owed(td, t) + Weight(x, t)
               /\ Owed(td, t) \in Int /\ Owed(Pushed(td, th, x), t) \in Int
    <2> DEFINE N(d, s) == Cardinality(Places(d, s))
               h == S("hold", t)
               d == S("dec_ref", t)
               a == S("add_ref", t)
    <2>1. /\ {h, d, a} \subseteq Steps /\ h # d /\ h # a /\ d # a
      BY RefSteps
    <2>2. \A s \in Steps : /\ N(Pushed(td, th, x), s) = N(td, s) + (IF x = s THEN 1 ELSE 0)
                          /\ N(td, s) \in Nat /\ N(Pushed(td, th, x), s) \in Nat
      BY SMTT(30), Z3T(30), <1>1, PushedPlaces, FS_CardinalityType DEF Finite
    <2>3. Weight(x, t) = IF x \in {h, d} THEN 1 ELSE IF x = a THEN -1 ELSE 0
      BY DEF Weight
    <2>4. \A e : Owed(e, t) = N(e, h) + N(e, d) - N(e, a)
      BY DEF Owed
    <2> HIDE DEF N, h, d, a
    <2>5. \A s \in {h, d, a} : /\ N(Pushed(td, th, x), s) = N(td, s) + (IF x = s THEN 1 ELSE 0)
                              /\ N(td, s) \in Nat /\ N(Pushed(td, th, x), s) \in Nat
      BY <2>1, <2>2
    <2> QED
      BY <2>1, <2>3, <2>4, <2>5
  <1> QED
    BY <1>1, <1>2

Put(td, th, q) == [td EXCEPT ![th] = q]

\* A list in front of another is its first step in front of the rest.
LEMMA OneMore ==
    ASSUME NEW td \in Lists, NEW th \in Threads, NEW q \in Seq(Steps), NEW r \in Seq(Steps), q # <<>>,
           Finite(Put(td, th, Tail(q) \o r))
    PROVE  /\ Tail(q) \in Seq(Steps) /\ Len(Tail(q)) = Len(q) - 1
           /\ Finite(Put(td, th, q \o r))
           /\ \A t \in Tps : /\ Owed(Put(td, th, q \o r), t) = Owed(Put(td, th, Tail(q) \o r), t) + Weight(Head(q), t)
                            /\ Owed(Put(td, th, q \o r), t) \in Int
                            /\ Owed(Put(td, th, Tail(q) \o r), t) \in Int
  <1>1. Tail(q) \in Seq(Steps) /\ Len(Tail(q)) = Len(q) - 1 /\ Head(q) \in Steps /\ Tail(q) \o r \in Seq(Steps)
    OBVIOUS
  <1>2. q \o r = <<Head(q)>> \o (Tail(q) \o r)
    OBVIOUS
  <1>3. Put(td, th, Tail(q) \o r) \in Lists
    BY <1>1 DEF Put, Lists
  <1>4. Pushed(Put(td, th, Tail(q) \o r), th, Head(q)) = Put(td, th, q \o r)
    BY <1>1, <1>2 DEF Put, Pushed, Lists
  <1> QED
    BY SMTT(30), Z3T(30), <1>1, <1>3, <1>4, PushOwes

\* In front of r the list q adds what the function f says.
Adds(td, th, q, r, f) ==
    /\ Finite(Put(td, th, q \o r))
    /\ \A t \in Tps : /\ Owed(Put(td, th, q \o r), t) = Owed(Put(td, th, r), t) + f[t]
                     /\ Owed(Put(td, th, r), t) \in Int /\ f[t] \in Int

\* The empty list adds nothing.
LEMMA Adds0 ==
    ASSUME NEW td \in Lists, NEW th \in Threads, NEW r \in Seq(Steps), Finite(Put(td, th, r))
    PROVE  Adds(td, th, <<>>, r, [t \in Tps |-> 0])
  <1>1. <<>> \o r = r
    OBVIOUS
  <1>2. \A t \in Tps : Owed(Put(td, th, r), t) \in Int
    BY RefSteps, FS_CardinalityType DEF Owed, Finite
  <1> QED
    BY <1>1, <1>2 DEF Adds

\* A step in front adds its weight.
LEMMA AddsMore ==
    ASSUME NEW td \in Lists, NEW th \in Threads, NEW r \in Seq(Steps),
           NEW q \in Seq(Steps), q # <<>>, NEW f, Adds(td, th, Tail(q), r, f)
    PROVE  Adds(td, th, q, r, [t \in Tps |-> Weight(Head(q), t) + f[t]])
  <1>1. \A t \in Tps : Weight(Head(q), t) \in Int
    BY DEF Weight
  <1>2. /\ Finite(Put(td, th, q \o r))
        /\ \A t \in Tps : Owed(Put(td, th, q \o r), t) = Owed(Put(td, th, Tail(q) \o r), t) + Weight(Head(q), t)
    BY SMTT(30), Z3T(30), OneMore DEF Adds
  <1> QED
    BY SMTT(30), Z3T(30), <1>1, <1>2 DEF Adds

\* In front of r a list of up to five steps adds its weights.
LEMMA AddsAll ==
    ASSUME NEW td \in Lists, NEW th \in Threads, NEW r \in Seq(Steps), Finite(Put(td, th, r)),
           NEW q \in Seq(Steps), Len(q) <= 5
    PROVE  Adds(td, th, q, r, [t \in Tps |-> Weights(q, t)])
  <1> DEFINE A(p) == Adds(td, th, p, r, [t \in Tps |-> Weights(p, t)])
  <1>0. A(<<>>)
    <2>1. [t \in Tps |-> Weights(<<>>, t)] = [t \in Tps |-> 0]
      BY FitsNone DEF Fits
    <2> QED
      BY <2>1, Adds0
  <1>1. ASSUME NEW p \in Seq(Steps), Len(p) <= 5, p # <<>>, A(Tail(p))  PROVE A(p)
    <2> DEFINE f == [t \in Tps |-> Weights(Tail(p), t)]
    <2>1. [t \in Tps |-> Weights(p, t)] = [t \in Tps |-> Weight(Head(p), t) + f[t]]
      BY <1>1, WeightsTail
    <2>2. Adds(td, th, Tail(p), r, f)
      BY <1>1
    <2> HIDE DEF f
    <2> QED
      BY SMTT(30), Z3T(30), <1>1, <2>1, <2>2, AddsMore
  <1>2. \A p \in Seq(Steps) : p # <<>> => Tail(p) \in Seq(Steps) /\ Len(Tail(p)) = Len(p) - 1 /\ Len(p) \in Nat
    OBVIOUS
  <1>3. \A p \in Seq(Steps) : Len(p) \in Nat /\ (Len(p) = 0 <=> p = <<>>)
    OBVIOUS
  <1> HIDE DEF A
  <1>4. \A p \in Seq(Steps) : Len(p) = 0 => A(p)
    BY <1>0, <1>3
  <1>5. ASSUME NEW k \in 0..4, \A p \in Seq(Steps) : Len(p) = k => A(p)
        PROVE  \A p \in Seq(Steps) : Len(p) = k + 1 => A(p)
    <2> SUFFICES ASSUME NEW p \in Seq(Steps), Len(p) = k + 1  PROVE A(p)
      OBVIOUS
    <2>1. p # <<>> /\ Len(p) <= 5 /\ Tail(p) \in Seq(Steps) /\ Len(Tail(p)) = k
      BY SMTT(30), Z3T(30), <1>2, <1>3
    <2> QED
      BY <1>1, <1>5, <2>1
  <1>6. \A p \in Seq(Steps) : Len(p) = 1 => A(p)
    BY <1>4, <1>5
  <1>7. \A p \in Seq(Steps) : Len(p) = 2 => A(p)
    BY <1>5, <1>6
  <1>8. \A p \in Seq(Steps) : Len(p) = 3 => A(p)
    BY <1>5, <1>7
  <1>9. \A p \in Seq(Steps) : Len(p) = 4 => A(p)
    BY <1>5, <1>8
  <1>10. \A p \in Seq(Steps) : Len(p) = 5 => A(p)
    BY <1>5, <1>9
  <1>11. Len(q) \in {0, 1, 2, 3, 4, 5}
    <2> DEFINE n == Len(q)
    <2>1. n \in Nat /\ n <= 5
      BY <1>3
    <2> HIDE DEF n
    <2>2. n \in {0, 1, 2, 3, 4, 5}
      BY <2>1
    <2> QED
      BY <2>2 DEF n
  <1>12. A(q)
    BY <1>4, <1>6, <1>7, <1>8, <1>9, <1>10, <1>11
  <1> QED
    BY <1>12 DEF A

\* What the transports owe is what the threads have yet to do about it.
Owes == \A t \in Tps : tp[t].ref_cnt - users[t] = Owed(todo, t)
RefInv == Base /\ Finite(todo) /\ Owes

\* A list without its first step.
LEMMA WithoutHead ==
    ASSUME NEW td \in Lists, NEW th \in Threads, td[th] # <<>>, Finite(td)
    PROVE  /\ Finite(Put(td, th, Tail(td[th])))
           /\ \A t \in Tps : Owed(td, t) = Owed(Put(td, th, Tail(td[th])), t) + Weight(Head(td[th]), t)
  <1> DEFINE new == Put(td, th, Tail(td[th]))
             h == Head(td[th])
  <1>1. td[th] \in Seq(Steps) /\ h \in Steps /\ Tail(td[th]) \in Seq(Steps) /\ <<h>> \o Tail(td[th]) = td[th]
    BY DEF Lists
  <1>2. new \in Lists /\ new[th] = Tail(td[th])
    BY <1>1 DEF Lists, Put
  <1>3. Pushed(new, th, h) = td
    BY <1>1, <1>2 DEF Pushed, Put, Lists
  <1> HIDE DEF new, h
  <1>4. Finite(new) /\ \A t \in Tps : Owed(td, t) = Owed(new, t) + Weight(h, t)
    BY <1>1, <1>2, <1>3, PushOwes
  <1> QED
    BY <1>4 DEF new, h

\* A step that moves what it owes keeps the account.
LEMMA MovesOwes ==
    ASSUME RefInv, NEW th \in Threads, Moves(th), Base'
    PROVE  RefInv'
  <1>1. PICK q : Rewrites(th, q) /\ Balance(th, q)
    BY DEF Moves
  <1> DEFINE r == Rest(th)
             base == Put(todo, th, r)
  <1>2. todo \in Lists /\ todo[th] \in Seq(Steps) /\ r \in Seq(Steps) /\ q \in Seq(Steps) /\ Len(q) <= 5
    BY SMTT(30), Z3T(30), <1>1 DEF RefInv, Base, Types, Lists, Rest, Rewrites
  <1>3. Finite(base) /\ \A t \in Tps : Owed(todo, t) = Owed(base, t) + HeadWeight(th, t)
    <2>1. CASE todo[th] = <<>>
      <3>1. base = todo
        BY <1>2, <2>1 DEF Put, Rest, Lists
      <3>2. Adds(todo, th, <<>>, r, [t \in Tps |-> 0])
        BY <1>2, <3>1, Adds0 DEF RefInv
      <3>3. \A t \in Tps : Owed(base, t) \in Int
        BY <3>2 DEF Adds
      <3> QED
        BY <2>1, <3>1, <3>3 DEF HeadWeight, RefInv
    <2>2. CASE todo[th] # <<>>
      <3>1. r = Tail(todo[th]) /\ \A t \in Tps : HeadWeight(th, t) = Weight(Head(todo[th]), t)
        BY <2>2 DEF Rest, HeadWeight
      <3> QED
        BY <1>2, <2>2, <3>1, WithoutHead DEF RefInv
    <2> QED
      BY <2>1, <2>2
  <1>4. Adds(todo, th, q, r, [t \in Tps |-> Weights(q, t)])
    BY <1>2, <1>3, AddsAll
  <1>5. todo' = Put(todo, th, q \o r)
    BY <1>1 DEF Rewrites, Put
  <1> HIDE DEF r, base
  <1>6. /\ Finite(todo')
        /\ \A t \in Tps : /\ Owed(todo', t) = Owed(base, t) + Weights(q, t)
                          /\ Owed(base, t) \in Int /\ Weights(q, t) \in Int
    BY <1>4, <1>5 DEF Adds, base
  <1>7. ASSUME NEW t \in Tps  PROVE tp'[t].ref_cnt - users'[t] = Owed(todo', t)
    <2>1. /\ tp[t].ref_cnt \in Int /\ users[t] \in Int /\ tp'[t].ref_cnt \in Int /\ users'[t] \in Int
      BY SMTT(30), Z3T(30) DEF RefInv, Base, Types, TpType
    <2>2. HeadWeight(th, t) \in Int
      BY WeightInt DEF HeadWeight
    <2>3. (tp'[t].ref_cnt - users'[t]) - (tp[t].ref_cnt - users[t]) = Weights(q, t) - HeadWeight(th, t)
      BY <1>1 DEF Balance
    <2>4. tp[t].ref_cnt - users[t] = Owed(base, t) + HeadWeight(th, t)
      BY <1>3 DEF RefInv, Owes
    <2>5. Owed(todo', t) = Owed(base, t) + Weights(q, t) /\ Owed(base, t) \in Int /\ Weights(q, t) \in Int
      BY <1>6
    <2> DEFINE a == tp[t].ref_cnt
               b == users[t]
               c == tp'[t].ref_cnt
               d == users'[t]
               h == HeadWeight(th, t)
               w == Weights(q, t)
               e == Owed(base, t)
    <2>6. a \in Int /\ b \in Int /\ c \in Int /\ d \in Int /\ h \in Int /\ w \in Int /\ e \in Int
      BY <2>1, <2>2, <2>5
    <2>7. (c - d) - (a - b) = w - h /\ a - b = e + h /\ Owed(todo', t) = e + w
      BY <2>3, <2>4, <2>5
    <2> HIDE DEF a, b, c, d, h, w, e
    <2>8. c - d = e + w
      BY <2>6, <2>7
    <2> QED
      BY <2>7, <2>8 DEF c, d
  <1> QED
    BY <1>6, <1>7 DEF RefInv, Owes

\* The counter that pjsip_transport_add_ref and pjsip_transport_dec_ref keep is exact.
LEMMA RefInvExact == ASSUME RefInv  PROVE RefsExact
  <1> SUFFICES ASSUME NEW t \in Tps
               PROVE  tp[t].ref_cnt = users[t] + Planned(S("hold", t)) + Planned(S("dec_ref", t))
                                   - Planned(S("add_ref", t))
    BY DEF RefsExact
  <1>1. todo \in Lists /\ tp[t].ref_cnt \in Int /\ users[t] \in Int
    BY SMTT(30), Z3T(30) DEF RefInv, Base, Types, TpType
  <1>2. \A s \in {S("hold", t), S("dec_ref", t), S("add_ref", t)} :
           Planned(s) = Cardinality(Places(todo, s)) /\ Cardinality(Places(todo, s)) \in Nat
    BY <1>1, RefSteps, PlannedPlaces, FS_CardinalityType DEF RefInv, Finite
  <1>3. tp[t].ref_cnt - users[t] = Owed(todo, t)
    BY DEF RefInv, Owes
  <1> QED
    BY <1>1, <1>2, <1>3 DEF Owed

\* Before any call there are no references, no users and no steps.
LEMMA InitRefInv == ASSUME Init  PROVE RefInv
  <1>1. Unused \in TpType /\ Unused.life = "none" /\ Unused.ref_cnt = 0 /\ ~Unused.armed /\ ~Unused.id
        /\ ~Unused.ka /\ ~Unused.used /\ ~Unused.is_destroying
    BY UnusedType
  <1>2. /\ tp \in [Tps -> TpType] /\ \A t \in Tps : tp[t] = Unused /\ users[t] = 0
        /\ users \in [Tps -> Nat] /\ table \in [Keys -> Tps \cup {NoTp}] /\ tp_list = {}
        /\ \A k \in Keys : table[k] = NoTp
    BY <1>1 DEF Init
  <1>3. todo \in Lists /\ \A x \in Threads : todo[x] = <<>> /\ DOMAIN todo[x] = {}
    BY DEF Init, Lists
  <1>4. Types
    BY <1>2, <1>3 DEF Types
  <1>5. AllOk
    BY <1>3 DEF AllOk
  <1>6. Fresh
    BY <1>1, <1>2 DEF Fresh
  <1>7. KeyOf
    BY <1>2 DEF KeyOf
  <1>8. FoundOrListed
    <2>1. \A t \in Tps : tp[t].key \in Keys
      BY <1>2 DEF TpType
    <2> QED
      BY <1>1, <1>2, <2>1, NoMessage DEF FoundOrListed
  <1>9. \A s : Places(todo, s) = {}
    BY <1>3 DEF Places
  <1>10. Finite(todo) /\ Owes
    <2>1. \A s : IsFiniteSet(Places(todo, s)) /\ Cardinality(Places(todo, s)) = 0
      BY <1>9, FS_EmptySet
    <2>2. ASSUME NEW t \in Tps PROVE Owed(todo, t) = 0 /\ tp[t].ref_cnt - users[t] = 0
      BY <1>1, <1>2, <2>1 DEF Owed
    <2> QED
      BY <2>1, <2>2 DEF Finite, Owes
  <1> QED
    BY <1>4, <1>5, <1>6, <1>7, <1>8, <1>10 DEF RefInv, Base

\* Every step keeps the account.
LEMMA NextRefInv == ASSUME RefInv, [Next]_vars  PROVE RefInv'
  <1>1. CASE Next
    <2>1. Base' /\ \E th \in Threads : Moves(th)
      BY <1>1, NextMoves DEF RefInv
    <2> QED
      BY <2>1, MovesOwes
  <1>2. CASE UNCHANGED vars
    <2>1. Base'
      BY <1>2 DEF vars, RefInv, Base, Types, AllOk, Ok, Fresh, KeyOf, FoundOrListed
    <2>2. Finite(todo)' /\ Owes'
      BY <1>2 DEF vars, RefInv, Finite, Owes, Owed, Places
    <2> QED
      BY <2>1, <2>2 DEF RefInv
  <1> QED
    BY <1>1, <1>2

\* For any number of threads, transports and users: the reference counter of a
\* transport is the number of its users and of the calls in progress that will give
\* a reference back (pjsip_transport_add_ref, pjsip_transport_dec_ref).
THEOREM CounterIsExact == Spec => []RefsExact
  <1>1. Init => RefInv
    BY InitRefInv
  <1>2. RefInv /\ [Next]_vars => RefInv'
    BY NextRefInv
  <1>3. RefInv => RefsExact
    BY RefInvExact
  <1> QED
    BY <1>1, <1>2, <1>3, PTL DEF Spec

\* For any number of threads and transports: a transport that is not being destroyed
\* is in the hash table or, replaced, in the list, never in both; one that is, is in
\* neither (pjsip_transport_register, destroy_transport).
THEOREM AlwaysFoundOrListed == Spec => []FoundOrListed
  <1>1. Init => RefInv
    BY InitRefInv
  <1>2. RefInv /\ [Next]_vars => RefInv'
    BY NextRefInv
  <1>3. RefInv => FoundOrListed
    BY DEF RefInv, Base
  <1> QED
    BY <1>1, <1>2, <1>3, PTL DEF Spec

====
