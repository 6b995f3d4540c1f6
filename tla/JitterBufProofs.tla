--------------------------- MODULE JitterBufProofs ---------------------------
(***************************************************************************)
(* The jitter buffer of jbuf.c, for any capacity, limits and settings, and *)
(* any network that overtakes a frame by fewer than MAX_MISORDER others.   *)
(*                                                                         *)
(* The argument speaks of a window of frames at distances from its start   *)
(* (At), and first shows what each operation on the ring does to it: it    *)
(* takes the oldest away (Took), writes one (Wrote), moves the origin      *)
(* (Shifted).  The counter of discarded frames stays exact because no      *)
(* frame is marked twice: the progressive algorithm marks only ahead of    *)
(* its reference frame, and every other operation lets the marks fall back *)
(* (NoNewMarks, Behind).  Frames are played in order because the window    *)
(* starts behind the last one played and never moves back (Ordered, Later).*)
(***************************************************************************)
EXTENDS JitterBuf, FiniteSetTheorems, TLAPS

\* The provers tried on a leaf that names none, in this order.
USE ZenonT(10), SMTT(30), Z3T(30)

\* The distance of a slot from the start of the window.
Off(f, p) == IF p >= f.head THEN p - f.head ELSE p - f.head + MaxCount

\* The slots that hold a discarded frame.
Discards(f) == {p \in Slots : f.frame[p] = Discarded}

\* RingExact for any ring.
Exact(f) == /\ f \in Ring
            /\ \A p \in Slots \ Window(f) : f.frame[p] = Missing
            /\ f.size > 0 => f.frame[Slot(f, f.size - 1)] # Missing
            /\ f.discarded_num = Cardinality(Discards(f))

-----------------------------------------------------------------------------
\* The index arithmetic of the ring in jbuf.c: a sum below twice the capacity wraps once.
LEMMA Wrap ==
    ASSUME NEW M \in Nat \ {0}, NEW x \in 0..(2 * M - 1)
    PROVE  x % M = IF x < M THEN x ELSE x - M
  OBVIOUS

\* The i-th frame of the window is where the expression (head + i) % max_count says.
LEMMA SlotAt ==
    ASSUME NEW f \in Ring, NEW i \in 0..MaxCount
    PROVE  /\ Slot(f, i) = IF f.head + i < MaxCount THEN f.head + i ELSE f.head + i - MaxCount
           /\ Slot(f, i) \in Slots
           /\ i < MaxCount => Off(f, Slot(f, i)) = i
  <1>1. f.head \in 0..(MaxCount - 1) /\ MaxCount \in Nat \ {0}
    BY JitterAssumption DEF Ring, Slots
  <1>2. f.head + i \in 0..(2 * MaxCount - 1)
    BY <1>1
  <1>3. Slot(f, i) = IF f.head + i < MaxCount THEN f.head + i ELSE f.head + i - MaxCount
    <2> DEFINE x == f.head + i
    <2> HIDE DEF x
    <2>1. x % MaxCount = IF x < MaxCount THEN x ELSE x - MaxCount
      BY <1>1, <1>2, Wrap DEF x
    <2> QED
      BY <1>1, <1>2, <2>1 DEF x, Slot
  <1> QED
    BY <1>1, <1>3 DEF Slots, Off

\* Every slot of the ring is at one distance from the head.
LEMMA OffOf ==
    ASSUME NEW f \in Ring, NEW p \in Slots
    PROVE  Off(f, p) \in 0..(MaxCount - 1) /\ Slot(f, Off(f, p)) = p
  <1>1. f.head \in 0..(MaxCount - 1) /\ MaxCount \in Nat \ {0} /\ p \in 0..(MaxCount - 1)
    BY JitterAssumption DEF Ring, Slots
  <1>2. Off(f, p) \in 0..(MaxCount - 1)
    BY <1>1 DEF Off
  <1> QED
    BY <1>1, <1>2, SlotAt DEF Off

\* The first slots of the window.
First(f, c) == {Slot(f, i) : i \in 0..(c - 1)}

\* The first c slots from the head are those at a distance below c.
LEMMA FirstOff ==
    ASSUME NEW f \in Ring, NEW c \in 0..MaxCount, NEW p \in Slots
    PROVE  p \in First(f, c) <=> Off(f, p) < c
  <1>0. MaxCount \in Nat \ {0}
    BY JitterAssumption
  <1>1. ASSUME p \in First(f, c)  PROVE Off(f, p) < c
    <2>1. PICK i \in 0..(c - 1) : p = Slot(f, i)
      BY <1>1 DEF First
    <2> QED
      BY <1>0, <2>1, SlotAt
  <1>2. ASSUME Off(f, p) < c  PROVE p \in First(f, c)
    BY SMTT(30), Z3T(30), <1>2, OffOf DEF First
  <1> QED
    BY <1>1, <1>2

\* The first c slots are at most c.
LEMMA FirstFits ==
    ASSUME NEW f \in Ring, NEW c \in 0..MaxCount
    PROVE  /\ First(f, c) \subseteq Slots
           /\ IsFiniteSet(First(f, c)) /\ Cardinality(First(f, c)) <= c
  <1>0. MaxCount \in Nat \ {0}
    BY JitterAssumption
  <1>1. First(f, c) \subseteq Slots
    BY SMTT(30), Z3T(30), <1>0, SlotAt DEF First
  <1> DEFINE S == First(f, c)
             T == 0..(c - 1)
             g == [p \in S |-> Off(f, p)]
  <1>2. g \in [S -> T]
    BY SMTT(30), Z3T(30), <1>0, <1>1, FirstOff, OffOf
  <1>3. \A p, q \in S : g[p] = g[q] => p = q
    BY <1>1, OffOf
  <1>4. g \in Injection(S, T)
    BY <1>2, <1>3 DEF Injection, IsInjective
  <1>5. IsFiniteSet(T) /\ Cardinality(T) = c
    BY <1>0, FS_Interval
  <1> HIDE DEF S, T, g
  <1>6. IsFiniteSet(S) /\ Cardinality(S) <= Cardinality(T)
    BY <1>4, <1>5, FS_Injection
  <1> QED
    BY <1>1, <1>5, <1>6 DEF S

\* The ring is finite.
LEMMA SlotsFinite == IsFiniteSet(Slots)
  BY SMTT(30), Z3T(30), JitterAssumption, FS_Interval DEF Slots

\* All discarded frames are in the window, so discarded_num is at most size.
LEMMA DiscardsFit ==
    ASSUME NEW f, Exact(f)
    PROVE  /\ IsFiniteSet(Discards(f)) /\ Discards(f) \subseteq First(f, f.size)
           /\ f.discarded_num \in 0..f.size
  <1>0. f \in Ring /\ f.size \in 0..MaxCount /\ f.discarded_num \in Nat /\ MaxCount \in Nat
    BY SMTT(30), Z3T(30), JitterAssumption DEF Exact, Ring
  <1>1. Discards(f) \subseteq First(f, f.size)
    BY JitterAssumption DEF Exact, Discards, First, Window
  <1>2. IsFiniteSet(First(f, f.size)) /\ Cardinality(First(f, f.size)) <= f.size
    BY <1>0, FirstFits
  <1>3. IsFiniteSet(Discards(f)) /\ Cardinality(Discards(f)) <= Cardinality(First(f, f.size))
    BY <1>1, <1>2, FS_Subset
  <1>4. Cardinality(Discards(f)) \in Nat /\ Cardinality(First(f, f.size)) \in Nat
    BY <1>2, <1>3, FS_CardinalityType
  <1> QED
    BY <1>0, <1>1, <1>2, <1>3, <1>4 DEF Exact

-----------------------------------------------------------------------------
\* Taking the oldest frames out.
\* What Removed does to the fields of a ring.
Cut(f, c, g) == /\ g.head = Slot(f, c) /\ g.size = f.size - c /\ g.origin = f.origin + c
                /\ g.frame = [p \in Slots |-> IF p \in First(f, c) THEN Missing ELSE f.frame[p]]
                /\ g.discarded_num = f.discarded_num - Cardinality(Discards(f) \cap First(f, c))
                /\ g = [head |-> g.head, size |-> g.size, discarded_num |-> g.discarded_num,
                        origin |-> g.origin, frame |-> g.frame]

\* What jb_framelist_remove_head does to each field of the ring.
LEMMA RemovedCut ==
    ASSUME NEW f, Exact(f), NEW c \in 0..f.size
    PROVE  Cut(f, c, Removed(f, c))
  <1>0. f \in Ring /\ c \in 0..MaxCount
    BY SMTT(30), Z3T(30), JitterAssumption DEF Exact, Ring
  <1>1. First(f, c) \subseteq Slots
    BY <1>0, FirstFits
  <1>2. {p \in First(f, c) : f.frame[p] = Discarded} = Discards(f) \cap First(f, c)
    BY <1>1 DEF Discards
  <1>3. Removed(f, c) =
          [head |-> Slot(f, c), size |-> f.size - c,
           discarded_num |-> f.discarded_num
                                - Cardinality({p \in First(f, c) : f.frame[p] = Discarded}),
           origin |-> f.origin + c,
           frame |-> [p \in Slots |-> IF p \in First(f, c) THEN Missing ELSE f.frame[p]]]
    <2> DEFINE F == First(f, c)
               n == f.discarded_num - Cardinality({p \in F : f.frame[p] = Discarded})
               fr == [p \in Slots |-> IF p \in F THEN Missing ELSE f.frame[p]]
    <2>1. Removed(f, c) = [f EXCEPT !.discarded_num = n, !.frame = fr, !.origin = f.origin + c,
                                    !.head = (f.head + c) % MaxCount, !.size = f.size - c]
      BY DEF Removed, First
    <2> HIDE DEF F, n, fr
    <2>2. Removed(f, c) = [head |-> Slot(f, c), size |-> f.size - c, discarded_num |-> n,
                           origin |-> f.origin + c, frame |-> fr]
      BY <1>0, <2>1 DEF Ring, Slot
    <2> QED
      BY <2>2 DEF F, n, fr
  <1> DEFINE n == f.discarded_num - Cardinality(Discards(f) \cap First(f, c))
             fr == [p \in Slots |-> IF p \in First(f, c) THEN Missing ELSE f.frame[p]]
             g == Removed(f, c)
  <1>4. g = [head |-> Slot(f, c), size |-> f.size - c, discarded_num |-> n,
             origin |-> f.origin + c, frame |-> fr]
    BY <1>2, <1>3
  <1> HIDE DEF n, fr, g
  <1>5. /\ g.head = Slot(f, c) /\ g.size = f.size - c /\ g.origin = f.origin + c
        /\ g.frame = fr /\ g.discarded_num = n
        /\ g = [head |-> g.head, size |-> g.size, discarded_num |-> g.discarded_num,
                origin |-> g.origin, frame |-> g.frame]
    BY <1>4
  <1>6. Cut(f, c, g)
    BY <1>5 DEF Cut, n, fr
  <1> QED
    BY <1>6 DEF g

\* jb_framelist_remove_head subtracts exactly the discarded frames that leave.
LEMMA RemovedCount ==
    ASSUME NEW f, Exact(f), NEW c \in 0..f.size, NEW g, Cut(f, c, g)
    PROVE  /\ g.discarded_num = Cardinality(Discards(g))
           /\ g.discarded_num \in 0..MaxCount
           /\ f.discarded_num - g.discarded_num \in 0..c
  <1>0. f \in Ring /\ f.size \in 0..MaxCount /\ MaxCount \in Nat \ {0} /\ Missing # Discarded
    BY JitterAssumption DEF Exact, Ring
  <1>1. Discards(g) = Discards(f) \ First(f, c)
    BY <1>0 DEF Discards, Cut
  <1>2. IsFiniteSet(Discards(f)) /\ f.discarded_num \in 0..f.size
    BY DiscardsFit
  <1> DEFINE D == Discards(f)
             F == First(f, c)
  <1>3. IsFiniteSet(F) /\ Cardinality(F) <= c
    BY <1>0, FirstFits DEF F
  <1>4. f.discarded_num = Cardinality(D) /\ g.discarded_num = f.discarded_num - Cardinality(D \cap F)
    BY DEF Exact, Cut
  <1> HIDE DEF D, F
  <1>5. IsFiniteSet(D \ F) /\ Cardinality(D \ F) = Cardinality(D) - Cardinality(D \cap F)
    BY <1>2, FS_Difference DEF D
  <1>6. D \cap F \subseteq F
    OBVIOUS
  <1>7. IsFiniteSet(D \cap F) /\ Cardinality(D \cap F) <= Cardinality(F)
    BY <1>3, <1>6, FS_Subset
  <1>8. Cardinality(D \cap F) \in Nat /\ Cardinality(D) \in Nat /\ Cardinality(D \ F) \in Nat
        /\ Cardinality(F) \in Nat
    BY <1>2, <1>3, <1>5, <1>7, FS_CardinalityType DEF D
  <1>9. g.discarded_num = Cardinality(D \ F)
    BY <1>4, <1>5
  <1> QED
    BY SMTT(30), Z3T(30), <1>0, <1>1, <1>2, <1>3, <1>4, <1>5, <1>7, <1>8, <1>9 DEF D, F

\* jb_framelist_remove_head keeps the ring exact, and the frames that stay in place.
LEMMA RemovedExact ==
    ASSUME NEW f, Exact(f), NEW c \in 0..f.size, NEW g, Cut(f, c, g)
    PROVE  /\ Exact(g)
           /\ \A i \in 0..(g.size - 1) : /\ Slot(g, i) = Slot(f, i + c)
                                         /\ g.frame[Slot(g, i)] = f.frame[Slot(f, i + c)]
  <1>0. /\ f \in Ring /\ f.size \in 0..MaxCount /\ f.head \in 0..(MaxCount - 1)
        /\ f.origin \in Int /\ f.frame \in [Slots -> Int \cup {Missing, Discarded}]
        /\ MaxCount \in Nat \ {0} /\ c \in 0..MaxCount
    BY SMTT(30), Z3T(30), JitterAssumption DEF Exact, Ring, Slots
  <1>1. /\ g.head = Slot(f, c) /\ g.size = f.size - c /\ g.origin = f.origin + c
        /\ g.frame = [p \in Slots |-> IF p \in First(f, c) THEN Missing ELSE f.frame[p]]
    BY DEF Cut
  <1>2. g \in Ring
    <2>1. g.head \in Slots /\ g.size \in 0..MaxCount /\ g.origin \in Int
      BY SMTT(30), Z3T(30), <1>0, <1>1, SlotAt
    <2>2. g.frame \in [Slots -> Int \cup {Missing, Discarded}]
      BY <1>0, <1>1
    <2>3. g.discarded_num \in 0..MaxCount
      BY RemovedCount
    <2>4. g = [head |-> g.head, size |-> g.size, discarded_num |-> g.discarded_num,
               origin |-> g.origin, frame |-> g.frame]
      BY DEF Cut
    <2> QED
      BY <2>1, <2>2, <2>3, <2>4 DEF Ring
  <1>3. \A i \in 0..(g.size - 1) : Slot(g, i) = Slot(f, i + c)
    BY SMTT(30), Z3T(30), <1>0, <1>1, <1>2, SlotAt
  <1>4. \A i \in 0..(g.size - 1) : g.frame[Slot(g, i)] = f.frame[Slot(f, i + c)]
    <2> SUFFICES ASSUME NEW i \in 0..(g.size - 1)
                 PROVE  g.frame[Slot(f, i + c)] = f.frame[Slot(f, i + c)]
      BY <1>3
    <2>1. i + c \in 0..(MaxCount - 1)
      BY SMTT(30), Z3T(30), <1>0, <1>1
    <2>2. Slot(f, i + c) \in Slots /\ Off(f, Slot(f, i + c)) = i + c
      BY SMTT(30), Z3T(30), <1>0, <2>1, SlotAt
    <2>3. Slot(f, i + c) \notin First(f, c)
      BY <1>0, <2>1, <2>2, FirstOff
    <2> QED
      BY <1>1, <2>2, <2>3
  <1>5. ASSUME NEW p \in Slots \ Window(g)  PROVE g.frame[p] = Missing
    <2>1. Off(g, p) >= g.size
      BY SMTT(30), Z3T(30), <1>0, <1>1, <1>2, <1>5, FirstOff, OffOf DEF Window, First
    <2>2. Off(f, p) \in 0..(MaxCount - 1) /\ Off(g, p) \in 0..(MaxCount - 1)
      BY <1>0, <1>2, OffOf
    <2>3. Off(f, p) < c \/ Off(f, p) >= f.size
      <3>1. g.head = IF f.head + c < MaxCount THEN f.head + c ELSE f.head + c - MaxCount
        BY <1>0, <1>1, SlotAt
      <3>2. p \in 0..(MaxCount - 1)
        BY DEF Slots
      <3> QED
        BY SMTT(30), Z3T(30), <1>0, <1>1, <2>1, <3>1, <3>2 DEF Off
    <2>4. CASE Off(f, p) < c
      BY <1>0, <1>1, <2>4, FirstOff
    <2>5. CASE Off(f, p) >= f.size
      <3>1. p \notin Window(f)
        BY SMTT(30), Z3T(30), <1>0, <2>2, <2>5, FirstOff DEF Window, First
      <3> QED
        BY <1>1, <3>1 DEF Exact
    <2> QED
      BY <2>3, <2>4, <2>5
  <1>6. g.size > 0 => g.frame[Slot(g, g.size - 1)] # Missing
    <2>1. ASSUME g.size > 0  PROVE g.frame[Slot(g, g.size - 1)] = f.frame[Slot(f, f.size - 1)]
      <3>1. g.size - 1 \in 0..(g.size - 1) /\ g.size - 1 + c = f.size - 1
        BY SMTT(30), Z3T(30), <1>0, <1>1, <2>1
      <3> QED
        BY <1>4, <3>1
    <2> QED
      BY SMTT(30), Z3T(30), <1>0, <1>1, <2>1 DEF Exact
  <1> QED
    BY <1>2, <1>3, <1>4, <1>5, <1>6, RemovedCount DEF Exact

\* The i-th frame of the window.
At(f, i) == f.frame[Slot(f, i)]

\* g is f without its c oldest frames.
Took(f, c, g) == /\ Exact(g)
                 /\ g.size = f.size - c /\ g.origin = f.origin + c
                 /\ f.discarded_num - g.discarded_num \in 0..c
                 /\ \A i \in 0..(g.size - 1) : At(g, i) = At(f, i + c)

\* The same without the slots: the window without its c oldest frames.
LEMMA RemovedTook ==
    ASSUME NEW f, Exact(f), NEW c \in 0..f.size
    PROVE  Took(f, c, Removed(f, c))
  <1>1. Cut(f, c, Removed(f, c))
    BY RemovedCut
  <1> SUFFICES ASSUME NEW g, Cut(f, c, g)  PROVE Took(f, c, g)
    BY <1>1
  <1>2. g.size = f.size - c /\ g.origin = f.origin + c
    BY DEF Cut
  <1>3. f.discarded_num - g.discarded_num \in 0..c
    BY RemovedCount
  <1>4. Exact(g) /\ \A i \in 0..(g.size - 1) : g.frame[Slot(g, i)] = f.frame[Slot(f, i + c)]
    BY SMTT(30), Z3T(30), RemovedExact
  <1> QED
    BY <1>2, <1>3, <1>4 DEF Took, At

\* jb_framelist_remove_head takes at most what is there.
LEMMA HeadTook ==
    ASSUME NEW f, Exact(f), NEW n \in Nat
    PROVE  /\ Least(n, f.size) \in 0..f.size
           /\ Took(f, Least(n, f.size), jb_framelist_remove_head(f, n))
  <1>1. f.size \in Nat
    BY SMTT(30), Z3T(30), JitterAssumption DEF Exact, Ring
  <1>2. Least(n, f.size) \in 0..f.size
    BY <1>1 DEF Least
  <1> QED
    BY <1>2, RemovedTook DEF jb_framelist_remove_head

-----------------------------------------------------------------------------
\* Writing one slot.
\* g is f with v at a distance d from the start of its window.
Wrote(f, d, v, g) == /\ Exact(g)
                     /\ g.origin = f.origin /\ g.size = Grown(f, d)
                     /\ g.discarded_num = f.discarded_num + (IF v = Discarded THEN 1 ELSE 0)
                     /\ \A i \in 0..(g.size - 1) :
                            At(g, i) = IF i = d THEN v ELSE IF i < f.size THEN At(f, i) ELSE Missing

\* There is nothing at or beyond the end of the window.
LEMMA Outside ==
    ASSUME NEW f, Exact(f), NEW i \in 0..(MaxCount - 1), i >= f.size
    PROVE  At(f, i) = Missing
  <1>0. f \in Ring /\ f.size \in 0..MaxCount /\ MaxCount \in Nat \ {0}
    BY JitterAssumption DEF Exact, Ring
  <1>1. Slot(f, i) \in Slots /\ Off(f, Slot(f, i)) = i
    BY <1>0, SlotAt
  <1>2. Slot(f, i) \notin First(f, f.size)
    BY <1>0, <1>1, FirstOff
  <1> QED
    BY <1>1, <1>2 DEF Exact, At, Window, First

\* How the number of discarded frames changes when one slot is written.
LEMMA WrittenDiscards ==
    ASSUME NEW f, Exact(f), NEW p \in Slots, NEW v \in Int \cup {Discarded},
           f.frame[p] # Discarded,
           NEW g, g.frame = [f.frame EXCEPT ![p] = v]
    PROVE  Cardinality(Discards(g)) = f.discarded_num + (IF v = Discarded THEN 1 ELSE 0)
  <1>0. /\ f.frame \in [Slots -> Int \cup {Missing, Discarded}] /\ f.discarded_num \in Nat
        /\ f.discarded_num = Cardinality(Discards(f)) /\ Discarded \notin Int
    BY SMTT(30), Z3T(30), JitterAssumption DEF Exact, Ring
  <1>1. IsFiniteSet(Discards(f))
    BY DiscardsFit
  <1>2. p \notin Discards(f)
    BY DEF Discards
  <1>3. CASE v = Discarded
    <2>1. Discards(g) = Discards(f) \cup {p}
      BY <1>0, <1>3 DEF Discards
    <2>2. Cardinality(Discards(g)) = Cardinality(Discards(f)) + 1
      BY <1>1, <1>2, <2>1, FS_AddElement
    <2> QED
      BY <1>0, <1>3, <2>2
  <1>4. CASE v # Discarded
    <2>1. Discards(g) = Discards(f)
      BY <1>0, <1>2, <1>4 DEF Discards
    <2> QED
      BY SMTT(30), Z3T(30), <1>0, <1>4, <2>1
  <1> QED
    BY <1>3, <1>4

\* A slot written at or behind the window, with the size and the counter that
\* jb_framelist_put_at and jb_framelist_discard set, keeps the ring exact.
LEMMA WriteExact ==
    ASSUME NEW f, Exact(f), NEW d \in 0..(MaxCount - 1), NEW v \in Int \cup {Discarded},
           At(f, d) # Discarded, At(f, d) # Missing => d < f.size,
           NEW g, g.discarded_num \in 0..MaxCount => g \in Ring,
           g.head = f.head, g.size = Grown(f, d), g.origin = f.origin,
           g.discarded_num = f.discarded_num + (IF v = Discarded THEN 1 ELSE 0),
           g.frame = [f.frame EXCEPT ![Slot(f, d)] = v]
    PROVE  Wrote(f, d, v, g)
  <1>0. /\ f \in Ring /\ f.size \in 0..MaxCount /\ MaxCount \in Nat \ {0} /\ f.head \in Slots
        /\ f.discarded_num \in 0..MaxCount /\ f.origin \in Int
        /\ f.frame \in [Slots -> Int \cup {Missing, Discarded}]
        /\ v # Missing
    BY JitterAssumption DEF Exact, Ring
  <1> DEFINE p == Slot(f, d)
  <1>1. p \in Slots
    BY SMTT(30), Z3T(30), <1>0, SlotAt
  <1>2. Grown(f, d) \in 1..MaxCount /\ Grown(f, d) > d /\ Grown(f, d) >= f.size
        /\ (Grown(f, d) = f.size \/ Grown(f, d) = d + 1)
    BY SMTT(30), Z3T(30), <1>0 DEF Grown
  <1>3. \A i \in 0..MaxCount : Slot(g, i) = Slot(f, i)
    BY DEF Slot
  <1>4. \A i \in 0..(MaxCount - 1) : At(g, i) = IF i = d THEN v ELSE At(f, i)
    <2> SUFFICES ASSUME NEW i \in 0..(MaxCount - 1)
                 PROVE  At(g, i) = IF i = d THEN v ELSE At(f, i)
      OBVIOUS
    <2>1. Slot(f, i) \in Slots /\ Off(f, Slot(f, i)) = i /\ Off(f, Slot(f, d)) = d
      BY SMTT(30), Z3T(30), <1>0, SlotAt
    <2>2. Slot(g, i) = Slot(f, i)
      BY SMTT(30), Z3T(30), <1>0, <1>3
    <2>3. At(g, i) = [f.frame EXCEPT ![p] = v][Slot(f, i)]
      BY <2>2 DEF At
    <2> QED
      BY <1>0, <1>1, <2>1, <2>3 DEF At
  <1>5. g.discarded_num = Cardinality(Discards(g))
    <2>1. g.frame = [f.frame EXCEPT ![p] = v] /\ f.frame[p] # Discarded
      BY DEF At
    <2>2. Cardinality(Discards(g)) = f.discarded_num + (IF v = Discarded THEN 1 ELSE 0)
      BY SMTT(30), Z3T(30), <1>1, <2>1, WrittenDiscards
    <2> QED
      BY <2>2
  <1>6. g \in Ring
    <2>2. Cardinality(Discards(g)) \in Nat /\ Cardinality(Discards(g)) <= MaxCount
      <3>1. IsFiniteSet(Slots) /\ Cardinality(Slots) = MaxCount
        BY SMTT(30), Z3T(30), <1>0, FS_Interval DEF Slots
      <3>2. Discards(g) \subseteq Slots
        BY DEF Discards
      <3> QED
        BY <3>1, <3>2, FS_Subset, FS_CardinalityType
    <2>3. g.discarded_num \in 0..MaxCount
      BY SMTT(30), Z3T(30), <1>0, <1>5, <2>2
    <2> QED
      BY <2>3
  <1>7. ASSUME NEW q \in Slots \ Window(g)  PROVE g.frame[q] = Missing
    <2>1. Off(g, q) \in 0..(MaxCount - 1) /\ Slot(g, Off(g, q)) = q
      BY <1>6, OffOf
    <2>2. Off(g, q) >= g.size
      BY SMTT(30), Z3T(30), <1>0, <1>2, <1>6, <1>7, <2>1 DEF Window
    <2>3. At(g, Off(g, q)) = At(f, Off(g, q))
      BY SMTT(30), Z3T(30), <1>0, <1>2, <1>4, <2>1, <2>2
    <2>4. At(f, Off(g, q)) = Missing
      BY SMTT(30), Z3T(30), <1>0, <1>2, <2>1, <2>2, Outside
    <2> QED
      BY <2>1, <2>3, <2>4 DEF At
  <1>8. At(g, g.size - 1) # Missing
    <2>1. g.size - 1 \in 0..(MaxCount - 1)
      BY SMTT(30), Z3T(30), <1>0, <1>2
    <2>2. CASE g.size = d + 1
      BY SMTT(30), Z3T(30), <1>0, <1>4, <2>1, <2>2
    <2>3. CASE g.size = f.size /\ g.size # d + 1
      <3>1. f.size > 0 /\ At(f, f.size - 1) # Missing
        BY SMTT(30), Z3T(30), <1>0, <1>2, <2>3 DEF Exact, At
      <3> QED
        BY <1>0, <1>4, <2>1, <2>3, <3>1
    <2> QED
      BY <1>2, <2>2, <2>3
  <1>9. Exact(g)
    BY <1>5, <1>6, <1>7, <1>8 DEF Exact, At
  <1>10. \A i \in 0..(g.size - 1) :
            At(g, i) = IF i = d THEN v ELSE IF i < f.size THEN At(f, i) ELSE Missing
    BY SMTT(30), Z3T(30), <1>0, <1>2, <1>4, Outside
  <1> QED
    BY <1>9, <1>10 DEF Wrote

-----------------------------------------------------------------------------
\* Putting a frame.
Stores(f, index, r) == \/ r.f = f /\ r.status = "EEXISTS"
                       \/ r.status = "SUCCESS" /\ Wrote(f, index - f.origin, index, r.f)

\* The end of jb_framelist_put_at: the slot was taken, or has the frame now.
LEMMA StoreStores ==
    ASSUME NEW f, Exact(f), NEW index \in Int, index - f.origin \in 0..(MaxCount - 1)
    PROVE  Stores(f, index, Store(f, index))
  <1>0. /\ f \in Ring /\ f.size \in 0..MaxCount /\ MaxCount \in Nat \ {0} /\ f.origin \in Int
        /\ Missing # Discarded /\ index # Discarded /\ f.discarded_num \in Int
    BY SMTT(30), Z3T(30), JitterAssumption DEF Exact, Ring
  <1> DEFINE d == index - f.origin
             g == [f EXCEPT !.frame[Slot(f, d)] = index, !.size = Grown(f, d)]
  <1>1. CASE f.frame[Slot(f, d)] # Missing
    BY <1>1 DEF Stores, Store
  <1>2. CASE f.frame[Slot(f, d)] = Missing
    <2>1. Store(f, index).f = g /\ Store(f, index).status = "SUCCESS"
      BY <1>2 DEF Store
    <2>2. /\ g \in Ring /\ g.head = f.head /\ g.size = Grown(f, d) /\ g.origin = f.origin
          /\ g.discarded_num = f.discarded_num /\ g.frame = [f.frame EXCEPT ![Slot(f, d)] = index]
      <3> DEFINE p == Slot(f, d)
                 z == Grown(f, d)
      <3>1. p \in Slots /\ z \in 0..MaxCount
        BY SMTT(30), Z3T(30), <1>0, SlotAt DEF Grown
      <3> HIDE DEF p, z
      <3>2. /\ g \in Ring /\ g.head = f.head /\ g.size = z /\ g.origin = f.origin
            /\ g.discarded_num = f.discarded_num /\ g.frame = [f.frame EXCEPT ![p] = index]
        BY <1>0, <3>1 DEF Ring, p, z
      <3> QED
        BY <3>2 DEF p, z
    <2>3. At(f, d) # Discarded /\ ~(At(f, d) # Missing)
      BY <1>0, <1>2 DEF At
    <2> HIDE DEF g, d
    <2>4. d \in 0..(MaxCount - 1)
      BY DEF d
    <2>5. Wrote(f, d, index, g)
      <3>1. f.discarded_num + (IF index = Discarded THEN 1 ELSE 0) = f.discarded_num
        BY <1>0
      <3> QED
        BY <2>2, <2>3, <2>4, <3>1, WriteExact
    <2> QED
      BY <2>1, <2>5 DEF Stores, d
  <1> QED
    BY <1>1, <1>2

\* g is f with the window at another place.
Shifted(f, index, g) ==
    /\ Exact(g)
    /\ g.size = f.size /\ g.discarded_num = f.discarded_num
    /\ g.origin = IF f.size = 0 THEN index ELSE IF index < f.origin THEN index - f.size ELSE f.origin
    /\ \A i \in 0..(f.size - 1) : At(g, i) = At(f, i)

\* The origin of the window does not matter to the ring.
LEMMA MovedExact ==
    ASSUME NEW f, Exact(f), NEW o \in Int, NEW g, g = [f EXCEPT !.origin = o]
    PROVE  /\ Exact(g) /\ g.size = f.size /\ g.discarded_num = f.discarded_num /\ g.origin = o
           /\ \A i \in 0..(f.size - 1) : At(g, i) = At(f, i)
  <1>0. f \in Ring
    BY DEF Exact
  <1>1. g \in Ring /\ g.size = f.size /\ g.discarded_num = f.discarded_num /\ g.origin = o
        /\ g.frame = f.frame /\ g.head = f.head
    BY <1>0 DEF Ring
  <1>2. \A i : Slot(g, i) = Slot(f, i)
    BY <1>1 DEF Slot
  <1>3. Window(g) = Window(f) /\ Discards(g) = Discards(f)
    BY <1>1, <1>2 DEF Window, Discards
  <1>4. Exact(g)
    BY <1>1, <1>2, <1>3 DEF Exact
  <1> QED
    BY <1>1, <1>2, <1>4 DEF At

\* What jb_framelist_put_at does to the origin when the sequence restarts.
LEMMA RebasedShifted ==
    ASSUME NEW f, Exact(f), NEW index \in Int
    PROVE  Shifted(f, index, Rebased(f, index))
  <1>0. f \in Ring /\ f.origin \in Int /\ f.size \in Nat
    BY SMTT(30), Z3T(30), JitterAssumption DEF Exact, Ring
  <1>1. CASE f.size = 0
    BY SMTT(30), Z3T(30), <1>0, <1>1, MovedExact DEF Rebased, Shifted
  <1>2. CASE f.size # 0 /\ index < f.origin
    BY SMTT(30), Z3T(30), <1>0, <1>2, MovedExact DEF Rebased, Shifted
  <1>3. CASE f.size # 0 /\ ~(index < f.origin)
    BY <1>0, <1>3 DEF Rebased, Shifted
  <1> QED
    BY <1>1, <1>2, <1>3

\* A ring that jb_framelist_reset made is exact, wherever it starts.
LEMMA ResetExact ==
    ASSUME NEW o \in Int, NEW e,
           e = [head |-> 0, size |-> 0, discarded_num |-> 0, origin |-> o,
                frame |-> [p \in Slots |-> Missing]]
    PROVE  Exact(e) /\ e.size = 0 /\ e.origin = o
  <1>2. e \in Ring /\ e.size = 0 /\ e.origin = o
    <2> DEFINE fr == [p \in Slots |-> Missing]
    <2>1. 0 \in Slots /\ 0 \in 0..MaxCount
      BY JitterAssumption DEF Slots
    <2>2. fr \in [Slots -> Int \cup {Missing, Discarded}]
      OBVIOUS
    <2>3. e = [head |-> 0, size |-> 0, discarded_num |-> 0, origin |-> o, frame |-> fr]
      OBVIOUS
    <2> HIDE DEF fr
    <2> QED
      BY <2>1, <2>2, <2>3 DEF Ring
  <1>3. Discards(e) = {}
    BY JitterAssumption DEF Discards
  <1>4. \A p \in Slots : e.frame[p] = Missing
    OBVIOUS
  <1>5. e.discarded_num = Cardinality(Discards(e))
    BY <1>3, FS_EmptySet
  <1> QED
    BY <1>2, <1>4, <1>5 DEF Exact

\* The same for the reset of jb_framelist_put_at, behind MAX_DROPOUT.
LEMMA FreshExact ==
    ASSUME NEW o \in Int
    PROVE  LET e == [jb_framelist_reset EXCEPT !.origin = o]
           IN  Exact(e) /\ e.size = 0 /\ e.origin = o
  <1>1. [jb_framelist_reset EXCEPT !.origin = o]
          = [head |-> 0, size |-> 0, discarded_num |-> 0, origin |-> o,
             frame |-> [p \in Slots |-> Missing]]
    BY DEF jb_framelist_reset
  <1> QED
    BY <1>1, ResetExact

\* What jb_framelist_put_at does, case by case.
Puts(f, index, r) ==
    \/ TooLate(f, index) /\ r.f = f /\ r.status = "ETOOSMALL"
    \/ /\ ~TooLate(f, index)
       /\ \E g : /\ Shifted(f, index, g)
                /\ \/ index - g.origin >= MaxCount /\ r.f = g /\ r.status = "ETOOMANY"
                   \/ /\ index - g.origin >= MaxCount
                      /\ \E e : Exact(e) /\ e.size = 0 /\ e.origin = index /\ Stores(e, index, r)
                   \/ index - g.origin \in 0..(MaxCount - 1) /\ Stores(g, index, r)

\* jb_framelist_put_at takes one of the cases of Puts.
LEMMA PutPuts ==
    ASSUME NEW f, Exact(f), NEW index \in Int
    PROVE  Puts(f, index, jb_framelist_put_at(f, index))
  <1> DEFINE g == Rebased(f, index)
             e == [jb_framelist_reset EXCEPT !.origin = index]
             r == jb_framelist_put_at(f, index)
  <1>0. /\ f.size \in 0..MaxCount /\ MaxCount \in Nat \ {0} /\ f.origin \in Int
    BY JitterAssumption DEF Exact, Ring
  <1>1. Shifted(f, index, g)
    BY RebasedShifted
  <1>2. Exact(e) /\ e.size = 0 /\ e.origin = index
    BY FreshExact
  <1>3. r = IF TooLate(f, index) THEN [f |-> f, status |-> "ETOOSMALL"]
            ELSE IF index - g.origin >= MaxCount
            THEN IF index - g.origin > MaxDropout THEN Store(e, index)
                 ELSE [f |-> g, status |-> "ETOOMANY"]
            ELSE Store(g, index)
    BY DEF jb_framelist_put_at
  <1> HIDE DEF g, e, r
  <1>4. index - g.origin \in Nat
    BY <1>0, <1>1 DEF Shifted
  <1>5. CASE TooLate(f, index)
    BY <1>3, <1>5 DEF Puts, r
  <1>6. CASE ~TooLate(f, index) /\ index - g.origin >= MaxCount /\ index - g.origin > MaxDropout
    <2>1. r = Store(e, index)
      BY <1>3, <1>6
    <2>2. index - e.origin \in 0..(MaxCount - 1)
      BY <1>0, <1>2
    <2>3. Stores(e, index, r)
      BY <1>2, <2>1, <2>2, StoreStores
    <2> QED
      BY <1>1, <1>2, <1>6, <2>3 DEF Puts, r
  <1>7. CASE ~TooLate(f, index) /\ index - g.origin >= MaxCount /\ ~(index - g.origin > MaxDropout)
    <2>1. r = [f |-> g, status |-> "ETOOMANY"]
      BY <1>3, <1>7
    <2> QED
      BY <1>1, <1>7, <2>1 DEF Puts, r
  <1>8. CASE ~TooLate(f, index) /\ ~(index - g.origin >= MaxCount)
    <2>1. r = Store(g, index)
      BY <1>3, <1>8
    <2>2. index - g.origin \in 0..(MaxCount - 1)
      BY <1>0, <1>4, <1>8
    <2>3. Stores(g, index, r)
      BY <1>1, <2>1, <2>2, StoreStores DEF Shifted
    <2> QED
      BY <1>1, <1>8, <2>2, <2>3 DEF Puts, r
  <1> QED
    BY <1>5, <1>6, <1>7, <1>8

\* A discarded frame of g is one of f, with the same number or a greater one.
NoNewMarks(f, g) == \A i \in 0..(g.size - 1) : At(g, i) = Discarded =>
                        \E k \in 0..(f.size - 1) : At(f, k) = Discarded /\ g.origin + i <= f.origin + k

\* NoNewMarks is transitive.
LEMMA MarksTrans ==
    ASSUME NEW f, NEW g, NEW h, Exact(f), Exact(g), Exact(h), NoNewMarks(f, g), NoNewMarks(g, h)
    PROVE  NoNewMarks(f, h)
  <1>0. /\ f.size \in Nat /\ g.size \in Nat /\ h.size \in Nat
        /\ f.origin \in Int /\ g.origin \in Int /\ h.origin \in Int
    BY SMTT(30), Z3T(30), JitterAssumption DEF Exact, Ring
  <1> SUFFICES ASSUME NEW i \in 0..(h.size - 1), At(h, i) = Discarded
               PROVE  \E k \in 0..(f.size - 1) : At(f, k) = Discarded /\ h.origin + i <= f.origin + k
    BY DEF NoNewMarks
  <1>1. PICK m \in 0..(g.size - 1) : At(g, m) = Discarded /\ h.origin + i <= g.origin + m
    BY DEF NoNewMarks
  <1>2. PICK k \in 0..(f.size - 1) : At(f, k) = Discarded /\ g.origin + m <= f.origin + k
    BY <1>1 DEF NoNewMarks
  <1> QED
    BY <1>0, <1>1, <1>2

\* Removing frames marks none.
LEMMA TookMarks ==
    ASSUME NEW f, Exact(f), NEW c, c \in 0..f.size, NEW g, Took(f, c, g)
    PROVE  Exact(g) /\ NoNewMarks(f, g)
  <1>0. f.size \in Nat /\ f.origin \in Int
    BY SMTT(30), Z3T(30), JitterAssumption DEF Exact, Ring
  <1>1. Exact(g) /\ g.size = f.size - c /\ g.origin = f.origin + c
    BY DEF Took
  <1>2. ASSUME NEW i \in 0..(g.size - 1), At(g, i) = Discarded
        PROVE  \E k \in 0..(f.size - 1) : At(f, k) = Discarded /\ g.origin + i <= f.origin + k
    <2>1. i + c \in 0..(f.size - 1) /\ g.origin + i <= f.origin + (i + c)
      BY <1>0, <1>1
    <2>2. At(f, i + c) = Discarded
      BY <1>2 DEF Took
    <2> QED
      BY <2>1, <2>2
  <1> QED
    BY <1>1, <1>2 DEF NoNewMarks

\* A restart of the sequence marks none, and moves the marks back only.
LEMMA ShiftMarks ==
    ASSUME NEW f, Exact(f), NEW index \in Int, NEW g, Shifted(f, index, g)
    PROVE  Exact(g) /\ NoNewMarks(f, g)
  <1>0. f.size \in Nat /\ f.origin \in Int
    BY SMTT(30), Z3T(30), JitterAssumption DEF Exact, Ring
  <1>1. g.size = 0 \/ g.origin <= f.origin
    BY <1>0 DEF Shifted
  <1>2. g.origin \in Int /\ g.size = f.size
    BY <1>0 DEF Shifted
  <1>3. ASSUME NEW i \in 0..(g.size - 1), At(g, i) = Discarded
        PROVE  At(f, i) = Discarded /\ g.origin + i <= f.origin + i /\ i \in 0..(f.size - 1)
    BY <1>0, <1>1, <1>2, <1>3 DEF Shifted
  <1> QED
    BY <1>3 DEF NoNewMarks, Shifted

\* Storing a frame marks none.
LEMMA StoreMarks ==
    ASSUME NEW f, Exact(f), NEW index \in Int, NEW r, Stores(f, index, r)
    PROVE  Exact(r.f) /\ NoNewMarks(f, r.f)
  <1>0. f.size \in Nat /\ f.origin \in Int /\ index # Discarded /\ Missing # Discarded
    BY SMTT(30), Z3T(30), JitterAssumption DEF Exact, Ring
  <1>1. CASE r.f = f
    BY <1>0, <1>1 DEF NoNewMarks
  <1>2. CASE Wrote(f, index - f.origin, index, r.f)
    <2>1. Exact(r.f) /\ r.f.origin = f.origin
      BY <1>2 DEF Wrote
    <2>2. ASSUME NEW i \in 0..(r.f.size - 1), At(r.f, i) = Discarded
          PROVE  i \in 0..(f.size - 1) /\ At(f, i) = Discarded
      BY <1>0, <1>2, <2>2 DEF Wrote
    <2>3. \A i \in 0..(r.f.size - 1) : r.f.origin + i <= f.origin + i
      BY <1>0, <2>1
    <2> QED
      BY <2>1, <2>2, <2>3 DEF NoNewMarks
  <1> QED
    BY <1>1, <1>2 DEF Stores

\* jb_framelist_put_at keeps the ring exact whatever it returns, marks no frame, and
\* returns ETOOMANY only for a frame beyond the capacity.
LEMMA PutKeeps ==
    ASSUME NEW f, Exact(f), NEW index \in Int, NEW r, Puts(f, index, r)
    PROVE  /\ Exact(r.f) /\ NoNewMarks(f, r.f)
           /\ r.status = "ETOOMANY" => /\ Shifted(f, index, r.f)
                                       /\ index - r.f.origin >= MaxCount
                                       /\ ~TooLate(f, index)
  <1>0. f.size \in Nat /\ f.origin \in Int
    BY SMTT(30), Z3T(30), JitterAssumption DEF Exact, Ring
  <1>1. CASE r.f = f /\ r.status = "ETOOSMALL"
    BY <1>0, <1>1 DEF NoNewMarks
  <1>2. ASSUME ~TooLate(f, index), NEW g, Shifted(f, index, g), index - g.origin >= MaxCount,
               r.f = g, r.status = "ETOOMANY"
        PROVE  /\ Exact(r.f) /\ NoNewMarks(f, r.f)
               /\ Shifted(f, index, r.f) /\ index - r.f.origin >= MaxCount
    BY <1>2, ShiftMarks
  <1>3. ASSUME NEW e, Exact(e), e.size = 0, Stores(e, index, r)
        PROVE  Exact(r.f) /\ NoNewMarks(f, r.f) /\ r.status # "ETOOMANY"
    <2>1. Exact(r.f) /\ NoNewMarks(e, r.f)
      BY <1>3, StoreMarks
    <2>2. 0..(e.size - 1) = {}
      BY <1>3
    <2>3. NoNewMarks(f, r.f)
      BY <2>1, <2>2 DEF NoNewMarks
    <2> QED
      BY <1>3, <2>1, <2>3 DEF Stores
  <1>4. ASSUME NEW g, Shifted(f, index, g), Stores(g, index, r)
        PROVE  Exact(r.f) /\ NoNewMarks(f, r.f) /\ r.status # "ETOOMANY"
    <2>1. Exact(g) /\ NoNewMarks(f, g)
      BY <1>4, ShiftMarks
    <2>2. Exact(r.f) /\ NoNewMarks(g, r.f)
      BY <1>4, <2>1, StoreMarks
    <2>3. NoNewMarks(f, r.f)
      BY <2>1, <2>2, MarksTrans
    <2> QED
      BY <1>4, <2>2, <2>3 DEF Stores
  <1> QED
    BY <1>1, <1>2, <1>3, <1>4 DEF Puts

\* After one round of remove_head the window has room for the frame.
LEMMA RoomMade ==
    ASSUME NEW f, Exact(f), NEW index \in Int, index - f.origin >= MaxCount,
           NEW h, Took(f, Least(Excess(f, index), f.size), h)
    PROVE  /\ Excess(f, index) \in Nat /\ Least(Excess(f, index), f.size) \in 0..f.size
           /\ h.origin <= index /\ h.origin \in Int /\ h.origin >= f.origin
           /\ h.size = 0 \/ index - h.origin < MaxCount
  <1>0. /\ f.size \in Nat /\ f.origin \in Int /\ MaxCount \in Nat \ {0}
    BY SMTT(30), Z3T(30), JitterAssumption DEF Exact, Ring
  <1>1. Excess(f, index) \in Nat /\ Excess(f, index) = index - f.origin - MaxCount + 1
    BY <1>0 DEF Excess
  <1> DEFINE c == Least(Excess(f, index), f.size)
  <1>2. c \in 0..f.size /\ c <= Excess(f, index) /\ (c = f.size \/ c = Excess(f, index))
    BY <1>0, <1>1 DEF Least
  <1>3. h.size = f.size - c /\ h.origin = f.origin + c
    BY DEF Took
  <1> HIDE DEF c
  <1>4. h.origin <= index /\ h.origin \in Int /\ h.origin >= f.origin
    BY <1>0, <1>1, <1>2, <1>3
  <1>5. h.size = 0 \/ index - h.origin < MaxCount
    BY <1>0, <1>1, <1>2, <1>3
  <1> QED
    BY <1>1, <1>2, <1>4, <1>5 DEF c

\* The loop of put_frame ends after one round, and keeps the ring exact.
LEMMA PlacedKeeps ==
    ASSUME NEW f, Exact(f), NEW index \in Int
    PROVE  /\ Exact(Placed(f, index).f) /\ NoNewMarks(f, Placed(f, index).f)
           /\ Placed(f, index).status # "ETOOMANY"
  <1> DEFINE r == jb_framelist_put_at(f, index)
             h == jb_framelist_remove_head(r.f, Excess(r.f, index))
             s == jb_framelist_put_at(h, index)
  <1>0. MaxCount \in Nat \ {0}
    BY JitterAssumption
  <1>1. Puts(f, index, r)
    BY PutPuts
  <1>2. Placed(f, index) = IF r.status # "ETOOMANY" THEN r ELSE s
    BY DEF Placed
  <1> HIDE DEF r, s
  <1>3. /\ Exact(r.f) /\ NoNewMarks(f, r.f)
        /\ r.status = "ETOOMANY" => index - r.f.origin >= MaxCount
    BY <1>1, PutKeeps
  <1>4. CASE r.status # "ETOOMANY"
    BY <1>2, <1>3, <1>4
  <1>5. CASE r.status = "ETOOMANY"
    <2>0. r.f.size \in Nat /\ r.f.origin \in Int
      BY SMTT(30), Z3T(30), <1>3, JitterAssumption DEF Exact, Ring
    <2>1. Excess(r.f, index) \in Nat
      BY <1>0, <1>3, <1>5, <2>0 DEF Excess
    <2>2. Took(r.f, Least(Excess(r.f, index), r.f.size), h)
      BY <1>3, <2>1, HeadTook
    <2> HIDE DEF h
    <2>3. /\ Least(Excess(r.f, index), r.f.size) \in 0..r.f.size
          /\ h.origin <= index /\ h.origin \in Int
          /\ h.size = 0 \/ index - h.origin < MaxCount
      BY <1>3, <1>5, <2>2, RoomMade
    <2>4. Exact(h) /\ NoNewMarks(r.f, h)
      BY <1>3, <2>2, <2>3, TookMarks
    <2>5. Puts(h, index, s)
      BY <2>4, PutPuts DEF s
    <2>6. /\ Exact(s.f) /\ NoNewMarks(h, s.f)
          /\ s.status = "ETOOMANY" => Shifted(h, index, s.f) /\ index - s.f.origin >= MaxCount
      BY <2>4, <2>5, PutKeeps
    <2>7. NoNewMarks(f, h)
      BY <1>3, <2>4, MarksTrans
    <2>8. NoNewMarks(f, s.f)
      BY <2>4, <2>6, <2>7, MarksTrans
    <2>9. s.status # "ETOOMANY"
      BY <1>0, <2>3, <2>6 DEF Shifted
    <2> QED
      BY <1>2, <1>5, <2>6, <2>8, <2>9
  <1> QED
    BY <1>4, <1>5

-----------------------------------------------------------------------------
\* The frames of the window are in order, and none is n or later.
Ordered(f, n) == /\ (f.origin = Invalid /\ f.size = 0) \/ f.origin \in Nat
                 /\ f.origin + f.size <= n
                 /\ \A i \in 0..(f.size - 1) : At(f, i) \in {Missing, Discarded, f.origin + i}

\* Removing the oldest frames keeps the others in order.
LEMMA TookOrdered ==
    ASSUME NEW f, Exact(f), NEW n \in Nat, Ordered(f, n), NEW c, c \in 0..f.size,
           NEW g, Took(f, c, g)
    PROVE  Ordered(g, n) /\ g.origin >= f.origin
  <1>0. f.size \in Nat /\ f.origin \in Int /\ Invalid \in Int
    BY SMTT(30), Z3T(30), JitterAssumption DEF Exact, Ring
  <1>1. g.size = f.size - c /\ g.origin = f.origin + c
    BY DEF Took
  <1>2. (g.origin = Invalid /\ g.size = 0) \/ g.origin \in Nat
    BY SMTT(30), Z3T(30), <1>0, <1>1 DEF Ordered
  <1>3. g.origin + g.size <= n /\ g.origin >= f.origin
    BY <1>0, <1>1 DEF Ordered
  <1>4. ASSUME NEW i \in 0..(g.size - 1)  PROVE At(g, i) \in {Missing, Discarded, g.origin + i}
    <2>1. i + c \in 0..(f.size - 1) /\ f.origin + (i + c) = g.origin + i
      BY <1>0, <1>1
    <2>2. At(g, i) = At(f, i + c)
      BY DEF Took
    <2> QED
      BY <2>1, <2>2 DEF Ordered
  <1> QED
    BY <1>2, <1>3, <1>4 DEF Ordered

\* A frame that is stored in the window is stored at its number.
LEMMA StoreOrdered ==
    ASSUME NEW f, Exact(f), NEW n \in Nat, Ordered(f, n), f.origin \in Nat,
           NEW index \in Nat, index < n, index - f.origin \in 0..(MaxCount - 1),
           NEW r, Stores(f, index, r)
    PROVE  Ordered(r.f, n) /\ r.f.origin = f.origin
  <1>0. f.size \in Nat /\ MaxCount \in Nat
    BY SMTT(30), Z3T(30), JitterAssumption DEF Exact, Ring
  <1>1. CASE r.f = f
    BY <1>1
  <1>2. CASE Wrote(f, index - f.origin, index, r.f)
    <2> DEFINE d == index - f.origin
               g == r.f
    <2>1. g.origin = f.origin /\ g.size = Grown(f, d)
      BY <1>2 DEF Wrote
    <2>2. g.origin \in Nat /\ g.origin + g.size <= n
      BY <1>0, <2>1 DEF Grown, Ordered
    <2>3. ASSUME NEW i \in 0..(g.size - 1)  PROVE At(g, i) \in {Missing, Discarded, g.origin + i}
      <3>1. At(g, i) = IF i = d THEN index ELSE IF i < f.size THEN At(f, i) ELSE Missing
        BY <1>2 DEF Wrote
      <3>2. i = d => g.origin + i = index
        BY <1>0, <2>1
      <3>3. i < f.size => At(f, i) \in {Missing, Discarded, g.origin + i}
        BY SMTT(30), Z3T(30), <1>0, <2>1, <2>2 DEF Ordered, Grown
      <3> QED
        BY <3>1, <3>2, <3>3
    <2> QED
      BY <2>1, <2>2, <2>3 DEF Ordered
  <1> QED
    BY <1>1, <1>2 DEF Stores

\* jb_framelist_put_at keeps the window in order and never moves it back, if the frame
\* is not so late that it is taken for a restart.
LEMMA PutOrdered ==
    ASSUME NEW f, Exact(f), NEW n \in Nat, Ordered(f, n), NEW index \in Nat, index < n,
           f.origin - index < MaxMisorder, NEW r, Puts(f, index, r)
    PROVE  Ordered(r.f, n) /\ r.f.origin >= f.origin
  <1>0. /\ f.size \in Nat /\ f.origin \in Int /\ MaxCount \in Nat \ {0} /\ Invalid \in Int
        /\ Invalid < 0
    BY SMTT(30), Z3T(30), JitterAssumption DEF Exact, Ring
  <1>1. CASE r.f = f
    BY <1>0, <1>1
  <1>2. ASSUME ~TooLate(f, index), NEW g, Shifted(f, index, g)
        PROVE  Exact(g) /\ Ordered(g, n) /\ g.origin \in Nat /\ g.origin >= f.origin
    <2>1. index >= f.origin
      BY <1>0, <1>2 DEF TooLate
    <2>2. /\ g.size = f.size /\ g.origin = IF f.size = 0 THEN index ELSE f.origin
          /\ g.origin \in Nat /\ g.origin >= f.origin /\ g.origin + g.size <= n
      BY SMTT(30), Z3T(30), <1>0, <1>2, <2>1 DEF Shifted, Ordered
    <2>3. ASSUME NEW i \in 0..(g.size - 1)  PROVE At(g, i) \in {Missing, Discarded, g.origin + i}
      <3>1. g.origin = f.origin /\ i \in 0..(f.size - 1)
        BY <1>0, <2>2
      <3> QED
        BY <1>2, <3>1 DEF Shifted, Ordered
    <2> QED
      BY <1>2, <2>2, <2>3 DEF Shifted, Ordered
  <1>3. ASSUME ~TooLate(f, index), NEW g, Shifted(f, index, g), r.f = g
        PROVE  Ordered(r.f, n) /\ r.f.origin >= f.origin
    BY <1>2, <1>3
  <1>4. ASSUME ~TooLate(f, index), NEW e, Exact(e), e.size = 0, e.origin = index, Stores(e, index, r)
        PROVE  Ordered(r.f, n) /\ r.f.origin >= f.origin
    <2>1. Ordered(e, n) /\ e.origin \in Nat /\ index - e.origin \in 0..(MaxCount - 1)
      BY SMTT(30), Z3T(30), <1>0, <1>4 DEF Ordered
    <2>2. Ordered(r.f, n) /\ r.f.origin = e.origin
      BY <1>4, <2>1, StoreOrdered
    <2> QED
      BY <1>0, <1>4, <2>2 DEF TooLate
  <1>5. ASSUME ~TooLate(f, index), NEW g, Shifted(f, index, g),
               index - g.origin \in 0..(MaxCount - 1), Stores(g, index, r)
        PROVE  Ordered(r.f, n) /\ r.f.origin >= f.origin
    <2>1. Exact(g) /\ Ordered(g, n) /\ g.origin \in Nat /\ g.origin >= f.origin
      BY <1>2, <1>5
    <2>2. Ordered(r.f, n) /\ r.f.origin = g.origin
      BY <1>5, <2>1, StoreOrdered
    <2> QED
      BY <2>1, <2>2
  <1> QED
    BY <1>1, <1>3, <1>4, <1>5 DEF Puts

\* The same for the loop of put_frame.
LEMMA PlacedOrdered ==
    ASSUME NEW f, Exact(f), NEW n \in Nat, Ordered(f, n), NEW index \in Nat, index < n,
           f.origin - index < MaxMisorder
    PROVE  Ordered(Placed(f, index).f, n) /\ Placed(f, index).f.origin >= f.origin
  <1> DEFINE r == jb_framelist_put_at(f, index)
             h == jb_framelist_remove_head(r.f, Excess(r.f, index))
             s == jb_framelist_put_at(h, index)
  <1>0. MaxCount \in Nat \ {0} /\ MaxMisorder \in Nat \ {0} /\ index \in Int /\ f.origin \in Int
    BY SMTT(30), Z3T(30), JitterAssumption DEF Exact, Ring
  <1>1. Puts(f, index, r)
    BY <1>0, PutPuts
  <1>2. Placed(f, index) = IF r.status # "ETOOMANY" THEN r ELSE s
    BY DEF Placed
  <1> HIDE DEF r, s
  <1>3. Exact(r.f) /\ (r.status = "ETOOMANY" => index - r.f.origin >= MaxCount)
    BY <1>0, <1>1, PutKeeps
  <1>4. Ordered(r.f, n) /\ r.f.origin >= f.origin
    BY <1>1, PutOrdered
  <1>5. CASE r.status # "ETOOMANY"
    BY <1>2, <1>4, <1>5
  <1>6. CASE r.status = "ETOOMANY"
    <2>0. r.f.size \in Nat /\ r.f.origin \in Int
      BY SMTT(30), Z3T(30), <1>3, JitterAssumption DEF Exact, Ring
    <2>1. Excess(r.f, index) \in Nat
      BY <1>0, <1>3, <1>6, <2>0 DEF Excess
    <2>2. Took(r.f, Least(Excess(r.f, index), r.f.size), h)
      BY <1>3, <2>1, HeadTook
    <2> HIDE DEF h
    <2>3. /\ Least(Excess(r.f, index), r.f.size) \in 0..r.f.size
          /\ h.origin <= index /\ h.origin \in Int /\ h.origin >= r.f.origin
      BY <1>0, <1>3, <1>6, <2>2, RoomMade
    <2>4. Exact(h)
      BY <2>2 DEF Took
    <2>5. Ordered(h, n)
      BY <1>3, <1>4, <2>2, <2>3, TookOrdered
    <2>6. Puts(h, index, s)
      BY <1>0, <2>4, PutPuts DEF s
    <2>7. h.origin - index < MaxMisorder
      BY <1>0, <2>3
    <2>8. Ordered(s.f, n) /\ s.f.origin >= h.origin /\ Exact(s.f)
      BY <1>0, <2>4, <2>5, <2>6, <2>7, PutOrdered, PutKeeps
    <2>9. s.f.origin \in Int
      BY <2>8 DEF Exact, Ring
    <2> QED
      BY <1>0, <1>2, <1>4, <1>6, <2>0, <2>3, <2>8, <2>9
  <1> QED
    BY <1>5, <1>6

-----------------------------------------------------------------------------
\* Discarding, and getting, a frame.

\* jb_framelist_discard marks one slot of the window, and counts it.
LEMMA DiscardWrote ==
    ASSUME NEW f, Exact(f), NEW index \in Int, f.origin <= index, index < f.origin + f.size,
           At(f, index - f.origin) # Discarded
    PROVE  Wrote(f, index - f.origin, Discarded, jb_framelist_discard(f, index))
  <1>0. /\ f \in Ring /\ f.size \in 0..MaxCount /\ MaxCount \in Nat \ {0} /\ f.origin \in Int
        /\ f.discarded_num \in Int
    BY SMTT(30), Z3T(30), JitterAssumption DEF Exact, Ring
  <1> DEFINE d == index - f.origin
             p == Slot(f, d)
             g == [f EXCEPT !.frame[p] = Discarded, !.discarded_num = f.discarded_num + 1]
  <1>1. jb_framelist_discard(f, index) = g
    BY <1>0 DEF jb_framelist_discard
  <1>2. d \in 0..(MaxCount - 1) /\ d < f.size /\ Grown(f, d) = f.size
    BY <1>0 DEF Grown
  <1> HIDE DEF d
  <1>3. p \in Slots
    BY SMTT(30), Z3T(30), <1>0, <1>2, SlotAt
  <1> HIDE DEF p
  <1>4. /\ g.discarded_num \in 0..MaxCount => g \in Ring
        /\ g.head = f.head /\ g.size = f.size /\ g.origin = f.origin
        /\ g.discarded_num = f.discarded_num + 1 /\ g.frame = [f.frame EXCEPT ![p] = Discarded]
    BY <1>0, <1>3 DEF Ring
  <1> HIDE DEF g
  <1>5. Wrote(f, d, Discarded, g)
    <2>1. f.discarded_num + (IF Discarded = Discarded THEN 1 ELSE 0) = f.discarded_num + 1
      OBVIOUS
    <2>2. At(f, d) # Discarded
      BY DEF d
    <2>3. g.frame = [f.frame EXCEPT ![Slot(f, d)] = Discarded]
      BY <1>4 DEF p
    <2>4. Discarded \in Int \cup {Discarded} /\ g.size = Grown(f, d)
      BY <1>2, <1>4
    <2> QED
      BY <1>2, <1>4, <2>1, <2>2, <2>3, <2>4, WriteExact
  <1> QED
    BY <1>1, <1>5 DEF d

\* Marking a frame keeps the window in order.
LEMMA MarkOrdered ==
    ASSUME NEW f, Exact(f), NEW n, Ordered(f, n), NEW d \in Int, d < f.size, NEW g, Wrote(f, d, Discarded, g)
    PROVE  Ordered(g, n) /\ g.origin = f.origin
  <1>0. f.size \in Nat /\ f.origin \in Int
    BY SMTT(30), Z3T(30), JitterAssumption DEF Exact, Ring
  <1>1. g.size = f.size /\ g.origin = f.origin
    BY <1>0 DEF Wrote, Grown
  <1>2. \A i \in 0..(f.size - 1) : At(g, i) = Discarded \/ At(g, i) = At(f, i)
    BY <1>0, <1>1 DEF Wrote
  <1> QED
    BY <1>1, <1>2 DEF Ordered

\* Removing some frames and then one more is removing one more.
LEMMA TookTwice ==
    ASSUME NEW f, Exact(f), NEW c, c \in 0..f.size, NEW g, Took(f, c, g),
           g.size > 0, NEW h, Took(g, 1, h)
    PROVE  c + 1 \in 0..f.size /\ Took(f, c + 1, h)
  <1>0. /\ f.size \in Nat /\ f.origin \in Int /\ f.discarded_num \in Int
        /\ g.discarded_num \in Int /\ h.discarded_num \in Int
    BY SMTT(30), Z3T(30), JitterAssumption DEF Exact, Ring, Took
  <1>1. g.size = f.size - c /\ g.origin = f.origin + c /\ h.size = g.size - 1 /\ h.origin = g.origin + 1
    BY DEF Took
  <1>2. c + 1 \in 0..f.size /\ h.size = f.size - (c + 1) /\ h.origin = f.origin + (c + 1)
    BY <1>0, <1>1
  <1>3. f.discarded_num - h.discarded_num \in 0..(c + 1)
    BY <1>0 DEF Took
  <1>4. ASSUME NEW i \in 0..(h.size - 1)  PROVE At(h, i) = At(f, i + (c + 1))
    <2>1. i + 1 \in 0..(g.size - 1) /\ (i + 1) + c = i + (c + 1)
      BY <1>0, <1>1
    <2>2. At(h, i) = At(g, i + 1) /\ At(g, i + 1) = At(f, (i + 1) + c)
      BY <2>1 DEF Took
    <2> QED
      BY <2>1, <2>2
  <1> QED
    BY <1>2, <1>3, <1>4 DEF Took

\* The discarded frames that jb_framelist_get skips are in the window; if it skips
\* none, the oldest frame is not a discarded one.
LEMMA LeadingFits ==
    ASSUME NEW f, Exact(f)
    PROVE  /\ Leading(f) \in 0..f.size
           /\ Leading(f) = 0 /\ f.size > 0 => At(f, 0) # Discarded
  <1> DEFINE L == {k \in 0..(f.size - 1) : \A i \in 0..k : f.frame[Slot(f, i)] = Discarded}
  <1>0. f.size \in Nat
    BY SMTT(30), Z3T(30), JitterAssumption DEF Exact, Ring
  <1>1. IsFiniteSet(0..(f.size - 1)) /\ Cardinality(0..(f.size - 1)) = f.size
    <2> DEFINE n == f.size
    <2>1. n \in Nat
      BY <1>0
    <2> HIDE DEF n
    <2>2. n - 1 \in Int /\ 0 \in Int /\ (IF 0 > n - 1 THEN 0 ELSE (n - 1) - 0 + 1) = n
      BY <2>1
    <2>3. IsFiniteSet(0..(n - 1)) /\ Cardinality(0..(n - 1)) = IF 0 > n - 1 THEN 0 ELSE (n - 1) - 0 + 1
      BY <2>2, FS_Interval
    <2>4. Cardinality(0..(n - 1)) = n
      BY <2>2, <2>3
    <2> QED
      BY <2>3, <2>4 DEF n
  <1>2. L \subseteq 0..(f.size - 1)
    OBVIOUS
  <1>3. At(f, 0) = Discarded /\ f.size > 0 => 0 \in L
    BY <1>0 DEF At
  <1>4. Leading(f) = Cardinality(L)
    BY DEF Leading
  <1> HIDE DEF L
  <1>5. IsFiniteSet(L) /\ Cardinality(L) <= f.size /\ Cardinality(L) \in Nat
    BY ZenonT(120), SMTT(30), <1>1, <1>2, FS_Subset, FS_CardinalityType
  <1>6. Cardinality(L) = 0 => L = {}
    BY <1>5, FS_EmptySet
  <1> QED
    BY <1>0, <1>3, <1>4, <1>5, <1>6

\* What jb_framelist_get does: some of the oldest frames go, and a frame is
\* played only if it was the oldest one.
Gets(f, r) == \E c \in 0..f.size :
                 /\ Took(f, c, r.f)
                 /\ r.frame = "normal" => /\ f.size > 0 /\ c = 1 /\ r.seq = At(f, 0)
                                          /\ At(f, 0) \notin {Missing, Discarded}

\* What jb_framelist_get does is one of the cases of Gets.
LEMMA GotGets ==
    ASSUME NEW f, Exact(f)
    PROVE  Gets(f, Got(f))
  <1> DEFINE k == Leading(f)
             g == jb_framelist_remove_head(f, k)
             h == jb_framelist_remove_head(g, 1)
             r == Got(f)
  <1>0. f.size \in Nat
    BY SMTT(30), Z3T(30), JitterAssumption DEF Exact, Ring
  <1>1. k \in 0..f.size /\ (k = 0 /\ f.size > 0 => At(f, 0) # Discarded)
    BY LeadingFits
  <1>2. r = [f |-> IF g.size = 0 THEN g ELSE h,
             frame |-> IF g.size = 0 THEN "empty"
                       ELSE IF k > 0 \/ g.frame[g.head] = Missing THEN "missing"
                       ELSE "normal",
             seq |-> IF g.size = 0 THEN Invalid ELSE g.frame[g.head]]
    BY DEF Got
  <1> HIDE DEF k, r
  <1>3. Took(f, k, g)
    <2>1. Least(k, f.size) = k /\ k \in Nat
      BY <1>0, <1>1 DEF Least
    <2> QED
      BY <2>1, HeadTook
  <1> HIDE DEF g
  <1>4. Exact(g) /\ g \in Ring /\ g.size = f.size - k /\ g.size \in Nat /\ g.head \in Slots
    BY SMTT(30), Z3T(30), <1>3, JitterAssumption DEF Took, Exact, Ring
  <1>5. CASE g.size = 0
    BY <1>1, <1>2, <1>3, <1>5 DEF Gets, r
  <1>6. CASE g.size # 0
    <2>1. Least(1, g.size) = 1
      BY <1>4, <1>6 DEF Least
    <2>2. Took(g, 1, h)
      BY <1>4, <2>1, HeadTook
    <2> HIDE DEF h
    <2>3. k + 1 \in 0..f.size /\ Took(f, k + 1, h)
      BY <1>1, <1>3, <1>4, <1>6, <2>2, TookTwice
    <2>4. At(g, 0) = g.frame[g.head]
      <3>1. Slot(g, 0) = g.head
        BY <1>4, JitterAssumption, SlotAt DEF Slots
      <3> QED
        BY <3>1 DEF At
    <2>5. r.f = h /\ r.seq = At(g, 0) /\ (r.frame = "normal" => ~(k > 0) /\ At(g, 0) # Missing)
      BY <1>2, <1>6, <2>4
    <2>6. ASSUME r.frame = "normal"
          PROVE  /\ f.size > 0 /\ k + 1 = 1 /\ r.seq = At(f, 0)
                 /\ At(f, 0) \notin {Missing, Discarded}
      <3>1. k = 0
        BY <1>1, <2>5, <2>6
      <3>2. 0 \in 0..(g.size - 1) /\ 0 + k = 0
        <4> HIDE DEF h
        <4>1. g.size > 0
          BY <1>4, <1>6
        <4> QED
          BY <1>4, <3>1, <4>1
      <3>3. At(g, 0) = At(f, 0)
        BY <1>3, <3>2 DEF Took
      <3> QED
        <4>1. f.size > 0
          BY <1>0, <1>4, <1>6, <3>1
        <4> QED
          BY <1>1, <2>5, <2>6, <3>1, <3>3, <4>1
    <2> QED
      BY <2>3, <2>5, <2>6 DEF Gets, r
  <1> QED
    BY <1>5, <1>6

-----------------------------------------------------------------------------
\* The levels.
JB == [level : Nat, max_hist_level : Nat, stable_hist : Nat, last_op : {"init", "put", "get"},
       eff_level : Nat, prefetch : Nat, prefetching : BOOLEAN,
       status : {"initializing", "processing"}, init_cycle_cnt : Nat,
       discard_ref : Int, discard_dist : Nat]

\* The settings of the prefetch.
Settings == /\ conf.prefetch \in Nat /\ conf.init_prefetch \in Nat
            /\ conf.min_prefetch \in Nat /\ conf.max_prefetch \in Nat

\* The discarding states and the last operation are the same.
Alike(j, k) == /\ k \in JB /\ k.discard_ref = j.discard_ref /\ k.discard_dist = j.discard_dist
               /\ k.last_op = j.last_op /\ k.status = j.status
               /\ k.init_cycle_cnt = j.init_cycle_cnt

\* Clearing the history of the levels leaves the discarding states alone.
LEMMA HistoryCleared ==
    ASSUME NEW m \in JB
    PROVE  Alike(m, [m EXCEPT !.max_hist_level = 0, !.stable_hist = 0])
  BY DEF JB, Alike

\* The last operation is oper, the discarding states are the same.
Now(m, oper, s) == /\ s \in JB /\ s.last_op = oper
                   /\ s.discard_ref = m.discard_ref /\ s.discard_dist = m.discard_dist

\* So does the end of jbuf_update for a switch of the operation.
LEMMA LastOpSet ==
    ASSUME NEW m \in JB, NEW oper \in {"put", "get"}, NEW c \in Nat
    PROVE  Now(m, oper, [m EXCEPT !.last_op = oper, !.level = 0, !.init_cycle_cnt = c])
  BY DEF JB, Now

\* So does a new effective level, with the prefetch that follows it.
LEMMA LevelAlike ==
    ASSUME Settings, NEW j \in JB, NEW level \in Nat
    PROVE  Alike(j, WithLevel(j, level))
  <1>1. Clamp(level) \in Nat
    BY DEF Settings, Clamp, Most, Least
  <1> DEFINE p == IF conf.init_prefetch # 0 THEN Clamp(level) ELSE j.prefetch
  <1>2. p \in Nat
    BY <1>1 DEF JB
  <1>3. WithLevel(j, level) = [j EXCEPT !.eff_level = level, !.prefetch = p]
    BY DEF WithLevel
  <1> HIDE DEF p
  <1> QED
    BY <1>2, <1>3 DEF JB, Alike

\* So does jbuf_calculate_jitter.
LEMMA JitterAlike ==
    ASSUME Settings, NEW j \in JB
    PROVE  Alike(j, jbuf_calculate_jitter(j))
  <1> DEFINE h == [j EXCEPT !.max_hist_level = Most(j.max_hist_level, j.level)]
             hist == h.stable_hist + 1
             diff == Most(1, (h.eff_level - h.max_hist_level) \div 3)
             down == WithLevel(h, h.eff_level - diff)
             up == WithLevel(h, Least(h.max_hist_level, (MaxCount * 4) \div 5))
  <1>1. h \in JB /\ Alike(j, h)
    <2>1. Most(j.max_hist_level, j.level) \in Nat
      BY DEF JB, Most
    <2> QED
      BY <2>1 DEF JB, Alike
  <1>2. jbuf_calculate_jitter(j) =
          IF h.level < h.eff_level
          THEN IF hist > StableLimit
               THEN [down EXCEPT !.max_hist_level = 0, !.stable_hist = 0]
               ELSE [h EXCEPT !.stable_hist = hist]
          ELSE IF h.level > h.eff_level THEN [up EXCEPT !.stable_hist = 0]
          ELSE [h EXCEPT !.stable_hist = 0]
    BY DEF jbuf_calculate_jitter
  <1> HIDE DEF h
  <1>3. h.level \in Nat /\ h.eff_level \in Nat /\ h.max_hist_level \in Nat /\ h.stable_hist \in Nat
    BY <1>1 DEF JB
  <1>4. h.level < h.eff_level => h.eff_level - diff \in Nat
    BY <1>3 DEF Most
  <1>5. Least(h.max_hist_level, (MaxCount * 4) \div 5) \in Nat
    BY <1>3, JitterAssumption DEF Least
  <1>6. hist \in Nat
    BY <1>3
  <1>7. h.level < h.eff_level => Alike(h, down)
    BY <1>1, <1>4, LevelAlike
  <1>8. Alike(h, up)
    BY <1>1, <1>5, LevelAlike
  <1> HIDE DEF hist, diff, down, up
  <1>9. CASE h.level < h.eff_level /\ hist > StableLimit
    <2>1. jbuf_calculate_jitter(j) = [down EXCEPT !.max_hist_level = 0, !.stable_hist = 0]
      BY <1>2, <1>9
    <2>2. Alike(down, jbuf_calculate_jitter(j))
      BY ZenonT(120), SMTT(30), <1>7, <1>9, <2>1, HistoryCleared DEF Alike
    <2> QED
      BY <1>1, <1>7, <1>9, <2>2 DEF Alike
  <1>10. CASE h.level < h.eff_level /\ ~(hist > StableLimit)
    BY ZenonT(120), SMTT(30), <1>1, <1>2, <1>6, <1>10 DEF Alike, JB
  <1>11. CASE ~(h.level < h.eff_level) /\ h.level > h.eff_level
    <2>1. jbuf_calculate_jitter(j) = [up EXCEPT !.stable_hist = 0]
      BY <1>2, <1>11
    <2>2. Alike(up, jbuf_calculate_jitter(j))
      BY SMTT(30), Z3T(30), <1>8, <2>1 DEF Alike, JB
    <2> QED
      BY <1>1, <1>8, <2>2 DEF Alike
  <1>12. CASE ~(h.level < h.eff_level) /\ ~(h.level > h.eff_level)
    BY SMTT(30), Z3T(30), <1>1, <1>2, <1>12 DEF Alike, JB
  <1> QED
    BY <1>9, <1>10, <1>11, <1>12

\* The part of jbuf_update for a switch of the operation, as a whole.
LEMMA SwitchedKeeps ==
    ASSUME Settings, NEW j \in JB, NEW oper \in {"put", "get"}
    PROVE  Now(j, oper, Switched(j, oper))
  <1> DEFINE cnt == j.init_cycle_cnt + 1
             begins == j.status = "initializing" /\ cnt >= InitCycle /\ oper = "get"
             k == IF begins THEN [j EXCEPT !.status = "processing", !.level = Least(j.level, MaxBurst)] ELSE j
             calc == k.status = "processing" /\ oper = "get" /\ k.level <= MaxBurst
             m == IF calc THEN jbuf_calculate_jitter(k) ELSE k
             c == IF j.status = "initializing" THEN cnt ELSE m.init_cycle_cnt
  <1>1. Switched(j, oper) = [m EXCEPT !.last_op = oper, !.level = 0, !.init_cycle_cnt = c]
    BY DEF Switched
  <1>2. /\ k \in JB /\ k.discard_ref = j.discard_ref /\ k.discard_dist = j.discard_dist
    <2>1. Least(j.level, MaxBurst) \in Nat
      BY JitterAssumption DEF JB, Least
    <2> HIDE DEF begins
    <2> QED
      BY <2>1 DEF JB
  <1> HIDE DEF k, begins
  <1>3. m \in JB /\ m.discard_ref = j.discard_ref /\ m.discard_dist = j.discard_dist
    BY <1>2, JitterAlike DEF Alike
  <1> HIDE DEF m, calc
  <1>4. c \in Nat
    BY SMTT(30), Z3T(30), <1>3 DEF JB
  <1> HIDE DEF c
  <1>5. Now(m, oper, Switched(j, oper))
    BY ZenonT(120), SMTT(30), <1>1, <1>3, <1>4, LastOpSet
  <1> QED
    BY <1>3, <1>5 DEF Now

-----------------------------------------------------------------------------
\* Discarding.  Only the progressive algorithm marks frames, and as long as it
\* is at work none behind its reference frame.
Behind(f, j) == \A i \in 0..(f.size - 1) : At(f, i) = Discarded =>
                    /\ conf.algo = "progressive"
                    /\ j.discard_dist = 0 \/ f.origin + i <= j.discard_ref

\* g is in order if f is, and starts no earlier.
Later(f, g) == \A n \in Nat : Ordered(f, n) => Ordered(g, n) /\ g.origin >= f.origin

\* The ring and the other states belong together.
Sound(f, j) == Exact(f) /\ j \in JB /\ Behind(f, j)

\* What an update of the ring f does to it and to the other states.
Updates(f, oper, b) == Sound(b.f, b.j) /\ b.j.last_op = oper /\ Later(f, b.f)

\* Later is reflexive.
LEMMA LaterSame == ASSUME NEW f, Exact(f)  PROVE Later(f, f)
  BY SMTT(30), Z3T(30) DEF Later, Exact, Ring

\* Removing the oldest frames moves the window on.
LEMMA TookLater ==
    ASSUME NEW f, Exact(f), NEW c, c \in 0..f.size, NEW g, Took(f, c, g)
    PROVE  Later(f, g)
  BY TookOrdered DEF Later

\* If no frame is marked anew, the marks stay behind the reference frame.
LEMMA BehindKept ==
    ASSUME NEW f, NEW g, NEW j \in JB, NEW k, Exact(f), Exact(g), NoNewMarks(f, g), Behind(f, j),
           \/ k.discard_ref = j.discard_ref /\ k.discard_dist = j.discard_dist
           \/ k.discard_dist = 0
           \/ conf.algo # "progressive"
    PROVE  Behind(g, k)
  <1>0. /\ f.size \in Nat /\ g.size \in Nat /\ f.origin \in Int /\ g.origin \in Int
        /\ j.discard_ref \in Int
    BY SMTT(30), Z3T(30), JitterAssumption DEF Exact, Ring, JB
  <1> SUFFICES ASSUME NEW i \in 0..(g.size - 1), At(g, i) = Discarded
               PROVE  /\ conf.algo = "progressive"
                      /\ k.discard_dist = 0 \/ g.origin + i <= k.discard_ref
    BY DEF Behind
  <1>1. PICK m \in 0..(f.size - 1) : At(f, m) = Discarded /\ g.origin + i <= f.origin + m
    BY DEF NoNewMarks
  <1>2. conf.algo = "progressive" /\ (j.discard_dist = 0 \/ f.origin + m <= j.discard_ref)
    BY <1>1 DEF Behind
  <1> QED
    BY <1>0, <1>1, <1>2

\* NoNewMarks is reflexive.
LEMMA MarksSame == ASSUME NEW f, Exact(f)  PROVE NoNewMarks(f, f)
  BY SMTT(30), Z3T(30), JitterAssumption DEF NoNewMarks, Exact, Ring

\* jbuf_discard_static removes at most the oldest frame.
LEMMA StaticUpdates ==
    ASSUME NEW f, NEW j, Sound(f, j), conf.algo = "static"
    PROVE  Updates(f, j.last_op, jbuf_discard_static([f |-> f, j |-> j]))
  <1> DEFINE b == [f |-> f, j |-> j]
             ref == Least(j.discard_ref, f.origin)
             g == jb_framelist_remove_head(f, 1)
             r == jbuf_discard_static(b)
             k1 == [j EXCEPT !.discard_ref = g.origin]
             k2 == [j EXCEPT !.discard_ref = ref]
  <1>0. /\ Exact(f) /\ j \in JB /\ Behind(f, j) /\ f.origin \in Int
        /\ j.discard_ref \in Int /\ conf.algo # "progressive"
    BY DEF Sound, Exact, Ring, JB
  <1>1. \/ r.f = f /\ r.j = j
        \/ r.f = g /\ r.j = k1
        \/ r.f = f /\ r.j = k2
    BY DEF jbuf_discard_static
  <1> HIDE DEF r
  <1>2. Least(1, f.size) \in 0..f.size /\ Took(f, Least(1, f.size), g)
    BY <1>0, HeadTook
  <1> HIDE DEF g
  <1>3. Exact(g) /\ NoNewMarks(f, g) /\ Later(f, g)
    BY <1>0, <1>2, TookMarks, TookLater
  <1>4. k1 \in JB /\ k1.last_op = j.last_op
    <2>1. g.origin \in Int
      BY <1>3 DEF Exact, Ring
    <2> QED
      BY <1>0, <2>1 DEF JB
  <1>5. k2 \in JB /\ k2.last_op = j.last_op
    <2>1. ref \in Int
      BY <1>0 DEF Least
    <2> HIDE DEF ref
    <2> QED
      BY <1>0, <2>1 DEF JB
  <1> HIDE DEF k1, k2
  <1>6. Behind(g, k1) /\ Behind(f, k2)
    BY <1>0, <1>3, BehindKept, MarksSame
  <1>7. CASE r.f = f /\ r.j = j
    BY <1>0, <1>7, LaterSame DEF Updates, Sound, r
  <1>8. CASE r.f = g /\ r.j = k1
    BY <1>3, <1>4, <1>6, <1>8 DEF Updates, Sound, r
  <1>9. CASE r.f = f /\ r.j = k2
    BY <1>0, <1>5, <1>6, <1>9, LaterSame DEF Updates, Sound, r
  <1> QED
    BY <1>1, <1>7, <1>8, <1>9

\* The integer quotient is an integer.
LEMMA Quotient == ASSUME NEW a \in Int, NEW b \in Nat \ {0}  PROVE a \div b \in Int
  OBVIOUS

\* The distance to the next frame to discard is at least one, whatever the burst level.
LEMMA DistanceAhead ==
    ASSUME NEW burst_level \in Nat, NEW n \in Nat \ {0},
           NEW dist, dist = Most(MinGap, Duration(burst_level) \div n)
    PROVE  dist \in Nat /\ dist >= 1
  <1>0. /\ MinGap \in Nat \ {0} /\ MinBurst \in Int /\ ProMaxBurst \in Int
        /\ T1 \in Int /\ T2 \in Int
    BY JitterAssumption
  <1>1. Duration(burst_level) \in Int
    <2> DEFINE a == (T2 - T1) * (burst_level - MinBurst)
               w == ProMaxBurst - MinBurst
    <2>1. a \in Int
      BY <1>0
    <2>2. ASSUME ~(burst_level <= MinBurst), ~(burst_level >= ProMaxBurst)  PROVE w \in Nat \ {0}
      BY <1>0, <2>2
    <2>3. Duration(burst_level) = IF burst_level <= MinBurst THEN T1
                                  ELSE IF burst_level >= ProMaxBurst THEN T2
                                  ELSE T1 + a \div w
      BY DEF Duration
    <2> HIDE DEF a, w
    <2>4. w \in Nat \ {0} => a \div w \in Int
      BY <2>1, Quotient
    <2> QED
      BY <1>0, <2>2, <2>3, <2>4
  <1>2. Duration(burst_level) \div n \in Int
    BY <1>1, Quotient
  <1> DEFINE q == Duration(burst_level) \div n
  <1> HIDE DEF q
  <1>3. q \in Int /\ dist = Most(MinGap, q)
    BY <1>2 DEF q
  <1> QED
    BY <1>0, <1>3 DEF Most

\* The frame that jbuf_discard_progressive picks is ahead of all that it marked
\* before, so that no frame is marked, and counted, twice.
LEMMA ProgressiveMarks ==
    ASSUME NEW f, NEW j, Sound(f, j), conf.algo = "progressive", f.size > 0,
           NEW ref, NEW dist \in Nat, dist >= 1, NEW seq,
           ref = (IF j.discard_dist = 0 THEN f.origin + f.size - 1
                                        ELSE Least(j.discard_ref, f.origin + f.size - 1)),
           seq = Most(ref + dist, f.origin), f.origin + f.size - 1 >= ref + dist
    PROVE  Updates(f, j.last_op, [f |-> jb_framelist_discard(f, seq),
                                  j |-> [j EXCEPT !.discard_ref = seq, !.discard_dist = dist]])
  <1>0. /\ Exact(f) /\ j \in JB /\ Behind(f, j) /\ f.origin \in Int /\ f.size \in Nat
        /\ j.discard_ref \in Int /\ j.discard_dist \in Nat
    BY SMTT(30), Z3T(30), JitterAssumption DEF Sound, Exact, Ring, JB
  <1>1. ref \in Int /\ ref <= f.origin + f.size - 1
    BY <1>0 DEF Least
  <1>2. seq \in Int /\ seq > ref /\ f.origin <= seq /\ seq < f.origin + f.size
    <2>1. f.origin > ref \/ ref + dist >= f.origin
      BY <1>0, <1>1
    <2> QED
      BY <1>0, <1>1, <2>1 DEF Most
  <1>3. \A i \in 0..(f.size - 1) : At(f, i) = Discarded => f.origin + i <= ref
    <2> SUFFICES ASSUME NEW i \in 0..(f.size - 1), At(f, i) = Discarded
                 PROVE  f.origin + i <= ref
      OBVIOUS
    <2>1. j.discard_dist = 0 \/ f.origin + i <= j.discard_ref
      BY <1>0 DEF Behind
    <2> QED
      BY <1>0, <2>1 DEF Least
  <1> DEFINE d == seq - f.origin
             g == jb_framelist_discard(f, seq)
             k == [j EXCEPT !.discard_ref = seq, !.discard_dist = dist]
  <1>4. d \in 0..(f.size - 1) /\ f.origin + d = seq /\ d < f.size /\ d \in Int
    BY <1>0, <1>2
  <1>5. At(f, d) # Discarded
    BY <1>0, <1>1, <1>2, <1>3, <1>4
  <1>6. Wrote(f, d, Discarded, g)
    BY <1>0, <1>2, <1>5, DiscardWrote
  <1>7. k \in JB /\ k.last_op = j.last_op /\ k.discard_ref = seq
    BY <1>0, <1>2 DEF JB
  <1> HIDE DEF d, g, k
  <1>8. Exact(g) /\ g.size = f.size /\ g.origin = f.origin
    BY <1>0, <1>4, <1>6 DEF Wrote, Grown
  <1>9. Behind(g, k)
    <2> SUFFICES ASSUME NEW i \in 0..(f.size - 1), At(g, i) = Discarded
                 PROVE  f.origin + i <= seq
      BY <1>7, <1>8 DEF Behind
    <2>1. i = d \/ At(f, i) = Discarded
      BY <1>0, <1>6, <1>8 DEF Wrote
    <2> QED
      BY <1>0, <1>1, <1>2, <1>3, <1>4, <2>1
  <1>10. Later(f, g)
    <2> SUFFICES ASSUME NEW n \in Nat, Ordered(f, n)  PROVE Ordered(g, n) /\ g.origin >= f.origin
      BY DEF Later
    <2> QED
      BY SMTT(30), Z3T(30), <1>0, <1>4, <1>6, MarkOrdered
  <1> QED
    BY <1>7, <1>8, <1>9, <1>10 DEF Updates, Sound, g, k

\* jb_framelist_eff_size never exceeds the size of the window.
LEMMA EffSize ==
    ASSUME NEW f, Exact(f)
    PROVE  jb_framelist_eff_size(f) \in 0..f.size
  <1>1. f.discarded_num \in 0..f.size
    BY DiscardsFit
  <1>2. f.size \in Nat
    BY SMTT(30), Z3T(30), JitterAssumption DEF Exact, Ring
  <1> QED
    BY <1>1, <1>2 DEF jb_framelist_eff_size

\* jbuf_discard_progressive, all its branches.
LEMMA ProgressiveUpdates ==
    ASSUME NEW f, NEW j, Sound(f, j), conf.algo = "progressive"
    PROVE  Updates(f, j.last_op, jbuf_discard_progressive([f |-> f, j |-> j]))
  <1> DEFINE cur_size == jb_framelist_eff_size(f)
             burst_level == Most(j.eff_level, j.level)
             last_seq == f.origin + f.size - 1
             ref == IF j.discard_dist = 0 THEN last_seq ELSE Least(j.discard_ref, last_seq)
             dist == Most(MinGap, Duration(burst_level) \div (cur_size - burst_level))
             seq == Most(ref + dist, f.origin)
             r == jbuf_discard_progressive([f |-> f, j |-> j])
             k1 == [j EXCEPT !.discard_dist = 0]
             k2 == [j EXCEPT !.discard_ref = ref, !.discard_dist = dist]
  <1>0. /\ Exact(f) /\ j \in JB /\ Behind(f, j) /\ f.origin \in Int /\ f.size \in Nat
        /\ j.discard_ref \in Int /\ j.discard_dist \in Nat /\ j.eff_level \in Nat /\ j.level \in Nat
    BY SMTT(30), Z3T(30), JitterAssumption DEF Sound, Exact, Ring, JB
  <1>1. /\ j.last_op # "put" => r.f = f /\ r.j = j
        /\ j.last_op = "put" /\ cur_size <= burst_level => r.f = f /\ r.j = k1
        /\ j.last_op = "put" /\ ~(cur_size <= burst_level) =>
              IF last_seq >= ref + dist
              THEN r = [f |-> jb_framelist_discard(f, seq),
                        j |-> [j EXCEPT !.discard_ref = seq, !.discard_dist = dist]]
              ELSE r.f = f /\ r.j = k2
    BY DEF jbuf_discard_progressive
  <1>2. burst_level \in Nat /\ cur_size \in 0..f.size
    BY <1>0, EffSize DEF Most
  <1> HIDE DEF r, cur_size, burst_level
  <1>3. CASE j.last_op # "put"
    <2>1. r.f = f /\ r.j = j
      BY <1>1, <1>3
    <2> QED
      BY <1>0, <2>1, LaterSame DEF Updates, Sound, r
  <1>4. CASE j.last_op = "put" /\ cur_size <= burst_level
    <2>1. r.f = f /\ r.j = k1
      BY <1>1, <1>4
    <2>2. k1 \in JB /\ k1.last_op = j.last_op /\ k1.discard_dist = 0
      BY <1>0 DEF JB
    <2> HIDE DEF k1
    <2>3. Behind(f, k1)
      BY <1>0, <2>2, BehindKept, MarksSame
    <2> QED
      BY <1>0, <2>1, <2>2, <2>3, LaterSame DEF Updates, Sound, r
  <1>5. CASE j.last_op = "put" /\ ~(cur_size <= burst_level)
    <2>1. cur_size - burst_level \in Nat \ {0} /\ f.size > 0
      BY <1>0, <1>2, <1>5
    <2>2. dist \in Nat /\ dist >= 1
      <3> DEFINE m == cur_size - burst_level
      <3> HIDE DEF m
      <3>1. m \in Nat \ {0} /\ dist = Most(MinGap, Duration(burst_level) \div m)
        BY <2>1 DEF m
      <3> QED
        BY <1>2, <3>1, DistanceAhead
    <2> HIDE DEF dist
    <2>3. CASE last_seq >= ref + dist
      <3>1. r = [f |-> jb_framelist_discard(f, seq),
                 j |-> [j EXCEPT !.discard_ref = seq, !.discard_dist = dist]]
        BY <1>1, <1>5, <2>3
      <3>2. Updates(f, j.last_op, [f |-> jb_framelist_discard(f, seq),
                                   j |-> [j EXCEPT !.discard_ref = seq, !.discard_dist = dist]])
        <4>1. seq = Most(ref + dist, f.origin) /\ f.origin + f.size - 1 >= ref + dist
          BY <2>3
        <4>2. ref = (IF j.discard_dist = 0 THEN f.origin + f.size - 1
                                           ELSE Least(j.discard_ref, f.origin + f.size - 1))
          OBVIOUS
        <4> HIDE DEF seq, ref
        <4> QED
          BY <2>1, <2>2, <4>1, <4>2, ProgressiveMarks
      <3> QED
        BY <3>1, <3>2 DEF r
    <2>4. CASE ~(last_seq >= ref + dist)
      <3>1. r.f = f /\ r.j = k2
        BY <1>1, <1>5, <2>4
      <3>2. ref \in Int /\ ref <= last_seq /\ (j.discard_dist = 0 \/ ref <= j.discard_ref)
        BY <1>0 DEF Least
      <3>3. \A i \in 0..(f.size - 1) : At(f, i) = Discarded => f.origin + i <= ref
        <4> SUFFICES ASSUME NEW i \in 0..(f.size - 1), At(f, i) = Discarded
                     PROVE  f.origin + i <= ref
          OBVIOUS
        <4>1. j.discard_dist = 0 \/ f.origin + i <= j.discard_ref
          BY <1>0 DEF Behind
        <4> QED
          BY <1>0, <4>1 DEF Least
      <3> HIDE DEF ref
      <3>4. k2 \in JB /\ k2.last_op = j.last_op /\ k2.discard_ref = ref
        BY <1>0, <2>2, <3>2 DEF JB
      <3> HIDE DEF k2
      <3>5. Behind(f, k2)
        BY <3>3, <3>4 DEF Behind
      <3> QED
        BY <1>0, <3>1, <3>4, <3>5, LaterSame DEF Updates, Sound, r
    <2> QED
      BY <2>3, <2>4
  <1> QED
    BY <1>3, <1>4, <1>5

\* Whichever discard algorithm is set.
LEMMA DiscardUpdates ==
    ASSUME NEW f, NEW j, Sound(f, j)
    PROVE  Updates(f, j.last_op, discard_algo([f |-> f, j |-> j]))
  <1> DEFINE b == [f |-> f, j |-> j]
  <1>1. CASE conf.algo = "static"
    <2>1. discard_algo(b) = jbuf_discard_static(b)
      BY <1>1 DEF discard_algo
    <2> QED
      BY <1>1, <2>1, StaticUpdates
  <1>2. CASE conf.algo = "progressive"
    <2>1. discard_algo(b) = jbuf_discard_progressive(b)
      BY <1>2 DEF discard_algo
    <2> QED
      BY <1>2, <2>1, ProgressiveUpdates
  <1>3. CASE conf.algo # "static" /\ conf.algo # "progressive"
    <2>1. discard_algo(b) = b
      BY <1>3 DEF discard_algo
    <2>2. Exact(f)
      BY DEF Sound
    <2> QED
      BY <2>1, <2>2, LaterSame DEF Updates
  <1> QED
    BY <1>1, <1>2, <1>3

\* jbuf_update keeps the ring exact and moves the window only on.
LEMMA UpdateUpdates ==
    ASSUME Settings, NEW f, NEW j, Sound(f, j), NEW oper \in {"put", "get"}
    PROVE  Updates(f, oper, jbuf_update([f |-> f, j |-> j], oper))
  <1> DEFINE b == [f |-> f, j |-> j]
             k == IF j.last_op # oper THEN Switched(j, oper) ELSE j
             c == [f |-> f, j |-> k]
  <1>0. Exact(f) /\ j \in JB /\ Behind(f, j)
    BY DEF Sound
  <1>1. jbuf_update(b, oper) = c \/ jbuf_update(b, oper) = discard_algo(c)
    BY DEF jbuf_update
  <1>2. Now(j, oper, k)
    BY <1>0, SwitchedKeeps DEF Now
  <1> HIDE DEF k
  <1>3. k \in JB /\ k.last_op = oper /\ Behind(f, k)
    BY <1>0, <1>2, BehindKept, MarksSame DEF Now
  <1>4. Sound(f, k)
    BY <1>0, <1>3 DEF Sound
  <1>5. Updates(f, oper, c)
    BY <1>0, <1>3, <1>4, LaterSame DEF Updates
  <1>6. Updates(f, oper, discard_algo(c))
    BY <1>3, <1>4, DiscardUpdates
  <1> QED
    BY <1>1, <1>5, <1>6

-----------------------------------------------------------------------------
\* The invariant.
Rest == rm.cnt > 0 => Most(0, jb_framelist_eff_size(fl) - rm.cnt) = rm.left

\* The frames on the way and in the window are those sent, and the last one played is
\* before the window.
InOrder == /\ \A s \in net : s < sent /\ sent - s <= conf.window
           /\ Ordered(fl, sent)
           /\ out.last < fl.origin \/ (out.last = Invalid /\ fl.origin = Invalid)

\* The inductive invariant.
JInv == /\ conf \in Configs
        /\ Sound(fl, jb)
        /\ rm.cnt \in Nat /\ rm.left \in Nat /\ Rest
        /\ sent \in 0..(SeqMod - 1) /\ net \subseteq 0..(SeqMod - 1)
        /\ out.last \in Int /\ out = [frame |-> out.frame, last |-> out.last]
        /\ ~Endless => InOrder

\* A reset ring is sound with any other states.
LEMMA ResetSound ==
    ASSUME NEW j \in JB
    PROVE  /\ Sound(jb_framelist_reset, j) /\ jb_framelist_reset.origin = Invalid
           /\ jb_framelist_reset.size = 0
  <1> DEFINE e == jb_framelist_reset
  <1>1. e = [head |-> 0, size |-> 0, discarded_num |-> 0, origin |-> Invalid,
             frame |-> [p \in Slots |-> Missing]]
    BY DEF jb_framelist_reset
  <1> HIDE DEF e
  <1>2. Exact(e) /\ e.size = 0 /\ e.origin = Invalid
    BY <1>1, JitterAssumption, ResetExact
  <1>3. Behind(e, j)
    BY <1>2 DEF Behind
  <1> QED
    BY <1>2, <1>3 DEF Sound, e

\* What ConfigAssumption says of the configuration of a run.
LEMMA ConfSettings == conf \in Configs => Settings /\ conf.window \in Nat /\ conf.window < MaxMisorder
                                          /\ conf.sends \in 0..(SeqMod - 1)
  BY ConfigAssumption DEF Settings

\* A reset ring has no order to keep.
LEMMA ResetOrdered == \A n \in Nat : Ordered(jb_framelist_reset, n)
  BY JitterAssumption DEF Ordered, jb_framelist_reset

\* pjmedia_jbuf_create establishes the invariant.
LEMMA InitJInv == Init => JInv
  <1> SUFFICES ASSUME Init  PROVE JInv
    OBVIOUS
  <1>1. conf \in Configs /\ Settings
    BY ConfSettings DEF Init
  <1>2. jb \in JB
    <2> DEFINE p == conf.prefetch
               b == DefaultPrefetch # 0
    <2>1. p \in Nat /\ b \in BOOLEAN /\ 0 \in Nat /\ 0 \in Int
      BY <1>1 DEF Settings
    <2>2. jb = [level |-> 0, max_hist_level |-> 0, stable_hist |-> 0, last_op |-> "init",
                eff_level |-> 0, prefetch |-> p, prefetching |-> b, status |-> "initializing",
                init_cycle_cnt |-> 0, discard_ref |-> 0, discard_dist |-> 0]
      BY DEF Init
    <2> HIDE DEF p, b
    <2> QED
      BY <2>1, <2>2 DEF JB
  <1>3. Sound(fl, jb) /\ fl.origin = Invalid
    BY <1>2, ResetSound DEF Init
  <1>4. rm.cnt = 0 /\ rm.left = 0 /\ sent = 0 /\ net = {} /\ out.last = Invalid
        /\ out = [frame |-> out.frame, last |-> out.last]
    BY DEF Init
  <1>5. Ordered(fl, sent)
    BY <1>4, ResetOrdered DEF Init
  <1> QED
    BY <1>1, <1>3, <1>4, <1>5, JitterAssumption DEF JInv, Rest, InOrder

\* The sender numbers a frame; neither the buffer nor the player changes.
LEMMA SendJInv == JInv /\ Send => JInv'
  <1> SUFFICES ASSUME JInv, Send  PROVE JInv'
    OBVIOUS
  <1>0. SeqMod \in Nat \ {0} /\ sent \in 0..(SeqMod - 1) /\ conf.sends \in 0..(SeqMod - 1)
        /\ conf.window \in Nat
    BY JitterAssumption, ConfSettings DEF JInv
  <1>1. sent' \in 0..(SeqMod - 1) /\ (~Endless => sent' = sent + 1)
    BY <1>0 DEF Send, Endless
  <1>2. net' \subseteq 0..(SeqMod - 1)
    BY <1>0 DEF Send, JInv
  <1>3. UNCHANGED <<conf, fl, jb, rm, out>>
    BY DEF Send
  <1>4. ASSUME ~Endless  PROVE InOrder'
    <2>1. InOrder /\ sent' = sent + 1
      BY <1>1, <1>4 DEF JInv
    <2>2. ASSUME NEW s \in net'  PROVE s < sent' /\ sent' - s <= conf.window
      <3>0. s \in Int
        BY <1>2, <2>2
      <3>1. s = sent \/ s \in net
        BY DEF Send
      <3>2. CASE s = sent
        <4>1. conf.window >= 1
          <5>1. IsFiniteSet(net)
            <6>1. IsFiniteSet(0..(SeqMod - 1))
              BY <1>0, FS_Interval
            <6> QED
              BY <6>1, FS_Subset DEF JInv
          <5>2. Cardinality(net) \in Nat
            BY <5>1, FS_CardinalityType
          <5> QED
            BY <1>0, <5>2 DEF Send
        <4> QED
          BY <1>0, <2>1, <3>2, <4>1
      <3>3. CASE s \in net
        BY <1>0, <2>1, <3>0, <3>3 DEF Send, InOrder
      <3> QED
        BY <3>1, <3>2, <3>3
    <2>3. Ordered(fl, sent + 1)
      <3>1. fl.origin \in Int /\ fl.size \in Nat
        BY SMTT(30), Z3T(30), JitterAssumption DEF JInv, Sound, Exact, Ring
      <3> QED
        BY SMTT(30), Z3T(30), <1>0, <2>1, <3>1 DEF InOrder, Ordered
    <2> QED
      BY <1>3, <2>1, <2>2, <2>3 DEF InOrder
  <1> QED
    BY <1>1, <1>2, <1>3, <1>4 DEF JInv, Rest, Endless, Sound, Behind

\* The network loses a frame.
LEMMA LoseJInv == ASSUME NEW s \in net  PROVE JInv /\ Lose(s) => JInv'
  BY DEF JInv, Lose, Rest, Endless, Sound, Behind, InOrder

\* What put_frame leaves.
LEMMA PutSound ==
    ASSUME JInv, NEW seq \in 0..(SeqMod - 1), pjmedia_jbuf_put_frame(seq)
    PROVE  /\ Sound(fl', jb')
           /\ jb' = jb \/ jb'.last_op = "put"
           /\ \A n \in Nat : Ordered(fl, n) /\ seq < n /\ fl.origin - seq < MaxMisorder
                            => Ordered(fl', n) /\ fl'.origin >= fl.origin
  <1> DEFINE cur_size == jb_framelist_eff_size(fl)
             r == Placed(fl, seq)
             new_size == jb_framelist_eff_size(r.f)
             p == StillPrefetching(jb, new_size)
             m == jb.level + (IF new_size > cur_size THEN new_size - cur_size ELSE 1)
             j == [jb EXCEPT !.prefetching = p, !.level = m]
             b == IF r.status = "SUCCESS" THEN jbuf_update([f |-> r.f, j |-> j], "put")
                                          ELSE [f |-> r.f, j |-> jb]
  <1>0. Exact(fl) /\ jb \in JB /\ Behind(fl, jb) /\ Settings /\ seq \in Nat /\ seq \in Int
    BY ConfSettings, JitterAssumption DEF JInv, Sound
  <1>1. fl' = b.f /\ jb' = b.j
    BY DEF pjmedia_jbuf_put_frame
  <1>2. Exact(r.f) /\ NoNewMarks(fl, r.f)
    BY <1>0, PlacedKeeps
  <1>3. \A n \in Nat : Ordered(fl, n) /\ seq < n /\ fl.origin - seq < MaxMisorder
                       => Ordered(r.f, n) /\ r.f.origin >= fl.origin
    BY <1>0, PlacedOrdered
  <1> HIDE DEF r
  <1>4. cur_size \in Nat /\ new_size \in Nat
    BY <1>0, <1>2, EffSize
  <1>5. p \in BOOLEAN
    BY DEF StillPrefetching
  <1>6. m \in Nat
    BY SMTT(30), Z3T(30), <1>0, <1>4 DEF JB
  <1> HIDE DEF p, m
  <1>7. j \in JB /\ j.discard_ref = jb.discard_ref /\ j.discard_dist = jb.discard_dist
    BY <1>0, <1>5, <1>6 DEF JB
  <1> HIDE DEF j
  <1>8. Sound(r.f, j) /\ Sound(r.f, jb)
    BY <1>0, <1>2, <1>7, BehindKept DEF Sound
  <1>9. Updates(r.f, "put", jbuf_update([f |-> r.f, j |-> j], "put"))
    BY <1>0, <1>8, UpdateUpdates
  <1>10. CASE r.status = "SUCCESS"
    <2>1. Updates(r.f, "put", b)
      BY <1>9, <1>10
    <2> HIDE DEF b
    <2>2. Sound(fl', jb') /\ jb'.last_op = "put" /\ Later(r.f, fl')
      BY <1>1, <2>1 DEF Updates
    <2>3. ASSUME NEW n \in Nat, Ordered(fl, n), seq < n, fl.origin - seq < MaxMisorder
          PROVE  Ordered(fl', n) /\ fl'.origin >= fl.origin
      <3>1. Ordered(r.f, n) /\ r.f.origin >= fl.origin
        BY <1>3, <2>3
      <3>2. Ordered(fl', n) /\ fl'.origin >= r.f.origin
        BY <2>2, <3>1 DEF Later
      <3>3. fl'.origin \in Int /\ r.f.origin \in Int /\ fl.origin \in Int
        BY <1>0, <1>2, <2>2 DEF Sound, Exact, Ring
      <3> QED
        BY <3>1, <3>2, <3>3
    <2> QED
      BY <2>2, <2>3
  <1>11. CASE r.status # "SUCCESS"
    <2>1. fl' = r.f /\ jb' = jb
      BY <1>1, <1>11
    <2> QED
      BY <1>3, <1>8, <2>1
  <1> QED
    BY <1>10, <1>11

\* A frame arrives, and pjmedia_jbuf_put_frame is called.
LEMMA ArriveJInv ==
    ASSUME NEW s \in net, NEW again \in BOOLEAN
    PROVE  JInv /\ Arrive(s, again) => JInv'
  <1> SUFFICES ASSUME JInv, Arrive(s, again)  PROVE JInv'
    OBVIOUS
  <1>0. s \in 0..(SeqMod - 1) /\ pjmedia_jbuf_put_frame(s) /\ UNCHANGED <<conf, rm, sent, out>>
        /\ net' \subseteq net /\ rm.cnt = 0
    BY DEF JInv, Arrive, pjmedia_jbuf_put_frame
  <1>1. Sound(fl', jb')
    BY <1>0, PutSound
  <1>2. ASSUME ~Endless  PROVE InOrder'
    <2>0. /\ InOrder /\ sent \in Nat /\ s \in Nat /\ conf.window \in Nat /\ conf.window < MaxMisorder
          /\ MaxMisorder \in Nat /\ fl.origin \in Int /\ fl.size \in Nat /\ out.last \in Int
          /\ Invalid \in Int /\ fl'.origin \in Int
      BY SMTT(30), Z3T(30), <1>0, <1>1, <1>2, JitterAssumption, ConfSettings DEF JInv, Sound, Exact, Ring
    <2>1. s < sent /\ fl.origin - s < MaxMisorder
      BY <2>0 DEF InOrder, Ordered
    <2>2. Ordered(fl', sent) /\ fl'.origin >= fl.origin
      BY <1>0, <2>0, <2>1, PutSound DEF InOrder
    <2>3. out.last < fl'.origin \/ (out.last = Invalid /\ fl'.origin = Invalid)
      BY <2>0, <2>2 DEF InOrder
    <2> QED
      BY <1>0, <2>0, <2>2, <2>3 DEF InOrder
  <1> QED
    BY <1>0, <1>1, <1>2 DEF JInv, Rest, Endless, Sound, Behind

\* What get_frame leaves.
LEMMA GetSound ==
    ASSUME JInv, pjmedia_jbuf_get_frame
    PROVE  /\ Sound(fl', jb') /\ jb'.last_op = "get"
           /\ \A n \in Nat : Ordered(fl, n) =>
                 /\ Ordered(fl', n) /\ fl'.origin >= fl.origin
                 /\ ~jb.prefetching /\ Got(fl).frame = "normal" =>
                       /\ Got(fl).seq = fl.origin /\ fl'.origin > fl.origin /\ fl.size > 0
  <1> DEFINE r == Got(fl)
             q == jb.prefetch # 0
             j == IF ~jb.prefetching /\ r.frame = "empty" THEN [jb EXCEPT !.prefetching = q] ELSE jb
             k == [j EXCEPT !.level = j.level + 1]
             g == IF jb.prefetching THEN fl ELSE r.f
             b == jbuf_update([f |-> g, j |-> k], "get")
  <1>0. Exact(fl) /\ jb \in JB /\ Behind(fl, jb) /\ Settings
    BY ConfSettings DEF JInv, Sound
  <1>1. fl' = b.f /\ jb' = b.j
    BY DEF pjmedia_jbuf_get_frame
  <1>2. PICK c \in 0..fl.size :
          /\ Took(fl, c, r.f)
          /\ r.frame = "normal" => /\ fl.size > 0 /\ c = 1 /\ r.seq = At(fl, 0)
                                   /\ At(fl, 0) \notin {Missing, Discarded}
    BY <1>0, GotGets DEF Gets
  <1> HIDE DEF r
  <1>3. Exact(g) /\ NoNewMarks(fl, g) /\ Later(fl, g)
    BY <1>0, <1>2, TookMarks, TookLater, MarksSame, LaterSame
  <1> HIDE DEF g
  <1>4. j \in JB /\ j.discard_ref = jb.discard_ref /\ j.discard_dist = jb.discard_dist
    <2>1. q \in BOOLEAN
      OBVIOUS
    <2> HIDE DEF q
    <2> QED
      BY <1>0, <2>1 DEF JB
  <1> HIDE DEF j
  <1>5. k \in JB /\ k.discard_ref = jb.discard_ref /\ k.discard_dist = jb.discard_dist
    BY SMTT(30), Z3T(30), <1>4 DEF JB
  <1> HIDE DEF k
  <1>6. Sound(g, k)
    BY <1>0, <1>3, <1>5, BehindKept DEF Sound
  <1>7. Updates(g, "get", b)
    BY <1>0, <1>6, UpdateUpdates
  <1> HIDE DEF b
  <1>8. Sound(fl', jb') /\ jb'.last_op = "get" /\ Later(g, fl')
    BY <1>1, <1>7 DEF Updates
  <1>9. ASSUME NEW n \in Nat, Ordered(fl, n)
        PROVE  /\ Ordered(fl', n) /\ fl'.origin >= fl.origin
               /\ ~jb.prefetching /\ r.frame = "normal" =>
                       /\ r.seq = fl.origin /\ fl'.origin > fl.origin /\ fl.size > 0
    <2>0. fl.origin \in Int /\ fl'.origin \in Int /\ g.origin \in Int /\ fl.size \in Nat
      BY SMTT(30), Z3T(30), <1>0, <1>3, <1>8, JitterAssumption DEF Sound, Exact, Ring
    <2>1. Ordered(g, n) /\ g.origin >= fl.origin
      BY <1>3, <1>9 DEF Later
    <2>2. Ordered(fl', n) /\ fl'.origin >= g.origin
      BY <1>8, <2>1 DEF Later
    <2>3. ASSUME ~jb.prefetching, r.frame = "normal"
          PROVE  r.seq = fl.origin /\ fl'.origin > fl.origin /\ fl.size > 0
      <3>1. g.origin = fl.origin + 1
        BY <1>2, <2>3 DEF Took, g
      <3>2. At(fl, 0) = fl.origin + 0
        BY SMTT(30), Z3T(30), <1>2, <1>9, <2>0, <2>3 DEF Ordered
      <3> QED
        BY <1>2, <2>0, <2>2, <2>3, <3>1, <3>2
    <2> QED
      BY <2>0, <2>1, <2>2, <2>3
  <1> QED
    BY <1>8, <1>9 DEF r

\* The player ticks, and pjmedia_jbuf_get_frame is called.
LEMMA GetJInv == JInv /\ pjmedia_jbuf_get_frame => JInv'
  <1> SUFFICES ASSUME JInv, pjmedia_jbuf_get_frame  PROVE JInv'
    OBVIOUS
  <1>0. UNCHANGED <<conf, rm, sent, net>> /\ rm.cnt = 0
    BY DEF pjmedia_jbuf_get_frame
  <1>1. Sound(fl', jb')
    BY GetSound
  <1>2. IF jb.prefetching THEN out'.last = out.last
        ELSE out'.last = IF Got(fl).frame = "normal" THEN Got(fl).seq ELSE out.last
    BY DEF pjmedia_jbuf_get_frame, JInv
  <1>3. out' = [frame |-> out'.frame, last |-> out'.last]
    BY DEF pjmedia_jbuf_get_frame, JInv
  <1>4. out'.last \in Int
    <2>1. ASSUME Got(fl).frame = "normal"  PROVE Got(fl).seq \in Int
      <3>0. Exact(fl)
        BY DEF JInv, Sound
      <3>1. fl.size > 0 /\ Got(fl).seq = At(fl, 0) /\ At(fl, 0) \notin {Missing, Discarded}
        BY <2>1, <3>0, GotGets DEF Gets
      <3>2. Slot(fl, 0) \in Slots
        BY SMTT(30), Z3T(30), <3>0, JitterAssumption, SlotAt DEF Exact
      <3> QED
        BY <3>0, <3>1, <3>2 DEF At, Exact, Ring
    <2> QED
      BY <1>2, <2>1 DEF JInv
  <1>5. ASSUME ~Endless  PROVE InOrder'
    <2>0. /\ InOrder /\ sent \in Nat /\ fl.origin \in Int /\ out.last \in Int
          /\ Invalid \in Int /\ fl'.origin \in Int
      BY SMTT(30), Z3T(30), <1>1, <1>5, JitterAssumption DEF JInv, Sound, Exact, Ring
    <2>1. /\ Ordered(fl', sent) /\ fl'.origin >= fl.origin
          /\ ~jb.prefetching /\ Got(fl).frame = "normal" =>
                 Got(fl).seq = fl.origin /\ fl'.origin > fl.origin
      BY <2>0, GetSound DEF InOrder
    <2>2. out'.last < fl'.origin \/ (out'.last = Invalid /\ fl'.origin = Invalid)
      BY <1>2, <2>0, <2>1 DEF InOrder
    <2> QED
      BY <1>0, <2>0, <2>1, <2>2 DEF InOrder
  <1> QED
    BY <1>0, <1>1, <1>3, <1>4, <1>5 DEF JInv, Rest, Endless, Sound, Behind

\* The arithmetic of the rounds of remove_frame: what a round asks for again are the
\* discarded frames among those it removed.
LEMMA RestArithmetic ==
    ASSUME NEW n \in Nat, NEW size \in Nat, NEW disc \in 0..size, NEW c \in 0..size,
           c = n \/ (c = size /\ n >= size), NEW rest \in 0..(size - c), disc - rest \in 0..c
    PROVE  /\ Most(0, (size - c) - rest - (disc - rest)) = Most(0, size - disc - n)
           /\ Most(0, size - disc - n) \in Nat
  BY DEF Most

\* A round of remove_frame keeps what should be left at the end.
LEMMA RoundRest ==
    ASSUME JInv, NEW n \in Nat, NEW left, left = Most(0, jb_framelist_eff_size(fl) - n),
           RemoveRound(n, left)
    PROVE  JInv' /\ (rm'.cnt = 0 => jb_framelist_eff_size(fl') = rm'.left)
  <1> DEFINE g == jb_framelist_remove_head(fl, n)
             c == Least(n, fl.size)
  <1>0. /\ Exact(fl) /\ jb \in JB /\ Behind(fl, jb) /\ fl.size \in Nat /\ fl.origin \in Int
        /\ fl.discarded_num \in Nat
    BY SMTT(30), Z3T(30), JitterAssumption DEF JInv, Sound, Exact, Ring
  <1>1. fl' = g /\ rm'.cnt = DiscardedOf(fl, g) /\ rm'.left = left /\ UNCHANGED <<conf, jb, sent, net, out>>
    BY DEF RemoveRound
  <1>2. c \in 0..fl.size /\ Took(fl, c, g) /\ (c = n \/ (c = fl.size /\ n >= fl.size))
    <2>1. c = n \/ (c = fl.size /\ n >= fl.size)
      BY <1>0 DEF Least
    <2>2. c \in 0..fl.size /\ Took(fl, c, g)
      BY <1>0, HeadTook
    <2> QED
      BY <2>1, <2>2
  <1> HIDE DEF g, c
  <1>3. Exact(g) /\ NoNewMarks(fl, g) /\ Later(fl, g)
    BY <1>0, <1>2, TookMarks, TookLater
  <1>4. Sound(g, jb)
    BY <1>0, <1>3, BehindKept DEF Sound
  <1>5. /\ g.size = fl.size - c /\ fl.discarded_num - g.discarded_num \in 0..c
        /\ g.discarded_num \in 0..g.size /\ fl.discarded_num \in 0..fl.size
    BY <1>0, <1>2, <1>3, DiscardsFit DEF Took
  <1>6. /\ rm'.cnt \in Nat /\ left \in Nat
        /\ Most(0, jb_framelist_eff_size(g) - rm'.cnt) = left
    <2>1. rm'.cnt = fl.discarded_num - g.discarded_num
      BY <1>1 DEF DiscardedOf
    <2>2. /\ jb_framelist_eff_size(g) = g.size - g.discarded_num
          /\ jb_framelist_eff_size(fl) = fl.size - fl.discarded_num
      BY DEF jb_framelist_eff_size
    <2>3. g.size \in Nat /\ g.discarded_num \in Nat /\ c \in Nat
      BY <1>0, <1>2, <1>5
    <2>4. left = Most(0, fl.size - fl.discarded_num - n)
      BY <2>2
    <2> DEFINE z == fl.size
               d == fl.discarded_num
               e == g.discarded_num
    <2>5. z \in Nat /\ d \in 0..z /\ e \in 0..(z - c) /\ d - e \in 0..c
      BY <1>0, <1>5
    <2>6. c \in 0..z /\ (c = n \/ (c = z /\ n >= z))
      BY <1>2
    <2> HIDE DEF z, d, e
    <2>7. /\ Most(0, (z - c) - e - (d - e)) = Most(0, z - d - n)
          /\ Most(0, z - d - n) \in Nat
      BY <2>5, <2>6, RestArithmetic
    <2>8. d - e \in Nat
      BY <2>5, <2>6
    <2> QED
      BY <1>5, <2>1, <2>2, <2>4, <2>7, <2>8 DEF z, d, e
  <1>7. rm'.cnt = 0 => jb_framelist_eff_size(g) = left
    <2>1. jb_framelist_eff_size(g) \in 0..g.size /\ g.size \in Nat
      BY SMTT(30), Z3T(30), <1>3, EffSize, JitterAssumption DEF Exact, Ring
    <2> QED
      BY <1>6, <2>1 DEF Most
  <1>8. ASSUME ~Endless  PROVE InOrder'
    <2>0. /\ InOrder /\ sent \in Nat /\ out.last \in Int /\ Invalid \in Int /\ g.origin \in Int
      BY SMTT(30), Z3T(30), <1>3, <1>8, JitterAssumption DEF JInv, Exact, Ring
    <2>1. Ordered(g, sent) /\ g.origin >= fl.origin
      BY <1>3, <2>0 DEF InOrder, Later
    <2>2. out.last < g.origin \/ (out.last = Invalid /\ g.origin = Invalid)
      BY <1>0, <2>0, <2>1 DEF InOrder
    <2> QED
      BY <1>1, <2>0, <2>1, <2>2 DEF InOrder
  <1>9. JInv'
    BY <1>1, <1>4, <1>6, <1>8 DEF JInv, Rest, Endless, Sound, Behind
  <1> QED
    BY <1>1, <1>7, <1>9

\* pjmedia_jbuf_reset, between two calls.
LEMMA ResetJInv == JInv /\ pjmedia_jbuf_reset => JInv'
  <1> SUFFICES ASSUME JInv, pjmedia_jbuf_reset  PROVE JInv'
    OBVIOUS
  <1>0. jb \in JB /\ out = [frame |-> out.frame, last |-> out.last]
    BY DEF JInv, Sound
  <1>1. /\ UNCHANGED <<conf, rm, sent, net>> /\ fl' = jb_framelist_reset /\ rm.cnt = 0
        /\ out' = [frame |-> out.frame, last |-> Invalid]
    BY <1>0 DEF pjmedia_jbuf_reset
  <1>2. jb' \in JB
    <2> DEFINE q == jb.prefetch # 0
    <2>1. q \in BOOLEAN
      OBVIOUS
    <2>2. jb' = [jb EXCEPT !.level = 0, !.last_op = "init", !.stable_hist = 0,
                           !.status = "initializing", !.init_cycle_cnt = 0, !.max_hist_level = 0,
                           !.prefetching = q, !.discard_dist = 0]
      BY DEF pjmedia_jbuf_reset
    <2> HIDE DEF q
    <2> QED
      BY ONLY ZenonT(30), <1>0, <2>1, <2>2 DEF JB
  <1>3. Sound(fl', jb') /\ fl'.origin = Invalid
    BY <1>1, <1>2, ResetSound
  <1>4. Ordered(fl', sent)
    BY SMTT(30), Z3T(30), <1>1, ResetOrdered, JitterAssumption DEF JInv
  <1> QED
    BY <1>1, <1>3, <1>4, JitterAssumption DEF JInv, Rest, Endless, Sound, Behind, InOrder

\* Every step keeps the invariant.
LEMMA NextJInv == JInv /\ [Next]_vars => JInv'
  <1> SUFFICES ASSUME JInv, [Next]_vars  PROVE JInv'
    OBVIOUS
  <1>1. CASE Send
    BY <1>1, SendJInv
  <1>2. ASSUME NEW s \in net, NEW again \in BOOLEAN, Arrive(s, again)  PROVE JInv'
    BY <1>2, ArriveJInv
  <1>3. ASSUME NEW s \in net, Lose(s)  PROVE JInv'
    BY <1>3, LoseJInv
  <1>4. CASE pjmedia_jbuf_get_frame
    BY <1>4, GetJInv
  <1>5. ASSUME NEW n \in 1..MaxCount, pjmedia_jbuf_remove_frame(n)  PROVE JInv'
    BY SMTT(30), Z3T(30), <1>5, RoundRest, JitterAssumption DEF pjmedia_jbuf_remove_frame
  <1>6. CASE remove_more
    BY <1>6, RoundRest DEF remove_more, JInv, Rest
  <1>7. CASE pjmedia_jbuf_reset
    BY <1>7, ResetJInv
  <1>8. CASE UNCHANGED vars
    BY <1>8 DEF vars, JInv, Rest, Endless, Sound, Behind, InOrder
  <1> QED
    BY <1>1, <1>2, <1>3, <1>4, <1>5, <1>6, <1>7, <1>8 DEF Next

\* The invariant holds in every state.
LEMMA JInvHolds == Spec => []JInv
  BY InitJInv, NextJInv, PTL DEF Spec

\* The invariant gives the types of the ring, the levels and the rest of a removal.
LEMMA JInvTypeOK == JInv => TypeOK
  BY DEF JInv, Sound, Exact, JB, TypeOK

\* In every state of jbuf.c the head and the sizes are in the range of the ring and no
\* level, count or distance is negative.
THEOREM JitterTypeOK == Spec => []TypeOK
  BY JInvHolds, JInvTypeOK, PTL

\* Exact, for the ring of the buffer, is RingExact.
LEMMA JInvRingExact == JInv => RingExact
  BY DEF JInv, Sound, Exact, Discards, RingExact

\* For any capacity, limits and settings: after any calls of put_frame, get_frame,
\* remove_frame and reset the slots outside the window are free, the window ends with a
\* frame, and discarded_num is the number of discarded frames.
THEOREM RingStaysExact == Spec => []RingExact
  BY JInvHolds, JInvRingExact, PTL

\* One round of the loop of put_frame is enough for any ring that is exact.
LEMMA JInvPutFits == JInv => PutFits
  <1> SUFFICES ASSUME JInv, NEW seq \in 0..(SeqMod - 1)  PROVE Placed(fl, seq).status # "ETOOMANY"
    BY DEF PutFits
  <1>1. Exact(fl) /\ seq \in Int
    BY DEF JInv, Sound
  <1> QED
    BY <1>1, PlacedKeeps

\* The loop of pjmedia_jbuf_put_frame that makes room (while status is ETOOMANY) runs at
\* most one round, whatever frame comes next.
THEOREM OneRoundMakesRoom == Spec => []PutFits
  BY JInvHolds, JInvPutFits, PTL

\* A step that ends a removal leaves what was noted at its start.
LEMMA StepRemoves ==
    JInv /\ [Next]_vars => [rm' # rm /\ rm'.cnt = 0 => jb_framelist_eff_size(fl') = rm'.left]_vars
  <1> SUFFICES ASSUME JInv, [Next]_vars, rm' # rm, rm'.cnt = 0
               PROVE  jb_framelist_eff_size(fl') = rm'.left
    BY DEF vars
  <1>1. \/ \E n \in 1..MaxCount : pjmedia_jbuf_remove_frame(n)
        \/ remove_more
    BY DEF Next, vars, Send, Arrive, Lose, pjmedia_jbuf_put_frame, pjmedia_jbuf_get_frame,
           pjmedia_jbuf_reset
  <1>2. ASSUME NEW n \in 1..MaxCount, pjmedia_jbuf_remove_frame(n)
        PROVE  jb_framelist_eff_size(fl') = rm'.left
    BY <1>2, RoundRest, JitterAssumption DEF pjmedia_jbuf_remove_frame
  <1>3. CASE remove_more
    BY <1>3, RoundRest DEF remove_more, JInv, Rest
  <1> QED
    BY <1>1, <1>2, <1>3

\* pjmedia_jbuf_remove_frame removes as many undiscarded frames as it was asked to, or all.
THEOREM RemovesWhatIsAsked == Spec => RemovesAsAsked
  BY JInvHolds, StepRemoves, PTL DEF Spec, RemovesAsAsked

\* A step that plays a frame plays a newer one than the last.
LEMMA StepInOrder ==
    JInv /\ [Next]_vars =>
        [~Endless /\ jb' # jb /\ jb'.last_op = "get" /\ out'.frame = "normal"
            => out'.last > out.last]_vars
  <1> SUFFICES ASSUME JInv, [Next]_vars, ~Endless, jb' # jb, jb'.last_op = "get", out'.frame = "normal"
               PROVE  out'.last > out.last
    BY DEF vars
  <1>1. pjmedia_jbuf_get_frame
    <2>1. ASSUME NEW s \in net, NEW again \in BOOLEAN, Arrive(s, again)  PROVE FALSE
      <3>1. jb' = jb \/ jb'.last_op = "put"
        BY <2>1, PutSound DEF Arrive, JInv
      <3> QED
        BY <3>1
    <2>2. ASSUME pjmedia_jbuf_reset  PROVE FALSE
      <3>1. jb'.last_op = "init"
        BY <2>2 DEF pjmedia_jbuf_reset, JInv, Sound, JB
      <3> QED
        BY <3>1
    <2> QED
      BY <2>1, <2>2 DEF Next, vars, Send, Lose, pjmedia_jbuf_remove_frame, remove_more, RemoveRound
  <1>2. ~jb.prefetching /\ Got(fl).frame = "normal" /\ out'.last = Got(fl).seq
    BY <1>1 DEF pjmedia_jbuf_get_frame, JInv
  <1>3. /\ InOrder /\ sent \in Nat /\ out.last \in Int /\ fl.origin \in Int /\ Invalid < 0
        /\ Invalid \in Int
    BY SMTT(30), Z3T(30), JitterAssumption DEF JInv, Sound, Exact, Ring
  <1>4. Got(fl).seq = fl.origin /\ fl.size > 0
    BY <1>1, <1>2, <1>3, GetSound DEF InOrder
  <1>5. fl.origin \in Nat
    BY <1>3, <1>4 DEF InOrder, Ordered
  <1> QED
    BY <1>2, <1>3, <1>4, <1>5 DEF InOrder

\* pjmedia_jbuf_get_frame never returns a frame twice or after a newer one, if no frame
\* is overtaken by as many as MAX_MISORDER and the sequence numbers do not wrap.
THEOREM FramesPlayInOrder == Spec => PlayedInOrder
  BY JInvHolds, StepInOrder, PTL DEF Spec, PlayedInOrder
=============================================================================
