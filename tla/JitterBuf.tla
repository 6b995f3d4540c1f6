------------------------------ MODULE JitterBuf ------------------------------
(***************************************************************************)
(* The adaptive jitter buffer (pjmedia/src/pjmedia/jbuf.c) between a       *)
(* network that loses, repeats and reorders frames and a player that takes *)
(* one at every tick.  The ring of frames, the burst level, the prefetch   *)
(* and both discard algorithms are modelled; the statistics are not.  The  *)
(* callers hold a mutex (stream.cpp:1789), so a call is one step, except   *)
(* that every round of the loop of remove_frame is one.                    *)
(*                                                                         *)
(* A slot holds Missing, Discarded, or the sequence number of the frame it *)
(* has: the type, the length and the content of the source in one.         *)
(***************************************************************************)
EXTENDS Integers, FiniteSets

CONSTANTS
    MaxCount,               \* capacity of the buffer, in frames
    Missing, Discarded,     \* PJMEDIA_JB_MISSING_FRAME, ..._DISCARDED_FRAME
    SeqMod,                 \* sequence numbers of the wire wrap here
    MaxMisorder, MaxDropout,  \* limits of jb_framelist_put_at
    InitCycle, StableLimit,   \* INIT_CYCLE, STABLE_HISTORY_LIMIT
    MaxBurst,               \* jb_max_burst
    MinGap,                 \* jb_min_shrink_gap
    MinBurst, ProMaxBurst, T1, T2,  \* PJMEDIA_JBUF_PRO_DISC_..., in frames
    Configs,                \* settings and environments of a run, see Init
    Invalid                 \* INVALID_OFFSET

ASSUME JitterAssumption ==
    /\ MaxCount \in Nat \ {0} /\ SeqMod \in Nat \ {0}
    /\ Invalid \in Int /\ Invalid < 0
    /\ MaxMisorder \in Nat \ {0} /\ MaxDropout \in Nat
    /\ Missing # Discarded /\ Missing \notin Int /\ Discarded \notin Int
    /\ MinGap \in Nat \ {0}     \* a frame lasts at most PJMEDIA_JBUF_DISC_MIN_GAP
    /\ InitCycle \in Int /\ StableLimit \in Int /\ MaxBurst \in Nat
    /\ MinBurst \in Int /\ ProMaxBurst \in Int /\ T1 \in Int /\ T2 \in Int

\* A frame is overtaken by so few that it is not taken for a restart of the
\* sequence, and a finite run ends before the numbers wrap.
ASSUME ConfigAssumption ==
    \A c \in Configs : /\ c.prefetch \in Nat /\ c.init_prefetch \in Nat
                       /\ c.min_prefetch \in Nat /\ c.max_prefetch \in Nat
                       /\ c.window \in Nat /\ c.window < MaxMisorder
                       /\ c.sends \in 0..(SeqMod - 1)

VARIABLES
    conf,     \* settings of the buffer and of its environment
    fl,       \* jb_framelist
    jb,       \* the other states of the buffer
    rm,       \* a remove_frame in progress
    sent,     \* the sequence number of the next frame
    net,      \* frames on their way
    out       \* what the last get returned, the newest frame played since the reset

vars == <<conf, fl, jb, rm, sent, net, out>>

Slots == 0..(MaxCount - 1)
Least(a, b) == IF a < b THEN a ELSE b
Most(a, b) == IF a > b THEN a ELSE b

-----------------------------------------------------------------------------
(***************************************************************************)
(* The ring.                                                               *)
(***************************************************************************)
jb_framelist_reset == [head |-> 0, size |-> 0, discarded_num |-> 0, origin |-> Invalid,
                       frame |-> [p \in Slots |-> Missing]]

\* The slot of the i-th frame of the window.
Slot(f, i) == (f.head + i) % MaxCount

jb_framelist_eff_size(f) == f.size - f.discarded_num

\* The oldest frames go; at most all.
Removed(f, c) ==
    LET old == {Slot(f, i) : i \in 0..(c - 1)}
    IN  [f EXCEPT !.discarded_num = @ - Cardinality({p \in old : f.frame[p] = Discarded}),
                  !.frame = [p \in Slots |-> IF p \in old THEN Missing ELSE f.frame[p]],
                  !.origin = @ + c,
                  !.head = (@ + c) % MaxCount,
                  !.size = @ - c]

\* Mutant: the discarded frames that leave stay counted.
jb_framelist_remove_head_NotCounted(f, count) ==
    [Removed(f, Least(count, f.size)) EXCEPT !.discarded_num = f.discarded_num]

jb_framelist_remove_head(f, count) == Removed(f, Least(count, f.size))

\* Where the window starts when frame index comes: where it did, at index - size
\* after a restart of the sequence, and at index when the buffer is empty.
Rebased(f, index) ==
    IF f.size = 0 THEN [f EXCEPT !.origin = index]
    ELSE IF index < f.origin THEN [f EXCEPT !.origin = index - f.size]
    ELSE f

\* The size of the window with a frame at a distance from its start.
Grown(f, distance) == IF f.size <= distance THEN distance + 1 ELSE f.size

\* The frame gets its slot, unless the slot is taken.
Store(f, index) ==
    LET distance == index - f.origin
        pos == Slot(f, distance)
    IN  IF f.frame[pos] # Missing THEN [f |-> f, status |-> "EEXISTS"]
        ELSE [f |-> [f EXCEPT !.frame[pos] = index, !.size = Grown(f, distance)],
              status |-> "SUCCESS"]

\* Mutant: a late frame is taken for a restart of the sequence.
TooLate_Never(f, index) == FALSE

TooLate(f, index) == index < f.origin /\ f.origin - index < MaxMisorder

jb_framelist_put_at(f, index) ==
    LET g == Rebased(f, index)
        distance == index - g.origin
    IN  IF TooLate(f, index) THEN [f |-> f, status |-> "ETOOSMALL"]
        ELSE IF distance >= MaxCount
        THEN IF distance > MaxDropout
             THEN Store([jb_framelist_reset EXCEPT !.origin = index], index)
             ELSE [f |-> g, status |-> "ETOOMANY"]
        ELSE Store(g, index)

jb_framelist_discard(f, index) ==
    IF index >= f.origin /\ index < f.origin + f.size
    THEN [f EXCEPT !.frame[Slot(f, index - f.origin)] = Discarded,
                   !.discarded_num = @ + 1]
    ELSE f

\* How many of the oldest frames are discarded ones.
Leading(f) ==
    Cardinality({k \in 0..(f.size - 1) : \A i \in 0..k : f.frame[Slot(f, i)] = Discarded})

-----------------------------------------------------------------------------
(***************************************************************************)
(* Levels and discarding.  A step works on a pair of the ring and the      *)
(* other states, b = [f |-> fl, j |-> jb].                                 *)
(***************************************************************************)
Clamp(x) == Most(conf.min_prefetch, Least(conf.max_prefetch, x))

\* The prefetch follows the effective level if an initial one was asked for.
WithLevel(j, level) ==
    [j EXCEPT !.eff_level = level,
              !.prefetch = IF conf.init_prefetch # 0 THEN Clamp(level) ELSE @]

jbuf_calculate_jitter(j) ==
    LET h == [j EXCEPT !.max_hist_level = Most(@, j.level)]
        hist == h.stable_hist + 1
        diff == Most(1, (h.eff_level - h.max_hist_level) \div 3)
    IN  IF h.level < h.eff_level
        THEN IF hist > StableLimit
             THEN [WithLevel(h, h.eff_level - diff) EXCEPT !.max_hist_level = 0, !.stable_hist = 0]
             ELSE [h EXCEPT !.stable_hist = hist]
        ELSE IF h.level > h.eff_level
        THEN [WithLevel(h, Least(h.max_hist_level, (MaxCount * 4) \div 5)) EXCEPT !.stable_hist = 0]
        ELSE [h EXCEPT !.stable_hist = 0]

jbuf_discard_static(b) ==
    LET burst_level == Most(b.j.eff_level, b.j.level)
        ref == Least(b.j.discard_ref, b.f.origin)
        g == jb_framelist_remove_head(b.f, 1)
    IN  IF jb_framelist_eff_size(b.f) - burst_level * 2 < 1 THEN b
        ELSE IF b.f.origin - ref >= MinGap
        THEN [f |-> g, j |-> [b.j EXCEPT !.discard_ref = g.origin]]
        ELSE [b EXCEPT !.j.discard_ref = ref]

\* T, in frames, from the burst level.
Duration(burst_level) ==
    IF burst_level <= MinBurst THEN T1
    ELSE IF burst_level >= ProMaxBurst THEN T2
    ELSE T1 + ((T2 - T1) * (burst_level - MinBurst)) \div (ProMaxBurst - MinBurst)

jbuf_discard_progressive(b) ==
    LET cur_size == jb_framelist_eff_size(b.f)
        burst_level == Most(b.j.eff_level, b.j.level)
        last_seq == b.f.origin + b.f.size - 1
        ref == IF b.j.discard_dist = 0 THEN last_seq ELSE Least(b.j.discard_ref, last_seq)
        dist == Most(MinGap, Duration(burst_level) \div (cur_size - burst_level))
        seq == Most(ref + dist, b.f.origin)
    IN  IF b.j.last_op # "put" THEN b
        ELSE IF cur_size <= burst_level THEN [b EXCEPT !.j.discard_dist = 0]
        ELSE IF last_seq >= ref + dist
        THEN [f |-> jb_framelist_discard(b.f, seq),
              j |-> [b.j EXCEPT !.discard_ref = seq, !.discard_dist = dist]]
        ELSE [b EXCEPT !.j.discard_ref = ref, !.j.discard_dist = dist]

discard_algo(b) == CASE conf.algo = "static" -> jbuf_discard_static(b)
                     [] conf.algo = "progressive" -> jbuf_discard_progressive(b)
                     [] OTHER -> b

\* At the first call of the other kind: initializing ends after some switches,
\* the level is evaluated at a get, and starts again.
Switched(j, oper) ==
    LET cnt == j.init_cycle_cnt + 1
        begins == j.status = "initializing" /\ cnt >= InitCycle /\ oper = "get"
        k == IF begins THEN [j EXCEPT !.status = "processing", !.level = Least(@, MaxBurst)] ELSE j
        calc == k.status = "processing" /\ oper = "get" /\ k.level <= MaxBurst
    IN  [(IF calc THEN jbuf_calculate_jitter(k) ELSE k)
            EXCEPT !.last_op = oper, !.level = 0,
                   !.init_cycle_cnt = IF j.status = "initializing" THEN cnt ELSE @]

jbuf_update(b, oper) ==
    LET k == IF b.j.last_op # oper THEN Switched(b.j, oper) ELSE b.j
        returns == b.j.last_op # oper /\ k.status = "initializing"
    IN  IF ~returns /\ k.status = "processing" THEN discard_algo([b EXCEPT !.j = k])
                                              ELSE [b EXCEPT !.j = k]

-----------------------------------------------------------------------------
(***************************************************************************)
(* The calls.                                                              *)
(***************************************************************************)
\* Mutant: one frame too few makes room.
Excess_OneLess(f, seq) == seq - f.origin - MaxCount

\* How many frames make room for one more.
Excess(f, seq) == seq - f.origin - MaxCount + 1

\* One round of the loop that makes room is enough: see PutFits.
Placed(f, seq) ==
    LET r == jb_framelist_put_at(f, seq)
    IN  IF r.status # "ETOOMANY" THEN r
        ELSE jb_framelist_put_at(jb_framelist_remove_head(r.f, Excess(r.f, seq)), seq)

\* Mutant: one frame more than the prefetch is waited for.
StillPrefetching_OneMore(j, size) == j.prefetching /\ size <= j.prefetch

\* Whether the buffer waits for more frames before it plays.
StillPrefetching(j, size) == j.prefetching /\ size < j.prefetch

pjmedia_jbuf_put_frame(seq) ==
    LET cur_size == jb_framelist_eff_size(fl)
        r == Placed(fl, seq)
        new_size == jb_framelist_eff_size(r.f)
        j == [jb EXCEPT !.prefetching = StillPrefetching(jb, new_size),
                        !.level = @ + (IF new_size > cur_size THEN new_size - cur_size ELSE 1)]
        b == IF r.status = "SUCCESS" THEN jbuf_update([f |-> r.f, j |-> j], "put")
                                     ELSE [f |-> r.f, j |-> jb]
    IN  /\ rm.cnt = 0
        /\ fl' = b.f
        /\ jb' = b.j
        /\ UNCHANGED <<conf, rm>>

\* jb_framelist_get: discarded frames are skipped, and the frame after them is
\* returned as missing.
Got(f) == LET k == Leading(f)
              g == jb_framelist_remove_head(f, k)
          IN  [f |-> IF g.size = 0 THEN g ELSE jb_framelist_remove_head(g, 1),
               frame |-> IF g.size = 0 THEN "empty"
                         ELSE IF k > 0 \/ g.frame[g.head] = Missing THEN "missing"
                         ELSE "normal",
               seq |-> IF g.size = 0 THEN Invalid ELSE g.frame[g.head]]

\* Bound: a level is counted up to conf.burst.
Within(oper) == jb.last_op = oper => jb.level < conf.burst

pjmedia_jbuf_get_frame ==
    LET r == Got(fl)
        j == IF ~jb.prefetching /\ r.frame = "empty"
             THEN [jb EXCEPT !.prefetching = jb.prefetch # 0] ELSE jb
        b == jbuf_update([f |-> IF jb.prefetching THEN fl ELSE r.f,
                          j |-> [j EXCEPT !.level = @ + 1]], "get")
    IN  /\ rm.cnt = 0
        /\ Within("get")
        /\ fl' = b.f
        /\ jb' = b.j
        /\ out' = IF jb.prefetching THEN [out EXCEPT !.frame = "prefetch"]
                  ELSE [frame |-> r.frame,
                        last |-> IF r.frame = "normal" THEN r.seq ELSE out.last]
        /\ UNCHANGED <<conf, rm, sent, net>>

\* Mutant: discarded frames count as removed.
DiscardedOf_Ignored(f, g) == 0

\* How many frames of a round of remove_frame had been discarded.
DiscardedOf(f, g) == f.discarded_num - g.discarded_num

\* The first round of pjmedia_jbuf_remove_frame, and the others: as long as the
\* frames of a round included discarded ones, as many more are removed.  What
\* should be left at the end is noted.
RemoveRound(frame_cnt, left) ==
    LET g == jb_framelist_remove_head(fl, frame_cnt)
    IN  /\ fl' = g
        /\ rm' = [cnt |-> DiscardedOf(fl, g), left |-> left]
        /\ UNCHANGED <<conf, jb, sent, net, out>>

pjmedia_jbuf_remove_frame(frame_cnt) ==
    /\ rm.cnt = 0
    /\ RemoveRound(frame_cnt, Most(0, jb_framelist_eff_size(fl) - frame_cnt))

remove_more == /\ rm.cnt > 0
               /\ RemoveRound(rm.cnt, rm.left)

\* The stream resets the buffer when the RTP session restarts.
pjmedia_jbuf_reset ==
    /\ rm.cnt = 0
    /\ fl' = jb_framelist_reset
    /\ jb' = [jb EXCEPT !.level = 0, !.last_op = "init", !.stable_hist = 0,
                        !.status = "initializing", !.init_cycle_cnt = 0, !.max_hist_level = 0,
                        !.prefetching = jb.prefetch # 0, !.discard_dist = 0]
    /\ out' = [out EXCEPT !.last = Invalid]
    /\ UNCHANGED <<conf, rm, sent, net>>

-----------------------------------------------------------------------------
(***************************************************************************)
(* The environment: frames are lost, repeated, and overtaken by fewer than *)
(* conf.window others.  It sends conf.sends frames, or for ever if that is *)
(* zero.                                                                   *)
(***************************************************************************)
Endless == conf.sends = 0

Send == /\ Endless \/ sent < conf.sends
        /\ \A s \in net : sent - s \in 0..(conf.window - 1)
        /\ Cardinality(net) < conf.window
        /\ net' = net \cup {sent}
        /\ sent' = (sent + 1) % SeqMod
        /\ UNCHANGED <<conf, fl, jb, rm, out>>

\* A frame arrives, perhaps not for the last time.
Arrive(s, again) == /\ again => conf.faulty
                    /\ Within("put")
                    /\ pjmedia_jbuf_put_frame(s)
                    /\ net' = IF again THEN net ELSE net \ {s}
                    /\ UNCHANGED <<sent, out>>

Lose(s) == /\ conf.faulty
           /\ net' = net \ {s}
           /\ UNCHANGED <<conf, fl, jb, rm, sent, out>>

\* The prefetch that pjmedia_jbuf_create sets before it resets the buffer.
DefaultPrefetch == Least(15, (MaxCount * 4) \div 5)

\* pjmedia_jbuf_create, followed by set_adaptive or set_fixed, which leave
\* jb_prefetching as it is, and set_discard.
Init == /\ conf \in Configs
        /\ fl = jb_framelist_reset
        /\ jb = [level |-> 0, max_hist_level |-> 0, stable_hist |-> 0, last_op |-> "init",
                 eff_level |-> 0, prefetch |-> conf.prefetch,
                 prefetching |-> DefaultPrefetch # 0, status |-> "initializing",
                 init_cycle_cnt |-> 0, discard_ref |-> 0, discard_dist |-> 0]
        /\ rm = [cnt |-> 0, left |-> 0]
        /\ sent = 0
        /\ net = {}
        /\ out = [frame |-> "none", last |-> Invalid]

Next == \/ Send
        \/ \E s \in net : \/ \E again \in BOOLEAN : Arrive(s, again)
                          \/ Lose(s)
        \/ pjmedia_jbuf_get_frame
        \/ conf.video /\ (\E n \in 1..MaxCount : pjmedia_jbuf_remove_frame(n))
        \/ remove_more
        \/ conf.restarts /\ pjmedia_jbuf_reset

\* Frames that are sent for ever arrive for ever, and the player ticks for ever.
Fairness == Endless => /\ []<><<jb'.last_op = "put">>_jb
                       /\ []<><<jb'.last_op = "get">>_jb

Spec == Init /\ [][Next]_vars /\ Fairness

-----------------------------------------------------------------------------
(***************************************************************************)
(* Properties.                                                             *)
(***************************************************************************)
Ring == [head : Slots, size : 0..MaxCount, discarded_num : 0..MaxCount, origin : Int,
         frame : [Slots -> Int \cup {Missing, Discarded}]]

TypeOK == /\ fl \in Ring
          /\ jb.prefetching \in BOOLEAN
          /\ jb.last_op \in {"init", "put", "get"}
          /\ jb.status \in {"initializing", "processing"}
          /\ {jb.level, jb.max_hist_level, jb.stable_hist, jb.eff_level, jb.prefetch,
              jb.init_cycle_cnt, jb.discard_dist, rm.cnt, rm.left} \subseteq Nat

Window(f) == {Slot(f, i) : i \in 0..(f.size - 1)}

\* Slots outside the window are free, so that a frame ahead of it finds one, the
\* window ends with a frame, so that none is waited for at its end, and the
\* discarded frames are counted exactly, although frames are discarded before
\* they come, twice, or just before the sequence restarts.
RingExact == /\ fl \in Ring
             /\ \A p \in Slots \ Window(fl) : fl.frame[p] = Missing
             /\ fl.size > 0 => fl.frame[Slot(fl, fl.size - 1)] # Missing
             /\ fl.discarded_num = Cardinality({p \in Slots : fl.frame[p] = Discarded})

\* The loop of put_frame that makes room for a frame ends after one round.
PutFits == \A seq \in 0..(SeqMod - 1) : Placed(fl, seq).status # "ETOOMANY"

\* Frames are played in the order they were sent, each once, if none is overtaken
\* by as many as MAX_MISORDER and the sequence numbers do not wrap.
PlayedInOrder == [][~Endless /\ jb' # jb /\ jb'.last_op = "get" /\ out'.frame = "normal"
                       => out'.last > out.last]_vars

\* remove_frame leaves as many frames as it should, whatever was discarded.
RemovesAsAsked == [][rm' # rm /\ rm'.cnt = 0
                       => jb_framelist_eff_size(fl') = rm'.left]_vars

\* A buffer that is fed without gaps stops buffering, across the wrap of the
\* sequence numbers and whatever is discarded meanwhile.
PrefetchEnds == Endless => (jb.prefetching ~> ~jb.prefetching)
=============================================================================
