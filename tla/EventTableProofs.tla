--------------------------- MODULE EventTableProofs ---------------------------
(***************************************************************************)
(* Lemmas about the EM calls of EventTable, one per call: each call keeps  *)
(* a world well-formed, and keeps the unscheduled queue and the owners of *)
(* the events in agreement (an event is enqueued exactly when it is in    *)
(* the queue, and it is there once).  These are the facts every case body *)
(* is built from; that the bodies' loops keep them is induction over the  *)
(* loop index and is left to TLC (see the README).                        *)
(***************************************************************************)
EXTENDS EventTable, SequenceTheorems, TLAPS

USE RepeatAssumption, BurstAssumption, PoolAssumption

(* The shape of a world: what the tables, owners, sizes and queue hold.    *)
WorldOK(w) ==
    w \in [tbl : [Slots -> Handles \cup {UNDEF}],
           tbl2 : [Slots2 -> Handles \cup {UNDEF}],
           odp : [Slots -> Handles \cup {UNDEF}],
           own : [Handles -> Owners],
           vs : [Handles -> {0, 1}],
           q : Seq(Handles),
           bad : BOOLEAN, abort : BOOLEAN,
           ret : Int, ret2 : Int, last : Int]

(* The queue holds each event at most once, and exactly the events whose  *)
(* owner is the queue.                                                     *)
QueueAgrees(w) ==
    /\ IsInjective(w.q)
    /\ \A h \in Handles : w.own[h] = "queue" <=> h \in Range(w.q)

Sound(w) == WorldOK(w) /\ QueueAgrees(w)

-----------------------------------------------------------------------------
(* Sequences without repetitions, as the queue is.                        *)

LEMMA AppendFresh ==
    ASSUME NEW S, NEW s \in Seq(S), NEW e \in S,
           IsInjective(s), e \notin Range(s)
    PROVE  /\ IsInjective(Append(s, e))
           /\ Range(Append(s, e)) = Range(s) \cup {e}
<1>1. /\ Append(s, e) \in Seq(S)
      /\ Len(Append(s, e)) = Len(s) + 1
      /\ \A k \in 1..Len(s) : Append(s, e)[k] = s[k]
      /\ Append(s, e)[Len(s) + 1] = e
    BY AppendProperties
<1>2. DOMAIN Append(s, e) = 1..(Len(s) + 1) /\ DOMAIN s = 1..Len(s)
    BY <1>1
<1>3. IsInjective(Append(s, e))
    BY <1>1, <1>2 DEF IsInjective, Range
<1>4. Range(Append(s, e)) = Range(s) \cup {e}
    BY <1>1, <1>2 DEF Range
<1>. QED
    BY <1>3, <1>4

LEMMA SuffixFresh ==
    ASSUME NEW S, NEW s \in Seq(S), IsInjective(s), NEW c \in 0..Len(s)
    PROVE  LET t == SubSeq(s, c + 1, Len(s))
           IN  /\ t \in Seq(S)
               /\ IsInjective(t)
               /\ Range(t) = Range(s) \ {s[k] : k \in 1..c}
<1> DEFINE t == SubSeq(s, c + 1, Len(s))
<1>1. /\ t \in Seq(S)
      /\ Len(t) = Len(s) - c
      /\ \A k \in 1..(Len(s) - c) : t[k] = s[c + k]
    BY SubSeqProperties
<1>2. DOMAIN t = 1..(Len(s) - c) /\ DOMAIN s = 1..Len(s)
    BY <1>1
<1>3. \A k \in 1..(Len(s) - c) : c + k \in 1..Len(s)
    OBVIOUS
<1>4. IsInjective(t)
    <2> SUFFICES ASSUME NEW a \in DOMAIN t, NEW b \in DOMAIN t, t[a] = t[b]
                 PROVE  a = b
        BY DEF IsInjective
    <2>1. s[c + a] = s[c + b] /\ c + a \in DOMAIN s /\ c + b \in DOMAIN s
        BY <1>1, <1>2, <1>3
    <2>. QED
        BY <2>1, <1>2 DEF IsInjective
<1>5. Range(t) \subseteq Range(s) \ {s[k] : k \in 1..c}
    <2> SUFFICES ASSUME NEW a \in DOMAIN t
                 PROVE  t[a] \in Range(s) /\ \A k \in 1..c : t[a] # s[k]
        BY DEF Range
    <2>1. t[a] = s[c + a] /\ c + a \in DOMAIN s
        BY <1>1, <1>2, <1>3
    <2>2. \A k \in 1..c : k \in DOMAIN s /\ k # c + a
        BY <1>2
    <2>. QED
        BY <2>1, <2>2 DEF IsInjective, Range
<1>6. Range(s) \ {s[k] : k \in 1..c} \subseteq Range(t)
    <2> SUFFICES ASSUME NEW m \in DOMAIN s, ~\E k \in 1..c : s[m] = s[k]
                 PROVE  s[m] \in Range(t)
        BY DEF Range
    <2>0. m \in (c + 1)..Len(s)
        <3>1. ~(m \in 1..c)
            <4> SUFFICES ASSUME m \in 1..c PROVE FALSE
                OBVIOUS
            <4>. QED
                BY Zenon
        <3>. QED
            BY <3>1, <1>2
    <2>1. m - c \in 1..(Len(s) - c) /\ c + (m - c) = m
        BY <2>0
    <2>2. t[m - c] = s[c + (m - c)]
        BY <2>1, <1>1, Zenon
    <2>3. m - c \in DOMAIN t /\ t[m - c] = s[m]
        BY <2>1, <2>2, <1>2
    <2>. QED
        BY <2>3 DEF Range
<1>7. Range(t) = Range(s) \ {s[k] : k \in 1..c}
    BY <1>5, <1>6
<1>. QED
    BY <1>1, <1>4, <1>7

-----------------------------------------------------------------------------
(* The EM calls on one event.                                             *)

LEMMA VecEvents == Events("vec") \subseteq Handles
BY PoolAssumption DEF Handles, PoolNames

LEMMA MisuseSound == ASSUME NEW w, Sound(w) PROVE Sound(Misuse(w))
BY DEF Sound, WorldOK, QueueAgrees, Misuse

LEMMA TouchSound ==
    ASSUME NEW w, Sound(w), NEW h PROVE Sound(Touch(w, h))
BY MisuseSound DEF Touch

(* Setting the misuse flag, or the owner of an event that is not in the   *)
(* queue to anything but the queue, keeps a world sound.                  *)
LEMMA SetBadSound ==
    ASSUME NEW w, Sound(w), NEW b \in BOOLEAN
    PROVE  Sound([w EXCEPT !.bad = b])
BY DEF Sound, WorldOK, QueueAgrees

LEMMA OwnerFieldOK ==
    ASSUME NEW w, WorldOK(w), NEW o \in [Handles -> Owners]
    PROVE  WorldOK([w EXCEPT !.own = o])
BY DEF WorldOK

LEMMA QueueFieldOK ==
    ASSUME NEW w, WorldOK(w), NEW q \in Seq(Handles)
    PROVE  WorldOK([w EXCEPT !.q = q])
BY DEF WorldOK

LEMMA SetOwnerSound ==
    ASSUME NEW w, Sound(w), NEW h \in Handles, h \notin Range(w.q),
           NEW o \in {"pool", "app"}
    PROVE  Sound([w EXCEPT !.own[h] = o])
<1> DEFINE v == [w EXCEPT !.own[h] = o]
<1>1. WorldOK(v)
    <2>1. [w.own EXCEPT ![h] = o] \in [Handles -> Owners]
        BY DEF Sound, WorldOK, Owners
    <2>2. v = [w EXCEPT !.own = [w.own EXCEPT ![h] = o]]
        OBVIOUS
    <2>. QED
        BY <2>1, <2>2, OwnerFieldOK DEF Sound
<1>2. v.q = w.q /\ v.own = [w.own EXCEPT ![h] = o]
    BY DEF Sound, WorldOK
<1>3. QueueAgrees(v)
    BY <1>2 DEF Sound, WorldOK, QueueAgrees
<1>. QED
    BY <1>1, <1>3 DEF Sound

(* em_free() and em_event_vector_free() give back an event the program    *)
(* holds, which is therefore not in the queue.                            *)
LEMMA HeldNotQueued ==
    ASSUME NEW w, Sound(w), NEW h, Owned(w, h)
    PROVE  h \in Handles /\ h \notin Range(w.q)
BY DEF Owned, Sound, QueueAgrees

LEMMA FreeSound ==
    ASSUME NEW w, Sound(w), NEW h PROVE Sound(em_free(w, h))
<1>1. CASE Owned(w, h)
    <2> DEFINE v == [w EXCEPT !.own[h] = "pool"]
    <2>1. Sound(v)
        BY <1>1, HeldNotQueued, SetOwnerSound
    <2>2. em_free(w, h)
            = [v EXCEPT !.bad = w.bad \/ (h \in Events("vec") /\ w.vs[h] # 0)]
        BY <1>1 DEF em_free
    <2>3. w.bad \in BOOLEAN
        BY DEF Sound, WorldOK
    <2>. QED
        BY <2>1, <2>2, <2>3, SetBadSound
<1>2. CASE ~Owned(w, h)
    BY <1>2, MisuseSound DEF em_free
<1>. QED
    BY <1>1, <1>2

LEMMA VectorFreeSound ==
    ASSUME NEW w, Sound(w), NEW h PROVE Sound(em_event_vector_free(w, h))
<1>1. CASE Owned(w, h)
    BY <1>1, HeldNotQueued, SetOwnerSound DEF em_event_vector_free
<1>2. CASE ~Owned(w, h)
    BY <1>2, MisuseSound DEF em_event_vector_free
<1>. QED
    BY <1>1, <1>2

LEMMA SizeSetSound ==
    ASSUME NEW w, Sound(w), NEW h, NEW n \in {0, 1}
    PROVE  Sound(em_event_vector_size_set(w, h, n))
<1>1. CASE Owned(w, h) /\ h \in Events("vec")
    BY <1>1, VecEvents DEF em_event_vector_size_set, Sound, WorldOK, QueueAgrees
<1>2. CASE ~(Owned(w, h) /\ h \in Events("vec"))
    BY <1>2, MisuseSound DEF em_event_vector_size_set
<1>. QED
    BY <1>1, <1>2

(* em_send() moves an event the program holds to the tail of the queue.   *)
LEMMA SendSound ==
    ASSUME NEW w, Sound(w), NEW h PROVE Sound(em_send(w, h))
<1>1. CASE Owned(w, h)
    <2>1. h \in Handles /\ w.own[h] = "app" /\ h \notin Range(w.q)
        BY <1>1 DEF Owned, Sound, QueueAgrees
    <2>2. w.q \in Seq(Handles) /\ IsInjective(w.q)
        BY DEF Sound, WorldOK, QueueAgrees
    <2>3. /\ Append(w.q, h) \in Seq(Handles)
          /\ IsInjective(Append(w.q, h))
          /\ Range(Append(w.q, h)) = Range(w.q) \cup {h}
        BY <2>1, <2>2, AppendFresh, AppendProperties
    <2> DEFINE v1 == [w EXCEPT !.own[h] = "queue"]
               v == [v1 EXCEPT !.q = Append(w.q, h)]
    <2>4. em_send(w, h) = v
        BY <1>1 DEF em_send
    <2>5. WorldOK(v1)
        <3>1. [w.own EXCEPT ![h] = "queue"] \in [Handles -> Owners]
            BY <2>1 DEF Sound, WorldOK, Owners
        <3>. QED
            BY <3>1, OwnerFieldOK DEF Sound
    <2>6. WorldOK(v)
        BY <2>3, <2>5, QueueFieldOK
    <2>7. v.own = [w.own EXCEPT ![h] = "queue"] /\ v.q = Append(w.q, h)
        BY DEF Sound, WorldOK
    <2>8. QueueAgrees(v)
        BY <2>1, <2>3, <2>7 DEF Sound, WorldOK, QueueAgrees
    <2>. QED
        BY <2>4, <2>6, <2>8 DEF Sound
<1>2. CASE ~Owned(w, h)
    BY <1>2, MisuseSound DEF em_send
<1>. QED
    BY <1>1, <1>2

LEMMA TblFieldOK ==
    ASSUME NEW w, WorldOK(w), NEW t \in [Slots -> Handles \cup {UNDEF}]
    PROVE  WorldOK([w EXCEPT !.tbl = t])
BY DEF WorldOK

(* em_queue_dequeue() hands the head of the queue to the program.         *)
LEMMA DequeueSound ==
    ASSUME NEW w, Sound(w), NEW s \in Slots
    PROVE  Sound(em_queue_dequeue(w, s))
<1>1. w.q \in Seq(Handles) /\ IsInjective(w.q) /\ WorldOK(w)
    BY DEF Sound, WorldOK, QueueAgrees
<1>2. CASE w.q = <<>>
    <2>1. [w.tbl EXCEPT ![s] = UNDEF] \in [Slots -> Handles \cup {UNDEF}]
        BY <1>1 DEF WorldOK
    <2>2. em_queue_dequeue(w, s) = [w EXCEPT !.tbl = [w.tbl EXCEPT ![s] = UNDEF]]
        BY <1>2 DEF em_queue_dequeue
    <2>3. WorldOK(em_queue_dequeue(w, s))
        BY <1>1, <2>1, <2>2, TblFieldOK DEF WorldOK
    <2>. QED
        BY <2>2, <2>3 DEF Sound, QueueAgrees
<1>3. CASE w.q # <<>>
    <2> DEFINE hd == Head(w.q)
               tl == Tail(w.q)
               v1 == [w EXCEPT !.tbl = [w.tbl EXCEPT ![s] = hd]]
               v2 == [v1 EXCEPT !.own = [w.own EXCEPT ![hd] = "app"]]
               v == [v2 EXCEPT !.q = tl]
    <2>1. em_queue_dequeue(w, s) = v
        BY <1>3 DEF em_queue_dequeue
    <2>2. hd \in Handles /\ tl \in Seq(Handles) /\ hd = w.q[1]
        BY <1>1, <1>3, HeadTailProperties
    <2>3. tl = SubSeq(w.q, 1 + 1, Len(w.q)) /\ 1 \in 0..Len(w.q)
        BY <1>1, <1>3, TailIsSubSeq, EmptySeq
    <2>4. IsInjective(tl) /\ Range(tl) = Range(w.q) \ {w.q[k] : k \in 1..1}
        <3>1. /\ IsInjective(SubSeq(w.q, 1 + 1, Len(w.q)))
              /\ Range(SubSeq(w.q, 1 + 1, Len(w.q)))
                   = Range(w.q) \ {w.q[k] : k \in 1..1}
            BY <1>1, <2>3, SuffixFresh
        <3>. QED
            BY <2>3, <3>1
    <2>5. WorldOK(v1)
        BY <1>1, <2>2, TblFieldOK DEF WorldOK
    <2>6. WorldOK(v2)
        <3>1. [w.own EXCEPT ![hd] = "app"] \in [Handles -> Owners]
            BY <1>1, <2>2 DEF WorldOK, Owners
        <3>. QED
            BY <2>5, <3>1, OwnerFieldOK
    <2>7. WorldOK(v)
        BY <2>2, <2>6, QueueFieldOK
    <2>8. v.own = [w.own EXCEPT ![hd] = "app"] /\ v.q = tl
        BY <1>1 DEF WorldOK
    <2>9. Range(tl) = Range(w.q) \ {hd}
        BY <2>2, <2>4
    <2>10. QueueAgrees(v)
        BY <2>2, <2>4, <2>8, <2>9, <1>1 DEF Sound, WorldOK, QueueAgrees
    <2>. QED
        BY <2>1, <2>7, <2>10 DEF Sound
<1>. QED
    BY <1>2, <1>3

LEMMA LastFieldOK ==
    ASSUME NEW w, WorldOK(w), NEW c \in Int
    PROVE  WorldOK([w EXCEPT !.last = c])
BY DEF WorldOK

(* em_queue_dequeue_multi() hands the first c events of the queue to the *)
(* program, in event_tbl[base ..], for every count c it may return.       *)
LEMMA DequeueMultiSound ==
    ASSUME NEW w, Sound(w), NEW base \in Int, NEW n \in Nat
    PROVE  \A x \in em_queue_dequeue_multi(w, base, n) : Sound(x)
<1>1. w.q \in Seq(Handles) /\ IsInjective(w.q) /\ WorldOK(w)
    BY DEF Sound, WorldOK, QueueAgrees
<1> SUFFICES ASSUME NEW c \in 0..Len(w.q)
             PROVE  Sound([Give(w, base, [k \in 0..(c - 1) |-> w.q[k + 1]])
                           EXCEPT !.q = SubSeq(w.q, c + 1, Len(w.q)),
                                  !.last = c])
    <2> DEFINE m == IF Len(w.q) < n THEN Len(w.q) ELSE n
               Ks == IF "deq_short" \in Faults THEN 0..m ELSE {m}
    <2>0. Len(w.q) \in Nat /\ m \in 0..Len(w.q)
        BY ONLY <1>1, LenProperties DEF m
    <2>1. Ks \subseteq 0..Len(w.q)
        BY ONLY <2>0 DEF Ks
    <2>2. em_queue_dequeue_multi(w, base, n)
            = {[Give(w, base, [k \in 0..(c - 1) |-> w.q[k + 1]])
                  EXCEPT !.q = SubSeq(w.q, c + 1, Len(w.q)), !.last = c]
                 : c \in Ks}
        BY DEF em_queue_dequeue_multi
    <2>. QED
        BY <2>1, <2>2, Zenon
<1> DEFINE g == [k \in 0..(c - 1) |-> w.q[k + 1]]
           tl == SubSeq(w.q, c + 1, Len(w.q))
           T == [s \in Slots |-> IF s - base \in DOMAIN g THEN g[s - base]
                                                        ELSE w.tbl[s]]
           O == [h \in Handles |-> IF h \in Range(g) THEN "app" ELSE w.own[h]]
           v1 == [w EXCEPT !.tbl = T]
           v2 == [v1 EXCEPT !.own = O]
           v3 == [v2 EXCEPT !.q = tl]
           v == [v3 EXCEPT !.last = c]
<1>2. [Give(w, base, g) EXCEPT !.q = tl, !.last = c] = v
    BY DEF Give
<1>3. Range(g) = {w.q[k] : k \in 1..c} /\ Range(g) \subseteq Handles
    BY <1>1 DEF Range
<1>4. /\ tl \in Seq(Handles) /\ IsInjective(tl)
      /\ Range(tl) = Range(w.q) \ {w.q[k] : k \in 1..c}
    BY <1>1, SuffixFresh
<1>5. WorldOK(v)
    <2>1. T \in [Slots -> Handles \cup {UNDEF}]
        BY <1>1, <1>3 DEF WorldOK, Range
    <2>2. O \in [Handles -> Owners]
        BY <1>1 DEF WorldOK, Owners
    <2>3. WorldOK(v1)
        BY <1>1, <2>1, TblFieldOK
    <2>4. WorldOK(v2)
        BY <2>2, <2>3, OwnerFieldOK
    <2>5. WorldOK(v3)
        BY <1>4, <2>4, QueueFieldOK
    <2>6. c \in Int
        BY <1>1, LenProperties
    <2>. QED
        BY <2>5, <2>6, LastFieldOK
<1>6. QueueAgrees(v)
    <2>1. v.own = O /\ v.q = tl
        BY <1>1 DEF WorldOK
    <2>2. \A h \in Handles : (O[h] = "queue") <=> h \in Range(tl)
        BY <1>3, <1>4 DEF Sound, QueueAgrees
    <2>. QED
        BY <1>4, <2>1, <2>2 DEF QueueAgrees
<1>. QED
    BY <1>2, <1>5, <1>6 DEF Sound

=============================================================================
