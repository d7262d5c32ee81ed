----------------------------- MODULE EventTable -----------------------------
(***************************************************************************)
(* The benchmark cases of programs/performance/bench_event.c run by the   *)
(* worker of BenchDriver: every entry of test_suite[] with its init, run  *)
(* and term functions, acting on gbl_args->event_tbl, event2_tbl and      *)
(* odp_event_tbl, on the events of the three pools and on the            *)
(* unscheduled queue.                                                     *)
(*                                                                         *)
(* An event handle is a model value of the pool it belongs to; owner[h]   *)
(* says whether the event is free in its pool, held by the program, or    *)
(* enqueued.  References made by em_event_ref() are handles of their own. *)
(* A round (init, run and, when the driver calls it, term) is one step:   *)
(* the worker is the only thread touching the tables, and SIGINT is only  *)
(* polled between rounds.  The EM calls the code makes may return short   *)
(* where the EM API allows it; Faults says which of these are admitted.   *)
(* The sizes, types, user areas and payloads of events are not modelled: *)
(* no property tells them apart.                                          *)
(***************************************************************************)
EXTENDS BenchDriver, FiniteSets, SequencesExt, Functions

CONSTANTS
    Repeat,       \* REPEAT_COUNT
    Burst,        \* gbl_args->opt.burst_size
    PoolHandles,  \* the events of the sw, pkt and vec pools, and "ref" handles,
                  \* each pool's in the order it hands free ones out
    UNDEF,        \* EM_EVENT_UNDEF (and ODP_EVENT_INVALID)
    Faults        \* short returns admitted: "alloc_short", "send_short", "deq_short"

PoolNames == {"sw", "pkt", "vec"}

(* create_pools(): num_events per pool, at least 2 * REPEAT_COUNT for the *)
(* clone and reference tests.                                             *)
PoolSize == IF Burst < 2 THEN 2 * Repeat ELSE Burst * Repeat

ASSUME RepeatAssumption == Repeat \in Nat \ {0}
ASSUME BurstAssumption == Burst \in 1..64
ASSUME PoolAssumption ==
    /\ DOMAIN PoolHandles = PoolNames \cup {"ref"}
    /\ \A p \in DOMAIN PoolHandles : IsInjective(PoolHandles[p])
    /\ \A p \in PoolNames : Len(PoolHandles[p]) = PoolSize
    /\ Len(PoolHandles["ref"]) = Repeat
    /\ \A p, q \in DOMAIN PoolHandles :
          p # q => Range(PoolHandles[p]) \cap Range(PoolHandles[q]) = {}
    /\ \A p \in DOMAIN PoolHandles : UNDEF \notin Range(PoolHandles[p])
ASSUME FaultsAssumption ==
    Faults \subseteq {"alloc_short", "send_short", "deq_short"}

Events(p) == Range(PoolHandles[p])

Handles == UNION {Events(p) : p \in DOMAIN PoolHandles}

PoolOf(h) == CHOOSE p \in DOMAIN PoolHandles : h \in Events(p)

Slots == 0..(Repeat * Burst - 1)     \* event_tbl[] and odp_event_tbl[] in use

Slots2 == 0..(Repeat - 1)            \* event2_tbl[] in use

Owners == {"pool", "app", "queue"}

(* A world w is what a call sees and changes: the tables, the owners, the *)
(* vector sizes, the queue, whether an EM call was made on an event the   *)
(* program does not own (bad), whether ODPH_ABORT was hit, and the        *)
(* return values of the function (ret, ret2) and of the last call (last). *)

(* "for (i = 0; i < n; i++) x = Op(x, i);" from x = w.                   *)
Loop(Op(_, _), w, n) ==
    LET f[k \in 0..n] == IF k = 0 THEN w ELSE Op(f[k - 1], k - 1)
    IN f[n]

(* The same loop over calls that each may have several outcomes.          *)
ForEach(S, n, Op(_, _)) ==
    Loop(LAMBDA T, k : UNION {Op(x, k) : x \in T}, S, n)

(* Two calls in sequence; nothing runs after ODPH_ABORT().                *)
AndThen(S, Op(_)) == UNION {IF x.abort THEN {x} ELSE Op(x) : x \in S}

-----------------------------------------------------------------------------
(* The EM calls, by what they do to the events.                           *)

Owned(w, h) == h \in Handles /\ w.own[h] = "app"

Misuse(w) == [w EXCEPT !.bad = TRUE]

(* Any call on an event: the event must be one the program holds.          *)
Touch(w, h) == IF Owned(w, h) THEN w ELSE Misuse(w)

(* em_free(): the event goes back to its pool.  A vector goes back with   *)
(* the events its table holds, so its size must be 0 here.                *)
em_free(w, h) ==
    IF Owned(w, h)
    THEN [w EXCEPT !.own[h] = "pool",
                   !.bad = @ \/ (h \in Events("vec") /\ w.vs[h] # 0)]
    ELSE Misuse(w)

(* em_event_vector_free(): the vector alone goes back to its pool.         *)
em_event_vector_free(w, h) ==
    IF Owned(w, h) THEN [w EXCEPT !.own[h] = "pool"] ELSE Misuse(w)

em_event_vector_size_set(w, h, n) ==
    IF Owned(w, h) /\ h \in Events("vec")
    THEN [w EXCEPT !.vs[h] = n]
    ELSE Misuse(w)

(* The free events of p, in the order the pool hands them out: a pool   *)
(* returns its free events lowest first, so that a freed event is handed  *)
(* out again at once.                                                     *)
Avail(w, p) == SelectSeq(PoolHandles[p], LAMBDA h : w.own[h] = "pool")

(* The first n free events of p, as the table em_alloc_multi() fills.    *)
FirstFree(w, p, n) == [k \in 0..(n - 1) |-> Avail(w, p)[k + 1]]

(* w[f][s] = a call that hands out a free event of p, or UNDEF when there *)
(* is none or the call may fail.                                          *)
Take(w, f, s, p, mayFail) ==
    {[w EXCEPT ![f][s] = h, !.own[h] = "app"]
        : h \in Range(SubSeq(Avail(w, p), 1, 1))}
    \cup (IF Avail(w, p) = <<>> \/ mayFail
          THEN {[w EXCEPT ![f][s] = UNDEF]} ELSE {})

em_alloc(w, f, s, p) == Take(w, f, s, p, "alloc_short" \in Faults)

(* event_tbl[base + k] = g[k] for the k of g; the program now holds them. *)
Give(w, base, g) ==
    [w EXCEPT !.tbl = [s \in Slots |-> IF s - base \in DOMAIN g
                                        THEN g[s - base] ELSE w.tbl[s]],
              !.own = [h \in Handles |-> IF h \in Range(g)
                                         THEN "app" ELSE w.own[h]]]

(* em_alloc_multi(&event_tbl[base], n): k events, all that were asked for *)
(* and are free, or fewer on a short return; last = k.                    *)
em_alloc_multi(w, base, n, p) ==
    LET m == IF Len(Avail(w, p)) < n THEN Len(Avail(w, p)) ELSE n
        Ks == IF "alloc_short" \in Faults THEN 0..m ELSE {m}
    IN {[Give(w, base, FirstFree(w, p, k)) EXCEPT !.last = k] : k \in Ks}

em_free_multi(w, base, n) ==
    Loop(LAMBDA x, k : em_free(x, x.tbl[base + k]), w, n)

em_send(w, h) ==
    IF Owned(w, h) THEN [w EXCEPT !.own[h] = "queue", !.q = Append(@, h)]
                   ELSE Misuse(w)

SendCounts(n) == IF "send_short" \in Faults THEN 0..n ELSE {n}

(* em_send_multi(&event_tbl[base], n): the first k are enqueued; last = k. *)
em_send_multi(w, base, n) ==
    {[Loop(LAMBDA x, k : em_send(x, x.tbl[base + k]), w, c)
        EXCEPT !.last = c] : c \in SendCounts(n)}

(* event_tbl[s] = em_queue_dequeue(): the head, or UNDEF on an empty queue. *)
em_queue_dequeue(w, s) ==
    IF w.q = <<>>
    THEN [w EXCEPT !.tbl[s] = UNDEF]
    ELSE [w EXCEPT !.tbl[s] = Head(w.q), !.own[Head(w.q)] = "app",
                   !.q = Tail(w.q)]

(* em_queue_dequeue_multi(q, &event_tbl[base], n): the first k of the     *)
(* queue, k = min(n, length) or fewer on a short return; last = k.        *)
em_queue_dequeue_multi(w, base, n) ==
    LET m == IF Len(w.q) < n THEN Len(w.q) ELSE n
        Ks == IF "deq_short" \in Faults THEN 0..m ELSE {m}
    IN {[Give(w, base, [k \in 0..(c - 1) |-> w.q[k + 1]])
           EXCEPT !.q = SubSeq(w.q, c + 1, Len(w.q)), !.last = c] : c \in Ks}

(* event2_tbl[s] = em_event_clone(event_tbl[s], EM_POOL_UNDEF): a new     *)
(* event of the original's pool.                                          *)
em_event_clone(w, s) ==
    IF Owned(w, w.tbl[s]) THEN em_alloc(w, "tbl2", s, PoolOf(w.tbl[s]))
                          ELSE {[Misuse(w) EXCEPT !.tbl2[s] = UNDEF]}

(* event2_tbl[s] = em_event_ref(event_tbl[s]): a new handle on the same  *)
(* data, taken from the reference handles.                                *)
em_event_ref(w, s) ==
    IF Owned(w, w.tbl[s]) THEN Take(w, "tbl2", s, "ref", FALSE)
                          ELSE {[Misuse(w) EXCEPT !.tbl2[s] = UNDEF]}

(* "if (ret != n) return 0; /* error */"                                   *)
Checked(S, n) == {[x EXCEPT !.ret = IF @ = n THEN @ ELSE 0] : x \in S}

(* A loop of calls that each use event_tbl[i] and change no ownership.     *)
TouchAll(w, n, r) ==
    {[Loop(LAMBDA x, k : Touch(x, x.tbl[k]), w, n) EXCEPT !.ret = r]}

-----------------------------------------------------------------------------
(* Resource functions: the init and term functions of the cases.          *)

(* The odp_event_tbl[i] of the first n events; a failed                   *)
(* em_event_uarea_id_set() on an event not held is a misuse.              *)
init_test_events(w, n) ==
    Loop(LAMBDA x, k : [Touch(x, x.tbl[k]) EXCEPT !.odp[k] = x.tbl[k]],
             w, n)

(* The retry loop of AllocRetry fills event_tbl[0..n-1] when the pool has *)
(* n free events, and otherwise (or on repeated short returns) aborts.    *)
allocate_test_events(w, p, n) ==
    LET fill == IF Len(Avail(w, p)) >= n THEN {Give(w, 0, FirstFree(w, p, n))}
                                           ELSE {}
    IN fill \cup (IF fill = {} \/ "alloc_short" \in Faults
                  THEN {[w EXCEPT !.abort = TRUE]} ELSE {})

(* Same loop on odp_packet_alloc_multi(); its two checks pass for the     *)
(* packet pool, and odp_event_tbl is left as it was.                      *)
allocate_test_ext_pktevents(w, p, n) == allocate_test_events(w, p, n)

create_packets(w) ==
    AndThen(allocate_test_events(w, "pkt", Repeat),
            LAMBDA x : {init_test_events(x, Repeat)})

create_ext_packets(w) == allocate_test_ext_pktevents(w, "pkt", Repeat)

create_packets_multi(w) ==
    AndThen(allocate_test_events(w, "pkt", Repeat * Burst),
            LAMBDA x : {init_test_events(x, Repeat * Burst)})

create_sw_events(w) ==
    AndThen(allocate_test_events(w, "sw", Repeat),
            LAMBDA x : {init_test_events(x, Repeat)})

create_sw_events_multi(w) ==
    AndThen(allocate_test_events(w, "sw", Repeat * Burst),
            LAMBDA x : {init_test_events(x, Repeat * Burst)})

create_vectors(w) ==
    AndThen(allocate_test_events(w, "vec", Repeat),
            LAMBDA x : {init_test_events(x, Repeat)})

(* REPEAT_COUNT * burst vectors, of which only REPEAT_COUNT are initialised. *)
create_vectors_multi(w) ==
    AndThen(allocate_test_events(w, "vec", Repeat * Burst),
            LAMBDA x : {init_test_events(x, Repeat)})

(* Free every slot that is not UNDEF and set it to UNDEF.                 *)
free_event_tbl(w, f, n) ==
    Loop(LAMBDA x, k : IF x[f][k] = UNDEF THEN x
                           ELSE [em_free(x, x[f][k]) EXCEPT ![f][k] = UNDEF],
             w, n)

free_events(w) == {free_event_tbl(w, "tbl", Repeat)}

free_events_multi(w) == {free_event_tbl(w, "tbl", Repeat * Burst)}

(* Mutant: the vectors are freed with the size the run left set.         *)
free_vectors_NoReset(w) == free_events(w)

(* The size set by event_vector_size_set() is put back to 0 first.        *)
free_vectors(w) ==
    free_events(Loop(LAMBDA x, k : em_event_vector_size_set(x, x.tbl[k], 0),
                         w, Repeat))

(* Mutant: the clones or references in event2_tbl are not freed.         *)
free_clone_events_TblOnly(w) == {free_event_tbl(w, "tbl", Repeat)}

free_clone_events(w) ==
    {free_event_tbl(free_event_tbl(w, "tbl", Repeat), "tbl2", Repeat)}

-----------------------------------------------------------------------------
(* The run functions; ret is what they return, 0 meaning failure.         *)

event_alloc(w, p) ==
    ForEach({[w EXCEPT !.ret = Repeat]}, Repeat,
            LAMBDA x, k : em_alloc(x, "tbl", k, p))

event_alloc_multi(w, p) ==
    ForEach({[w EXCEPT !.ret = 0]}, Repeat,
            LAMBDA x, k : {[y EXCEPT !.ret = @ + y.last]
                             : y \in em_alloc_multi(x, k * Burst, Burst, p)})

(* Each event allocated is freed at once; the loop leaves no trace.       *)
alloc_free(w, p) == {[w EXCEPT !.ret = Repeat]}

(* The burst is allocated into event_tbl[0..] and freed from there; the   *)
(* freed handles stay in the table.                                       *)
alloc_free_multi(w, p) ==
    ForEach({[w EXCEPT !.ret = Repeat]}, Repeat,
            LAMBDA x, k : {em_free_multi(y, 0, y.last)
                             : y \in em_alloc_multi(x, 0, Burst, p)})

event_free(w) ==
    {Loop(LAMBDA x, k : em_free(x, x.tbl[k]),
              [w EXCEPT !.ret = Repeat], Repeat)}

event_free_multi(w) ==
    {Loop(LAMBDA x, k : em_free_multi(x, k * Burst, Burst),
              [w EXCEPT !.ret = Repeat], Repeat)}

event_pointer(w) == TouchAll(w, Repeat, Repeat)

event_uarea_get(w) == TouchAll(w, Repeat, Repeat)

(* Returns the user area size, UAREA_SIZE = 8.                            *)
event_uarea_get_size(w) == TouchAll(w, Repeat, 8)

event_get_size(w) == TouchAll(w, Repeat, Repeat)

event_get_type(w) == TouchAll(w, Repeat, Repeat)

(* Returns the sum of the per-burst counts, burst_size each.              *)
event_get_type_multi(w) == TouchAll(w, Repeat * Burst, Repeat * Burst)

event_same_type_multi(w) == TouchAll(w, Repeat * Burst, Repeat * Burst)

event_set_type(w) == TouchAll(w, Repeat, Repeat)

event_get_pool(w) == TouchAll(w, Repeat, Repeat)

(* Returns i + isset, never 0.                                            *)
event_uarea_id_get(w) == TouchAll(w, Repeat, Repeat)

event_uarea_id_set(w) == TouchAll(w, Repeat, Repeat)

event_uarea_info(w) == TouchAll(w, Repeat, Repeat)

(* Returns !(number of events with a reference): the events of its init   *)
(* have none, since event_ref()'s references are freed by its term.       *)
event_has_ref(w) == TouchAll(w, Repeat, 1)

event_ref(w) ==
    ForEach({[w EXCEPT !.ret = Repeat]}, Repeat, LAMBDA x, k : em_event_ref(x, k))

event_clone(w) ==
    ForEach({[w EXCEPT !.ret = Repeat]}, Repeat,
            LAMBDA x, k : em_event_clone(x, k))

event_vector_free(w) ==
    {Loop(LAMBDA x, k : em_event_vector_free(x, x.tbl[k]),
              [w EXCEPT !.ret = Repeat], Repeat)}

(* The sum of the sizes of the vectors in event_tbl[0..REPEAT_COUNT-1].   *)
VectorSizes(w) ==
    Loop(LAMBDA a, k : a + (IF w.tbl[k] \in Events("vec")
                                THEN w.vs[w.tbl[k]] ELSE 0),
             0, Repeat)

(* Both return !(sum of the vector sizes).                                *)
event_vector_tbl(w) ==
    TouchAll(w, Repeat, IF VectorSizes(w) = 0 THEN 1 ELSE 0)

event_vector_size(w) ==
    TouchAll(w, Repeat, IF VectorSizes(w) = 0 THEN 1 ELSE 0)

(* Returns the sum of the maximum sizes, positive.                        *)
event_vector_max_size(w) == TouchAll(w, Repeat, Repeat)

event_vector_size_set(w) ==
    {Loop(LAMBDA x, k : em_event_vector_size_set(x, x.tbl[k], 1),
              [w EXCEPT !.ret = Repeat], Repeat)}

event_vector_info(w) == TouchAll(w, Repeat, Repeat)

core_id(w) == {[w EXCEPT !.ret = Repeat]}

core_count(w) == {[w EXCEPT !.ret = Repeat]}

(* odp_event_tbl[i] = em_odp_event2odp(event_tbl[i]), and back: the       *)
(* conversions keep the identity of the event.                            *)
odp_event2odp(w) ==
    {[w EXCEPT !.odp = [s \in Slots |-> IF s < Repeat THEN w.tbl[s]
                                                      ELSE w.odp[s]],
               !.ret = Repeat]}

odp_events2odp(w) == {[w EXCEPT !.odp = w.tbl, !.ret = Repeat]}

odp_event2em(w) ==
    {[w EXCEPT !.tbl = [s \in Slots |-> IF s < Repeat THEN w.odp[s]
                                                      ELSE w.tbl[s]],
               !.ret = Repeat]}

odp_events2em(w) == {[w EXCEPT !.tbl = w.odp, !.ret = Repeat]}

(* Returns 0 at the first em_send() that fails.                           *)
unsched_send(w) ==
    {[Loop(LAMBDA x, k : em_send(x, x.tbl[k]), w, c)
        EXCEPT !.ret = IF c = Repeat THEN Repeat ELSE 0]
       : c \in SendCounts(Repeat)}

unsched_send_multi(w) ==
    Checked(ForEach({[w EXCEPT !.ret = 0]}, Repeat,
                    LAMBDA x, k : {[y EXCEPT !.ret = @ + y.last]
                                     : y \in em_send_multi(x, k * Burst, Burst)}),
            Repeat * Burst)

(* Returns 0 at the first dequeue that finds the queue empty.             *)
unsched_dequeue(w) ==
    LET n == IF Len(w.q) >= Repeat THEN Repeat ELSE Len(w.q) + 1
    IN {[Loop(LAMBDA x, k : em_queue_dequeue(x, k), w, n)
           EXCEPT !.ret = IF Len(w.q) >= Repeat THEN Repeat ELSE 0]}

unsched_dequeue_multi(w) ==
    Checked(ForEach({[w EXCEPT !.ret = 0]}, Repeat,
                    LAMBDA x, k : {[y EXCEPT !.ret = @ + y.last]
                                     : y \in em_queue_dequeue_multi(x, k * Burst, Burst)}),
            Repeat * Burst)

(* Send and dequeue back into the same slot; 0 at the first failed send.  *)
unsched_send_dequeue(w) ==
    {[Loop(LAMBDA x, k : em_queue_dequeue(em_send(x, x.tbl[k]), k), w, c)
        EXCEPT !.ret = IF c = Repeat THEN Repeat ELSE 0]
       : c \in SendCounts(Repeat)}

(* ret2 counts the events sent, ret those dequeued.                       *)
unsched_send_dequeue_multi(w) ==
    LET Round(x, k) ==
          AndThen({[y EXCEPT !.ret2 = @ + y.last] : y \in em_send_multi(x, k * Burst, Burst)},
                  LAMBDA y : {[z EXCEPT !.ret = @ + z.last]
                                : z \in em_queue_dequeue_multi(y, k * Burst, Burst)})
        S == ForEach({[w EXCEPT !.ret = 0, !.ret2 = 0]}, Repeat, Round)
    IN {[x EXCEPT !.ret = IF x.ret2 = Repeat * Burst /\ @ = Repeat * Burst
                          THEN @ ELSE 0] : x \in S}

(* A term and two inits built from the run functions, their returns ignored. *)
unsched_dequeue_free(w) == AndThen(unsched_dequeue(w), free_events)

unsched_dequeue_free_multi(w) == AndThen(unsched_dequeue_multi(w), free_events_multi)

create_send_unsched_sw_events(w) == AndThen(create_sw_events(w), unsched_send)

create_send_unsched_sw_events_multi(w) ==
    AndThen(create_sw_events_multi(w), unsched_send_multi)

-----------------------------------------------------------------------------
(* test_suite[]: BENCH_INFO(run, init, term, max_rounds, desc), with ""   *)
(* for NULL; the names and descriptions are only printed.                 *)

Info(run, init, term, max) ==
    [run |-> run, init |-> init, term |-> term, max_rounds |-> max]

TestSuite ==
  <<
    Info("event_sw_alloc", "", "free_events", 0),
    Info("event_pkt_alloc", "", "free_events", 0),
    Info("event_vector_alloc", "", "free_events", 0),
    Info("event_sw_alloc_multi", "", "free_events_multi", 0),
    Info("event_pkt_alloc_multi", "", "free_events_multi", 0),
    Info("event_vector_alloc_multi", "", "free_events_multi", 0),
    Info("event_free", "create_sw_events", "", 0),
    Info("event_free", "create_packets", "", 0),
    Info("event_free", "create_vectors", "", 0),
    Info("event_free_multi", "create_sw_events_multi", "", 0),
    Info("event_free_multi", "create_packets_multi", "", 0),
    Info("event_free_multi", "create_vectors_multi", "", 0),
    Info("event_vector_free", "create_vectors", "", 0),
    Info("event_sw_alloc_free", "", "", 0),
    Info("event_pkt_alloc_free", "", "", 0),
    Info("event_vector_alloc_free", "", "", 0),
    Info("event_sw_alloc_free_multi", "", "", 0),
    Info("event_pkt_alloc_free_multi", "", "", 0),
    Info("event_vector_alloc_free_multi", "", "", 0),
    Info("unsched_send", "create_sw_events", "unsched_dequeue_free", 0),
    Info("unsched_send_multi", "create_sw_events_multi", "unsched_dequeue_free_multi", 0),
    Info("unsched_dequeue", "create_send_unsched_sw_events", "free_events", 0),
    Info("unsched_dequeue_multi", "create_send_unsched_sw_events_multi", "free_events_multi", 0),
    Info("unsched_send_dequeue", "create_sw_events", "free_events", 0),
    Info("unsched_send_dequeue_multi", "create_sw_events_multi", "free_events_multi", 0),
    Info("event_clone", "create_sw_events", "free_clone_events", 0),
    Info("event_clone", "create_packets", "free_clone_events", 0),
    Info("event_has_ref", "create_packets", "free_events", 0),
    Info("event_ref", "create_packets", "free_clone_events", 0),
    Info("event_pointer", "create_sw_events", "free_events", 0),
    Info("event_pointer", "create_packets", "free_events", 0),
    Info("event_uarea_get", "create_sw_events", "free_events", 0),
    Info("event_uarea_get", "create_packets", "free_events", 0),
    Info("event_uarea_get", "create_ext_packets", "free_events", 0),
    Info("event_uarea_get_size", "create_sw_events", "free_events", 0),
    Info("event_uarea_get_size", "create_packets", "free_events", 0),
    Info("event_uarea_get_size", "create_ext_packets", "free_events", 0),
    Info("event_uarea_id_get", "create_sw_events", "free_events", 0),
    Info("event_uarea_id_get", "create_packets", "free_events", 0),
    Info("event_uarea_id_get", "create_ext_packets", "free_events", 0),
    Info("event_uarea_id_set", "create_sw_events", "free_events", 0),
    Info("event_uarea_id_set", "create_packets", "free_events", 0),
    Info("event_uarea_id_set", "create_ext_packets", "free_events", 0),
    Info("event_uarea_info", "create_sw_events", "free_events", 0),
    Info("event_uarea_info", "create_packets", "free_events", 0),
    Info("event_uarea_info", "create_ext_packets", "free_events", 0),
    Info("event_get_size", "create_sw_events", "free_events", 0),
    Info("event_get_size", "create_packets", "free_events", 0),
    Info("event_get_type", "create_sw_events", "free_events", 0),
    Info("event_get_type", "create_packets", "free_events", 0),
    Info("event_get_type_multi", "create_sw_events_multi", "free_events_multi", 0),
    Info("event_get_type_multi", "create_packets_multi", "free_events_multi", 0),
    Info("event_same_type_multi", "create_sw_events_multi", "free_events_multi", 0),
    Info("event_same_type_multi", "create_packets_multi", "free_events_multi", 0),
    Info("event_set_type", "create_sw_events", "free_events", 0),
    Info("event_set_type", "create_packets", "free_events", 0),
    Info("event_get_pool", "create_sw_events", "free_events", 0),
    Info("event_get_pool", "create_packets", "free_events", 0),
    Info("event_vector_tbl", "create_vectors", "free_events", 0),
    Info("event_vector_size", "create_vectors", "free_events", 0),
    Info("event_vector_max_size", "create_vectors", "free_events", 0),
    Info("event_vector_size_set", "create_vectors", "free_vectors", 0),
    Info("event_vector_info", "create_vectors", "free_vectors", 0),
    Info("core_id", "", "", 0),
    Info("core_count", "", "", 0),
    Info("odp_event2odp", "create_sw_events", "free_events", 0),
    Info("odp_event2odp", "create_packets", "free_events", 0),
    Info("odp_events2odp", "create_sw_events_multi", "free_events_multi", 0),
    Info("odp_events2odp", "create_packets_multi", "free_events_multi", 0),
    Info("odp_event2em", "create_sw_events", "free_events", 0),
    Info("odp_event2em", "create_packets", "free_events", 0),
    Info("odp_events2em", "create_sw_events_multi", "free_events_multi", 0),
    Info("odp_events2em", "create_packets_multi", "free_events_multi", 0)
  >>

ASSUME SuiteAssumption ==
    /\ NumBench = Len(TestSuite)
    /\ MaxRounds = [k \in Cases |-> TestSuite[k + 1].max_rounds]

(* bench->init(), if set.                                                 *)
InitOf(name, w) ==
    CASE name = "create_packets"       -> create_packets(w)
      [] name = "create_ext_packets"   -> create_ext_packets(w)
      [] name = "create_packets_multi" -> create_packets_multi(w)
      [] name = "create_sw_events"     -> create_sw_events(w)
      [] name = "create_sw_events_multi" -> create_sw_events_multi(w)
      [] name = "create_vectors"       -> create_vectors(w)
      [] name = "create_vectors_multi" -> create_vectors_multi(w)
      [] name = "create_send_unsched_sw_events" ->
             create_send_unsched_sw_events(w)
      [] name = "create_send_unsched_sw_events_multi" ->
             create_send_unsched_sw_events_multi(w)
      [] OTHER -> {w}

(* bench->term(), if set.                                                 *)
TermOf(name, w) ==
    CASE name = "free_events"        -> free_events(w)
      [] name = "free_events_multi"  -> free_events_multi(w)
      [] name = "free_vectors"       -> free_vectors(w)
      [] name = "free_clone_events"  -> free_clone_events(w)
      [] name = "unsched_dequeue_free" -> unsched_dequeue_free(w)
      [] name = "unsched_dequeue_free_multi" -> unsched_dequeue_free_multi(w)
      [] OTHER -> {w}

(* bench->run(), with the pool and type each wrapper passes.              *)
RunOf(name, w) ==
    CASE name = "event_sw_alloc"      -> event_alloc(w, "sw")
      [] name = "event_pkt_alloc"     -> event_alloc(w, "pkt")
      [] name = "event_vector_alloc"  -> event_alloc(w, "vec")
      [] name = "event_sw_alloc_multi"     -> event_alloc_multi(w, "sw")
      [] name = "event_pkt_alloc_multi"    -> event_alloc_multi(w, "pkt")
      [] name = "event_vector_alloc_multi" -> event_alloc_multi(w, "vec")
      [] name = "event_sw_alloc_free"      -> alloc_free(w, "sw")
      [] name = "event_pkt_alloc_free"     -> alloc_free(w, "pkt")
      [] name = "event_vector_alloc_free"  -> alloc_free(w, "vec")
      [] name = "event_sw_alloc_free_multi"     -> alloc_free_multi(w, "sw")
      [] name = "event_pkt_alloc_free_multi"    -> alloc_free_multi(w, "pkt")
      [] name = "event_vector_alloc_free_multi" -> alloc_free_multi(w, "vec")
      [] name = "event_free"            -> event_free(w)
      [] name = "event_free_multi"      -> event_free_multi(w)
      [] name = "event_pointer"         -> event_pointer(w)
      [] name = "event_uarea_get"       -> event_uarea_get(w)
      [] name = "event_uarea_get_size"  -> event_uarea_get_size(w)
      [] name = "event_get_size"        -> event_get_size(w)
      [] name = "event_get_type"        -> event_get_type(w)
      [] name = "event_get_type_multi"  -> event_get_type_multi(w)
      [] name = "event_same_type_multi" -> event_same_type_multi(w)
      [] name = "event_set_type"        -> event_set_type(w)
      [] name = "event_get_pool"        -> event_get_pool(w)
      [] name = "event_uarea_id_get"    -> event_uarea_id_get(w)
      [] name = "event_uarea_id_set"    -> event_uarea_id_set(w)
      [] name = "event_uarea_info"      -> event_uarea_info(w)
      [] name = "event_has_ref"         -> event_has_ref(w)
      [] name = "event_ref"             -> event_ref(w)
      [] name = "event_clone"           -> event_clone(w)
      [] name = "event_vector_free"     -> event_vector_free(w)
      [] name = "event_vector_tbl"      -> event_vector_tbl(w)
      [] name = "event_vector_size"     -> event_vector_size(w)
      [] name = "event_vector_max_size" -> event_vector_max_size(w)
      [] name = "event_vector_size_set" -> event_vector_size_set(w)
      [] name = "event_vector_info"     -> event_vector_info(w)
      [] name = "core_id"               -> core_id(w)
      [] name = "core_count"            -> core_count(w)
      [] name = "odp_event2odp"         -> odp_event2odp(w)
      [] name = "odp_events2odp"        -> odp_events2odp(w)
      [] name = "odp_event2em"          -> odp_event2em(w)
      [] name = "odp_events2em"         -> odp_events2em(w)
      [] name = "unsched_send"          -> unsched_send(w)
      [] name = "unsched_send_multi"    -> unsched_send_multi(w)
      [] name = "unsched_dequeue"       -> unsched_dequeue(w)
      [] name = "unsched_dequeue_multi" -> unsched_dequeue_multi(w)
      [] name = "unsched_send_dequeue"  -> unsched_send_dequeue(w)
      [] name = "unsched_send_dequeue_multi" -> unsched_send_dequeue_multi(w)

-----------------------------------------------------------------------------
(* The worker with the cases.                                             *)

VARIABLES
    tbl,      \* gbl_args->event_tbl[0 .. REPEAT_COUNT * burst - 1]
    tbl2,     \* gbl_args->event2_tbl[0 .. REPEAT_COUNT - 1]
    odpTbl,   \* gbl_args->odp_event_tbl, as the events it converts
    owner,    \* each event: free in its pool, held by the program, enqueued
    vsize,    \* the size set on each vector event
    uq,       \* the unscheduled queue, head first
    misuse,   \* history: some EM call was made on an event not held
    poolDel,  \* main() has called em_pool_delete() on the pools
    queueDel  \* delete_queues() has deleted the unscheduled queue

evVars == <<tbl, tbl2, odpTbl, owner, vsize, uq, misuse>>

exitVars == <<poolDel, queueDel>>

evAll == <<vars, evVars, exitVars>>

Cur == [tbl |-> tbl, tbl2 |-> tbl2, odp |-> odpTbl, own |-> owner,
        vs |-> vsize, q |-> uq, bad |-> misuse, abort |-> FALSE,
        ret |-> 0, ret2 |-> 0, last |-> 0]

Store(w) ==
    /\ tbl' = w.tbl /\ tbl2' = w.tbl2 /\ odpTbl' = w.odp /\ owner' = w.own
    /\ vsize' = w.vs /\ uq' = w.q /\ misuse' = w.bad

(* args->bench[j]                                                         *)
Bench == TestSuite[j + 1]

(* bench->init() if set, then bench->run().                               *)
InitAndRun == AndThen(InitOf(Bench.init, Cur), LAMBDA x : RunOf(Bench.run, x))

(* main() zeroes the tables: every slot is EM_EVENT_UNDEF.                *)
EvInit ==
    /\ Init
    /\ tbl = [s \in Slots |-> UNDEF]
    /\ tbl2 = [s \in Slots2 |-> UNDEF]
    /\ odpTbl = [s \in Slots |-> UNDEF]
    /\ owner = [h \in Handles |-> "pool"]
    /\ vsize = [h \in Handles |-> 0]
    /\ uq = <<>>
    /\ misuse = FALSE
    /\ poolDel = FALSE
    /\ queueDel = FALSE

(* The steps of the driver that run no case code.                         *)
DriverStep ==
    /\ \/ InitCore \/ CreatePools \/ NextCase \/ NextPass \/ PassesDone
       \/ SkipCase \/ StartIndef \/ IndefTest \/ TermCore
    /\ UNCHANGED <<evVars, exitVars>>

(* A round whose run() returns 0: bench_failed = -1, term() skipped.      *)
CaseRoundFails ==
    /\ RoundFails
    /\ \E x \in InitAndRun : ~x.abort /\ x.ret = 0 /\ Store(x)
    /\ UNCHANGED exitVars

(* A round whose run() succeeds, then term().                             *)
CaseRoundDone ==
    /\ RoundDone \/ CaseDone
    /\ \E x \in InitAndRun :
          /\ ~x.abort /\ x.ret # 0
          /\ \E y \in TermOf(Bench.term, x) : Store(y)
    /\ UNCHANGED exitVars

(* ODPH_ABORT() in init: allocate_test_events() gave up.                  *)
CaseAbort ==
    /\ wpc = "body" /\ opt.bench_idx = 0
    /\ \E x \in InitAndRun : x.abort /\ Store(x)
    /\ wpc' = "aborted"
    /\ CountLate
    /\ UNCHANGED <<opt, i, j, round, total, reports, benchFailed, exitThread,
                   wret, exitVars>>

(* run_indef(): init(), run(), term() whatever run() returned, and only   *)
(* then ODPH_ABORT() on 0.                                                *)
IndefCase ==
    /\ IndefRound
    /\ \E x \in InitAndRun :
          IF x.abort
          THEN wpc' = "aborted" /\ Store(x)
          ELSE /\ wpc' = IF x.ret = 0 THEN "aborted" ELSE "indef"
               /\ \E y \in TermOf(Bench.term, x) : Store(y)
    /\ UNCHANGED exitVars

(* main() after odph_thread_join(): em_pool_delete() of the three pools.  *)
(* The events the program still holds or has enqueued stay where they   *)
(* are; their pool is gone.                                               *)
PoolDelete ==
    /\ wpc = "done"
    /\ ~poolDel
    /\ poolDel' = TRUE
    /\ UNCHANGED <<vars, evVars, queueDel>>

(* delete_queues(), called after the pools are deleted: em_queue_dequeue() *)
(* and em_free() until the queue is empty, then em_queue_delete().        *)
delete_queues ==
    /\ poolDel
    /\ ~queueDel
    /\ owner' = [h \in Handles |-> IF h \in Range(uq) THEN "pool" ELSE owner[h]]
    /\ uq' = <<>>
    /\ queueDel' = TRUE
    /\ UNCHANGED <<vars, tbl, tbl2, odpTbl, vsize, misuse, poolDel>>

EvNext ==
    \/ DriverStep
    \/ CaseRoundFails \/ CaseRoundDone \/ CaseAbort \/ IndefCase
    \/ SigHandler /\ UNCHANGED <<evVars, exitVars>>
    \/ PoolDelete \/ delete_queues

EvSpec == EvInit /\ [][EvNext]_evAll

-----------------------------------------------------------------------------

(* No EM call of the cases is made on an event the program does not hold: *)
(* no double free, no free of an event still in the unscheduled queue, no *)
(* use after free, and no em_free() of a vector whose size was left set.  *)
NoBadUse == ~misuse

(* What spec section 5 asks of the cases: what a round's init and run     *)
(* take is given back by its term, so that between rounds every event is  *)
(* free in its pool and the unscheduled queue is empty.                   *)
RoundReleasesAll ==
    wpc \in {"loop", "indef"} => \A h \in Handles : owner[h] = "pool"

(* What spec sections 4.1 and 5 ask of the teardown: resources are       *)
(* borrowed per round and given back by term(), so when main() deletes   *)
(* the pools after the join every event is back in its pool and none is  *)
(* left in the unscheduled queue for delete_queues() to free.            *)
PoolsDeletedEmpty ==
    [][PoolDelete => \A h \in Handles : owner[h] = "pool"]_evAll

=============================================================================
