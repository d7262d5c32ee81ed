---------------------------- MODULE MCEventTable ----------------------------
(***************************************************************************)
(* EventTable for TLC: the whole test_suite[], REPEAT_COUNT = 2 and a     *)
(* burst of 2, so that every *_multi loop has two bursts of two events,   *)
(* --rounds 1 or 2, and every --index.  The pools hold 4 events each.     *)
(***************************************************************************)
EXTENDS EventTable, TLC

CONSTANTS s1, s2, s3, s4, p1, p2, p3, p4, v1, v2, v3, v4, r1, r2

MCNumBench == 73

MCMaxRounds == [k \in 0..72 |-> 0]

MCMaxOptRounds == 2

MCRepeat == 2

MCBurst == 2

MCPoolHandles ==
    [p \in {"sw", "pkt", "vec", "ref"} |->
        CASE p = "sw"  -> <<s1, s2, s3, s4>>
          [] p = "pkt" -> <<p1, p2, p3, p4>>
          [] p = "vec" -> <<v1, v2, v3, v4>>
          [] p = "ref" -> <<r1, r2>>]

=============================================================================
