------------------------- MODULE MCProbeScheduler -------------------------
(* Instances of ProbeScheduler for TLC.                                    *)
EXTENDS ProbeScheduler, TLC

CONSTANTS i1, i2, p1, p2, t1, t2, t3, t4, n1, n2

(* Three probes: the first is scoped to port p1, the last to port p2; the  *)
(* first and the second have one name.  So the second is skipped on p1,    *)
(* and runs on p2, where the third, of a name of its own, follows it.      *)
Scoped == [p \in 1..NProbes |->
  [ip : Ip, port : IF p = 1 THEN {p1} ELSE IF p = 2 THEN Port ELSE {p2}]]
Namesake == [p \in 1..NProbes |-> IF p <= 2 THEN n1 ELSE n2]

(* A match by an answer; a match without a read; a timeout; an answer that *)
(* matches nothing, under a status that is retried.                        *)
Confirmation == [verdict |-> "confirmed", responsive |-> TRUE, transient |-> FALSE]
SilentMatch  == [verdict |-> "confirmed", responsive |-> FALSE, transient |-> FALSE]
Timeout      == [verdict |-> "neither", responsive |-> FALSE, transient |-> TRUE]
Mismatch     == [verdict |-> "neither", responsive |-> TRUE, transient |-> TRUE]
MatchOrTimeout      == {Confirmation, Timeout}
SilentMatchOrAnswer == {SilentMatch, Mismatch}

(* Each endpoint of port p1 arrives once, of p2 twice; or two endpoints    *)
(* arrive, or one of them twice.                                           *)
OneAndTwo == {[e \in Endpoint |-> IF e.port = p1 THEN 1 ELSE 2]}
AnyTwo ==
  {[e \in Endpoint |-> (IF e = f THEN 1 ELSE 0) + (IF e = g THEN 1 ELSE 0)] :
     f, g \in Endpoint}

PlanSymmetry == Permutations(Plan)
=============================================================================
