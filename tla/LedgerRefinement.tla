-------------------------- MODULE LedgerRefinement --------------------------
(* ProbeScheduler implements ProbeLedger.  The state of a key is read off   *)
(* the plan that claimed it.                                                *)
EXTENDS ProbeScheduler

(* A plan is at the key, at one of the places in S; it has run it.         *)
At(k, S)   == \E t \in Plan : pc[t] \in S /\ KeyOf(t) = k
HasRun(k)  == \E t \in Plan, p \in Probe : ran[t][p] # None /\ k = <<open[t], NameOf[p]>>

StateOf(k) ==
  IF k \notin seen THEN "unclaimed"
  ELSE IF HasRun(k) THEN "settled"
  ELSE IF At(k, {"run"}) THEN "connected"
  ELSE IF At(k, {"host", "probe"}) THEN "claimed"
  ELSE "abandoned"

Ledger == [k \in Endpoint \X Name |-> StateOf(k)]

Abstract == INSTANCE ProbeLedger WITH ledger <- Ledger

(* Every behaviour of the scheduler is one of the ledger, fairness and all: *)
(* no key is used twice or goes back, no connection exceeds a limit, and    *)
(* every claim is settled or abandoned.                                     *)
ImplementsLedger == Abstract!Spec

=============================================================================
