---------------------------- MODULE ProbeLedger ----------------------------
(***************************************************************************)
(* What the probe scheduler promises about network work, with no tasks,    *)
(* semaphores or channels: every key (endpoint, probe name) is used once,  *)
(* goes forward only, and connections respect the host and the probe       *)
(* limit.  ProbeScheduler implements this specification (module LedgerRefinement). *)
(***************************************************************************)
EXTENDS Integers, FiniteSets

CONSTANTS Ip, Port, Name, PerHost, PerProbe

VARIABLE ledger

Key == [ip : Ip, port : Port] \X Name

Connected == {k \in Key : ledger[k] = "connected"}

Init == ledger = [k \in Key |-> "unclaimed"]

Move(k, from, to) ==
  /\ ledger[k] \in from
  /\ ledger' = [ledger EXCEPT ![k] = to]

Claim(k) == Move(k, {"unclaimed"}, "claimed")

Connect(k) ==
  /\ Move(k, {"claimed"}, "connected")
  /\ Cardinality({c \in Connected : c[1].ip = k[1].ip}) < PerHost
  /\ Cardinality({c \in Connected : c[2] = k[2]}) < PerProbe

Settle(k) == Move(k, {"connected"}, "settled")

(* The plan was aborted, or its result could not be sent.                  *)
Abandon(k) == Move(k, {"claimed", "connected"}, "abandoned")

Progress(k) == Connect(k) \/ Settle(k) \/ Abandon(k)

Next == \E k \in Key : Claim(k) \/ Progress(k)

Spec == Init /\ [][Next]_ledger /\ \A k \in Key : WF_ledger(Progress(k))

=============================================================================
