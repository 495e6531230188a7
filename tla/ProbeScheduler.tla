--------------------------- MODULE ProbeScheduler ---------------------------
(***************************************************************************)
(* The probe scheduler, src/probe/scheduler.rs.                            *)
(*                                                                         *)
(* One loop task receives open endpoints and spawns a plan task for each.  *)
(* A plan task walks the probes in plan order.  The tasks share the set of *)
(* claimed (endpoint, probe name) keys, a semaphore per host kept in a map *)
(* with reference counts, a semaphore per probe name, a global semaphore,  *)
(* and the bounded result channel.  Two documents may give their probes    *)
(* one name (loading does not reject it): such probes share a key and a    *)
(* semaphore.  The network, the producer of endpoints, the output task,    *)
(* Ctrl+C and the grace timer of main.rs are the environment.              *)
(*                                                                         *)
(* A permit is held exactly while the task is between the `acquire` and    *)
(* the drop of the guard, so the holders of a semaphore are the tasks      *)
(* whose program counter is in that range.  A host semaphore is named by   *)
(* the plan that created it: a map entry that is removed and made again is *)
(* a different semaphore, with all its permits free.                       *)
(*                                                                         *)
(* Faulty variants, each above the definition it varies and used by no     *)
(* other, show that the properties notice a plausible bug:                 *)
(* HostHoldersWholePlan, DroppedAtOnce, NeverSeen, EntryDropped,           *)
(* RetriesOneMore, StillCounted, TrySend, NoShutdownCheck, JoinFirstPlan,  *)
(* AlwaysNext.                                                             *)
(***************************************************************************)
EXTENDS Integers, Sequences, FiniteSets

CONSTANTS
  Ip, Port,          (* addresses and ports that discovery may report      *)
  Plan,              (* identities of plan tasks                           *)
  Arrivals,          (* how often each endpoint may be reported: a bound   *)
  NProbes,           (* length of the probe plan                           *)
  Name, NameOf,      (* NameOf[p]: the name of probe p, not always its own *)
  Scope,             (* Scope[p]: the endpoints that probe p allows        *)
  Outcome,           (* what an execution may return, see AllOutcomes      *)
  Global, PerHost, PerProbe, Retries,  (* SchedulerConfig                  *)
  OutputMode,
  InCap, OutCap,     (* channel capacities, 100_000 in main.rs             *)
  None

Endpoint == [ip : Ip, port : Port]
Probe    == 1..NProbes

(* What the scheduler looks at in an Execution.  The three are independent *)
(* of each other: a program that matches without a read is not responsive, *)
(* and a document may give a mismatch a status that is retried.            *)
AllOutcomes ==
  [verdict : {"confirmed", "probable", "neither"}, responsive : BOOLEAN,
   transient : BOOLEAN]
Confirms(o) == o # None /\ o.verdict = "confirmed"

ASSUME ConstantsAssumption ==
  /\ IsFiniteSet(Plan)
  /\ NProbes \in Nat
  /\ NameOf \in [Probe -> Name]
  /\ Scope \in [Probe -> SUBSET Endpoint]
  /\ Outcome \subseteq AllOutcomes
  /\ Global \in Nat \ {0} /\ PerHost \in Nat \ {0} /\ PerProbe \in Nat \ {0}
  /\ Retries \in Nat
  /\ OutputMode \in {"all", "open", "responsive", "detected", "matched"}
  /\ InCap \in Nat \ {0} /\ OutCap \in Nat \ {0}
  /\ None \notin Plan \cup Endpoint \cup AllOutcomes
ASSUME ArrivalsAssumption == Arrivals \subseteq [Endpoint -> Nat]

VARIABLES
  input, inputOpen,         (* open_rx, and whether its sender is alive     *)
  waiting, sent,            (* the endpoint being sent, and what was so far *)
  loop, cur,                (* the receive loop and the endpoint in hand    *)
  pc, open, idx, tries,     (* plan tasks: where, on what, probe, retries   *)
  ran,                      (* ran[t][p]: the Execution plan t got from p   *)
  seen,                     (* SeenProbes                                   *)
  entries, refs, sem,       (* HostLimits, and host_sem of each plan        *)
  out, outOpen, written,    (* result channel, its receiver, what it wrote  *)
  shutdown,                 (* Shutdown::is_triggered                       *)
  depth,                    (* Metrics::queue_depth                         *)
  dropped                   (* history: counted, then thrown away           *)

loopVars  == <<loop, cur>>
planVars  == <<pc, open, idx, tries, ran>>
hostVars  == <<entries, refs, sem>>
inVars    == <<input, inputOpen, waiting, sent>>
outVars   == <<out, outOpen, written>>
depthVars == <<depth, dropped>>
vars == <<inVars, loopVars, planVars, seen, hostVars, outVars, shutdown, depthVars>>

-----------------------------------------------------------------------------
(* Derived state.                                                          *)

Stopped  == {"done", "failed", "aborted"}
Idle     == {"none", "ok", "err", "cancelled"}
Working  == {"start", "next", "host", "probe", "run", "emit", "leave", "bail"}

Live           == {t \in Plan : pc[t] \in Working}
HostHoldersWholePlan(s) == {t \in Plan : pc[t] \in Working \ {"start"} /\ sem[t] = s}
HostHolders(s) == {t \in Plan : pc[t] \in {"probe", "run", "emit"} /\ sem[t] = s}
DroppedAtOnce(n) == {}
ProbeHolders(n) == {t \in Plan : pc[t] = "run" /\ NameOf[idx[t]] = n}

(* Semaphore::acquire of a host semaphore can complete.                    *)
HostPermitFree(s) == Cardinality(HostHolders(s)) < PerHost

(* The ProbeKey that plan t claims next, and SeenProbes::claim of a key.   *)
KeyOf(t) == <<open[t], NameOf[idx[t]]>>
NeverSeen(k) == TRUE
Unclaimed(k) == k \notin seen

(* The entry of a host after a release: removed when the count was 1.      *)
EntryDropped(ip) == None
EntryAfterRelease(ip) == IF refs[ip] = 1 THEN None ELSE entries[ip]

(* The retry loop goes round again.                                        *)
RetriesOneMore(t, o) == ~Confirms(o) /\ o.transient /\ tries[t] <= Retries
MayRetry(t, o) == ~Confirms(o) /\ o.transient /\ tries[t] < Retries

(* The result records: probe 0 is the discovery record of an open port.    *)
Record(e, p) == [at |-> e, probe |-> p]

ReportsOpen == OutputMode \in {"all", "open"}
Emits(o) ==
  \/ OutputMode = "all"
  \/ OutputMode = "responsive" /\ o.responsive
  \/ OutputMode = "detected" /\ o.verdict \in {"confirmed", "probable"}
  \/ OutputMode = "matched" /\ Confirms(o)

(* Metrics::dec_saturating, and its call when a send fails.                *)
Dequeued(d) == IF d = 0 THEN 0 ELSE d - 1
StillCounted(d) == d
Uncounted(d) == Dequeued(d)

(* out.send(record) completes: it waits for room, and keeps the order.     *)
TrySend(r) == outOpen /\ out' = IF Len(out) < OutCap THEN Append(out, r) ELSE out
Send(r) == outOpen /\ Len(out) < OutCap /\ out' = Append(out, r)

Init ==
  /\ input = <<>> /\ inputOpen = TRUE /\ waiting = None
  /\ sent = [e \in Endpoint |-> 0]
  /\ loop = "recv" /\ cur = None
  /\ pc = [t \in Plan |-> "none"]
  /\ open = [t \in Plan |-> None]
  /\ idx = [t \in Plan |-> 1]
  /\ tries = [t \in Plan |-> 0]
  /\ ran = [t \in Plan |-> [p \in Probe |-> None]]
  /\ seen = {}
  /\ entries = [i \in Ip |-> None]
  /\ refs = [i \in Ip |-> 0]
  /\ sem = [t \in Plan |-> None]
  /\ out = <<>> /\ outOpen = TRUE /\ written = {}
  /\ shutdown = FALSE
  /\ depth = 0 /\ dropped = 0

-----------------------------------------------------------------------------
(* The receive loop.                                                       *)

(* input.recv() returns an endpoint.  When the mode reports open ports the *)
(* loop goes on into send_result, which counts the record first.           *)
Recv ==
  /\ loop = "recv" /\ input # <<>>
  /\ cur' = Head(input)
  /\ input' = Tail(input)
  /\ IF ReportsOpen
       THEN loop' = "report" /\ depth' = Dequeued(depth) + 1
       ELSE loop' = "check" /\ depth' = Dequeued(depth)
  /\ UNCHANGED <<inputOpen, waiting, sent, planVars, seen, hostVars, outVars,
                 shutdown, dropped>>

(* input.recv() returns None; the loop drops its result sender.            *)
RecvClosed ==
  /\ loop = "recv" /\ input = <<>> /\ ~inputOpen
  /\ loop' = "join"
  /\ UNCHANGED <<inVars, cur, planVars, seen, hostVars, outVars, shutdown, depthVars>>

(* The open record is sent, or the error leaves run_probes_with_shutdown,  *)
(* which drops the input with what is in it.                               *)
ReportOpen ==
  /\ loop = "report"
  /\ \/ /\ Send(Record(cur, 0))
        /\ loop' = "check"
        /\ UNCHANGED <<input, depthVars>>
     \/ /\ ~outOpen
        /\ loop' = "failed"
        /\ input' = <<>>
        /\ depth' = Uncounted(depth)
        /\ dropped' = dropped + Len(input)
        /\ out' = out
  /\ UNCHANGED <<inputOpen, waiting, sent, cur, planVars, seen, hostVars, outOpen,
                 written, shutdown>>

(* The shutdown test, which the wait for the global permit comes after.    *)
NoShutdownCheck ==
  /\ loop = "check" /\ loop' = "permit"
  /\ UNCHANGED <<inVars, cur, planVars, seen, hostVars, outVars, shutdown, depthVars>>
CheckShutdown ==
  /\ loop = "check"
  /\ loop' = IF shutdown THEN "recv" ELSE "permit"
  /\ UNCHANGED <<inVars, cur, planVars, seen, hostVars, outVars, shutdown, depthVars>>

(* A global permit is free: the plan is spawned and owns it.               *)
SpawnPlan(t) ==
  /\ loop = "permit" /\ pc[t] = "none"
  /\ Cardinality(Live) < Global
  /\ pc' = [pc EXCEPT ![t] = "start"]
  /\ open' = [open EXCEPT ![t] = cur]
  /\ loop' = "recv"
  /\ cur' = None
  /\ UNCHANGED <<inVars, idx, tries, ran, seen, hostVars, outVars, shutdown, depthVars>>

(* join_next: every plan returned Ok, or one returned an error; returning  *)
(* drops the JoinSet, which aborts the plans that are left.                *)
JoinFirstPlan ==
  /\ loop = "join" /\ \E t \in Plan : pc[t] = "ok"
  /\ loop' = "done"
  /\ UNCHANGED <<inVars, cur, planVars, seen, hostVars, outVars, shutdown, depthVars>>
JoinPlans ==
  /\ loop = "join"
  /\ \/ (\A t \in Plan : pc[t] \in {"none", "ok"}) /\ loop' = "done"
     \/ (\E t \in Plan : pc[t] = "err") /\ loop' = "failed"
  /\ UNCHANGED <<inVars, cur, planVars, seen, hostVars, outVars, shutdown, depthVars>>

-----------------------------------------------------------------------------
(* A plan task.                                                            *)

(* HostLimits::acquire.                                                    *)
AcquireHost(t) ==
  LET ip == open[t].ip
      s  == IF entries[ip] = None THEN t ELSE entries[ip]
  IN
  /\ pc[t] = "start"
  /\ entries' = [entries EXCEPT ![ip] = s]
  /\ refs' = [refs EXCEPT ![ip] = @ + 1]
  /\ sem' = [sem EXCEPT ![t] = s]
  /\ pc' = [pc EXCEPT ![t] = "next"]
  /\ UNCHANGED <<inVars, loopVars, open, idx, tries, ran, seen, outVars, shutdown, depthVars>>

(* The head of run_plan's loop: past the last probe; a probe whose scope   *)
(* excludes the endpoint or whose key is already claimed; or a new claim.  *)
NextProbe(t) ==
  /\ pc[t] = "next"
  /\ \/ /\ idx[t] \notin Probe
        /\ pc' = [pc EXCEPT ![t] = "leave"]
        /\ UNCHANGED <<idx, seen>>
     \/ /\ idx[t] \in Probe
        /\ open[t] \notin Scope[idx[t]] \/ ~Unclaimed(KeyOf(t))
        /\ idx' = [idx EXCEPT ![t] = @ + 1]
        /\ UNCHANGED <<pc, seen>>
     \/ /\ idx[t] \in Probe
        /\ open[t] \in Scope[idx[t]] /\ Unclaimed(KeyOf(t))
        /\ seen' = seen \cup {KeyOf(t)}
        /\ pc' = [pc EXCEPT ![t] = "host"]
        /\ UNCHANGED idx
  /\ UNCHANGED <<inVars, loopVars, open, tries, ran, hostVars, outVars, shutdown, depthVars>>

(* host_sem.acquire(), held to the end of the iteration.                   *)
TakeHostPermit(t) ==
  /\ pc[t] = "host"
  /\ HostPermitFree(sem[t])
  /\ pc' = [pc EXCEPT ![t] = "probe"]
  /\ UNCHANGED <<inVars, loopVars, open, idx, tries, ran, seen, hostVars,
                 outVars, shutdown, depthVars>>

(* probe_limits.get(name).acquire(); the connection starts.                *)
TakeProbePermit(t) ==
  /\ pc[t] = "probe"
  /\ Cardinality(ProbeHolders(NameOf[idx[t]])) < PerProbe
  /\ pc' = [pc EXCEPT ![t] = "run"]
  /\ tries' = [tries EXCEPT ![t] = 0]
  /\ UNCHANGED <<inVars, loopVars, open, idx, ran, seen, hostVars, outVars,
                 shutdown, depthVars>>

(* What run_plan does after a probe: stop on confirmed, or the next probe. *)
AlwaysNext(t, o) ==
  pc' = [pc EXCEPT ![t] = "next"] /\ idx' = [idx EXCEPT ![t] = @ + 1]
After(t, o) ==
  IF Confirms(o)
    THEN pc' = [pc EXCEPT ![t] = "leave"] /\ idx' = idx
    ELSE pc' = [pc EXCEPT ![t] = "next"] /\ idx' = [idx EXCEPT ![t] = @ + 1]

(* An execution ends with outcome o.  A transient failure is retried under *)
(* the same permits; otherwise the probe permit is dropped, and the result *)
(* is sent (send_result counts it first) or the plan moves on.             *)
EndExecution(t, o) ==
  /\ pc[t] = "run"
  /\ \/ /\ MayRetry(t, o)
        /\ tries' = [tries EXCEPT ![t] = @ + 1]
        /\ UNCHANGED <<pc, idx, ran, depth>>
     \/ /\ ~MayRetry(t, o)
        /\ ran' = [ran EXCEPT ![t][idx[t]] = o]
        /\ tries' = tries
        /\ IF Emits(o)
             THEN /\ pc' = [pc EXCEPT ![t] = "emit"]
                  /\ depth' = depth + 1
                  /\ idx' = idx
             ELSE After(t, o) /\ depth' = depth
  /\ UNCHANGED <<inVars, loopVars, open, seen, hostVars, outVars, shutdown, dropped>>

(* send_result: the record enters the channel, or the receiver is gone and *)
(* run_plan returns the error.  The host permit is held until here.        *)
EmitResult(t) ==
  /\ pc[t] = "emit"
  /\ \/ /\ Send(Record(open[t], idx[t]))
        /\ After(t, ran[t][idx[t]])
        /\ depth' = depth
     \/ /\ ~outOpen
        /\ pc' = [pc EXCEPT ![t] = "bail"]
        /\ depth' = Uncounted(depth)
        /\ UNCHANGED <<out, idx>>
  /\ UNCHANGED <<inVars, loopVars, open, tries, ran, seen, hostVars, outOpen,
                 written, shutdown, dropped>>

(* HostLimits::release, on both exits of run_plan; then the task ends and  *)
(* drops its global permit.                                                *)
ReleaseHost(t) ==
  LET ip == open[t].ip IN
  /\ pc[t] \in {"leave", "bail"}
  /\ IF entries[ip] = None
       THEN UNCHANGED <<entries, refs>>
       ELSE /\ refs' = [refs EXCEPT ![ip] = @ - 1]
            /\ entries' = [entries EXCEPT ![ip] = EntryAfterRelease(ip)]
  /\ pc' = [pc EXCEPT ![t] = IF pc[t] = "leave" THEN "ok" ELSE "err"]
  /\ UNCHANGED <<inVars, loopVars, open, idx, tries, ran, seen, sem, outVars,
                 shutdown, depthVars>>

(* A dropped JoinSet aborts its tasks; a task that is running when it is   *)
(* aborted goes on to its next suspension point first.  A send that is     *)
(* cancelled stays counted.                                                *)
CancelPlan(t) ==
  /\ loop \in {"failed", "aborted"} /\ t \in Live
  /\ pc' = [pc EXCEPT ![t] = "cancelled"]
  /\ dropped' = IF pc[t] = "emit" THEN dropped + 1 ELSE dropped
  /\ UNCHANGED <<inVars, loopVars, open, idx, tries, ran, seen, hostVars, outVars,
                 shutdown, depth>>

PlanStep(t) ==
  \/ AcquireHost(t) \/ NextProbe(t) \/ TakeHostPermit(t) \/ TakeProbePermit(t)
  \/ \E o \in Outcome : EndExecution(t, o)
  \/ EmitResult(t) \/ ReleaseHost(t) \/ CancelPlan(t)

LoopStep ==
  \/ Recv \/ RecvClosed \/ ReportOpen \/ CheckShutdown
  \/ \E t \in Plan : SpawnPlan(t)
  \/ JoinPlans

-----------------------------------------------------------------------------
(* The environment: main.rs.                                               *)

(* Discovery or the target list counts an endpoint and then waits to send  *)
(* it.  One of Arrivals, of no more endpoints than there are plan          *)
(* identities, bounds what it reports in all.                              *)
CountOpenPort(e) ==
  /\ inputOpen /\ waiting = None
  /\ sent' = [sent EXCEPT ![e] = @ + 1]
  /\ \E bound \in Arrivals : \A f \in Endpoint : sent'[f] <= bound[f]
  /\ waiting' = e
  /\ depth' = depth + 1
  /\ UNCHANGED <<input, inputOpen, loopVars, planVars, seen, hostVars, outVars,
                 shutdown, dropped>>

SendOpenPort ==
  /\ waiting # None
  /\ loop \notin Stopped /\ Len(input) < InCap
  /\ input' = Append(input, waiting)
  /\ waiting' = None
  /\ UNCHANGED <<inputOpen, sent, loopVars, planVars, seen, hostVars, outVars,
                 shutdown, depthVars>>

(* The receiver is gone or, in probe mode, the shutdown wins the select:   *)
(* the endpoint is un-counted and the producer ends.                       *)
GiveUpOpenPort ==
  /\ waiting # None
  /\ loop \in Stopped \/ shutdown
  /\ waiting' = None
  /\ inputOpen' = FALSE
  /\ depth' = Uncounted(depth)
  /\ UNCHANGED <<input, sent, loopVars, planVars, seen, hostVars, outVars,
                 shutdown, dropped>>

CloseInput ==
  /\ inputOpen /\ waiting = None
  /\ inputOpen' = FALSE
  /\ UNCHANGED <<input, waiting, sent, loopVars, planVars, seen, hostVars, outVars,
                 shutdown, depthVars>>

(* The output task takes a record and writes it.                           *)
WriteResult ==
  /\ outOpen /\ out # <<>>
  /\ written' = written \cup {Head(out)}
  /\ out' = Tail(out)
  /\ depth' = Dequeued(depth)
  /\ UNCHANGED <<inVars, loopVars, planVars, seen, hostVars, outOpen, shutdown,
                 dropped>>

(* A flush fails, or a write of a record that was taken: the receiver goes *)
(* away with what it held, and the task requests shutdown.                 *)
OutputFails ==
  /\ outOpen
  /\ outOpen' = FALSE
  /\ out' = <<>>
  /\ shutdown' = TRUE
  /\ \/ depth' = depth /\ dropped' = dropped + Len(out)
     \/ out # <<>> /\ depth' = Dequeued(depth) /\ dropped' = dropped + Len(out) - 1
  /\ UNCHANGED <<inVars, loopVars, planVars, seen, hostVars, written>>

(* Ctrl+C, or a request by another task of the pipeline.                   *)
RequestShutdown ==
  /\ ~shutdown
  /\ shutdown' = TRUE
  /\ UNCHANGED <<inVars, loopVars, planVars, seen, hostVars, outVars, depthVars>>

(* The grace period expires: scheduler.abort() drops the input and cancels *)
(* the send the loop may be waiting in.                                    *)
AbortScheduler ==
  /\ shutdown /\ loop \notin Stopped
  /\ loop' = "aborted"
  /\ cur' = None
  /\ input' = <<>>
  /\ dropped' = dropped + Len(input) + (IF loop = "report" THEN 1 ELSE 0)
  /\ UNCHANGED <<inputOpen, waiting, sent, planVars, seen, hostVars, outVars,
                 shutdown, depth>>

Producer == SendOpenPort \/ GiveUpOpenPort \/ CloseInput

Environment ==
  \/ \E e \in Endpoint : CountOpenPort(e)
  \/ Producer \/ WriteResult \/ OutputFails \/ RequestShutdown \/ AbortScheduler

Next ==
  \/ LoopStep
  \/ \E t \in Plan : PlanStep(t)
  \/ Environment

Spec == Init /\ [][Next]_vars

(* Every task that can run is run; every execution ends, because connect   *)
(* and each read have a timeout; the target list is finite, so that a      *)
(* producer that waits for nothing closes the channel; the output task     *)
(* drains its channel.  Nothing is assumed of failures and signals.        *)
Fairness ==
  /\ WF_vars(LoopStep)
  /\ \A t \in Plan : WF_vars(PlanStep(t))
  /\ WF_vars(Producer)
  /\ WF_vars(WriteResult)

FairSpec == Spec /\ Fairness

-----------------------------------------------------------------------------
(* Properties.                                                             *)

Spawned    == {t \in Plan : pc[t] # "none"}
PlansOn(e) == {t \in Spawned : open[t] = e}
Queued     == {out[i] : i \in DOMAIN out}

ArrivalTypes == sent \in [Endpoint -> Nat]
ChannelTypes ==
  /\ input \in Seq(Endpoint) /\ inputOpen \in BOOLEAN
  /\ waiting \in Endpoint \cup {None}
  /\ out \in Seq([at : Endpoint, probe : 0..NProbes])
  /\ outOpen \in BOOLEAN
  /\ written \subseteq [at : Endpoint, probe : 0..NProbes]
  /\ shutdown \in BOOLEAN
  /\ depth \in Nat /\ dropped \in Nat
LoopTypes ==
  /\ loop \in {"recv", "report", "check", "permit", "join"} \cup Stopped
  /\ cur \in Endpoint \cup {None}
  /\ loop \in {"report", "check", "permit"} => cur \in Endpoint
PlanTypes ==
  /\ pc \in [Plan -> Idle \cup Working]
  /\ open \in [Plan -> Endpoint \cup {None}]
  /\ \A t \in Plan : pc[t] # "none" => open[t] \in Endpoint
  /\ idx \in [Plan -> 1..NProbes + 1]
  /\ \A t \in Plan : pc[t] \in {"host", "probe", "run", "emit"} => idx[t] \in Probe
  /\ tries \in [Plan -> 0..Retries]
  /\ ran \in [Plan -> [Probe -> Outcome \cup {None}]]
  /\ seen \subseteq Endpoint \X Name
HostTypes ==
  /\ entries \in [Ip -> Plan \cup {None}]
  /\ refs \in [Ip -> Nat]
  /\ sem \in [Plan -> Plan \cup {None}]
TypeOK == ArrivalTypes /\ ChannelTypes /\ LoopTypes /\ PlanTypes /\ HostTypes

(* The limits of SchedulerConfig hold at every moment: live plans, probes  *)
(* that occupy one host, and executions of one name.  The host limit is    *)
(* the hard one: it must survive semaphores that are removed from the map  *)
(* and created again while other plans of the host come and go.            *)
ConnectionLimits ==
  /\ Cardinality(Live) <= Global
  /\ \A i \in Ip : Cardinality({t \in Plan : /\ pc[t] \in {"probe", "run", "emit"}
                                             /\ open[t].ip = i}) <= PerHost
  /\ \A n \in Name : Cardinality(ProbeHolders(n)) <= PerProbe

(* The map holds a semaphore for exactly the hosts with a plan between     *)
(* acquire and release, its count is their number, and they all share it.  *)
(* So a long scan does not accumulate semaphores (FIXES.md F-13), and an   *)
(* entry is never removed under a plan that still uses it.                 *)
Using(i) == {t \in Plan : pc[t] \in Working \ {"start"} /\ open[t].ip = i}
HostEntriesLive ==
  (\A t \in Plan : pc[t] # "cancelled") =>
    \A i \in Ip :
      /\ refs[i] = Cardinality(Using(i))
      /\ entries[i] = None <=> Using(i) = {}
      /\ \A t \in Using(i) : sem[t] = entries[i]

(* An endpoint that arrives twice is never probed twice under one name,    *)
(* nor is an endpoint probed by two probes of one name: the key            *)
(* (IP, PORT, NAME) is claimed once for the whole scan.                    *)
Attempted(t) == {p \in Probe : \/ ran[t][p] # None
                               \/ idx[t] = p /\ pc[t] \in {"host", "probe", "run"}}
ProbedOnce ==
  \A t, u \in Plan : open[t] = open[u] =>
    \A p \in Attempted(t), q \in Attempted(u) :
      NameOf[p] = NameOf[q] => t = u /\ p = q

(* When the scheduler returns Ok, a plan that found a key claimed has not  *)
(* lost the probe: every probe that allows an endpoint has run on it, in   *)
(* whichever plan, or an earlier one of the plan order confirmed, or an    *)
(* earlier probe of the same name allows the endpoint too.  In that last   *)
(* case the later probe never runs, and nothing reports it.                *)
Namesakes(p) == {q \in 1..p - 1 : NameOf[q] = NameOf[p]}
Shadowed(e, p) == \E q \in Namesakes(p) : e \in Scope[q]
Settled(e, p) == \E t \in PlansOn(e) : ran[t][p] # None
Confirmed(e, p) == \E t \in PlansOn(e) : Confirms(ran[t][p])
NoProbeLost ==
  loop = "done" =>
    \A t \in Spawned : \A p \in Probe :
      open[t] \in Scope[p] =>
        IF Shadowed(open[t], p)
          THEN ~Settled(open[t], p)
          ELSE \/ Settled(open[t], p)
               \/ \E q \in 1..p - 1 : Confirmed(open[t], q)

(* What the mode emits is exactly what reaches the channel: no record is   *)
(* lost on the way, none appears without an execution, and no record is    *)
(* sent twice.  (Holds while the output task lives.)                       *)
Awaiting == {Record(open[t], idx[t]) : t \in {u \in Plan : pc[u] = "emit"}}
Lost == {Record(open[t], idx[t]) : t \in {u \in Plan : pc[u] = "cancelled"}}
ProbeRecords ==
  {r \in [at : Endpoint, probe : Probe] :
     \E t \in PlansOn(r.at) : ran[t][r.probe] # None /\ Emits(ran[t][r.probe])}
ResultsDelivered ==
  outOpen =>
    LET sentOut == written \cup Queued
        probes  == {r \in sentOut : r.probe # 0}
    IN  /\ probes \subseteq ProbeRecords \ Awaiting
        /\ ProbeRecords \ (Awaiting \cup Lost) \subseteq probes
        /\ \A i, j \in DOMAIN out : i # j /\ out[i] = out[j] => out[i].probe = 0
        /\ \A r \in Queued : r.probe # 0 => r \notin written

(* A reader of the output meets the open port before any probe of it, in   *)
(* the modes that report both.                                             *)
OpenBeforeProbe ==
  ReportsOpen =>
    \A n \in DOMAIN out :
      out[n].probe # 0 =>
        \/ Record(out[n].at, 0) \in written
        \/ \E k \in 1..n - 1 : out[k] = Record(out[n].at, 0)

(* queue_depth is what is in the two channels and what waits to enter      *)
(* them, plus what was thrown away: on every error path a failed send is   *)
(* un-counted, so the gauge is off by nothing but the contents of a        *)
(* channel whose receiver went away and the sends that were cancelled, and *)
(* exact as long as the output task lives and the loop was not cut short.  *)
Senders == {t \in Plan : pc[t] = "emit"}
InTransit ==
  Len(input) + Len(out) + Cardinality(Senders)
  + (IF waiting # None THEN 1 ELSE 0) + (IF loop = "report" THEN 1 ELSE 0)
DepthExact ==
  /\ depth = InTransit + dropped
  /\ outOpen /\ loop \notin {"failed", "aborted"} => dropped = 0

(* After Ctrl+C the loop may finish the wait it is in, and spawn that one  *)
(* plan, but it never enters another: at most one plan is late.            *)
NoSecondLatePlan ==
  [][shutdown /\ loop # "permit" => loop' # "permit" /\ Spawned' = Spawned]_vars

(* An endpoint that arrived once is left alone after the first confirmed   *)
(* probe: no probe later in the plan order runs on it.                     *)
LaterAfterConfirmed(e) ==
  \E p, q \in Probe : /\ p < q /\ Confirmed(e, p)
                       /\ \E t \in PlansOn(e) : q \in Attempted(t)
ConfirmedStopsPlan ==
  \A e \in Endpoint : Cardinality(PlansOn(e)) = 1 => ~LaterAfterConfirmed(e)

(* The scheduler comes to rest: nobody waits for ever on a host permit, a  *)
(* probe permit, a global permit and the result channel at once, and every *)
(* record that was sent is written unless the output task failed.          *)
ComesToRest ==
  <>(/\ loop \in Stopped /\ Live = {}
     /\ outOpen => out = <<>>)

=============================================================================
