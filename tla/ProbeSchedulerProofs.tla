------------------------ MODULE ProbeSchedulerProofs ------------------------
(***************************************************************************)
(* Theorems about ProbeScheduler, for every value of its constants: types, *)
(* host semaphores, permits, the order and the count of the channels; no   *)
(* probe runs twice on an endpoint, none is lost between two plans of the  *)
(* same endpoint, a confirmed probe ends its plan, what the mode emits is  *)
(* delivered once, and every step is a step of ProbeLedger.                *)
(*                                                                         *)
(* TypeInv is TypeOK with what it takes to be inductive: a host has a map  *)
(* entry exactly when its count is positive, so a release never takes the  *)
(* count below zero.                                                       *)
(***************************************************************************)
EXTENDS LedgerRefinement, FiniteSetTheorems, SequenceTheorems, TLAPS

EntryCounted == \A i \in Ip : entries[i] = None <=> refs[i] = 0

TypeInv == TypeOK /\ EntryCounted

LEMMA TypeInit == Init => TypeInv
<1> SUFFICES ASSUME Init PROVE TypeInv
  OBVIOUS
<1> USE ConstantsAssumption DEF Init
<1>1. ChannelTypes
  BY EmptySeq DEF ChannelTypes
<1>2. LoopTypes
  BY DEF LoopTypes
<1>3. PlanTypes
  BY DEF PlanTypes, Idle, Probe
<1>4. HostTypes /\ EntryCounted
  BY DEF HostTypes, EntryCounted
<1>5. ArrivalTypes
  BY DEF ArrivalTypes
<1>6. QED
  BY <1>1, <1>2, <1>3, <1>4, <1>5 DEF TypeInv, TypeOK

(* The five parts of TypeOK, each disturbed by the actions that write it.  *)

LEMMA DequeuedType == ASSUME NEW d \in Nat PROVE Dequeued(d) \in Nat
BY DEF Dequeued

LEMMA UncountedType == ASSUME NEW d \in Nat PROVE Uncounted(d) \in Nat
BY DequeuedType DEF Uncounted

LEMMA RecvDepth ==
  ASSUME NEW d \in Nat, NEW x, x = Dequeued(d) + 1 \/ x = Dequeued(d)
  PROVE  x \in Nat
<1>1. Dequeued(d) \in Nat
  BY DequeuedType
<1>2. QED
  BY <1>1

LEMMA ThreeTerms ==
  ASSUME NEW a \in Nat, NEW b \in Nat, NEW n \in {0, 1}
  PROVE  a + b + n \in Nat
OBVIOUS

LEMMA ProbeNumber == Probe \subseteq 0..NProbes
BY ConstantsAssumption DEF Probe

LEMMA SendType ==
  ASSUME NEW r \in [at : Endpoint, probe : 0..NProbes], ChannelTypes, Send(r)
  PROVE  out' \in Seq([at : Endpoint, probe : 0..NProbes])
BY DEF Send, ChannelTypes

LEMMA ChannelStep == TypeInv /\ [Next]_vars => ChannelTypes'
<1> SUFFICES ASSUME TypeInv, [Next]_vars PROVE ChannelTypes'
  OBVIOUS
<1> USE DequeuedType, UncountedType DEF TypeInv, TypeOK, ChannelTypes, inVars, outVars, depthVars
<1>0. <<>> \in Seq(Endpoint) /\ Len(input) \in Nat /\ Len(out) \in Nat
  BY EmptySeq, LenProperties
<1>1. CASE Recv
  <2>1. input' \in Seq(Endpoint)
    BY <1>1, HeadTailProperties DEF Recv
  <2>2. depth' \in Nat
    <3>1. depth' = Dequeued(depth) + 1 \/ depth' = Dequeued(depth)
      BY <1>1, Zenon DEF Recv
    <3>2. QED
      BY <3>1, RecvDepth
  <2>3. QED
    BY <1>1, <2>1, <2>2 DEF Recv
<1>2. CASE ReportOpen
  <2>1. Record(cur, 0) \in [at : Endpoint, probe : 0..NProbes]
    <3>1. cur \in Endpoint /\ 0 \in 0..NProbes
      BY <1>2, ConstantsAssumption DEF ReportOpen, LoopTypes
    <3>2. QED
      BY <3>1 DEF Record
  <2>2. out' \in Seq([at : Endpoint, probe : 0..NProbes])
    BY <1>2, <2>1, SendType DEF ReportOpen
  <2>3. UNCHANGED <<inputOpen, waiting, sent, outOpen, written, shutdown>>
    BY <1>2 DEF ReportOpen
  <2>4. CASE UNCHANGED <<input, depthVars>>
    BY <2>2, <2>3, <2>4
  <2>5. CASE input' = <<>> /\ depth' = Uncounted(depth) /\ dropped' = dropped + Len(input)
    <3>1. dropped' \in Nat
      BY <1>0, <2>5
    <3>2. QED
      BY <1>0, <2>2, <2>3, <2>5, <3>1
  <2>6. QED
    BY <1>2, <2>4, <2>5 DEF ReportOpen
<1>3. ASSUME NEW t \in Plan, NEW o \in Outcome, EndExecution(t, o) PROVE ChannelTypes'
  BY <1>3 DEF EndExecution
<1>4. ASSUME NEW t \in Plan, EmitResult(t) PROVE ChannelTypes'
  <2>1. Record(open[t], idx[t]) \in [at : Endpoint, probe : 0..NProbes]
    <3>1. pc[t] = "emit"
      BY <1>4, Zenon DEF EmitResult
    <3>2. open[t] \in Endpoint /\ idx[t] \in Probe
      BY <3>1 DEF PlanTypes
    <3>3. QED
      BY <3>2, ProbeNumber DEF Record
  <2>2. out' \in Seq([at : Endpoint, probe : 0..NProbes])
    BY <1>4, <2>1, SendType DEF EmitResult
  <2>3. QED
    BY <1>4, <2>2 DEF EmitResult
<1>5. ASSUME NEW e \in Endpoint, CountOpenPort(e) PROVE ChannelTypes'
  <2>1. /\ waiting' = e /\ depth' = depth + 1
        /\ UNCHANGED <<input, inputOpen, out, outOpen, written, shutdown, dropped>>
    BY <1>5, Zenon DEF CountOpenPort
  <2>2. QED
    BY <2>1
<1>11. CASE SendOpenPort
  BY <1>11, ConstantsAssumption DEF SendOpenPort
<1>12. CASE GiveUpOpenPort
  BY <1>12 DEF GiveUpOpenPort
<1>13. CASE AbortScheduler
  <2>1. \E n \in {0, 1} : dropped' = dropped + Len(input) + n
    BY <1>13 DEF AbortScheduler
  <2>2. dropped' \in Nat
    BY <1>0, <2>1, ThreeTerms
  <2>3. QED
    BY <1>0, <1>13, <2>2 DEF AbortScheduler
<1>14. ASSUME NEW t \in Plan, CancelPlan(t) PROVE ChannelTypes'
  BY <1>14 DEF CancelPlan
<1>6. CASE WriteResult
  <2>1. Head(out) \in [at : Endpoint, probe : 0..NProbes]
    BY <1>6, HeadTailProperties DEF WriteResult
  <2>2. out' \in Seq([at : Endpoint, probe : 0..NProbes])
    BY <1>6, HeadTailProperties DEF WriteResult
  <2>3. QED
    BY <1>6, <2>1, <2>2 DEF WriteResult
<1>7. CASE OutputFails
  <2>1. out' \in Seq([at : Endpoint, probe : 0..NProbes])
    BY <1>7, EmptySeq DEF OutputFails
  <2>2. depth' \in Nat /\ dropped' \in Nat
    <3>1. CASE depth' = depth /\ dropped' = dropped + Len(out)
      BY <1>0, <3>1
    <3>2. CASE out # <<>> /\ depth' = Dequeued(depth) /\ dropped' = dropped + Len(out) - 1
      <4>1. Len(out) \in Nat \ {0}
        BY <1>0, <3>2, EmptySeq
      <4>2. QED
        BY <3>2, <4>1
    <3>3. QED
      BY <1>7, <3>1, <3>2 DEF OutputFails
  <2>3. QED
    BY <1>7, <2>1, <2>2 DEF OutputFails
<1>8. CASE CloseInput \/ RequestShutdown
  BY <1>8 DEF CloseInput, RequestShutdown
<1>9. CASE \/ UNCHANGED vars \/ RecvClosed \/ CheckShutdown \/ JoinPlans
           \/ \E t \in Plan : \/ SpawnPlan(t) \/ AcquireHost(t) \/ NextProbe(t)
                             \/ TakeHostPermit(t) \/ TakeProbePermit(t)
                             \/ ReleaseHost(t)
  BY <1>9, ZenonT(30) DEF vars, RecvClosed, CheckShutdown, JoinPlans, SpawnPlan,
     AcquireHost, NextProbe, TakeHostPermit, TakeProbePermit, ReleaseHost
<1>10. QED
  BY <1>1, <1>2, <1>3, <1>4, <1>5, <1>6, <1>7, <1>8, <1>9, <1>11, <1>12, <1>13, <1>14
     DEF Next, LoopStep, PlanStep, Environment, Producer

LEMMA LoopTypeStep == TypeInv /\ [Next]_vars => LoopTypes'
<1> SUFFICES ASSUME TypeInv, [Next]_vars PROVE LoopTypes'
  OBVIOUS
<1> USE DEF TypeInv, TypeOK, LoopTypes, Stopped
<1>1. CASE Recv
  <2>1. Head(input) \in Endpoint
    BY <1>1 DEF Recv, ChannelTypes
  <2>2. QED
    BY <1>1, <2>1 DEF Recv
<1>2. CASE LoopStep /\ ~Recv
  BY <1>2 DEF LoopStep, RecvClosed, ReportOpen, CheckShutdown, SpawnPlan, JoinPlans
<1>3. CASE \E t \in Plan : PlanStep(t)
  BY <1>3 DEF PlanStep, loopVars, AcquireHost, NextProbe, TakeHostPermit,
     TakeProbePermit, EndExecution, EmitResult, ReleaseHost, CancelPlan
<1>4. CASE Environment
  BY <1>4 DEF Environment, loopVars,
      CountOpenPort, Producer, SendOpenPort, GiveUpOpenPort, CloseInput, WriteResult,
     OutputFails, RequestShutdown, AbortScheduler
<1>5. CASE UNCHANGED vars
  BY <1>5 DEF vars, loopVars
<1>6. QED
  BY <1>1, <1>2, <1>3, <1>4, <1>5 DEF Next

(* The program counter, the probe index and the result of one plan, moved. *)
LEMMA NextIndex ==
  ASSUME PlanTypes, NEW t \in Plan, idx[t] \in Probe
  PROVE  [idx EXCEPT ![t] = @ + 1] \in [Plan -> 1..NProbes + 1]
<1>1. NProbes \in Nat
  BY ConstantsAssumption
<1>2. idx[t] + 1 \in 1..NProbes + 1
  BY <1>1 DEF Probe
<1>3. QED
  BY <1>2 DEF PlanTypes

LEMMA AfterTypes ==
  ASSUME PlanTypes, NEW t \in Plan, NEW o, idx[t] \in Probe, pc[t] # "none",
         After(t, o), UNCHANGED <<open, seen>>,
         tries' \in [Plan -> 0..Retries],
         ran' \in [Plan -> [Probe -> Outcome \cup {None}]]
  PROVE  PlanTypes'
<1>1. CASE Confirms(o)
  BY <1>1 DEF After, PlanTypes, Idle, Working
<1>2. CASE ~Confirms(o)
  <2>1. pc' = [pc EXCEPT ![t] = "next"] /\ idx' = [idx EXCEPT ![t] = @ + 1]
    BY <1>2 DEF After
  <2>2. idx' \in [Plan -> 1..NProbes + 1]
    BY <2>1, NextIndex
  <2>3. QED
    BY <2>1, <2>2 DEF PlanTypes, Idle, Working
<1>3. QED
  BY <1>1, <1>2

LEMMA PlanTypeStep == TypeInv /\ [Next]_vars => PlanTypes'
<1> SUFFICES ASSUME TypeInv, [Next]_vars PROVE PlanTypes'
  OBVIOUS
<1> USE ConstantsAssumption
    DEF TypeInv, TypeOK, PlanTypes, Idle, Working, Probe, planVars
<1>1. ASSUME NEW t \in Plan, SpawnPlan(t) PROVE PlanTypes'
  BY <1>1 DEF SpawnPlan, LoopTypes
<1>2. ASSUME NEW t \in Plan, AcquireHost(t) \/ TakeHostPermit(t) PROVE PlanTypes'
  BY <1>2 DEF AcquireHost, TakeHostPermit
<1>3. ASSUME NEW t \in Plan, NextProbe(t) PROVE PlanTypes'
  <2>1. CASE pc' = [pc EXCEPT ![t] = "leave"] /\ UNCHANGED <<idx, seen>>
    BY <1>3, <2>1 DEF NextProbe
  <2>2. CASE idx[t] \in Probe /\ idx' = [idx EXCEPT ![t] = @ + 1] /\ UNCHANGED <<pc, seen>>
    <3>1. idx' \in [Plan -> 1..NProbes + 1]
      BY <2>2, NextIndex
    <3>2. \A u \in Plan : pc'[u] \in {"host", "probe", "run", "emit"} => idx'[u] \in Probe
      BY <1>3, <2>2 DEF NextProbe
    <3>3. QED
      BY <1>3, <2>2, <3>1, <3>2 DEF NextProbe
  <2>3. CASE /\ idx[t] \in Probe /\ pc' = [pc EXCEPT ![t] = "host"] /\ UNCHANGED idx
             /\ seen' = seen \cup {KeyOf(t)}
    <3>1. KeyOf(t) \in Endpoint \X Name
      BY <1>3, <2>3 DEF NextProbe, KeyOf
    <3>2. QED
      BY <1>3, <2>3, <3>1 DEF NextProbe
  <2>4. QED
    BY <1>3, <2>1, <2>2, <2>3 DEF NextProbe
<1>4. ASSUME NEW t \in Plan, TakeProbePermit(t) PROVE PlanTypes'
  BY <1>4 DEF TakeProbePermit
<1>6. ASSUME NEW t \in Plan, NEW o \in Outcome, EndExecution(t, o) PROVE PlanTypes'
  <2>1. CASE MayRetry(t, o) /\ tries' = [tries EXCEPT ![t] = @ + 1] /\ UNCHANGED <<pc, idx, ran>>
    <3>1. tries[t] + 1 \in 0..Retries
      BY <2>1 DEF MayRetry
    <3>2. tries' \in [Plan -> 0..Retries]
      BY <2>1, <3>1
    <3>3. QED
      BY <1>6, <2>1, <3>2 DEF EndExecution
  <2>2. CASE /\ ran' = [ran EXCEPT ![t][idx[t]] = o] /\ tries' = tries
             /\ \/ pc' = [pc EXCEPT ![t] = "emit"] /\ idx' = idx
                \/ After(t, o)
    <3>1. pc[t] = "run" /\ idx[t] \in Probe /\ UNCHANGED <<open, seen>>
      BY <1>6 DEF EndExecution
    <3>2. ran' \in [Plan -> [Probe -> Outcome \cup {None}]]
      BY <2>2, <3>1
    <3>3. CASE pc' = [pc EXCEPT ![t] = "emit"] /\ idx' = idx
      BY <2>2, <3>1, <3>2, <3>3
    <3>4. CASE After(t, o)
      <4>1. tries' \in [Plan -> 0..Retries] /\ pc[t] # "none"
        BY <2>2, <3>1
      <4>2. QED
        BY <3>1, <3>2, <3>4, <4>1, AfterTypes
    <3>5. QED
      BY <2>2, <3>3, <3>4
  <2>3. QED
    BY <1>6, <2>1, <2>2 DEF EndExecution
<1>5. ASSUME NEW t \in Plan, EmitResult(t) PROVE PlanTypes'
  <2>1. pc[t] = "emit" /\ idx[t] \in Probe /\ UNCHANGED <<open, tries, ran, seen>>
    BY <1>5 DEF EmitResult
  <2>2. CASE After(t, ran[t][idx[t]])
    <3>1. /\ tries' \in [Plan -> 0..Retries] /\ pc[t] # "none"
          /\ ran' \in [Plan -> [Probe -> Outcome \cup {None}]]
      BY <2>1
    <3>2. QED
      BY <2>1, <2>2, <3>1, AfterTypes
  <2>3. CASE pc' = [pc EXCEPT ![t] = "bail"] /\ idx' = idx
    BY <2>1, <2>3
  <2>4. QED
    BY <1>5, <2>2, <2>3 DEF EmitResult
<1>7. ASSUME NEW t \in Plan, ReleaseHost(t) \/ CancelPlan(t) PROVE PlanTypes'
  BY <1>7, ZenonT(30) DEF ReleaseHost, CancelPlan, Live
<1>8. CASE \/ UNCHANGED vars \/ Recv \/ RecvClosed \/ ReportOpen \/ CheckShutdown
           \/ JoinPlans \/ Environment
  BY <1>8 DEF vars, Recv, RecvClosed, ReportOpen, CheckShutdown, JoinPlans,
     Environment,
     CountOpenPort, Producer, SendOpenPort, GiveUpOpenPort, CloseInput, WriteResult, OutputFails,
     RequestShutdown, AbortScheduler
<1>9. QED
  BY <1>1, <1>2, <1>3, <1>4, <1>6, <1>7, <1>8, <1>5 DEF Next, LoopStep, PlanStep

LEMMA HostTypeStep == TypeInv /\ [Next]_vars => (HostTypes /\ EntryCounted)'
<1> SUFFICES ASSUME TypeInv, [Next]_vars PROVE (HostTypes /\ EntryCounted)'
  OBVIOUS
<1> USE ConstantsAssumption
    DEF TypeInv, TypeOK, HostTypes, EntryCounted, hostVars
<1>1. ASSUME NEW t \in Plan, pc[t] # "none" PROVE open[t].ip \in Ip
  BY <1>1 DEF PlanTypes, Endpoint
<1>2. ASSUME NEW t \in Plan, AcquireHost(t) PROVE (HostTypes /\ EntryCounted)'
  BY <1>1, <1>2 DEF AcquireHost
<1>3. ASSUME NEW t \in Plan, ReleaseHost(t) PROVE (HostTypes /\ EntryCounted)'
  BY <1>1, <1>3 DEF ReleaseHost, EntryAfterRelease
<1>4. CASE \/ UNCHANGED vars \/ LoopStep \/ Environment
  BY <1>4 DEF vars, LoopStep, Recv, RecvClosed, ReportOpen, CheckShutdown, SpawnPlan,
     JoinPlans, Environment,
     CountOpenPort, Producer, SendOpenPort, GiveUpOpenPort, CloseInput, WriteResult, OutputFails,
     RequestShutdown, AbortScheduler
<1>5. CASE \E t \in Plan : PlanStep(t) /\ ~AcquireHost(t) /\ ~ReleaseHost(t)
  BY <1>5 DEF PlanStep, NextProbe, TakeHostPermit, TakeProbePermit, EndExecution,
     EmitResult, CancelPlan
<1>6. QED
  BY <1>2, <1>3, <1>4, <1>5 DEF Next, PlanStep

LEMMA ArrivalStep == TypeInv /\ [Next]_vars => ArrivalTypes'
<1> SUFFICES ASSUME TypeInv, [Next]_vars PROVE ArrivalTypes'
  OBVIOUS
<1> USE DEF TypeInv, TypeOK, ArrivalTypes
<1>1. ASSUME NEW e \in Endpoint, CountOpenPort(e) PROVE ArrivalTypes'
  BY <1>1 DEF CountOpenPort
<1>2. CASE UNCHANGED sent
  BY <1>2
<1>3. QED
  <2>1. UNCHANGED sent \/ \E e \in Endpoint : CountOpenPort(e)
    BY Zenon DEF Next, LoopStep, PlanStep, Environment, Producer, vars, inVars,
       Recv, RecvClosed, ReportOpen, CheckShutdown, SpawnPlan, JoinPlans,
       AcquireHost, NextProbe, TakeHostPermit, TakeProbePermit, EndExecution,
       EmitResult, ReleaseHost, CancelPlan, SendOpenPort, GiveUpOpenPort,
       CloseInput, WriteResult, OutputFails, RequestShutdown, AbortScheduler
  <2>2. QED
    BY <1>1, <1>2, <2>1

LEMMA TypeStep == TypeInv /\ [Next]_vars => TypeInv'
BY ArrivalStep, ChannelStep, LoopTypeStep, PlanTypeStep, HostTypeStep DEF TypeInv, TypeOK

(* Every variable keeps its type: in particular a host count is never      *)
(* negative and a plan that runs a probe points at one.                    *)
THEOREM TypeCorrect == Spec => []TypeOK
<1>1. TypeInv => TypeOK
  BY DEF TypeInv
<1>2. QED
  BY TypeInit, TypeStep, <1>1, PTL DEF Spec

-----------------------------------------------------------------------------
(***************************************************************************)
(* Host semaphores.  A plan is registered with a host from acquire to      *)
(* release (a cancelled plan stays registered: its release never runs).    *)
(* The count of a host is the number of its registered plans, and they all *)
(* hold the semaphore of the map entry; so an entry is removed only when   *)
(* nobody is left who could hold a permit of it.                           *)
(***************************************************************************)
Registered(i) ==
  {t \in Plan : sem[t] # None /\ pc[t] \notin {"ok", "err"} /\ open[t].ip = i}

SemPhase ==
  \A t \in Plan : /\ sem[t] # None => pc[t] \notin {"none", "start"}
                  /\ pc[t] \in Working \ {"start"} => sem[t] # None
CountExact == \A i \in Ip : refs[i] = Cardinality(Registered(i))
SharedSem  == \A i \in Ip : \A t \in Registered(i) : sem[t] = entries[i]

HostInv == SemPhase /\ CountExact /\ SharedSem

LEMMA PlanSubset ==
  ASSUME NEW S, S \subseteq Plan
  PROVE  IsFiniteSet(S) /\ Cardinality(S) \in Nat
<1>1. IsFiniteSet(Plan)
  BY ConstantsAssumption
<1>2. QED
  BY <1>1, FS_Subset, FS_CardinalityType

LEMMA HostInit == Init => HostInv
<1> SUFFICES ASSUME Init PROVE HostInv
  OBVIOUS
<1>1. \A i \in Ip : Registered(i) = {}
  BY DEF Init, Registered
<1>2. QED
  BY <1>1, FS_EmptySet DEF Init, HostInv, SemPhase, CountExact, SharedSem, Working

(* Steps that leave every host registration as it is.                      *)
Quiet ==
  /\ UNCHANGED <<open, entries, refs, sem>>
  /\ \A t \in Plan :
       \/ pc'[t] = pc[t]
       \/ pc[t] \in Working \ {"start"} /\ pc'[t] \in Working \ {"start"}
       \/ pc[t] \in Working /\ pc'[t] = "cancelled"

LEMMA OtherStepsQuiet ==
  ASSUME TypeInv, [Next]_vars,
         \A t \in Plan : ~SpawnPlan(t) /\ ~AcquireHost(t) /\ ~ReleaseHost(t)
  PROVE  Quiet
<1> USE DEF TypeInv, TypeOK, PlanTypes, Quiet, planVars, hostVars
<1>1. CASE UNCHANGED vars
  BY <1>1 DEF vars
<1>2. CASE Environment
  BY <1>2 DEF Environment,
      CountOpenPort, Producer, SendOpenPort, GiveUpOpenPort, CloseInput, WriteResult, OutputFails,
     RequestShutdown, AbortScheduler
<1>3. CASE Recv \/ RecvClosed \/ ReportOpen \/ CheckShutdown \/ JoinPlans
  BY <1>3 DEF Recv, RecvClosed, ReportOpen, CheckShutdown, JoinPlans
<1>4. ASSUME NEW t \in Plan, NextProbe(t) PROVE Quiet
  BY <1>4 DEF NextProbe, Working
<1>5. ASSUME NEW t \in Plan, TakeHostPermit(t) \/ TakeProbePermit(t) PROVE Quiet
  BY <1>5 DEF TakeHostPermit, TakeProbePermit, Working
<1>6. ASSUME NEW t \in Plan, NEW o \in Outcome, EndExecution(t, o) PROVE Quiet
  BY <1>6 DEF EndExecution, After, Working
<1>7. ASSUME NEW t \in Plan, EmitResult(t) PROVE Quiet
  BY <1>7 DEF EmitResult, After, Working
<1>8. ASSUME NEW t \in Plan, CancelPlan(t) PROVE Quiet
  BY <1>8 DEF CancelPlan, Live
<1>9. QED
  BY <1>1, <1>2, <1>3, <1>4, <1>5, <1>6, <1>7, <1>8 DEF Next, LoopStep, PlanStep

LEMMA SemPhaseStep == TypeInv /\ SemPhase /\ [Next]_vars => SemPhase'
<1> SUFFICES ASSUME TypeInv, SemPhase, [Next]_vars PROVE SemPhase'
  OBVIOUS
<1> USE DEF TypeInv, TypeOK, PlanTypes, HostTypes, SemPhase, Working
<1>1. ASSUME NEW t \in Plan, SpawnPlan(t) PROVE SemPhase'
  BY <1>1 DEF SpawnPlan, hostVars
<1>2. ASSUME NEW t \in Plan, AcquireHost(t) PROVE SemPhase'
  <2>1. open[t].ip \in Ip
    BY <1>2 DEF AcquireHost, Endpoint
  <2>2. sem' = [sem EXCEPT ![t] = sem'[t]] /\ sem'[t] # None
    BY <1>2, <2>1, ConstantsAssumption DEF AcquireHost
  <2>3. pc' = [pc EXCEPT ![t] = "next"]
    BY <1>2 DEF AcquireHost
  <2>4. QED
    BY <2>2, <2>3
<1>3. ASSUME NEW t \in Plan, ReleaseHost(t) PROVE SemPhase'
  BY <1>3 DEF ReleaseHost
<1>4. CASE Quiet
  BY <1>4 DEF Quiet
<1>5. QED
  BY <1>1, <1>2, <1>3, <1>4, OtherStepsQuiet

LEMMA RegistrationStep == TypeInv /\ HostInv /\ [Next]_vars => (CountExact /\ SharedSem)'
<1> SUFFICES ASSUME TypeInv, HostInv, [Next]_vars PROVE (CountExact /\ SharedSem)'
  OBVIOUS
<1> USE DEF HostInv
<1>0. \A i : Registered(i) \subseteq Plan
  BY DEF Registered
<1>1. CASE (\A i \in Ip : Registered(i)' = Registered(i)) /\ UNCHANGED <<refs, entries, sem>>
  BY <1>1 DEF CountExact, SharedSem
<1>2. ASSUME NEW t \in Plan, SpawnPlan(t) PROVE (CountExact /\ SharedSem)'
  <2>1. sem[t] = None
    BY <1>2 DEF SpawnPlan, SemPhase
  <2>2. \A i \in Ip : Registered(i)' = Registered(i)
    BY <1>2, <2>1 DEF SpawnPlan, Registered, TypeInv, TypeOK, PlanTypes, hostVars
  <2>3. QED
    BY <1>1, <1>2, <2>2 DEF SpawnPlan, hostVars
<1>3. CASE Quiet
  <2>1. \A i \in Ip : Registered(i)' = Registered(i)
    BY <1>3 DEF Quiet, Registered, Working
  <2>2. QED
    BY <1>1, <1>3, <2>1 DEF Quiet
<1>4. ASSUME NEW t \in Plan, AcquireHost(t) PROVE (CountExact /\ SharedSem)'
  <2>0. PICK ip \in Ip : ip = open[t].ip
    BY <1>4 DEF AcquireHost, TypeInv, TypeOK, PlanTypes, Endpoint
  <2>1. open[t].ip = ip /\ pc[t] = "start" /\ sem[t] = None /\ UNCHANGED open
    BY <1>4, <2>0 DEF AcquireHost, TypeInv, TypeOK, PlanTypes, Endpoint, SemPhase
  <2>2. /\ pc' = [pc EXCEPT ![t] = "next"] /\ refs' = [refs EXCEPT ![ip] = @ + 1]
        /\ entries' = [entries EXCEPT ![ip] = IF entries[ip] = None THEN t ELSE @]
        /\ sem' = [sem EXCEPT ![t] = entries'[ip]] /\ entries'[ip] # None
    BY <1>4, <2>1, ConstantsAssumption DEF AcquireHost, TypeInv, TypeOK, HostTypes
  <2>3. t \notin Registered(ip)
    BY <2>1 DEF Registered
  <2>4. Registered(ip)' = Registered(ip) \cup {t}
    BY <2>1, <2>2 DEF Registered, TypeInv, TypeOK, PlanTypes, HostTypes
  <2>5. \A i \in Ip \ {ip} : Registered(i)' = Registered(i)
    BY <2>1, <2>2 DEF Registered, TypeInv, TypeOK, PlanTypes, HostTypes
  <2>6. Cardinality(Registered(ip)') = Cardinality(Registered(ip)) + 1
    BY <1>0, <2>3, <2>4, PlanSubset, FS_AddElement
  <2>7. CountExact'
    BY <2>1, <2>2, <2>5, <2>6 DEF CountExact, TypeInv, TypeOK, HostTypes
  <2>8. ASSUME NEW i \in Ip, NEW u \in Registered(i)' PROVE sem'[u] = entries'[i]
    <3>1. u \in Plan
      BY <2>8 DEF Registered
    <3>2. CASE i # ip
      <4>1. u \in Registered(i)
        BY <2>5, <2>8, <3>2
      <4>2. u # t
        BY <2>1, <3>2, <4>1 DEF Registered
      <4>3. QED
        BY <2>2, <3>1, <3>2, <4>1, <4>2 DEF SharedSem, TypeInv, TypeOK, HostTypes
    <3>3. CASE i = ip /\ u = t
      BY <2>2, <3>3 DEF TypeInv, TypeOK, HostTypes
    <3>4. CASE i = ip /\ u # t
      <4>1. u \in Registered(ip)
        BY <2>4, <2>8, <3>4
      <4>2. sem[u] = entries[ip] /\ sem[u] # None
        BY <2>1, <4>1 DEF SharedSem, Registered
      <4>3. entries'[ip] = entries[ip]
        BY <2>1, <2>2, <4>2 DEF TypeInv, TypeOK, HostTypes
      <4>4. sem'[u] = sem[u]
        BY <2>2, <3>1, <3>4 DEF TypeInv, TypeOK, HostTypes
      <4>5. QED
        BY <3>4, <4>2, <4>3, <4>4
    <3>5. QED
      BY <3>2, <3>3, <3>4
  <2>9. QED
    BY <2>7, <2>8 DEF SharedSem
<1>5. ASSUME NEW t \in Plan, ReleaseHost(t) PROVE (CountExact /\ SharedSem)'
  <2>0. PICK ip \in Ip : ip = open[t].ip
    BY <1>5 DEF ReleaseHost, TypeInv, TypeOK, PlanTypes, Endpoint
  <2>1. /\ open[t].ip = ip /\ pc[t] \in {"leave", "bail"} /\ pc[t] \in Working \ {"start"}
        /\ UNCHANGED <<open, sem>>
    BY <1>5, <2>0 DEF ReleaseHost, TypeInv, TypeOK, PlanTypes, Endpoint, Working
  <2>2. t \in Registered(ip)
    BY <2>1 DEF SemPhase, Registered
  <2>3. entries[ip] # None
    BY <2>1, <2>2 DEF SharedSem, Registered
  <2>4. /\ refs' = [refs EXCEPT ![ip] = @ - 1]
        /\ entries' = [entries EXCEPT ![ip] = IF refs[ip] = 1 THEN None ELSE entries[ip]]
        /\ pc'[t] \in {"ok", "err"} /\ pc' = [pc EXCEPT ![t] = pc'[t]]
    BY <1>5, <2>1, <2>3 DEF ReleaseHost, EntryAfterRelease, TypeInv, TypeOK, PlanTypes
  <2>5. Registered(ip)' = Registered(ip) \ {t}
    BY <2>1, <2>4 DEF Registered, TypeInv, TypeOK, PlanTypes
  <2>6. \A i \in Ip \ {ip} : Registered(i)' = Registered(i)
    BY <2>1, <2>4 DEF Registered, TypeInv, TypeOK, PlanTypes
  <2>7. Cardinality(Registered(ip)') = Cardinality(Registered(ip)) - 1
    BY <1>0, <2>2, <2>5, PlanSubset, FS_RemoveElement
  <2>8. CountExact'
    BY <2>1, <2>4, <2>6, <2>7 DEF CountExact, TypeInv, TypeOK, HostTypes
  <2>9. ASSUME refs[ip] = 1 PROVE Registered(ip)' = {}
    <3>1. Cardinality(Registered(ip)') = 0
      BY <2>1, <2>7, <2>9 DEF CountExact
    <3>2. Registered(ip)' \subseteq Plan
      BY <1>0, <2>5
    <3>3. IsFiniteSet(Registered(ip)')
      BY <3>2, PlanSubset
    <3>4. QED
      BY <3>1, <3>3, FS_EmptySet
  <2>10. ASSUME NEW i \in Ip, NEW u \in Registered(i)' PROVE sem'[u] = entries'[i]
    <3>1. u \in Registered(i)
      <4>1. CASE i = ip
        BY <2>5, <2>10, <4>1
      <4>2. CASE i # ip
        BY <2>6, <2>10, <4>2
      <4>3. QED
        BY <4>1, <4>2
    <3>2. sem'[u] = entries[i]
      BY <2>1, <3>1 DEF SharedSem
    <3>3. i = ip => refs[ip] # 1
      BY <2>9, <2>10
    <3>4. QED
      BY <2>1, <2>4, <3>2, <3>3 DEF TypeInv, TypeOK, HostTypes
  <2>11. QED
    BY <2>8, <2>10 DEF SharedSem
<1>6. QED
  BY <1>2, <1>3, <1>4, <1>5, OtherStepsQuiet

LEMMA HostStep == TypeInv /\ HostInv /\ [Next]_vars => HostInv'
BY SemPhaseStep, RegistrationStep DEF HostInv

LEMMA HostInvImplies == TypeInv /\ HostInv => HostEntriesLive
<1> SUFFICES ASSUME TypeInv, HostInv, \A t \in Plan : pc[t] # "cancelled", NEW i \in Ip
             PROVE  /\ refs[i] = Cardinality(Using(i))
                    /\ entries[i] = None <=> Using(i) = {}
                    /\ \A t \in Using(i) : sem[t] = entries[i]
  BY DEF HostEntriesLive
<1>1. Using(i) = Registered(i)
  BY DEF Using, Registered, HostInv, SemPhase, TypeInv, TypeOK, PlanTypes, Idle, Working
<1>2. Cardinality(Using(i)) = 0 <=> Using(i) = {}
  BY PlanSubset, FS_EmptySet DEF Using
<1>3. QED
  BY <1>1, <1>2 DEF HostInv, CountExact, SharedSem, TypeInv, EntryCounted

(* HostLimits keeps a semaphore for exactly the hosts that a live plan     *)
(* uses, counted right, and all plans of a host share one semaphore.       *)
THEOREM HostEntriesCorrect == Spec => []HostEntriesLive
<1>1. Init => TypeInv /\ HostInv
  BY TypeInit, HostInit
<1>2. TypeInv /\ HostInv /\ [Next]_vars => (TypeInv /\ HostInv)'
  BY TypeStep, HostStep
<1>3. TypeInv /\ HostInv => HostEntriesLive
  BY HostInvImplies
<1>4. QED
  BY <1>1, <1>2, <1>3, PTL DEF Spec

-----------------------------------------------------------------------------
(***************************************************************************)
(* Limits.  Every semaphore, of a live or of a removed map entry, has at   *)
(* most as many holders as permits; since the registered plans of a host   *)
(* share one semaphore, its holders bound what occupies the host.          *)
(***************************************************************************)
PermitInv ==
  /\ Cardinality(Live) <= Global
  /\ \A s \in Plan : Cardinality(HostHolders(s)) <= PerHost
  /\ \A n \in Name : Cardinality(ProbeHolders(n)) <= PerProbe

LEMMA NotMore ==
  ASSUME NEW S, NEW T, S \subseteq Plan, T \subseteq S, NEW n \in Nat, Cardinality(S) <= n
  PROVE  Cardinality(T) <= n
<1>1. IsFiniteSet(S) /\ Cardinality(S) \in Nat /\ Cardinality(T) \in Nat
  BY PlanSubset
<1>2. Cardinality(T) <= Cardinality(S)
  BY <1>1, FS_Subset
<1>3. QED
  BY <1>1, <1>2

LEMMA OneMore ==
  ASSUME NEW S, NEW T, NEW t \in Plan, S \subseteq Plan, T \subseteq S \cup {t},
         NEW n \in Nat, Cardinality(S) < n
  PROVE  Cardinality(T) <= n
<1>1. IsFiniteSet(S) /\ Cardinality(S) \in Nat /\ Cardinality(S \cup {t}) \in Nat
  BY PlanSubset
<1>2. Cardinality(S \cup {t}) = IF t \in S THEN Cardinality(S) ELSE Cardinality(S) + 1
  BY <1>1, FS_AddElement
<1>3. Cardinality(S \cup {t}) <= n
  BY <1>1, <1>2
<1>4. QED
  BY <1>3, NotMore

LEMMA PermitInit == Init => PermitInv
<1> SUFFICES ASSUME Init PROVE PermitInv
  OBVIOUS
<1>1. Live = {} /\ (\A s : HostHolders(s) = {}) /\ (\A n : ProbeHolders(n) = {})
  BY DEF Init, Live, HostHolders, ProbeHolders, Working
<1>2. 0 <= Global /\ 0 <= PerHost /\ 0 <= PerProbe
  BY ConstantsAssumption
<1> HIDE DEF Live, HostHolders, ProbeHolders
<1>3. QED
  BY <1>1, <1>2, FS_EmptySet DEF PermitInv

LEMMA PermitStep == TypeInv /\ HostInv /\ PermitInv /\ [Next]_vars => PermitInv'
<1> SUFFICES ASSUME TypeInv, HostInv, PermitInv, [Next]_vars PROVE PermitInv'
  OBVIOUS
<1>0. /\ Live \subseteq Plan
      /\ \A s : HostHolders(s) \subseteq Plan
      /\ \A n : ProbeHolders(n) \subseteq Plan
      /\ Global \in Nat /\ PerHost \in Nat /\ PerProbe \in Nat
  BY ConstantsAssumption DEF Live, HostHolders, ProbeHolders
<1> DEFINE LiveShrinks  == Live' \subseteq Live
           HostShrinks  == \A s \in Plan : HostHolders(s)' \subseteq HostHolders(s)
           ProbeShrinks == \A n \in Name : ProbeHolders(n)' \subseteq ProbeHolders(n)
<1>1. LiveShrinks => Cardinality(Live)' <= Global
  BY <1>0, NotMore DEF PermitInv
<1>2. HostShrinks => \A s \in Plan : Cardinality(HostHolders(s))' <= PerHost
  BY <1>0, NotMore DEF PermitInv
<1>3. ProbeShrinks => \A n \in Name : Cardinality(ProbeHolders(n))' <= PerProbe
  BY <1>0, NotMore DEF PermitInv
<1>4. CASE LiveShrinks /\ HostShrinks /\ ProbeShrinks
  BY <1>1, <1>2, <1>3, <1>4 DEF PermitInv
<1> USE DEF Live, HostHolders, ProbeHolders, Working
<1>5. ASSUME NEW t \in Plan, SpawnPlan(t) PROVE PermitInv'
  <2>1. pc' = [pc EXCEPT ![t] = "start"] /\ UNCHANGED <<idx, sem>>
    BY <1>5 DEF SpawnPlan, hostVars
  <2>2. Live' \subseteq Live \cup {t}
    BY <2>1 DEF TypeInv, TypeOK, PlanTypes
  <2>3. HostShrinks /\ ProbeShrinks
    BY <2>1 DEF TypeInv, TypeOK, PlanTypes
  <2>4. Cardinality(Live) < Global
    BY <1>5 DEF SpawnPlan
  <2> HIDE DEF Live, HostHolders, ProbeHolders, Working
  <2>5. Cardinality(Live') <= Global
    BY <1>0, <2>2, <2>4, OneMore
  <2>6. QED
    BY <1>2, <1>3, <2>3, <2>5 DEF PermitInv
<1>6. ASSUME NEW t \in Plan, TakeHostPermit(t) PROVE PermitInv'
  <2>1. pc[t] = "host" /\ pc' = [pc EXCEPT ![t] = "probe"] /\ UNCHANGED <<idx, sem>>
    BY <1>6 DEF TakeHostPermit, hostVars
  <2>2. LiveShrinks /\ ProbeShrinks
    BY <2>1 DEF TypeInv, TypeOK, PlanTypes
  <2>3. ASSUME NEW s \in Plan PROVE Cardinality(HostHolders(s)') <= PerHost
    <3>1. CASE s = sem[t]
      <4>1. HostHolders(s)' \subseteq HostHolders(s) \cup {t}
        BY <2>1 DEF TypeInv, TypeOK, PlanTypes
      <4>2. Cardinality(HostHolders(s)) < PerHost
        BY <1>6, <3>1 DEF TakeHostPermit, HostPermitFree
      <4> HIDE DEF HostHolders
      <4>3. QED
        BY <1>0, <4>1, <4>2, OneMore
    <3>2. CASE s # sem[t]
      <4>1. HostHolders(s)' \subseteq HostHolders(s)
        BY <2>1, <3>2 DEF TypeInv, TypeOK, PlanTypes
      <4> HIDE DEF HostHolders
      <4>2. QED
        BY <1>0, <4>1, NotMore DEF PermitInv
    <3>3. QED
      BY <3>1, <3>2
  <2> HIDE DEF Live, HostHolders, ProbeHolders, Working
  <2>4. QED
    BY <1>1, <1>3, <2>2, <2>3 DEF PermitInv
<1>7. ASSUME NEW t \in Plan, TakeProbePermit(t) PROVE PermitInv'
  <2>1. pc[t] = "probe" /\ pc' = [pc EXCEPT ![t] = "run"] /\ UNCHANGED <<idx, sem>>
    BY <1>7 DEF TakeProbePermit, hostVars
  <2>2. LiveShrinks /\ HostShrinks
    BY <2>1 DEF TypeInv, TypeOK, PlanTypes
  <2>3. ASSUME NEW n \in Name PROVE Cardinality(ProbeHolders(n)') <= PerProbe
    <3>1. CASE n = NameOf[idx[t]]
      <4>1. ProbeHolders(n)' \subseteq ProbeHolders(n) \cup {t}
        BY <2>1 DEF TypeInv, TypeOK, PlanTypes
      <4>2. Cardinality(ProbeHolders(n)) < PerProbe
        BY <1>7, <3>1 DEF TakeProbePermit
      <4> HIDE DEF ProbeHolders
      <4>3. QED
        BY <1>0, <4>1, <4>2, OneMore
    <3>2. CASE n # NameOf[idx[t]]
      <4>1. ProbeHolders(n)' \subseteq ProbeHolders(n)
        BY <2>1, <3>2 DEF TypeInv, TypeOK, PlanTypes
      <4> HIDE DEF ProbeHolders
      <4>2. QED
        BY <1>0, <4>1, NotMore DEF PermitInv
    <3>3. QED
      BY <3>1, <3>2
  <2> HIDE DEF Live, HostHolders, ProbeHolders, Working
  <2>4. QED
    BY <1>1, <1>2, <2>2, <2>3 DEF PermitInv
<1>8. ASSUME NEW t \in Plan, AcquireHost(t) PROVE LiveShrinks /\ HostShrinks /\ ProbeShrinks
  <2>1. /\ pc[t] = "start" /\ pc' = [pc EXCEPT ![t] = "next"] /\ UNCHANGED idx
        /\ sem' = [sem EXCEPT ![t] = sem'[t]]
    BY <1>8 DEF AcquireHost, TypeInv, TypeOK, HostTypes
  <2>2. QED
    BY <2>1 DEF TypeInv, TypeOK, PlanTypes, HostTypes
<1>9. ASSUME NEW t \in Plan, NextProbe(t) PROVE LiveShrinks /\ HostShrinks /\ ProbeShrinks
  BY <1>9 DEF NextProbe, hostVars, TypeInv, TypeOK, PlanTypes
<1>10. ASSUME NEW t \in Plan, NEW o, After(t, o), pc[t] \in {"run", "emit"}, sem' = sem
       PROVE  LiveShrinks /\ HostShrinks /\ ProbeShrinks
  BY <1>10 DEF After, TypeInv, TypeOK, PlanTypes
<1>11. ASSUME NEW t \in Plan, sem' = sem, idx' = idx,
              \/ pc' = [pc EXCEPT ![t] = "ok"] \/ pc' = [pc EXCEPT ![t] = "err"]
              \/ pc' = [pc EXCEPT ![t] = "cancelled"]
              \/ pc' = [pc EXCEPT ![t] = "bail"] /\ pc[t] = "emit"
              \/ pc' = [pc EXCEPT ![t] = "run"] /\ pc[t] = "run"
              \/ pc' = [pc EXCEPT ![t] = "emit"] /\ pc[t] = "run"
       PROVE  LiveShrinks /\ HostShrinks /\ ProbeShrinks
  BY <1>11 DEF TypeInv, TypeOK, PlanTypes
<1>12. CASE pc' = pc /\ sem' = sem /\ idx' = idx
  BY <1>4, <1>12
<1> HIDE DEF Live, HostHolders, ProbeHolders, LiveShrinks, HostShrinks, ProbeShrinks
<1>13. ASSUME NEW t \in Plan, NEW o \in Outcome, EndExecution(t, o)
       PROVE  LiveShrinks /\ HostShrinks /\ ProbeShrinks
  <2>1. pc[t] = "run" /\ sem' = sem
    BY <1>13 DEF EndExecution, hostVars
  <2>2. CASE UNCHANGED <<pc, idx>>
    <3>1. pc' = [pc EXCEPT ![t] = "run"] /\ idx' = idx
      BY <2>1, <2>2 DEF TypeInv, TypeOK, PlanTypes
    <3>2. QED
      BY <1>11, <2>1, <3>1
  <2>3. CASE pc' = [pc EXCEPT ![t] = "emit"] /\ idx' = idx
    BY <1>11, <2>1, <2>3
  <2>4. CASE After(t, o)
    BY <1>10, <2>1, <2>4
  <2>5. QED
    BY <1>13, <2>2, <2>3, <2>4 DEF EndExecution
<1>14. ASSUME NEW t \in Plan, EmitResult(t) PROVE LiveShrinks /\ HostShrinks /\ ProbeShrinks
  <2>1. pc[t] = "emit" /\ sem' = sem
    BY <1>14 DEF EmitResult, hostVars
  <2>2. CASE After(t, ran[t][idx[t]])
    BY <1>10, <2>1, <2>2
  <2>3. CASE pc' = [pc EXCEPT ![t] = "bail"] /\ idx' = idx
    BY <1>11, <2>1, <2>3
  <2>4. QED
    BY <1>14, <2>2, <2>3 DEF EmitResult
<1>15. ASSUME NEW t \in Plan, ReleaseHost(t) PROVE LiveShrinks /\ HostShrinks /\ ProbeShrinks
  <2>1. /\ pc[t] \in {"leave", "bail"} /\ sem' = sem /\ idx' = idx
        /\ pc' = [pc EXCEPT ![t] = "ok"] \/ pc' = [pc EXCEPT ![t] = "err"]
    BY <1>15 DEF ReleaseHost
  <2>2. QED
    BY <1>11, <2>1
<1>16. ASSUME NEW t \in Plan, CancelPlan(t) PROVE LiveShrinks /\ HostShrinks /\ ProbeShrinks
  <2>1. pc[t] \in Working /\ sem' = sem /\ idx' = idx /\ pc' = [pc EXCEPT ![t] = "cancelled"]
    BY <1>16 DEF CancelPlan, hostVars, Live
  <2>2. QED
    BY <1>11, <2>1
<1>17. CASE \/ UNCHANGED vars \/ Environment \/ Recv \/ RecvClosed \/ ReportOpen
            \/ CheckShutdown \/ JoinPlans
  <2>1. pc' = pc /\ sem' = sem /\ idx' = idx
    BY <1>17 DEF vars, planVars, hostVars, Environment,
        CountOpenPort, Producer, SendOpenPort, GiveUpOpenPort, CloseInput,
       WriteResult, OutputFails, RequestShutdown, AbortScheduler, Recv, RecvClosed,
       ReportOpen, CheckShutdown, JoinPlans
  <2>2. QED
    BY <1>12, <2>1
<1>18. QED
  BY <1>4, <1>5, <1>6, <1>7, <1>8, <1>9, <1>13, <1>14, <1>15, <1>16, <1>17
     DEF Next, LoopStep, PlanStep

LEMMA PermitInvImplies == TypeInv /\ HostInv /\ PermitInv => ConnectionLimits
<1> SUFFICES ASSUME TypeInv, HostInv, PermitInv PROVE ConnectionLimits
  OBVIOUS
<1> DEFINE Busy(i) == {t \in Plan : /\ pc[t] \in {"probe", "run", "emit"}
                                    /\ open[t].ip = i}
<1>1. ASSUME NEW i \in Ip PROVE Cardinality(Busy(i)) <= PerHost
  <2>1. CASE Busy(i) = {}
    <3>1. PerHost \in Nat
      BY ConstantsAssumption
    <3> HIDE DEF Busy
    <3>2. QED
      BY <2>1, <3>1, FS_EmptySet
  <2>2. CASE Busy(i) # {}
    <3>1. \A t \in Busy(i) : t \in Registered(i) /\ sem[t] = entries[i]
      BY DEF HostInv, SemPhase, SharedSem, Registered, Working
    <3>2. entries[i] \in Plan
      BY <2>2, <3>1 DEF TypeInv, TypeOK, HostTypes, Registered
    <3>3. Busy(i) \subseteq HostHolders(entries[i])
      BY <3>1 DEF HostHolders
    <3>4. HostHolders(entries[i]) \subseteq Plan /\ PerHost \in Nat
      BY ConstantsAssumption DEF HostHolders
    <3>5. Cardinality(HostHolders(entries[i])) <= PerHost
      BY <3>2 DEF PermitInv
    <3> HIDE DEF Busy
    <3>6. QED
      BY <3>3, <3>4, <3>5, NotMore
  <2>3. QED
    BY <2>1, <2>2
<1>2. QED
  BY <1>1 DEF ConnectionLimits, PermitInv

(* No more plans, host connections or executions of a probe at once than   *)
(* SchedulerConfig allows, whatever order plans come, go and are aborted.  *)
THEOREM LimitsRespected == Spec => []ConnectionLimits
<1>1. Init => TypeInv /\ HostInv /\ PermitInv
  BY TypeInit, HostInit, PermitInit
<1>2. TypeInv /\ HostInv /\ PermitInv /\ [Next]_vars => (TypeInv /\ HostInv /\ PermitInv)'
  BY TypeStep, HostStep, PermitStep
<1>3. TypeInv /\ HostInv /\ PermitInv => ConnectionLimits
  BY PermitInvImplies
<1>4. QED
  BY <1>1, <1>2, <1>3, PTL DEF Spec

-----------------------------------------------------------------------------
(* The record of an open port is on its way before the plan is spawned.    *)

Reported(e, w, s) == Record(e, 0) \in w \/ \E k \in DOMAIN s : s[k] = Record(e, 0)

Ordered(w, s) ==
  \A n \in DOMAIN s : s[n].probe # 0 =>
    \/ Record(s[n].at, 0) \in w
    \/ \E k \in 1..n - 1 : s[k] = Record(s[n].at, 0)

OpenInv ==
  /\ ~outOpen => out = <<>>
  /\ ReportsOpen =>
       /\ Ordered(written, out)
       /\ outOpen =>
            /\ \A t \in Plan : pc[t] # "none" => Reported(open[t], written, out)
            /\ loop \in {"check", "permit"} => Reported(cur, written, out)

LEMMA OpenInit == Init => OpenInv
BY DEF Init, OpenInv, Ordered

LEMMA AppendKeeps ==
  ASSUME NEW w, NEW T, NEW s \in Seq(T), NEW r \in T
  PROVE  /\ \A e : Reported(e, w, s) => Reported(e, w, Append(s, r))
         /\ \A e : r = Record(e, 0) => Reported(e, w, Append(s, r))
         /\ Ordered(w, s) /\ (r.probe = 0 \/ Reported(r.at, w, s)) => Ordered(w, Append(s, r))
<1> DEFINE a == Append(s, r)  n == Len(s) + 1
<1>1. /\ DOMAIN s = 1..n - 1 /\ DOMAIN a = 1..n /\ n \in Nat \ {0}
      /\ \A i \in 1..n - 1 : a[i] = s[i]
      /\ a[n] = r
  OBVIOUS
<1> HIDE DEF a, n
<1>2. 1..n - 1 \subseteq 1..n /\ n \in 1..n /\ \A i \in 1..n : i = n \/ i \in 1..n - 1
  BY <1>1
<1>3. \A e : Reported(e, w, s) => Reported(e, w, a)
  BY <1>1, <1>2 DEF Reported
<1>4. \A e : r = Record(e, 0) => Reported(e, w, a)
  BY <1>1, <1>2 DEF Reported
<1>5. ASSUME Ordered(w, s), r.probe = 0 \/ Reported(r.at, w, s) PROVE Ordered(w, a)
  <2>1. ASSUME NEW i \in 1..n, a[i].probe # 0
        PROVE  \/ Record(a[i].at, 0) \in w
               \/ \E k \in 1..i - 1 : a[k] = Record(a[i].at, 0)
    <3>1. CASE i = n
      BY <1>1, <1>5, <2>1, <3>1 DEF Reported
    <3>2. CASE i \in 1..n - 1
      <4>1. a[i] = s[i] /\ \A k \in 1..i - 1 : k \in 1..n - 1 /\ a[k] = s[k]
        BY <1>1, <3>2
      <4>2. QED
        BY <1>1, <1>5, <2>1, <3>2, <4>1 DEF Ordered
    <3>3. QED
      BY <1>2, <3>1, <3>2
  <2>2. QED
    BY <1>1, <2>1 DEF Ordered
<1>6. QED
  BY <1>3, <1>4, <1>5 DEF a

LEMMA TailKeeps ==
  ASSUME NEW w, NEW T, NEW s \in Seq(T), s # <<>>
  PROVE  /\ \A e : Reported(e, w, s) => Reported(e, w \cup {Head(s)}, Tail(s))
         /\ Ordered(w, s) => Ordered(w \cup {Head(s)}, Tail(s))
<1> DEFINE a == Tail(s)  n == Len(s)  h == Head(s)  v == w \cup {h}
<1>1. /\ DOMAIN s = 1..n /\ DOMAIN a = 1..n - 1 /\ n \in Nat \ {0}
      /\ \A i \in 1..n - 1 : a[i] = s[i + 1]
      /\ h = s[1]
  OBVIOUS
<1> HIDE DEF a, n, h
<1>2. \A i \in 1..n : i = 1 \/ (i - 1 \in 1..n - 1 /\ (i - 1) + 1 = i)
  BY <1>1
<1>3. \A i \in 1..n : s[i] = h \/ (i - 1 \in 1..n - 1 /\ a[i - 1] = s[i])
  BY <1>1, <1>2
<1>4. \A e : Reported(e, w, s) => Reported(e, v, a)
  BY <1>1, <1>3 DEF Reported
<1>5. ASSUME Ordered(w, s) PROVE Ordered(v, a)
  <2>1. ASSUME NEW i \in 1..n - 1, a[i].probe # 0
        PROVE  \/ Record(a[i].at, 0) \in v
               \/ \E k \in 1..i - 1 : a[k] = Record(a[i].at, 0)
    <3>1. i + 1 \in 1..n /\ a[i] = s[i + 1] /\ (i + 1) - 1 = i
      BY <1>1
    <3>2. CASE Record(a[i].at, 0) \in w
      BY <3>2
    <3>3. ASSUME NEW k \in 1..i, s[k] = Record(a[i].at, 0)
          PROVE  \/ Record(a[i].at, 0) \in v
                 \/ \E j \in 1..i - 1 : a[j] = Record(a[i].at, 0)
      <4>1. k \in 1..n /\ (k = 1 \/ k - 1 \in 1..i - 1)
        BY <1>1
      <4>2. CASE k = 1
        BY <1>1, <3>3, <4>2
      <4>3. CASE k - 1 \in 1..i - 1
        <5>1. k - 1 \in 1..n - 1 /\ (k - 1) + 1 = k
          BY <1>1, <4>3
        <5>2. QED
          BY <1>1, <3>3, <4>3, <5>1
      <4>4. QED
        BY <4>1, <4>2, <4>3
    <3>4. QED
      BY <1>1, <1>5, <2>1, <3>1, <3>2, <3>3 DEF Ordered
  <2>2. QED
    BY <1>1, <2>1 DEF Ordered
<1>6. QED
  BY <1>4, <1>5 DEF a, h

LEMMA OpenStep == TypeInv /\ OpenInv /\ [Next]_vars => OpenInv'
<1> SUFFICES ASSUME TypeInv, OpenInv, [Next]_vars PROVE OpenInv'
  OBVIOUS
<1> DEFINE T == [at : Endpoint, probe : 0..NProbes]
<1>0. /\ pc \in [Plan -> Idle \cup Working] /\ open \in [Plan -> Endpoint \cup {None}]
      /\ out \in Seq(T) /\ outOpen \in BOOLEAN
  BY DEF TypeInv, TypeOK, PlanTypes, ChannelTypes
<1> HIDE DEF T
<1>1. ASSUME UNCHANGED <<out, outOpen, written>>,
             \A t \in Plan : pc'[t] # "none" =>
                (pc[t] # "none" /\ open'[t] = open[t]) \/ (open'[t] = cur /\ loop = "permit"),
             loop' \in {"check", "permit"} =>
                (loop \in {"check", "permit"} /\ cur' = cur) \/ ~ReportsOpen
      PROVE  OpenInv'
  BY <1>1 DEF OpenInv, ReportsOpen
<1>2. CASE UNCHANGED <<out, outOpen, written, pc, open, loop, cur>>
  BY <1>1, <1>2
<1>3. ASSUME NEW r \in T, Send(r), UNCHANGED <<outOpen, written, open, cur>>,
             \A t \in Plan : pc'[t] # "none" => pc[t] # "none",
             ReportsOpen => r.probe = 0 \/ Reported(r.at, written, out),
             loop' = loop \/ r = Record(cur, 0)
      PROVE  OpenInv'
  <2>1. out' = Append(out, r) /\ outOpen
    BY <1>3 DEF Send
  <2>2. /\ \A e : Reported(e, written, out) => Reported(e, written, out')
        /\ r = Record(cur, 0) => Reported(cur, written, out')
        /\ Ordered(written, out) /\ (r.probe = 0 \/ Reported(r.at, written, out))
             => Ordered(written, out')
    BY <1>0, <1>3, <2>1, AppendKeeps
  <2>3. QED
    BY <1>3, <2>1, <2>2 DEF OpenInv, ReportsOpen
<1>4. CASE Recv
  BY <1>1, <1>4 DEF Recv, planVars, outVars
<1>5. CASE RecvClosed \/ JoinPlans
  BY <1>1, <1>5 DEF RecvClosed, JoinPlans, planVars, outVars
<1>6. CASE CheckShutdown
  BY <1>1, <1>6 DEF CheckShutdown, planVars, outVars
<1>7. CASE ReportOpen
  <2>1. CASE Send(Record(cur, 0))
    <3>1. Record(cur, 0) \in T /\ Record(cur, 0).probe = 0
      BY <1>7, ConstantsAssumption DEF Record, T, TypeInv, TypeOK, LoopTypes, ReportOpen
    <3>2. QED
      BY <1>3, <1>7, <2>1, <3>1 DEF ReportOpen, planVars
  <2>2. CASE out' = out /\ loop' = "failed"
    BY <1>1, <1>7, <2>2 DEF ReportOpen, planVars
  <2>3. QED
    BY <1>7, <2>1, <2>2 DEF ReportOpen
<1>8. ASSUME NEW t \in Plan, SpawnPlan(t) PROVE OpenInv'
  <2>1. /\ loop = "permit" /\ open'[t] = cur /\ loop' = "recv"
        /\ \A u \in Plan \ {t} : pc'[u] = pc[u] /\ open'[u] = open[u]
    BY <1>0, <1>8 DEF SpawnPlan
  <2>2. QED
    BY <1>1, <1>8, <2>1 DEF SpawnPlan, outVars
<1>9. ASSUME NEW t \in Plan, EmitResult(t) PROVE OpenInv'
  <2>1. pc[t] = "emit" /\ UNCHANGED <<open, loop, cur, outOpen, written>>
    BY <1>9 DEF EmitResult, loopVars
  <2>2. \A u \in Plan : pc'[u] # "none" => pc[u] # "none"
    BY <1>0, <1>9 DEF EmitResult, After
  <2>3. CASE Send(Record(open[t], idx[t]))
    <3> DEFINE r == Record(open[t], idx[t])
    <3>1. r \in T /\ r.at = open[t]
      BY <2>1, ConstantsAssumption DEF Record, T, TypeInv, TypeOK, PlanTypes, Probe
    <3>2. ReportsOpen => Reported(r.at, written, out)
      BY <2>1, <2>3, <3>1 DEF Send, OpenInv
    <3> HIDE DEF r
    <3>3. QED
      BY <1>3, <2>1, <2>2, <2>3, <3>1, <3>2 DEF r
  <2>4. CASE UNCHANGED out
    BY <1>1, <2>1, <2>2, <2>4
  <2>5. QED
    BY <1>9, <2>3, <2>4 DEF EmitResult
<1>10. ASSUME NEW t \in Plan, PlanStep(t) PROVE OpenInv'
  <2>1. CASE EmitResult(t)
    BY <1>9, <2>1
  <2>2. CASE ~EmitResult(t)
    <3>1. UNCHANGED <<out, outOpen, written, loop, cur, open>> /\ pc[t] # "none"
      BY <1>10, <2>2 DEF PlanStep, AcquireHost, NextProbe, TakeHostPermit, TakeProbePermit,
         EndExecution, ReleaseHost, CancelPlan, Live, Working, loopVars, outVars
    <3>2. \A u \in Plan \ {t} : pc'[u] = pc[u]
      BY <1>0, <1>10, <2>2 DEF PlanStep, AcquireHost, NextProbe, TakeHostPermit,
         TakeProbePermit, EndExecution, After, ReleaseHost, CancelPlan
    <3>3. QED
      BY <1>1, <3>1, <3>2
  <2>3. QED
    BY <2>1, <2>2
<1>11. CASE WriteResult
  <2>1. /\ outOpen /\ outOpen' = outOpen /\ written' = written \cup {Head(out)}
        /\ out' = Tail(out) /\ out # <<>>
        /\ UNCHANGED <<pc, open, loop, cur>>
    BY <1>11 DEF WriteResult, planVars, loopVars
  <2>2. /\ \A e : Reported(e, written, out) => Reported(e, written', out')
        /\ Ordered(written, out) => Ordered(written', out')
    BY <1>0, <2>1, TailKeeps
  <2>3. QED
    BY <2>1, <2>2 DEF OpenInv, ReportsOpen
<1>12. CASE OutputFails
  <2>1. outOpen' = FALSE /\ out' = <<>>
    BY <1>12 DEF OutputFails
  <2>2. QED
    BY <2>1 DEF OpenInv, Ordered
<1>13. CASE UNCHANGED vars
  BY <1>2, <1>13 DEF vars, planVars, loopVars, outVars
<1>14. CASE (\E e \in Endpoint : CountOpenPort(e)) \/ Producer \/ RequestShutdown
  BY <1>2, <1>14 DEF CountOpenPort, Producer, SendOpenPort, GiveUpOpenPort, CloseInput,
     RequestShutdown, planVars, loopVars, outVars
<1>15. CASE AbortScheduler
  BY <1>1, <1>15 DEF AbortScheduler, planVars, outVars
<1>16. QED
  BY <1>4, <1>5, <1>6, <1>7, <1>8, <1>10, <1>11, <1>12, <1>13, <1>14, <1>15
     DEF Next, LoopStep, Environment

(* In a mode that reports open ports, the open port is read before its     *)
(* probes.                                                                 *)
THEOREM OpenBeforeProbeCorrect == Spec => []OpenBeforeProbe
<1>1. OpenInv => OpenBeforeProbe
  BY DEF OpenInv, Ordered, OpenBeforeProbe
<1>2. QED
  BY <1>1, TypeInit, TypeStep, OpenInit, OpenStep, PTL DEF Spec

-----------------------------------------------------------------------------
(* queue_depth.                                                            *)

Reporting == IF loop = "report" THEN 1 ELSE 0
Counted   == IF waiting # None THEN 1 ELSE 0
Balanced ==
  depth = Len(input) + Len(out) + Cardinality(Senders) + Counted + Reporting + dropped
NothingDropped == outOpen /\ loop \notin {"failed", "aborted"} => dropped = 0

LEMMA DepthParts == DepthExact <=> Balanced /\ NothingDropped
BY DEF DepthExact, InTransit, Balanced, NothingDropped, Counted, Reporting

LEMMA DepthInit == Init => DepthExact
<1> SUFFICES ASSUME Init PROVE Balanced /\ NothingDropped
  BY DepthParts
<1>1. Senders = {}
  BY DEF Init, Senders
<1>2. QED
  BY <1>1, FS_EmptySet DEF Init, Balanced, NothingDropped, Counted, Reporting

(* Every step that changes what is on its way changes the gauge or the     *)
(* history of what was thrown away with it.                                *)
LEMMA BalancedStep == TypeInv /\ Balanced /\ [Next]_vars => Balanced'
<1> SUFFICES ASSUME TypeInv, Balanced, [Next]_vars
             PROVE  depth' = Len(input') + Len(out') + Cardinality(Senders') + Counted'
                             + Reporting' + dropped'
  BY DEF Balanced
<1> DEFINE G == depth' = Len(input') + Len(out') + Cardinality(Senders') + Counted'
                         + Reporting' + dropped'
<1>0. /\ pc \in [Plan -> Idle \cup Working] /\ depth \in Nat /\ dropped \in Nat
      /\ input \in Seq(Endpoint) /\ out \in Seq([at : Endpoint, probe : 0..NProbes])
      /\ Len(input) \in Nat /\ Len(out) \in Nat
  BY DEF TypeInv, TypeOK, PlanTypes, ChannelTypes
<1>1. /\ Cardinality(Senders) \in Nat /\ IsFiniteSet(Senders)
      /\ Reporting \in {0, 1} /\ Counted \in {0, 1}
  BY PlanSubset DEF Senders, Reporting, Counted
<1>2. /\ depth = Len(input) + Len(out) + Cardinality(Senders) + Counted + Reporting + dropped
      /\ depth \in Nat /\ dropped \in Nat /\ Len(input) \in Nat /\ Len(out) \in Nat
      /\ Cardinality(Senders) \in Nat /\ Counted \in Nat /\ Reporting \in Nat
  BY <1>0, <1>1 DEF Balanced
<1>3. UNCHANGED pc => Senders' = Senders
  BY DEF Senders
<1>4. UNCHANGED waiting => Counted' = Counted
  BY DEF Counted
<1>5. Reporting' = IF loop' = "report" THEN 1 ELSE 0
  BY DEF Reporting
<1>6. loop # "report" => Reporting = 0
  BY DEF Reporting
<1>7. loop = "report" => Reporting = 1
  BY DEF Reporting
<1>8. UNCHANGED loop => Reporting' = Reporting
  BY DEF Reporting
<1>9. Len(<<>>) = 0
  BY EmptySeq
<1>10. ASSUME UNCHANGED <<input, out, pc, waiting, depth, dropped>>,
              UNCHANGED loop \/ (loop # "report" /\ loop' # "report")
       PROVE  G
  BY <1>1, <1>2, <1>3, <1>4, <1>5, <1>6, <1>8, <1>10
<1>11. CASE Recv
  <2>1. /\ Len(input') = Len(input) - 1 /\ Len(input) >= 1
        /\ UNCHANGED <<out, pc, waiting, dropped>> /\ loop = "recv"
        /\ \/ loop' = "report" /\ depth' = Dequeued(depth) + 1
           \/ loop' = "check" /\ depth' = Dequeued(depth)
    BY <1>0, <1>11, HeadTailProperties DEF Recv, planVars, outVars
  <2>2. Dequeued(depth) = depth - 1
    BY <1>0, <1>1, <1>2, <2>1 DEF Dequeued
  <2>3. QED
    BY <1>0, <1>1, <1>2, <1>3, <1>4, <1>5, <1>6, <2>1, <2>2
<1>12. CASE ReportOpen
  <2>1. loop = "report" /\ loop' # "report" /\ UNCHANGED <<pc, waiting>>
    BY <1>12 DEF ReportOpen, planVars
  <2>2. CASE UNCHANGED <<input, depth, dropped>> /\ out' = Append(out, Record(cur, 0))
    <3>1. Record(cur, 0) \in [at : Endpoint, probe : 0..NProbes]
      BY <2>1, ConstantsAssumption DEF Record, TypeInv, TypeOK, LoopTypes
    <3>2. Len(out') = Len(out) + 1
      BY <1>0, <2>2, <3>1, AppendProperties
    <3>3. QED
      BY <1>0, <1>1, <1>2, <1>3, <1>4, <1>5, <1>7, <2>1, <2>2, <3>2
  <2>3. CASE /\ input' = <<>> /\ out' = out /\ depth' = Uncounted(depth)
             /\ dropped' = dropped + Len(input)
    <3>1. depth' = depth - 1
      BY <1>0, <1>1, <1>2, <1>7, <2>1, <2>3 DEF Uncounted, Dequeued
    <3>2. QED
      BY <1>0, <1>1, <1>2, <1>3, <1>4, <1>5, <1>7, <1>9, <2>1, <2>3, <3>1
  <2>4. QED
    BY <1>12, <2>2, <2>3 DEF ReportOpen, Send, depthVars
<1>13. CASE RecvClosed \/ CheckShutdown \/ JoinPlans
  BY <1>10, <1>13 DEF RecvClosed, CheckShutdown, JoinPlans, inVars, outVars, planVars, depthVars
<1>14. ASSUME NEW t \in Plan, NEW c, pc' = [pc EXCEPT ![t] = c], pc[t] # "emit", c # "emit",
              UNCHANGED <<input, out, waiting, depth, dropped>>,
              (loop # "report" /\ loop' # "report") \/ UNCHANGED loop
       PROVE  G
  <2>1. Senders' = Senders
    BY <1>0, <1>14 DEF Senders
  <2>2. QED
    BY <1>1, <1>2, <1>4, <1>5, <1>6, <1>8, <1>14, <2>1
<1>15. ASSUME NEW t \in Plan, NEW c, pc' = [pc EXCEPT ![t] = c], pc[t] = "emit", c # "emit",
              UNCHANGED <<input, waiting, loop>>
       PROVE  /\ Cardinality(Senders') = Cardinality(Senders) - 1 /\ Cardinality(Senders) >= 1
              /\ Counted' = Counted /\ Reporting' = Reporting
  <2>1. Senders' = Senders \ {t} /\ t \in Senders
    BY <1>0, <1>15 DEF Senders
  <2>2. Cardinality(Senders') = Cardinality(Senders) - 1
    BY <1>1, <2>1, FS_RemoveElement
  <2>3. Cardinality(Senders) # 0
    BY <1>1, <2>1, FS_EmptySet
  <2>4. QED
    BY <1>1, <1>4, <1>8, <1>15, <2>2, <2>3
<1>16. ASSUME NEW t \in Plan, SpawnPlan(t) PROVE G
  BY <1>14, <1>16 DEF SpawnPlan, inVars, outVars, depthVars
<1>17. ASSUME NEW t \in Plan, NEW o \in Outcome, EndExecution(t, o) PROVE G
  <2>1. pc[t] = "run" /\ UNCHANGED <<input, out, loop, waiting, dropped>>
    BY <1>17 DEF EndExecution, inVars, outVars, loopVars
  <2>2. CASE pc' = [pc EXCEPT ![t] = "emit"] /\ depth' = depth + 1
    <3>1. Senders' = Senders \cup {t} /\ t \notin Senders
      BY <1>0, <2>1, <2>2 DEF Senders
    <3>2. Cardinality(Senders') = Cardinality(Senders) + 1
      BY <1>1, <3>1, FS_AddElement
    <3>3. QED
      BY <1>0, <1>1, <1>2, <1>4, <1>8, <2>1, <2>2, <3>2
  <2>3. CASE After(t, o) /\ depth' = depth
    BY <1>14, <2>1, <2>3 DEF After
  <2>4. CASE UNCHANGED <<pc, depth>>
    BY <1>10, <2>1, <2>4
  <2>5. QED
    BY <1>17, <2>2, <2>3, <2>4 DEF EndExecution
<1>18. ASSUME NEW t \in Plan, EmitResult(t) PROVE G
  <2>1. pc[t] = "emit" /\ UNCHANGED <<input, loop, waiting, dropped>>
    BY <1>18 DEF EmitResult, inVars, loopVars
  <2>2. CASE /\ out' = Append(out, Record(open[t], idx[t]))
             /\ After(t, ran[t][idx[t]]) /\ depth' = depth
    <3>1. Record(open[t], idx[t]) \in [at : Endpoint, probe : 0..NProbes]
      BY <2>1, ProbeNumber DEF Record, TypeInv, TypeOK, PlanTypes
    <3>2. Len(out') = Len(out) + 1
      BY <1>0, <2>2, <3>1, AppendProperties
    <3>3. \/ pc' = [pc EXCEPT ![t] = "leave"] \/ pc' = [pc EXCEPT ![t] = "next"]
      BY <2>2 DEF After
    <3>4. Cardinality(Senders') = Cardinality(Senders) - 1 /\ Cardinality(Senders) >= 1
          /\ Counted' = Counted /\ Reporting' = Reporting
      BY <1>15, <2>1, <3>3
    <3>5. QED
      BY <1>0, <1>1, <1>2, <2>1, <2>2, <3>2, <3>4
  <2>3. CASE pc' = [pc EXCEPT ![t] = "bail"] /\ depth' = Uncounted(depth) /\ out' = out
    <3>1. Cardinality(Senders') = Cardinality(Senders) - 1 /\ Cardinality(Senders) >= 1
          /\ Counted' = Counted /\ Reporting' = Reporting
      BY <1>15, <2>1, <2>3
    <3>2. depth' = depth - 1
      BY <1>0, <1>1, <1>2, <2>3, <3>1 DEF Uncounted, Dequeued
    <3>3. QED
      BY <1>0, <1>1, <1>2, <2>1, <2>3, <3>1, <3>2
  <2>4. QED
    BY <1>18, <2>2, <2>3 DEF EmitResult, Send
<1>19. ASSUME NEW t \in Plan, CancelPlan(t) PROVE G
  <2>1. /\ pc' = [pc EXCEPT ![t] = "cancelled"] /\ UNCHANGED <<input, out, loop, waiting, depth>>
        /\ dropped' = IF pc[t] = "emit" THEN dropped + 1 ELSE dropped
    BY <1>19 DEF CancelPlan, inVars, outVars, loopVars
  <2>2. CASE pc[t] # "emit"
    BY <1>14, <2>1, <2>2
  <2>3. CASE pc[t] = "emit"
    <3>1. Cardinality(Senders') = Cardinality(Senders) - 1 /\ Cardinality(Senders) >= 1
          /\ Counted' = Counted /\ Reporting' = Reporting
      BY <1>15, <2>1, <2>3
    <3>2. dropped' = dropped + 1 /\ Len(input') = Len(input) /\ Len(out') = Len(out)
      BY <2>1, <2>3
    <3>3. depth' = depth
      BY <2>1
    <3>4. QED
      BY SMTT(30), <1>2, <3>1, <3>2, <3>3
  <2>4. QED
    BY <2>2, <2>3
<1>20. ASSUME NEW t \in Plan, PlanStep(t) PROVE G
  <2>1. CASE NextProbe(t)
    <3>1. /\ pc[t] = "next" /\ UNCHANGED <<input, out, waiting, depth, dropped, loop>>
          /\ \/ pc' = [pc EXCEPT ![t] = "leave"] \/ pc' = [pc EXCEPT ![t] = "host"] \/ pc' = pc
      BY <2>1 DEF NextProbe, inVars, outVars, loopVars, depthVars
    <3>2. QED
      BY <1>10, <1>14, <3>1
  <2>2. CASE AcquireHost(t) \/ TakeHostPermit(t) \/ TakeProbePermit(t)
    BY <1>14, <2>2 DEF AcquireHost, TakeHostPermit, TakeProbePermit, inVars, outVars,
       loopVars, depthVars
  <2>3. CASE ReleaseHost(t)
    BY <1>14, <2>3 DEF ReleaseHost, inVars, outVars, loopVars, depthVars
  <2>4. QED
    BY <1>17, <1>18, <1>19, <1>20, <2>1, <2>2, <2>3 DEF PlanStep
<1>21. ASSUME NEW e \in Endpoint, CountOpenPort(e) PROVE G
  <2>1. /\ waiting = None /\ waiting' # None /\ depth' = depth + 1
        /\ UNCHANGED <<input, out, pc, loop, dropped>>
    BY <1>21, ConstantsAssumption DEF CountOpenPort, loopVars, planVars, outVars
  <2>2. Counted = 0 /\ Counted' = 1
    BY <2>1 DEF Counted
  <2>3. QED
    BY <1>0, <1>1, <1>2, <1>3, <1>8, <2>1, <2>2
<1>22. CASE SendOpenPort
  <2>1. /\ waiting # None /\ waiting' = None /\ input' = Append(input, waiting)
        /\ UNCHANGED <<out, pc, loop, depth, dropped>>
    BY <1>22 DEF SendOpenPort, loopVars, planVars, outVars, depthVars
  <2>2. Counted = 1 /\ Counted' = 0
    BY <2>1 DEF Counted
  <2>3. waiting \in Endpoint
    BY <2>1 DEF TypeInv, TypeOK, ChannelTypes
  <2>4. Len(input') = Len(input) + 1
    BY <1>0, <2>1, <2>3, AppendProperties
  <2>5. QED
    BY <1>0, <1>1, <1>2, <1>3, <1>8, <2>1, <2>2, <2>4
<1>23. CASE GiveUpOpenPort
  <2>1. /\ waiting # None /\ waiting' = None /\ depth' = Uncounted(depth)
        /\ UNCHANGED <<input, out, pc, loop, dropped>>
    BY <1>23 DEF GiveUpOpenPort, loopVars, planVars, outVars
  <2>2. Counted = 1 /\ Counted' = 0
    BY <2>1 DEF Counted
  <2>3. depth' = depth - 1
    BY <1>0, <1>1, <1>2, <2>1, <2>2 DEF Uncounted, Dequeued
  <2>4. QED
    BY <1>0, <1>1, <1>2, <1>3, <1>8, <2>1, <2>2, <2>3
<1>24. CASE WriteResult
  <2>1. /\ Len(out') = Len(out) - 1 /\ Len(out) >= 1
        /\ UNCHANGED <<input, pc, loop, waiting, dropped>> /\ depth' = Dequeued(depth)
    BY <1>0, <1>24, HeadTailProperties DEF WriteResult, inVars, planVars, loopVars
  <2>2. Dequeued(depth) = depth - 1
    BY <1>0, <1>1, <1>2, <2>1 DEF Dequeued
  <2>3. /\ Senders' = Senders /\ Counted' = Counted /\ Reporting' = Reporting
        /\ Len(input') = Len(input)
    BY <1>3, <1>4, <1>8, <2>1
  <2>4. QED
    BY SMTT(30), <1>1, <1>2, <2>1, <2>2, <2>3
<1>25. CASE OutputFails
  <2>1. out' = <<>> /\ UNCHANGED <<input, pc, loop, waiting>>
    BY <1>25 DEF OutputFails, inVars, planVars, loopVars
  <2>2. CASE depth' = depth /\ dropped' = dropped + Len(out)
    BY <1>0, <1>1, <1>2, <1>3, <1>4, <1>8, <1>9, <2>1, <2>2
  <2>3. CASE out # <<>> /\ depth' = Dequeued(depth) /\ dropped' = dropped + Len(out) - 1
    <3>1. Len(out) >= 1
      BY <1>0, <2>3, EmptySeq
    <3>2. depth' = depth - 1
      BY <1>0, <1>1, <1>2, <2>3, <3>1 DEF Dequeued
    <3>3. /\ Cardinality(Senders') = Cardinality(Senders)
          /\ Counted' = Counted /\ Reporting' = Reporting
          /\ Len(input') = Len(input) /\ Len(out') = 0
      BY <1>3, <1>4, <1>8, <1>9, <2>1
    <3>4. dropped' = dropped + Len(out) - 1
      BY <2>3
    <3>5. QED
      BY SMTT(30), <1>2, <3>1, <3>2, <3>3, <3>4
  <2>4. QED
    BY <1>25, <2>2, <2>3 DEF OutputFails
<1>26. CASE AbortScheduler
  <2>1. /\ input' = <<>> /\ loop' = "aborted" /\ UNCHANGED <<out, pc, waiting, depth>>
        /\ dropped' = dropped + Len(input) + (IF loop = "report" THEN 1 ELSE 0)
    BY <1>26 DEF AbortScheduler, planVars, outVars
  <2>2. /\ Senders' = Senders /\ Counted' = Counted /\ Reporting' = 0
        /\ Len(input') = 0 /\ Len(out') = Len(out)
    BY <1>3, <1>4, <1>5, <1>9, <2>1
  <2>3. CASE loop = "report"
    <3>1. Reporting = 1 /\ dropped' = dropped + Len(input) + 1
      BY <1>7, <2>1, <2>3
    <3>2. QED
      BY <1>1, <1>2, <2>1, <2>2, <3>1
  <2>4. CASE loop # "report"
    <3>1. Reporting = 0 /\ dropped' = dropped + Len(input)
      BY <1>2, <1>6, <2>1, <2>4
    <3>2. QED
      BY <1>1, <1>2, <2>1, <2>2, <3>1
  <2>5. QED
    BY <2>3, <2>4
<1>27. CASE CloseInput \/ RequestShutdown \/ UNCHANGED vars
  BY <1>10, <1>27 DEF CloseInput, RequestShutdown, vars, inVars, outVars, loopVars, planVars,
     depthVars
<1>28. QED
  BY <1>11, <1>12, <1>13, <1>16, <1>20, <1>21, <1>22, <1>23, <1>24, <1>25, <1>26, <1>27
     DEF Next, LoopStep, Environment, Producer

LEMMA NothingDroppedStep == NothingDropped /\ [Next]_vars => NothingDropped'
<1> SUFFICES ASSUME NothingDropped, [Next]_vars, outOpen', loop' \notin {"failed", "aborted"}
             PROVE  dropped' = 0
  BY DEF NothingDropped
<1> USE DEF NothingDropped
<1>1. CASE LoopStep
  BY <1>1 DEF LoopStep, Recv, RecvClosed, ReportOpen, CheckShutdown, SpawnPlan, JoinPlans,
     outVars, depthVars
<1>2. ASSUME NEW t \in Plan, PlanStep(t) PROVE dropped' = 0
  BY <1>2 DEF PlanStep, AcquireHost, NextProbe, TakeHostPermit, TakeProbePermit,
     EndExecution, EmitResult, ReleaseHost, CancelPlan, loopVars, outVars, depthVars
<1>3. CASE Environment
  BY <1>3 DEF Environment, CountOpenPort, Producer, SendOpenPort, GiveUpOpenPort, CloseInput,
     WriteResult, OutputFails, RequestShutdown, AbortScheduler, loopVars, outVars, depthVars
<1>4. CASE UNCHANGED vars
  BY <1>4 DEF vars, loopVars, outVars, depthVars
<1>5. QED
  BY <1>1, <1>2, <1>3, <1>4 DEF Next

(* At every moment queue_depth is what is on its way plus what went with a *)
(* receiver or a cancelled send: each failed send is un-counted, whichever *)
(* path it failed on, and nothing is counted twice.                        *)
THEOREM DepthCorrect == Spec => []DepthExact
<1>1. Init => TypeInv /\ DepthExact
  BY TypeInit, DepthInit
<1>2. TypeInv /\ DepthExact /\ [Next]_vars => (TypeInv /\ DepthExact)'
  <2>1. TypeInv /\ DepthExact /\ [Next]_vars => (Balanced /\ NothingDropped)'
    BY BalancedStep, NothingDroppedStep, DepthParts
  <2>2. (Balanced /\ NothingDropped)' => DepthExact'
    BY DepthParts, PTL
  <2>3. QED
    BY TypeStep, <2>1, <2>2
<1>3. QED
  BY <1>1, <1>2, PTL DEF Spec

-----------------------------------------------------------------------------
(* Claims, delivery and the ledger.                                        *)

(* How far a plan is: c its program counter, i the index, r its results, e *)
(* its endpoint, S the claims.  Past is where the probe at i has ended.  A *)
(* probe that runs was not shadowed: a namesake earlier in the plan order  *)
(* that allows the endpoint would have taken the key.                      *)
Past == {"emit", "leave", "bail", "ok", "err", "cancelled"}
Claims(e, p, S) == <<e, NameOf[p]>> \in S /\ e \in Scope[p] /\ ~Shadowed(e, p)
Walk(c, i, r, e, S) ==
  /\ c = "none" => i = 1 /\ (\A p \in Probe : r[p] = None)
  /\ \A p \in Probe : r[p] # None => p <= i /\ (p = i => c \in Past) /\ Claims(e, p, S)
  /\ \A p \in Probe : Confirms(r[p]) => p = i
  /\ c = "emit" => r[i] # None
  /\ c \in {"leave", "ok"} => i \notin Probe \/ Confirms(r[i])
  /\ \A p \in Probe : p < i /\ e \in Scope[p] => <<e, NameOf[p]>> \in S
  /\ c \in {"host", "probe", "run", "emit"} => Claims(e, i, S)

WalkInv == \A t \in Plan : Walk(pc[t], idx[t], ran[t], open[t], seen)

LEMMA WalkInit == Init => WalkInv
<1> SUFFICES ASSUME Init, NEW t \in Plan PROVE Walk(pc[t], idx[t], ran[t], open[t], seen)
  BY DEF WalkInv
<1>1. /\ pc[t] = "none" /\ idx[t] = 1
      /\ \A p \in Probe : ran[t][p] = None
  BY DEF Init
<1>2. \A p \in Probe : ~(p < 1)
  BY DEF Probe
<1>3. ~Confirms(None)
  BY DEF Confirms
<1>4. QED
  BY <1>1, <1>2, <1>3 DEF Walk

(* Only plan t moves.                                                      *)
Only(t) ==
  /\ \A u \in Plan \ {t} :
       pc'[u] = pc[u] /\ idx'[u] = idx[u] /\ ran'[u] = ran[u] /\ open'[u] = open[u]
  /\ seen \subseteq seen'

LEMMA WalkOnly ==
  ASSUME WalkInv, NEW t \in Plan, Only(t), Walk(pc'[t], idx'[t], ran'[t], open'[t], seen')
  PROVE  WalkInv'
<1>1. ASSUME NEW u \in Plan \ {t} PROVE Walk(pc'[u], idx'[u], ran'[u], open'[u], seen')
  <2>1. Walk(pc[u], idx[u], ran[u], open[u], seen) /\ seen \subseteq seen'
    BY DEF WalkInv, Only
  <2>2. Walk(pc[u], idx[u], ran[u], open[u], seen')
    BY <2>1 DEF Walk, Claims
  <2>3. QED
    BY <2>2 DEF Only
<1>2. QED
  BY <1>1 DEF WalkInv

(* The end of a probe whose result is known.                               *)
LEMMA WalkAfter ==
  ASSUME TypeInv, NEW t \in Plan, NEW o, NEW r, idx[t] \in Probe, After(t, o),
         r[idx[t]] = o, o # None,
         Walk("emit", idx[t], r, open[t], seen)
  PROVE  Walk(pc'[t], idx'[t], r, open[t], seen)
<1>1. /\ pc \in [Plan -> Idle \cup Working] /\ idx \in [Plan -> 1..NProbes + 1]
      /\ idx[t] \in Int /\ Probe \subseteq Int
  BY ConstantsAssumption DEF TypeInv, TypeOK, PlanTypes, Probe
<1>2. CASE Confirms(o)
  <2>1. pc'[t] = "leave" /\ idx'[t] = idx[t]
    BY <1>1, <1>2 DEF After
  <2>2. QED
    BY <1>2, <2>1 DEF Walk, Past
<1>3. CASE ~Confirms(o)
  <2>1. pc'[t] = "next" /\ idx'[t] = idx[t] + 1
    BY <1>1, <1>3 DEF After
  <2>2. \A p \in Probe : /\ p <= idx[t] => p <= idx[t] + 1 /\ p # idx[t] + 1
                         /\ p < idx[t] + 1 => p < idx[t] \/ p = idx[t]
    BY <1>1
  <2>3. \A p \in Probe : ~Confirms(r[p])
    BY <1>3 DEF Walk
  <2>4. QED
    BY <2>1, <2>2, <2>3 DEF Walk, Claims
<1>4. QED
  BY <1>2, <1>3

LEMMA WalkStep == TypeInv /\ WalkInv /\ [Next]_vars => WalkInv'
<1> SUFFICES ASSUME TypeInv, WalkInv, [Next]_vars PROVE WalkInv'
  OBVIOUS
<1>0. /\ pc \in [Plan -> Idle \cup Working] /\ idx \in [Plan -> 1..NProbes + 1]
      /\ open \in [Plan -> Endpoint \cup {None}]
      /\ ran \in [Plan -> [Probe -> Outcome \cup {None}]]
      /\ \A t \in Plan : idx[t] \in Int
      /\ Probe \subseteq Int
      /\ \A t \in Plan : pc[t] \in {"host", "probe", "run", "emit"} => idx[t] \in Probe
  BY ConstantsAssumption DEF TypeInv, TypeOK, PlanTypes, Probe
<1>1. CASE UNCHANGED <<pc, open, idx, ran, seen>>
  BY <1>1 DEF WalkInv
<1>2. ASSUME NEW t \in Plan, SpawnPlan(t) PROVE WalkInv'
  <2>1. /\ Only(t) /\ pc[t] = "none" /\ pc'[t] = "start" /\ idx'[t] = idx[t]
        /\ ran'[t] = ran[t] /\ seen' = seen
    BY <1>0, <1>2 DEF SpawnPlan, Only
  <2>2. idx[t] = 1 /\ \A p \in Probe : ran[t][p] = None
    BY <2>1 DEF WalkInv, Walk
  <2>3. /\ \A p \in Probe : ~(p < 1)
        /\ ~Confirms(None)
    BY ConstantsAssumption DEF Probe, Confirms
  <2>4. Walk(pc'[t], idx'[t], ran'[t], open'[t], seen')
    BY <2>1, <2>2, <2>3 DEF Walk
  <2>5. QED
    BY <2>1, <2>4, WalkOnly
<1>3. ASSUME NEW t \in Plan, NextProbe(t) PROVE WalkInv'
  <2> DEFINE W(c, i, S) == Walk(c, i, ran[t], open[t], S)
  <2>1. Only(t) /\ pc[t] = "next" /\ open'[t] = open[t] /\ ran'[t] = ran[t]
    BY <1>0, <1>3 DEF NextProbe, Only
  <2>2. W("next", idx[t], seen)
    BY <2>1 DEF WalkInv
  <2>3. CASE idx[t] \notin Probe /\ pc' = [pc EXCEPT ![t] = "leave"] /\ UNCHANGED <<idx, seen>>
    <3>1. W("leave", idx[t], seen)
      BY <2>2, <2>3 DEF Walk, Past
    <3>2. QED
      BY <1>0, <2>1, <2>3, <3>1, WalkOnly
  <2>4. CASE /\ idx[t] \in Probe
             /\ open[t] \notin Scope[idx[t]] \/ ~Unclaimed(KeyOf(t))
             /\ idx' = [idx EXCEPT ![t] = @ + 1] /\ UNCHANGED <<pc, seen>>
    <3>1. \A p \in Probe : /\ p <= idx[t] => p <= idx[t] + 1
                           /\ p < idx[t] + 1 => p < idx[t] \/ p = idx[t]
                           /\ p <= idx[t] => p # idx[t] + 1
      BY <1>0
    <3>2. open[t] \in Scope[idx[t]] => <<open[t], NameOf[idx[t]]>> \in seen
      BY <2>4 DEF Unclaimed, KeyOf
    <3>3. \A p \in Probe : ~Confirms(ran[t][p])
      <4>1. \A p \in Probe : Confirms(ran[t][p]) => p = idx[t] /\ ran[t][p] # None
        BY <2>2 DEF Walk, Confirms
      <4>2. QED
        BY <2>2, <4>1 DEF Walk, Past
    <3>4. W("next", idx[t] + 1, seen)
      BY <2>2, <3>1, <3>2, <3>3 DEF Walk
    <3>5. pc'[t] = "next" /\ idx'[t] = idx[t] + 1 /\ seen' = seen
      BY <1>0, <2>1, <2>4
    <3>6. QED
      BY <2>1, <3>4, <3>5, WalkOnly
  <2>5. CASE /\ idx[t] \in Probe /\ seen' = seen \cup {KeyOf(t)} /\ Unclaimed(KeyOf(t))
             /\ open[t] \in Scope[idx[t]] /\ pc' = [pc EXCEPT ![t] = "host"] /\ UNCHANGED idx
    <3>1. <<open[t], NameOf[idx[t]]>> \notin seen /\ seen' = seen \cup {<<open[t], NameOf[idx[t]]>>}
      BY <2>5 DEF Unclaimed, KeyOf
    <3>2. ~Shadowed(open[t], idx[t])
      <4>1. ASSUME NEW q \in 1..idx[t] - 1, NameOf[q] = NameOf[idx[t]], open[t] \in Scope[q]
            PROVE  FALSE
        <5>1. q \in Probe /\ q < idx[t]
          BY <2>5, ConstantsAssumption DEF Probe
        <5>2. <<open[t], NameOf[q]>> \in seen
          BY <2>2, <4>1, <5>1 DEF Walk
        <5>3. QED
          BY <3>1, <4>1, <5>2
      <4>2. QED
        BY <4>1 DEF Shadowed, Namesakes
    <3>3. Claims(open[t], idx[t], seen') /\ seen \subseteq seen'
      BY <2>5, <3>1, <3>2 DEF Claims
    <3>4. W("host", idx[t], seen')
      BY <2>2, <2>5, <3>3 DEF Walk, Past, Claims
    <3>5. QED
      BY <1>0, <2>1, <2>5, <3>4, WalkOnly
  <2>6. QED
    BY <1>3, <2>3, <2>4, <2>5 DEF NextProbe
<1>4. ASSUME NEW t \in Plan,
             AcquireHost(t) \/ TakeHostPermit(t) \/ TakeProbePermit(t) \/ ReleaseHost(t)
               \/ CancelPlan(t)
      PROVE  WalkInv'
  <2>1. /\ Only(t) /\ idx'[t] = idx[t] /\ ran'[t] = ran[t] /\ open'[t] = open[t] /\ seen' = seen
        /\ \/ pc[t] = "start" /\ pc'[t] = "next"
           \/ pc[t] = "host" /\ pc'[t] = "probe"
           \/ pc[t] = "probe" /\ pc'[t] = "run"
           \/ pc[t] = "leave" /\ pc'[t] = "ok"
           \/ pc[t] = "bail" /\ pc'[t] = "err"
           \/ pc[t] \in Working /\ pc'[t] = "cancelled"
    BY <1>0, <1>4
       DEF AcquireHost, TakeHostPermit, TakeProbePermit, ReleaseHost, CancelPlan, Live, Only
  <2>2. Walk(pc[t], idx[t], ran[t], open[t], seen)
    BY DEF WalkInv
  <2>3. Walk(pc'[t], idx[t], ran[t], open[t], seen)
    BY <2>1, <2>2 DEF Walk, Past, Working
  <2>4. QED
    BY <2>1, <2>3, WalkOnly
<1>5. ASSUME NEW t \in Plan, NEW o \in Outcome, EndExecution(t, o) PROVE WalkInv'
  <2>1. pc[t] = "run" /\ idx[t] \in Probe /\ open'[t] = open[t] /\ seen' = seen
    BY <1>0, <1>5 DEF EndExecution
  <2>2. CASE UNCHANGED <<pc, idx, ran>>
    BY <1>1, <1>5, <2>2 DEF EndExecution
  <2>3. CASE ran' = [ran EXCEPT ![t][idx[t]] = o]
    <3>1. /\ ran'[t][idx[t]] = o
          /\ \A p \in Probe : p # idx[t] => ran'[t][p] = ran[t][p]
          /\ \A u \in Plan \ {t} : ran'[u] = ran[u]
      BY <1>0, <2>1, <2>3
    <3>2. Walk("run", idx[t], ran[t], open[t], seen)
      BY <2>1 DEF WalkInv
    <3>3. o # None /\ ~Confirms(None)
      BY ConstantsAssumption DEF Confirms
    <3>4. \A p \in Probe : Confirms(ran[t][p]) => FALSE
      <4>1. \A p \in Probe : Confirms(ran[t][p]) => p = idx[t] /\ ran[t][p] # None
        BY <3>2, <3>3 DEF Walk, Confirms
      <4>2. QED
        BY <3>2, <4>1 DEF Walk, Past
    <3>5. Walk("emit", idx[t], ran'[t], open[t], seen)
      <4>1. idx[t] <= idx[t]
        BY <1>0
      <4>2. QED
        BY <2>1, <3>1, <3>2, <3>3, <3>4, <4>1 DEF Walk, Past
    <3>6. Walk(pc'[t], idx'[t], ran'[t], open[t], seen)
      <4>1. CASE pc' = [pc EXCEPT ![t] = "emit"] /\ idx' = idx
        BY <1>0, <3>5, <4>1
      <4>2. CASE After(t, o)
        BY <2>1, <3>1, <3>3, <3>5, <4>2, WalkAfter
      <4>3. QED
        BY <1>1, <1>5, <2>2, <4>1, <4>2 DEF EndExecution, WalkInv
    <3>7. Only(t)
      BY <1>0, <1>5, <2>1, <3>1 DEF EndExecution, After, Only
    <3>8. QED
      BY <2>1, <3>6, <3>7, WalkOnly
  <2>4. QED
    BY <1>5, <2>2, <2>3 DEF EndExecution
<1>6. ASSUME NEW t \in Plan, EmitResult(t) PROVE WalkInv'
  <2>1. /\ pc[t] = "emit" /\ idx[t] \in Probe /\ Only(t) /\ open'[t] = open[t]
        /\ ran'[t] = ran[t] /\ seen' = seen
    BY <1>0, <1>6 DEF EmitResult, After, Only
  <2>2. Walk("emit", idx[t], ran[t], open[t], seen)
    BY <2>1 DEF WalkInv
  <2>3. Walk(pc'[t], idx'[t], ran[t], open[t], seen)
    <3>1. CASE pc' = [pc EXCEPT ![t] = "bail"] /\ idx' = idx
      BY <1>0, <2>2, <3>1 DEF Walk, Past
    <3>2. CASE After(t, ran[t][idx[t]])
      <4>1. ran[t][idx[t]] # None
        BY <2>2 DEF Walk
      <4>2. QED
        BY <2>1, <2>2, <3>2, <4>1, WalkAfter
    <3>3. QED
      BY <1>6, <3>1, <3>2 DEF EmitResult
  <2>4. QED
    BY <2>1, <2>3, WalkOnly
<1>7. QED
  <2>1. CASE UNCHANGED vars
    BY <1>1, <2>1 DEF vars, planVars
  <2>2. CASE Environment
    BY <1>1, <2>2 DEF Environment,
        CountOpenPort, Producer, SendOpenPort, GiveUpOpenPort, CloseInput, WriteResult, OutputFails,
                      RequestShutdown, AbortScheduler, planVars
  <2>3. CASE Recv \/ RecvClosed \/ ReportOpen \/ CheckShutdown \/ JoinPlans
    BY <1>1, <2>3 DEF Recv, RecvClosed, ReportOpen, CheckShutdown, JoinPlans, planVars
  <2>4. QED
    BY <1>2, <1>3, <1>4, <1>5, <1>6, <2>1, <2>2, <2>3 DEF Next, LoopStep, PlanStep

-----------------------------------------------------------------------------
(* Every claim has a plan that is at work on it, has its result, or was    *)
(* aborted; no two plans have the same.                                    *)

Holds(t, k) ==
  /\ pc[t] # "none" /\ open[t] = k[1]
  /\ (\E p \in Attempted(t) : NameOf[p] = k[2]) \/ pc[t] = "cancelled"

Claimed == \A k \in seen : \E t \in Plan : Holds(t, k)

ClaimInv == Claimed /\ ProbedOnce

LEMMA ClaimInit == Init => ClaimInv
BY DEF Init, ClaimInv, Claimed, ProbedOnce, Attempted

(* What a plan has attempted it claimed.                                   *)
LEMMA AttemptedSeen ==
  ASSUME WalkInv, NEW t \in Plan, NEW p \in Attempted(t)
  PROVE  <<open[t], NameOf[p]>> \in seen /\ pc[t] # "none"
BY DEF WalkInv, Walk, Claims, Attempted

(* A step that claims nothing.                                             *)
LEMMA NoNewClaim ==
  ASSUME ClaimInv, WalkInv, seen' = seen,
         \A t \in Plan : /\ pc[t] # "none" => pc'[t] # "none" /\ open'[t] = open[t]
                         /\ pc[t] = "none" => Attempted(t)' = {}
                         /\ Attempted(t)' \subseteq Attempted(t)
                         /\ Attempted(t) \subseteq Attempted(t)' \/ pc'[t] = "cancelled"
                         /\ pc[t] = "cancelled" => pc'[t] = "cancelled"
  PROVE  ClaimInv'
<1>1. Claimed'
  <2>1. ASSUME NEW k \in seen, NEW t \in Plan, Holds(t, k) PROVE Holds(t, k)'
    BY <2>1 DEF Holds
  <2>2. QED
    BY <2>1 DEF ClaimInv, Claimed
<1>2. ProbedOnce'
  <2>1. ASSUME NEW t \in Plan, NEW u \in Plan, open'[t] = open'[u],
               NEW p \in Attempted(t)', NEW q \in Attempted(u)', NameOf[p] = NameOf[q]
        PROVE  t = u /\ p = q
    <3>1. p \in Attempted(t) /\ q \in Attempted(u)
      BY <2>1
    <3>2. pc[t] # "none" /\ pc[u] # "none"
      BY <3>1, AttemptedSeen
    <3>3. open[t] = open[u]
      BY <2>1, <3>2
    <3>4. QED
      BY <2>1, <3>1, <3>3 DEF ClaimInv, ProbedOnce
  <2>2. QED
    BY <2>1 DEF ProbedOnce
<1>3. QED
  BY <1>1, <1>2 DEF ClaimInv

LEMMA ClaimStep == TypeInv /\ WalkInv /\ ClaimInv /\ [Next]_vars => ClaimInv'
<1> SUFFICES ASSUME TypeInv, WalkInv, ClaimInv, [Next]_vars PROVE ClaimInv'
  OBVIOUS
<1>0. /\ pc \in [Plan -> Idle \cup Working] /\ idx \in [Plan -> 1..NProbes + 1]
      /\ open \in [Plan -> Endpoint \cup {None}]
      /\ ran \in [Plan -> [Probe -> Outcome \cup {None}]]
      /\ \A t \in Plan : pc[t] \in {"host", "probe", "run", "emit"} => idx[t] \in Probe
      /\ None \notin Outcome
  BY ConstantsAssumption DEF TypeInv, TypeOK, PlanTypes, AllOutcomes
<1> DEFINE Keeps(t) ==
      /\ pc[t] # "none" => pc'[t] # "none" /\ open'[t] = open[t]
      /\ pc[t] = "none" => Attempted(t)' = {}
      /\ Attempted(t)' \subseteq Attempted(t)
      /\ Attempted(t) \subseteq Attempted(t)' \/ pc'[t] = "cancelled"
      /\ pc[t] = "cancelled" => pc'[t] = "cancelled"
<1>1. ASSUME NEW u \in Plan, pc'[u] = pc[u], idx'[u] = idx[u], ran'[u] = ran[u],
             pc[u] # "none" => open'[u] = open[u]
      PROVE  Keeps(u)
  <2>1. Attempted(u)' = Attempted(u)
    BY <1>1 DEF Attempted
  <2>2. pc[u] = "none" => Attempted(u) = {}
    BY AttemptedSeen
  <2>3. QED
    BY <1>1, <2>1, <2>2
<1>2. ASSUME NEW t \in Plan, Only(t), seen' = seen, Keeps(t) PROVE ClaimInv'
  <2>1. \A u \in Plan : Keeps(u)
    BY <1>1, <1>2 DEF Only
  <2>2. QED
    BY <1>2, <2>1, NoNewClaim
<1>3. CASE UNCHANGED <<pc, open, idx, ran, seen>>
  BY <1>1, <1>3, NoNewClaim
<1>4. ASSUME NEW t \in Plan, SpawnPlan(t) PROVE ClaimInv'
  <2>1. /\ Only(t) /\ pc[t] = "none" /\ pc'[t] = "start" /\ ran'[t] = ran[t] /\ seen' = seen
    BY <1>0, <1>4 DEF SpawnPlan, Only
  <2>2. Attempted(t) = {} /\ Attempted(t)' = {}
    BY <2>1 DEF Attempted, WalkInv, Walk
  <2>3. QED
    BY <1>2, <2>1, <2>2
<1>5. ASSUME NEW t \in Plan, NextProbe(t) PROVE ClaimInv'
  <2>1. Only(t) /\ pc[t] = "next" /\ open'[t] = open[t] /\ ran'[t] = ran[t]
    BY <1>0, <1>5 DEF NextProbe, Only
  <2>2. CASE /\ seen' = seen
             /\ \/ pc' = [pc EXCEPT ![t] = "leave"]
                \/ pc' = pc
    <3>1. pc'[t] \in {"leave", "next"}
      BY <1>0, <2>1, <2>2
    <3>2. Attempted(t)' = Attempted(t)
      BY <2>1, <3>1 DEF Attempted
    <3>3. QED
      BY <1>2, <2>1, <2>2, <3>1, <3>2
  <2>3. CASE /\ idx[t] \in Probe /\ Unclaimed(KeyOf(t)) /\ seen' = seen \cup {KeyOf(t)}
             /\ pc' = [pc EXCEPT ![t] = "host"] /\ UNCHANGED idx
    <3> DEFINE p == idx[t]  e == open[t]
    <3>1. /\ pc'[t] = "host" /\ idx'[t] = p /\ p \in Probe
          /\ <<e, NameOf[p]>> \notin seen /\ seen' = seen \cup {<<e, NameOf[p]>>}
      BY <1>0, <2>3 DEF Unclaimed, KeyOf
    <3>2. Attempted(t)' = Attempted(t) \cup {p}
      BY <2>1, <2>3, <3>1 DEF Attempted
    <3>3. \A u \in Plan \ {t} : Attempted(u)' = Attempted(u) /\ pc'[u] = pc[u]
                                /\ open'[u] = open[u]
      BY <2>1 DEF Only, Attempted
    <3>4. Claimed'
      <4>1. ASSUME NEW k \in seen, NEW u \in Plan, Holds(u, k) PROVE Holds(u, k)'
        BY <2>1, <3>1, <3>2, <3>3, <4>1 DEF Holds
      <4>2. ASSUME NEW k, k = <<e, NameOf[p]>> PROVE Holds(t, k)'
        BY <2>1, <3>1, <3>2, <4>2 DEF Holds
      <4>3. QED
        BY <3>1, <4>1, <4>2 DEF ClaimInv, Claimed
    <3>5. ProbedOnce'
      <4>1. \A u \in Plan : open[u] = e => \A q \in Attempted(u) : NameOf[q] # NameOf[p]
        BY <3>1, AttemptedSeen
      <4>2. ASSUME NEW x \in Plan, NEW y \in Plan, open'[x] = open'[y],
                   NEW q \in Attempted(x)', NEW r \in Attempted(y)', NameOf[q] = NameOf[r]
            PROVE  x = y /\ q = r
        <5>1. open[x] = open[y]
          BY <2>1, <3>3, <4>2
        <5>2. q \in Attempted(x) \/ (x = t /\ q = p)
          BY <3>2, <3>3, <4>2
        <5>3. r \in Attempted(y) \/ (y = t /\ r = p)
          BY <3>2, <3>3, <4>2
        <5>4. CASE q \in Attempted(x) /\ r \in Attempted(y)
          BY <4>2, <5>1, <5>4 DEF ClaimInv, ProbedOnce
        <5>5. CASE x = t /\ q = p
          BY <4>1, <4>2, <5>1, <5>3, <5>5
        <5>6. CASE y = t /\ r = p
          BY <4>1, <4>2, <5>1, <5>2, <5>6
        <5>7. QED
          BY <5>2, <5>3, <5>4, <5>5, <5>6
      <4>3. QED
        BY <4>2 DEF ProbedOnce
    <3>6. QED
      BY <3>4, <3>5 DEF ClaimInv
  <2>4. QED
    BY <1>5, <2>2, <2>3 DEF NextProbe
<1>6. ASSUME NEW t \in Plan,
             AcquireHost(t) \/ TakeHostPermit(t) \/ TakeProbePermit(t) \/ ReleaseHost(t)
               \/ CancelPlan(t)
      PROVE  ClaimInv'
  <2>1. /\ Only(t) /\ idx'[t] = idx[t] /\ ran'[t] = ran[t] /\ open'[t] = open[t] /\ seen' = seen
        /\ \/ pc[t] = "start" /\ pc'[t] = "next"
           \/ pc[t] = "host" /\ pc'[t] = "probe"
           \/ pc[t] = "probe" /\ pc'[t] = "run"
           \/ pc[t] = "leave" /\ pc'[t] = "ok"
           \/ pc[t] = "bail" /\ pc'[t] = "err"
           \/ pc[t] \in Working /\ pc'[t] = "cancelled"
    BY <1>0, <1>6
       DEF AcquireHost, TakeHostPermit, TakeProbePermit, ReleaseHost, CancelPlan, Live, Only
  <2>2. Attempted(t)' \subseteq Attempted(t)
    BY <2>1 DEF Attempted
  <2>3. Attempted(t) \subseteq Attempted(t)' \/ pc'[t] = "cancelled"
    BY <2>1 DEF Attempted
  <2>4. pc[t] \notin {"none", "cancelled"} /\ pc'[t] # "none"
    BY <2>1 DEF Working
  <2>5. QED
    BY <1>2, <2>1, <2>2, <2>3, <2>4
<1>7. ASSUME NEW t \in Plan, NEW o \in Outcome, EndExecution(t, o) PROVE ClaimInv'
  <2>1. /\ Only(t) /\ pc[t] = "run" /\ idx[t] \in Probe /\ open'[t] = open[t] /\ seen' = seen
    BY <1>0, <1>7 DEF EndExecution, After, Only
  <2>2. CASE UNCHANGED <<pc, idx, ran>>
    BY <1>3, <1>7, <2>2 DEF EndExecution
  <2>3. CASE /\ ran' = [ran EXCEPT ![t][idx[t]] = o]
             /\ pc' = [pc EXCEPT ![t] = "emit"] \/ After(t, o)
    <3>1. \A p \in Probe : ran'[t][p] = IF p = idx[t] THEN o ELSE ran[t][p]
      BY <1>0, <2>1, <2>3
    <3>2. pc'[t] \in {"emit", "leave", "next"}
      BY <1>0, <2>3 DEF After
    <3>3. Attempted(t)' = Attempted(t)
      BY <1>0, <2>1, <3>1, <3>2 DEF Attempted
    <3>4. QED
      BY <1>2, <2>1, <3>2, <3>3
  <2>4. QED
    BY <1>7, <2>2, <2>3 DEF EndExecution
<1>8. ASSUME NEW t \in Plan, EmitResult(t) PROVE ClaimInv'
  <2>1. /\ Only(t) /\ pc[t] = "emit" /\ pc'[t] \in {"leave", "next", "bail"}
        /\ open'[t] = open[t] /\ ran'[t] = ran[t] /\ seen' = seen
    BY <1>0, <1>8 DEF EmitResult, After, Only
  <2>2. Attempted(t)' = Attempted(t)
    BY <2>1 DEF Attempted
  <2>3. QED
    BY <1>2, <2>1, <2>2
<1>9. QED
  <2>1. CASE UNCHANGED vars
    BY <1>3, <2>1 DEF vars, planVars
  <2>2. CASE Environment
    BY <1>3, <2>2 DEF Environment,
        CountOpenPort, Producer, SendOpenPort, GiveUpOpenPort, CloseInput, WriteResult, OutputFails,
                      RequestShutdown, AbortScheduler, planVars
  <2>3. CASE Recv \/ RecvClosed \/ ReportOpen \/ CheckShutdown \/ JoinPlans
    BY <1>3, <2>3 DEF Recv, RecvClosed, ReportOpen, CheckShutdown, JoinPlans, planVars
  <2>4. QED
    BY <1>4, <1>5, <1>6, <1>7, <1>8, <2>1, <2>2, <2>3 DEF Next, LoopStep, PlanStep

-----------------------------------------------------------------------------
(* A scheduler that returned Ok has no plan left.                          *)
DoneInv == loop = "done" => \A t \in Plan : pc[t] \in {"none", "ok"}

LEMMA DoneStep == TypeInv /\ DoneInv /\ [Next]_vars => DoneInv'
<1> SUFFICES ASSUME TypeInv, DoneInv, [Next]_vars PROVE DoneInv'
  OBVIOUS
<1>1. CASE loop' # "done"
  BY <1>1 DEF DoneInv
<1>2. CASE JoinPlans
  BY <1>2 DEF JoinPlans, planVars, DoneInv
<1>3. CASE loop = "done" /\ UNCHANGED pc
  BY <1>3 DEF DoneInv
<1>4. ASSUME NEW t \in Plan, PlanStep(t), loop' = "done" PROVE DoneInv'
  <2>1. loop = "done"
    BY <1>4 DEF PlanStep, AcquireHost, NextProbe, TakeHostPermit, TakeProbePermit, EndExecution,
                EmitResult, ReleaseHost, CancelPlan, loopVars
  <2>2. pc[t] \in {"none", "ok"}
    BY <2>1 DEF DoneInv
  <2>3. QED
    BY <1>4, <2>1, <2>2
       DEF PlanStep, AcquireHost, NextProbe, TakeHostPermit, TakeProbePermit, EndExecution,
           EmitResult, ReleaseHost, CancelPlan
<1>5. QED
  <2>1. CASE UNCHANGED vars
    BY <1>1, <1>3, <2>1 DEF vars, loopVars, planVars
  <2>2. CASE Environment
    BY <1>1, <1>3, <2>2 DEF Environment,
        CountOpenPort, Producer, SendOpenPort, GiveUpOpenPort, CloseInput, WriteResult, OutputFails,
                            RequestShutdown, AbortScheduler, loopVars, planVars, Stopped
  <2>3. CASE Recv \/ RecvClosed \/ ReportOpen \/ CheckShutdown
    BY <1>1, <2>3 DEF Recv, RecvClosed, ReportOpen, CheckShutdown
  <2>4. ASSUME NEW t \in Plan, SpawnPlan(t) PROVE DoneInv'
    BY <1>1, <2>4 DEF SpawnPlan
  <2>5. QED
    BY <1>1, <1>2, <1>4, <2>1, <2>2, <2>3, <2>4 DEF Next, LoopStep

-----------------------------------------------------------------------------
(* The theorems.                                                           *)

WholeInv == TypeInv /\ WalkInv /\ ClaimInv /\ DoneInv

LEMMA WholeInit == Init => WholeInv
BY TypeInit, WalkInit, ClaimInit DEF WholeInv, Init, DoneInv

LEMMA WholeStep == WholeInv /\ [Next]_vars => WholeInv'
BY TypeStep, WalkStep, ClaimStep, DoneStep DEF WholeInv

(* No endpoint is probed twice under one name, however often it arrives    *)
(* and however many documents give their probe that name.                  *)
THEOREM ProbedOnceCorrect == Spec => []ProbedOnce
<1>1. WholeInv => ProbedOnce
  BY DEF WholeInv, ClaimInv
<1>2. QED
  BY <1>1, WholeInit, WholeStep, PTL DEF Spec

(* Two probes of one name that both allow an endpoint: one of them is      *)
(* shadowed, since the plan order is total.                                *)
LEMMA OneUnshadowed ==
  ASSUME NEW e, NEW p \in Probe, NEW q \in Probe, NameOf[p] = NameOf[q],
         e \in Scope[p], e \in Scope[q], ~Shadowed(e, p), ~Shadowed(e, q)
  PROVE  p = q
<1>1. NProbes \in Nat /\ p \in 1..NProbes /\ q \in 1..NProbes
  BY ConstantsAssumption DEF Probe
<1>2. ASSUME p < q PROVE FALSE
  <2>1. p \in 1..q - 1
    BY <1>1, <1>2
  <2>2. QED
    BY <2>1 DEF Shadowed, Namesakes
<1>3. ASSUME q < p PROVE FALSE
  <2>1. q \in 1..p - 1
    BY <1>1, <1>3
  <2>2. QED
    BY <2>1 DEF Shadowed, Namesakes
<1>4. QED
  BY <1>1, <1>2, <1>3

(* A scheduler that returned Ok has run every probe that allows an         *)
(* endpoint, or one that comes earlier was confirmed, although a plan      *)
(* skips what another plan of the endpoint claimed; except the probes that *)
(* an earlier namesake shadows, and those have not run at all.             *)
THEOREM NoProbeLostCorrect == Spec => []NoProbeLost
<1>1. ASSUME WholeInv, NEW t \in Plan, NEW p \in Probe, Shadowed(open[t], p)
      PROVE  ~Settled(open[t], p)
  <2>1. \A u \in Plan : Walk(pc[u], idx[u], ran[u], open[u], seen)
    BY <1>1 DEF WholeInv, WalkInv
  <2>2. QED
    BY <1>1, <2>1 DEF Settled, PlansOn, Spawned, Walk, Claims
<1>2. ASSUME WholeInv, loop = "done", NEW t \in Spawned, NEW p \in Probe,
             open[t] \in Scope[p], ~Shadowed(open[t], p)
      PROVE  \/ Settled(open[t], p)
             \/ \E q \in 1..p - 1 : Confirmed(open[t], q)
  <2>1. /\ \A u \in Plan : pc[u] \in {"none", "ok"}
        /\ t \in Plan /\ pc[t] = "ok"
    BY <1>2 DEF WholeInv, DoneInv, Spawned
  <2>2. Walk("ok", idx[t], ran[t], open[t], seen)
    BY <1>2, <2>1 DEF WholeInv, WalkInv
  <2>3. idx[t] \in 1..NProbes + 1 /\ p \in 1..NProbes /\ NProbes \in Nat
    BY <1>2, <2>1, ConstantsAssumption DEF WholeInv, TypeInv, TypeOK, PlanTypes, Probe
  <2>4. CASE p < idx[t]
    <3>1. <<open[t], NameOf[p]>> \in seen
      BY <1>2, <2>2, <2>4 DEF Walk
    <3>2. PICK u \in Plan : Holds(u, <<open[t], NameOf[p]>>)
      BY <1>2, <3>1 DEF WholeInv, ClaimInv, Claimed
    <3>3. /\ pc[u] = "ok" /\ open[u] = open[t]
          /\ \E q \in Probe : NameOf[q] = NameOf[p] /\ ran[u][q] # None
      BY <2>1, <3>2 DEF Holds, Attempted
    <3>4. PICK q \in Probe : NameOf[q] = NameOf[p] /\ ran[u][q] # None
      BY <3>3
    <3>5. open[t] \in Scope[q] /\ ~Shadowed(open[t], q)
      <4>1. Walk(pc[u], idx[u], ran[u], open[u], seen)
        BY <1>2 DEF WholeInv, WalkInv
      <4>2. QED
        BY <3>3, <3>4, <4>1 DEF Walk, Claims
    <3>6. q = p
      BY <1>2, <3>4, <3>5, OneUnshadowed
    <3>7. u \in PlansOn(open[t])
      BY <3>3 DEF PlansOn, Spawned
    <3>8. QED
      BY <3>4, <3>6, <3>7 DEF Settled
  <2>5. CASE ~(p < idx[t])
    <3>1. idx[t] \in Probe
      BY <2>3, <2>5 DEF Probe
    <3>2. Confirms(ran[t][idx[t]]) /\ t \in PlansOn(open[t])
      BY <2>1, <2>2, <3>1 DEF Walk, PlansOn, Spawned
    <3>3. CASE p = idx[t]
      BY <3>2, <3>3 DEF Settled, Confirms
    <3>4. CASE p # idx[t]
      <4>1. idx[t] \in 1..p - 1
        BY <2>3, <2>5, <3>4
      <4>2. QED
        BY <3>2, <4>1 DEF Confirmed
    <3>5. QED
      BY <3>3, <3>4
  <2>6. QED
    BY <2>4, <2>5
<1>3. WholeInv => NoProbeLost
  BY <1>1, <1>2 DEF NoProbeLost, Spawned
<1>4. QED
  BY <1>3, WholeInit, WholeStep, PTL DEF Spec

(* An endpoint that arrived once is left alone after a confirmed probe.    *)
THEOREM ConfirmedCorrect == Spec => []ConfirmedStopsPlan
<1>1. ASSUME WholeInv PROVE ConfirmedStopsPlan
  <2> SUFFICES ASSUME NEW e \in Endpoint, Cardinality(PlansOn(e)) = 1,
                      NEW p \in Probe, NEW q \in Probe, p < q,
                      NEW t \in PlansOn(e), Confirms(ran[t][p]),
                      NEW u \in PlansOn(e), q \in Attempted(u)
               PROVE  FALSE
    BY DEF ConfirmedStopsPlan, LaterAfterConfirmed, Confirmed
  <2>1. PlansOn(e) \subseteq Plan /\ IsFiniteSet(PlansOn(e))
    BY PlanSubset DEF PlansOn, Spawned
  <2>2. t = u
    BY <2>1, FS_Singleton
  <2>3. Walk(pc[t], idx[t], ran[t], open[t], seen) /\ p \in Int /\ q \in Int /\ idx[t] \in Int
    BY <1>1, <2>1, ConstantsAssumption
       DEF WholeInv, WalkInv, TypeInv, TypeOK, PlanTypes, Probe
  <2>4. p = idx[t]
    BY <2>3 DEF Walk
  <2>5. CASE ran[t][q] # None
    <3>1. q <= idx[t]
      BY <2>3, <2>5 DEF Walk
    <3>2. QED
      BY <2>3, <2>4, <3>1
  <2>6. CASE idx[t] = q
    BY <2>3, <2>4, <2>6
  <2>7. QED
    BY <2>2, <2>5, <2>6 DEF Attempted
<1>2. QED
  BY <1>1, WholeInit, WholeStep, PTL DEF Spec

(* After a request to stop, no second plan is spawned.                     *)
THEOREM LatePlanCorrect == Spec => NoSecondLatePlan
<1>1. TypeInv /\ [Next]_vars =>
        [shutdown /\ loop # "permit" => loop' # "permit" /\ Spawned' = Spawned]_vars
  <2> SUFFICES ASSUME TypeInv, Next, shutdown, loop # "permit"
               PROVE  loop' # "permit" /\ Spawned' = Spawned
    BY Zenon
  <2>1. loop' # "permit"
    BY DEF Next, LoopStep, PlanStep, Environment, Recv, RecvClosed, ReportOpen, CheckShutdown,
           SpawnPlan, JoinPlans, AcquireHost, NextProbe, TakeHostPermit, TakeProbePermit,
           EndExecution, EmitResult, ReleaseHost, CancelPlan,
           CountOpenPort, Producer, SendOpenPort, GiveUpOpenPort, CloseInput,
           WriteResult, OutputFails, RequestShutdown, AbortScheduler, loopVars
  <2>2. CASE UNCHANGED pc
    BY <2>1, <2>2 DEF Spawned
  <2>3. ASSUME NEW t \in Plan, NEW c, pc[t] # "none", pc' = [pc EXCEPT ![t] = c], c # "none"
        PROVE  Spawned' = Spawned
    BY <2>3 DEF Spawned, TypeInv, TypeOK, PlanTypes
  <2>4. ASSUME NEW t \in Plan, PlanStep(t) PROVE Spawned' = Spawned
    BY <2>2, <2>3, <2>4
       DEF PlanStep, AcquireHost, NextProbe, TakeHostPermit, TakeProbePermit, EndExecution,
           EmitResult, After, ReleaseHost, CancelPlan, Live, Working
  <2>5. CASE Recv \/ RecvClosed \/ ReportOpen \/ CheckShutdown \/ JoinPlans
    BY <2>2, <2>5 DEF Recv, RecvClosed, ReportOpen, CheckShutdown, JoinPlans, planVars
  <2>6. CASE Environment
    BY <2>2, <2>6 DEF Environment,
        CountOpenPort, Producer, SendOpenPort, GiveUpOpenPort, CloseInput, WriteResult, OutputFails,
                      RequestShutdown, AbortScheduler, planVars
  <2>7. QED
    BY <2>1, <2>4, <2>5, <2>6 DEF Next, LoopStep, SpawnPlan
<1>2. QED
  BY <1>1, TypeInit, TypeStep, PTL DEF Spec, NoSecondLatePlan

-----------------------------------------------------------------------------
(***************************************************************************)
(* Delivery.  A record enters the channel when its plan hands it over, once*)
(* for each key because a key has one plan; so the records that were       *)
(* written or are queued are those of the executions that the mode emits.  *)
(***************************************************************************)
(* What the output task has or will get: w written, s the channel.         *)
Arrived(r, w, s) == r \in w \/ \E i \in DOMAIN s : s[i] = r

(* A probe record is on its way once, and is not written before.           *)
Distinct(w, s) ==
  /\ \A i, j \in DOMAIN s : i # j /\ s[i] = s[j] => s[i].probe = 0
  /\ \A i \in DOMAIN s : s[i].probe # 0 => s[i] \notin w

LEMMA ArrivedAppend ==
  ASSUME NEW w, NEW T, NEW s \in Seq(T), NEW r \in T
  PROVE  /\ \A x : Arrived(x, w, Append(s, r)) <=> Arrived(x, w, s) \/ x = r
         /\ Distinct(w, s) /\ (r.probe = 0 \/ ~Arrived(r, w, s)) => Distinct(w, Append(s, r))
<1> DEFINE a == Append(s, r)  n == Len(s) + 1
<1>1. /\ DOMAIN s = 1..n - 1 /\ DOMAIN a = 1..n /\ n \in Nat \ {0}
      /\ \A i \in 1..n - 1 : a[i] = s[i]
      /\ a[n] = r
  OBVIOUS
<1> HIDE DEF a, n
<1>2. 1..n - 1 \subseteq 1..n /\ n \in 1..n /\ \A i \in 1..n : i = n \/ i \in 1..n - 1
  BY <1>1
<1>3. \A x : Arrived(x, w, a) <=> Arrived(x, w, s) \/ x = r
  BY <1>1, <1>2 DEF Arrived
<1>4. ASSUME Distinct(w, s), r.probe = 0 \/ ~Arrived(r, w, s) PROVE Distinct(w, a)
  <2>1. ASSUME NEW i \in 1..n, NEW j \in 1..n, i # j, a[i] = a[j] PROVE a[i].probe = 0
    <3>1. CASE i # n /\ j # n
      BY <1>1, <1>2, <1>4, <2>1, <3>1 DEF Distinct
    <3>2. CASE i = n \/ j = n
      BY <1>1, <1>2, <1>4, <2>1, <3>2 DEF Arrived
    <3>3. QED
      BY <3>1, <3>2
  <2>2. ASSUME NEW i \in 1..n, a[i].probe # 0 PROVE a[i] \notin w
    BY <1>1, <1>2, <1>4, <2>2 DEF Distinct, Arrived
  <2>3. QED
    BY <1>1, <2>1, <2>2 DEF Distinct
<1>5. QED
  BY <1>3, <1>4 DEF a

LEMMA ArrivedTail ==
  ASSUME NEW w, NEW T, NEW s \in Seq(T), s # <<>>
  PROVE  /\ \A x : Arrived(x, w \cup {Head(s)}, Tail(s)) <=> Arrived(x, w, s)
         /\ Distinct(w, s) => Distinct(w \cup {Head(s)}, Tail(s))
<1> DEFINE a == Tail(s)  n == Len(s)  h == Head(s)  v == w \cup {h}
<1>1. /\ DOMAIN s = 1..n /\ DOMAIN a = 1..n - 1 /\ n \in Nat \ {0}
      /\ \A i \in 1..n - 1 : a[i] = s[i + 1]
      /\ h = s[1]
  OBVIOUS
<1> HIDE DEF a, n, h
<1>2. /\ 1 \in 1..n
      /\ \A i \in 1..n : i = 1 \/ (i - 1 \in 1..n - 1 /\ (i - 1) + 1 = i)
      /\ \A i \in 1..n - 1 : i + 1 \in 1..n /\ i + 1 # 1
      /\ \A i, j \in 1..n - 1 : i # j => i + 1 # j + 1
  BY <1>1
<1>3. \A i \in 1..n : s[i] = h \/ (i - 1 \in 1..n - 1 /\ a[i - 1] = s[i])
  BY <1>1, <1>2
<1>4. \A x : Arrived(x, v, a) <=> Arrived(x, w, s)
  BY <1>1, <1>2, <1>3, SMTT(30) DEF Arrived
<1>5. ASSUME Distinct(w, s) PROVE Distinct(v, a)
  <2>1. ASSUME NEW i \in 1..n - 1, NEW j \in 1..n - 1, i # j, a[i] = a[j] PROVE a[i].probe = 0
    BY <1>1, <1>2, <1>5, <2>1, SMTT(30) DEF Distinct
  <2>2. ASSUME NEW i \in 1..n - 1, a[i].probe # 0 PROVE a[i] \notin v
    <3>1. a[i] = s[i + 1] /\ i + 1 \in 1..n /\ i + 1 # 1
      BY <1>1, <1>2
    <3>2. a[i] \notin w /\ a[i] # s[1]
      BY <1>1, <1>2, <1>5, <2>2, <3>1 DEF Distinct
    <3>3. QED
      BY <1>1, <3>2
  <2>3. QED
    BY <1>1, <2>1, <2>2 DEF Distinct
<1>6. QED
  BY <1>4, <1>5 DEF a, h

(* A plan at c, at index i, with results r, has handed over its record of  *)
(* probe p; is due to have: an aborted plan may have died in the send.     *)
HandedOver(c, i, r, p) ==
  c # "none" /\ r[p] # None /\ Emits(r[p]) /\ ~(c = "emit" /\ i = p)
Due(c, i, r, p) == HandedOver(c, i, r, p) /\ ~(c = "cancelled" /\ i = p)

NothingInvented(w, s) ==
  \A r : r.probe # 0 /\ Arrived(r, w, s) =>
    r.probe \in Probe /\ \E t \in Plan : open[t] = r.at /\ HandedOver(pc[t], idx[t], ran[t], r.probe)
NothingLost(w, s) ==
  \A t \in Plan : \A p \in Probe :
    Due(pc[t], idx[t], ran[t], p) => Arrived(Record(open[t], p), w, s)

DeliveryInv ==
  /\ \A t \in Plan : pc[t] = "emit" => Emits(ran[t][idx[t]])
  /\ outOpen =>
       /\ NothingInvented(written, out)
       /\ NothingLost(written, out)
       /\ Distinct(written, out)

LEMMA DeliveryInit == Init => DeliveryInv
BY DEF Init, DeliveryInv, NothingInvented, NothingLost, Distinct, Arrived, Due, HandedOver

(* A step of the plans that hands nothing over.                            *)
LEMMA NothingHandedOver ==
  ASSUME DeliveryInv,
         \A t \in Plan : pc'[t] = "emit" => Emits(ran'[t][idx'[t]]),
         \A x : Arrived(x, written', out') /\ x.probe # 0 => Arrived(x, written, out),
         \A x : Arrived(x, written, out) => Arrived(x, written', out'),
         Distinct(written, out) => Distinct(written', out'),
         outOpen' => outOpen,
         \A t \in Plan : \A p \in Probe :
           /\ HandedOver(pc[t], idx[t], ran[t], p) =>
                open'[t] = open[t] /\ HandedOver(pc'[t], idx'[t], ran'[t], p)
           /\ Due(pc'[t], idx'[t], ran'[t], p) =>
                open'[t] = open[t] /\ Due(pc[t], idx[t], ran[t], p)
  PROVE  DeliveryInv'
<1> SUFFICES ASSUME outOpen' PROVE (NothingInvented(written, out) /\ NothingLost(written, out)
                                      /\ Distinct(written, out))'
  BY DEF DeliveryInv
<1>1. NothingInvented(written, out)'
  BY DEF NothingInvented, DeliveryInv
<1>2. NothingLost(written, out)'
  BY DEF NothingLost, DeliveryInv
<1>3. Distinct(written, out)'
  BY DEF Distinct, DeliveryInv
<1>4. QED
  BY <1>1, <1>2, <1>3

LEMMA DeliveryStep == WholeInv /\ DeliveryInv /\ [Next]_vars => DeliveryInv'
<1> SUFFICES ASSUME WholeInv, DeliveryInv, [Next]_vars PROVE DeliveryInv'
  OBVIOUS
<1> DEFINE T == [at : Endpoint, probe : 0..NProbes]
<1>0. /\ pc \in [Plan -> Idle \cup Working] /\ idx \in [Plan -> 1..NProbes + 1]
      /\ open \in [Plan -> Endpoint \cup {None}]
      /\ ran \in [Plan -> [Probe -> Outcome \cup {None}]]
      /\ \A t \in Plan : pc[t] # "none" => open[t] \in Endpoint
      /\ \A t \in Plan : pc[t] \in {"host", "probe", "run", "emit"} => idx[t] \in Probe
      /\ None \notin Outcome
      /\ out \in Seq(T) /\ outOpen \in BOOLEAN
      /\ Probe \subseteq 0..NProbes /\ 0 \notin Probe /\ 0 \in 0..NProbes
      /\ loop = "report" => cur \in Endpoint
      /\ \A t \in Plan : Walk(pc[t], idx[t], ran[t], open[t], seen)
  <2>1. PlanTypes /\ ChannelTypes /\ LoopTypes /\ WalkInv
    BY DEF WholeInv, TypeInv, TypeOK
  <2>2. /\ Probe \subseteq 0..NProbes /\ 0 \notin Probe /\ 0 \in 0..NProbes
    BY ConstantsAssumption DEF Probe
  <2>3. None \notin Outcome
    BY ConstantsAssumption
  <2>4. QED
    BY <2>1, <2>2, <2>3 DEF PlanTypes, ChannelTypes, LoopTypes, WalkInv
<1> DEFINE Same(t) == pc'[t] = pc[t] /\ idx'[t] = idx[t] /\ ran'[t] = ran[t] /\ open'[t] = open[t]
           Moves(t) ==
             /\ pc'[t] = "emit" => Emits(ran'[t][idx'[t]])
             /\ \A p \in Probe :
                  /\ HandedOver(pc[t], idx[t], ran[t], p) =>
                       open'[t] = open[t] /\ HandedOver(pc'[t], idx'[t], ran'[t], p)
                  /\ Due(pc'[t], idx'[t], ran'[t], p) =>
                       open'[t] = open[t] /\ Due(pc[t], idx[t], ran[t], p)
           Passes ==
             /\ \A x : Arrived(x, written', out') /\ x.probe # 0 => Arrived(x, written, out)
             /\ \A x : Arrived(x, written, out) => Arrived(x, written', out')
             /\ Distinct(written, out) => Distinct(written', out')
             /\ outOpen' => outOpen
<1> HIDE DEF T
<1>1. ASSUME NEW t \in Plan, Same(t) PROVE Moves(t)
  BY <1>1 DEF DeliveryInv
<1>2. ASSUME Passes, \A t \in Plan : Moves(t) PROVE DeliveryInv'
  BY <1>2, NothingHandedOver
<1>3. UNCHANGED outVars => Passes
  BY DEF outVars, Arrived, Distinct
<1>4. CASE UNCHANGED <<pc, open, idx, ran>> /\ Passes
  BY <1>1, <1>2, <1>4
<1>5. ASSUME NEW t \in Plan, Only(t), Passes, Moves(t) PROVE DeliveryInv'
  BY <1>1, <1>2, <1>5 DEF Only
<1>6. ASSUME NEW t \in Plan, SpawnPlan(t) PROVE DeliveryInv'
  <2>1. /\ Only(t) /\ pc[t] = "none" /\ pc'[t] = "start" /\ ran'[t] = ran[t] /\ UNCHANGED outVars
    BY <1>0, <1>6 DEF SpawnPlan, Only
  <2>2. \A p \in Probe : ran[t][p] = None
    BY <1>0, <2>1 DEF Walk
  <2>3. Moves(t)
    BY <2>1, <2>2 DEF HandedOver, Due
  <2>4. QED
    BY <1>3, <1>5, <2>1, <2>3
<1>7. ASSUME NEW t \in Plan, NextProbe(t) PROVE DeliveryInv'
  <2>1. /\ Only(t) /\ pc[t] = "next" /\ pc'[t] \in {"leave", "next", "host"}
        /\ open'[t] = open[t] /\ ran'[t] = ran[t] /\ UNCHANGED outVars
    BY <1>0, <1>7 DEF NextProbe, Only
  <2>2. Moves(t)
    BY <2>1 DEF HandedOver, Due
  <2>3. QED
    BY <1>3, <1>5, <2>1, <2>2
<1>8. ASSUME NEW t \in Plan,
             AcquireHost(t) \/ TakeHostPermit(t) \/ TakeProbePermit(t) \/ ReleaseHost(t)
               \/ CancelPlan(t)
      PROVE  DeliveryInv'
  <2>1. /\ Only(t) /\ idx'[t] = idx[t] /\ ran'[t] = ran[t] /\ open'[t] = open[t]
        /\ UNCHANGED outVars
        /\ pc[t] \in Working /\ pc'[t] \in {"next", "probe", "run", "ok", "err", "cancelled"}
        /\ pc[t] = "emit" => pc'[t] = "cancelled"
    BY <1>0, <1>8
       DEF AcquireHost, TakeHostPermit, TakeProbePermit, ReleaseHost, CancelPlan, Live, Only, Working
  <2>2. Moves(t)
    BY <2>1 DEF HandedOver, Due, Working
  <2>3. QED
    BY <1>3, <1>5, <2>1, <2>2
<1>9. ASSUME NEW t \in Plan, NEW o \in Outcome, EndExecution(t, o) PROVE DeliveryInv'
  <2>1. /\ Only(t) /\ pc[t] = "run" /\ idx[t] \in Probe /\ open'[t] = open[t] /\ UNCHANGED outVars
    BY <1>0, <1>9 DEF EndExecution, After, Only
  <2>2. CASE UNCHANGED <<pc, idx, ran>>
    BY <1>3, <1>4, <1>9, <2>1, <2>2 DEF EndExecution
  <2>3. CASE /\ ran' = [ran EXCEPT ![t][idx[t]] = o]
             /\ IF Emits(o) THEN pc' = [pc EXCEPT ![t] = "emit"] /\ idx' = idx ELSE After(t, o)
    <3>1. \A p \in Probe : ran'[t][p] = IF p = idx[t] THEN o ELSE ran[t][p]
      BY <1>0, <2>1, <2>3
    <3>2. /\ pc'[t] \in {"emit", "leave", "next"}
          /\ Emits(o) => pc'[t] = "emit"
          /\ pc'[t] = "emit" => idx'[t] = idx[t] /\ Emits(o)
      BY <1>0, <2>3 DEF After
    <3>3. ran[t][idx[t]] = None
      BY <1>0, <2>1 DEF Walk, Past
    <3>4. Moves(t)
      BY <2>1, <3>1, <3>2, <3>3 DEF HandedOver, Due
    <3>5. QED
      BY <1>3, <1>5, <2>1, <3>4
  <2>4. QED
    BY <1>9, <2>2, <2>3 DEF EndExecution
<1>10. ASSUME NEW t \in Plan, EmitResult(t) PROVE DeliveryInv'
  <2> DEFINE p == idx[t]  r == Record(open[t], p)
  <2>1. /\ pc[t] = "emit" /\ p \in Probe /\ Only(t) /\ open'[t] = open[t] /\ open[t] \in Endpoint
        /\ ran'[t] = ran[t] /\ pc'[t] \in {"leave", "next", "bail"}
        /\ UNCHANGED <<outOpen, written>>
    BY <1>0, <1>10 DEF EmitResult, After, Only
  <2>2. CASE ~outOpen
    BY <1>1, <2>1, <2>2 DEF DeliveryInv, Only
  <2>3. CASE outOpen
    <3>1. out' = Append(out, r) /\ r \in T /\ r.probe = p /\ r.at = open[t]
      BY <1>0, <1>10, <2>1, <2>3 DEF EmitResult, Send, Record, T
    <3>2. ran[t][p] # None /\ Emits(ran[t][p])
      BY <1>0, <2>1 DEF Walk, DeliveryInv
    <3>3. ~Arrived(r, written, out)
      <4>1. SUFFICES ASSUME NEW u \in Plan, open[u] = open[t], HandedOver(pc[u], idx[u], ran[u], p)
                     PROVE  FALSE
        BY <1>0, <2>1, <2>3, <3>1 DEF DeliveryInv, NothingInvented
      <4>2. p \in Attempted(u) /\ p \in Attempted(t)
        BY <2>1, <3>2, <4>1 DEF Attempted, HandedOver
      <4>3. t = u
        BY <4>1, <4>2 DEF WholeInv, ClaimInv, ProbedOnce
      <4>4. QED
        BY <2>1, <4>1, <4>3 DEF HandedOver
    <3>4. /\ \A x : Arrived(x, written', out') <=> Arrived(x, written, out) \/ x = r
          /\ Distinct(written', out')
      BY <1>0, <2>1, <2>3, <3>1, <3>3, ArrivedAppend DEF DeliveryInv
    <3>5. \A q \in Probe :
            /\ HandedOver(pc[t], idx[t], ran[t], q) => HandedOver(pc'[t], idx'[t], ran'[t], q)
            /\ Due(pc'[t], idx'[t], ran'[t], q) => q = p \/ Due(pc[t], idx[t], ran[t], q)
      BY <2>1 DEF HandedOver, Due
    <3>6. HandedOver(pc'[t], idx'[t], ran'[t], p)
      BY <2>1, <3>2 DEF HandedOver
    <3>7. NothingInvented(written, out)'
      <4>1. ASSUME NEW x, x.probe # 0, Arrived(x, written', out')
            PROVE  /\ x.probe \in Probe
                   /\ \E u \in Plan : /\ open'[u] = x.at
                                      /\ HandedOver(pc'[u], idx'[u], ran'[u], x.probe)
        <5>1. CASE x = r
          BY <2>1, <3>1, <3>6, <5>1
        <5>2. CASE Arrived(x, written, out)
          <6>1. PICK u \in Plan : open[u] = x.at /\ HandedOver(pc[u], idx[u], ran[u], x.probe)
            BY <2>3, <4>1, <5>2 DEF DeliveryInv, NothingInvented
          <6>2. x.probe \in Probe
            BY <2>3, <4>1, <5>2 DEF DeliveryInv, NothingInvented
          <6>3. open'[u] = x.at /\ HandedOver(pc'[u], idx'[u], ran'[u], x.probe)
            BY <2>1, <3>5, <6>1, <6>2 DEF Only
          <6>4. QED
            BY <6>2, <6>3
        <5>3. QED
          BY <3>4, <4>1, <5>1, <5>2
      <4>2. QED
        BY <4>1 DEF NothingInvented
    <3>8. NothingLost(written, out)'
      <4>1. ASSUME NEW u \in Plan, NEW q \in Probe, Due(pc'[u], idx'[u], ran'[u], q)
            PROVE  Arrived(Record(open'[u], q), written', out')
        <5>1. CASE u = t /\ q = p
          BY <2>1, <3>4, <5>1
        <5>2. CASE Due(pc[u], idx[u], ran[u], q)
          <6>1. open'[u] = open[u]
            BY <2>1 DEF Only
          <6>2. Arrived(Record(open[u], q), written, out)
            BY <2>3, <5>2 DEF DeliveryInv, NothingLost
          <6>3. QED
            BY <3>4, <6>1, <6>2
        <5>3. QED
          BY <2>1, <3>5, <4>1, <5>1, <5>2 DEF Only
      <4>2. QED
        BY <4>1 DEF NothingLost
    <3>9. \A u \in Plan : pc'[u] = "emit" => Emits(ran'[u][idx'[u]])
      BY <2>1 DEF Only, DeliveryInv
    <3>10. Distinct(written, out)'
      BY <3>4 DEF Distinct
    <3>11. QED
      BY <3>7, <3>8, <3>9, <3>10 DEF DeliveryInv
  <2>4. QED
    BY <1>0, <2>2, <2>3
<1>11. CASE ReportOpen
  <2>1. UNCHANGED <<pc, open, idx, ran, written, outOpen>>
    BY <1>11 DEF ReportOpen, planVars
  <2>2. CASE out' = out
    BY <1>3, <1>4, <2>1, <2>2 DEF outVars
  <2>3. CASE Send(Record(cur, 0))
    <3>1. /\ out' = Append(out, Record(cur, 0)) /\ Record(cur, 0) \in T
          /\ Record(cur, 0).probe = 0
      BY <1>0, <1>11, <2>3 DEF ReportOpen, Send, Record, T
    <3>2. Passes
      <4>1. /\ \A x : Arrived(x, written', out') <=> Arrived(x, written, out) \/ x = Record(cur, 0)
            /\ Distinct(written, out) => Distinct(written', out')
        BY <1>0, <2>1, <3>1, ArrivedAppend
      <4>2. QED
        BY <2>1, <3>1, <4>1
    <3>3. QED
      BY <1>4, <2>1, <3>2
  <2>4. QED
    BY <1>11, <2>2, <2>3 DEF ReportOpen
<1>12. CASE WriteResult
  <2>1. /\ UNCHANGED <<pc, open, idx, ran, outOpen>>
        /\ out # <<>> /\ out' = Tail(out) /\ written' = written \cup {Head(out)}
    BY <1>12 DEF WriteResult, planVars
  <2>2. /\ \A x : Arrived(x, written', out') <=> Arrived(x, written, out)
        /\ Distinct(written, out) => Distinct(written', out')
    BY <1>0, <2>1, ArrivedTail
  <2>3. QED
    BY <1>4, <2>1, <2>2
<1>13. CASE OutputFails
  BY <1>1, <1>13 DEF OutputFails, planVars, DeliveryInv
<1>14. QED
  <2>1. CASE UNCHANGED vars
    BY <1>3, <1>4, <2>1 DEF vars, planVars
  <2>2. CASE \/ \E e \in Endpoint : CountOpenPort(e)
             \/ Producer \/ RequestShutdown \/ AbortScheduler
    BY <1>3, <1>4, <2>2 DEF
        CountOpenPort, Producer, SendOpenPort, GiveUpOpenPort, CloseInput, RequestShutdown,
        AbortScheduler, planVars
  <2>3. CASE Recv \/ RecvClosed \/ CheckShutdown \/ JoinPlans
    BY <1>3, <1>4, <2>3 DEF Recv, RecvClosed, CheckShutdown, JoinPlans, planVars
  <2>4. QED
    BY <1>6, <1>7, <1>8, <1>9, <1>10, <1>11, <1>12, <1>13, <2>1, <2>2, <2>3
       DEF Next, LoopStep, PlanStep, Environment

(* What the mode emits is exactly what reaches the channel, once.          *)
THEOREM ResultsDeliveredCorrect == Spec => []ResultsDelivered
<1>1. ASSUME WholeInv, DeliveryInv PROVE ResultsDelivered
  <2> SUFFICES ASSUME outOpen
               PROVE  LET sentOut == written \cup Queued
                          probes  == {r \in sentOut : r.probe # 0}
                      IN  /\ probes \subseteq ProbeRecords \ Awaiting
                          /\ ProbeRecords \ (Awaiting \cup Lost) \subseteq probes
                          /\ \A i, j \in DOMAIN out : i # j /\ out[i] = out[j] => out[i].probe = 0
                          /\ \A r \in Queued : r.probe # 0 => r \notin written
    BY DEF ResultsDelivered
  <2> DEFINE probes == {r \in written \cup Queued : r.probe # 0}
  <2>0. /\ 0 \notin Probe
        /\ \A t \in Plan : Walk(pc[t], idx[t], ran[t], open[t], seen)
        /\ written \cup Queued \subseteq [at : Endpoint, probe : 0..NProbes]
        /\ \A r : r \in written \cup Queued <=> Arrived(r, written, out)
    <3>1. written \subseteq [at : Endpoint, probe : 0..NProbes]
          /\ out \in Seq([at : Endpoint, probe : 0..NProbes])
      BY <1>1 DEF WholeInv, TypeInv, TypeOK, ChannelTypes
    <3>2. Queued \subseteq [at : Endpoint, probe : 0..NProbes]
      <4>1. \A T : out \in Seq(T) => Queued \subseteq T
        BY DEF Queued
      <4>2. QED
        BY <3>1, <4>1
    <3>3. \A r : r \in written \cup Queued <=> Arrived(r, written, out)
      BY DEF Queued, Arrived
    <3>4. QED
      BY <1>1, <3>1, <3>2, <3>3 DEF WholeInv, WalkInv, Probe
  <2>1. ASSUME NEW r \in probes PROVE r \in ProbeRecords \ Awaiting
    <3>1. r \in [at : Endpoint, probe : 0..NProbes] /\ Arrived(r, written, out) /\ r.probe # 0
      BY <2>0
    <3>2. PICK t \in Plan : open[t] = r.at /\ HandedOver(pc[t], idx[t], ran[t], r.probe)
      BY <1>1, <3>1 DEF DeliveryInv, NothingInvented
    <3>3. r \in [at : Endpoint, probe : Probe]
      BY <1>1, <3>1 DEF DeliveryInv, NothingInvented
    <3>4. r \in ProbeRecords
      BY <3>2, <3>3 DEF ProbeRecords, PlansOn, Spawned, HandedOver
    <3>5. ASSUME NEW u \in Plan, pc[u] = "emit", r = Record(open[u], idx[u]) PROVE FALSE
      <4>1. open[u] = open[t] /\ r.probe = idx[u]
        BY <3>2, <3>5 DEF Record
      <4>2. r.probe \in Attempted(u) /\ r.probe \in Attempted(t)
        BY <2>0, <3>2, <3>3, <3>5, <4>1 DEF Attempted, HandedOver, Walk
      <4>3. u = t
        BY <1>1, <4>1, <4>2 DEF WholeInv, ClaimInv, ProbedOnce
      <4>4. QED
        BY <3>2, <3>5, <4>1, <4>3 DEF HandedOver
    <3>6. QED
      BY <3>4, <3>5 DEF Awaiting
  <2>2. ASSUME NEW r \in ProbeRecords, r \notin Awaiting, r \notin Lost PROVE r \in probes
    <3>1. PICK t \in Plan : /\ pc[t] # "none" /\ open[t] = r.at
                            /\ ran[t][r.probe] # None /\ Emits(ran[t][r.probe])
      BY DEF ProbeRecords, PlansOn, Spawned
    <3>2. r.probe \in Probe /\ r = Record(open[t], r.probe)
      BY <3>1 DEF ProbeRecords, Record
    <3>3. ~(pc[t] \in {"emit", "cancelled"} /\ idx[t] = r.probe)
      BY <2>2, <3>2 DEF Awaiting, Lost
    <3>4. Arrived(r, written, out)
      BY <1>1, <3>1, <3>2, <3>3 DEF DeliveryInv, NothingLost, Due, HandedOver
    <3>5. QED
      BY <2>0, <3>2, <3>4
  <2>3. /\ \A i, j \in DOMAIN out : i # j /\ out[i] = out[j] => out[i].probe = 0
        /\ \A r \in Queued : r.probe # 0 => r \notin written
    BY <1>1 DEF DeliveryInv, Distinct, Queued
  <2>4. QED
    BY <2>1, <2>2, <2>3
<1>2. QED
  BY <1>1, WholeInit, WholeStep, DeliveryInit, DeliveryStep, PTL DEF Spec

-----------------------------------------------------------------------------
(***************************************************************************)
(* Refinement.  A key moves in the ledger when the one plan that claimed   *)
(* it moves.                                                               *)
(***************************************************************************)
Key == Endpoint \X Name

(* Plan t has a result of key k; it is on its way to it, at one of S.      *)
RanKey(t, k) == open[t] = k[1] /\ \E p \in Probe : NameOf[p] = k[2] /\ ran[t][p] # None
Occupies(t, k, S) == pc[t] \in S /\ open[t] = k[1] /\ NameOf[idx[t]] = k[2]

StateInCases ==
  \A k \in Key :
    StateOf(k) = IF k \notin seen THEN "unclaimed"
                 ELSE IF \E t \in Plan : RanKey(t, k) THEN "settled"
                 ELSE IF \E t \in Plan : Occupies(t, k, {"run"}) THEN "connected"
                 ELSE IF \E t \in Plan : Occupies(t, k, {"host", "probe"}) THEN "claimed"
                 ELSE "abandoned"

LEMMA StateOfCases == StateInCases
<1> SUFFICES ASSUME NEW k \in Key
             PROVE  StateOf(k) =
                      IF k \notin seen THEN "unclaimed"
                      ELSE IF \E t \in Plan : RanKey(t, k) THEN "settled"
                      ELSE IF \E t \in Plan : Occupies(t, k, {"run"}) THEN "connected"
                      ELSE IF \E t \in Plan : Occupies(t, k, {"host", "probe"}) THEN "claimed"
                      ELSE "abandoned"
  BY DEF StateInCases
<1>0. k = <<k[1], k[2]>>
  BY DEF Key
<1>1. HasRun(k) <=> \E t \in Plan : RanKey(t, k)
  BY <1>0 DEF HasRun, RanKey
<1>2. At(k, {"run"}) <=> \E t \in Plan : Occupies(t, k, {"run"})
  BY <1>0 DEF At, Occupies, KeyOf
<1>3. At(k, {"host", "probe"}) <=> \E t \in Plan : Occupies(t, k, {"host", "probe"})
  BY <1>0 DEF At, Occupies, KeyOf
<1>4. QED
  BY <1>1, <1>2, <1>3 DEF StateOf

(* A plan that occupies a key is the only one that has to do with it.      *)
LEMMA Occupied ==
  ASSUME WholeInv, NEW k \in Key, NEW t \in Plan, Occupies(t, k, {"host", "probe", "run"})
  PROVE  /\ k \in seen
         /\ \A u \in Plan : ~RanKey(u, k)
         /\ \A u \in Plan : Occupies(u, k, {"host", "probe", "run"}) => u = t
<1>1. k = <<k[1], k[2]>> /\ k[1] \in Endpoint /\ k[2] \in Name
  BY DEF Key
<1>2. /\ Walk(pc[t], idx[t], ran[t], open[t], seen) /\ idx[t] \in Probe
      /\ idx[t] \in Attempted(t) /\ open[t] = k[1] /\ NameOf[idx[t]] = k[2]
      /\ pc[t] \in {"host", "probe", "run"}
  BY DEF Occupies, Attempted, WholeInv, WalkInv, TypeInv, TypeOK, PlanTypes
<1>3. k \in seen
  BY <1>1, <1>2 DEF Walk, Claims
<1>4. ASSUME NEW u \in Plan, RanKey(u, k) PROVE FALSE
  <2>1. PICK p \in Probe : NameOf[p] = k[2] /\ ran[u][p] # None
    BY <1>4 DEF RanKey
  <2>2. p \in Attempted(u) /\ open[u] = k[1]
    BY <1>4, <2>1 DEF RanKey, Attempted
  <2>3. u = t /\ p = idx[t]
    BY <1>2, <2>1, <2>2 DEF WholeInv, ClaimInv, ProbedOnce
  <2>4. QED
    BY <1>2, <2>1, <2>3 DEF Walk, Past
<1>5. ASSUME NEW u \in Plan, Occupies(u, k, {"host", "probe", "run"}) PROVE u = t
  <2>1. idx[u] \in Attempted(u) /\ open[u] = k[1] /\ NameOf[idx[u]] = k[2]
    BY <1>5 DEF Occupies, Attempted, WholeInv, TypeInv, TypeOK, PlanTypes
  <2>2. QED
    BY <1>2, <2>1 DEF WholeInv, ClaimInv, ProbedOnce
<1>6. QED
  BY <1>3, <1>4, <1>5

LEMMA RanClaimed ==
  ASSUME WholeInv, NEW k \in Key, NEW u \in Plan, RanKey(u, k)
  PROVE  k \in seen
<1>1. k = <<k[1], k[2]>>
  BY DEF Key
<1>2. Walk(pc[u], idx[u], ran[u], open[u], seen)
  BY DEF WholeInv, WalkInv
<1>3. QED
  BY <1>1, <1>2 DEF RanKey, Walk, Claims

LEMMA UnclaimedState ==
  ASSUME WholeInv, NEW k \in Key, k \notin seen
  PROVE  StateOf(k) = "unclaimed"
BY StateOfCases DEF StateInCases

(* While a plan is at a key the plan tells its state.                      *)
Told ==
  \A k \in Key : \A t \in Plan :
    /\ RanKey(t, k) => StateOf(k) = "settled"
    /\ Occupies(t, k, {"host", "probe"}) => StateOf(k) = "claimed"
    /\ Occupies(t, k, {"run"}) => StateOf(k) = "connected"

LEMMA InClaim == WholeInv => Told
<1> SUFFICES ASSUME WholeInv, NEW k \in Key, NEW t \in Plan
             PROVE  /\ RanKey(t, k) => StateOf(k) = "settled"
                    /\ Occupies(t, k, {"host", "probe"}) => StateOf(k) = "claimed"
                    /\ Occupies(t, k, {"run"}) => StateOf(k) = "connected"
  BY DEF Told
<1>1. ASSUME Occupies(t, k, {"host", "probe"}) PROVE StateOf(k) = "claimed"
  <2>1. Occupies(t, k, {"host", "probe", "run"})
    BY <1>1 DEF Occupies
  <2>2. k \in seen /\ \A u \in Plan : ~RanKey(u, k) /\ ~Occupies(u, k, {"run"})
    BY <1>1, <2>1, Occupied DEF Occupies
  <2>3. QED
    BY <1>1, <2>2, StateOfCases DEF StateInCases
<1>2. ASSUME Occupies(t, k, {"run"}) PROVE StateOf(k) = "connected"
  <2>1. Occupies(t, k, {"host", "probe", "run"})
    BY <1>2 DEF Occupies
  <2>2. k \in seen /\ \A u \in Plan : ~RanKey(u, k)
    BY <2>1, Occupied
  <2>3. QED
    BY <1>2, <2>2, StateOfCases DEF StateInCases
<1>3. ASSUME RanKey(t, k) PROVE StateOf(k) = "settled"
  <2>1. k \in seen
    BY <1>3, RanClaimed
  <2>2. QED
    BY <1>3, <2>1, StateOfCases DEF StateInCases
<1>4. QED
  BY <1>1, <1>2, <1>3

(* A step of plan t that does not concern key k.                           *)
Apart(t, k) ==
  /\ RanKey(t, k)' <=> RanKey(t, k)
  /\ Occupies(t, k, {"run"})' <=> Occupies(t, k, {"run"})
  /\ Occupies(t, k, {"host", "probe"})' <=> Occupies(t, k, {"host", "probe"})

LEMMA ApartKeeps ==
  ASSUME NEW k \in Key, \A t \in Plan : Apart(t, k), k \in seen' <=> k \in seen
  PROVE  StateOf(k)' = StateOf(k)
<1>1. StateInCases /\ StateInCases'
  BY StateOfCases, PTL
<1>2. QED
  BY <1>1 DEF StateInCases, Apart

(* The steps that leave the ledger as it is, and the one that moves a key. *)
LEMMA Stands ==
  ASSUME \A k \in Key : StateOf(k)' = StateOf(k)
  PROVE  Ledger' = Ledger
BY DEF Ledger, Key

LEMMA Moved ==
  ASSUME NEW k \in Key, NEW from, NEW to, StateOf(k) \in from, StateOf(k)' = to,
         \A j \in Key \ {k} : StateOf(j)' = StateOf(j)
  PROVE  Abstract!Move(k, from, to)
BY DEF Ledger, Key, Abstract!Move

-----------------------------------------------------------------------------
(* Connected keys are held by different plans.                             *)
LEMMA KeysHeld ==
  ASSUME NEW C \in SUBSET Key, NEW S \in SUBSET Plan,
         \A c \in C : \E u \in S : open[u] = c[1] /\ NameOf[idx[u]] = c[2]
  PROVE  Cardinality(C) <= Cardinality(S) /\ Cardinality(C) \in Nat
<1> DEFINE f == [u \in S |-> KeyOf(u)]
           T == {f[u] : u \in S}
<1>1. f \in Surjection(S, T)
  BY DEF Surjection
<1>2. C \subseteq T
  <2>1. ASSUME NEW c \in C PROVE c \in T
    <3>1. PICK u \in S : open[u] = c[1] /\ NameOf[idx[u]] = c[2]
      OBVIOUS
    <3>2. c = f[u]
      BY <3>1 DEF Key, KeyOf
    <3>3. QED
      BY <3>2
  <2>2. QED
    BY <2>1
<1>3. IsFiniteSet(S) /\ Cardinality(S) \in Nat
  BY PlanSubset
<1> HIDE DEF f, T
<1>4. IsFiniteSet(T) /\ Cardinality(T) <= Cardinality(S)
  BY <1>1, <1>3, FS_Surjection
<1>5. Cardinality(C) <= Cardinality(T) /\ Cardinality(C) \in Nat /\ Cardinality(T) \in Nat
  BY <1>2, <1>4, FS_Subset, FS_CardinalityType
<1>6. QED
  BY <1>3, <1>4, <1>5

LEMMA ConnectedHeld ==
  ASSUME NEW c \in Abstract!Connected
  PROVE  c \in Key /\ \E u \in Plan : pc[u] = "run" /\ open[u] = c[1] /\ NameOf[idx[u]] = c[2]
<1>1. c \in Key /\ StateOf(c) = "connected"
  BY DEF Abstract!Connected, Abstract!Key, Key, Endpoint, Ledger
<1>2. \E u \in Plan : Occupies(u, c, {"run"})
  BY <1>1, StateOfCases DEF StateInCases
<1>3. QED
  BY <1>1, <1>2 DEF Occupies

(* A plan that takes the permit of a probe finds room for a connection.    *)
LEMMA RoomToConnect ==
  ASSUME WholeInv, HostInv, PermitInv, NEW t \in Plan, TakeProbePermit(t)
  PROVE  LET k == KeyOf(t)
         IN  /\ Cardinality({c \in Abstract!Connected : c[1].ip = k[1].ip}) < PerHost
             /\ Cardinality({c \in Abstract!Connected : c[2] = k[2]}) < PerProbe
<1> DEFINE i == open[t].ip  p == NameOf[idx[t]]
           C == {c \in Abstract!Connected : c[1].ip = i}
           D == {c \in Abstract!Connected : c[2] = p}
           Busy == {u \in Plan : pc[u] \in {"probe", "run", "emit"} /\ open[u].ip = i}
           Running == {u \in Plan : pc[u] = "run" /\ open[u].ip = i}
<1>1. /\ pc[t] = "probe" /\ Cardinality(ProbeHolders(p)) < PerProbe
      /\ i \in Ip
  BY DEF TakeProbePermit, WholeInv, TypeInv, TypeOK, PlanTypes, Endpoint
<1>2. Cardinality(Busy) <= PerHost
  BY <1>1, PermitInvImplies DEF WholeInv, ConnectionLimits
<1>3. Running \subseteq Busy \ {t} /\ t \in Busy /\ Busy \subseteq Plan
  BY <1>1
<1>4. C \in SUBSET Key /\ \A c \in C : \E u \in Running : open[u] = c[1] /\ NameOf[idx[u]] = c[2]
  <2>1. ASSUME NEW c \in C
        PROVE c \in Key /\ \E u \in Running : open[u] = c[1] /\ NameOf[idx[u]] = c[2]
    <3>1. PICK u \in Plan : pc[u] = "run" /\ open[u] = c[1] /\ NameOf[idx[u]] = c[2]
      BY ConnectedHeld
    <3>2. u \in Running /\ c \in Key
      BY <3>1, ConnectedHeld
    <3>3. QED
      BY <3>1, <3>2
  <2>2. QED
    BY <2>1
<1>5. D \in SUBSET Key /\ \A c \in D : \E u \in ProbeHolders(p) : open[u] = c[1] /\ NameOf[idx[u]] = c[2]
  <2>1. ASSUME NEW c \in D
        PROVE c \in Key /\ \E u \in ProbeHolders(p) : open[u] = c[1] /\ NameOf[idx[u]] = c[2]
    <3>1. PICK u \in Plan : pc[u] = "run" /\ open[u] = c[1] /\ NameOf[idx[u]] = c[2]
      BY ConnectedHeld
    <3>2. u \in ProbeHolders(p) /\ c \in Key
      BY <3>1, ConnectedHeld DEF ProbeHolders
    <3>3. QED
      BY <3>1, <3>2
  <2>2. QED
    BY <2>1
<1>6. ProbeHolders(p) \in SUBSET Plan /\ PerHost \in Nat /\ PerProbe \in Nat
  BY ConstantsAssumption DEF ProbeHolders
<1> HIDE DEF C, D, Busy, Running
<1>7. Cardinality(C) < PerHost
  <2>1. Cardinality(C) <= Cardinality(Running) /\ Cardinality(C) \in Nat
    BY <1>3, <1>4, KeysHeld
  <2>2. IsFiniteSet(Busy) /\ Cardinality(Busy) \in Nat /\ Cardinality(Running) \in Nat
    BY <1>3, PlanSubset
  <2>3. Cardinality(Busy \ {t}) = Cardinality(Busy) - 1 /\ IsFiniteSet(Busy \ {t})
    BY <1>3, <2>2, FS_RemoveElement
  <2>4. Cardinality(Running) <= Cardinality(Busy \ {t})
    BY <1>3, <2>3, FS_Subset
  <2>5. QED
    BY <1>2, <1>6, <2>1, <2>2, <2>3, <2>4
<1>8. Cardinality(D) < PerProbe
  <2>1. Cardinality(D) <= Cardinality(ProbeHolders(p)) /\ Cardinality(D) \in Nat
    BY <1>5, <1>6, KeysHeld
  <2>2. Cardinality(ProbeHolders(p)) \in Nat
    BY <1>6, PlanSubset
  <2>3. QED
    BY <1>1, <1>6, <2>1, <2>2
<1>9. KeyOf(t)[1].ip = i /\ KeyOf(t)[2] = p
  BY DEF KeyOf
<1>10. QED
  BY <1>7, <1>8, <1>9 DEF C, D

-----------------------------------------------------------------------------
LEMMA LedgerInit == Init => Abstract!Init
<1> SUFFICES ASSUME Init PROVE Ledger = [k \in Abstract!Key |-> "unclaimed"]
  BY DEF Abstract!Init
<1>1. ASSUME NEW k \in Key PROVE StateOf(k) = "unclaimed"
  BY StateOfCases DEF Init, StateInCases
<1>2. Key = Abstract!Key
  BY DEF Key, Abstract!Key, Endpoint
<1>3. QED
  BY <1>1, <1>2 DEF Ledger, Key

LEMMA LedgerStep ==
  WholeInv /\ WholeInv' /\ HostInv /\ PermitInv /\ [Next]_vars => [Abstract!Next]_Ledger
<1> SUFFICES ASSUME WholeInv, WholeInv', HostInv, PermitInv, [Next]_vars
             PROVE  Ledger' = Ledger \/ \E k \in Abstract!Key : Abstract!Claim(k) \/ Abstract!Progress(k)
  BY DEF Abstract!Next
<1>0. /\ pc \in [Plan -> Idle \cup Working] /\ idx \in [Plan -> 1..NProbes + 1]
      /\ open \in [Plan -> Endpoint \cup {None}]
      /\ ran \in [Plan -> [Probe -> Outcome \cup {None}]]
      /\ \A t \in Plan : pc[t] # "none" => open[t] \in Endpoint
      /\ \A t \in Plan : pc[t] \in {"host", "probe", "run", "emit"} => idx[t] \in Probe
      /\ None \notin Outcome
      /\ Key = Abstract!Key
      /\ \A t \in Plan : Walk(pc[t], idx[t], ran[t], open[t], seen)
      /\ StateInCases /\ StateInCases' /\ Told /\ Told'
  <2>1. PlanTypes /\ WalkInv
    BY DEF WholeInv, TypeInv, TypeOK
  <2>2. None \notin Outcome /\ Key = Abstract!Key
    BY ConstantsAssumption DEF Key, Abstract!Key, Endpoint
  <2>3. StateInCases /\ StateInCases'
    BY StateOfCases, PTL
  <2>4. Told /\ Told'
    BY InClaim, PTL
  <2>5. QED
    BY <2>1, <2>2, <2>3, <2>4 DEF PlanTypes, WalkInv
<1>1. ASSUME NEW t \in Plan, NEW k \in Key, pc'[t] = pc[t], idx'[t] = idx[t], ran'[t] = ran[t],
             open'[t] = open[t]
      PROVE  Apart(t, k)
  BY <1>1 DEF Apart, RanKey, Occupies
<1>2. ASSUME UNCHANGED <<pc, open, idx, ran, seen>> PROVE Ledger' = Ledger
  BY <1>1, <1>2, ApartKeeps, Stands
<1>3. ASSUME NEW t \in Plan, Only(t), seen' = seen, \A k \in Key : Apart(t, k)
      PROVE  Ledger' = Ledger
  <2>1. \A k \in Key : \A u \in Plan : Apart(u, k)
    BY <1>1, <1>3 DEF Only
  <2>2. QED
    BY <1>3, <2>1, ApartKeeps, Stands
<1>4. ASSUME NEW t \in Plan, NEW k \in Key, NEW from, NEW to, Only(t), StateOf(k) \in from,
             StateOf(k)' = to, \A j \in Key \ {k} : Apart(t, j) /\ (j \in seen' <=> j \in seen)
      PROVE  Abstract!Move(k, from, to)
  <2>1. \A j \in Key \ {k} : \A u \in Plan : Apart(u, j)
    BY <1>1, <1>4 DEF Only
  <2>2. \A j \in Key \ {k} : StateOf(j)' = StateOf(j)
    BY <1>4, <2>1, ApartKeeps
  <2>3. QED
    BY <1>4, <2>2, Moved
<1>5. ASSUME NEW t \in Plan, SpawnPlan(t) PROVE Ledger' = Ledger
  <2>1. Only(t) /\ pc[t] = "none" /\ pc'[t] = "start" /\ ran'[t] = ran[t] /\ seen' = seen
    BY <1>0, <1>5 DEF SpawnPlan, Only
  <2>2. \A p \in Probe : ran[t][p] = None
    BY <1>0, <2>1 DEF Walk
  <2>3. \A k \in Key : Apart(t, k)
    BY <2>1, <2>2 DEF Apart, RanKey, Occupies, Key
  <2>4. QED
    BY <1>3, <2>1, <2>3
<1>6. ASSUME NEW t \in Plan,
             AcquireHost(t) \/ TakeHostPermit(t) \/ EmitResult(t) \/ ReleaseHost(t)
      PROVE  Ledger' = Ledger
  <2>1. /\ Only(t) /\ ran'[t] = ran[t] /\ open'[t] = open[t] /\ seen' = seen
        /\ \/ pc[t] = "host" /\ pc'[t] = "probe" /\ idx'[t] = idx[t]
           \/ /\ pc[t] \in {"start", "emit", "leave", "bail"}
              /\ pc'[t] \in {"next", "leave", "bail", "ok", "err"}
    BY <1>0, <1>6 DEF AcquireHost, TakeHostPermit, EmitResult, After, ReleaseHost, Only
  <2>2. \A k \in Key : Apart(t, k)
    BY <2>1 DEF Apart, RanKey, Occupies
  <2>3. QED
    BY <1>3, <2>1, <2>2
<1>7. ASSUME NEW t \in Plan, NextProbe(t)
      PROVE  Ledger' = Ledger \/ \E k \in Key : Abstract!Claim(k)
  <2>1. Only(t) /\ pc[t] = "next" /\ open'[t] = open[t] /\ ran'[t] = ran[t] /\ open[t] \in Endpoint
    BY <1>0, <1>7 DEF NextProbe, Only
  <2>2. CASE seen' = seen /\ (pc' = [pc EXCEPT ![t] = "leave"] \/ pc' = pc)
    <3>1. \A k \in Key : Apart(t, k)
      BY <1>0, <2>1, <2>2 DEF Apart, RanKey, Occupies
    <3>2. QED
      BY <1>3, <2>1, <2>2, <3>1
  <2>3. CASE /\ idx[t] \in Probe /\ Unclaimed(KeyOf(t)) /\ seen' = seen \cup {KeyOf(t)}
             /\ pc' = [pc EXCEPT ![t] = "host"] /\ UNCHANGED idx
    <3>0. PICK k \in Key : k = KeyOf(t)
      BY <2>1, <2>3, ConstantsAssumption DEF Key, KeyOf
    <3>1. /\ k \notin seen /\ k[1] = open[t] /\ k[2] = NameOf[idx[t]]
          /\ pc'[t] = "host" /\ idx'[t] = idx[t]
      BY <1>0, <2>1, <2>3, <3>0 DEF Unclaimed, KeyOf
    <3>2. Occupies(t, k, {"host", "probe"})'
      BY <2>1, <3>1 DEF Occupies
    <3>3. StateOf(k) = "unclaimed" /\ StateOf(k)' = "claimed"
      BY <1>0, <3>1, <3>2, UnclaimedState DEF Told
    <3>4. ASSUME NEW j \in Key \ {k} PROVE Apart(t, j) /\ (j \in seen' <=> j \in seen)
      <4>1. ~(j[1] = open[t] /\ j[2] = NameOf[idx[t]])
        BY <3>0 DEF Key, KeyOf
      <4>2. QED
        BY <2>1, <2>3, <3>0, <3>1, <4>1 DEF Apart, RanKey, Occupies
    <3>5. Abstract!Move(k, {"unclaimed"}, "claimed")
      BY <1>4, <2>1, <3>1, <3>3, <3>4
    <3>6. QED
      BY <3>5 DEF Abstract!Claim
  <2>4. QED
    BY <1>7, <2>2, <2>3 DEF NextProbe
(* The other steps that count leave the key of t and change its state.     *)
<1>8. ASSUME NEW t \in Plan, pc[t] \in {"host", "probe", "run"}, Only(t), seen' = seen,
             open'[t] = open[t], pc'[t] # "none",
             \A p \in Probe : p # idx[t] => (ran'[t][p] # None <=> ran[t][p] # None),
             pc'[t] \in {"host", "probe", "run"} => idx'[t] = idx[t]
      PROVE  /\ KeyOf(t) \in Key
             /\ \A j \in Key \ {KeyOf(t)} : Apart(t, j) /\ (j \in seen' <=> j \in seen)
  <2>1. KeyOf(t) \in Key
    BY <1>0, <1>8, ConstantsAssumption DEF Key, KeyOf
  <2>2. ASSUME NEW j \in Key \ {KeyOf(t)} PROVE Apart(t, j)
    <3>1. ~(j[1] = open[t] /\ j[2] = NameOf[idx[t]])
      BY DEF Key, KeyOf
    <3>2. QED
      BY <1>8, <3>1 DEF Apart, RanKey, Occupies
  <2>3. QED
    BY <1>8, <2>1, <2>2
<1>9. ASSUME NEW t \in Plan, TakeProbePermit(t)
      PROVE  \E k \in Key : Abstract!Connect(k)
  <2>1. /\ Only(t) /\ pc[t] = "probe" /\ pc'[t] = "run" /\ idx'[t] = idx[t] /\ ran'[t] = ran[t]
        /\ open'[t] = open[t] /\ seen' = seen
    BY <1>0, <1>9 DEF TakeProbePermit, Only
  <2>0. PICK k \in Key : k = KeyOf(t)
    BY <1>8, <2>1
  <2>2. \A j \in Key \ {k} : Apart(t, j) /\ (j \in seen' <=> j \in seen)
    BY <1>8, <2>0, <2>1
  <2>3. Occupies(t, k, {"host", "probe"}) /\ Occupies(t, k, {"run"})'
    BY <2>0, <2>1 DEF Occupies, KeyOf
  <2>4. StateOf(k) = "claimed" /\ StateOf(k)' = "connected"
    BY <1>0, <2>2, <2>3 DEF Told
  <2>5. /\ Cardinality({c \in Abstract!Connected : c[1].ip = k[1].ip}) < PerHost
        /\ Cardinality({c \in Abstract!Connected : c[2] = k[2]}) < PerProbe
    BY <1>9, <2>0, RoomToConnect
  <2>6. Abstract!Move(k, {"claimed"}, "connected")
    BY <1>4, <2>1, <2>2, <2>4
  <2>7. QED
    BY <2>2, <2>5, <2>6 DEF Abstract!Connect, Cardinality, Abstract!Cardinality
<1>10. ASSUME NEW t \in Plan, NEW o \in Outcome, EndExecution(t, o)
       PROVE  Ledger' = Ledger \/ \E k \in Key : Abstract!Settle(k)
  <2>1. /\ Only(t) /\ pc[t] = "run" /\ idx[t] \in Probe /\ open' = open /\ seen' = seen
    BY <1>0, <1>10 DEF EndExecution, After, Only
  <2>2. CASE UNCHANGED <<pc, idx, ran>>
    BY <1>2, <2>1, <2>2
  <2>3. CASE /\ ran' = [ran EXCEPT ![t][idx[t]] = o]
             /\ pc' = [pc EXCEPT ![t] = "emit"] \/ After(t, o)
    <3>1. \A p \in Probe : ran'[t][p] = IF p = idx[t] THEN o ELSE ran[t][p]
      BY <1>0, <2>1, <2>3
    <3>2. pc'[t] \in {"emit", "leave", "next"}
      BY <1>0, <2>3 DEF After
    <3>0. PICK k \in Key : k = KeyOf(t)
      BY <1>8, <2>1, <3>1, <3>2
    <3>3. \A j \in Key \ {k} : Apart(t, j) /\ (j \in seen' <=> j \in seen)
      BY <1>8, <2>1, <3>0, <3>1, <3>2
    <3>4. Occupies(t, k, {"run"}) /\ RanKey(t, k)'
      BY <1>0, <2>1, <3>0, <3>1, <3>2 DEF Occupies, RanKey, KeyOf
    <3>5. StateOf(k) = "connected" /\ StateOf(k)' = "settled"
      BY <1>0, <3>3, <3>4 DEF Told
    <3>6. Abstract!Move(k, {"connected"}, "settled")
      BY <1>4, <2>1, <3>3, <3>5
    <3>7. QED
      BY <3>3, <3>6 DEF Abstract!Settle
  <2>4. QED
    BY <1>10, <2>2, <2>3 DEF EndExecution
<1>11. ASSUME NEW t \in Plan, CancelPlan(t)
       PROVE  Ledger' = Ledger \/ \E k \in Key : Abstract!Abandon(k)
  <2>1. /\ Only(t) /\ pc[t] \in Working /\ pc'[t] = "cancelled" /\ idx'[t] = idx[t]
        /\ ran'[t] = ran[t] /\ open'[t] = open[t] /\ seen' = seen
    BY <1>0, <1>11 DEF CancelPlan, Live, Only
  <2>2. CASE pc[t] \notin {"host", "probe", "run"}
    <3>1. \A j \in Key : Apart(t, j)
      BY <2>1, <2>2 DEF Apart, RanKey, Occupies, Working
    <3>2. QED
      BY <1>3, <2>1, <3>1
  <2>3. CASE pc[t] \in {"host", "probe", "run"}
    <3>0. PICK k \in Key : k = KeyOf(t)
      BY <1>8, <2>1, <2>3
    <3>1. \A j \in Key \ {k} : Apart(t, j) /\ (j \in seen' <=> j \in seen)
      BY <1>8, <2>1, <2>3, <3>0
    <3>2. Occupies(t, k, {"host", "probe", "run"})
      BY <2>3, <3>0 DEF Occupies, KeyOf
    <3>3. StateOf(k) \in {"claimed", "connected"}
      BY <1>0, <2>3, <3>1, <3>2 DEF Told, Occupies
    <3>4. /\ k \in seen' /\ \A u \in Plan : ~RanKey(u, k)
          /\ \A u \in Plan : u # t => ~Occupies(u, k, {"host", "probe", "run"})
      BY <2>1, <3>1, <3>2, Occupied
    <3>5. ASSUME NEW u \in Plan
          PROVE  ~RanKey(u, k)' /\ ~Occupies(u, k, {"host", "probe"})' /\ ~Occupies(u, k, {"run"})'
      <4>1. CASE u = t
        BY <2>1, <2>3, <3>4, <4>1 DEF RanKey, Occupies
      <4>2. CASE u # t
        BY <2>1, <3>4, <4>2 DEF Only, RanKey, Occupies
      <4>3. QED
        BY <4>1, <4>2
    <3>6. StateOf(k)' = "abandoned"
      BY <1>0, <3>1, <3>4, <3>5 DEF StateInCases
    <3>7. Abstract!Move(k, {"claimed", "connected"}, "abandoned")
      BY <1>4, <2>1, <3>1, <3>3, <3>6
    <3>8. QED
      BY <3>1, <3>7 DEF Abstract!Abandon
  <2>4. QED
    BY <2>2, <2>3
<1>12. QED
  <2>1. CASE UNCHANGED vars
    BY <1>2, <2>1 DEF vars, planVars
  <2>2. CASE Environment
    BY <1>2, <2>2 DEF Environment,
        CountOpenPort, Producer, SendOpenPort, GiveUpOpenPort, CloseInput, WriteResult, OutputFails,
                      RequestShutdown, AbortScheduler, planVars
  <2>3. CASE Recv \/ RecvClosed \/ ReportOpen \/ CheckShutdown \/ JoinPlans
    BY <1>2, <2>3 DEF Recv, RecvClosed, ReportOpen, CheckShutdown, JoinPlans, planVars
  <2>4. QED
    BY <1>0, <1>5, <1>6, <1>7, <1>9, <1>10, <1>11, <2>1, <2>2, <2>3
       DEF Next, LoopStep, PlanStep, Abstract!Progress

(* Every step of the scheduler is one step of the ledger or none: no key is *)
(* used twice or goes back, and no connection exceeds a limit.              *)
THEOREM LedgerImplemented == Spec => Abstract!Init /\ [][Abstract!Next]_Ledger
<1>1. Init => WholeInv /\ HostInv /\ PermitInv /\ Abstract!Init
  BY WholeInit, HostInit, PermitInit, LedgerInit
<1>2. WholeInv /\ HostInv /\ PermitInv /\ [Next]_vars => (WholeInv /\ HostInv /\ PermitInv)'
  BY WholeStep, HostStep, PermitStep DEF WholeInv
<1>3. WholeInv /\ WholeInv' /\ HostInv /\ PermitInv /\ [Next]_vars => [Abstract!Next]_Ledger
  BY LedgerStep
<1>4. QED
  BY <1>1, <1>2, <1>3, PTL DEF Spec
=============================================================================
