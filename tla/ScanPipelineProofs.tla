------------------------- MODULE ScanPipelineProofs -------------------------
(***************************************************************************)
(* Theorems about ScanPipeline, for every number of jobs, every capacity   *)
(* and every number of concurrent plans.                                   *)
(***************************************************************************)
EXTENDS ScanPipeline, TLAPS

(* Of every mode: what discovery holds of the jobs, and who exists.        *)
JobsLeft == left + jobq + air <= Jobs

ModeParts ==
  /\ mode = "probe" => scan = "off" /\ receiver = "off" /\ jobq = 0 /\ main # "scan"
  /\ mode = "full"  => scan # "off"

(* The sender lingers when main no longer produces and its queue is empty. *)
SendingOver == scan \in {"linger", "join", "ok"} => jobq = 0 /\ main # "produce"

(* The exit, and the records between plans and file.                       *)
ExitCode ==
  /\ main = "exit" <=> code # "none"
  /\ code \in {"ok", "failed"} => output # "run"
  /\ code = "ok" => output = "ok" /\ error = "none"

(* The loop has ended when main goes on to the output, and with no plan    *)
(* left if it returned.                                                    *)
LoopEnded ==
  /\ main = "output" \/ code \in {"ok", "failed"} => SchedEnded
  /\ sched = "ok" => Planless

RecordsCounted ==
  /\ output # "err" => emitted = written + resq
  /\ output = "ok" => ~OutputOpen /\ resq = 0 /\ synced = written

(* Who asked for the stop, and what is known past the wait for discovery.  *)
StopAsked ==
  /\ output = "err" \/ sched \in {"err", "aborted"} \/ main = "grace" => shutdown
  /\ sched = "err" \/ planError => output = "err"

Past == main \in {"wait", "grace", "output"} \/ code \in {"ok", "failed"}
DiscoveryKnown ==
  /\ Past /\ mode = "full" => ScanEnded
  /\ Past => (error = "discovery" <=> scan = "err")
  /\ Past /\ scan = "err" => shutdown

(* The errors merged after discovery's are those of the output and of the  *)
(* scheduler it brought down.                                              *)
ErrorNamed ==
  /\ main \in {"produce", "scan"} => error = "none"
  /\ error \in {"scheduler", "output"} => output = "err"
  /\ code = "failed" => error # "none"

(* Without a request to stop: the producer stops when nothing is left, and *)
(* an open port is in a channel, in a hand, or has its plan.               *)
AllProduced == ~shutdown /\ main # "produce" => left = 0 \/ scan = "err"

InputOver == sched \in {"join", "ok"} => openq = 0 /\ ~InputOpen

One(b) == IF b THEN 1 ELSE 0
PortsCounted ==
  ~shutdown =>
    found = planned + openq + One(sched \in {"report", "permit"}) + One(receiver = "send")

Inv ==
  /\ TypeOK
  /\ JobsLeft /\ ModeParts /\ SendingOver
  /\ ExitCode /\ LoopEnded /\ RecordsCounted
  /\ StopAsked /\ DiscoveryKnown /\ ErrorNamed
  /\ AllProduced /\ InputOver /\ PortsCounted

LEMMA InvInit == Init => Inv
<1> SUFFICES ASSUME Init PROVE Inv
  OBVIOUS
<1>1. TypeOK
  <2>1. shutdown \in BOOLEAN /\ planError \in BOOLEAN /\ reports \in BOOLEAN
    BY Zenon DEF Init
  <2>2. QED
    BY <2>1, PipelineAssumption DEF Init, TypeOK
<1>2. JobsLeft /\ ModeParts /\ SendingOver
  BY PipelineAssumption DEF Init, JobsLeft, ModeParts, SendingOver
<1>3. ExitCode /\ LoopEnded /\ RecordsCounted
  BY DEF Init, ExitCode, LoopEnded, RecordsCounted, SchedEnded
<1>4. StopAsked /\ DiscoveryKnown /\ ErrorNamed
  BY Zenon DEF Init, StopAsked, DiscoveryKnown, ErrorNamed, Past
<1>5. AllProduced /\ InputOver /\ PortsCounted
  BY DEF Init, AllProduced, InputOver, PortsCounted, One
<1>6. QED
  BY <1>1, <1>2, <1>3, <1>4, <1>5 DEF Inv

-----------------------------------------------------------------------------
(* One lemma for each task of the process: what its steps do to Inv.       *)

LEMMA MainStepInv ==
  ASSUME Inv, main # "exit", MainStep
  PROVE  Inv'
<1> USE PipelineAssumption
    DEF Inv, TypeOK, JobsLeft, ModeParts, SendingOver, ExitCode, LoopEnded, RecordsCounted,
        StopAsked, Past, DiscoveryKnown, ErrorNamed, AllProduced, InputOver, PortsCounted, One,
        SchedEnded, ScanEnded, ReceiverUp, InputOpen, Planless, OutputOpen,
        mainVars, scanVars, planVars, schedVars, outputVars, sigVars, history
<1>1. CASE Produce
  BY <1>1 DEF Produce
<1>2. CASE StopProducing
  BY <1>2 DEF StopProducing
<1>3. CASE AwaitScan
  <2>1. shutdown' \in BOOLEAN /\ error' \in {error, "discovery"}
    BY <1>3, Zenon DEF AwaitScan
  <2>2. scan = "err" => shutdown' /\ error' = "discovery"
    BY <1>3 DEF AwaitScan
  <2>3. QED
    BY <1>3, <2>1, <2>2 DEF AwaitScan
<1>4. CASE TakeSchedulerResult
  BY <1>4 DEF TakeSchedulerResult
<1>5. CASE StartGrace
  BY <1>5 DEF StartGrace
<1>6. CASE GraceExpires
  BY <1>6 DEF GraceExpires
<1>7. CASE AwaitOutput
  BY <1>7 DEF AwaitOutput, OutputError
<1>8. QED
  BY <1>1, <1>2, <1>3, <1>4, <1>5, <1>6, <1>7 DEF MainStep

LEMMA DiscoveryStepInv ==
  ASSUME Inv, main # "exit", SenderStep \/ ReceiverStep \/ Receive \/ ScanFails \/ ReceiverFails
  PROVE  Inv'
<1> USE PipelineAssumption
    DEF Inv, TypeOK, JobsLeft, ModeParts, SendingOver, ExitCode, LoopEnded, RecordsCounted,
        StopAsked, Past, DiscoveryKnown, ErrorNamed, AllProduced, InputOver, PortsCounted, One,
        SchedEnded, ScanEnded, ReceiverUp, InputOpen, Planless, OutputOpen,
        mainVars, scanVars, planVars, schedVars, outputVars, sigVars, history
<1>1. CASE SendSyn
  BY <1>1 DEF SendSyn
<1>2. CASE EndSending
  BY <1>2 DEF EndSending
<1>3. CASE EndLinger
  BY <1>3 DEF EndLinger
<1>4. CASE JoinReceiver
  BY <1>4 DEF JoinReceiver
<1>5. CASE SendOpenPort
  BY <1>5 DEF SendOpenPort
<1>6. CASE ReceiverSeesDone
  BY <1>6 DEF ReceiverSeesDone
<1>7. CASE Receive
  BY <1>7 DEF Receive
<1>8. CASE ScanFails
  BY <1>8 DEF ScanFails
<1>9. CASE ReceiverFails
  BY <1>9 DEF ReceiverFails
<1>10. QED
  BY <1>1, <1>2, <1>3, <1>4, <1>5, <1>6, <1>7, <1>8, <1>9 DEF SenderStep, ReceiverStep

LEMMA SchedulerStepInv ==
  ASSUME Inv, main # "exit", SchedulerStep
  PROVE  Inv'
<1> USE PipelineAssumption
    DEF Inv, TypeOK, JobsLeft, ModeParts, SendingOver, ExitCode, LoopEnded, RecordsCounted,
        StopAsked, Past, DiscoveryKnown, ErrorNamed, AllProduced, InputOver, PortsCounted, One,
        SchedEnded, ScanEnded, ReceiverUp, InputOpen, Planless, OutputOpen,
        mainVars, scanVars, planVars, schedVars, outputVars, sigVars, history
<1>1. CASE TakeOpenPort
  BY <1>1 DEF TakeOpenPort, AfterReport
<1>2. CASE ReportOpen
  BY <1>2 DEF ReportOpen, AfterReport
<1>3. CASE StartPlan
  BY <1>3 DEF StartPlan
<1>4. CASE InputClosed
  BY <1>4 DEF InputClosed
<1>5. CASE SchedulerReturns
  BY <1>5 DEF SchedulerReturns
<1>6. CASE SchedulerFails
  BY <1>6 DEF SchedulerFails
<1>7. QED
  BY <1>1, <1>2, <1>3, <1>4, <1>5, <1>6 DEF SchedulerStep

LEMMA PlanStepInv ==
  ASSUME Inv, main # "exit", ExecutionEnds \/ PlanStep
  PROVE  Inv'
<1> USE PipelineAssumption
    DEF Inv, TypeOK, JobsLeft, ModeParts, SendingOver, ExitCode, LoopEnded, RecordsCounted,
        StopAsked, Past, DiscoveryKnown, ErrorNamed, AllProduced, InputOver, PortsCounted, One,
        SchedEnded, ScanEnded, ReceiverUp, InputOpen, Planless, OutputOpen,
        mainVars, scanVars, planVars, schedVars, outputVars, sigVars, history
<1>1. CASE WantsToSend
  BY <1>1 DEF WantsToSend
<1>2. CASE PlanEnds
  BY <1>2 DEF PlanEnds
<1>3. CASE SendRecord
  BY <1>3 DEF SendRecord
<1>4. CASE SendFails
  BY <1>4 DEF SendFails
<1>5. CASE CancelPlan
  BY <1>5 DEF CancelPlan
<1>6. QED
  BY <1>1, <1>2, <1>3, <1>4, <1>5 DEF ExecutionEnds, PlanStep

LEMMA OutputStepInv ==
  ASSUME Inv, main # "exit", OutputStep \/ OutputFails \/ Interrupt
  PROVE  Inv'
<1> USE PipelineAssumption
    DEF Inv, TypeOK, JobsLeft, ModeParts, SendingOver, ExitCode, LoopEnded, RecordsCounted,
        StopAsked, Past, DiscoveryKnown, ErrorNamed, AllProduced, InputOver, PortsCounted, One,
        SchedEnded, ScanEnded, ReceiverUp, InputOpen, Planless, OutputOpen,
        mainVars, scanVars, planVars, schedVars, outputVars, sigVars, history
<1>1. CASE WriteRecord
  BY <1>1 DEF WriteRecord
<1>2. CASE SyncOutput
  BY <1>2 DEF SyncOutput
<1>3. CASE EndOutput
  BY <1>3 DEF EndOutput
<1>4. CASE OutputFails
  BY <1>4 DEF OutputFails
<1>5. CASE Interrupt
  BY <1>5 DEF Interrupt
<1>6. QED
  BY <1>1, <1>2, <1>3, <1>4, <1>5 DEF OutputStep

LEMMA InvStep == Inv /\ [Next]_vars => Inv'
<1> SUFFICES ASSUME Inv, [Next]_vars PROVE Inv'
  OBVIOUS
<1>1. CASE UNCHANGED vars
  BY <1>1 DEF vars, mainVars, scanVars, planVars, schedVars, outputVars, sigVars, history,
              Inv, TypeOK, JobsLeft, ModeParts, SendingOver, ExitCode, LoopEnded, RecordsCounted,
              StopAsked, Past, DiscoveryKnown, ErrorNamed, AllProduced, InputOver, PortsCounted,
              SchedEnded, ScanEnded, ReceiverUp, InputOpen, Planless, OutputOpen
<1>2. CASE Next
  BY <1>2, MainStepInv, DiscoveryStepInv, SchedulerStepInv, PlanStepInv, OutputStepInv DEF Next
<1>3. QED
  BY <1>1, <1>2

LEMMA InvHolds == Spec => []Inv
BY InvInit, InvStep, PTL DEF Spec

-----------------------------------------------------------------------------
(* Every variable keeps its type: no channel is overfull, and no packet    *)
(* answers a job that was not sent.                                        *)
THEOREM TypeCorrect == Spec => []TypeOK
<1>1. Inv => TypeOK
  BY DEF Inv
<1>2. QED
  BY <1>1, InvHolds, PTL

(* At every exit but a second Ctrl+C, unless the output itself failed, the *)
(* records that plans sent are in the file and durable, for any number of  *)
(* jobs and any capacities.                                                *)
THEOREM FlushedCorrect == Spec => []FlushedAtExit
<1>1. Inv => FlushedAtExit
  BY DEF Inv, TypeOK, ExitCode, RecordsCounted, FlushedAtExit
<1>2. QED
  BY <1>1, InvHolds, PTL

(* Exit status 0 means that no task failed, and the error of a failed exit *)
(* is discovery's whenever that failed.                                    *)
THEOREM FailureCorrect == Spec => []FailureReported
<1>1. Inv => FailureReported
  <2> SUFFICES ASSUME Inv PROVE FailureReported
    OBVIOUS
  <2>1. ASSUME code = "ok"
        PROVE  output = "ok" /\ sched # "err" /\ (mode = "full" => scan = "ok")
    <3>1. output = "ok" /\ error = "none"
      BY <2>1 DEF Inv, ExitCode
    <3>2. sched # "err"
      BY <3>1 DEF Inv, StopAsked
    <3>3. mode = "full" => scan = "ok"
      BY <2>1, <3>1 DEF Inv, Past, DiscoveryKnown, ScanEnded
    <3>4. QED
      BY <3>1, <3>2, <3>3
  <2>2. ASSUME code = "failed"
        PROVE  IF scan = "err" THEN error = "discovery"
               ELSE error \in {"scheduler", "output"} /\ output = "err"
    <3>1. error = "discovery" <=> scan = "err"
      BY <2>2 DEF Inv, Past, DiscoveryKnown
    <3>2. error \in {"discovery", "scheduler", "output"}
      BY <2>2 DEF Inv, TypeOK, ErrorNamed
    <3>3. error \in {"scheduler", "output"} => output = "err"
      BY DEF Inv, ErrorNamed
    <3>4. QED
      BY <3>1, <3>2, <3>3
  <2>3. QED
    BY <2>1, <2>2 DEF FailureReported
<1>2. QED
  BY <1>1, InvHolds, PTL

(* Exit status 0 without a request to stop means that the whole scan is    *)
(* done.  The count of open ports carries the argument: none is left in a  *)
(* channel or in a hand once the input is over.                            *)
THEOREM WholeScanCorrect == Spec => []WholeScan
<1>1. Inv => WholeScan
  <2> SUFFICES ASSUME Inv, code = "ok", ~shutdown PROVE WholeScan
    BY DEF WholeScan
  <2>1. mode \in {"probe", "full"} /\ main = "exit" /\ output = "ok"
    BY PipelineAssumption DEF Inv, TypeOK, ExitCode
  <2>2. sched = "ok" /\ Planless
    BY DEF Inv, StopAsked, LoopEnded, SchedEnded
  <2>3. mode = "full" => scan = "ok"
    BY DEF Inv, Past, DiscoveryKnown, ScanEnded
  <2>4. left = 0 /\ jobq = 0
    BY <2>1, <2>3 DEF Inv, ModeParts, SendingOver, AllProduced
  <2>5. openq = 0 /\ receiver # "send"
    BY <2>1, <2>2 DEF Inv, ModeParts, InputOver, InputOpen, ReceiverUp
  <2>6. planned = found
    BY <2>2, <2>5 DEF Inv, TypeOK, PortsCounted, One
  <2>7. QED
    BY <2>2, <2>4, <2>5, <2>6 DEF WholeScan, Planless
<1>2. QED
  BY <1>1, InvHolds, PTL
=============================================================================
