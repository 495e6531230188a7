---------------------------- MODULE ScanPipeline ----------------------------
(***************************************************************************)
(* One scan process: main.rs::run with the tasks it starts, and the        *)
(* shutdown flag they share.                                               *)
(*                                                                         *)
(* Jobs, open ports and records are counted, not told apart: the           *)
(* questions here are who waits for whom, which channel end is still held, *)
(* and what is lost when a task fails or the process is asked to stop.     *)
(* The scheduler is what the pipeline sees of ProbeScheduler: a loop that  *)
(* takes open ports one at a time and reports them in some output modes,   *)
(* at most Global plans, each executing or waiting to send a record, and   *)
(* the join of the plans once the input is closed.                         *)
(*                                                                         *)
(* Faulty variants used by no other definition: KeepOnlyEarlierError,      *)
(* ReturnAtEmptyInput, WaitForScheduler, DetachedReceiver, UnsyncedEnd.    *)
(***************************************************************************)
EXTENDS Integers

CONSTANTS
  Modes,                   (* scan modes: "probe", or "full" and discovery  *)
  Jobs,                    (* socket targets of this process                *)
  JobCap, OpenCap, ResCap, (* channel capacities                            *)
  Global,                  (* probe_concurrency                             *)
  MaxRecords               (* bound: records after which no plan adds one   *)

ASSUME PipelineAssumption ==
  /\ Modes \subseteq {"probe", "full"} /\ Modes # {}
  /\ Jobs \in Nat
  /\ JobCap \in Nat \ {0} /\ OpenCap \in Nat \ {0} /\ ResCap \in Nat \ {0}
  /\ Global \in Nat \ {0} /\ MaxRecords \in Nat

VARIABLES
  mode,
  reports,   (* the output mode asks for a record of each open port         *)
  main,      (* where run() is: produce, scan, wait, grace, output, exit    *)
  left,      (* jobs not generated yet                                      *)
  error,     (* pipeline_error: "none", or whose error it is                *)
  code,      (* the exit: "none", "ok", "failed", "interrupted"             *)
  jobq,      (* jobs in the channel to the SYN sender                       *)
  scan,      (* the SYN sender: run, linger, join, ok, err; "off" in probe  *)
  receiver,  (* the receiver thread: on, send, ended, failed, off           *)
  air,       (* SYN packets sent that may still be answered                 *)
  openq,     (* open ports in the channel to the scheduler                  *)
  sched,     (* the loop: recv, report, permit, join, ok, err, aborted      *)
  plans,     (* plans that execute a probe or wait for a permit             *)
  sending,   (* plans that wait in send_result                              *)
  planError, (* a plan ended with an error                                  *)
  resq,      (* records in the channel to the output task                   *)
  output,    (* the output task: run, ok, err                               *)
  written, synced,         (* records in the file, records made durable     *)
  shutdown, signals,       (* the watch flag, Ctrl+C received               *)
  found, planned, emitted  (* history: open ports, plans, records           *)

mainVars   == <<mode, reports, left, error, code>>
scanVars   == <<jobq, scan, receiver, air>>
planVars   == <<plans, sending, planError>>
schedVars  == <<sched, planVars>>
outputVars == <<output, written, synced>>
sigVars    == <<shutdown, signals>>
history    == <<found, planned, emitted>>
vars == <<main, mainVars, scanVars, openq, schedVars, resq, outputVars, sigVars, history>>

SchedEnded == sched \in {"ok", "err", "aborted"}
ScanEnded  == scan \in {"ok", "err"}
ReceiverUp == receiver \in {"on", "send"}
Planless   == plans = 0 /\ sending = 0

(* A sender of the open-port channel is alive.                             *)
InputOpen == IF mode = "probe" THEN main = "produce"
             ELSE ~ScanEnded \/ ReceiverUp

Init ==
  /\ mode \in Modes /\ reports \in BOOLEAN
  /\ main = "produce" /\ left = Jobs /\ error = "none" /\ code = "none"
  /\ scan = IF mode = "probe" THEN "off" ELSE "run"
  /\ receiver = IF mode = "probe" THEN "off" ELSE "on"
  /\ jobq = 0 /\ air = 0 /\ openq = 0 /\ resq = 0
  /\ sched = "recv" /\ plans = 0 /\ sending = 0 /\ planError = FALSE
  /\ output = "run" /\ written = 0 /\ synced = 0
  /\ shutdown = FALSE /\ signals = 0
  /\ found = 0 /\ planned = 0 /\ emitted = 0

-----------------------------------------------------------------------------
(* run().                                                                  *)

(* The producer sends a job, to the SYN sender or as an open port.  In the *)
(* select a closed channel and the shutdown flag end it; when a send and   *)
(* the flag are both ready, either branch may win.                         *)
Produce ==
  /\ main = "produce" /\ left > 0
  /\ left' = left - 1
  /\ IF mode = "probe"
       THEN /\ ~SchedEnded /\ openq < OpenCap
            /\ openq' = openq + 1 /\ found' = found + 1
            /\ jobq' = jobq
       ELSE /\ ~ScanEnded /\ jobq < JobCap
            /\ jobq' = jobq + 1
            /\ UNCHANGED <<openq, found>>
  /\ UNCHANGED <<main, mode, reports, error, code, scan, receiver, air, schedVars, resq,
                 outputVars, sigVars, planned, emitted>>

StopProducing ==
  /\ main = "produce"
  /\ left = 0 \/ shutdown \/ (IF mode = "probe" THEN SchedEnded ELSE ScanEnded)
  /\ main' = IF mode = "probe" THEN "wait" ELSE "scan"
  /\ UNCHANGED <<mainVars, scanVars, openq, schedVars, resq, outputVars, sigVars, history>>

(* scan.await: no branch of it looks at the shutdown flag.                 *)
AwaitScan ==
  /\ main = "scan" /\ ScanEnded
  /\ main' = "wait"
  /\ IF scan = "err"
       THEN error' = "discovery" /\ shutdown' = TRUE
       ELSE UNCHANGED <<error, shutdown>>
  /\ UNCHANGED <<mode, reports, left, code, scanVars, openq, schedVars, resq, outputVars,
                 signals, history>>

(* The scheduler ends before or within the grace period.                   *)
TakeSchedulerResult ==
  /\ main \in {"wait", "grace"} /\ SchedEnded
  /\ main' = "output"
  /\ error' = IF sched = "err" /\ error = "none" THEN "scheduler" ELSE error
  /\ UNCHANGED <<mode, reports, left, code, scanVars, openq, schedVars, resq, outputVars,
                 sigVars, history>>

(* The select of the wait sees shutdown: the grace period starts.          *)
WaitForScheduler ==
  /\ main = "wait" /\ shutdown /\ SchedEnded
  /\ main' = "grace"
  /\ UNCHANGED <<mainVars, scanVars, openq, schedVars, resq, outputVars, sigVars, history>>
StartGrace ==
  /\ main = "wait" /\ shutdown
  /\ main' = "grace"
  /\ UNCHANGED <<mainVars, scanVars, openq, schedVars, resq, outputVars, sigVars, history>>

(* The grace period expires: the loop is aborted and awaited, its receiver *)
(* is dropped with the ports in it, and its plans are told to stop.  A     *)
(* loop that ends in the same moment keeps its state, and its result is    *)
(* discarded.                                                              *)
GraceExpires ==
  /\ main = "grace"
  /\ main' = "output"
  /\ IF SchedEnded THEN UNCHANGED <<sched, openq>> ELSE sched' = "aborted" /\ openq' = 0
  /\ UNCHANGED <<mainVars, scanVars, planVars, resq, outputVars, sigVars, history>>

(* output_task.await, the summary, and the exit status.                    *)
OutputError == IF error = "none" /\ output = "err" THEN "output" ELSE error
KeepOnlyEarlierError ==
  /\ main = "output" /\ output # "run"
  /\ main' = "exit" /\ error' = error
  /\ code' = IF error = "none" THEN "ok" ELSE "failed"
  /\ UNCHANGED <<mode, reports, left, scanVars, openq, schedVars, resq, outputVars, sigVars,
                 history>>
AwaitOutput ==
  /\ main = "output" /\ output # "run"
  /\ main' = "exit" /\ error' = OutputError
  /\ code' = IF OutputError = "none" THEN "ok" ELSE "failed"
  /\ UNCHANGED <<mode, reports, left, scanVars, openq, schedVars, resq, outputVars, sigVars,
                 history>>

MainStep ==
  \/ Produce \/ StopProducing \/ AwaitScan \/ TakeSchedulerResult \/ StartGrace
  \/ GraceExpires \/ AwaitOutput

-----------------------------------------------------------------------------
(* Discovery.                                                              *)

(* The sender takes a job and sends its SYN.                               *)
SendSyn ==
  /\ scan = "run" /\ jobq > 0
  /\ jobq' = jobq - 1 /\ air' = air + 1
  /\ UNCHANGED <<main, mainVars, scan, receiver, openq, schedVars, resq, outputVars,
                 sigVars, history>>

(* The job channel is empty and closed; then the wait for late answers.    *)
EndSending ==
  /\ scan = "run" /\ jobq = 0 /\ main # "produce"
  /\ scan' = "linger"
  /\ UNCHANGED <<main, mainVars, jobq, receiver, air, openq, schedVars, resq,
                 outputVars, sigVars, history>>

EndLinger ==
  /\ scan = "linger"
  /\ scan' = "join"       \* done.store(true)
  /\ UNCHANGED <<main, mainVars, jobq, receiver, air, openq, schedVars, resq,
                 outputVars, sigVars, history>>

(* receiver.join(), whose error is the scan's.                             *)
JoinReceiver ==
  /\ scan = "join" /\ ~ReceiverUp
  /\ scan' = IF receiver = "failed" THEN "err" ELSE "ok"
  /\ UNCHANGED <<main, mainVars, jobq, receiver, air, openq, schedVars, resq,
                 outputVars, sigVars, history>>

(* Only the set-up of the sender can fail, before the first job is taken:  *)
(* the sockets before the receiver exists, the route resolver after it was *)
(* spawned, and then the thread is left running with its sender.           *)
ScanFails ==
  /\ scan = "run" /\ left + jobq = Jobs
  /\ scan' = "err" /\ jobq' = 0
  /\ \/ receiver' = receiver
     \/ receiver = "on" /\ receiver' = "off"
  /\ UNCHANGED <<main, mainVars, air, openq, schedVars, resq, outputVars, sigVars, history>>

(* A SYN/ACK: the receiver goes into blocking_send.                        *)
Receive ==
  /\ receiver = "on" /\ air > 0
  /\ air' = air - 1
  /\ receiver' = "send" /\ found' = found + 1
  /\ UNCHANGED <<main, mainVars, jobq, scan, openq, schedVars, resq, outputVars, sigVars,
                 planned, emitted>>

(* blocking_send waits for room, or finds the scheduler gone and breaks.   *)
SendOpenPort ==
  /\ receiver = "send"
  /\ \/ ~SchedEnded /\ openq < OpenCap /\ openq' = openq + 1 /\ receiver' = "on"
     \/ SchedEnded /\ openq' = openq /\ receiver' = "ended"
  /\ UNCHANGED <<main, mainVars, jobq, scan, air, schedVars, resq, outputVars, sigVars, history>>

(* The loop test sees done.                                                *)
DetachedReceiver ==
  /\ receiver = "on" /\ FALSE
  /\ receiver' = "ended"
  /\ UNCHANGED <<main, mainVars, jobq, scan, air, openq, schedVars, resq, outputVars,
                 sigVars, history>>
ReceiverSeesDone ==
  /\ receiver = "on" /\ scan = "join"
  /\ receiver' = "ended"
  /\ UNCHANGED <<main, mainVars, jobq, scan, air, openq, schedVars, resq, outputVars,
                 sigVars, history>>

ReceiverFails ==
  /\ receiver = "on"
  /\ receiver' = "failed"
  /\ UNCHANGED <<main, mainVars, jobq, scan, air, openq, schedVars, resq, outputVars,
                 sigVars, history>>

SenderStep   == SendSyn \/ EndSending \/ EndLinger \/ JoinReceiver
ReceiverStep == SendOpenPort \/ ReceiverSeesDone

-----------------------------------------------------------------------------
(* The scheduler task, as the pipeline sees it.                            *)

(* What follows the report of an open port: after shutdown no plan is made *)
(* for it.                                                                 *)
AfterReport == IF shutdown THEN "recv" ELSE "permit"

TakeOpenPort ==
  /\ sched = "recv" /\ openq > 0
  /\ openq' = openq - 1
  /\ sched' = IF reports THEN "report" ELSE AfterReport
  /\ UNCHANGED <<main, mainVars, scanVars, planVars, resq, outputVars, sigVars, history>>

(* The open record waits for room in the result channel.                   *)
ReportOpen ==
  /\ sched = "report" /\ output = "run" /\ resq < ResCap
  /\ resq' = resq + 1 /\ emitted' = emitted + 1
  /\ sched' = AfterReport
  /\ UNCHANGED <<main, mainVars, scanVars, openq, planVars, outputVars, sigVars, found, planned>>

StartPlan ==
  /\ sched = "permit" /\ plans + sending < Global
  /\ sched' = "recv" /\ plans' = plans + 1 /\ planned' = planned + 1
  /\ UNCHANGED <<main, mainVars, scanVars, openq, sending, planError, resq, outputVars,
                 sigVars, found, emitted>>

ReturnAtEmptyInput ==
  /\ sched = "recv" /\ openq = 0
  /\ sched' = "join"
  /\ UNCHANGED <<main, mainVars, scanVars, openq, planVars, resq, outputVars, sigVars, history>>
InputClosed ==
  /\ sched = "recv" /\ openq = 0 /\ ~InputOpen
  /\ sched' = "join"
  /\ UNCHANGED <<main, mainVars, scanVars, openq, planVars, resq, outputVars, sigVars, history>>

SchedulerReturns ==
  /\ sched = "join" /\ Planless /\ ~planError
  /\ sched' = "ok"
  /\ UNCHANGED <<main, mainVars, scanVars, openq, planVars, resq, outputVars, sigVars, history>>

(* The loop learns that the output is gone from its own send or from the   *)
(* error of a plan it joins: it returns, drops its input, tells its plans  *)
(* to stop, and the task requests shutdown.                                *)
SchedulerFails ==
  /\ \/ sched = "report" /\ output = "err"
     \/ sched = "join" /\ planError
  /\ sched' = "err" /\ openq' = 0 /\ shutdown' = TRUE
  /\ UNCHANGED <<main, mainVars, scanVars, planVars, resq, outputVars, signals, history>>

SchedulerStep ==
  \/ TakeOpenPort \/ ReportOpen \/ StartPlan \/ InputClosed \/ SchedulerReturns
  \/ SchedulerFails

-----------------------------------------------------------------------------
(* The plans.  A plan keeps its global permit until it has ended.          *)

(* A probe was executed and its result is wanted: the plan goes to send.   *)
WantsToSend ==
  /\ plans > 0 /\ emitted + sending < MaxRecords
  /\ plans' = plans - 1 /\ sending' = sending + 1
  /\ UNCHANGED <<main, mainVars, scanVars, openq, sched, planError, resq, outputVars,
                 sigVars, history>>

(* There is room for the record, and the plan goes on with its probes.     *)
SendRecord ==
  /\ sending > 0 /\ output = "run" /\ resq < ResCap
  /\ sending' = sending - 1 /\ plans' = plans + 1
  /\ resq' = resq + 1 /\ emitted' = emitted + 1
  /\ UNCHANGED <<main, mainVars, scanVars, openq, sched, planError, outputVars, sigVars,
                 found, planned>>

(* The output is gone: the plan ends with the error of its send.           *)
SendFails ==
  /\ sending > 0 /\ output = "err"
  /\ sending' = sending - 1 /\ planError' = TRUE
  /\ UNCHANGED <<main, mainVars, scanVars, openq, sched, plans, resq, outputVars, sigVars,
                 history>>

(* No probe is left, or one was confirmed.                                 *)
PlanEnds ==
  /\ plans > 0
  /\ plans' = plans - 1
  /\ UNCHANGED <<main, mainVars, scanVars, openq, sched, sending, planError, resq, outputVars,
                 sigVars, history>>

(* The JoinSet was dropped with the loop: its plans are cancelled one by   *)
(* one, each where it waits, and go on until then.                         *)
CancelPlan ==
  /\ sched \in {"err", "aborted"}
  /\ \/ plans > 0 /\ plans' = plans - 1 /\ sending' = sending
     \/ sending > 0 /\ sending' = sending - 1 /\ plans' = plans
  /\ UNCHANGED <<main, mainVars, scanVars, openq, sched, planError, resq, outputVars,
                 sigVars, history>>

ExecutionEnds == WantsToSend \/ PlanEnds
PlanStep      == SendRecord \/ SendFails \/ CancelPlan

-----------------------------------------------------------------------------
(* The output task.                                                        *)

(* write() flushes each record to the file.                                *)
WriteRecord ==
  /\ output = "run" /\ resq > 0
  /\ resq' = resq - 1 /\ written' = written + 1
  /\ UNCHANGED <<main, mainVars, scanVars, openq, schedVars, output, synced, sigVars, history>>

(* The ticker: flush and sync_data.                                        *)
SyncOutput ==
  /\ output = "run" /\ synced # written
  /\ synced' = written
  /\ UNCHANGED <<main, mainVars, scanVars, openq, schedVars, resq, output, written,
                 sigVars, history>>

(* The loop's sender is dropped before the join, a plan's with the plan.   *)
OutputOpen == sched \in {"recv", "report", "permit"} \/ ~Planless

(* Every result sender is gone and the channel is empty: writer.shutdown().*)
UnsyncedEnd ==
  /\ output = "run" /\ resq = 0 /\ ~OutputOpen
  /\ output' = "ok"
  /\ UNCHANGED <<main, mainVars, scanVars, openq, schedVars, resq, written, synced,
                 sigVars, history>>
EndOutput ==
  /\ output = "run" /\ resq = 0 /\ ~OutputOpen
  /\ output' = "ok" /\ synced' = written
  /\ UNCHANGED <<main, mainVars, scanVars, openq, schedVars, resq, written, sigVars, history>>

(* A write or a sync fails: the receiver is dropped with what it held.     *)
OutputFails ==
  /\ output = "run"
  /\ output' = "err" /\ resq' = 0 /\ shutdown' = TRUE
  /\ UNCHANGED <<main, mainVars, scanVars, openq, schedVars, written, synced, signals, history>>

OutputStep == WriteRecord \/ SyncOutput \/ EndOutput

(* Ctrl+C: the first requests a graceful stop, the second exits at once.   *)
Interrupt ==
  /\ signals < 2
  /\ signals' = signals + 1
  /\ shutdown' = TRUE
  /\ IF signals = 0
       THEN UNCHANGED <<main, code>>
       ELSE main' = "exit" /\ code' = "interrupted"
  /\ UNCHANGED <<mode, reports, left, error, scanVars, openq, schedVars, resq, outputVars, history>>

Next ==
  /\ main # "exit"
  /\ \/ MainStep
     \/ SenderStep \/ ReceiverStep \/ Receive \/ ScanFails \/ ReceiverFails
     \/ SchedulerStep \/ ExecutionEnds \/ PlanStep
     \/ OutputStep \/ OutputFails
     \/ Interrupt

Spec == Init /\ [][Next]_vars

(* Every task runs when it can, a plan that sends or was cancelled too,    *)
(* and the grace timer expires.  Nothing is assumed of peers: a packet     *)
(* need not be answered, and an execution need not end, for connects and   *)
(* reads have deadlines but send_all (transport.rs:160) has none: it waits *)
(* as long as the peer does not read.                                      *)
Running(A) == main # "exit" /\ A
FairSpec ==
  /\ Spec
  /\ WF_vars(Running(MainStep))
  /\ WF_vars(Running(SenderStep)) /\ WF_vars(Running(ReceiverStep))
  /\ WF_vars(Running(SchedulerStep)) /\ WF_vars(Running(PlanStep))
  /\ WF_vars(Running(OutputStep))

-----------------------------------------------------------------------------
(* Properties.                                                             *)

TypeOK ==
  /\ mode \in Modes /\ reports \in BOOLEAN
  /\ main \in {"produce", "scan", "wait", "grace", "output", "exit"}
  /\ left \in 0..Jobs
  /\ error \in {"none", "discovery", "scheduler", "output"}
  /\ code \in {"none", "ok", "failed", "interrupted"}
  /\ jobq \in 0..JobCap /\ air \in 0..Jobs
  /\ scan \in {"off", "run", "linger", "join", "ok", "err"}
  /\ receiver \in {"off", "on", "send", "ended", "failed"}
  /\ openq \in 0..OpenCap
  /\ sched \in {"recv", "report", "permit", "join", "ok", "err", "aborted"}
  /\ plans \in Nat /\ sending \in Nat /\ plans + sending <= Global
  /\ planError \in BOOLEAN
  /\ resq \in 0..ResCap
  /\ output \in {"run", "ok", "err"}
  /\ synced \in Nat /\ written \in Nat
  /\ shutdown \in BOOLEAN /\ signals \in 0..2
  /\ found \in Nat /\ planned \in Nat /\ emitted \in Nat

(* Unless it was interrupted twice or the output failed, the process exits *)
(* with every record that a plan sent in the file and made durable, also   *)
(* after Ctrl+C, a discovery error or an expired grace period.             *)
FlushedAtExit ==
  code \in {"ok", "failed"} /\ output # "err" =>
    written = emitted /\ synced = written

(* An error of discovery, of the scheduler or of the output is not lost in *)
(* the exits of the other tasks: the exit status is a failure.  It names   *)
(* the discovery whenever that failed, and otherwise the scheduler or the  *)
(* output, which fail together.                                            *)
FailureReported ==
  /\ code = "ok" => /\ output = "ok"
                    /\ sched # "err"
                    /\ mode = "full" => scan = "ok"
  /\ code = "failed" => IF scan = "err" THEN error = "discovery"
                        ELSE error \in {"scheduler", "output"} /\ output = "err"

(* An exit with status 0 and no request to stop has done the whole scan:   *)
(* every job sent, every open port given a plan, no plan cut short.        *)
WholeScan ==
  code = "ok" /\ ~shutdown =>
    /\ left = 0 /\ jobq = 0 /\ openq = 0 /\ Planless
    /\ planned = found /\ sched = "ok"

(* main.rs:217: in probe mode Ctrl+C, or an error, ends the process even   *)
(* when peers never answer: no execution need end.                         *)
ProbeModeStops == mode = "probe" /\ shutdown ~> main = "exit"

(* If executions end, every scan ends by itself: through full channels and *)
(* permits held by plans that wait for room, with a failed sender whose    *)
(* receiver thread stays, and with an output whose failure the loop learns *)
(* only from a send or a join.                                             *)
ScanEnds == WF_vars(Running(ExecutionEnds)) => <>(main = "exit")

(* main.rs:217, "so Ctrl+C cannot hang on a peer that never answers", of   *)
(* every mode.                                                             *)
ShutdownStops == shutdown ~> main = "exit"
=============================================================================
