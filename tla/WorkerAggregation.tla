-------------------------- MODULE WorkerAggregation --------------------------
(***************************************************************************)
(* multiprocess.rs: the parent of a multi-process scan, the worker         *)
(* processes, and the reader task each worker's stdout has in the parent.  *)
(*                                                                         *)
(* The lines of a worker are numbered 1, 2, ...; Torn is the piece of a    *)
(* line that a worker leaves when it dies while writing.  Reading a pipe   *)
(* does not fail, and a worker's death is seen at once by wait().          *)
(*                                                                         *)
(* Faulty variants used by no other definition: EndAtFirstEof,             *)
(* KeepLineSender, SendOrDrop, LastFailureOnly, LeaveChildren, NoKill.     *)
(***************************************************************************)
EXTENDS Integers, Sequences, FiniteSets

CONSTANTS
  Processes,        (* worker_count                                         *)
  Records,          (* lines a worker writes when nothing stops it          *)
  PipeCap, LineCap  (* capacity of a stdout pipe and of the line channel    *)

ASSUME AggregationAssumption ==
  /\ Processes \in Nat \ {0} /\ Records \in Nat
  /\ PipeCap \in Nat \ {0} /\ LineCap \in Nat \ {0}

Workers == 1..Processes
Torn    == 0
Line    == Workers \X (0..Records)

VARIABLES
  main,      (* run(): spawn, loop, sync, stop, wait, ended, failed, exit130 *)
  next,      (* the worker being spawned, or waited for                     *)
  stopping,  (* the local flag of run()                                     *)
  cut,       (* history: the deadline ended the loop                        *)
  failures,  (* workers whose failure is reported                           *)
  worker,    (* none, run, ok, failed (also killed by a signal)             *)
  told,      (* worker has seen Ctrl+C                                      *)
  wrote,     (* the lines a worker has written to its stdout                *)
  pipe,      (* what is in the stdout pipe                                  *)
  reader,    (* none, read, send, done, aborted                             *)
  held,      (* the line a reader is sending                                *)
  lines,     (* the line channel: <<worker, line>>                          *)
  file, synced,   (* the aggregate file, and how much of it is durable      *)
  asked, signals  (* the shutdown flag of the parent, Ctrl+C received       *)

mainVars   == <<main, next, stopping, cut, failures>>
workerVars == <<worker, told, wrote>>
readerVars == <<reader, held>>
fileVars   == <<file, synced>>
sigVars    == <<asked, signals>>
vars == <<mainVars, workerVars, pipe, readerVars, lines, fileVars, sigVars>>

Ended(w) == worker[w] \in {"ok", "failed"}

Init ==
  /\ main = "spawn" /\ next = 1 /\ stopping = FALSE /\ cut = FALSE /\ failures = {}
  /\ worker = [w \in Workers |-> "none"] /\ told = [w \in Workers |-> FALSE]
  /\ wrote = [w \in Workers |-> <<>>] /\ pipe = [w \in Workers |-> <<>>]
  /\ reader = [w \in Workers |-> "none"] /\ held = [w \in Workers |-> Torn]
  /\ lines = <<>> /\ file = <<>> /\ synced = 0
  /\ asked = FALSE /\ signals = 0

-----------------------------------------------------------------------------
(* run().                                                                  *)

Spawn ==
  /\ main = "spawn" /\ next \in Workers
  /\ worker' = [worker EXCEPT ![next] = "run"]
  /\ reader' = [reader EXCEPT ![next] = "read"]
  /\ next' = next + 1
  /\ main' = IF next = Processes THEN "loop" ELSE "spawn"
  /\ UNCHANGED <<stopping, cut, failures, told, wrote, pipe, held, lines, fileVars, sigVars>>

WriteLine ==
  /\ main = "loop" /\ lines # <<>>
  /\ file' = Append(file, Head(lines))
  /\ lines' = Tail(lines)
  /\ UNCHANGED <<mainVars, workerVars, pipe, readerVars, synced, sigVars>>

SyncFile ==
  /\ main = "loop" /\ synced # Len(file)
  /\ synced' = Len(file)
  /\ UNCHANGED <<mainVars, workerVars, pipe, readerVars, lines, file, sigVars>>

(* Every sender is dropped when its reader ends, and the parent's own one  *)
(* before the loop.                                                        *)
EndAtFirstEof ==
  /\ main = "loop" /\ lines = <<>> /\ \E w \in Workers : reader[w] = "done"
  /\ main' = "sync"
  /\ UNCHANGED <<next, stopping, cut, failures, workerVars, pipe, readerVars, lines,
                 fileVars, sigVars>>
KeepLineSender ==
  /\ main = "loop" /\ FALSE
  /\ main' = "sync"
  /\ UNCHANGED <<next, stopping, cut, failures, workerVars, pipe, readerVars, lines,
                 fileVars, sigVars>>
LinesEnd ==
  /\ main = "loop" /\ lines = <<>> /\ \A w \in Workers : reader[w] = "done"
  /\ main' = "sync"
  /\ UNCHANGED <<next, stopping, cut, failures, workerVars, pipe, readerVars, lines,
                 fileVars, sigVars>>

SeeShutdown ==
  /\ main = "loop" /\ asked /\ ~stopping
  /\ stopping' = TRUE
  /\ UNCHANGED <<main, next, cut, failures, workerVars, pipe, readerVars, lines,
                 fileVars, sigVars>>

(* The deadline ends the loop, whatever is still queued.                   *)
DeadlineExpires ==
  /\ main = "loop" /\ stopping
  /\ main' = "sync" /\ cut' = TRUE
  /\ UNCHANGED <<next, stopping, failures, workerVars, pipe, readerVars, lines,
                 fileVars, sigVars>>

FinalSync ==
  /\ main = "sync"
  /\ synced' = Len(file)
  /\ main' = "stop"
  /\ UNCHANGED <<next, stopping, cut, failures, workerVars, pipe, readerVars, lines,
                 file, sigVars>>

Killed == [w \in Workers |-> IF worker[w] = "run" THEN "failed" ELSE worker[w]]
Aborted == [w \in Workers |-> IF reader[w] \in {"read", "send"} THEN "aborted" ELSE reader[w]]

(* start_kill of every child when stopping, then readers.shutdown().       *)
NoKill ==
  /\ main = "stop"
  /\ worker' = worker /\ reader' = Aborted
  /\ main' = "wait" /\ next' = 1
  /\ UNCHANGED <<stopping, cut, failures, told, wrote, pipe, held, lines, fileVars, sigVars>>
StopChildren ==
  /\ main = "stop"
  /\ worker' = IF stopping THEN Killed ELSE worker
  /\ reader' = Aborted
  /\ main' = "wait" /\ next' = 1
  /\ UNCHANGED <<stopping, cut, failures, told, wrote, pipe, held, lines, fileVars, sigVars>>

(* child.wait() in order; after the last the result of run() is decided.   *)
LastFailureOnly ==
  /\ main = "wait" /\ Ended(next)
  /\ failures' = IF worker[next] = "failed" /\ ~stopping THEN {next} ELSE {}
  /\ next' = next + 1
  /\ main' = IF next = Processes THEN "ended" ELSE "wait"
  /\ UNCHANGED <<stopping, cut, workerVars, pipe, readerVars, lines, fileVars, sigVars>>
WaitForChild ==
  /\ main = "wait" /\ Ended(next)
  /\ failures' = failures \cup {w \in {next} : worker[w] = "failed" /\ ~stopping}
  /\ next' = next + 1
  /\ main' = IF next = Processes THEN "ended" ELSE "wait"
  /\ UNCHANGED <<stopping, cut, workerVars, pipe, readerVars, lines, fileVars, sigVars>>

ParentStep ==
  \/ Spawn \/ WriteLine \/ LinesEnd \/ SeeShutdown \/ DeadlineExpires
  \/ FinalSync \/ StopChildren \/ WaitForChild

(* A spawn, a write or a sync fails: run() returns the error, dropping the *)
(* children (kill_on_drop) and the readers.                                *)
LeaveChildren ==
  /\ main \in {"spawn", "loop", "sync"}
  /\ main' = "failed" /\ lines' = <<>>
  /\ worker' = worker /\ reader' = Aborted
  /\ UNCHANGED <<next, stopping, cut, failures, told, wrote, pipe, held, fileVars, sigVars>>
ParentFails ==
  /\ main \in {"spawn", "loop", "sync"}
  /\ main' = "failed" /\ lines' = <<>>
  /\ worker' = Killed /\ reader' = Aborted
  /\ UNCHANGED <<next, stopping, cut, failures, told, wrote, pipe, held, fileVars, sigVars>>

-----------------------------------------------------------------------------
(* The workers, external to this module: processes that write lines.       *)

Emit(w) ==
  /\ worker[w] = "run" /\ Len(wrote[w]) < Records
  /\ reader[w] # "aborted" /\ Len(pipe[w]) < PipeCap
  /\ wrote' = [wrote EXCEPT ![w] = Append(@, Len(@) + 1)]
  /\ pipe'  = [pipe EXCEPT ![w] = Append(@, Len(wrote[w]) + 1)]
  /\ UNCHANGED <<mainVars, worker, told, readerVars, lines, fileVars, sigVars>>

Exit(w) ==
  /\ worker[w] = "run" /\ (Len(wrote[w]) = Records \/ told[w])
  /\ worker' = [worker EXCEPT ![w] = "ok"]
  /\ UNCHANGED <<mainVars, told, wrote, pipe, readerVars, lines, fileVars, sigVars>>

(* It dies, maybe in the middle of a line, maybe of its closed stdout.     *)
Crash(w) ==
  /\ worker[w] = "run"
  /\ worker' = [worker EXCEPT ![w] = "failed"]
  /\ \/ UNCHANGED <<wrote, pipe>>
     \/ /\ Len(wrote[w]) < Records /\ Len(pipe[w]) < PipeCap
        /\ wrote' = [wrote EXCEPT ![w] = Append(@, Torn)]
        /\ pipe'  = [pipe EXCEPT ![w] = Append(@, Torn)]
  /\ UNCHANGED <<mainVars, told, readerVars, lines, fileVars, sigVars>>

-----------------------------------------------------------------------------
(* The reader tasks.                                                       *)

ReadLine(w) ==
  /\ reader[w] = "read" /\ pipe[w] # <<>>
  /\ held' = [held EXCEPT ![w] = Head(pipe[w])]
  /\ pipe' = [pipe EXCEPT ![w] = Tail(@)]
  /\ reader' = [reader EXCEPT ![w] = "send"]
  /\ UNCHANGED <<mainVars, workerVars, lines, fileVars, sigVars>>

ReadEof(w) ==
  /\ reader[w] = "read" /\ pipe[w] = <<>> /\ Ended(w)
  /\ reader' = [reader EXCEPT ![w] = "done"]
  /\ UNCHANGED <<mainVars, workerVars, pipe, held, lines, fileVars, sigVars>>

SendOrDrop(w) ==
  /\ reader[w] = "send"
  /\ lines' = IF Len(lines) < LineCap THEN Append(lines, <<w, held[w]>>) ELSE lines
  /\ reader' = [reader EXCEPT ![w] = "read"]
  /\ UNCHANGED <<mainVars, workerVars, pipe, held, fileVars, sigVars>>
SendLine(w) ==
  /\ reader[w] = "send" /\ Len(lines) < LineCap
  /\ lines' = Append(lines, <<w, held[w]>>)
  /\ reader' = [reader EXCEPT ![w] = "read"]
  /\ UNCHANGED <<mainVars, workerVars, pipe, held, fileVars, sigVars>>

ReaderStep(w) == ReadLine(w) \/ ReadEof(w) \/ SendLine(w)

(* Ctrl+C at the terminal reaches the running workers too; a signal sent   *)
(* to the parent alone does not.  The second one ends the parent at once.  *)
Interrupt ==
  /\ signals < 2 /\ signals' = signals + 1
  /\ asked' = TRUE
  /\ \/ told' = told
     \/ told' = [w \in Workers |-> told[w] \/ worker[w] = "run"]
  /\ main' = IF signals = 0 THEN main ELSE "exit130"
  /\ UNCHANGED <<next, stopping, cut, failures, worker, wrote, pipe, readerVars, lines, fileVars>>

Returned == main \in {"ended", "failed", "exit130"}

Next ==
  /\ ~Returned
  /\ \/ ParentStep \/ SyncFile \/ ParentFails \/ Interrupt
     \/ \E w \in Workers : Emit(w) \/ Exit(w) \/ Crash(w) \/ ReaderStep(w)

(* The parent and its readers run and the deadline comes.  A ready branch  *)
(* of the select is taken in the end, for it is picked at random.          *)
Live(A) == ~Returned /\ A
Spec ==
  /\ Init /\ [][Next]_vars
  /\ WF_vars(Live(ParentStep)) /\ WF_vars(Live(SeeShutdown)) /\ WF_vars(Live(DeadlineExpires))
  /\ \A w \in Workers : WF_vars(Live(ReaderStep(w)))

-----------------------------------------------------------------------------
(* Properties.                                                             *)

MainTypes ==
  /\ main \in {"spawn", "loop", "sync", "stop", "wait", "ended", "failed", "exit130"}
  /\ next \in 1..(Processes + 1) /\ failures \subseteq Workers
  /\ stopping \in BOOLEAN /\ cut \in BOOLEAN
  /\ asked \in BOOLEAN /\ signals \in 0..2

WorkerTypes ==
  /\ worker \in [Workers -> {"none", "run", "ok", "failed"}] /\ told \in [Workers -> BOOLEAN]
  /\ wrote \in [Workers -> Seq(0..Records)] /\ \A w \in Workers : Len(wrote[w]) <= Records
  /\ pipe \in [Workers -> Seq(0..Records)] /\ \A w \in Workers : Len(pipe[w]) <= PipeCap

ReaderTypes ==
  /\ reader \in [Workers -> {"none", "read", "send", "done", "aborted"}]
  /\ held \in [Workers -> 0..Records]

FileTypes ==
  /\ lines \in Seq(Line) /\ Len(lines) <= LineCap
  /\ file \in Seq(Line) /\ synced \in 0..Len(file)

TypeOK == MainTypes /\ WorkerTypes /\ ReaderTypes /\ FileTypes

(* The lines of w among the first i of a sequence of lines.                *)
Own(s, w, i) == {j \in 1..i : s[j][1] = w}

(* A line has the place among those of its worker that it had there.       *)
InPlace(s, i) ==
  LET w == s[i][1]
      place == Cardinality(Own(s, w, i))
  IN place <= Len(wrote[w]) /\ s[i][2] = wrote[w][place]

(* At every moment, also after a kill, a deadline or an error, the file    *)
(* has the first lines of each worker: none skipped, doubled or swapped.   *)
FileIsPrefix == \A i \in 1..Len(file) : InPlace(file, i)

(* When the run returns and the deadline did not end the loop, everything  *)
(* the workers wrote is in the file and durable, also after a crash of a   *)
(* worker, and also when they stopped early at Ctrl+C.                     *)
Complete ==
  main = "ended" /\ ~cut =>
    /\ \A w \in Workers : Cardinality(Own(file, w, Len(file))) = Len(wrote[w])
    /\ synced = Len(file)

(* A run that nobody stopped and that reports no failure had no failing    *)
(* worker, and so no torn line that was closed with a newline.             *)
FailureReported ==
  main = "ended" /\ ~stopping /\ failures = {} =>
    /\ \A w \in Workers : worker[w] = "ok"
    /\ \A i \in 1..Len(file) : file[i][2] # Torn

(* No worker outlives a run that returned, by kill or by wait.             *)
NoWorkerLeft ==
  main \in {"ended", "failed"} => \A w \in Workers : worker[w] # "run"

(* multiprocess.rs:101: after Ctrl+C the parent returns, whatever workers  *)
(* do: nothing is assumed of them.                                         *)
ShutdownReturns == asked ~> Returned

(* When every worker comes to its end, so does the parent, whatever its    *)
(* lines and the capacities.                                               *)
ParentReturns == []<>(\E w \in Workers : worker[w] \in {"none", "run"}) \/ <>Returned
=============================================================================
