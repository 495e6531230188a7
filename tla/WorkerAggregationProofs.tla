----------------------- MODULE WorkerAggregationProofs -----------------------
(***************************************************************************)
(* Theorems about WorkerAggregation, for any number of workers and lines   *)
(* and any capacities.                                                     *)
(***************************************************************************)
EXTENDS WorkerAggregation, FiniteSetTheorems, SequenceTheorems, TLAPS

-----------------------------------------------------------------------------
(* Types, with what keeps `next' a worker while it counts them.            *)

NextWorker == main \in {"spawn", "wait"} => next \in Workers

TypeInv == TypeOK /\ NextWorker

LEMMA TypeInit == Init => TypeInv
<1> SUFFICES ASSUME Init PROVE TypeInv
  OBVIOUS
<1> USE AggregationAssumption DEF Init, Workers
<1>1. MainTypes /\ NextWorker
  <2>1. stopping \in BOOLEAN /\ cut \in BOOLEAN /\ asked \in BOOLEAN
    BY Zenon
  <2>2. QED
    BY <2>1 DEF MainTypes, NextWorker
<1>2. WorkerTypes
  <2>1. told \in [Workers -> BOOLEAN]
    BY Zenon
  <2>2. QED
    BY <2>1, EmptySeq DEF WorkerTypes
<1>3. ReaderTypes
  BY DEF ReaderTypes, Torn
<1>4. FileTypes
  BY EmptySeq DEF FileTypes
<1>5. QED
  BY <1>1, <1>2, <1>3, <1>4 DEF TypeInv, TypeOK

LEMMA MainTypesStep == TypeInv /\ [Next]_vars => MainTypes' /\ NextWorker'
<1> SUFFICES ASSUME TypeInv, [Next]_vars PROVE MainTypes' /\ NextWorker'
  OBVIOUS
<1> USE AggregationAssumption DEF TypeInv, TypeOK, MainTypes, NextWorker, Workers, mainVars, sigVars
<1>1. CASE Spawn
  BY <1>1 DEF Spawn
<1>2. CASE LinesEnd \/ DeadlineExpires \/ FinalSync \/ StopChildren \/ ParentFails
  <2>1. UNCHANGED <<stopping, asked, signals, failures>> /\ main' \in {"sync", "stop", "wait", "failed"}
        /\ next' \in {1, next} /\ (main' = "wait" => next' = 1)
    BY <1>2 DEF LinesEnd, DeadlineExpires, FinalSync, StopChildren, ParentFails
  <2>2. cut' \in BOOLEAN
    BY <1>2 DEF LinesEnd, DeadlineExpires, FinalSync, StopChildren, ParentFails
  <2>3. QED
    BY <2>1, <2>2
<1>3. CASE SeeShutdown
  <2>1. stopping' \in BOOLEAN
    BY <1>3, Zenon DEF SeeShutdown
  <2>2. UNCHANGED <<main, next, cut, failures, asked, signals>>
    BY <1>3 DEF SeeShutdown
  <2>3. QED
    BY <2>1, <2>2
<1>4. CASE WaitForChild
  <2>1. failures' \subseteq Workers
    BY <1>4 DEF WaitForChild
  <2>2. /\ next \in Workers /\ next' = next + 1 /\ main' = IF next = Processes THEN "ended" ELSE "wait"
        /\ UNCHANGED <<stopping, cut, asked, signals>>
    BY <1>4 DEF WaitForChild
  <2>3. QED
    BY <2>1, <2>2
<1>5. CASE Interrupt
  <2>1. asked' \in BOOLEAN
    BY <1>5, Zenon DEF Interrupt
  <2>2. QED
    BY <1>5, <2>1 DEF Interrupt
<1>6. CASE UNCHANGED <<mainVars, sigVars>>
  BY <1>6
<1>7. \/ Spawn \/ LinesEnd \/ DeadlineExpires \/ FinalSync \/ StopChildren \/ ParentFails
      \/ SeeShutdown \/ WaitForChild \/ Interrupt \/ UNCHANGED <<mainVars, sigVars>>
  BY DEF Next, ParentStep, ReaderStep, WriteLine, SyncFile, Emit, Exit, Crash, ReadLine, ReadEof,
         SendLine, vars
<1>8. QED
  BY <1>1, <1>2, <1>3, <1>4, <1>5, <1>6, <1>7

LEMMA WorkerTypesStep == TypeInv /\ [Next]_vars => WorkerTypes'
<1> SUFFICES ASSUME TypeInv, [Next]_vars PROVE WorkerTypes'
  OBVIOUS
<1> USE AggregationAssumption DEF TypeInv, TypeOK, WorkerTypes, workerVars
<1>1. CASE Spawn
  BY <1>1 DEF Spawn
<1>2. CASE StopChildren \/ ParentFails
  BY <1>2 DEF StopChildren, ParentFails, Killed
<1>3. CASE Interrupt
  BY <1>3 DEF Interrupt
<1>4. ASSUME NEW w \in Workers, Emit(w)
      PROVE  WorkerTypes'
  <2>1. Len(wrote[w]) + 1 \in 0..Records
    BY <1>4 DEF Emit
  <2>2. QED
    BY <1>4, <2>1, AppendProperties DEF Emit
<1>5. ASSUME NEW w \in Workers, Exit(w) \/ Crash(w)
      PROVE  WorkerTypes'
  <2>1. worker' \in [Workers -> {"none", "run", "ok", "failed"}] /\ told' = told
    BY <1>5 DEF Exit, Crash
  <2>2. CASE UNCHANGED <<wrote, pipe>>
    BY <2>1, <2>2
  <2>3. CASE /\ Len(wrote[w]) < Records /\ Len(pipe[w]) < PipeCap
             /\ wrote' = [wrote EXCEPT ![w] = Append(@, Torn)]
             /\ pipe'  = [pipe EXCEPT ![w] = Append(@, Torn)]
    <3>1. Torn \in 0..Records
      BY DEF Torn
    <3>2. QED
      BY <2>1, <2>3, <3>1, AppendProperties
  <2>4. QED
    BY <1>5, <2>2, <2>3 DEF Exit, Crash
<1>6. ASSUME NEW w \in Workers, ReadLine(w)
      PROVE  WorkerTypes'
  <2>1. Tail(pipe[w]) \in Seq(0..Records) /\ Len(Tail(pipe[w])) = Len(pipe[w]) - 1
    BY <1>6, HeadTailProperties DEF ReadLine
  <2>2. QED
    BY <1>6, <2>1 DEF ReadLine
<1>7. CASE UNCHANGED <<workerVars, pipe>>
  BY <1>7
<1>8. \/ Spawn \/ StopChildren \/ ParentFails \/ Interrupt \/ UNCHANGED <<workerVars, pipe>>
      \/ \E w \in Workers : Emit(w) \/ Exit(w) \/ Crash(w) \/ ReadLine(w)
  BY DEF Next, ParentStep, ReaderStep, WriteLine, SyncFile, LinesEnd, SeeShutdown, DeadlineExpires,
         FinalSync, WaitForChild, ReadEof, SendLine, vars
<1>9. QED
  BY <1>1, <1>2, <1>3, <1>4, <1>5, <1>6, <1>7, <1>8

LEMMA ReaderTypesStep == TypeInv /\ [Next]_vars => ReaderTypes'
<1> SUFFICES ASSUME TypeInv, [Next]_vars PROVE ReaderTypes'
  OBVIOUS
<1> USE DEF TypeInv, TypeOK, ReaderTypes, readerVars
<1>1. CASE Spawn
  BY <1>1 DEF Spawn
<1>2. CASE StopChildren \/ ParentFails
  BY <1>2 DEF StopChildren, ParentFails, Aborted
<1>3. ASSUME NEW w \in Workers, ReadLine(w)
      PROVE  ReaderTypes'
  <2>1. Head(pipe[w]) \in 0..Records
    BY <1>3, HeadTailProperties DEF ReadLine, WorkerTypes
  <2>2. QED
    BY <1>3, <2>1 DEF ReadLine
<1>4. ASSUME NEW w \in Workers, ReadEof(w) \/ SendLine(w)
      PROVE  ReaderTypes'
  BY <1>4 DEF ReadEof, SendLine
<1>5. CASE UNCHANGED readerVars
  BY <1>5
<1>6. \/ Spawn \/ StopChildren \/ ParentFails \/ UNCHANGED readerVars
      \/ \E w \in Workers : ReadLine(w) \/ ReadEof(w) \/ SendLine(w)
  BY DEF Next, ParentStep, ReaderStep, WriteLine, SyncFile, LinesEnd, SeeShutdown, DeadlineExpires,
         FinalSync, WaitForChild, Interrupt, Emit, Exit, Crash, vars
<1>7. QED
  BY <1>1, <1>2, <1>3, <1>4, <1>5, <1>6

LEMMA FileTypesStep == TypeInv /\ [Next]_vars => FileTypes'
<1> SUFFICES ASSUME TypeInv, [Next]_vars PROVE FileTypes'
  OBVIOUS
<1> USE AggregationAssumption DEF TypeInv, TypeOK, FileTypes, fileVars
<1>1. CASE WriteLine
  <2>1. /\ Head(lines) \in Line /\ Tail(lines) \in Seq(Line)
        /\ Len(Tail(lines)) = Len(lines) - 1
    BY <1>1, HeadTailProperties DEF WriteLine
  <2>2. QED
    BY <1>1, <2>1, AppendProperties DEF WriteLine
<1>2. CASE FinalSync \/ SyncFile
  BY <1>2 DEF FinalSync, SyncFile
<1>3. CASE ParentFails
  BY <1>3, EmptySeq DEF ParentFails
<1>4. ASSUME NEW w \in Workers, SendLine(w)
      PROVE  FileTypes'
  <2>1. <<w, held[w]>> \in Line
    BY DEF Line, ReaderTypes
  <2>2. QED
    BY <1>4, <2>1, AppendProperties DEF SendLine
<1>5. CASE UNCHANGED <<lines, fileVars>>
  BY <1>5
<1>6. \/ WriteLine \/ FinalSync \/ SyncFile \/ ParentFails \/ UNCHANGED <<lines, fileVars>>
      \/ \E w \in Workers : SendLine(w)
  BY DEF Next, ParentStep, ReaderStep, Spawn, LinesEnd, SeeShutdown, DeadlineExpires, StopChildren,
         WaitForChild, Interrupt, Emit, Exit, Crash, ReadLine, ReadEof, vars
<1>7. QED
  BY <1>1, <1>2, <1>3, <1>4, <1>5, <1>6

LEMMA TypeStep == TypeInv /\ [Next]_vars => TypeInv'
BY MainTypesStep, WorkerTypesStep, ReaderTypesStep, FileTypesStep DEF TypeInv, TypeOK

(* Every variable keeps its type: no pipe and no channel is overfull.      *)
THEOREM TypeCorrect == Spec => []TypeOK
<1>1. TypeInv => TypeOK
  BY DEF TypeInv
<1>2. QED
  BY <1>1, TypeInit, TypeStep, PTL DEF Spec

-----------------------------------------------------------------------------
(* Who has ended.  A worker that was waited for stays ended, and every     *)
(* failure met on the way is remembered.                                   *)

NotStarted == main = "spawn" => \A w \in Workers : w >= next => worker[w] = "none" /\ reader[w] = "none"

AllEnded == \A w \in Workers : Ended(w)
Remembered(w) == Ended(w) /\ (worker[w] = "failed" /\ ~stopping => w \in failures)
Waited ==
  /\ main = "wait" => \A w \in Workers : w < next => Remembered(w)
  /\ main = "ended" => \A w \in Workers : Remembered(w)
  /\ main = "failed" => \A w \in Workers : worker[w] # "run"

EndInv == NotStarted /\ Waited

LEMMA EndInit == Init => EndInv
BY DEF Init, EndInv, NotStarted, Waited

LEMMA EndStep == TypeInv /\ EndInv /\ ~Returned /\ Next => EndInv'
<1> SUFFICES ASSUME TypeInv, EndInv, ~Returned, Next PROVE EndInv'
  OBVIOUS
<1> USE DEF EndInv, NotStarted, Waited, Remembered, Ended, Returned
<1>1. next \in Int /\ Workers \subseteq Int /\ (main \in {"spawn", "wait"} => next \in Workers)
      /\ Workers = 1..Processes /\ Processes \in Nat
      /\ worker \in [Workers -> {"none", "run", "ok", "failed"}]
      /\ reader \in [Workers -> {"none", "read", "send", "done", "aborted"}]
  BY SMTT(30), AggregationAssumption DEF TypeInv, TypeOK, MainTypes, WorkerTypes, ReaderTypes, NextWorker, Workers
<1>2. CASE Spawn
  BY <1>1, <1>2 DEF Spawn
<1>3. CASE main' \in {"loop", "sync", "stop", "exit130"}
  BY <1>3
<1>4. CASE StopChildren
  BY <1>1, <1>4 DEF StopChildren
<1>5. CASE WaitForChild
  <2>1. next \in Workers /\ \A w \in Workers : w < next => Remembered(w)
    BY <1>1, <1>5 DEF WaitForChild
  <2>2. /\ UNCHANGED <<worker, stopping>> /\ Ended(next)
        /\ failures' = failures \cup {w \in {next} : worker[w] = "failed" /\ ~stopping}
    BY <1>5 DEF WaitForChild, workerVars
  <2>3. \A w \in Workers : Remembered(w) \/ w = next => Remembered(w)'
    <3>1. ASSUME NEW w \in Workers, Remembered(w) \/ w = next PROVE Remembered(w)'
      BY <2>2, <3>1, Zenon
    <3>2. QED
      BY <3>1
  <2>4. \A w \in Workers : w <= next => Remembered(w)'
    BY <1>1, <2>1, <2>3
  <2>5. next' = next + 1 /\ main' = IF next = Processes THEN "ended" ELSE "wait"
    BY <1>5 DEF WaitForChild
  <2>6. QED
    BY <1>1, <2>4, <2>5
<1>6. CASE ParentFails
  <2>1. \A w \in Workers : worker'[w] # "run"
    BY <1>1, <1>6 DEF ParentFails, Killed
  <2>2. QED
    BY <1>6, <2>1 DEF ParentFails
<1>7. CASE Interrupt
  BY <1>7 DEF Interrupt, readerVars
<1>8. ASSUME NEW w \in Workers, Emit(w) \/ Exit(w) \/ Crash(w) \/ ReaderStep(w)
      PROVE  EndInv'
  <2>1. UNCHANGED mainVars
    BY <1>8 DEF Emit, Exit, Crash, ReaderStep, ReadLine, ReadEof, SendLine
  <2>2. /\ \A v \in Workers : worker[v] \in {"none", "ok", "failed"} => worker'[v] = worker[v]
        /\ \A v \in Workers : reader[v] = "none" => reader'[v] = "none"
    BY <1>1, <1>8 DEF Emit, Exit, Crash, ReaderStep, ReadLine, ReadEof, SendLine, workerVars, readerVars
  <2>3. main # "failed" /\ main # "ended"
    OBVIOUS
  <2>4. QED
    BY <2>1, <2>2, <2>3 DEF mainVars
<1>9. CASE WriteLine \/ LinesEnd \/ SeeShutdown \/ DeadlineExpires \/ FinalSync \/ SyncFile
  <2>1. main' \in {"loop", "sync", "stop"}
        \/ (main = "sync" /\ main' = "stop")
    BY <1>9 DEF WriteLine, LinesEnd, SeeShutdown, DeadlineExpires, FinalSync, SyncFile, mainVars
  <2>2. QED
    BY <1>3, <2>1
<1>10. QED
  BY <1>2, <1>4, <1>5, <1>6, <1>7, <1>8, <1>9 DEF Next, ParentStep

(* No run returns, with a result or an error, while a worker still runs.   *)
THEOREM NoWorkerLeftCorrect == Spec => []NoWorkerLeft
<1>1. TypeInv /\ EndInv => NoWorkerLeft
  BY DEF EndInv, Waited, Remembered, Ended, NoWorkerLeft
<1>2. TypeInv /\ EndInv /\ [Next]_vars => EndInv'
  <2>1. CASE UNCHANGED vars
    BY <2>1 DEF vars, mainVars, workerVars, readerVars, EndInv, NotStarted, Waited, Remembered, Ended
  <2>2. CASE Next
    BY <2>2, EndStep DEF Next
  <2>3. QED
    BY <2>1, <2>2
<1>3. QED
  BY <1>1, <1>2, TypeInit, TypeStep, EndInit, PTL DEF Spec

-----------------------------------------------------------------------------
(* Counting the lines of a worker.                                         *)

One(b) == IF b THEN 1 ELSE 0

LEMMA OwnCounts ==
  ASSUME NEW s \in Seq(Line), NEW w, NEW i \in 0..Len(s)
  PROVE  IsFiniteSet(Own(s, w, i)) /\ Cardinality(Own(s, w, i)) \in Nat
<1>1. IsFiniteSet(1..i)
  BY FS_Interval
<1>2. Own(s, w, i) \in SUBSET (1..i)
  BY DEF Own
<1>3. QED
  BY <1>1, <1>2, FS_Subset, FS_CardinalityType

(* The place of a line is not before the first.                            *)
LEMMA PlacePositive ==
  ASSUME NEW s \in Seq(Line), NEW i \in 1..Len(s)
  PROVE  Cardinality(Own(s, s[i][1], i)) \in Nat \ {0}
<1>1. i \in Own(s, s[i][1], i)
  BY DEF Own
<1>2. IsFiniteSet(Own(s, s[i][1], i)) /\ Cardinality(Own(s, s[i][1], i)) \in Nat
  BY OwnCounts
<1>3. QED
  BY <1>1, <1>2, FS_EmptySet

(* What follows in a sequence does not change what is counted before.      *)
LEMMA OwnOfPrefix ==
  ASSUME NEW s \in Seq(Line), NEW t \in Seq(Line), Len(s) <= Len(t),
         \A j \in 1..Len(s) : t[j] = s[j], NEW w, NEW i \in 0..Len(s)
  PROVE  Own(t, w, i) = Own(s, w, i)
<1>1. \A j \in 1..i : t[j] = s[j]
  OBVIOUS
<1>2. QED
  BY <1>1 DEF Own

LEMMA OwnAppended ==
  ASSUME NEW s \in Seq(Line), NEW e \in Line, NEW w
  PROVE  Cardinality(Own(Append(s, e), w, Len(s) + 1)) =
           Cardinality(Own(s, w, Len(s))) + One(e[1] = w)
<1> DEFINE t == Append(s, e)
           n == Len(s)
<1>1. n \in Nat /\ t[n + 1] = e /\ \A j \in 1..n : t[j] = s[j]
  BY AppendProperties
<1>2. n + 1 \notin Own(s, w, n) /\ IsFiniteSet(Own(s, w, n)) /\ Cardinality(Own(s, w, n)) \in Nat
  <2>1. Len(s) \in 0..Len(s)
    BY <1>1
  <2>2. n + 1 \notin Own(s, w, n)
    BY <1>1 DEF Own
  <2>3. IsFiniteSet(Own(s, w, n)) /\ Cardinality(Own(s, w, n)) \in Nat
    BY <2>1, OwnCounts
  <2>4. QED
    BY <2>2, <2>3
<1>3. CASE e[1] = w
  <2>1. Own(t, w, n + 1) = Own(s, w, n) \cup {n + 1}
    BY <1>1, <1>3 DEF Own
  <2>2. QED
    BY <1>2, <1>3, <2>1, FS_AddElement DEF One
<1>4. CASE e[1] # w
  <2>1. Own(t, w, n + 1) = Own(s, w, n)
    BY <1>1, <1>4 DEF Own
  <2>2. QED
    BY <1>2, <1>4, <2>1 DEF One
<1>5. QED
  BY <1>3, <1>4

-----------------------------------------------------------------------------
(* The way of the lines.  Stream is what has passed the readers: the file, *)
(* then the line channel.  Each line of it has the place it had in what    *)
(* its worker wrote; and what is beyond is in the hand of the reader, then *)
(* in the pipe.  A parent that failed dropped the channel.                 *)

Stream == file \o lines

StreamInPlace == \A i \in 1..Len(Stream) : InPlace(Stream, i)

Passed(w) == Cardinality(Own(Stream, w, Len(Stream)))
Taken(w) == Passed(w) + One(reader[w] = "send")

InPipe(w) ==
  /\ Len(wrote[w]) = Taken(w) + Len(pipe[w])
  /\ \A k \in 1..Len(pipe[w]) : pipe[w][k] = wrote[w][Taken(w) + k]
  /\ reader[w] = "send" => held[w] = wrote[w][Taken(w)]
BeyondStream == main # "failed" => \A w \in Workers : reader[w] # "aborted" => InPipe(w)

ReaderEnded == \A w \in Workers : reader[w] = "done" => Ended(w) /\ pipe[w] = <<>>

TornFailed ==
  \A w \in Workers : \A k \in 1..Len(wrote[w]) : wrote[w][k] = Torn => worker[w] = "failed"

StreamInv == StreamInPlace /\ BeyondStream /\ ReaderEnded /\ TornFailed

LEMMA StreamType == TypeInv => Stream \in Seq(Line) /\ Len(Stream) = Len(file) + Len(lines)
                               /\ \A i \in 1..Len(file) : Stream[i] = file[i]
BY ConcatProperties DEF TypeInv, TypeOK, FileTypes, Stream

LEMMA PassedType == ASSUME TypeInv, NEW w \in Workers PROVE Passed(w) \in Nat /\ Taken(w) \in Nat
<1>1. Passed(w) \in Nat
  BY StreamType, OwnCounts DEF Passed
<1>2. QED
  BY <1>1 DEF Taken, One

LEMMA StreamInit == Init => StreamInv
<1> SUFFICES ASSUME Init PROVE StreamInv
  OBVIOUS
<1>1. TypeInv
  BY TypeInit
<1>2. file = <<>> /\ lines = <<>> /\ Len(Stream) = 0
  BY <1>1, StreamType, EmptySeq DEF Init
<1>3. StreamInPlace
  BY <1>2 DEF StreamInPlace
<1>4. ASSUME NEW w \in Workers PROVE Taken(w) = 0
  <2>1. Own(Stream, w, 0) = {}
    BY DEF Own
  <2>2. Passed(w) = 0
    BY <1>2, <2>1, FS_EmptySet DEF Passed
  <2>3. reader[w] = "none"
    BY DEF Init
  <2>4. QED
    BY <2>2, <2>3 DEF Taken, One
<1>5. \A w \in Workers : wrote[w] = <<>> /\ pipe[w] = <<>> /\ reader[w] = "none"
  BY DEF Init
<1>6. BeyondStream /\ ReaderEnded /\ TornFailed
  BY <1>4, <1>5, EmptySeq DEF BeyondStream, InPipe, ReaderEnded, TornFailed
<1>7. QED
  BY <1>3, <1>6 DEF StreamInv

(* A step that leaves the stream and only adds to what workers wrote.      *)
LEMMA InPlaceKept ==
  ASSUME TypeInv, StreamInPlace, Stream' = Stream,
         \A w \in Workers : /\ Len(wrote'[w]) \in Nat /\ Len(wrote[w]) <= Len(wrote'[w])
                            /\ \A k \in 1..Len(wrote[w]) : wrote'[w][k] = wrote[w][k]
  PROVE  StreamInPlace'
<1> SUFFICES ASSUME NEW i \in 1..Len(Stream) PROVE InPlace(Stream, i)'
  BY DEF StreamInPlace
<1>1. Stream \in Seq(Line) /\ Stream[i] \in Line
  BY StreamType
<1> DEFINE w == Stream[i][1]
           place == Cardinality(Own(Stream, w, i))
<1>2. w \in Workers /\ place \in Nat \ {0}
  BY <1>1, PlacePositive DEF Line
<1>3. place <= Len(wrote[w]) /\ Stream[i][2] = wrote[w][place]
  BY DEF StreamInPlace, InPlace
<1>4. Len(wrote[w]) \in Nat
  BY <1>2 DEF TypeInv, TypeOK, WorkerTypes
<1>5. place <= Len(wrote'[w]) /\ Stream[i][2] = wrote'[w][place]
  BY <1>2, <1>3, <1>4
<1>6. Own(Stream', Stream'[i][1], i) = Own(Stream, w, i)
  OBVIOUS
<1>7. QED
  BY <1>5, <1>6 DEF InPlace

LEMMA WriteLineStream == TypeInv /\ WriteLine => Stream' = Stream
<1> SUFFICES ASSUME TypeInv, WriteLine PROVE Stream' = Stream
  OBVIOUS
<1>1. /\ file \in Seq(Line) /\ lines \in Seq(Line) /\ lines # <<>>
      /\ file' = Append(file, Head(lines)) /\ lines' = Tail(lines)
  BY DEF TypeInv, TypeOK, FileTypes, WriteLine
<1>2. /\ Head(lines) \in Line /\ Head(lines) = lines[1]
      /\ lines' \in Seq(Line) /\ Len(lines') = Len(lines) - 1
      /\ \A i \in 1..(Len(lines) - 1) : lines'[i] = lines[i + 1]
  BY <1>1, HeadTailProperties
<1>3. /\ file' \in Seq(Line) /\ Len(file') = Len(file) + 1
      /\ file'[Len(file) + 1] = lines[1] /\ \A i \in 1..Len(file) : file'[i] = file[i]
  BY <1>1, <1>2, AppendProperties
<1>4. /\ Stream \in Seq(Line) /\ Stream' \in Seq(Line)
      /\ Len(Stream) = Len(file) + Len(lines) /\ Len(Stream') = Len(file') + Len(lines')
      /\ \A i \in 1..Len(Stream) :
           Stream[i] = IF i <= Len(file) THEN file[i] ELSE lines[i - Len(file)]
      /\ \A i \in 1..Len(Stream') :
           Stream'[i] = IF i <= Len(file') THEN file'[i] ELSE lines'[i - Len(file')]
  BY <1>1, <1>2, <1>3, ConcatProperties DEF Stream
<1>5. Len(Stream') = Len(Stream) /\ Len(file) \in Nat /\ Len(lines) \in Nat \ {0}
  BY <1>1, <1>2, <1>3, <1>4, EmptySeq
<1>6. ASSUME NEW i \in 1..Len(Stream) PROVE Stream'[i] = Stream[i]
  <2>1. CASE i <= Len(file)
    BY <1>3, <1>4, <1>5, <2>1
  <2>2. CASE i = Len(file) + 1
    BY <1>3, <1>4, <1>5, <2>2
  <2>3. CASE i > Len(file) + 1
    <3>1. i - (Len(file) + 1) \in 1..(Len(lines) - 1)
      BY <1>4, <1>5, <2>3
    <3>2. Stream'[i] = lines'[i - (Len(file) + 1)]
      BY <1>3, <1>4, <1>5, <2>3
    <3>3. Stream[i] = lines[i - Len(file)]
      BY <1>4, <1>5, <2>3
    <3>4. QED
      BY <1>2, <1>5, <3>1, <3>2, <3>3
  <2>4. QED
    BY <1>5, <2>1, <2>2, <2>3
<1>7. QED
  BY <1>4, <1>5, <1>6, SeqEqual

LEMMA SendLineStream ==
  ASSUME TypeInv, NEW w \in Workers, SendLine(w)
  PROVE  <<w, held[w]>> \in Line /\ Stream' = Append(Stream, <<w, held[w]>>)
<1>1. <<w, held[w]>> \in Line
  BY DEF Line, TypeInv, TypeOK, ReaderTypes
<1>2. /\ file \in Seq(Line) /\ lines \in Seq(Line) /\ file' = file
      /\ lines' = Append(lines, <<w, held[w]>>)
  BY DEF TypeInv, TypeOK, FileTypes, SendLine, fileVars
<1>3. file \o Append(lines, <<w, held[w]>>) = Append(file \o lines, <<w, held[w]>>)
  <2> DEFINE e == <<w, held[w]>>
  <2>1. e \in Line
    BY <1>1
  <2> HIDE DEF e
  <2>2. Append(lines, e) = lines \o <<e>> /\ Append(file \o lines, e) = (file \o lines) \o <<e>>
    BY <1>2, <2>1, AppendIsConcat, ConcatProperties
  <2>3. <<e>> \in Seq(Line)
    BY <2>1
  <2>4. (file \o lines) \o <<e>> = file \o (lines \o <<e>>)
    BY <1>2, <2>3, ConcatAssociative
  <2>5. QED
    BY <2>2, <2>4 DEF e
<1>4. QED
  BY <1>1, <1>2, <1>3 DEF Stream

LEMMA SendLineStep ==
  ASSUME TypeInv, StreamInv, ~Returned, NEW w \in Workers, SendLine(w)
  PROVE  StreamInv'
<1> DEFINE e == <<w, held[w]>>
           n == Len(Stream)
<1>1. Stream \in Seq(Line) /\ n \in Nat /\ e \in Line /\ Stream' = Append(Stream, e)
  BY StreamType, SendLineStream
<1>2. /\ Len(Stream') = n + 1 /\ Stream'[n + 1] = e /\ Stream' \in Seq(Line)
      /\ \A i \in 1..n : Stream'[i] = Stream[i]
  BY <1>1, AppendProperties
<1>3. /\ UNCHANGED <<main, wrote, pipe, held, worker>> /\ reader[w] = "send"
      /\ reader' = [reader EXCEPT ![w] = "read"] /\ reader \in [Workers -> {"none", "read", "send", "done", "aborted"}]
  BY DEF SendLine, mainVars, workerVars, TypeInv, TypeOK, ReaderTypes
<1>4. \A v \in Workers : Passed(v)' = Passed(v) + One(w = v)
  BY <1>1, <1>2, OwnAppended DEF Passed
<1>5. \A v \in Workers : Taken(v)' = Taken(v)
  BY <1>3, <1>4, PassedType DEF Taken, One
<1>6. /\ Taken(w) = Passed(w) + 1 /\ Taken(w) \in Nat
      /\ Taken(w) <= Len(wrote[w]) /\ held[w] = wrote[w][Taken(w)]
  <2>1. InPipe(w) /\ Len(pipe[w]) \in Nat
    BY <1>3 DEF StreamInv, BeyondStream, Returned, TypeInv, TypeOK, WorkerTypes
  <2>2. Taken(w) = Passed(w) + 1 /\ Taken(w) \in Nat
    BY <1>3, PassedType DEF Taken, One
  <2>3. QED
    BY <1>3, <2>1, <2>2 DEF InPipe
<1>7. StreamInPlace'
  <2>1. ASSUME NEW i \in 1..n PROVE InPlace(Stream, i)'
    <3>1. Stream'[i] = Stream[i] /\ Own(Stream', Stream[i][1], i) = Own(Stream, Stream[i][1], i)
      <4>1. Len(Stream) <= Len(Stream') /\ i \in 0..Len(Stream)
        BY <1>1, <1>2
      <4>2. QED
        BY <1>1, <1>2, <4>1, OwnOfPrefix
    <3>2. InPlace(Stream, i)
      BY DEF StreamInv, StreamInPlace
    <3>3. QED
      BY <1>3, <3>1, <3>2 DEF InPlace
  <2>2. ASSUME NEW i, i = n + 1 PROVE InPlace(Stream, i)'
    <3>1. Stream'[i][1] = w /\ Stream'[i][2] = held[w]
      BY <1>2, <2>2
    <3>2. Cardinality(Own(Stream', w, i)) = Taken(w)
      BY <1>1, <1>2, <1>4, <1>6, <2>2 DEF Passed, One
    <3>3. QED
      BY <1>3, <1>6, <3>1, <3>2 DEF InPlace
  <2>3. ASSUME NEW i \in 1..Len(Stream') PROVE InPlace(Stream, i)'
    <3>1. i \in 1..n \/ i = n + 1
      BY <1>1, <1>2
    <3>2. QED
      BY <2>1, <2>2, <3>1
  <2>4. QED
    BY <2>3 DEF StreamInPlace
<1>8. BeyondStream'
  BY <1>3, <1>5 DEF StreamInv, BeyondStream, InPipe
<1>9. (ReaderEnded /\ TornFailed)'
  BY <1>3 DEF StreamInv, ReaderEnded, TornFailed, Ended
<1>10. QED
  BY <1>7, <1>8, <1>9 DEF StreamInv

LEMMA ReadLineStep ==
  ASSUME TypeInv, StreamInv, ~Returned, NEW w \in Workers, ReadLine(w)
  PROVE  StreamInv'
<1>1. /\ UNCHANGED <<main, wrote, worker, file, lines>> /\ reader[w] = "read"
      /\ reader' = [reader EXCEPT ![w] = "send"] /\ pipe' = [pipe EXCEPT ![w] = Tail(@)]
      /\ held' = [held EXCEPT ![w] = Head(pipe[w])]
      /\ reader \in [Workers -> {"none", "read", "send", "done", "aborted"}]
      /\ pipe \in [Workers -> Seq(0..Records)] /\ held \in [Workers -> 0..Records]
  BY DEF ReadLine, mainVars, workerVars, fileVars, TypeInv, TypeOK, ReaderTypes, WorkerTypes
<1>2. /\ Len(pipe[w]) \in Nat \ {0} /\ Len(pipe'[w]) = Len(pipe[w]) - 1
      /\ held'[w] = pipe[w][1] /\ \A k \in 1..(Len(pipe[w]) - 1) : pipe'[w][k] = pipe[w][k + 1]
  BY <1>1, EmptySeq, HeadTailProperties DEF ReadLine
<1>3. Stream' = Stream /\ \A v \in Workers : Passed(v)' = Passed(v)
  BY <1>1 DEF Stream, Passed
<1>4. StreamInPlace'
  BY <1>1, <1>3 DEF StreamInv, StreamInPlace, InPlace
<1>5. Taken(w)' = Taken(w) + 1 /\ Taken(w) \in Nat /\ \A v \in Workers \ {w} : Taken(v)' = Taken(v)
  BY <1>1, <1>3, PassedType DEF Taken, One
<1>6. BeyondStream'
  <2>1. InPipe(w)
    BY <1>1 DEF StreamInv, BeyondStream, Returned
  <2>2. InPipe(w)'
    <3>1. Len(wrote'[w]) = Taken(w)' + Len(pipe'[w])
      BY <1>1, <1>2, <1>5, <2>1 DEF InPipe
    <3>2. ASSUME NEW k \in 1..Len(pipe'[w]) PROVE pipe'[w][k] = wrote'[w][Taken(w)' + k]
      <4>1. k + 1 \in 1..Len(pipe[w]) /\ pipe'[w][k] = pipe[w][k + 1]
        BY <1>2
      <4>2. pipe[w][k + 1] = wrote[w][Taken(w) + (k + 1)]
        BY <2>1, <4>1 DEF InPipe
      <4>3. Taken(w) + (k + 1) = Taken(w)' + k
        BY <1>2, <1>5
      <4>4. QED
        BY <1>1, <4>1, <4>2, <4>3
    <3>3. held'[w] = wrote'[w][Taken(w)']
      <4>1. pipe[w][1] = wrote[w][Taken(w) + 1]
        BY <1>2, <2>1 DEF InPipe
      <4>2. QED
        BY <1>1, <1>2, <1>5, <4>1
    <3>4. QED
      BY <3>1, <3>2, <3>3 DEF InPipe
  <2>3. ASSUME NEW v \in Workers, v # w, InPipe(v) PROVE InPipe(v)'
    BY <1>1, <1>5, <2>3 DEF InPipe
  <2>4. ASSUME NEW v \in Workers, main # "failed", reader'[v] # "aborted" PROVE InPipe(v)'
    BY <1>1, <2>2, <2>3, <2>4 DEF StreamInv, BeyondStream
  <2>5. QED
    BY <1>1, <2>4 DEF BeyondStream
<1>7. (ReaderEnded /\ TornFailed)'
  BY <1>1 DEF StreamInv, ReaderEnded, TornFailed, Ended
<1>8. QED
  BY <1>4, <1>6, <1>7 DEF StreamInv

(* Emit(w), and a crash in the middle of a line.                           *)
LEMMA WriteStep ==
  ASSUME TypeInv, StreamInv, NEW w \in Workers, NEW x \in 0..Records,
         worker[w] = "run", Len(wrote[w]) < Records,
         wrote' = [wrote EXCEPT ![w] = Append(@, x)], pipe' = [pipe EXCEPT ![w] = Append(@, x)],
         UNCHANGED <<main, reader, held, file, lines>>
  PROVE  (StreamInPlace /\ BeyondStream)'
<1>1. wrote \in [Workers -> Seq(0..Records)] /\ pipe \in [Workers -> Seq(0..Records)]
  BY DEF TypeInv, TypeOK, WorkerTypes
<1>2. /\ Len(wrote[w]) \in Nat /\ Len(wrote'[w]) = Len(wrote[w]) + 1
      /\ wrote'[w][Len(wrote[w]) + 1] = x
      /\ \A k \in 1..Len(wrote[w]) : wrote'[w][k] = wrote[w][k]
  BY <1>1, AppendProperties
<1>3. /\ Len(pipe[w]) \in Nat /\ Len(pipe'[w]) = Len(pipe[w]) + 1
      /\ pipe'[w][Len(pipe[w]) + 1] = x
      /\ \A k \in 1..Len(pipe[w]) : pipe'[w][k] = pipe[w][k]
  BY <1>1, AppendProperties
<1>4. \A v \in Workers \ {w} : wrote'[v] = wrote[v] /\ pipe'[v] = pipe[v]
  BY <1>1
<1>5. Stream' = Stream /\ \A v \in Workers : Taken(v)' = Taken(v) /\ Taken(v) \in Nat
  BY PassedType DEF Stream, Taken, Passed
<1>6. StreamInPlace'
  <2>1. \A v \in Workers : /\ Len(wrote'[v]) \in Nat /\ Len(wrote[v]) <= Len(wrote'[v])
                           /\ \A k \in 1..Len(wrote[v]) : wrote'[v][k] = wrote[v][k]
    BY <1>1, <1>2, <1>4
  <2>2. QED
    BY <1>5, <2>1, InPlaceKept DEF StreamInv
<1>7. BeyondStream'
  <2>1. ASSUME NEW v \in Workers, v # w, InPipe(v) PROVE InPipe(v)'
    BY <1>4, <1>5, <2>1 DEF InPipe
  <2>2. ASSUME InPipe(w) PROVE InPipe(w)'
    <3>1. Taken(w) \in Nat /\ Taken(w)' = Taken(w) /\ Len(wrote[w]) = Taken(w) + Len(pipe[w])
      BY <1>5, <2>2 DEF InPipe
    <3>2. Len(wrote'[w]) = Taken(w)' + Len(pipe'[w])
      BY <1>2, <1>3, <3>1
    <3>3. ASSUME NEW k \in 1..Len(pipe'[w]) PROVE pipe'[w][k] = wrote'[w][Taken(w)' + k]
      <4>1. CASE k = Len(pipe[w]) + 1
        <5>1. Taken(w) + k = Len(wrote[w]) + 1
          BY <1>3, <3>1, <4>1
        <5>2. QED
          BY <1>2, <1>3, <3>1, <4>1, <5>1
      <4>2. CASE k \in 1..Len(pipe[w])
        <5>1. Taken(w) + k \in 1..Len(wrote[w]) /\ pipe[w][k] = wrote[w][Taken(w) + k]
          BY <1>3, <2>2, <3>1, <4>2 DEF InPipe
        <5>2. QED
          BY <1>2, <1>3, <3>1, <4>2, <5>1
      <4>3. k = Len(pipe[w]) + 1 \/ k \in 1..Len(pipe[w])
        BY <1>3
      <4>4. QED
        BY <4>1, <4>2, <4>3
    <3>4. ASSUME reader[w] = "send" PROVE held[w] = wrote'[w][Taken(w)]
      <4>1. Taken(w) = Passed(w) + 1 /\ Passed(w) \in Nat
        BY <3>4, PassedType DEF Taken, One
      <4>2. Taken(w) \in 1..Len(wrote[w]) /\ held[w] = wrote[w][Taken(w)]
        BY <1>3, <2>2, <3>1, <3>4, <4>1 DEF InPipe
      <4>3. QED
        BY <1>2, <4>2
    <3>5. QED
      BY <3>1, <3>2, <3>3, <3>4 DEF InPipe
  <2>3. ASSUME NEW v \in Workers, main # "failed", reader'[v] # "aborted" PROVE InPipe(v)'
    BY <2>1, <2>2, <2>3 DEF StreamInv, BeyondStream
  <2>4. QED
    BY <2>3 DEF BeyondStream
<1>8. QED
  BY <1>6, <1>7

(* Nothing moves; readers may stop, start or end.                          *)
LEMMA QuietStep ==
  ASSUME TypeInv, StreamInPlace, BeyondStream, main' = "failed" \/ main # "failed",
         UNCHANGED <<wrote, pipe, held>>, Stream' = Stream,
         \A w \in Workers : reader'[w] # "aborted" =>
           reader[w] # "aborted" /\ (reader'[w] = "send" <=> reader[w] = "send")
  PROVE  (StreamInPlace /\ BeyondStream)'
<1>1. StreamInPlace'
  BY DEF StreamInPlace, InPlace
<1>2. ASSUME NEW w \in Workers, main' # "failed", reader'[w] # "aborted" PROVE InPipe(w)'
  <2>1. InPipe(w) /\ Taken(w)' = Taken(w) /\ (reader'[w] = "send" <=> reader[w] = "send")
    BY <1>2 DEF BeyondStream, Taken, Passed, One
  <2>2. QED
    BY <2>1 DEF InPipe
<1>3. QED
  BY <1>1, <1>2 DEF BeyondStream

LEMMA StreamStep == TypeInv /\ EndInv /\ StreamInv /\ ~Returned /\ Next => StreamInv'
<1> SUFFICES ASSUME TypeInv, EndInv, StreamInv, ~Returned, Next PROVE StreamInv'
  OBVIOUS
<1>1. /\ main # "failed"
      /\ worker \in [Workers -> {"none", "run", "ok", "failed"}]
      /\ reader \in [Workers -> {"none", "read", "send", "done", "aborted"}]
      /\ wrote \in [Workers -> Seq(0..Records)] /\ pipe \in [Workers -> Seq(0..Records)]
  BY DEF Returned, TypeInv, TypeOK, WorkerTypes, ReaderTypes
<1>2. CASE Spawn
  <2>1. /\ next \in Workers /\ worker[next] = "none" /\ reader[next] = "none"
        /\ worker' = [worker EXCEPT ![next] = "run"] /\ reader' = [reader EXCEPT ![next] = "read"]
        /\ UNCHANGED <<wrote, pipe, held, file, lines>>
    <3>1. next \in Workers /\ main = "spawn" /\ next >= next
      BY <1>2 DEF Spawn, Workers
    <3>2. QED
      BY <1>2, <3>1 DEF Spawn, EndInv, NotStarted, fileVars
  <2>2. (StreamInPlace /\ BeyondStream)'
    BY <1>1, <2>1, QuietStep DEF StreamInv, Stream
  <2>3. (ReaderEnded /\ TornFailed)'
    BY <1>1, <2>1 DEF StreamInv, ReaderEnded, TornFailed, Ended
  <2>4. QED
    BY <2>2, <2>3 DEF StreamInv
<1>3. CASE WriteLine
  <2>1. UNCHANGED <<main, worker, wrote, pipe, held, reader>>
    BY <1>3 DEF WriteLine, mainVars, workerVars, readerVars
  <2>2. (StreamInPlace /\ BeyondStream)'
    BY <1>1, <1>3, <2>1, WriteLineStream, QuietStep DEF StreamInv
  <2>3. QED
    BY <2>1, <2>2 DEF StreamInv, ReaderEnded, TornFailed, Ended
<1>4. CASE LinesEnd \/ SeeShutdown \/ DeadlineExpires \/ FinalSync \/ WaitForChild \/ SyncFile \/ Interrupt
  <2>1. UNCHANGED <<worker, wrote, pipe, held, reader, file, lines>>
    BY <1>4 DEF LinesEnd, SeeShutdown, DeadlineExpires, FinalSync, WaitForChild, SyncFile, Interrupt,
                workerVars, readerVars, fileVars
  <2>2. (StreamInPlace /\ BeyondStream)'
    BY <1>1, <2>1, QuietStep DEF StreamInv, Stream
  <2>3. QED
    BY <2>1, <2>2 DEF StreamInv, ReaderEnded, TornFailed, Ended
<1>5. ASSUME worker' \in {worker, Killed}, reader' = Aborted, UNCHANGED <<wrote, pipe>>
      PROVE  (ReaderEnded /\ TornFailed)'
  <2>1. \A w \in Workers : /\ worker[w] \in {"ok", "failed"} => worker'[w] = worker[w]
                           /\ reader'[w] = "done" => reader[w] = "done"
    BY <1>1, <1>5 DEF Killed, Aborted
  <2>2. QED
    BY <1>5, <2>1 DEF StreamInv, ReaderEnded, TornFailed, Ended
<1>6. CASE StopChildren
  <2>1. /\ worker' \in {worker, Killed} /\ reader' = Aborted
        /\ UNCHANGED <<wrote, pipe, held, file, lines>>
    BY <1>6, Zenon DEF StopChildren, fileVars
  <2>2. \A w \in Workers : reader'[w] # "aborted" =>
          reader[w] # "aborted" /\ (reader'[w] = "send" <=> reader[w] = "send")
    BY <1>1, <2>1 DEF Aborted
  <2>3. (StreamInPlace /\ BeyondStream)'
    BY <1>1, <2>1, <2>2, QuietStep DEF StreamInv, Stream
  <2>4. QED
    BY <1>5, <2>1, <2>3 DEF StreamInv
<1>7. CASE ParentFails
  <2>1. /\ main' = "failed" /\ worker' = Killed /\ reader' = Aborted /\ lines' = <<>>
        /\ UNCHANGED <<wrote, pipe, held, file>>
    BY <1>7 DEF ParentFails, fileVars
  <2>2. file \in Seq(Line) /\ Stream' = file /\ Stream \in Seq(Line)
        /\ Len(file) \in Nat /\ Len(Stream) = Len(file) + Len(lines) /\ Len(lines) \in Nat
        /\ \A i \in 1..Len(file) : Stream[i] = file[i]
    BY <2>1, StreamType, ConcatEmptySeq DEF Stream, TypeInv, TypeOK, FileTypes
  <2>3. ASSUME NEW i \in 1..Len(file) PROVE InPlace(Stream, i)'
    <3>1. Own(Stream, file[i][1], i) = Own(file, file[i][1], i)
      BY <2>2, OwnOfPrefix
    <3>2. Stream[i] = file[i] /\ InPlace(Stream, i)
      BY <2>2 DEF StreamInv, StreamInPlace
    <3>3. QED
      BY <2>1, <2>2, <3>1, <3>2 DEF InPlace
  <2>4. (StreamInPlace /\ BeyondStream)'
    BY <2>1, <2>2, <2>3 DEF StreamInPlace, BeyondStream
  <2>5. QED
    BY <1>5, <2>1, <2>4 DEF StreamInv
<1>8. ASSUME NEW w \in Workers, Emit(w) PROVE StreamInv'
  <2>1. /\ Len(wrote[w]) < Records /\ worker[w] = "run" /\ Len(wrote[w]) \in Nat /\ Records \in Nat
        /\ UNCHANGED <<main, worker, reader, held, file, lines>>
    BY <1>1, <1>8, AggregationAssumption DEF Emit, mainVars, readerVars, fileVars
  <2>2. DEFINE x == Len(wrote[w]) + 1
  <2>3. /\ x \in 0..Records /\ x # Torn
        /\ wrote' = [wrote EXCEPT ![w] = Append(@, x)] /\ pipe' = [pipe EXCEPT ![w] = Append(@, x)]
    BY <1>8, <2>1 DEF Emit, Torn
  <2> HIDE DEF x
  <2>4. (StreamInPlace /\ BeyondStream)'
    BY <2>1, <2>3, WriteStep
  <2>5. ReaderEnded'
    BY <1>1, <2>1, <2>3 DEF StreamInv, ReaderEnded, Ended
  <2>6. TornFailed'
    <3>1. /\ Len(wrote'[w]) = Len(wrote[w]) + 1 /\ wrote'[w][Len(wrote[w]) + 1] = x
          /\ \A k \in 1..Len(wrote[w]) : wrote'[w][k] = wrote[w][k]
      BY <1>1, <2>3, AppendProperties
    <3>2. \A k \in 1..Len(wrote'[w]) : wrote'[w][k] = Torn => worker[w] = "failed"
      BY <2>1, <2>3, <3>1 DEF StreamInv, TornFailed
    <3>3. \A v \in Workers \ {w} : wrote'[v] = wrote[v]
      BY <1>1, <2>3
    <3>4. QED
      BY <2>1, <3>2, <3>3 DEF StreamInv, TornFailed
  <2>7. QED
    BY <2>4, <2>5, <2>6 DEF StreamInv
<1>9. ASSUME NEW w \in Workers, Exit(w) \/ Crash(w) PROVE StreamInv'
  <2>1. /\ worker[w] = "run" /\ \E end \in {"ok", "failed"} : worker' = [worker EXCEPT ![w] = end]
        /\ UNCHANGED <<main, reader, held, file, lines>>
    BY <1>9 DEF Exit, Crash, mainVars, readerVars, fileVars
  <2>2. CASE UNCHANGED <<wrote, pipe>>
    <3>1. (StreamInPlace /\ BeyondStream)'
      BY <1>1, <2>1, <2>2, QuietStep DEF StreamInv, Stream
    <3>2. (ReaderEnded /\ TornFailed)'
      BY <1>1, <1>9, <2>1, <2>2 DEF StreamInv, ReaderEnded, TornFailed, Ended, Exit, Crash
    <3>3. QED
      BY <3>1, <3>2 DEF StreamInv
  <2>3. CASE /\ Len(wrote[w]) < Records /\ worker' = [worker EXCEPT ![w] = "failed"]
             /\ wrote' = [wrote EXCEPT ![w] = Append(@, Torn)]
             /\ pipe'  = [pipe EXCEPT ![w] = Append(@, Torn)]
    <3>1. worker[w] = "run" /\ UNCHANGED <<main, reader, held, file, lines>> /\ Torn \in 0..Records
      BY <1>9, AggregationAssumption DEF Exit, Crash, mainVars, readerVars, fileVars, Torn
    <3>2. (StreamInPlace /\ BeyondStream)'
      BY <2>3, <3>1, WriteStep
    <3>3. ReaderEnded'
      BY <1>1, <2>3, <3>1 DEF StreamInv, ReaderEnded, Ended
    <3>4. TornFailed'
      BY <1>1, <2>3 DEF StreamInv, TornFailed
    <3>5. QED
      BY <3>2, <3>3, <3>4 DEF StreamInv
  <2>4. QED
    BY <1>9, <2>2, <2>3 DEF Exit, Crash, workerVars
<1>10. ASSUME NEW w \in Workers, ReadEof(w) PROVE StreamInv'
  <2>1. /\ reader[w] = "read" /\ pipe[w] = <<>> /\ Ended(w) /\ reader' = [reader EXCEPT ![w] = "done"]
        /\ UNCHANGED <<main, worker, wrote, pipe, held, file, lines>>
    BY <1>10 DEF ReadEof, mainVars, workerVars, fileVars
  <2>2. (StreamInPlace /\ BeyondStream)'
    BY <1>1, <2>1, QuietStep DEF StreamInv, Stream
  <2>3. (ReaderEnded /\ TornFailed)'
    BY <1>1, <2>1 DEF StreamInv, ReaderEnded, TornFailed, Ended
  <2>4. QED
    BY <2>2, <2>3 DEF StreamInv
<1>11. QED
  BY <1>2, <1>3, <1>4, <1>6, <1>7, <1>8, <1>9, <1>10, ReadLineStep, SendLineStep
     DEF Next, ParentStep, ReaderStep

-----------------------------------------------------------------------------
(* The end of the run.                                                     *)

Over == main \in {"sync", "stop", "wait", "ended"}
AllRead == Over /\ ~cut => lines = <<>> /\ \A w \in Workers : reader[w] = "done"
Durable == main \in {"stop", "wait", "ended"} => synced = Len(file)

OverInv == AllRead /\ Durable

LEMMA OverStep == TypeInv /\ OverInv /\ ~Returned /\ Next => OverInv'
<1> SUFFICES ASSUME TypeInv, OverInv, ~Returned, Next PROVE OverInv'
  OBVIOUS
<1> USE DEF OverInv, AllRead, Durable, Over, Returned
<1>1. reader \in [Workers -> {"none", "read", "send", "done", "aborted"}]
  BY DEF TypeInv, TypeOK, ReaderTypes
<1>2. CASE main' \in {"spawn", "loop", "failed", "exit130"}
  BY <1>2
<1>3. CASE LinesEnd \/ DeadlineExpires
  <2>1. main' = "sync" /\ (cut' \/ ((\A w \in Workers : reader[w] = "done") /\ lines = <<>>))
        /\ UNCHANGED <<lines, reader>>
    BY <1>3, Zenon DEF LinesEnd, DeadlineExpires, readerVars
  <2>2. QED
    BY <2>1
<1>4. CASE FinalSync
  BY <1>4 DEF FinalSync, readerVars
<1>5. CASE StopChildren
  BY <1>1, <1>5 DEF StopChildren, Aborted, fileVars
<1>6. CASE WaitForChild
  BY <1>6 DEF WaitForChild, readerVars, fileVars
<1>7. CASE Interrupt
  BY <1>7 DEF Interrupt, readerVars, fileVars
<1>8. CASE Spawn \/ WriteLine \/ SyncFile \/ SeeShutdown \/ ParentFails
  <2>1. main' \in {"spawn", "loop", "failed"}
    BY <1>8 DEF Spawn, WriteLine, SyncFile, SeeShutdown, ParentFails, mainVars
  <2>2. QED
    BY <1>2, <2>1
<1>9. ASSUME NEW w \in Workers, Emit(w) \/ Exit(w) \/ Crash(w)
      PROVE  OverInv'
  BY <1>9 DEF Emit, Exit, Crash, mainVars, readerVars, fileVars
<1>10. ASSUME NEW w \in Workers, ReaderStep(w)
       PROVE  OverInv'
  <2>1. reader[w] # "done" /\ UNCHANGED <<main, cut, file, synced>>
    BY <1>10 DEF ReaderStep, ReadLine, ReadEof, SendLine, mainVars, fileVars
  <2>2. QED
    BY <2>1
<1>11. QED
  BY <1>3, <1>4, <1>5, <1>6, <1>7, <1>8, <1>9, <1>10 DEF Next, ParentStep

Inv == TypeInv /\ EndInv /\ StreamInv /\ OverInv

LEMMA InvHolds == Spec => []Inv
<1>1. Init => Inv
  <2>1. Init => OverInv
    BY DEF Init, OverInv, AllRead, Durable, Over
  <2>2. QED
    BY <2>1, TypeInit, EndInit, StreamInit DEF Inv
<1>2. Inv /\ [Next]_vars => Inv'
  <2>1. CASE UNCHANGED vars
    BY <2>1 DEF vars, mainVars, workerVars, readerVars, fileVars, sigVars, Inv,
       TypeInv, TypeOK, MainTypes, WorkerTypes, ReaderTypes, FileTypes, NextWorker,
       EndInv, NotStarted, Waited, Remembered, Ended,
       StreamInv, StreamInPlace, InPlace, BeyondStream, InPipe, Taken, Passed, Stream, ReaderEnded, TornFailed,
       OverInv, AllRead, Durable, Over
  <2>2. CASE Next
    BY <2>2, TypeStep, EndStep, StreamStep, OverStep DEF Inv, Next
  <2>3. QED
    BY <2>1, <2>2
<1>3. QED
  BY <1>1, <1>2, PTL DEF Spec

(* At every moment the file holds the first lines of each worker, in their *)
(* order and at their places.                                              *)
THEOREM FileIsPrefixCorrect == Spec => []FileIsPrefix
<1>1. ASSUME Inv, NEW i \in 1..Len(file) PROVE InPlace(file, i)
  <2>1. file \in Seq(Line) /\ Stream \in Seq(Line) /\ Len(file) \in Nat /\ Len(Stream) \in Nat
        /\ Len(file) <= Len(Stream) /\ \A j \in 1..Len(file) : Stream[j] = file[j]
    BY <1>1, StreamType DEF Inv, TypeInv, TypeOK, FileTypes
  <2>2. Own(Stream, file[i][1], i) = Own(file, file[i][1], i)
    BY <2>1, OwnOfPrefix
  <2>3. Stream[i] = file[i] /\ InPlace(Stream, i)
    BY <1>1, <2>1 DEF Inv, StreamInv, StreamInPlace
  <2>4. QED
    BY <2>2, <2>3 DEF InPlace
<1>2. Inv => FileIsPrefix
  BY <1>1 DEF FileIsPrefix
<1>3. QED
  BY <1>2, InvHolds, PTL

(* A run that the deadline did not cut has every line, durable.            *)
THEOREM CompleteCorrect == Spec => []Complete
<1>1. ASSUME Inv, main = "ended", ~cut PROVE Complete
  <2>1. lines = <<>> /\ (\A w \in Workers : reader[w] = "done") /\ synced = Len(file)
    BY <1>1 DEF Inv, OverInv, AllRead, Durable, Over
  <2>2. Stream = file
    BY <1>1, <2>1, ConcatEmptySeq DEF Stream, Inv, TypeInv, TypeOK, FileTypes
  <2>3. ASSUME NEW w \in Workers PROVE Cardinality(Own(file, w, Len(file))) = Len(wrote[w])
    <3>1. InPipe(w) /\ pipe[w] = <<>>
      BY <1>1, <2>1 DEF Inv, StreamInv, BeyondStream, ReaderEnded
    <3>2. Taken(w) = Passed(w) /\ Passed(w) \in Nat
      BY <1>1, <2>1, PassedType DEF Inv, Taken, One
    <3>3. Len(wrote[w]) = Passed(w)
      BY <3>1, <3>2, EmptySeq DEF InPipe
    <3>4. QED
      BY <2>2, <3>3 DEF Passed
  <2>4. QED
    BY <2>1, <2>3 DEF Complete
<1>2. Inv => Complete
  BY <1>1 DEF Complete
<1>3. QED
  BY <1>2, InvHolds, PTL

(* A run that nobody stopped and that reports no failure had none, and has *)
(* no torn line: a line is torn only by a worker that failed.              *)
THEOREM FailureCorrect == Spec => []FailureReported
<1>1. ASSUME Inv, main = "ended", ~stopping, failures = {} PROVE FailureReported
  <2>1. \A w \in Workers : worker[w] = "ok"
    BY <1>1 DEF Inv, EndInv, Waited, Remembered, Ended
  <2>2. ASSUME NEW i \in 1..Len(file) PROVE file[i][2] # Torn
    <3>1. file \in Seq(Line) /\ Stream \in Seq(Line) /\ Stream[i] = file[i] /\ i \in 1..Len(Stream)
      <4>1. Len(file) \in Nat /\ Len(lines) \in Nat
        BY <1>1 DEF Inv, TypeInv, TypeOK, FileTypes
      <4>2. QED
        BY <1>1, <4>1, StreamType DEF Inv, TypeInv, TypeOK, FileTypes
    <3>2. file[i][1] \in Workers /\ Cardinality(Own(Stream, file[i][1], i)) \in Nat \ {0}
      <4>1. Cardinality(Own(Stream, Stream[i][1], i)) \in Nat \ {0}
        BY <3>1, PlacePositive
      <4>2. file[i] \in Line
        BY <3>1
      <4>3. QED
        BY <3>1, <4>1, <4>2 DEF Line
    <3>3. PICK k \in 1..Len(wrote[file[i][1]]) : file[i][2] = wrote[file[i][1]][k]
      <4>1. Len(wrote[file[i][1]]) \in Nat
        BY <1>1, <3>2 DEF Inv, TypeInv, TypeOK, WorkerTypes
      <4>2. QED
        BY <1>1, <3>1, <3>2, <4>1 DEF Inv, StreamInv, StreamInPlace, InPlace
    <3>4. QED
      BY <1>1, <2>1, <3>2, <3>3 DEF Inv, StreamInv, TornFailed
  <2>3. QED
    BY <2>1, <2>2 DEF FailureReported
<1>2. Inv => FailureReported
  BY <1>1 DEF FailureReported
<1>3. QED
  BY <1>2, InvHolds, PTL
=============================================================================
