------------------------- MODULE ProbeProgramProofs -------------------------
(***************************************************************************)
(* Theorems about ProbeProgram, for every document, every timeout and      *)
(* every bound on sizes: what a verdict rests on, how long the reads of an *)
(* operation take, and that the sizes and names the compiler checked hold  *)
(* of the buffers and registers of the run.                                *)
(***************************************************************************)
EXTENDS ProbeProgram, SequenceTheorems, FiniteSetTheorems,
        WellFoundedInduction, TLAPS

-----------------------------------------------------------------------------
(* The steps of the program, as far as the verdict depends on them.        *)

Active == phase \in {"connect", "run", "read"}
Quiet  == UNCHANGED <<programVars, matched, override, verdicts>>

Stays == Active /\ Quiet /\ phase' \in {"run", "read"} /\ UNCHANGED <<pc, out>>
Moves ==
  /\ phase \in {"run", "read"} /\ pc <= Len(ops) /\ Op.step.op # "match"
  /\ Quiet /\ phase' = "run" /\ pc' = pc + 1 /\ UNCHANGED out
Fails ==
  /\ Active /\ Quiet /\ phase' = "done" /\ UNCHANGED pc
  /\ \E f : out' = [NoOut EXCEPT !.status = f]

ReadKinds == {"recv_exact", "recv_up_to", "recv_until", "recv_frame", "recv_http"}

(* The read under way belongs to the operation that runs.                  *)
Reading == phase = "read" => pc <= Len(ops) /\ Op.step.op \in ReadKinds

LEMMA ReadingInit == Init => Reading
BY DEF Init, Reading

LEMMA FailStep ==
  ASSUME Active, NEW f, Fail(f)
  PROVE  Fails
BY DEF Fail, Fails, Quiet, flags

LEMMA ReturnsStep ==
  ASSUME Reading, phase = "read", NEW n, Returns(n)
  PROVE  (Stays /\ phase' = "read") \/ Moves \/ Fails
<1>1. Active
  BY DEF Active
<1>2. pc <= Len(ops) /\ Op.step.op # "match"
  BY DEF Reading, ReadKinds
<1>3. ASSUME NEW b, NEW r, Store(b, r) PROVE Moves
  BY <1>2, <1>3 DEF Store, Continue, Moves, Quiet
<1>4. ASSUME NEW c, NEW before, Read(c, before) PROVE Stays /\ phase' = "read"
  BY <1>1, <1>4 DEF Read, Stays, Quiet, flags
<1>5. CASE FrameHeader
  BY <1>1, <1>4, <1>5, FailStep DEF FrameHeader
<1>6. CASE HttpHeader(n)
  BY <1>1, <1>3, <1>4, <1>6, FailStep DEF HttpHeader, StoreHttp
<1>7. CASE \E b, r : Store(b, r)
  BY <1>3, <1>7
<1>8. QED
  <2>1. Op.step.op \in ReadKinds
    BY DEF Reading
  <2>2. FrameHeader \/ HttpHeader(n) \/ \E b, r : Store(b, r)
    BY <2>1 DEF Returns, ReadKinds, StoreHttp
  <2>3. QED
    BY <2>2, <1>5, <1>6, <1>7

LEMMA ReadStep ==
  ASSUME Reading, phase = "read", Data \/ Tick \/ Deadline \/ PeerCloses \/ ReadError
  PROVE  (Stays /\ phase' = "read") \/ Moves \/ Fails
<1>1. Active
  BY DEF Active
<1>2. ASSUME NEW n, NEW time, Keep(n, time) PROVE Stays /\ phase' = "read"
  BY <1>1, <1>2 DEF Keep, Stays, Quiet, flags
<1>3. ASSUME StopUpTo PROVE (Stays /\ phase' = "read") \/ Moves \/ Fails
  BY <1>1, <1>3, ReturnsStep, FailStep DEF StopUpTo
<1>4. CASE Data
  BY <1>1, <1>2, <1>4, ReturnsStep, FailStep DEF Data
<1>5. CASE Tick
  BY <1>2, <1>5 DEF Tick
<1>6. CASE Deadline \/ PeerCloses
  BY <1>1, <1>3, <1>6, FailStep DEF Deadline, PeerCloses
<1>7. CASE ReadError
  BY <1>1, <1>7, FailStep DEF ReadError, FailIo
<1>8. QED
  BY <1>4, <1>5, <1>6, <1>7

LEMMA AdvanceStep ==
  ASSUME phase = "run", pc <= Len(ops), Op.step.op # "match", NEW b, NEW r, Advance(b, r)
  PROVE  Moves
BY DEF Advance, Continue, Moves, Quiet, flags

LEMMA RunStep ==
  ASSUME phase = "run",
         \/ Reconnect \/ Send \/ Literal \/ Pack \/ Concat \/ Transform \/ PeerCertificate
         \/ Extract \/ Compute
  PROVE  Moves \/ Fails
<1>1. Active
  BY DEF Active
<1>2. pc <= Len(ops) /\ Op.step.op # "match"
  BY DEF Reconnect, Send, Literal, Pack, Concat, Transform, PeerCertificate, Extract, Compute,
         IsNow
<1>3. ASSUME NEW b, NEW r, Advance(b, r) PROVE Moves
  BY <1>2, <1>3, AdvanceStep
<1>4. ASSUME NEW f, Fail(f) PROVE Fails
  BY <1>1, <1>4, FailStep
<1>5. CASE Reconnect
  BY <1>3, <1>4, <1>5 DEF Reconnect, ConnectFails, FailIo
<1>6. CASE Send
  BY <1>3, <1>4, <1>6 DEF Send, FailIo
<1>7. CASE Literal \/ Pack \/ Concat
  BY <1>3, <1>4, <1>7 DEF Literal, Pack, Concat, StoreBuffer
<1>8. CASE Transform
  BY <1>3, <1>4, <1>8 DEF Transform, StoreBuffer
<1>9. CASE PeerCertificate
  <2>1. CASE Fail("tls_error")
    BY <1>4, <2>1
  <2>2. CASE ~Fail("tls_error")
    BY <1>2, <1>9, <2>2 DEF PeerCertificate, Continue, Moves, Quiet
  <2>3. QED
    BY <2>1, <2>2
<1>10. CASE Extract \/ Compute
  BY <1>3, <1>4, <1>10 DEF Extract, Compute, StoreRegister
<1>11. QED
  BY <1>5, <1>6, <1>7, <1>8, <1>9, <1>10

(* Every step of the program.                                              *)
LEMMA Kinds ==
  ASSUME Reading, Next
  PROVE  \/ CompileStep \/ EndCompile \/ Ended
         \/ Stays /\ (phase' = "read" => phase = "read" \/ Receive)
         \/ Moves \/ Fails \/ RejectIf \/ Match \/ Finish
<1>1. CASE Connect
  <2>1. Active
    BY <1>1 DEF Connect, Active
  <2>2. CASE ConnectFails
    BY <2>1, <2>2, FailStep DEF ConnectFails, FailIo
  <2>3. CASE ~ConnectFails
    BY <1>1, <2>1, <2>3 DEF Connect, Stays, Quiet, runVars, flags
  <2>4. QED
    BY <2>2, <2>3
<1>2. CASE \/ Reconnect \/ Send \/ Literal \/ Pack \/ Concat \/ Transform \/ PeerCertificate
           \/ Extract \/ Compute
  <2>1. phase = "run"
    BY <1>2 DEF Reconnect, Send, Literal, Pack, Concat, Transform, PeerCertificate, Extract,
                Compute, IsNow
  <2>2. QED
    BY <1>2, <2>1, RunStep
<1>3. CASE Receive
  <2>1. Stays
    BY <1>3 DEF Receive, IsNow, Read, Stays, Active, Quiet, flags
  <2>2. QED
    BY <1>3, <2>1
<1>4. CASE Data \/ Tick \/ Deadline \/ PeerCloses \/ ReadError
  <2>1. phase = "read"
    BY <1>4 DEF Data, Tick, Deadline, PeerCloses, ReadError
  <2>2. QED
    BY <1>4, <2>1, ReadStep
<1>5. QED
  BY <1>1, <1>2, <1>3, <1>4 DEF Next

LEMMA ReadingStep == Reading /\ [Next]_vars => Reading'
<1> SUFFICES ASSUME Reading, [Next]_vars PROVE Reading'
  OBVIOUS
<1>1. CASE phase' # "read"
  BY <1>1 DEF Reading
<1>2. CASE UNCHANGED vars
  BY <1>2 DEF vars, runVars, programVars, Reading, Op
<1>3. CASE Stays /\ phase = "read"
  BY <1>3 DEF Stays, Quiet, programVars, Reading, Op
<1>4. CASE Receive
  BY <1>4 DEF Receive, IsNow, Read, programVars, Reading, ReadKinds, Op
<1>5. CASE CompileStep \/ EndCompile \/ Moves \/ Fails \/ RejectIf \/ Match \/ Finish
  BY <1>1, <1>5
     DEF CompileStep, EndCompile, Refuse, Moves, Fails, RejectIf, Match, Continue, Finish
<1>6. QED
  BY <1>1, <1>2, <1>3, <1>4, <1>5, Kinds DEF Ended

-----------------------------------------------------------------------------
(* What a verdict rests on.                                                *)

IsMatch(k) == ops[k].step.op = "match"

(* While the program runs, no rejecting condition has held, and the flags  *)
(* are those of the match operation, once it is behind pc.                 *)
Judged ==
  /\ pc \in Nat /\ matched \in BOOLEAN
  /\ <<"reject", TRUE>> \notin verdicts
  /\ matched => <<"match", TRUE>> \in verdicts
  /\ override => matched
  /\ \A k \in 1..Len(ops) : k < pc /\ IsMatch(k) => <<"match", matched>> \in verdicts

HasMatch == \E k \in 1..Len(ops) : IsMatch(k)

VerdictInv ==
  /\ \E S : ops \in Seq(S)
  /\ phase = "compile" => pc = 1 /\ Judged
  /\ Active => Judged /\ HasMatch
  /\ VerdictSound

LEMMA VerdictInit == Init => VerdictInv
<1> SUFFICES ASSUME Init PROVE VerdictInv
  OBVIOUS
<1>1. ops \in Seq({})
  BY DEF Init
<1>2. pc = 1 /\ Judged
  <2>1. /\ pc \in Nat /\ matched \in BOOLEAN /\ <<"reject", TRUE>> \notin verdicts
        /\ matched = FALSE /\ override = FALSE
    BY DEF Init
  <2>2. pc = 1 /\ \A k \in 1..Len(ops) : ~(k < pc)
    BY DEF Init
  <2>3. QED
    BY <2>1, <2>2 DEF Judged
<1>3. ~Active /\ phase # "done"
  BY DEF Init, Active
<1>4. QED
  BY <1>1, <1>2, <1>3 DEF VerdictInv, VerdictSound

LEMMA CompileVerdict ==
  ASSUME VerdictInv, CompileStep \/ EndCompile
  PROVE  VerdictInv'
<1>1. phase = "compile" /\ pc = 1 /\ Judged /\ UNCHANGED <<pc, matched, override, verdicts>>
  BY DEF CompileStep, EndCompile, VerdictInv, runVars, flags
<1>2. (\E S : ops' \in Seq(S)) => Judged'
  BY <1>1 DEF Judged
<1>3. PICK S : ops \in Seq(S)
  BY DEF VerdictInv
<1>4. CASE Refuse
  <2>1. phase' = "refused" /\ ops' \in Seq({})
    BY <1>4 DEF Refuse
  <2>2. QED
    BY <1>1, <1>2, <2>1 DEF VerdictInv, VerdictSound, Active
<1>5. CASE CompileStep /\ ~Refuse
  <2>1. PICK x : ops' = Append(ops, x) /\ phase' = "compile"
    BY <1>1, <1>5 DEF CompileStep
  <2>2. ops \in Seq(S \cup {x})
    BY <1>3
  <2>3. ops' \in Seq(S \cup {x})
    BY <2>1, <2>2
  <2>4. QED
    BY <1>1, <1>2, <2>1, <2>3 DEF VerdictInv, VerdictSound, Active
<1>6. CASE EndCompile /\ ~Refuse
  <2>1. /\ phase' = "connect" /\ ops' = ops
        /\ Cardinality({i \in DOMAIN ops : ops[i].step.op = "match"}) = 1
    BY <1>6 DEF EndCompile, programVars
  <2>2. {i \in DOMAIN ops : ops[i].step.op = "match"} # {}
    BY <2>1, FS_EmptySet
  <2>3. HasMatch'
    BY <1>3, <2>1, <2>2 DEF HasMatch, IsMatch
  <2>4. QED
    BY <1>1, <1>2, <1>3, <2>1, <2>3 DEF VerdictInv, VerdictSound, Active
<1>7. QED
  BY <1>4, <1>5, <1>6

LEMMA RunVerdict ==
  ASSUME VerdictInv, (Stays \/ Moves \/ Fails \/ RejectIf \/ Match \/ Finish)
  PROVE  VerdictInv'
<1>1. Active /\ Judged /\ HasMatch
  BY DEF VerdictInv, Stays, Moves, Fails, RejectIf, Match, Finish, IsNow, Active
<1>2. PICK S : ops \in Seq(S)
  BY DEF VerdictInv
<1>3. ops' = ops
  BY DEF Stays, Moves, Fails, RejectIf, Match, Finish, Continue, Quiet, programVars
<1>4. HasMatch' /\ \A k : IsMatch(k)' <=> IsMatch(k)
  BY <1>1, <1>3 DEF HasMatch, IsMatch
<1>5. ASSUME phase' \in {"run", "read"}, Judged' PROVE VerdictInv'
  BY <1>2, <1>3, <1>4, <1>5 DEF VerdictInv, VerdictSound, Active
<1>6. ASSUME phase' = "done", VerdictSound' PROVE VerdictInv'
  BY <1>2, <1>3, <1>6 DEF VerdictInv, Active
<1>7. CASE Stays
  <2>1. Judged'
    BY <1>1, <1>3, <1>4, <1>7 DEF Stays, Quiet, Judged
  <2>2. QED
    BY <1>5, <1>7, <2>1 DEF Stays
<1>8. CASE Moves
  <2>1. ASSUME NEW k \in 1..Len(ops), k < pc + 1, IsMatch(k) PROVE k < pc
    BY <1>1, <1>2, <1>8, <2>1 DEF Moves, Op, IsMatch, Judged
  <2>2. Judged'
    BY <1>1, <1>3, <1>4, <1>8, <2>1 DEF Moves, Quiet, Judged
  <2>3. QED
    BY <1>5, <1>8, <2>2 DEF Moves
<1>9. CASE Fails
  <2>1. <<"reject", TRUE>> \notin verdicts'
    BY <1>1, <1>9 DEF Fails, Quiet, Judged
  <2>2. /\ out'.matched = FALSE /\ out'.rejected = FALSE /\ out'.confidence = "zero"
    BY <1>9 DEF Fails, NoOut
  <2>3. VerdictSound'
    BY <2>1, <2>2 DEF VerdictSound
  <2>4. QED
    BY <1>6, <1>9, <2>3 DEF Fails
<1>10. CASE RejectIf
  <2>1. PICK value \in BOOLEAN :
          /\ verdicts' = verdicts \cup {<<"reject", value>>}
          /\ IF value
               THEN /\ phase' = "done"
                    /\ out' = [matched |-> FALSE, rejected |-> TRUE, responsive |-> responsive,
                               confidence |-> "reject", status |-> "reject"]
               ELSE Continue
    BY <1>10 DEF RejectIf
  <2>2. UNCHANGED <<matched, override>> /\ pc <= Len(ops) /\ Op.step.op = "reject_if"
    BY <1>10 DEF RejectIf, IsNow
  <2>3. CASE value = TRUE
    BY <1>6, <2>1, <2>3 DEF VerdictSound
  <2>4. CASE value = FALSE
    <3>1. phase' = "run" /\ pc' = pc + 1
      BY <2>1, <2>4 DEF Continue
    <3>2. ASSUME NEW k \in 1..Len(ops), k < pc + 1, IsMatch(k) PROVE k < pc
      BY <1>1, <2>2, <3>2 DEF Op, IsMatch, Judged
    <3>3. <<"reject", TRUE>> \notin verdicts' /\ verdicts \subseteq verdicts'
      BY <1>1, <2>1, <2>4 DEF Judged
    <3>4. Judged'
      BY <1>1, <1>3, <1>4, <2>2, <3>1, <3>2, <3>3 DEF Judged
    <3>5. QED
      BY <1>5, <3>1, <3>4
  <2>5. QED
    BY <2>3, <2>4
<1>11. CASE Match
  <2>1. PICK value \in BOOLEAN :
          /\ matched' = value /\ override' = (value /\ Op.step.confidence)
          /\ verdicts' = verdicts \cup {<<"match", value>>}
    BY <1>11 DEF Match
  <2>2. phase' = "run" /\ pc' = pc + 1
    BY <1>11 DEF Match, Continue
  <2>3. <<"match", matched'>> \in verdicts' /\ <<"reject", TRUE>> \notin verdicts'
    BY <1>1, <2>1 DEF Judged
  <2>4. matched' \in BOOLEAN /\ (override' => matched')
    BY <2>1
  <2>5. matched' => <<"match", TRUE>> \in verdicts'
    BY <2>1
  <2>6. Judged'
    BY <1>1, <2>2, <2>3, <2>4, <2>5 DEF Judged
  <2>7. QED
    BY <1>5, <2>2, <2>6
<1>12. CASE Finish
  <2>1. phase' = "done" /\ pc > Len(ops) /\ UNCHANGED verdicts
    BY <1>12 DEF Finish, flags
  <2>2. /\ out'.matched = matched /\ out'.rejected = FALSE
        /\ out'.confidence = IF override THEN "match"
                             ELSE IF matched THEN "declared" ELSE "unmatched"
    BY <1>12 DEF Finish
  <2>3. <<"match", matched>> \in verdicts
    BY <1>1, <1>2, <2>1 DEF Judged, HasMatch
  <2>4. VerdictSound'
    BY <1>1, <2>1, <2>2, <2>3 DEF VerdictSound, Judged
  <2>5. QED
    BY <1>6, <2>1, <2>4
<1>13. QED
  BY <1>7, <1>8, <1>9, <1>10, <1>11, <1>12

LEMMA VerdictStep == Reading /\ VerdictInv /\ [Next]_vars => VerdictInv'
<1> SUFFICES ASSUME Reading, VerdictInv, [Next]_vars PROVE VerdictInv'
  OBVIOUS
<1>1. CASE UNCHANGED vars
  BY <1>1 DEF vars, runVars, programVars, flags, VerdictInv, Judged, HasMatch, IsMatch,
              VerdictSound, Active
<1>2. CASE CompileStep \/ EndCompile
  BY <1>2, CompileVerdict
<1>3. CASE Stays \/ Moves \/ Fails \/ RejectIf \/ Match \/ Finish
  BY <1>3, RunVerdict
<1>4. QED
  BY <1>1, <1>2, <1>3, Kinds DEF Ended

(* run() of probe/executor.rs: whatever the document and wherever its      *)
(* match and reject_if steps stand, a match is reported only when the      *)
(* match condition held and no rejecting one did, and a failed run claims  *)
(* nothing.                                                                *)
THEOREM VerdictCorrect == Spec => []VerdictSound
<1>1. Init => Reading /\ VerdictInv
  BY ReadingInit, VerdictInit
<1>2. Reading /\ VerdictInv /\ [Next]_vars => (Reading /\ VerdictInv)'
  BY ReadingStep, VerdictStep
<1>3. Reading /\ VerdictInv => VerdictSound
  BY DEF VerdictInv
<1>4. QED
  BY <1>1, <1>2, <1>3, PTL DEF Spec

-----------------------------------------------------------------------------
(* How long the reads of an operation take.                                *)

(* An operation makes at most two reads, and each began with a fresh       *)
(* deadline.                                                               *)
DeadlineInv ==
  phase = "read" =>
    /\ spent \in Nat /\ waited \in 0..ReadTimeout
    /\ \/ parts = <<>> /\ spent <= waited
       \/ Len(parts) = 1 /\ spent <= ReadTimeout + waited

LEMMA DeadlineReturns ==
  ASSUME Reading, DeadlineInv, phase = "read", NEW n, Returns(n)
  PROVE  DeadlineInv'
<1>1. ASSUME NEW b, NEW r, Store(b, r) PROVE DeadlineInv'
  BY <1>1 DEF Store, Continue, DeadlineInv
<1>2. ASSUME NEW f, Fail(f) PROVE DeadlineInv'
  BY <1>2 DEF Fail, DeadlineInv
<1>3. ASSUME NEW c, NEW x, Read(c, <<x>>), UNCHANGED spent, parts = <<>> PROVE DeadlineInv'
  <2>1. waited' = 0 /\ Len(parts') = 1 /\ spent' = spent
    BY <1>3 DEF Read
  <2>2. QED
    BY <1>3, <2>1, ProgramAssumption DEF DeadlineInv
<1>4. CASE parts = <<>> /\ FrameHeader
  BY <1>2, <1>3, <1>4 DEF FrameHeader
<1>5. CASE parts = <<>> /\ HttpHeader(n)
  BY <1>1, <1>2, <1>3, <1>5 DEF HttpHeader, StoreHttp
<1>6. CASE \E b, r : Store(b, r)
  BY <1>1, <1>6
<1>7. QED
  <2>1. Op.step.op \in ReadKinds
    BY DEF Reading
  <2>2. \/ parts = <<>> /\ FrameHeader
        \/ parts = <<>> /\ HttpHeader(n)
        \/ \E b, r : Store(b, r)
    BY <2>1 DEF Returns, ReadKinds, StoreHttp
  <2>3. QED
    BY <2>2, <1>4, <1>5, <1>6

LEMMA DeadlineStep == Reading /\ DeadlineInv /\ [Next]_vars => DeadlineInv'
<1> SUFFICES ASSUME Reading, DeadlineInv, [Next]_vars PROVE DeadlineInv'
  OBVIOUS
<1>1. CASE phase' # "read"
  BY <1>1 DEF DeadlineInv
<1>2. CASE UNCHANGED vars
  BY <1>2 DEF vars, runVars, readVars, DeadlineInv
<1>3. CASE Receive
  <2>1. waited' = 0 /\ parts' = <<>> /\ spent' = 0
    BY <1>3 DEF Receive, Read
  <2>2. QED
    BY <2>1, ProgramAssumption DEF DeadlineInv
<1>4. CASE phase = "read" /\ \E n : Returns(n)
  BY <1>4, DeadlineReturns
<1>5. CASE \E f : Fail(f)
  BY <1>1, <1>5 DEF Fail
<1>6. CASE phase = "read" /\ UNCHANGED <<waited, parts, spent>>
  BY <1>6 DEF DeadlineInv
<1>7. CASE Tick
  <2>1. /\ phase = "read" /\ waited < ReadTimeout
        /\ waited' = waited + 1 /\ spent' = spent + 1 /\ parts' = parts
    BY <1>7 DEF Tick, Keep
  <2>2. QED
    BY <2>1, ProgramAssumption DEF DeadlineInv
<1>8. CASE Data \/ Deadline \/ PeerCloses \/ ReadError
  <2>1. phase = "read"
    BY <1>8 DEF Data, Deadline, PeerCloses, ReadError
  <2>2. \/ \E n : Returns(n)
        \/ \E f : Fail(f)
        \/ UNCHANGED <<waited, parts, spent>>
    BY <1>8 DEF Data, Deadline, PeerCloses, ReadError, StopUpTo, FailIo, Keep
  <2>3. QED
    BY <1>4, <1>5, <1>6, <2>1, <2>2
<1>9. CASE phase' = "read"
  <2>1. phase = "read" \/ Receive \/ UNCHANGED vars
    BY <1>9, Kinds
       DEF CompileStep, EndCompile, Refuse, Ended, Moves, Fails, RejectIf, Match, Continue, Finish
  <2>2. phase = "read" /\ ~UNCHANGED vars => Data \/ Tick \/ Deadline \/ PeerCloses \/ ReadError
    BY DEF Next, CompileStep, EndCompile, Connect, Reconnect, Send, Literal, Pack, Concat,
           Transform, PeerCertificate, Extract, Compute, RejectIf, Match, Finish, Receive,
           IsNow, Ended
  <2>3. QED
    BY <1>2, <1>3, <1>7, <1>8, <2>1, <2>2
<1>10. QED
  BY <1>1, <1>9

(* read_exact, read_up_to and read_until of probe/transport.rs take one    *)
(* deadline each: however the peer trickles its data, an operation reads   *)
(* no longer than its reads' timeouts together.                            *)
THEOREM DeadlineCorrect == Spec => []DeadlineHeld
<1>1. Init => Reading /\ DeadlineInv
  BY ReadingInit DEF Init, DeadlineInv
<1>2. Reading /\ DeadlineInv /\ [Next]_vars => (Reading /\ DeadlineInv)'
  BY ReadingStep, DeadlineStep
<1>3. Reading /\ DeadlineInv => DeadlineHeld
  <2> SUFFICES ASSUME DeadlineInv, phase = "read" PROVE spent <= ReadTimeout * (Len(parts) + 1)
    BY DEF DeadlineHeld
  <2>1. ReadTimeout \in Nat /\ waited \in 0..ReadTimeout /\ spent \in Nat
    BY ProgramAssumption DEF DeadlineInv
  <2>2. CASE parts = <<>> /\ spent <= waited
    <3>1. Len(parts) = 0
      BY <2>2
    <3>2. QED
      BY <2>1, <2>2, <3>1
  <2>3. CASE Len(parts) = 1 /\ spent <= ReadTimeout + waited
    BY <2>1, <2>3
  <2>4. QED
    BY <2>2, <2>3 DEF DeadlineInv
<1>4. QED
  BY <1>1, <1>2, <1>3, PTL DEF Spec

-----------------------------------------------------------------------------
(* Sums.                                                                   *)

(* Every set of natural numbers but the empty one has a least member.      *)
LEMMA Least ==
  ASSUME NEW T \in SUBSET Nat, T # {}
  PROVE  \E x \in T : \A y \in T : x <= y
<1> DEFINE R == {ss \in Nat \X Nat : ss[1] < ss[2]}
<1>1. OpToRel(<, Nat) = {ss \in Nat \X Nat : ss[1] < ss[2]}
  BY DEF OpToRel
<1>2. IsWellFoundedOn(R, Nat)
  BY <1>1, NatLessThanWellFounded
<1>3. PICK x \in T : \A y \in T : ~(<<y, x>> \in R)
  <2> HIDE DEF R
  <2>1. QED
    BY <1>2, WFMin
<1>4. \A y \in T : y \in Nat /\ x \in Nat /\ ~(y < x)
  BY <1>3
<1>5. QED
  BY <1>4

(* Induction from m to n, over the set of numbers that have the property.  *)
LEMMA Induction ==
  ASSUME NEW m \in Nat, NEW n \in Nat, NEW S,
         m \in S, \A i \in m..(n - 1) : i \in S => i + 1 \in S
  PROVE  \A i \in m..n : i \in S
<1> DEFINE T == {i \in Nat : i \in m..n /\ i \notin S}
<1> SUFFICES ASSUME T # {} PROVE FALSE
  OBVIOUS
<1>1. PICK x \in T : \A y \in T : x <= y
  <2>1. T \in SUBSET Nat
    OBVIOUS
  <2> HIDE DEF T
  <2>2. QED
    BY <2>1, Least
<1>2. x \in m..n /\ x \notin S /\ x # m
  BY <1>1
<1>3. x - 1 \in m..(n - 1) /\ x - 1 \notin T
  BY <1>1, <1>2
<1>4. x - 1 \in S /\ (x - 1) + 1 = x
  BY <1>2, <1>3
<1>5. QED
  BY <1>2, <1>3, <1>4

(* The partial sums of Total, without the choice in its recursion.         *)
SumsOf(f, s) ==
  /\ f[0] = 0
  /\ \A i \in 1..Len(s) : f[i] = f[i - 1] + s[i]

LEMMA SumsExist ==
  ASSUME NEW s \in Seq(Nat)
  PROVE  \E f \in [0..Len(s) -> Nat] : SumsOf(f, s)
<1> DEFINE Upto(n) == \E f \in [0..n -> Nat] :
                        f[0] = 0 /\ \A i \in 1..n : f[i] = f[i - 1] + s[i]
           S == {n \in Nat : Upto(n)}
<1>1. Len(s) \in Nat
  OBVIOUS
<1>2. Upto(0)
  <2> DEFINE f == [i \in 0..0 |-> 0]
  <2>1. f \in [0..0 -> Nat] /\ f[0] = 0 /\ 1..0 = {}
    OBVIOUS
  <2>2. QED
    BY <2>1
<1>3. ASSUME NEW n \in 0..(Len(s) - 1), Upto(n) PROVE Upto(n + 1)
  <2>1. PICK f \in [0..n -> Nat] : f[0] = 0 /\ \A i \in 1..n : f[i] = f[i - 1] + s[i]
    BY <1>3
  <2> DEFINE g == [i \in 0..(n + 1) |-> IF i = n + 1 THEN f[n] + s[n + 1] ELSE f[i]]
  <2>2. n \in Nat /\ n + 1 \in 1..Len(s) /\ s[n + 1] \in Nat
    BY <1>1
  <2>3. g \in [0..(n + 1) -> Nat]
    BY <2>1, <2>2
  <2>4. g[0] = 0 /\ \A i \in 1..(n + 1) : g[i] = g[i - 1] + s[i]
    BY <2>1, <2>2
  <2> HIDE DEF g
  <2>5. QED
    BY <2>3, <2>4
<1>4. Len(s) \in S
  <2>1. 0 \in S /\ \A n \in 0..(Len(s) - 1) : n \in S => n + 1 \in S
    <3> HIDE DEF Upto
    <3>1. QED
      BY <1>1, <1>2, <1>3
  <2> HIDE DEF S
  <2>2. \A n \in 0..Len(s) : n \in S
    BY <1>1, <2>1, Induction
  <2>3. QED
    BY <1>1, <2>2
<1>5. QED
  BY <1>4 DEF SumsOf

LEMMA SumsRight ==
  ASSUME NEW s \in Seq(Nat)
  PROVE  SumsOf(Sums(s), s)
<1> DEFINE Body(f) == [i \in 0..Len(s) |-> IF i = 0 THEN 0 ELSE f[i - 1] + s[i]]
<1>1. PICK f \in [0..Len(s) -> Nat] : SumsOf(f, s)
  BY SumsExist
<1>2. f = Body(f)
  BY <1>1 DEF SumsOf
<1>3. Sums(s) = CHOOSE g : g = Body(g)
  BY DEF Sums
<1>4. Sums(s) = Body(Sums(s))
  <2> HIDE DEF Body
  <2>1. QED
    BY <1>2, <1>3
<1>5. Len(s) \in Nat
  OBVIOUS
<1>6. QED
  BY <1>4, <1>5 DEF SumsOf

LEMMA AddBoth ==
  \A p, q, x, y \in Nat :
    p <= q /\ x <= y => p + x \in Nat /\ q + y \in Nat /\ p + x <= q + y
OBVIOUS

(* More and larger numbers have a larger sum.                              *)
LEMMA TotalMonotone ==
  ASSUME NEW s \in Seq(Nat), NEW t \in Seq(Nat), Len(s) <= Len(t),
         \A i \in 1..Len(s) : s[i] <= t[i]
  PROVE  Total(s) \in Nat /\ Total(t) \in Nat /\ Total(s) <= Total(t)
<1> DEFINE a == Sums(s)
           b == Sums(t)
           S == {n \in Nat : a[n] \in Nat /\ b[n] \in Nat /\ a[n] <= b[n]}
           U == {n \in Nat : b[n] \in Nat /\ a[Len(s)] <= b[n]}
<1>1. /\ a[0] = 0 /\ \A i \in 1..Len(s) : a[i] = a[i - 1] + s[i]
      /\ b[0] = 0 /\ \A i \in 1..Len(t) : b[i] = b[i - 1] + t[i]
  BY SumsRight DEF SumsOf
<1>2. Len(s) \in Nat /\ Len(t) \in Nat
  OBVIOUS
<1> HIDE DEF a, b
<1>3. Len(s) \in S
  <2>1. 0 \in S
    BY <1>1
  <2>2. ASSUME NEW n \in 0..(Len(s) - 1), n \in S PROVE n + 1 \in S
    <3>1. n + 1 \in 1..Len(s) /\ n + 1 \in 1..Len(t) /\ (n + 1) - 1 = n /\ n + 1 \in Nat
      BY <1>2
    <3>2. s[n + 1] \in Nat /\ t[n + 1] \in Nat /\ s[n + 1] <= t[n + 1]
      BY <3>1
    <3>3. a[n + 1] = a[n] + s[n + 1] /\ b[n + 1] = b[n] + t[n + 1]
      BY <1>1, <3>1
    <3>4. a[n] \in Nat /\ b[n] \in Nat /\ a[n] <= b[n]
      BY <2>2
    <3>5. a[n + 1] \in Nat /\ b[n + 1] \in Nat /\ a[n + 1] <= b[n + 1]
      <4>1. PICK p \in Nat, q \in Nat, x \in Nat, y \in Nat :
              /\ p = a[n] /\ q = b[n] /\ x = s[n + 1] /\ y = t[n + 1]
              /\ p <= q /\ x <= y
        BY <3>2, <3>4, Zenon
      <4>2. p + x \in Nat /\ q + y \in Nat /\ p + x <= q + y
        BY <4>1, AddBoth
      <4>3. a[n + 1] = p + x /\ b[n + 1] = q + y
        BY <3>3, <4>1, Zenon
      <4>4. QED
        BY <4>2, <4>3, Zenon
    <3>6. QED
      BY <3>1, <3>5
  <2> HIDE DEF S
  <2>3. \A n \in 0..Len(s) : n \in S
    BY <1>2, <2>1, <2>2, Induction
  <2>4. QED
    BY <1>2, <2>3
<1>4. Len(t) \in U
  <2>1. Len(s) \in U
    BY <1>3
  <2>2. ASSUME NEW n \in Len(s)..(Len(t) - 1), n \in U PROVE n + 1 \in U
    <3>1. n + 1 \in 1..Len(t) /\ (n + 1) - 1 = n /\ n + 1 \in Nat
      BY <1>2
    <3>2. t[n + 1] \in Nat /\ b[n + 1] = b[n] + t[n + 1]
      BY <1>1, <3>1
    <3>3. b[n] \in Nat /\ a[Len(s)] \in Nat /\ a[Len(s)] <= b[n]
      BY <1>3, <2>2
    <3>4. b[n + 1] \in Nat /\ a[Len(s)] <= b[n + 1]
      BY <3>2, <3>3
    <3>5. QED
      BY <3>1, <3>4
  <2> HIDE DEF U
  <2>3. \A n \in Len(s)..Len(t) : n \in U
    BY <1>2, <2>1, <2>2, Induction
  <2>4. QED
    BY <1>2, <2>3
<1>5. QED
  BY <1>3, <1>4 DEF Total, a, b
-----------------------------------------------------------------------------
(* What the compiled operations say of buffers and registers.              *)

(* The first buffer and the first register that operation k adds.          *)
First(k)    == IF k <= Len(ops) THEN ops[k].dst ELSE Len(size) + 1
FirstReg(k) == IF k <= Len(ops) THEN ops[k].reg ELSE Len(regName) + 1

(* The sizes z give the buffers of operation o what its step asks for.     *)
Sized(o, z) ==
  LET s == o.step
      n == z[o.dst]
      m == z[o.src[s.source]]
  IN  /\ s.op \in {"literal", "recv_exact"} => s.bytes \in 1..MaxBuffer /\ n = s.bytes
      /\ s.op = "pack" => n = s.width
      /\ s.op = "concat" =>
           n <= MaxBuffer /\ n = Total([i \in DOMAIN s.sources |-> z[o.src[s.sources[i]]]])
      /\ s.op \in {"recv_up_to", "recv_frame"} => ValidDynamic(s.min, s.max) /\ n = s.max
      /\ s.op = "recv_until" => 1 <= s.max /\ n = s.max
      /\ s.op = "recv_http" => 1 <= s.max_header /\ n = s.max_header /\ z[o.dst + 1] = s.max_body
      /\ s.op = "peer_certificate" => n = Hash
      /\ s.op = "transform" =>
           /\ s.kind = "hex" => n = m \div 2
           /\ s.kind = "encode" => n = ((m + 2) \div 3) * 4
           /\ s.kind \in {"decode", "rc4", "msgpack"} => n = m
           /\ s.kind = "gzip" => n = s.max

(* An operation uses what the operations before it add, and adds the next  *)
(* buffers and registers.                                                  *)
Placed(k) ==
  LET o == ops[k]
  IN  /\ o.step \in Steps /\ Sized(o, size)
      /\ First(k) \in Nat \ {0} /\ First(k + 1) <= Len(size) + 1
      /\ First(k + 1) = First(k) + Len(NewBuffers(o.step))
      /\ FirstReg(k) \in Nat \ {0}
      /\ FirstReg(k + 1) = FirstReg(k) + Len(NewRegisters(o.step))
      /\ DOMAIN o.src = UsedBuffers(o.step)
      /\ \A n \in DOMAIN o.src : o.src[n] \in 1..(First(k) - 1)
      /\ o.reads \subseteq 1..(FirstReg(k) - 1)

Compiled ==
  /\ bufName \in Seq(Name) /\ size \in Seq(Nat) /\ Len(size) = Len(bufName)
  /\ regName \in Seq(Register)
  /\ \E S : ops \in Seq(S)
  /\ First(1) = 1 /\ FirstReg(1) = 1
  /\ \A k \in 1..Len(ops) : Placed(k)

(* What has been set before operation k runs.                              *)
SetBefore(k, b, r) ==
  /\ b \in Seq(Nat) /\ Len(b) = First(k) - 1
  /\ \A i \in 1..Len(b) : b[i] <= size[i]
  /\ r = 1..(FirstReg(k) - 1)

(* A read ends before its buffer is full, and a second one has the size of *)
(* the buffer after the first.                                             *)
ReadFits ==
  phase = "read" =>
    /\ got \in Nat /\ call.max \in Nat /\ got < call.max
    /\ parts = <<>> \/ (Len(parts) = 1 /\ Op.step.op \in {"recv_frame", "recv_http"})
    /\ Op.step.op # "recv_frame" => call.max <= size[Op.dst + Len(parts)]
    /\ Op.step.op = "recv_frame" /\ parts # <<>> => call.max <= size[Op.dst]
    /\ Op.step.op = "recv_http" /\ parts # <<>> => parts[1] \in Nat /\ parts[1] <= size[Op.dst]

(* The internal errors that are left.                                      *)
MayFail == pc <= Len(ops) /\ (Op.step.op \in {"pack", "send_http", "reconnect"} \/ pc = 1)

DataInv ==
  /\ Compiled
  /\ pc \in 1..(Len(ops) + 1) /\ SetBefore(pc, bufs, regs)
  /\ phase \in {"compile", "connect", "refused"} => pc = 1
  /\ phase \notin {"compile", "refused"} => Total(size) <= Budget
  /\ ReadFits
  /\ out.status = "internal_error" => phase = "done" /\ MayFail

-----------------------------------------------------------------------------
(* The steps of a document.                                                *)

Operations == {"send_literal", "reconnect", "send", "send_http", "literal", "recv_exact",
  "peer_certificate", "pack", "concat", "recv_up_to", "recv_until", "recv_frame", "recv_http",
  "transform", "extract", "compute", "reject_if", "match"}

LEMMA StepKinds == \A s \in Step : s.op \in Operations
BY DEF Step, Operations

LEMMA StepFields ==
  ASSUME NEW s \in Step
  PROVE  /\ s.op \in {"literal", "recv_exact"} => s.name \in Name /\ s.bytes \in Nat
         /\ s.op = "peer_certificate" => s.name \in Name
         /\ s.op = "pack" => s.name \in Name /\ s.width \in 1..Widest
         /\ s.op = "concat" => s.name \in Name /\ s.sources \in Seq(Name)
         /\ s.op = "recv_up_to" => s.name \in Name /\ s.min \in Nat /\ s.max \in Nat
         /\ s.op = "recv_until" => s.name \in Name /\ s.max \in Nat /\ s.delimiter \in Nat
         /\ s.op = "recv_frame" => /\ s.name \in Name /\ s.min \in Nat /\ s.max \in Nat
                                   /\ s.reg \in Register /\ s.width \in 1..Widest
         /\ s.op = "recv_http" => /\ s.header \in Name /\ s.max_header \in Nat
                                  /\ s.body \in Name /\ s.max_body \in Nat
                                  /\ s.status \in Register /\ s.content_length \in Register
         /\ s.op = "transform" =>
              /\ s.source \in Name /\ s.name \in Name
              /\ s.kind \in {"hex", "decode", "encode", "rc4", "msgpack", "gzip"}
              /\ s.kind = "gzip" => s.max \in Nat
         /\ s.op = "extract" => s.source \in Name /\ s.reg \in Register
         /\ s.op = "compute" => s.reg \in Register
         /\ s.op \in {"send", "send_http"} => s.source \in Name
BY DEF Step

LEMMA NewNames ==
  ASSUME NEW s \in Step
  PROVE  /\ NewBuffers(s) \in Seq(Name) /\ NewRegisters(s) \in Seq(Register)
         /\ s.op \in {"literal", "pack", "concat", "recv_exact", "recv_up_to", "recv_until",
                 "recv_frame", "peer_certificate", "transform"} => Len(NewBuffers(s)) = 1
         /\ s.op = "recv_http" => Len(NewBuffers(s)) = 2 /\ Len(NewRegisters(s)) = 2
         /\ s.op \in {"recv_frame", "extract", "compute"} => Len(NewRegisters(s)) = 1
         /\ s.op \in {"send_literal", "reconnect", "send", "send_http", "extract", "compute",
                 "reject_if", "match"} => NewBuffers(s) = <<>>
         /\ s.op \notin {"recv_frame", "extract", "compute", "recv_http"} => NewRegisters(s) = <<>>
<1>1. s.op \in Operations
  BY StepKinds
<1>2. QED
  BY <1>1, StepFields DEF NewBuffers, NewRegisters, Operations

LEMMA BufferOf ==
  ASSUME Compiled, NEW s \in Step, Known(s), NEW n \in UsedBuffers(s)
  PROVE  Buffer(n) \in 1..Len(size) /\ SizeOf(n) \in Nat
<1>1. bufName \in Seq(Name) /\ size \in Seq(Nat) /\ Len(size) = Len(bufName)
  BY DEF Compiled
<1>2. \E i \in DOMAIN bufName : bufName[i] = n
  BY DEF Known, ToSet
<1>3. Buffer(n) \in DOMAIN bufName
  BY <1>2 DEF Buffer
<1>4. QED
  BY <1>1, <1>3 DEF SizeOf

LEMMA SourceUsed ==
  ASSUME NEW s \in Step
  PROVE  /\ s.op \in {"send", "send_http", "transform", "extract"} => s.source \in UsedBuffers(s)
         /\ s.op = "concat" => /\ s.sources \in Seq(Name)
                              /\ \A i \in 1..Len(s.sources) : s.sources[i] \in UsedBuffers(s)
BY StepFields DEF UsedBuffers, ToSet

LEMMA SizesOfStep ==
  ASSUME Compiled, NEW s \in Step, Known(s), Valid(s)
  PROVE  NewSizes(s) \in Seq(Nat) /\ Len(NewSizes(s)) = Len(NewBuffers(s))
<1>1. s.op \in Operations
  BY StepKinds
<1>2. Hash \in Nat /\ Widest \in Nat
  BY ProgramAssumption
<1>3. CASE s.op \in {"literal", "recv_exact", "pack", "recv_up_to", "recv_until", "recv_frame",
                    "recv_http", "peer_certificate"}
  BY <1>2, <1>3, StepFields, NewNames DEF NewSizes, NewBuffers
<1>4. CASE s.op = "concat"
  <2> DEFINE lengths == [i \in DOMAIN s.sources |-> SizeOf(s.sources[i])]
  <2>1. lengths \in Seq(Nat)
    BY <1>4, SourceUsed, BufferOf
  <2>2. Total(lengths) \in Nat
    <3> HIDE DEF lengths
    <3>1. QED
      BY <2>1, TotalMonotone
  <2>3. NewSizes(s) = <<Total(lengths)>>
    BY <1>4 DEF NewSizes
  <2>4. QED
    BY <1>4, <2>2, <2>3, NewNames
<1>5. CASE s.op = "transform"
  <2>1. NewSizes(s) = <<TransformedSize(s)>> /\ TransformedSize(s) \in Nat
    BY <1>5 DEF NewSizes, Valid
  <2>2. QED
    BY <1>5, <2>1, NewNames
<1>6. CASE s.op \in {"send_literal", "reconnect", "send", "send_http", "extract", "compute",
                    "reject_if", "match"}
  BY <1>6, NewNames DEF NewSizes
<1>7. QED
  BY <1>1, <1>3, <1>4, <1>5, <1>6 DEF Operations

LEMMA SizedStep ==
  ASSUME Compiled, NEW s \in Step, Known(s), Valid(s), NEW o, o.step = s,
         o.src = [n \in UsedBuffers(s) |-> Buffer(n)], o.dst = Len(size) + 1
  PROVE  Sized(o, size \o NewSizes(s))
<1> DEFINE z == size \o NewSizes(s)
<1>1. size \in Seq(Nat) /\ NewSizes(s) \in Seq(Nat) /\ Len(NewSizes(s)) = Len(NewBuffers(s))
  BY SizesOfStep DEF Compiled
<1>2. /\ \A i \in 1..Len(size) : z[i] = size[i]
      /\ \A i \in 1..Len(NewSizes(s)) : z[Len(size) + i] = NewSizes(s)[i]
  BY <1>1
<1>3. \A n \in UsedBuffers(s) : z[o.src[n]] = SizeOf(n)
  BY <1>2, BufferOf DEF SizeOf
<1> HIDE DEF z
<1>4. Len(NewBuffers(s)) \in {1, 2} => z[o.dst] = NewSizes(s)[1]
  <2>1. Len(size) \in Nat /\ Len(NewSizes(s)) \in Nat
    BY <1>1
  <2>2. QED
    BY <1>1, <1>2, <2>1
<1>5. Len(NewBuffers(s)) = 2 => z[o.dst + 1] = NewSizes(s)[2]
  <2>1. Len(size) \in Nat /\ Len(NewSizes(s)) \in Nat /\ (Len(size) + 1) + 1 = Len(size) + 2
    BY <1>1
  <2>2. QED
    BY <1>1, <1>2, <2>1
<1>6. s.op \in Operations
  BY StepKinds
<1>7. CASE s.op \in {"literal", "recv_exact", "pack", "recv_up_to", "recv_until", "recv_frame",
                    "recv_http", "peer_certificate"}
  <2>1. /\ s.op = "recv_http" => /\ 1 <= s.max_header /\ z[o.dst] = s.max_header
                               /\ z[o.dst + 1] = s.max_body
    BY <1>4, <1>5, NewNames DEF NewSizes, Valid, ValidDynamic
  <2>2. s.op \in {"literal", "recv_exact"} => s.bytes \in 1..MaxBuffer /\ z[o.dst] = s.bytes
    BY <1>4, NewNames DEF NewSizes, Valid
  <2>3. s.op = "pack" => z[o.dst] = s.width
    BY <1>4, NewNames DEF NewSizes
  <2>4. s.op \in {"recv_up_to", "recv_frame"} => ValidDynamic(s.min, s.max) /\ z[o.dst] = s.max
    BY <1>4, NewNames DEF NewSizes, Valid
  <2>5. s.op = "recv_until" => 1 <= s.max /\ z[o.dst] = s.max
    BY <1>4, NewNames DEF NewSizes, Valid, ValidDynamic
  <2>6. s.op = "peer_certificate" => z[o.dst] = Hash
    BY <1>4, NewNames DEF NewSizes
  <2>7. QED
    BY <1>7, <2>1, <2>2, <2>3, <2>4, <2>5, <2>6 DEF Sized, z
<1>8. CASE s.op = "concat"
  <2>1. NewSizes(s)[1] <= MaxBuffer
    BY <1>8 DEF Valid
  <2>2. NewSizes(s)[1] = Total([i \in DOMAIN s.sources |-> SizeOf(s.sources[i])])
    BY <1>8 DEF NewSizes
  <2>3. \A i \in DOMAIN s.sources : s.sources[i] \in UsedBuffers(s)
    BY <1>8, SourceUsed
  <2>4. [i \in DOMAIN s.sources |-> SizeOf(s.sources[i])]
          = [i \in DOMAIN s.sources |-> z[o.src[s.sources[i]]]]
    BY <1>3, <2>3
  <2>5. z[o.dst] = NewSizes(s)[1]
    BY <1>4, <1>8, NewNames
  <2>6. QED
    BY <1>8, <2>1, <2>2, <2>4, <2>5 DEF Sized, z
<1>9. CASE s.op = "transform"
  <2>1. z[o.dst] = TransformedSize(s)
    BY <1>4, <1>9, NewNames DEF NewSizes
  <2>2. z[o.src[s.source]] = SizeOf(s.source)
    BY <1>3, <1>9, SourceUsed
  <2>3. QED
    BY <1>9, <2>1, <2>2, StepFields DEF Sized, TransformedSize, z
<1>10. CASE s.op \in {"send_literal", "reconnect", "send", "send_http", "extract", "compute",
                     "reject_if", "match"}
  BY <1>10 DEF Sized, z
<1>11. QED
  BY <1>6, <1>7, <1>8, <1>9, <1>10 DEF Operations

(* More buffers behind those it names do not disturb an operation.         *)
LEMMA SizedLonger ==
  ASSUME NEW z \in Seq(Nat), NEW x \in Seq(Nat), NEW o, o.step \in Step, Sized(o, z),
         o.dst \in Nat \ {0}, o.dst + Len(NewBuffers(o.step)) <= Len(z) + 1,
         DOMAIN o.src = UsedBuffers(o.step),
         \A n \in DOMAIN o.src : o.src[n] \in 1..Len(z)
  PROVE  Sized(o, z \o x)
<1> DEFINE s == o.step
           w == z \o x
<1>1. \A i \in 1..Len(z) : w[i] = z[i]
  OBVIOUS
<1>2. \A n \in DOMAIN o.src : w[o.src[n]] = z[o.src[n]]
  BY <1>1
<1> HIDE DEF w
<1> HIDE DEF s
<1>5. s \in Step /\ s = o.step /\ s.op \in Operations
  BY StepKinds DEF s
<1>11. Len(z) \in Nat /\ o.dst \in Nat \ {0} /\ o.dst + Len(NewBuffers(s)) <= Len(z) + 1
  BY <1>5
<1>3. Len(NewBuffers(s)) \in {1, 2} => w[o.dst] = z[o.dst]
  <2>1. Len(NewBuffers(s)) \in {1, 2} => o.dst \in 1..Len(z)
    <3>1. \A m \in Nat : \A d \in Nat \ {0} : \A l \in {1, 2} : d + l <= m + 1 => d \in 1..m
      OBVIOUS
    <3>2. QED
      BY <1>11, <3>1, Zenon
  <2>2. QED
    BY <1>1, <2>1
<1>4. Len(NewBuffers(s)) = 2 => w[o.dst + 1] = z[o.dst + 1]
  <2>1. Len(NewBuffers(s)) = 2 => o.dst + 1 \in 1..Len(z)
    BY <1>11
  <2>2. QED
    BY <1>1, <2>1
<1>6. CASE s.op \in {"literal", "recv_exact", "pack", "recv_up_to", "recv_until", "recv_frame",
                    "recv_http", "peer_certificate"}
  <2>1. w[o.dst] = z[o.dst]
    BY <1>3, <1>5, <1>6, NewNames
  <2>2. s.op = "recv_http" => w[o.dst + 1] = z[o.dst + 1]
    BY <1>4, <1>5, NewNames
  <2>3. QED
    BY <1>5, <1>6, <2>1, <2>2 DEF Sized, w, s
<1>7. CASE s.op = "concat"
  <2>1. w[o.dst] = z[o.dst]
    BY <1>3, <1>5, <1>7, NewNames
  <2>2. \A i \in DOMAIN s.sources : s.sources[i] \in DOMAIN o.src
    <3>1. DOMAIN o.src = UsedBuffers(s)
      BY <1>5
    <3>2. s.sources \in Seq(Name) /\ \A i \in 1..Len(s.sources) : s.sources[i] \in UsedBuffers(s)
      BY <1>5, <1>7, SourceUsed
    <3>3. DOMAIN s.sources = 1..Len(s.sources)
      BY <3>2
    <3>4. QED
      BY <3>1, <3>2, <3>3
  <2>3. [i \in DOMAIN s.sources |-> w[o.src[s.sources[i]]]]
          = [i \in DOMAIN s.sources |-> z[o.src[s.sources[i]]]]
    BY <1>2, <2>2
  <2>4. QED
    BY <1>5, <1>7, <2>1, <2>3 DEF Sized, w, s
<1>8. CASE s.op = "transform"
  <2>1. w[o.dst] = z[o.dst]
    BY <1>3, <1>5, <1>8, NewNames
  <2>2. w[o.src[s.source]] = z[o.src[s.source]]
    BY <1>2, <1>5, <1>8, SourceUsed
  <2>3. QED
    BY <1>5, <1>8, <2>1, <2>2 DEF Sized, w, s
<1>9. CASE s.op \in {"send_literal", "reconnect", "send", "send_http", "extract", "compute",
                    "reject_if", "match"}
  BY <1>5, <1>9 DEF Sized, w, s
<1>10. QED
  BY <1>5, <1>6, <1>7, <1>8, <1>9 DEF Operations

(* The registers an operation reads were there before it.                  *)
LEMMA ReadsBefore ==
  ASSUME Compiled, NEW s \in Step, Known(s), Fresh(s), NEW names,
         names = regName \o NewRegisters(s)
  PROVE  {i \in DOMAIN names : names[i] \in UsedRegisters(s)} \subseteq 1..Len(regName)
<1>1. regName \in Seq(Register) /\ NewRegisters(s) \in Seq(Register)
  BY NewNames DEF Compiled
<1>2. IsInjective(names) /\ UsedRegisters(s) \subseteq ToSet(regName)
  BY DEF Fresh, Known
<1>3. SUFFICES ASSUME NEW i \in DOMAIN names, names[i] \in UsedRegisters(s)
               PROVE  i \in 1..Len(regName)
  OBVIOUS
<1>4. PICK j \in DOMAIN regName : regName[j] = names[i]
  BY <1>2, <1>3 DEF ToSet
<1>5. j \in DOMAIN names /\ names[j] = regName[j] /\ j \in 1..Len(regName)
  BY <1>1
<1>6. i = j
  BY <1>2, <1>3, <1>4, <1>5 DEF IsInjective
<1>7. QED
  BY <1>5, <1>6

LEMMA CompiledAdd ==
  ASSUME Compiled, NEW s \in Steps, Known(s), Fresh(s), Valid(s), NEW o,
         o.step = s, o.src = [n \in UsedBuffers(s) |-> Buffer(n)],
         o.dst = Len(size) + 1, o.reg = Len(regName) + 1,
         o.reads \subseteq 1..Len(regName),
         bufName' = bufName \o NewBuffers(s), size' = size \o NewSizes(s),
         regName' = regName \o NewRegisters(s), ops' = Append(ops, o)
  PROVE  Compiled'
<1>1. s \in Step
  BY ProgramAssumption
<1>2. /\ bufName \in Seq(Name) /\ size \in Seq(Nat) /\ Len(size) = Len(bufName)
      /\ regName \in Seq(Register)
  BY DEF Compiled
<1>3. /\ NewBuffers(s) \in Seq(Name) /\ NewRegisters(s) \in Seq(Register)
      /\ NewSizes(s) \in Seq(Nat) /\ Len(NewSizes(s)) = Len(NewBuffers(s))
  BY <1>1, NewNames, SizesOfStep
<1>4. /\ bufName' \in Seq(Name) /\ size' \in Seq(Nat) /\ regName' \in Seq(Register)
      /\ Len(size') = Len(bufName') /\ Len(size') = Len(size) + Len(NewBuffers(s))
      /\ Len(regName') = Len(regName) + Len(NewRegisters(s))
  <2>1. bufName' \in Seq(Name) /\ Len(bufName') = Len(bufName) + Len(NewBuffers(s))
    BY <1>2, <1>3
  <2>2. size' \in Seq(Nat) /\ Len(size') = Len(size) + Len(NewSizes(s))
    <3>1. \A a, b \in Seq(Nat) : a \o b \in Seq(Nat) /\ Len(a \o b) = Len(a) + Len(b)
      OBVIOUS
    <3>2. QED
      BY <1>2, <1>3, <3>1, Zenon
  <2>3. regName' \in Seq(Register) /\ Len(regName') = Len(regName) + Len(NewRegisters(s))
    BY <1>2, <1>3
  <2>4. QED
    BY <1>2, <1>3, <2>1, <2>2, <2>3, Zenon
<1>5. PICK S : ops \in Seq(S)
  BY DEF Compiled
<1>6. ops' \in Seq(S \cup {o}) /\ Len(ops') = Len(ops) + 1 /\ Len(ops) \in Nat
  BY <1>5
<1>7. ops'[Len(ops) + 1] = o /\ \A k \in 1..Len(ops) : ops'[k] = ops[k]
  BY <1>5
<1>8. /\ Len(size) \in Nat /\ Len(regName) \in Nat
      /\ Len(NewBuffers(s)) \in Nat /\ Len(NewRegisters(s)) \in Nat
  BY <1>2, <1>3
<1>9. ASSUME NEW k \in 1..(Len(ops) + 1) PROVE First(k)' = First(k) /\ FirstReg(k)' = FirstReg(k)
  <2>1. CASE k \in 1..Len(ops)
    BY <1>6, <1>7, <2>1 DEF First, FirstReg
  <2>2. CASE k = Len(ops) + 1
    BY <1>6, <1>7, <2>2 DEF First, FirstReg
  <2>3. QED
    BY SMTT(30), <1>6, <2>1, <2>2
<1>10. First(Len(ops) + 1) = Len(size) + 1 /\ FirstReg(Len(ops) + 1) = Len(regName) + 1
  BY <1>6 DEF First, FirstReg
<1>11. ASSUME NEW k, k = Len(ops) + 2
       PROVE  /\ First(k)' = Len(size) + 1 + Len(NewBuffers(s))
              /\ FirstReg(k)' = Len(regName) + 1 + Len(NewRegisters(s))
  <2>1. ~(k <= Len(ops'))
    BY <1>6, <1>11
  <2>2. QED
    BY <1>4, <1>8, <2>1 DEF First, FirstReg
<1>12. ASSUME NEW k \in 1..Len(ops) PROVE Placed(k)'
  <2>1. Placed(k) /\ k \in Nat /\ k + 1 \in 1..(Len(ops) + 1) /\ k \in 1..(Len(ops) + 1)
    BY <1>6, <1>12 DEF Compiled
  <2>2. First(k) = ops[k].dst
    BY <1>6, <1>12 DEF First
  <2>3. Sized(ops[k], size \o NewSizes(s))
    <3>1. ops[k].step \in Step
      BY <2>1, ProgramAssumption DEF Placed
    <3>2. /\ ops[k].dst \in Nat \ {0} /\ ops[k].dst + Len(NewBuffers(ops[k].step)) <= Len(size) + 1
          /\ Sized(ops[k], size) /\ DOMAIN ops[k].src = UsedBuffers(ops[k].step)
          /\ \A n \in DOMAIN ops[k].src : ops[k].src[n] \in 1..(ops[k].dst - 1)
      BY <2>1, <2>2 DEF Placed
    <3>3. Len(NewBuffers(ops[k].step)) \in Nat
      BY <3>1, NewNames
    <3>4. \A n \in DOMAIN ops[k].src : ops[k].src[n] \in 1..Len(size)
      BY SMTT(30), <1>8, <3>2, <3>3
    <3>5. QED
      BY <1>2, <1>3, <3>1, <3>2, <3>4, SizedLonger
  <2>4. First(k)' = First(k) /\ FirstReg(k)' = FirstReg(k)
    BY <1>9, <2>1
  <2>5. First(k + 1)' = First(k + 1) /\ FirstReg(k + 1)' = FirstReg(k + 1)
    BY <1>9, <2>1
  <2>6. First(k + 1) <= Len(size') + 1
    <3>1. /\ First(k + 1) <= Len(size) + 1 /\ First(k) \in Nat
          /\ First(k + 1) = First(k) + Len(NewBuffers(ops[k].step))
      BY <2>1 DEF Placed
    <3>2. Len(NewBuffers(ops[k].step)) \in Nat
      BY <2>1, NewNames, ProgramAssumption DEF Placed
    <3>3. \A x, a, b \in Nat : x <= a + 1 => x <= (a + b) + 1
      OBVIOUS
    <3>4. First(k + 1) \in Nat
      BY <3>1, <3>2
    <3>5. QED
      BY <1>4, <1>8, <3>1, <3>3, <3>4, Zenon
  <2>7. ops'[k] = ops[k] /\ size' = size \o NewSizes(s)
    BY <1>7, <1>12
  <2>8. QED
    BY <2>1, <2>3, <2>4, <2>5, <2>6, <2>7 DEF Placed
<1>13. ASSUME NEW k, k = Len(ops) + 1 PROVE Placed(k)'
  <2>1. ops'[k] = o /\ o.step \in Steps /\ Sized(o, size')
    BY <1>1, <1>7, <1>13, SizedStep
  <2>2. k \in 1..(Len(ops) + 1) /\ k + 1 = Len(ops) + 2
    BY <1>6, <1>13
  <2>3. First(k)' = Len(size) + 1 /\ FirstReg(k)' = Len(regName) + 1
    BY <1>9, <1>10, <1>13, <2>2
  <2>4. \A n \in DOMAIN o.src : o.src[n] \in 1..Len(size)
    BY <1>1, BufferOf
  <2>5. (Len(size) + 1) - 1 = Len(size) /\ (Len(regName) + 1) - 1 = Len(regName)
    BY <1>8
  <2>6. /\ Len(size) + 1 \in Nat \ {0} /\ Len(regName) + 1 \in Nat \ {0}
        /\ Len(size) + 1 + Len(NewBuffers(s)) <= Len(size') + 1
    <3>1. \A a, b \in Nat : a + 1 \in Nat \ {0} /\ a + 1 + b <= (a + b) + 1
      OBVIOUS
    <3>2. QED
      BY <1>4, <1>8, <3>1, Zenon
  <2>7. /\ First(k + 1)' = Len(size) + 1 + Len(NewBuffers(s))
        /\ FirstReg(k + 1)' = Len(regName) + 1 + Len(NewRegisters(s))
    BY <1>11, <2>2
  <2>8. DOMAIN o.src = UsedBuffers(s)
    OBVIOUS
  <2>9. QED
    BY <2>1, <2>3, <2>4, <2>5, <2>6, <2>7, <2>8, Zenon DEF Placed
<1>14. First(1)' = 1 /\ FirstReg(1)' = 1
  BY <1>6, <1>9 DEF Compiled
<1>15. \A k \in 1..Len(ops') : Placed(k)'
  <2>1. SUFFICES ASSUME NEW k \in 1..(Len(ops) + 1) PROVE Placed(k)'
    BY <1>6
  <2>2. k \in 1..Len(ops) \/ k = Len(ops) + 1
    <3>1. \A n \in Nat : \A i \in 1..(n + 1) : i \in 1..n \/ i = n + 1
      OBVIOUS
    <3>2. QED
      BY <1>6, <3>1, Zenon
  <2>3. QED
    BY <1>12, <1>13, <2>2
<1>16. QED
  BY <1>4, <1>6, <1>14, <1>15 DEF Compiled

LEMMA TotalNat ==
  ASSUME NEW s \in Seq(Nat) PROVE Total(s) \in Nat
BY TotalMonotone

LEMMA TotalEmpty == Total(<<>>) = 0
<1>1. <<>> \in Seq(Nat) /\ Len(<<>>) = 0
  OBVIOUS
<1>2. SumsOf(Sums(<<>>), <<>>)
  BY <1>1, SumsRight
<1>3. QED
  BY <1>1, <1>2 DEF Total, SumsOf

EmptyProgram == bufName = <<>> /\ size = <<>> /\ regName = <<>> /\ ops = <<>>

LEMMA NothingCompiled == EmptyProgram => Compiled
<1> SUFFICES ASSUME EmptyProgram PROVE Compiled
  OBVIOUS
<1> USE DEF EmptyProgram
<1>1. Len(ops) = 0 /\ Len(size) = 0 /\ Len(bufName) = 0 /\ Len(regName) = 0
  OBVIOUS
<1>2. First(1) = 1 /\ FirstReg(1) = 1
  BY <1>1 DEF First, FirstReg
<1>3. /\ bufName \in Seq(Name) /\ size \in Seq(Nat) /\ Len(size) = Len(bufName)
      /\ regName \in Seq(Register) /\ ops \in Seq({})
  OBVIOUS
<1>4. 1..Len(ops) = {}
  BY <1>1
<1>5. QED
  BY <1>2, <1>3, <1>4 DEF Compiled

NoneSet   == Compiled /\ bufs = <<>> /\ regs = {}
NoneNeeded == SetBefore(1, bufs, regs)

LEMMA NothingSet == NoneSet => NoneNeeded
<1> SUFFICES ASSUME Compiled, bufs = <<>>, regs = {} PROVE SetBefore(1, bufs, regs)
  BY DEF NoneSet, NoneNeeded
<1>1. First(1) = 1 /\ FirstReg(1) = 1
  BY DEF Compiled
<1>2. bufs \in Seq(Nat) /\ Len(bufs) = 0 /\ 1..0 = {} /\ 1 - 1 = 0
  OBVIOUS
<1>3. QED
  BY <1>1, <1>2 DEF SetBefore

LEMMA DataInit == Init => DataInv
<1> SUFFICES ASSUME Init PROVE DataInv
  OBVIOUS
<1>1. Compiled
  BY NothingCompiled DEF Init, EmptyProgram
<1>2. SetBefore(pc, bufs, regs)
  BY <1>1, NothingSet DEF Init, NoneSet, NoneNeeded
<1>3. pc \in 1..(Len(ops) + 1)
  BY DEF Init
<1>4. phase = "compile" /\ pc = 1 /\ out.status # "internal_error"
  BY DEF Init, NoOut
<1>5. QED
  BY <1>1, <1>2, <1>3, <1>4 DEF DataInv, ReadFits

LEMMA EmptyBefore ==
  ASSUME DataInv, pc = 1
  PROVE  bufs = <<>> /\ regs = {}
<1>1. First(1) = 1 /\ FirstReg(1) = 1 /\ SetBefore(1, bufs, regs)
  BY DEF DataInv, Compiled
<1>2. bufs \in Seq(Nat) /\ Len(bufs) = 1 - 1 /\ regs = 1..(1 - 1)
  BY <1>1 DEF SetBefore
<1>3. QED
  BY <1>2

LEMMA DataCompile ==
  ASSUME DataInv, CompileStep \/ EndCompile
  PROVE  DataInv'
<1>1. phase = "compile" /\ pc = 1 /\ UNCHANGED <<pc, bufs, regs, out>>
  BY DEF CompileStep, EndCompile, DataInv, runVars
<1>2. bufs = <<>> /\ regs = {} /\ out.status # "internal_error"
  BY <1>1, EmptyBefore DEF DataInv
<1>3. ASSUME Compiled', phase' \in {"compile", "refused", "connect"},
             phase' = "connect" => Total(size') <= Budget
      PROVE  DataInv'
  <2>1. pc' = 1 /\ bufs' = <<>> /\ regs' = {} /\ out'.status # "internal_error"
    BY <1>1, <1>2
  <2>2. SetBefore(1, bufs, regs)'
    <3>1. NoneSet'
      BY <1>3, <2>1 DEF NoneSet
    <3>2. NoneNeeded'
      BY <3>1, NothingSet, PTL
    <3>3. QED
      BY <3>2 DEF NoneNeeded
  <2>3. SetBefore(pc, bufs, regs)'
    BY <2>1, <2>2
  <2>4. Len(ops') \in Nat
    BY <1>3 DEF Compiled
  <2>5. pc' \in 1..(Len(ops') + 1)
    BY <2>1, <2>4
  <2>6. QED
    BY <1>3, <2>1, <2>3, <2>5 DEF DataInv, ReadFits
<1>4. CASE Refuse
  <2>1. Compiled'
    <3>1. EmptyProgram'
      BY <1>4 DEF Refuse, EmptyProgram
    <3>2. QED
      BY <3>1, NothingCompiled, PTL
  <2>2. QED
    BY <1>3, <1>4, <2>1 DEF Refuse
<1>5. CASE CompileStep /\ ~Refuse
  <2>1. PICK s \in Steps :
          /\ Known(s) /\ Fresh(s) /\ Valid(s)
          /\ bufName' = bufName \o NewBuffers(s) /\ size' = size \o NewSizes(s)
          /\ regName' = regName \o NewRegisters(s)
          /\ ops' = Append(ops, [step |-> s,
                   src |-> [n \in UsedBuffers(s) |-> Buffer(n)],
                   reads |-> {i \in DOMAIN regName' : regName'[i] \in UsedRegisters(s)},
                   dst |-> Len(size) + 1, reg |-> Len(regName) + 1])
          /\ phase' = phase
    BY <1>5 DEF CompileStep
  <2>2. Compiled /\ s \in Step
    BY ProgramAssumption DEF DataInv
  <2>3. {i \in DOMAIN regName' : regName'[i] \in UsedRegisters(s)} \subseteq 1..Len(regName)
    BY <2>1, <2>2, ReadsBefore
  <2>4. Compiled'
    BY <2>1, <2>2, <2>3, CompiledAdd
  <2>5. QED
    BY <1>1, <1>3, <2>1, <2>4
<1>6. CASE EndCompile /\ ~Refuse
  <2>1. phase' = "connect" /\ Total(size) <= Budget /\ UNCHANGED programVars
    BY <1>6 DEF EndCompile
  <2>2. Compiled'
    BY <2>1 DEF DataInv, Compiled, Placed, First, FirstReg, programVars
  <2>3. QED
    BY <1>3, <2>1, <2>2 DEF programVars
<1>7. QED
  BY <1>4, <1>5, <1>6

-----------------------------------------------------------------------------
(* What a running operation does to the buffers and the registers.         *)

FailsWell == \E f : Fail(f) /\ (f = "internal_error" => MayFail)
GoesOn    == /\ Continue /\ pc <= Len(ops) /\ SetBefore(pc + 1, bufs', regs')
ReadsOn   == /\ phase' = "read" /\ ReadFits'
             /\ UNCHANGED <<programVars, pc, bufs, regs, out>>
Stops     == /\ phase' = "done" /\ out'.status # "internal_error"
             /\ UNCHANGED <<programVars, pc, bufs, regs>>
Starts    == phase' = "run" /\ UNCHANGED <<programVars, pc, bufs, regs, out>>

LEMMA OutcomeKeeps ==
  ASSUME DataInv, phase \in {"connect", "run", "read"},
         FailsWell \/ GoesOn \/ ReadsOn \/ Stops \/ Starts
  PROVE  DataInv'
<1>1. UNCHANGED programVars
  BY DEF FailsWell, Fail, GoesOn, Continue, ReadsOn, Stops, Starts
<1>2. UNCHANGED <<bufName, size, regName, ops>>
  BY <1>1 DEF programVars
<1>3. Compiled'
  BY <1>2 DEF DataInv, Compiled, Placed, First, FirstReg
<1>4. \A k : First(k)' = First(k) /\ FirstReg(k)' = FirstReg(k)
  BY <1>2 DEF First, FirstReg
<1>5. Total(size') <= Budget
  BY <1>2 DEF DataInv
<1>6. phase' \in {"run", "read", "done"} /\ (phase' = "read" => ReadsOn)
  BY DEF FailsWell, Fail, GoesOn, Continue, ReadsOn, Stops, Starts
<1>7. ReadFits'
  BY <1>6 DEF ReadFits, ReadsOn
<1>8. pc' \in 1..(Len(ops') + 1) /\ SetBefore(pc, bufs, regs)'
  <2>1. CASE UNCHANGED <<pc, bufs, regs>>
    BY <1>2, <1>4, <2>1 DEF DataInv, SetBefore
  <2>2. CASE GoesOn
    <3>1. pc' = pc + 1 /\ pc <= Len(ops) /\ SetBefore(pc + 1, bufs', regs')
      BY <2>2 DEF GoesOn, Continue
    <3>2. Len(ops) \in Nat /\ pc \in Nat \ {0}
      BY DEF DataInv, Compiled
    <3>3. pc' \in 1..(Len(ops') + 1)
      BY <1>2, <3>1, <3>2
    <3>4. First(pc)' = First(pc + 1) /\ FirstReg(pc)' = FirstReg(pc + 1)
      BY <1>2, <3>1 DEF First, FirstReg
    <3>5. QED
      BY <1>2, <3>1, <3>3, <3>4 DEF SetBefore
  <2>3. QED
    BY <2>1, <2>2 DEF FailsWell, Fail, ReadsOn, Stops, Starts
<1>9. out'.status = "internal_error" => phase' = "done" /\ MayFail'
  <2>1. CASE UNCHANGED out
    BY <2>1 DEF DataInv
  <2>2. CASE FailsWell
    <3>1. PICK f : Fail(f) /\ (f = "internal_error" => MayFail)
      BY <2>2 DEF FailsWell
    <3>2. out'.status = f /\ phase' = "done" /\ UNCHANGED pc
      BY <3>1 DEF Fail, NoOut
    <3>3. MayFail' <=> MayFail
      BY <1>2, <3>2 DEF MayFail, Op
    <3>4. QED
      BY <3>1, <3>2, <3>3
  <2>3. QED
    BY <2>1, <2>2 DEF GoesOn, Continue, ReadsOn, Stops, Starts
<1>10. QED
  BY <1>3, <1>5, <1>6, <1>7, <1>8, <1>9 DEF DataInv

LEMMA SetNext ==
  ASSUME NEW b \in Seq(Nat), NEW i, i = Len(b) + 1, NEW n \in Nat
  PROVE  SetBuffer(b, i, n) = Append(b, n)
<1>1. Len(b) \in Nat /\ DOMAIN b = 1..Len(b)
  OBVIOUS
<1>2. SetBuffer(b, i, n) = [j \in 1..(Len(b) + 1) |-> IF j = Len(b) + 1 THEN n ELSE b[j]]
  BY <1>1 DEF SetBuffer
<1>3. QED
  BY <1>1, <1>2

(* Where the running operation stands.                                     *)
Here ==
  /\ pc \in Nat \ {0} /\ Op.step \in Step /\ Op.step.op \in Operations
  /\ Sized(Op, size)
  /\ bufs \in Seq(Nat) /\ size \in Seq(Nat)
  /\ Len(bufs) + 1 = Op.dst /\ regs = 1..(Op.reg - 1) /\ Op.reg \in Nat \ {0}
  /\ \A i \in 1..Len(bufs) : bufs[i] <= size[i]
  /\ First(pc + 1) = Op.dst + Len(NewBuffers(Op.step))
  /\ First(pc + 1) <= Len(size) + 1
  /\ FirstReg(pc + 1) = Op.reg + Len(NewRegisters(Op.step))
  /\ DOMAIN Op.src = UsedBuffers(Op.step)
  /\ \A n \in DOMAIN Op.src : Op.src[n] \in 1..Len(bufs)
  /\ Op.reads \subseteq regs

LEMMA IsHere ==
  ASSUME DataInv, pc <= Len(ops)
  PROVE  Here
<1>1. Len(ops) \in Nat /\ pc \in Nat \ {0} /\ Placed(pc) /\ size \in Seq(Nat)
  BY DEF DataInv, Compiled
<1>2. First(pc) = Op.dst /\ FirstReg(pc) = Op.reg
  BY DEF First, FirstReg, Op
<1>3. Op.step \in Step
  BY <1>1, ProgramAssumption DEF Placed, Op
<1>4. Op.step.op \in Operations
  BY <1>3, StepKinds
<1>5. /\ bufs \in Seq(Nat) /\ Len(bufs) = Op.dst - 1 /\ regs = 1..(Op.reg - 1)
      /\ \A i \in 1..Len(bufs) : bufs[i] <= size[i]
  BY <1>2 DEF DataInv, SetBefore
<1>6. Op.dst \in Nat \ {0} /\ Op.reg \in Nat \ {0}
  BY <1>1, <1>2 DEF Placed
<1>7. Len(bufs) + 1 = Op.dst
  BY <1>5, <1>6
<1>8. /\ Sized(Op, size)
      /\ First(pc + 1) = Op.dst + Len(NewBuffers(Op.step))
      /\ First(pc + 1) <= Len(size) + 1
      /\ FirstReg(pc + 1) = Op.reg + Len(NewRegisters(Op.step))
      /\ DOMAIN Op.src = UsedBuffers(Op.step)
      /\ \A n \in DOMAIN Op.src : Op.src[n] \in 1..(Op.dst - 1)
      /\ Op.reads \subseteq 1..(Op.reg - 1)
  BY <1>1, <1>2, Zenon DEF Placed, Op
<1>9. QED
  BY <1>1, <1>3, <1>4, <1>5, <1>6, <1>7, <1>8 DEF Here

(* The registers of an operation are set when it is done.                  *)
LEMMA RegistersSet ==
  ASSUME Here
  PROVE  /\ Len(NewRegisters(Op.step)) = 0 => regs = 1..(FirstReg(pc + 1) - 1)
         /\ Len(NewRegisters(Op.step)) = 1 => regs \cup {Op.reg} = 1..(FirstReg(pc + 1) - 1)
         /\ Len(NewRegisters(Op.step)) = 2 =>
              regs \cup {Op.reg, Op.reg + 1} = 1..(FirstReg(pc + 1) - 1)
<1>1. \A n \in Nat \ {0} : /\ 1..(n - 1) = 1..((n + 0) - 1)
                           /\ 1..(n - 1) \cup {n} = 1..((n + 1) - 1)
                           /\ 1..(n - 1) \cup {n, n + 1} = 1..((n + 2) - 1)
  OBVIOUS
<1>2. QED
  BY <1>1, Zenon DEF Here

LEMMA SetNone ==
  ASSUME Here, NewBuffers(Op.step) = <<>>, NEW r, r = 1..(FirstReg(pc + 1) - 1)
  PROVE  SetBefore(pc + 1, bufs, r)
<1>1. Len(NewBuffers(Op.step)) = 0
  OBVIOUS
<1>2. Len(bufs) \in Nat /\ Len(bufs) = First(pc + 1) - 1
  BY <1>1 DEF Here
<1>3. QED
  BY <1>2 DEF Here, SetBefore

LEMMA SetOne ==
  ASSUME Here, Len(NewBuffers(Op.step)) = 1, NEW r, r = 1..(FirstReg(pc + 1) - 1),
         NEW n \in Nat, n <= size[Op.dst]
  PROVE  SetBefore(pc + 1, SetBuffer(bufs, Op.dst, n), r)
<1> DEFINE c == Append(bufs, n)
<1>1. SetBuffer(bufs, Op.dst, n) = c
  BY SetNext DEF Here
<1>2. bufs \in Seq(Nat) /\ Len(bufs) \in Nat /\ Op.dst = Len(bufs) + 1
  BY DEF Here
<1>3. c \in Seq(Nat) /\ Len(c) = Len(bufs) + 1
  BY <1>2
<1>4. c[Op.dst] = n /\ \A i \in 1..Len(bufs) : c[i] = bufs[i]
  BY <1>2
<1> HIDE DEF c
<1>5. \A i \in 1..Len(c) : i \in 1..Len(bufs) \/ i = Op.dst
  BY <1>2, <1>3
<1>6. \A i \in 1..Len(c) : c[i] <= size[i]
  BY <1>4, <1>5 DEF Here
<1>7. Len(c) = First(pc + 1) - 1
  BY <1>2, <1>3 DEF Here
<1>8. QED
  BY <1>1, <1>3, <1>6, <1>7 DEF SetBefore

LEMMA SetTwo ==
  ASSUME Here, Len(NewBuffers(Op.step)) = 2, NEW r, r = 1..(FirstReg(pc + 1) - 1),
         NEW n \in Nat, n <= size[Op.dst], NEW m \in Nat, m <= size[Op.dst + 1]
  PROVE  SetBefore(pc + 1, SetBuffer(SetBuffer(bufs, Op.dst, n), Op.dst + 1, m), r)
<1> DEFINE b == Append(bufs, n)
           c == Append(b, m)
<1>1. SetBuffer(bufs, Op.dst, n) = b
  BY SetNext DEF Here
<1>2. bufs \in Seq(Nat) /\ Len(bufs) \in Nat /\ Op.dst = Len(bufs) + 1
  BY DEF Here
<1>3. b \in Seq(Nat) /\ Len(b) = Len(bufs) + 1
  BY <1>2
<1>4. SetBuffer(b, Op.dst + 1, m) = c
  <2> HIDE DEF b
  <2>1. QED
    BY <1>2, <1>3, SetNext
<1>5. c \in Seq(Nat) /\ Len(c) = Len(bufs) + 2
  BY <1>2
<1>6. c[Op.dst] = n /\ c[Op.dst + 1] = m /\ \A i \in 1..Len(bufs) : c[i] = bufs[i]
  BY <1>2
<1> HIDE DEF c
<1>7. \A i \in 1..Len(c) : i \in 1..Len(bufs) \/ i = Op.dst \/ i = Op.dst + 1
  BY <1>2, <1>5
<1>8. \A i \in 1..Len(c) : c[i] <= size[i]
  BY <1>6, <1>7 DEF Here
<1>9. Len(c) = First(pc + 1) - 1
  BY <1>2, <1>5 DEF Here
<1>10. QED
  BY <1>1, <1>4, <1>5, <1>8, <1>9 DEF SetBefore

LEMMA Division ==
  \A n, m \in Nat :
    n <= m => /\ n \div 2 \in Nat /\ n \div 2 <= m \div 2
              /\ ((n + 2) \div 3) * 4 \in Nat
              /\ ((n + 2) \div 3) * 4 <= ((m + 2) \div 3) * 4
              /\ (3 * n) \div 4 <= m
OBVIOUS

LEMMA Lengths ==
  ASSUME Here
  PROVE  /\ Len(bufs) \in Nat /\ Len(size) \in Nat /\ Len(bufs) <= Len(size)
         /\ Len(NewBuffers(Op.step)) = 1 => Op.dst \in 1..Len(size) /\ size[Op.dst] \in Nat
         /\ \A i \in 1..Len(bufs) : bufs[i] \in Nat /\ size[i] \in Nat /\ bufs[i] <= size[i]
<1>1. Len(NewBuffers(Op.step)) \in Nat
  BY NewNames DEF Here
<1>2. bufs \in Seq(Nat) /\ size \in Seq(Nat)
  BY DEF Here
<1>3. Len(bufs) \in Nat /\ Len(size) \in Nat
  BY <1>2
<1>4. /\ Len(bufs) + 1 = Op.dst
      /\ Op.dst + Len(NewBuffers(Op.step)) <= Len(size) + 1
  BY DEF Here
<1>5. Len(bufs) <= Len(size) /\ (Len(NewBuffers(Op.step)) = 1 => Op.dst \in 1..Len(size))
  BY <1>1, <1>3, <1>4
<1>6. \A i \in 1..Len(bufs) : i \in 1..Len(size)
  BY <1>3, <1>5
<1>7. \A i \in 1..Len(bufs) : bufs[i] \in Nat
  BY <1>2, ElementOfSeq
<1>8. \A i \in 1..Len(size) : size[i] \in Nat
  BY <1>2, ElementOfSeq
<1>9. \A i \in 1..Len(bufs) : bufs[i] <= size[i]
  BY DEF Here
<1>10. QED
  BY <1>3, <1>5, <1>6, <1>7, <1>8, <1>9, Zenon

LEMMA TransformFits ==
  ASSUME Here, Op.step.op = "transform", NEW n \in TransformLengths(Op.step, bufs[Src])
  PROVE  n \in Nat /\ n <= size[Op.dst]
<1> DEFINE s == Op.step
           x == bufs[Src]
           y == size[Src]
<1>1. /\ s.kind \in {"hex", "decode", "encode", "rc4", "msgpack", "gzip"}
      /\ s.kind = "gzip" => s.max \in Nat
  BY StepFields DEF Here
<1>2. Src \in 1..Len(bufs)
  BY SourceUsed DEF Here, Src
<1>3. x \in Nat /\ y \in Nat /\ x <= y
  BY <1>2, Lengths
<1>4. /\ s.kind = "hex" => size[Op.dst] = y \div 2
      /\ s.kind = "encode" => size[Op.dst] = ((y + 2) \div 3) * 4
      /\ s.kind \in {"decode", "rc4", "msgpack"} => size[Op.dst] = y
      /\ s.kind = "gzip" => size[Op.dst] = s.max
  BY DEF Here, Sized, Src
<1>5. n \in TransformLengths(s, x)
  OBVIOUS
<1> HIDE DEF s, x, y
<1>6. CASE s.kind = "hex"
  <2>1. n = x \div 2
    BY <1>5, <1>6 DEF TransformLengths
  <2>2. QED
    BY <1>3, <1>4, <1>6, <2>1, Division
<1>7. CASE s.kind = "encode"
  <2>1. n = ((x + 2) \div 3) * 4
    BY <1>5, <1>7 DEF TransformLengths
  <2>2. ((x + 2) \div 3) * 4 \in Nat /\ ((x + 2) \div 3) * 4 <= ((y + 2) \div 3) * 4
    BY <1>3, Division, Zenon
  <2>3. QED
    BY <1>4, <1>7, <2>1, <2>2, Zenon
<1>8. CASE s.kind = "decode"
  <2>1. n \in 0..((3 * x) \div 4)
    BY <1>5, <1>8 DEF TransformLengths
  <2>2. n \in Nat /\ n <= y
    BY <1>3, <2>1
  <2>3. QED
    BY <1>4, <1>8, <2>2
<1>9. CASE s.kind = "rc4"
  <2>1. n = x
    BY <1>5, <1>9 DEF TransformLengths
  <2>2. QED
    BY <1>3, <1>4, <1>9, <2>1
<1>10. CASE s.kind = "msgpack"
  <2>1. n \in 0..(x - 1)
    BY <1>5, <1>10 DEF TransformLengths
  <2>2. n \in Nat /\ n <= y
    BY <1>3, <2>1
  <2>3. QED
    BY <1>4, <1>10, <2>2
<1>11. CASE s.kind = "gzip"
  <2>1. n \in 0..s.max
    BY <1>5, <1>11 DEF TransformLengths
  <2>2. QED
    BY <1>1, <1>4, <1>11, <2>1
<1>12. QED
  BY <1>1, <1>6, <1>7, <1>8, <1>9, <1>10, <1>11

LEMMA ConcatFits ==
  ASSUME Here, Op.step.op = "concat", NEW lengths,
         lengths = [i \in DOMAIN Op.step.sources |-> bufs[Op.src[Op.step.sources[i]]]]
  PROVE  /\ \A i \in DOMAIN Op.step.sources : Op.src[Op.step.sources[i]] \in 1..Len(bufs)
         /\ Total(lengths) \in Nat /\ Total(lengths) <= size[Op.dst]
         /\ size[Op.dst] <= MaxBuffer
<1> DEFINE sources == Op.step.sources
           src(i)  == Op.src[sources[i]]
           sizes   == [i \in DOMAIN sources |-> size[src(i)]]
<1>1. Op.step \in Step /\ DOMAIN Op.src = UsedBuffers(Op.step)
  BY DEF Here
<1>2. sources \in Seq(Name) /\ \A i \in 1..Len(sources) : sources[i] \in UsedBuffers(Op.step)
  BY <1>1, SourceUsed
<1>3. DOMAIN sources = 1..Len(sources) /\ Len(sources) \in Nat
  BY <1>2
<1>4. \A i \in DOMAIN sources : src(i) \in 1..Len(bufs)
  BY <1>1, <1>2, <1>3 DEF Here
<1>6. \A i \in DOMAIN sources : /\ bufs[src(i)] \in Nat /\ size[src(i)] \in Nat
                                /\ bufs[src(i)] <= size[src(i)]
  BY <1>4, Lengths
<1>7. /\ lengths \in Seq(Nat) /\ Len(lengths) = Len(sources)
      /\ sizes \in Seq(Nat) /\ Len(sizes) = Len(sources)
  BY SMTT(30), <1>3, <1>6
<1>8. \A i \in 1..Len(lengths) : lengths[i] <= sizes[i]
  BY <1>3, <1>6, <1>7
<1>9. Total(sizes) = size[Op.dst] /\ size[Op.dst] <= MaxBuffer
  BY DEF Here, Sized
<1>10. Len(lengths) <= Len(sizes)
  BY <1>3, <1>7
<1>11. Total(lengths) \in Nat /\ Total(lengths) <= Total(sizes)
  <2> HIDE DEF sizes
  <2>1. QED
    BY <1>7, <1>8, <1>10, TotalMonotone
<1>12. QED
  BY <1>4, <1>9, <1>11

LEMMA FailsIo ==
  ASSUME FailIo PROVE FailsWell
<1>1. PICK e \in IoError : Fail(FromIo(e))
  BY DEF FailIo
<1>2. FromIo(e) # "internal_error"
  BY DEF FromIo, IoError
<1>3. QED
  BY <1>1, <1>2 DEF FailsWell

LEMMA FailsOther ==
  ASSUME NEW f, Fail(f), f # "internal_error" PROVE FailsWell
BY DEF FailsWell

LEMMA Sources ==
  ASSUME Here, Op.step.op \in {"send", "send_http", "transform", "extract"}
  PROVE  Src \in 1..Len(bufs) /\ ~(Src > Len(bufs))
<1>1. Src \in 1..Len(bufs) /\ Len(bufs) \in Nat
  BY SMTT(30), SourceUsed DEF Here, Src
<1>2. QED
  BY <1>1

LEMMA RunOutcome ==
  ASSUME DataInv, phase = "run",
         \/ Reconnect \/ Send \/ Literal \/ Pack \/ Concat \/ Transform \/ PeerCertificate
         \/ Extract \/ Compute \/ RejectIf \/ Match
  PROVE  FailsWell \/ GoesOn \/ Stops
<1>1. pc <= Len(ops)
  BY DEF Reconnect, Send, Literal, Pack, Concat, Transform, PeerCertificate, Extract, Compute,
         RejectIf, Match, IsNow
<1>2. Here /\ Op.step \in Step
  BY <1>1, IsHere DEF Here
<1>3. ASSUME NEW b, NEW r, Advance(b, r), SetBefore(pc + 1, b, r) PROVE GoesOn
  BY <1>1, <1>3 DEF Advance, GoesOn
<1>4. ASSUME Continue, UNCHANGED <<bufs, regs>>,
             NewBuffers(Op.step) = <<>>, NewRegisters(Op.step) = <<>>
      PROVE  GoesOn
  <2>1. SetBefore(pc + 1, bufs, regs)
    BY <1>2, <1>4, RegistersSet, SetNone
  <2>2. QED
    BY <1>1, <1>4, <2>1 DEF GoesOn
<1>5. ASSUME Advance(bufs, regs), NewBuffers(Op.step) = <<>>, NewRegisters(Op.step) = <<>>
      PROVE  GoesOn
  BY <1>4, <1>5 DEF Advance
<1>6. ASSUME NEW n \in Nat, n <= size[Op.dst], StoreBuffer(n), Len(NewBuffers(Op.step)) = 1,
             NewRegisters(Op.step) = <<>>
      PROVE  GoesOn
  BY <1>2, <1>3, <1>6, RegistersSet, SetOne DEF StoreBuffer
<1>7. ASSUME StoreRegister, NewBuffers(Op.step) = <<>>, Len(NewRegisters(Op.step)) = 1
      PROVE  GoesOn
  BY <1>2, <1>3, <1>7, RegistersSet, SetNone DEF StoreRegister
<1>8. ASSUME Fail("internal_error"), Op.step.op \in {"pack", "send_http", "reconnect"}
      PROVE  FailsWell
  BY <1>1, <1>8 DEF FailsWell, MayFail
<1>9. CASE Reconnect
  <2>1. Op.step.op = "reconnect"
    BY <1>9 DEF Reconnect, IsNow
  <2>2. CASE Advance(bufs, regs)
    BY <1>2, <1>5, <2>1, <2>2, NewNames
  <2>3. CASE ConnectFails
    BY <1>8, <2>1, <2>3, FailsIo, FailsOther DEF ConnectFails
  <2>4. QED
    BY <1>9, <2>2, <2>3 DEF Reconnect
<1>10. CASE Send
  <2>1. Op.step.op \in {"send_literal", "send", "send_http"}
    BY <1>10 DEF Send, IsNow
  <2>2. CASE Advance(bufs, regs)
    BY <1>2, <1>5, <2>1, <2>2, NewNames
  <2>3. CASE FailIo
    BY <2>3, FailsIo
  <2>4. CASE Fail("internal_error") /\ Op.step.op = "send_http"
    BY <1>8, <2>4
  <2>5. Op.step.op = "send" => ~(Src > Len(bufs))
    BY <1>2, Sources
  <2>6. QED
    BY <1>10, <2>1, <2>2, <2>3, <2>4, <2>5 DEF Send
<1>11. CASE Literal
  <2>1. Op.step.op = "literal"
    BY <1>11 DEF Literal, IsNow
  <2>2. Op.step.bytes \in Nat /\ Op.step.bytes = size[Op.dst]
    BY <1>2, <2>1, StepFields DEF Here, Sized
  <2>3. Op.step.bytes <= size[Op.dst]
    BY <2>2
  <2>4. QED
    BY <1>2, <1>6, <1>11, <2>1, <2>2, <2>3, NewNames DEF Literal
<1>12. CASE Pack
  <2>1. Op.step.op = "pack"
    BY <1>12 DEF Pack, IsNow
  <2>2. Op.step.width \in Nat /\ Op.step.width = size[Op.dst]
    BY SMTT(30), <1>2, <2>1, StepFields, ProgramAssumption DEF Here, Sized
  <2>3. Op.step.width <= size[Op.dst]
    BY <2>2
  <2>4. QED
    BY <1>2, <1>6, <1>8, <1>12, <2>1, <2>2, <2>3, NewNames DEF Pack
<1>13. CASE Concat
  <2>1. Op.step.op = "concat"
    BY <1>13 DEF Concat, IsNow
  <2> DEFINE lengths == [i \in DOMAIN Op.step.sources |-> bufs[Op.src[Op.step.sources[i]]]]
  <2>2. /\ \A i \in DOMAIN Op.step.sources : Op.src[Op.step.sources[i]] \in 1..Len(bufs)
        /\ Total(lengths) \in Nat /\ Total(lengths) <= size[Op.dst]
        /\ size[Op.dst] <= MaxBuffer
    BY <1>2, <2>1, ConcatFits
  <2>3. Len(bufs) \in Nat /\ size[Op.dst] \in Nat
    BY <1>2, <2>1, NewNames, Lengths
  <2>4. ~\E i \in DOMAIN Op.step.sources : Op.src[Op.step.sources[i]] > Len(bufs)
    <3>1. \A n \in Nat : \A i \in 1..n : ~(i > n)
      OBVIOUS
    <3>2. QED
      BY <2>2, <2>3, <3>1, Zenon
  <2>5. ~(Total(lengths) > MaxBuffer)
    <3>1. \A n, m, k \in Nat : n <= m /\ m <= k => ~(n > k)
      OBVIOUS
    <3>2. QED
      BY <2>2, <2>3, <3>1, ProgramAssumption, Zenon
  <2>6. StoreBuffer(Total(lengths))
    BY <1>13, <2>4, <2>5 DEF Concat
  <2> HIDE DEF lengths
  <2>7. QED
    BY <1>2, <1>6, <2>1, <2>2, <2>6, NewNames
<1>14. CASE Transform
  <2>1. Op.step.op = "transform"
    BY <1>14 DEF Transform, IsNow
  <2>2. ~(Src > Len(bufs))
    BY <1>2, <2>1, Sources
  <2>3. CASE \E n \in TransformLengths(Op.step, bufs[Src]) : StoreBuffer(n)
    BY <1>2, <1>6, <2>1, <2>3, TransformFits, NewNames
  <2>4. CASE Fail("invalid_response")
    BY <2>4, FailsOther
  <2>5. QED
    BY <1>14, <2>2, <2>3, <2>4 DEF Transform
<1>15. CASE PeerCertificate
  <2>1. Op.step.op = "peer_certificate"
    BY <1>15 DEF PeerCertificate, IsNow
  <2>2. Hash \in Nat /\ Hash = size[Op.dst] /\ Hash <= size[Op.dst]
    BY <1>2, <2>1, ProgramAssumption DEF Here, Sized
  <2>3. SetBefore(pc + 1, SetBuffer(bufs, Op.dst, Hash), regs)
    BY <1>2, <2>1, <2>2, NewNames, RegistersSet, SetOne
  <2>4. QED
    BY <1>1, <1>15, <2>3, FailsOther DEF PeerCertificate, GoesOn
<1>16. CASE Extract
  <2>1. Op.step.op = "extract"
    BY <1>16 DEF Extract, IsNow
  <2>2. ~(Src > Len(bufs))
    BY <1>2, <2>1, Sources
  <2>3. QED
    BY <1>2, <1>7, <1>16, <2>1, <2>2, NewNames, FailsOther DEF Extract
<1>17. CASE Compute
  <2>1. Op.step.op = "compute"
    BY <1>17 DEF Compute, IsNow
  <2>2. QED
    BY <1>2, <1>7, <1>17, <2>1, NewNames DEF Compute
<1>18. CASE RejectIf
  <2>1. Op.step.op = "reject_if" /\ UNCHANGED <<bufs, regs>>
    BY <1>18 DEF RejectIf, IsNow
  <2>2. Continue \/ Stops
    BY <1>18 DEF RejectIf, Stops
  <2>3. QED
    BY <1>2, <1>4, <2>1, <2>2, NewNames
<1>19. CASE Match
  <2>1. Op.step.op = "match" /\ UNCHANGED <<bufs, regs>> /\ Continue
    BY <1>19 DEF Match, IsNow
  <2>2. QED
    BY <1>2, <1>4, <2>1, NewNames
<1>20. QED
  BY <1>9, <1>10, <1>11, <1>12, <1>13, <1>14, <1>15, <1>16, <1>17, <1>18, <1>19

LEMMA ReceiveOutcome ==
  ASSUME DataInv, Receive
  PROVE  ReadsOn
<1>1. phase = "run" /\ pc <= Len(ops) /\ Op.step.op \in ReadKinds
  BY DEF Receive, IsNow, ReadKinds
<1>2. Here /\ Op.step \in Step
  BY <1>1, IsHere DEF Here
<1>3. /\ phase' = "read" /\ call' = FirstCall(Op.step) /\ got' = 0 /\ parts' = <<>>
      /\ UNCHANGED <<programVars, pc, bufs, regs, out>>
  BY DEF Receive, Read
<1>4. UNCHANGED <<size, ops, pc>> /\ Op' = Op
  BY <1>3 DEF programVars, Op
<1>5. FirstCall(Op.step).max \in Nat \ {0}
  <2>1. /\ Op.step.op = "recv_exact" => Op.step.bytes \in 1..MaxBuffer
        /\ Op.step.op \in {"recv_up_to", "recv_frame"} =>
             1 <= Op.step.min /\ Op.step.min <= Op.step.max
        /\ Op.step.op = "recv_until" => 1 <= Op.step.max
        /\ Op.step.op = "recv_http" => 1 <= Op.step.max_header
    BY <1>2, Zenon DEF Here, Sized, ValidDynamic
  <2>2. /\ Op.step.op \in {"recv_up_to", "recv_frame"} => Op.step.min \in Nat /\ Op.step.max \in Nat
        /\ Op.step.op = "recv_until" => Op.step.max \in Nat
        /\ Op.step.op = "recv_http" => Op.step.max_header \in Nat
        /\ Op.step.op = "recv_frame" => Op.step.width \in 1..Widest
    BY <1>2, StepFields
  <2>4. MaxBuffer \in Nat /\ Widest \in Nat
    BY ProgramAssumption
  <2>3. QED
    BY <1>1, <2>1, <2>2, <2>4 DEF FirstCall, Exact, UpTo, Until, ReadKinds
<1>6. Op.step.op # "recv_frame" => FirstCall(Op.step).max = size[Op.dst]
  BY <1>1, <1>2 DEF Here, Sized, FirstCall, Exact, UpTo, Until, ReadKinds
<1>7. Op.step.op # "recv_frame" => FirstCall(Op.step).max <= size[Op.dst + 0]
  <2>1. Op.dst + 0 = Op.dst
    <3>1. Op.dst \in Nat
      BY <1>2, Lengths DEF Here
    <3>2. QED
      BY <3>1
  <2>2. \A n \in Nat : n <= n
    OBVIOUS
  <2>3. QED
    BY <1>5, <1>6, <2>1, <2>2
<1>8. Len(<<>>) = 0
  OBVIOUS
<1>9. ReadFits'
  BY <1>3, <1>4, <1>5, <1>7, <1>8 DEF ReadFits
<1>10. QED
  BY <1>3, <1>9 DEF ReadsOn

LEMMA ReturnsOutcome ==
  ASSUME DataInv, Reading, phase = "read", NEW n \in Nat, n <= call.max, Returns(n)
  PROVE  FailsWell \/ GoesOn \/ ReadsOn
<1>1. pc <= Len(ops) /\ Op.step.op \in ReadKinds
  BY DEF Reading
<1>2. Here /\ Op.step \in Step /\ Op.dst \in Nat
  BY SMTT(30), <1>1, IsHere, Lengths DEF Here
<1>3. ReadFits
  BY DEF DataInv
<1>4. ASSUME NEW b, NEW r, Store(b, r), SetBefore(pc + 1, b, r) PROVE GoesOn
  BY <1>1, <1>4 DEF Store, GoesOn
<1>5. Op.dst + 0 = Op.dst /\ Len(<<>>) = 0
  BY <1>2
<1>6. ASSUME NEW c, NEW x \in Nat, Read(c, <<x>>), c.max \in Nat \ {0},
             Op.step.op \in {"recv_frame", "recv_http"},
             Op.step.op = "recv_frame" => c.max <= size[Op.dst],
             Op.step.op = "recv_http" => c.max <= size[Op.dst + 1] /\ x <= size[Op.dst]
      PROVE  ReadsOn
  <2>1. /\ phase' = "read" /\ call' = c /\ got' = 0 /\ parts' = <<x>>
        /\ UNCHANGED <<programVars, pc, bufs, regs, out>>
    BY <1>6 DEF Read
  <2>2. UNCHANGED <<size, ops, pc>> /\ Op' = Op
    BY <2>1 DEF programVars, Op
  <2>3. Len(parts') = 1 /\ parts'[1] = x
    BY <2>1
  <2>4. ReadFits'
    BY <1>6, <2>1, <2>2, <2>3 DEF ReadFits
  <2>5. QED
    BY <2>1, <2>4 DEF ReadsOn
<1>7. \A x, y, z \in Nat : x <= y /\ y <= z => x <= z
  OBVIOUS
<1>8. CASE Op.step.op \in {"recv_exact", "recv_up_to", "recv_until"}
  <2>1. parts = <<>> /\ call.max \in Nat /\ call.max <= size[Op.dst + Len(parts)]
    BY <1>3, <1>8 DEF ReadFits
  <2>2. Len(NewBuffers(Op.step)) = 1 /\ NewRegisters(Op.step) = <<>>
    BY <1>2, <1>8, NewNames
  <2>3. size[Op.dst] \in Nat
    BY <1>2, <2>2, Lengths
  <2>4. n <= size[Op.dst]
    BY <1>5, <1>7, <2>1, <2>3
  <2>5. SetBefore(pc + 1, SetBuffer(bufs, Op.dst, n), regs)
    BY <1>2, <2>2, <2>4, RegistersSet, SetOne
  <2>6. QED
    BY <1>4, <1>8, <2>5 DEF Returns
<1>9. CASE Op.step.op = "recv_frame"
  <2>1. /\ Len(NewBuffers(Op.step)) = 1 /\ Len(NewRegisters(Op.step)) = 1
        /\ size[Op.dst] \in Nat
    BY <1>2, <1>9, NewNames, Lengths
  <2>2. CASE parts = <<>>
    <3>1. FrameHeader
      BY <1>9, <2>2 DEF Returns
    <3>2. got \in Nat
      BY <1>3 DEF ReadFits
    <3>3. ASSUME NEW m \in Op.step.min..Op.step.max, Read(Exact(m), <<got>>) PROVE ReadsOn
      <4>1. /\ Op.step.max = size[Op.dst] /\ 1 <= Op.step.min
            /\ Op.step.min \in Nat /\ Op.step.max \in Nat
        BY <1>2, <1>9, StepFields DEF Here, Sized, ValidDynamic
      <4>2. m \in Nat \ {0} /\ m <= Op.step.max
        BY <3>3, <4>1
      <4>3. Exact(m).max = m
        BY DEF Exact
      <4>4. m <= size[Op.dst]
        BY <4>1, <4>2
      <4>5. QED
        BY <1>6, <1>9, <3>2, <3>3, <4>2, <4>3, <4>4
    <3>4. QED
      BY <3>1, <3>3, FailsOther DEF FrameHeader
  <2>3. CASE parts # <<>>
    <3>1. Store(SetBuffer(bufs, Op.dst, n), regs \cup {Op.reg})
      BY <1>9, <2>3 DEF Returns
    <3>2. call.max \in Nat /\ call.max <= size[Op.dst]
      BY <1>3, <1>9, <2>3 DEF ReadFits
    <3>3. n <= size[Op.dst]
      BY <1>7, <2>1, <3>2
    <3>4. SetBefore(pc + 1, SetBuffer(bufs, Op.dst, n), regs \cup {Op.reg})
      BY <1>2, <2>1, <3>3, RegistersSet, SetOne
    <3>5. QED
      BY <1>4, <3>1, <3>4
  <2>4. QED
    BY <2>2, <2>3
<1>10. CASE Op.step.op = "recv_http"
  <2>1. /\ Len(NewBuffers(Op.step)) = 2 /\ Len(NewRegisters(Op.step)) = 2
        /\ size[Op.dst] = Op.step.max_header /\ Op.step.max_header \in Nat
        /\ size[Op.dst + 1] = Op.step.max_body /\ Op.step.max_body \in Nat
    BY <1>2, <1>10, NewNames, StepFields DEF Here, Sized
  <2>2. ASSUME NEW header \in Nat, header <= size[Op.dst],
               NEW body \in Nat, body <= size[Op.dst + 1], StoreHttp(header, body)
        PROVE  GoesOn
    <3>1. SetBefore(pc + 1, SetBuffer(SetBuffer(bufs, Op.dst, header), Op.dst + 1, body),
                    regs \cup {Op.reg, Op.reg + 1})
      BY <1>2, <2>1, <2>2, RegistersSet, SetTwo
    <3>2. QED
      BY <1>4, <2>2, <3>1 DEF StoreHttp
  <2>3. CASE parts = <<>>
    <3>1. HttpHeader(n)
      BY <1>10, <2>3 DEF Returns
    <3>2. call.max \in Nat /\ call.max <= size[Op.dst + Len(parts)]
      BY <1>3, <1>10 DEF ReadFits
    <3>3. n <= size[Op.dst]
      BY <1>5, <1>7, <2>1, <2>3, <3>2
    <3>4. CASE Fail("invalid_response")
      BY <3>4, FailsOther
    <3>5. CASE StoreHttp(n, 0)
      <4>1. 0 \in Nat /\ 0 <= size[Op.dst + 1]
        BY <2>1
      <4>2. QED
        BY <2>2, <3>3, <3>5, <4>1
    <3>6. ASSUME NEW m \in 1..Op.step.max_body, Read(Exact(m), <<n>>) PROVE ReadsOn
      <4>1. m \in Nat \ {0} /\ m <= size[Op.dst + 1] /\ Exact(m).max = m
        BY <2>1, <3>6 DEF Exact
      <4>2. QED
        BY <1>6, <1>10, <3>3, <3>6, <4>1
    <3>7. ASSUME Op.step.max_body # 0, Read(UpTo(1, Op.step.max_body), <<n>>) PROVE ReadsOn
      <4>1. /\ Op.step.max_body \in Nat \ {0} /\ Op.step.max_body <= size[Op.dst + 1]
            /\ UpTo(1, Op.step.max_body).max = Op.step.max_body
        BY <2>1, <3>7 DEF UpTo
      <4>2. QED
        BY <1>6, <1>10, <3>3, <3>7, <4>1
    <3>8. QED
      BY <3>1, <3>4, <3>5, <3>6, <3>7 DEF HttpHeader
  <2>4. CASE parts # <<>>
    <3>1. StoreHttp(parts[1], n)
      BY <1>10, <2>4 DEF Returns
    <3>2. /\ Len(parts) = 1 /\ parts[1] \in Nat /\ parts[1] <= size[Op.dst]
          /\ call.max \in Nat /\ call.max <= size[Op.dst + 1]
      BY <1>3, <1>10, <2>4 DEF ReadFits
    <3>3. n <= size[Op.dst + 1]
      BY <1>7, <2>1, <3>2
    <3>4. QED
      BY <2>2, <3>1, <3>2, <3>3
  <2>5. QED
    BY <2>3, <2>4
<1>11. QED
  BY <1>1, <1>8, <1>9, <1>10 DEF ReadKinds

LEMMA ReadOutcome ==
  ASSUME DataInv, Reading, phase = "read", Data \/ Tick \/ Deadline \/ PeerCloses \/ ReadError
  PROVE  FailsWell \/ GoesOn \/ ReadsOn
<1>1. got \in Nat /\ call.max \in Nat /\ got < call.max
  BY DEF DataInv, ReadFits
<1>2. got <= call.max /\ got + 1 \in Nat /\ got + 1 <= call.max /\ call.max <= call.max
  BY <1>1
<1>3. ASSUME NEW n \in Nat, n < call.max, NEW t, Keep(n, t) PROVE ReadsOn
  <2>1. /\ phase' = "read" /\ got' = n
        /\ UNCHANGED <<programVars, pc, bufs, regs, out, call, parts>>
    BY <1>3 DEF Keep
  <2>2. UNCHANGED <<size, ops, pc>> /\ Op' = Op
    BY <2>1 DEF programVars, Op
  <2>3. ReadFits'
    BY <1>1, <1>3, <2>1, <2>2 DEF ReadFits, DataInv
  <2>4. QED
    BY <2>1, <2>3 DEF ReadsOn
<1>4. ASSUME StopUpTo PROVE FailsWell \/ GoesOn \/ ReadsOn
  BY <1>1, <1>2, <1>4, ReturnsOutcome, FailsOther DEF StopUpTo
<1>5. CASE Data
  BY <1>1, <1>2, <1>3, <1>5, ReturnsOutcome, FailsOther DEF Data
<1>6. CASE Tick
  BY <1>1, <1>3, <1>6 DEF Tick
<1>7. CASE Deadline
  BY <1>4, <1>7, FailsOther DEF Deadline
<1>8. CASE PeerCloses
  BY <1>4, <1>8, FailsOther DEF PeerCloses, FromIo
<1>9. CASE ReadError
  BY <1>9, FailsIo DEF ReadError
<1>10. QED
  BY <1>5, <1>6, <1>7, <1>8, <1>9

LEMMA ConnectOutcome ==
  ASSUME DataInv, VerdictInv, Connect
  PROVE  FailsWell \/ Starts
<1>1. phase = "connect" /\ pc = 1
  BY DEF Connect, DataInv
<1>2. MayFail
  <2>1. HasMatch /\ \E S : ops \in Seq(S)
    BY <1>1 DEF VerdictInv, Active
  <2>2. pc <= Len(ops)
    BY <1>1, <2>1 DEF HasMatch
  <2>3. QED
    BY <1>1, <2>2 DEF MayFail
<1>3. CASE ConnectFails
  BY <1>2, <1>3, FailsIo DEF ConnectFails, FailsWell
<1>4. CASE ~ConnectFails
  BY <1>4 DEF Connect, Starts, runVars
<1>5. QED
  BY <1>3, <1>4

LEMMA DataStep == Reading /\ VerdictInv /\ DataInv /\ [Next]_vars => DataInv'
<1> SUFFICES ASSUME Reading, VerdictInv, DataInv, [Next]_vars PROVE DataInv'
  OBVIOUS
<1>1. CASE UNCHANGED vars
  BY <1>1 DEF vars, runVars, programVars, readVars, DataInv, Compiled, Placed, First, FirstReg,
              SetBefore, ReadFits, MayFail, Op
<1>2. CASE CompileStep \/ EndCompile
  BY <1>2, DataCompile
<1>3. CASE Connect
  BY <1>3, ConnectOutcome, OutcomeKeeps DEF Connect
<1>4. CASE \/ Reconnect \/ Send \/ Literal \/ Pack \/ Concat \/ Transform \/ PeerCertificate
           \/ Extract \/ Compute \/ RejectIf \/ Match
  <2>1. phase = "run"
    BY <1>4 DEF Reconnect, Send, Literal, Pack, Concat, Transform, PeerCertificate, Extract,
                Compute, RejectIf, Match, IsNow
  <2>2. QED
    BY <1>4, <2>1, RunOutcome, OutcomeKeeps
<1>5. CASE Finish
  <2>1. Stops /\ phase = "run"
    BY <1>5 DEF Finish, Stops
  <2>2. QED
    BY <2>1, OutcomeKeeps
<1>6. CASE Receive
  BY <1>6, ReceiveOutcome, OutcomeKeeps DEF Receive, IsNow
<1>7. CASE Data \/ Tick \/ Deadline \/ PeerCloses \/ ReadError
  <2>1. phase = "read"
    BY <1>7 DEF Data, Tick, Deadline, PeerCloses, ReadError
  <2>2. QED
    BY <1>7, <2>1, ReadOutcome, OutcomeKeeps
<1>8. QED
  BY <1>1, <1>2, <1>3, <1>4, <1>5, <1>6, <1>7 DEF Next, Ended

ProgramInv == Reading /\ VerdictInv /\ DataInv

LEMMA ProgramInvariant == Spec => []ProgramInv
<1>1. Init => ProgramInv
  BY ReadingInit, VerdictInit, DataInit DEF ProgramInv
<1>2. ProgramInv /\ [Next]_vars => ProgramInv'
  BY ReadingStep, VerdictStep, DataStep DEF ProgramInv
<1>3. QED
  BY <1>1, <1>2, PTL DEF Spec

(* compile() of dsl/compiler.rs against run() of probe/executor.rs: for    *)
(* every document, every peer and every bound, each buffer a probe holds   *)
(* is within the size the compiler gave it, and all of them together are   *)
(* within the budget.                                                      *)
THEOREM BuffersCorrect == Spec => []BuffersFit
<1>1. ProgramInv => BuffersFit
  <2> SUFFICES ASSUME ProgramInv PROVE BuffersFit
    OBVIOUS
  <2>1. /\ bufs \in Seq(Nat) /\ size \in Seq(Nat) /\ \A i \in 1..Len(bufs) : bufs[i] <= size[i]
        /\ Len(bufs) = First(pc) - 1 /\ pc \in 1..(Len(ops) + 1)
    BY DEF ProgramInv, DataInv, SetBefore, Compiled
  <2>2. Len(bufs) <= Len(size)
    <3>1. CASE pc <= Len(ops)
      BY <3>1, IsHere, Lengths DEF ProgramInv
    <3>2. CASE ~(pc <= Len(ops))
      BY <2>1, <3>2 DEF First
    <3>3. QED
      BY <3>1, <3>2
  <2>3. Total(bufs) \in Nat /\ Total(size) \in Nat /\ Total(bufs) <= Total(size)
    BY <2>1, <2>2, TotalMonotone
  <2>4. Total(bufs) <= Budget
    <3>1. CASE phase \in {"compile", "refused"}
      BY <3>1, EmptyBefore, TotalEmpty, ProgramAssumption DEF ProgramInv, DataInv
    <3>2. CASE phase \notin {"compile", "refused"}
      <4>1. Total(size) <= Budget
        BY <3>2 DEF ProgramInv, DataInv
      <4>2. QED
        BY <2>3, <4>1, ProgramAssumption
    <3>3. QED
      BY <3>1, <3>2
  <2>5. phase = "read" /\ Op.step.op # "recv_frame" => got <= size[Op.dst + Len(parts)]
    <3> SUFFICES ASSUME phase = "read", Op.step.op # "recv_frame"
                 PROVE  got <= size[Op.dst + Len(parts)]
      OBVIOUS
    <3>1. /\ got \in Nat /\ call.max \in Nat /\ got < call.max
          /\ call.max <= size[Op.dst + Len(parts)]
      BY DEF ProgramInv, DataInv, ReadFits
    <3>2. size[Op.dst + Len(parts)] \in Nat
      <4>1. pc <= Len(ops) /\ Op.step.op \in ReadKinds
        BY DEF ProgramInv, Reading
      <4>2. Here /\ Op.step \in Step
        BY <4>1, IsHere DEF ProgramInv, Here
      <4>3. \/ parts = <<>> /\ Len(NewBuffers(Op.step)) \in {1, 2}
            \/ Len(parts) = 1 /\ Len(NewBuffers(Op.step)) = 2
        BY <4>1, <4>2, NewNames DEF ProgramInv, DataInv, ReadFits, ReadKinds
      <4>4. /\ Op.dst \in Nat \ {0} /\ Len(size) \in Nat
            /\ Op.dst + Len(NewBuffers(Op.step)) <= Len(size) + 1
        <5>1. Len(bufs) \in Nat /\ Len(size) \in Nat
          BY <4>2, Lengths
        <5>2. Len(bufs) + 1 = Op.dst
          BY <4>2 DEF Here
        <5>3. Op.dst + Len(NewBuffers(Op.step)) <= Len(size) + 1
          BY <4>2 DEF Here
        <5>4. QED
          BY <5>1, <5>2, <5>3
      <4>5. Op.dst + Len(parts) \in 1..Len(size)
        <5>1. CASE parts = <<>> /\ Len(NewBuffers(Op.step)) = 1
          BY <4>4, <5>1
        <5>2. CASE parts = <<>> /\ Len(NewBuffers(Op.step)) = 2
          BY <4>4, <5>2
        <5>3. CASE Len(parts) = 1 /\ Len(NewBuffers(Op.step)) = 2
          BY <4>4, <5>3
        <5>4. QED
          BY <4>3, <5>1, <5>2, <5>3
      <4>6. QED
        BY <2>1, <4>5, ElementOfSeq
    <3>3. QED
      BY <3>1, <3>2
  <2>6. DOMAIN bufs = 1..Len(bufs)
    BY <2>1
  <2>7. QED
    BY <2>1, <2>4, <2>5, <2>6 DEF BuffersFit
<1>2. QED
  BY <1>1, ProgramInvariant, PTL

(* compile() and run(): a program the compiler accepts reads no buffer and *)
(* no register that is not set by then, for every document and every peer; *)
(* an internal error comes only of a value that does not fit its pack, of  *)
(* an oversized request or of a server name; and a run to the end has set  *)
(* all that result.fields may name.                                        *)
THEOREM ReadsCorrect == Spec => []ReadsDefined
<1>1. ProgramInv => ReadsDefined
  <2> SUFFICES ASSUME ProgramInv PROVE ReadsDefined
    OBVIOUS
  <2>1. pc <= Len(ops) => /\ \A n \in DOMAIN Op.src : Op.src[n] <= Len(bufs)
                          /\ Op.reads \subseteq regs
    <3> SUFFICES ASSUME pc <= Len(ops) PROVE /\ \A n \in DOMAIN Op.src : Op.src[n] <= Len(bufs)
                                             /\ Op.reads \subseteq regs
      OBVIOUS
    <3>1. Here
      BY IsHere DEF ProgramInv
    <3>2. Len(bufs) \in Nat
      BY <3>1, Lengths
    <3>3. QED
      BY <3>1, <3>2 DEF Here
  <2>2. out.status = "internal_error" => MayFail
    BY DEF ProgramInv, DataInv
  <2>3. pc > Len(ops) => Len(bufs) = Len(size) /\ regs = DOMAIN regName
    <3> SUFFICES ASSUME pc > Len(ops) PROVE Len(bufs) = Len(size) /\ regs = DOMAIN regName
      OBVIOUS
    <3>1. /\ size \in Seq(Nat) /\ regName \in Seq(Register) /\ pc \in 1..(Len(ops) + 1)
          /\ Len(bufs) = First(pc) - 1 /\ regs = 1..(FirstReg(pc) - 1)
      BY DEF ProgramInv, DataInv, SetBefore, Compiled
    <3>2. Len(ops) \in Nat
      BY DEF ProgramInv, DataInv, Compiled
    <3>3. First(pc) = Len(size) + 1 /\ FirstReg(pc) = Len(regName) + 1
      BY <3>1, <3>2 DEF First, FirstReg
    <3>4. Len(size) \in Nat /\ Len(regName) \in Nat /\ DOMAIN regName = 1..Len(regName)
      BY <3>1
    <3>5. (Len(size) + 1) - 1 = Len(size) /\ (Len(regName) + 1) - 1 = Len(regName)
      BY <3>4
    <3>6. QED
      BY <3>1, <3>3, <3>4, <3>5
  <2>4. QED
    BY <2>1, <2>2, <2>3 DEF ReadsDefined, MayFail
<1>2. QED
  BY <1>1, ProgramInvariant, PTL
=============================================================================
