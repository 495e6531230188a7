----------------------------- MODULE ProbeProgram -----------------------------
(***************************************************************************)
(* One probe from its document to its verdict: dsl/compiler.rs compiles    *)
(* the steps, probe/executor.rs runs the compiled operations in order over *)
(* the reads of probe/transport.rs.                                        *)
(*                                                                         *)
(* Bytes are abstracted to lengths, counted in units; the value of a       *)
(* register is left open, so a condition or an expression comes out either *)
(* way.  What counts is which buffers and registers exist, how long they   *)
(* are, how long a read waits, and which of the results is reported.       *)
(*                                                                         *)
(* Faulty variants used by no other definition: EncodedLikeSource,         *)
(* KnownAfterwards, RestartTimer, RejectAndGoOn.                           *)
(***************************************************************************)
EXTENDS Integers, Sequences, FiniteSets, SequencesExt

CONSTANTS
  Name,        (* names of buffers                                          *)
  Register,    (* names of registers                                        *)
  Steps,       (* the steps documents are made of                           *)
  MaxSteps,    (* bound: the length of a document                           *)
  MaxBuffer,   (* MAX_BUFFER_BYTES                                          *)
  Budget,      (* MAX_PROBE_BUFFER_BYTES                                    *)
  Widest,      (* size of the widest number                                 *)
  Hash,        (* size of a SHA-256                                         *)
  ReadTimeout, (* read_timeout, in ticks                                    *)
  Tls          (* the transport is TLS or STARTTLS                          *)

(* A tree of conditions: the registers it compares, and the parts of       *)
(* buffers it looks at (length 0: the whole buffer, whatever its length).  *)
Condition == [regs : SUBSET Register, parts : SUBSET [source : Name, offset : Nat, length : Nat]]

(* A literal that fits the smaller numbers or only the widest one, or an   *)
(* expression over registers.                                              *)
Expr == [literal : {"fits", "wide"}] \cup [regs : SUBSET Register]

Step ==
       [op : {"send_literal", "reconnect"}] \cup [op : {"send", "send_http"}, source : Name]
  \cup [op : {"literal", "recv_exact"}, name : Name, bytes : Nat]
  \cup [op : {"peer_certificate"}, name : Name]
  \cup [op : {"pack"}, name : Name, width : 1..Widest, wrap : BOOLEAN, expr : Expr]
  \cup [op : {"concat"}, name : Name, sources : Seq(Name)]
  \cup [op : {"recv_up_to"}, name : Name, min : Nat, max : Nat]
  \cup [op : {"recv_until"}, name : Name, delimiter : Nat, max : Nat]
  \cup [op : {"recv_frame"}, name : Name, min : Nat, max : Nat, reg : Register, width : 1..Widest]
  \cup [op : {"recv_http"}, header : Name, max_header : Nat, body : Name, max_body : Nat,
        headers_only : BOOLEAN, status : Register, content_length : Register]
  \cup [op : {"transform"}, source : Name, name : Name, kind : {"hex", "decode", "encode", "rc4", "msgpack"}]
  \cup [op : {"transform"}, source : Name, name : Name, kind : {"gzip"}, offset : Nat, max : Nat]
  \cup [op : {"extract"}, source : Name, reg : Register, kind : {"number", "crc32", "decimal"},
        offset : Nat, length : Nat]
  \cup [op : {"extract"}, source : Name, reg : Register, kind : {"buffer_len"}]
  \cup [op : {"compute"}, reg : Register, expr : Expr]
  \cup [op : {"reject_if"}, cond : Condition]
  \cup [op : {"match"}, cond : Condition, confidence : BOOLEAN]

ASSUME ProgramAssumption ==
  /\ Steps \subseteq Step /\ MaxSteps \in Nat /\ MaxBuffer \in Nat \ {0} /\ Budget \in Nat
  /\ Widest \in Nat \ {0} /\ Hash \in 1..MaxBuffer /\ ReadTimeout \in Nat /\ Tls \in BOOLEAN

VARIABLES
  phase,          (* compile, refused, connect, run, read, done             *)
  bufName, size,  (* the names of the buffers and their static sizes        *)
  regName,        (* the names of the registers                             *)
  ops,            (* the compiled operations                                *)
  pc,             (* the operation that runs                                *)
  bufs, regs,     (* lengths of the buffers, the registers set so far       *)
  matched, responsive, override, (* the flags of run(); override_conf is Some *)
  call,           (* the read under way: [mode, min, max]                   *)
  got, waited,    (* what it has read, the time it has taken                *)
  parts,          (* lengths of the reads of this operation that are over   *)
  spent,          (* history: the time all reads of this operation took     *)
  verdicts,       (* history: <<operation, value>> of conditions            *)
  out             (* the ProbeExecution                                     *)

programVars == <<bufName, size, regName, ops>>
flags       == <<matched, responsive, override, verdicts>>
readVars    == <<call, got, waited, parts, spent>>
runVars     == <<pc, bufs, regs, flags, readVars, out>>
vars        == <<phase, programVars, runVars>>

NoCall == [mode |-> "none", min |-> 0, max |-> 0]
NoOut  == [matched |-> FALSE, rejected |-> FALSE, responsive |-> FALSE,
           confidence |-> "zero", status |-> "none"]

Init ==
  /\ phase = "compile"
  /\ bufName = <<>> /\ size = <<>> /\ regName = <<>> /\ ops = <<>>
  /\ pc = 1 /\ bufs = <<>> /\ regs = {}
  /\ matched = FALSE /\ responsive = FALSE /\ override = FALSE /\ verdicts = {}
  /\ call = NoCall /\ got = 0 /\ waited = 0 /\ parts = <<>> /\ spent = 0
  /\ out = NoOut

Sums(s) ==
  LET sum[i \in 0..Len(s)] == IF i = 0 THEN 0 ELSE sum[i - 1] + s[i]
  IN  sum
Total(s) == Sums(s)[Len(s)]

-----------------------------------------------------------------------------
(* compile().                                                              *)

RegsOf(e) == IF "regs" \in DOMAIN e THEN e.regs ELSE {}

(* What a step reads, and what it adds.                                    *)
UsedBuffers(s) ==
  CASE s.op \in {"send", "send_http", "transform", "extract"} -> {s.source}
    [] s.op = "concat" -> ToSet(s.sources)
    [] s.op \in {"reject_if", "match"} -> {p.source : p \in s.cond.parts}
    [] OTHER -> {}
UsedRegisters(s) ==
  CASE s.op \in {"pack", "compute"} -> RegsOf(s.expr)
    [] s.op \in {"reject_if", "match"} -> s.cond.regs
    [] OTHER -> {}
NewRegisters(s) ==
  CASE s.op \in {"recv_frame", "extract", "compute"} -> <<s.reg>>
    [] s.op = "recv_http" -> <<s.status, s.content_length>>
    [] OTHER -> <<>>
NewBuffers(s) ==
  CASE s.op \in {"literal", "pack", "concat", "recv_exact", "recv_up_to", "recv_until",
                 "recv_frame", "peer_certificate", "transform"} -> <<s.name>>
    [] s.op = "recv_http" -> <<s.header, s.body>>
    [] OTHER -> <<>>

Buffer(n)  == CHOOSE i \in DOMAIN bufName : bufName[i] = n
SizeOf(n)  == size[Buffer(n)]

EncodedLikeSource(s) ==
  CASE s.kind = "hex" -> SizeOf(s.source) \div 2
    [] s.kind \in {"decode", "encode", "rc4", "msgpack"} -> SizeOf(s.source)
    [] s.kind = "gzip" -> s.max
TransformedSize(s) ==
  CASE s.kind = "hex" -> SizeOf(s.source) \div 2
    [] s.kind = "encode" -> ((SizeOf(s.source) + 2) \div 3) * 4
    [] s.kind \in {"decode", "rc4", "msgpack"} -> SizeOf(s.source)
    [] s.kind = "gzip" -> s.max

NewSizes(s) ==
  CASE s.op \in {"literal", "recv_exact"} -> <<s.bytes>>
    [] s.op = "pack" -> <<s.width>>
    [] s.op = "concat" -> <<Total([i \in DOMAIN s.sources |-> SizeOf(s.sources[i])])>>
    [] s.op \in {"recv_up_to", "recv_until", "recv_frame"} -> <<s.max>>
    [] s.op = "recv_http" -> <<s.max_header, s.max_body>>
    [] s.op = "peer_certificate" -> <<Hash>>
    [] s.op = "transform" -> <<TransformedSize(s)>>
    [] OTHER -> <<>>

(* The names a step uses are known before it; those it adds are new.       *)
KnownAfterwards(s) ==
  /\ UsedBuffers(s) \subseteq ToSet(bufName)
  /\ UsedRegisters(s) \subseteq ToSet(regName \o NewRegisters(s))
Known(s) ==
  /\ UsedBuffers(s) \subseteq ToSet(bufName)
  /\ UsedRegisters(s) \subseteq ToSet(regName)
Fresh(s) ==
  /\ IsInjective(bufName \o NewBuffers(s))
  /\ IsInjective(regName \o NewRegisters(s))

InRange(n, offset, length) == offset + length <= SizeOf(n)
ValidDynamic(min, max) == 1 <= min /\ min <= max /\ max <= MaxBuffer

Fits(s) == "literal" \in DOMAIN s.expr => s.expr.literal = "fits" \/ s.width = Widest

(* The numeric rules of the step.                                          *)
Valid(s) ==
  CASE s.op \in {"literal", "recv_exact"} -> s.bytes \in 1..MaxBuffer
    [] s.op = "pack" -> s.wrap \/ Fits(s)
    [] s.op = "concat" -> s.sources # <<>> /\ NewSizes(s)[1] <= MaxBuffer
    [] s.op \in {"recv_up_to", "recv_frame"} -> ValidDynamic(s.min, s.max)
    [] s.op = "recv_until" -> ValidDynamic(1, s.max) /\ s.delimiter \in 1..s.max
    [] s.op = "recv_http" -> ValidDynamic(1, s.max_header) /\ s.max_body <= MaxBuffer
    [] s.op = "peer_certificate" -> Tls
    [] s.op = "transform" ->
         /\ s.kind = "gzip" => s.offset < SizeOf(s.source)
         /\ TransformedSize(s) \in 1..MaxBuffer
    [] s.op = "extract" ->
         s.kind # "buffer_len" => s.length # 0 /\ InRange(s.source, s.offset, s.length)
    [] s.op \in {"reject_if", "match"} ->
         \A p \in s.cond.parts : p.length # 0 => InRange(p.source, p.offset, p.length)
    [] OTHER -> TRUE

Refuse == phase' = "refused" /\ bufName' = <<>> /\ size' = <<>> /\ regName' = <<>> /\ ops' = <<>>

(* An operation is its step with the indices the names stand for.          *)
CompileStep ==
  /\ phase = "compile" /\ Len(ops) < MaxSteps
  /\ \E s \in Steps :
       IF Known(s) /\ Fresh(s) /\ Valid(s)
         THEN /\ bufName' = bufName \o NewBuffers(s) /\ size' = size \o NewSizes(s)
              /\ regName' = regName \o NewRegisters(s)
              /\ ops' = Append(ops, [step |-> s,
                   src |-> [n \in UsedBuffers(s) |-> Buffer(n)],
                   reads |-> {i \in DOMAIN regName' : regName'[i] \in UsedRegisters(s)},
                   dst |-> Len(size) + 1, reg |-> Len(regName) + 1])
              /\ phase' = phase
         ELSE Refuse
  /\ UNCHANGED runVars

(* One match step, the budget, and known names in result.fields.           *)
EndCompile ==
  /\ phase = "compile"
  /\ \E field \in {{}} \cup {{n} : n \in Name \cup Register} :
       IF /\ Cardinality({i \in DOMAIN ops : ops[i].step.op = "match"}) = 1
          /\ Total(size) <= Budget
          /\ field \subseteq ToSet(bufName) \cup ToSet(regName)
         THEN phase' = "connect" /\ UNCHANGED programVars
         ELSE Refuse
  /\ UNCHANGED runVars

-----------------------------------------------------------------------------
(* execute() and run().                                                    *)

Op  == ops[pc]
Src == Op.src[Op.step.source]
IsNow(kinds) == phase = "run" /\ pc <= Len(ops) /\ Op.step.op \in kinds

(* from_io.                                                                *)
IoError == {"refused", "reset", "broken_pipe", "timed_out", "eof", "other"}
FromIo(e) ==
  CASE e = "refused" -> "connection_refused"
    [] e \in {"reset", "broken_pipe", "eof"} -> "connection_reset"
    [] e = "timed_out" -> "read_timeout"
    [] e = "other" -> "probe_error"

(* `?`: run() returns the failure, execute() reports it without a match.   *)
Fail(failure) ==
  /\ phase' = "done" /\ out' = [NoOut EXCEPT !.status = failure]
  /\ UNCHANGED <<programVars, pc, bufs, regs, flags, readVars>>
FailIo == \E e \in IoError : Fail(FromIo(e))

(* set: the slots in between are filled with empty buffers.                *)
SetBuffer(b, i, n) ==
  [j \in 1..(IF i > Len(b) THEN i ELSE Len(b)) |->
     IF j = i THEN n ELSE IF j <= Len(b) THEN b[j] ELSE 0]

Continue == phase' = "run" /\ pc' = pc + 1 /\ UNCHANGED <<programVars, out>>
Advance(newBufs, newRegs) ==
  /\ Continue /\ bufs' = newBufs /\ regs' = newRegs
  /\ UNCHANGED <<flags, readVars>>
StoreBuffer(n)  == Advance(SetBuffer(bufs, Op.dst, n), regs)
StoreRegister   == Advance(bufs, regs \cup {Op.reg})

(* connect(), at the start and for every reconnect: the TCP handshake, the *)
(* prelude, the server name and the TLS handshake.                         *)
ConnectFails ==
  \/ FailIo \/ Fail("connect_timeout")
  \/ Tls /\ (Fail("tls_error") \/ Fail("internal_error"))
Connect ==
  /\ phase = "connect"
  /\ \/ phase' = "run" /\ UNCHANGED <<programVars, runVars>>
     \/ ConnectFails
Reconnect == IsNow({"reconnect"}) /\ (Advance(bufs, regs) \/ ConnectFails)

(* build_http_request: at least one unit of header before the body.        *)
TooLarge(body) == body + 1 > MaxBuffer
Send ==
  /\ IsNow({"send_literal", "send", "send_http"})
  /\ IF /\ Op.step.op # "send_literal"
        /\ Src > Len(bufs) \/ (Op.step.op = "send_http" /\ TooLarge(bufs[Src]))
       THEN Fail("internal_error")
       ELSE Advance(bufs, regs) \/ FailIo

Literal == IsNow({"literal"}) /\ StoreBuffer(Op.step.bytes)

(* Without wrap a value that does not fit is an error; any value fits the  *)
(* widest number.                                                          *)
Pack ==
  /\ IsNow({"pack"})
  /\ \/ StoreBuffer(Op.step.width)
     \/ ~Op.step.wrap /\ Op.step.width # Widest /\ "regs" \in DOMAIN Op.step.expr
        /\ Fail("internal_error")

Concat ==
  /\ IsNow({"concat"})
  /\ LET src(i)  == Op.src[Op.step.sources[i]]
         lengths == [i \in DOMAIN Op.step.sources |-> bufs[src(i)]]
     IN IF \/ \E i \in DOMAIN Op.step.sources : src(i) > Len(bufs)
           \/ Total(lengths) > MaxBuffer
          THEN Fail("internal_error")
          ELSE StoreBuffer(Total(lengths))

(* transform(): the lengths that can come out of n units; none if the      *)
(* input is malformed.                                                     *)
TransformLengths(s, n) ==
  CASE s.kind = "hex" -> IF n % 2 = 0 THEN {n \div 2} ELSE {}
    [] s.kind = "decode" -> 0..((3 * n) \div 4)
    [] s.kind = "encode" -> {((n + 2) \div 3) * 4}
    [] s.kind = "rc4" -> {n}
    [] s.kind = "msgpack" -> 0..(n - 1)
    [] s.kind = "gzip" -> IF s.offset < n THEN 0..s.max ELSE {}
Transform ==
  /\ IsNow({"transform"})
  /\ IF Src > Len(bufs)
       THEN Fail("internal_error")
       ELSE \/ \E n \in TransformLengths(Op.step, bufs[Src]) : StoreBuffer(n)
            \/ Op.step.kind \notin {"encode", "rc4"} /\ Fail("invalid_response")

PeerCertificate ==
  /\ IsNow({"peer_certificate"})
  /\ \/ /\ Continue /\ bufs' = SetBuffer(bufs, Op.dst, Hash) /\ responsive' = TRUE
        /\ UNCHANGED <<regs, matched, override, verdicts, readVars>>
     \/ Fail("tls_error")

(* slice: the part lies in the buffer as it was received.                  *)
Slice(i, offset, length) == i <= Len(bufs) /\ offset + length <= bufs[i]

Extract ==
  /\ IsNow({"extract"})
  /\ IF Op.step.kind = "buffer_len"
       THEN IF Src > Len(bufs) THEN Fail("internal_error") ELSE StoreRegister
       ELSE IF Slice(Src, Op.step.offset, Op.step.length)
         THEN StoreRegister \/ (Op.step.kind = "decimal" /\ Fail("invalid_response"))
         ELSE Fail("invalid_response")

Compute == IsNow({"compute"}) /\ StoreRegister

RejectAndGoOn ==
  /\ IsNow({"reject_if"})
  /\ Continue
  /\ \E value \in BOOLEAN : verdicts' = verdicts \cup {<<"reject", value>>}
  /\ UNCHANGED <<bufs, regs, matched, responsive, override, readVars>>
RejectIf ==
  /\ IsNow({"reject_if"})
  /\ \E value \in BOOLEAN :
       /\ verdicts' = verdicts \cup {<<"reject", value>>}
       /\ IF value
            THEN /\ phase' = "done" /\ pc' = pc
                 /\ out' = [matched |-> FALSE, rejected |-> TRUE, responsive |-> responsive,
                            confidence |-> "reject", status |-> "reject"]
                 /\ UNCHANGED programVars
            ELSE Continue
  /\ UNCHANGED <<bufs, regs, matched, responsive, override, readVars>>

Match ==
  /\ IsNow({"match"})
  /\ \E value \in BOOLEAN :
       /\ matched' = value /\ override' = (value /\ Op.step.confidence)
       /\ verdicts' = verdicts \cup {<<"match", value>>}
  /\ Continue
  /\ UNCHANGED <<bufs, regs, responsive, readVars>>

Finish ==
  /\ phase = "run" /\ pc > Len(ops)
  /\ phase' = "done"
  /\ out' = [matched |-> matched, rejected |-> FALSE, responsive |-> responsive,
             confidence |-> IF override THEN "match"
                            ELSE IF matched THEN "declared" ELSE "unmatched",
             status |-> IF matched THEN "declared" ELSE "unmatched"]
  /\ UNCHANGED <<programVars, pc, bufs, regs, flags, readVars>>

-----------------------------------------------------------------------------
(* The reads, each with its own deadline: read_exact, read_up_to and       *)
(* read_until.                                                             *)

Exact(n)        == [mode |-> "exact", min |-> n, max |-> n]
UpTo(min, max)  == [mode |-> "up_to", min |-> min, max |-> max]
Until(min, max) == [mode |-> "until", min |-> min, max |-> max]

Read(newCall, before) ==
  /\ phase' = "read" /\ call' = newCall /\ got' = 0 /\ waited' = 0 /\ parts' = before
  /\ UNCHANGED <<programVars, pc, bufs, regs, flags, out>>

FirstCall(s) ==
  CASE s.op = "recv_exact" -> Exact(s.bytes)
    [] s.op = "recv_up_to" -> UpTo(s.min, s.max)
    [] s.op = "recv_until" -> Until(s.delimiter, s.max)
    [] s.op = "recv_frame" -> Exact(s.width)
    [] s.op = "recv_http"  -> Until(1, s.max_header)
Receive ==
  /\ IsNow({"recv_exact", "recv_up_to", "recv_until", "recv_frame", "recv_http"})
  /\ Read(FirstCall(Op.step), <<>>) /\ spent' = 0

(* The operation has all it reads.                                         *)
Store(newBufs, newRegs) ==
  /\ Continue /\ bufs' = newBufs /\ regs' = newRegs /\ responsive' = TRUE
  /\ call' = NoCall /\ got' = 0 /\ waited' = 0 /\ parts' = <<>> /\ spent' = 0
  /\ UNCHANGED <<matched, override, verdicts>>
StoreHttp(header, body) ==
  Store(SetBuffer(SetBuffer(bufs, Op.dst, header), Op.dst + 1, body),
        regs \cup {Op.reg, Op.reg + 1})

(* The length in a frame's header decides on the read of its body.         *)
FrameHeader ==
  \/ \E n \in Op.step.min..Op.step.max : Read(Exact(n), <<got>>) /\ UNCHANGED spent
  \/ Fail("invalid_response")

(* parse_http_header: malformed, or with a content length that max_body    *)
(* allows, or none.  With headers_only or a length of 0 no body is read.   *)
HttpHeader(n) ==
  \/ Fail("invalid_response")
  \/ StoreHttp(n, 0)
  \/ /\ ~Op.step.headers_only
     /\ \/ \E m \in 1..Op.step.max_body : Read(Exact(m), <<n>>)
        \/ Op.step.max_body # 0 /\ Read(UpTo(1, Op.step.max_body), <<n>>)
     /\ UNCHANGED spent

(* A read returns n units.                                                 *)
Returns(n) ==
  CASE Op.step.op \in {"recv_exact", "recv_up_to", "recv_until"} ->
         Store(SetBuffer(bufs, Op.dst, n), regs)
    [] Op.step.op = "recv_frame" ->
         IF parts = <<>> THEN FrameHeader
         ELSE Store(SetBuffer(bufs, Op.dst, n), regs \cup {Op.reg})
    [] Op.step.op = "recv_http" ->
         IF parts = <<>> THEN HttpHeader(n) ELSE StoreHttp(parts[1], n)

Keep(n, time) ==
  /\ got' = n /\ waited' = time
  /\ UNCHANGED <<phase, programVars, pc, bufs, regs, flags, call, parts, out>>

(* A unit arrives.                                                         *)
RestartTimer ==
  /\ phase = "read"
  /\ \/ got + 1 < call.max /\ Keep(got + 1, 0) /\ UNCHANGED spent
     \/ /\ got + 1 = call.max
        /\ IF call.mode = "until" THEN Fail("invalid_response") ELSE Returns(call.max)
     \/ call.mode = "until" /\ got + 1 >= call.min /\ Returns(got + 1)
Data ==
  /\ phase = "read"
  /\ \/ got + 1 < call.max /\ Keep(got + 1, waited) /\ UNCHANGED spent
     \/ /\ got + 1 = call.max
        /\ IF call.mode = "until" THEN Fail("invalid_response") ELSE Returns(call.max)
     \/ call.mode = "until" /\ got + 1 >= call.min /\ Returns(got + 1)

Tick ==
  /\ phase = "read" /\ waited < ReadTimeout
  /\ Keep(got, waited + 1) /\ spent' = spent + 1

(* read_up_to stops reading and judges what it has.                        *)
StopUpTo ==
  IF got >= call.min THEN Returns(got)
  ELSE Fail(IF got = 0 THEN "read_timeout" ELSE "invalid_response")

Deadline ==
  /\ phase = "read" /\ waited = ReadTimeout
  /\ IF call.mode = "up_to" THEN StopUpTo ELSE Fail("read_timeout")

PeerCloses ==
  /\ phase = "read"
  /\ IF call.mode = "up_to" THEN StopUpTo ELSE Fail(FromIo("eof"))

ReadError == phase = "read" /\ FailIo

-----------------------------------------------------------------------------
Ended == phase \in {"refused", "done"} /\ UNCHANGED vars

Next ==
  \/ CompileStep \/ EndCompile
  \/ Connect \/ Reconnect \/ Send \/ Literal \/ Pack \/ Concat \/ Transform \/ PeerCertificate
  \/ Extract \/ Compute \/ RejectIf \/ Match \/ Finish
  \/ Receive \/ Data \/ Tick \/ Deadline \/ PeerCloses \/ ReadError
  \/ Ended

Spec == Init /\ [][Next]_vars

-----------------------------------------------------------------------------
(* Properties.                                                             *)

(* The sizes the compiler computed bound what the connection really holds, *)
(* through every frame, body and transform: so do the budget and the range *)
(* checks made with them.                                                  *)
BuffersFit ==
  /\ \A i \in DOMAIN bufs : bufs[i] <= size[i]
  /\ Total(bufs) <= Budget
  /\ phase = "read" /\ Op.step.op # "recv_frame" => got <= size[Op.dst + Len(parts)]

(* An accepted program reads no buffer and no register before it is set    *)
(* (a register would silently be 0, a missing buffer an internal error);   *)
(* what is left of internal errors are values of pack that do not fit,     *)
(* oversized requests and server names.  After a run to the end all that   *)
(* result.fields may name is set.                                          *)
ReadsDefined ==
  /\ phase = "run" /\ pc <= Len(ops) =>
       /\ \A n \in DOMAIN Op.src : Op.src[n] <= Len(bufs)
       /\ Op.reads \subseteq regs
  /\ out.status = "internal_error" =>
       /\ pc <= Len(ops)
       /\ Op.step.op \in {"pack", "send_http", "reconnect"} \/ pc = 1
  /\ phase = "done" /\ pc > Len(ops) => Len(bufs) = Len(size) /\ regs = DOMAIN regName

(* A match is reported only if the match condition held in this run and no *)
(* rejecting one did, wherever it stands; its confidence is never left to  *)
(* a probe that did not match, and a failed run claims nothing.            *)
VerdictSound ==
  phase = "done" =>
    /\ out.matched => <<"match", TRUE>> \in verdicts /\ <<"reject", TRUE>> \notin verdicts
    /\ out.rejected <=> <<"reject", TRUE>> \in verdicts
    /\ out.confidence \in {"match", "declared"} <=> out.matched
    /\ out.confidence = "unmatched" => <<"match", FALSE>> \in verdicts

(* A peer that trickles data holds no operation longer than the timeouts   *)
(* of its reads together.                                                  *)
DeadlineHeld == phase = "read" => spent <= ReadTimeout * (Len(parts) + 1)

(* README.md:523, mode `responsive`: "application応答があったprobe", the   *)
(* probes that had an application response.                                *)
AnswerReported == phase = "done" => out.responsive = responsive
=============================================================================
