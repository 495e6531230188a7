---------------------------- MODULE MCProbeProgram ----------------------------
(* Instances of ProbeProgram for TLC: documents of these steps.            *)
EXTENDS ProbeProgram

Compares(r)       == [regs |-> {r}, parts |-> {}]
LooksAt(b, o, l)  == [regs |-> {}, parts |-> {[source |-> b, offset |-> o, length |-> l]}]
OnRegister(r)     == [regs |-> {r}]

Receives == {
  [op |-> "recv_exact", name |-> "a", bytes |-> 2],
  [op |-> "recv_up_to", name |-> "a", min |-> 2, max |-> 3],
  [op |-> "recv_until", name |-> "a", delimiter |-> 1, max |-> 2],
  [op |-> "recv_frame", name |-> "a", min |-> 1, max |-> 2, reg |-> "x", width |-> 1],
  [op |-> "recv_http", header |-> "a", max_header |-> 2, body |-> "b", max_body |-> 1,
     headers_only |-> FALSE, status |-> "x", content_length |-> "y"],
  [op |-> "recv_http", header |-> "a", max_header |-> 1, body |-> "b", max_body |-> 1,
     headers_only |-> TRUE, status |-> "x", content_length |-> "y"],
  [op |-> "peer_certificate", name |-> "b"]}

Sends == {
  [op |-> "send_literal"], [op |-> "reconnect"],
  [op |-> "send", source |-> "b"], [op |-> "send_http", source |-> "a"]}

Builds == {
  [op |-> "literal", name |-> "a", bytes |-> 4],
  [op |-> "literal", name |-> "b", bytes |-> 5],
  [op |-> "pack", name |-> "b", width |-> 1, wrap |-> FALSE, expr |-> OnRegister("x")],
  [op |-> "pack", name |-> "b", width |-> 1, wrap |-> FALSE, expr |-> [literal |-> "wide"]],
  [op |-> "concat", name |-> "b", sources |-> <<"a", "a">>],
  [op |-> "transform", name |-> "b", source |-> "a", kind |-> "encode"],
  [op |-> "transform", name |-> "b", source |-> "a", kind |-> "hex"],
  [op |-> "transform", name |-> "b", source |-> "a", kind |-> "gzip", offset |-> 1, max |-> 3],
  [op |-> "extract", source |-> "b", reg |-> "y", kind |-> "decimal", offset |-> 1, length |-> 1],
  [op |-> "extract", source |-> "b", reg |-> "y", kind |-> "buffer_len"],
  [op |-> "compute", reg |-> "x", expr |-> OnRegister("y")],
  [op |-> "compute", reg |-> "x", expr |-> OnRegister("x")]}

Judges == {
  [op |-> "reject_if", cond |-> Compares("x")],
  [op |-> "reject_if", cond |-> LooksAt("b", 1, 1)],
  [op |-> "match", cond |-> Compares("y"), confidence |-> FALSE],
  [op |-> "match", cond |-> LooksAt("a", 0, 2), confidence |-> TRUE],
  [op |-> "match", cond |-> LooksAt("a", 0, 0), confidence |-> FALSE]}

(* A number read from an answer that may be shorter than it.               *)
ShortAnswer == {
  [op |-> "recv_up_to", name |-> "a", min |-> 1, max |-> 2],
  [op |-> "extract", source |-> "a", reg |-> "x", kind |-> "number", offset |-> 0, length |-> 2],
  [op |-> "match", cond |-> Compares("x"), confidence |-> FALSE]}

Document == Receives \cup Sends \cup Builds \cup Judges
=============================================================================
