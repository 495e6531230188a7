-------------------------- MODULE MCProbeLoading ---------------------------
(* Instances of ProbeLoading for TLC: documents that need no parameter,    *)
(* need one or two, with and without a default, or do not compile.         *)
EXTENDS ProbeLoading

(* Letters: any text, one that no declaration allows.                      *)
Letter == 0
Bad == -1

Text(params) == <<Letter>> \o params

(* A plain value, one that mentions the other parameter, and one that no   *)
(* declaration allows.                                                     *)
MCValue == {<<>>, <<Letter>>, <<Letter, 2>>, <<Bad>>}

Undeclared == [p \in Param |-> None]
Required == [required |-> TRUE, default |-> None, valid |-> MCValue \ {<<Bad>>}]
Optional == [Required EXCEPT !.required = FALSE]
Defaulted == [Optional EXCEPT !.default = <<Letter>>]
Empty(declaration) == [declaration EXCEPT !.default = <<>>]

MCDoc ==
  LET Document(order, name, parameters, text) ==
        [plan_order |-> order, name |-> name, parameters |-> parameters,
         text |-> text, compiles |-> TRUE]
  IN { Document(1, 1, Undeclared, Text(<<>>)),
       Document(1, 2, Undeclared, Text(<<>>)),
       Document(0, 2, [Undeclared EXCEPT ![1] = Required], Text(<<1>>)),
       Document(0, 1, <<Required, Required>>, Text(<<1, 2>>)),
       Document(0, 1, <<Defaulted, Required>>, Text(<<2, 1>>)),
       Document(1, 1, <<Defaulted, Optional>>, Text(<<1, 2>>)),
       Document(1, 1, <<Required, Optional>>, Text(<<1>>)),
       Document(0, 2, <<Empty(Required), Empty(Optional)>>, Text(<<1, 2>>)),
       [Document(1, 1, Undeclared, Text(<<>>)) EXCEPT !.compiles = FALSE] }
=============================================================================
