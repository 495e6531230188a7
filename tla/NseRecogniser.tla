--------------------------- MODULE NseRecogniser ---------------------------
(***************************************************************************)
(* The recogniser of the NSE converter (src/src/nse/mod.rs): it never runs *)
(* the Lua source, it reads it token by token, cuts out the local          *)
(* functions by counting block keywords, counts network calls, and accepts *)
(* the source only when all it looks at is as reviewed.                    *)
(*                                                                         *)
(* The source is any sequence of tokens.  `open' is what the tokens mean   *)
(* to Lua, as long as they are legal Lua; `current', `depth', `body' and   *)
(* `functions' are what local_functions() makes of them.  Sequences that   *)
(* are not legal stand for malformed sources and for comments of several   *)
(* lines, which lex() takes for code from their second line on.            *)
(***************************************************************************)
EXTENDS Integers, Sequences, SequencesExt, FiniteSets

CONSTANTS
  Mode,        \* winos, vvas, n520: one local function, one YAML file each
  Sender,      \* winos, vvas: the modes whose YAML sends
  Xor,         \* xor_payload, the helper whose constants are checked too
  Other,       \* a local function of any other name
  None,
  MaxNesting,  \* bound: blocks open at a time
  MaxSends,    \* bound: calls of socket:send in the source
  MaxReceives  \* bound: calls of socket:receive_bytes in the source

ASSUME NseConstants ==
  /\ IsFiniteSet(Mode) /\ Sender \subseteq Mode
  /\ Xor \notin Mode /\ Other \notin Mode \cup {Xor}
  /\ None \notin Mode \cup {Xor, Other}
  /\ (Mode \cup {Xor, Other, None}) \cap {"end", "until"} = {}
  /\ MaxNesting \in Nat \ {0} /\ MaxSends \in Nat /\ MaxReceives \in Nat

VARIABLES
  phase,      \* where the converter is
  open,       \* the open Lua blocks, outermost first: what closes each, or the
              \* name of the outermost local function
  legal,      \* whether the tokens so far are legal Lua
  current,    \* the local function being cut out, or None
  depth,      \* its open blocks, as counted by their keywords
  body,       \* what its tokens hold so far
  functions,  \* name -> what the tokens of its last definition hold
  sends,      \* calls of socket:send in the source
  receives,   \* calls of socket:receive_bytes in the source
  bundle      \* mode -> number of bytes its YAML receives

scanVars == <<phase, open, legal, current, depth, body, functions, sends, receives, bundle>>

-----------------------------------------------------------------------------
(* Tokens and functions.                                                   *)

Name == Mode \cup {Xor, Other}

(* The first argument of receive_bytes: a literal too small for the fields *)
(* the YAML extracts, or one that will do.                                 *)
Size == {"short", "enough"}

(* What the parsers of the modes look for in the tokens of a function: its *)
(* network calls, the size in its first receive_bytes, and what else its   *)
(* profile requires: constants, strings, connect(...), and that this size  *)
(* is a literal.                                                           *)
Body == [receives : 0..MaxReceives, sends : 0..MaxSends, size : Size \cup {None}, profile : BOOLEAN]

NoTokens == [receives |-> 0, sends |-> 0, size |-> None, profile |-> FALSE]

(* What later checks look at: of xor_payload only its constants.           *)
Checked == Mode \cup {Xor}
Kept(n) == IF n = Xor THEN [NoTokens EXCEPT !.profile = body.profile] ELSE body

(* The keywords that open a block in Lua, and the one that closes it.  The *)
(* converter knows nothing of "repeat".                                    *)
Keyword == {"function", "if", "do", "repeat"}
Closer == {"end", "until"}
ClosedBy(keyword) == IF keyword = "repeat" THEN "until" ELSE "end"
CountedWithRepeat(keyword) == keyword \in Keyword
Counted(keyword) == keyword \in {"function", "if", "do"}

-----------------------------------------------------------------------------
ScanInit ==
  /\ phase = "scan"
  /\ open = <<>> /\ legal = TRUE
  /\ current = None /\ depth = 0 /\ body = NoTokens
  /\ functions = [n \in Checked |-> None]
  /\ sends = 0 /\ receives = 0
  /\ bundle = [m \in Mode |-> None]

(* A block keyword: the converter counts it inside a function it cuts out. *)
OpenBlock(keyword) ==
  /\ phase = "scan" /\ Len(open) < MaxNesting /\ depth < MaxNesting
  /\ depth' = IF current # None /\ Counted(keyword) THEN depth + 1 ELSE depth
  /\ open' = IF legal THEN Append(open, ClosedBy(keyword)) ELSE open
  /\ UNCHANGED <<phase, legal, current, body, functions, sends, receives, bundle>>

(* Whether Lua is inside a local function; only the outermost is kept by   *)
(* its name.                                                               *)
InLocal == \E i \in 1..Len(open) : open[i] \in Name

(* `local function n': the converter starts to cut out a function, unless  *)
(* it is inside one; there the name counts for nothing.                    *)
LocalFunction(n) ==
  /\ phase = "scan" /\ Len(open) < MaxNesting /\ depth < MaxNesting
  /\ IF current = None
     THEN current' = n /\ depth' = 1 /\ body' = NoTokens
     ELSE depth' = depth + 1 /\ UNCHANGED <<current, body>>
  /\ open' = IF ~legal THEN open
             ELSE Append(open, IF InLocal THEN "end" ELSE n)
  /\ UNCHANGED <<phase, legal, functions, sends, receives, bundle>>

(* What Lua makes of a keyword that closes a block: illegal when there is  *)
(* no block, or the innermost one is closed by the other keyword.          *)
Close(closed) ==
  IF legal /\ open # <<>> /\ Last(open) \in closed
  THEN open' = Front(open) /\ UNCHANGED legal
  ELSE open' = <<>> /\ legal' = FALSE

(* `end' outside every local function is skipped by the converter.         *)
End ==
  /\ phase = "scan"
  /\ Close({"end"} \cup Name)
  /\ IF current = None
     THEN UNCHANGED <<current, depth, body, functions>>
     ELSE IF depth > 1
          THEN depth' = depth - 1 /\ UNCHANGED <<current, body, functions>>
          ELSE /\ functions' = IF current \in Checked
                               THEN [functions EXCEPT ![current] = Kept(current)]
                               ELSE functions
               /\ current' = None /\ depth' = 0 /\ body' = NoTokens
  /\ UNCHANGED <<phase, sends, receives, bundle>>

Until ==
  /\ phase = "scan" /\ open # <<>>
  /\ Close({"until"})
  /\ UNCHANGED <<phase, current, depth, body, functions, sends, receives, bundle>>

(* socket:receive_bytes(size), anywhere in the source.                     *)
Receive(size) ==
  /\ phase = "scan" /\ receives < MaxReceives
  /\ receives' = receives + 1
  /\ body' = IF current = None THEN body
             ELSE [body EXCEPT !.receives = @ + 1,
                               !.size = IF @ = None THEN size ELSE @]
  /\ UNCHANGED <<phase, open, legal, current, depth, functions, sends, bundle>>

SendCall ==
  /\ phase = "scan" /\ sends < MaxSends
  /\ sends' = sends + 1
  /\ body' = IF current = None THEN body ELSE [body EXCEPT !.sends = @ + 1]
  /\ UNCHANGED <<phase, open, legal, current, depth, functions, receives, bundle>>

(* The last of the tokens that the profile of the function requires.       *)
Profile ==
  /\ phase = "scan" /\ current # None /\ ~body.profile
  /\ body' = [body EXCEPT !.profile = TRUE]
  /\ UNCHANGED <<phase, open, legal, current, depth, functions, sends, receives, bundle>>

-----------------------------------------------------------------------------
(* The checks at the end of the source.                                    *)

(* No function is left open.                                               *)
FunctionsClosed == current = None

(* The action must compare its mode with each of the three.  The other     *)
(* half of the check, a call `winos(', is met by `local function winos('.  *)
DispatchesModes(compared) == compared = Mode

(* The reviewed source sends twice and receives three times: once for each *)
(* mode that sends, and once for each mode.                                *)
AtLeastExpected == sends >= Cardinality(Sender) /\ receives >= Cardinality(Mode)
CallsExpected == sends = Cardinality(Sender) /\ receives = Cardinality(Mode)

(* Every mode has its function with its profile and a size.                *)
ProfilesFound ==
  /\ \A n \in Checked : functions[n] # None /\ functions[n].profile
  /\ \A m \in Mode : functions[m].size # None

(* What convert_valleyrat knows of the source is gone when it returns.     *)
Dropped ==
  /\ open' = <<>> /\ legal' = TRUE
  /\ current' = None /\ depth' = 0 /\ body' = NoTokens
  /\ functions' = [n \in Checked |-> None]
  /\ sends' = 0 /\ receives' = 0

(* The end of the source: `unsafe' stands for an unknown module, a         *)
(* dangerous name or namespace, an unknown socket method, a cut-out        *)
(* function of a name not allowed, an unterminated string, or a source     *)
(* above 1 MiB.                                                            *)
EndOfSource(unsafe, compared) ==
  /\ phase = "scan"
  /\ IF /\ ~unsafe
        /\ FunctionsClosed
        /\ DispatchesModes(compared)
        /\ CallsExpected
        /\ ProfilesFound
     THEN /\ phase' = "converted"
          /\ bundle' = [m \in Mode |-> functions[m].size]
          /\ UNCHANGED <<open, legal, current, depth, body, functions, sends, receives>>
     ELSE phase' = "failed" /\ UNCHANGED bundle /\ Dropped

ScanNext ==
  \/ \E keyword \in Keyword : OpenBlock(keyword)
  \/ \E n \in Name : LocalFunction(n)
  \/ End \/ Until \/ SendCall \/ Profile
  \/ \E size \in Size : Receive(size)
  \/ \E unsafe \in BOOLEAN, compared \in SUBSET Mode : EndOfSource(unsafe, compared)

-----------------------------------------------------------------------------
(* Properties.                                                             *)

ScanTypes ==
  /\ open \in Seq(Closer \cup Name) /\ Len(open) \in 0..MaxNesting
  /\ legal \in BOOLEAN
  /\ current \in Name \cup {None} /\ depth \in 0..MaxNesting
  /\ body \in Body
  /\ functions \in [Checked -> Body \cup {None}]
  /\ sends \in 0..MaxSends /\ receives \in 0..MaxReceives
  /\ bundle \in [Mode -> Size \cup {None}]

(* The blocks of a stack from its i-th on that the converter should count. *)
Blocks(stack, i) == {j \in i..Len(stack) : stack[j] # "until"}

(* In legal Lua, the converter is inside a function exactly while Lua is   *)
(* inside a local function, the outermost one, and closes it with the      *)
(* `end' that closes it in Lua, whatever blocks are between, repeat-until  *)
(* included (the keyword count of local_functions, src/src/nse/mod.rs:321).*)
ExtentRight ==
  legal /\ phase = "scan" =>
    IF InLocal
    THEN \E i \in 1..Len(open) :
           current = open[i] /\ depth = Cardinality(Blocks(open, i))
    ELSE current = None

(* What is converted receives exactly once in each mode and nowhere else,  *)
(* and the YAML asks for the size written there.  No check says so: it     *)
(* follows from the total, from each mode having one, and from the cut-out *)
(* functions being disjoint with the last definition of a name kept.       *)
ReadsCarriedOver ==
  phase = "converted" =>
    \A m \in Mode : functions[m].receives = 1 /\ bundle[m] = functions[m].size

(* Nothing unsupported is silently left out of the YAML (src/README.md:745 *)
(* says so): legal Lua that is converted sends once in each of the modes   *)
(* whose YAML sends, and in no other.                                      *)
NothingDropped ==
  phase = "converted" /\ legal =>
    \A m \in Mode : functions[m].sends = IF m \in Sender THEN 1 ELSE 0
=============================================================================
