---------------------------- MODULE ProbeLoading ----------------------------
(***************************************************************************)
(* Loading of the probes at the start of a scan (src/src/dsl/compiler.rs,  *)
(* load_probes_with_params): the files named by --probe and those found    *)
(* under --probe-dir are read in the order of their paths, their           *)
(* parameters are resolved and substituted, they are compiled, and the     *)
(* plan is sorted.  A file of the directory that lacks a parameter is      *)
(* skipped; every other failure is the failure of the whole load.          *)
(*                                                                         *)
(* A file is known by its path, and paths by their order.  What a file     *)
(* holds is not looked at before it is read, so it is chosen then.         *)
(***************************************************************************)
EXTENDS Integers, Sequences, SequencesExt, FiniteSets

CONSTANTS
  NPaths,   \* paths are 1..NPaths, in their order
  Param,    \* names of parameters: numbers, in their order
  Value,    \* texts a parameter may be given, the empty one included
  Doc,      \* documents a file may hold
  None

Path == 1..NPaths

(* A text is a sequence of numbers: that of a parameter p stands for its   *)
(* placeholder ${p}, any other for a letter.                               *)
PlaceholdersIn(text) == ToSet(text) \cap Param

(* How a document declares a parameter: not at all, or with a type and     *)
(* bounds that some values do not satisfy, a default or none, required or  *)
(* not.  Its text stands for all its strings; `plan_order' and `name' say  *)
(* where its probe stands in the plan.                                     *)
Declaration == [required : BOOLEAN, default : Value \cup {None}, valid : SUBSET Value]
Documents == [plan_order : Nat, name : Nat, compiles : BOOLEAN, text : Seq(Int),
              parameters : [Param -> Declaration \cup {None}]]

ASSUME LoadingConstants ==
  /\ NPaths \in Nat /\ Param \subseteq Nat /\ IsFiniteSet(Param)
  /\ Value \subseteq Seq(Int) /\ <<>> \in Value
  /\ Doc \subseteq Documents

VARIABLES
  explicit,  \* paths given by --probe
  listed,    \* YAML files under --probe-dir, within its depth limit
  supplied,  \* values given by --probe-param
  phase,     \* "collect", "read", "substitute", "loaded" or "failed"
  files,     \* paths to read, in order
  at,        \* index of the file being read
  doc,       \* what the file at `at' holds, its text as substituted so far
  resolved,  \* its parameters with their values
  pending,   \* parameters not yet substituted
  probes,    \* compiled probes, with the index of the file each is from
  held       \* history: what each file held when it was read

vars == <<explicit, listed, supplied, phase, files, at, doc, resolved, pending, probes, held>>
inputs == <<explicit, listed, supplied>>

-----------------------------------------------------------------------------
(* Resolution of parameters (parse_parameterized_probe).                   *)

(* The value given on the command line, or else the default.               *)
Selected(d, p) ==
  IF supplied[p] # None THEN supplied[p] ELSE d.parameters[p].default

Declared(d) == {p \in Param : d.parameters[p] # None}

Missing(d, p) == d.parameters[p].required /\ Selected(d, p) \in {None, <<>>}

(* A value must satisfy the type, the allowed values and the bounds.       *)
Invalid(d, p) == Selected(d, p) # None /\ Selected(d, p) \notin d.parameters[p].valid

(* Parameters are resolved in the order of their names, up to the first    *)
(* that is missing or invalid.                                             *)
FirstError(d) ==
  LET wrong == {p \in Declared(d) : Missing(d, p) \/ Invalid(d, p)} IN
  IF wrong = {} THEN None ELSE CHOOSE p \in wrong : \A q \in wrong : p <= q

Resolved(d) ==
  [p \in {q \in Declared(d) : Selected(d, q) # None} |-> Selected(d, p)]

(* text.replace: every placeholder of the parameter gives way to the value.*)
Put(values, c) == IF c \in DOMAIN values THEN values[c] ELSE <<c>>
Expand(text, values) == FlattenSeq([i \in 1..Len(text) |-> Put(values, text[i])])
Replace(text, p, value) == Expand(text, [q \in {p} |-> value])

(* text.contains("${"), once every parameter has been replaced.            *)
AcceptsLeftovers(text) == FALSE
LeftOver(text) == PlaceholdersIn(text) # {}

(* The plan is sorted by plan_order, then by name; the sort is stable.     *)
Before(a, b) ==
  \/ a.plan_order < b.plan_order
  \/ a.plan_order = b.plan_order /\ a.name < b.name
StableSort(plan) ==
  LET rank(i) == Cardinality({j \in 1..Len(plan) :
                   Before(plan[j], plan[i]) \/ (j <= i /\ ~Before(plan[i], plan[j]))}) IN
  [r \in 1..Len(plan) |-> plan[CHOOSE i \in 1..Len(plan) : rank(i) = r]]

-----------------------------------------------------------------------------
Init ==
  /\ explicit \in SUBSET Path /\ listed \in SUBSET Path
  /\ supplied \in [Param -> (Value \ {<<>>}) \cup {None}]
  /\ phase = "collect"
  /\ files = <<>> /\ at = 0
  /\ doc = None /\ resolved = <<>> /\ pending = {}
  /\ probes = <<>>
  /\ held = <<>>

Fail ==
  /\ phase' = "failed"
  /\ UNCHANGED <<inputs, files, at, doc, resolved, pending, probes, held>>

(* files.sort(); files.dedup()                                             *)
AsFound(found) == found
SortDedup(found) ==
  CHOOSE s \in [1..Cardinality(ToSet(found)) -> ToSet(found)] :
    \A i, j \in DOMAIN s : i < j => s[i] < s[j]

(* collect_yaml: the walk through the directory yields its files in any    *)
(* order.                                                                  *)
Walks == SetToSeqs(listed)

Collect ==
  /\ phase = "collect"
  /\ \/ /\ \E given \in SetToSeqs(explicit), walk \in Walks :
             files' = SortDedup(given \o walk)
        /\ phase' = "read" /\ at' = 1
        /\ UNCHANGED <<inputs, doc, resolved, pending, probes, held>>
     \/ Fail

(* The next file is read: it may be gone or too large.  One that lacks a   *)
(* parameter is skipped, unless it is one of --probe.                      *)
SkipsAlways(path) == TRUE
Skips(path) == path \notin explicit

ReadFile ==
  /\ phase = "read" /\ at <= Len(files)
  /\ \/ Fail
     \/ \E d \in Doc :
          LET p == FirstError(d) IN
          /\ held' = Append(held, d)
          /\ IF p = None
             THEN /\ phase' = "substitute" /\ doc' = d
                  /\ resolved' = Resolved(d) /\ pending' = DOMAIN Resolved(d)
                  /\ UNCHANGED at
             ELSE IF Missing(d, p) /\ Skips(files[at])
                  THEN at' = at + 1 /\ UNCHANGED <<phase, doc, resolved, pending>>
                  ELSE phase' = "failed" /\ UNCHANGED <<at, doc, resolved, pending>>
          /\ UNCHANGED <<inputs, files, probes>>

(* substitute_parameters goes through a HashMap: in any order.             *)
Substitute(p) ==
  /\ phase = "substitute" /\ p \in pending
  /\ doc' = [doc EXCEPT !.text = Replace(@, p, resolved[p])]
  /\ pending' = pending \ {p}
  /\ UNCHANGED <<inputs, phase, files, at, resolved, probes, held>>

(* Nothing may be left to substitute, and the document must compile.       *)
CompileFile ==
  /\ phase = "substitute" /\ pending = {}
  /\ IF LeftOver(doc.text) \/ ~doc.compiles
     THEN phase' = "failed" /\ UNCHANGED <<at, doc, resolved, probes>>
     ELSE /\ probes' = Append(probes, [plan_order |-> doc.plan_order, name |-> doc.name,
                                       at |-> at, text |-> doc.text])
          /\ phase' = "read" /\ at' = at + 1
          /\ doc' = None /\ resolved' = <<>>
  /\ UNCHANGED <<inputs, files, pending, held>>

SortPlan ==
  /\ phase = "read" /\ at > Len(files)
  /\ probes' = StableSort(probes)
  /\ phase' = IF probes = <<>> THEN "failed" ELSE "loaded"
  /\ UNCHANGED <<inputs, files, at, doc, resolved, pending, held>>

Next ==
  \/ Collect \/ ReadFile \/ CompileFile \/ SortPlan
  \/ \E p \in Param : Substitute(p)

Spec == Init /\ [][Next]_vars

-----------------------------------------------------------------------------
(* Properties.                                                             *)

Loaded == {files[probes[i].at] : i \in 1..Len(probes)}

(* A plan leaves out a file that was asked for only when it is not one of  *)
(* --probe and a parameter that it requires has no value or an empty one;  *)
(* and holds no file twice, also when --probe and --probe-dir both name it *)
(* (src/src/dsl/compiler.rs:50).                                           *)
NothingLeftOut ==
  phase = "loaded" =>
    /\ Len(probes) = Cardinality(Loaded)
    /\ \A path \in (explicit \cup listed) \ Loaded :
         /\ path \notin explicit
         /\ \E i \in 1..Len(files) :
              files[i] = path /\ \E p \in Declared(held[i]) : Missing(held[i], p)

(* The plan is in the order of plan_order and name, files that tie in the  *)
(* order of their paths: it does not depend on the order in which the      *)
(* directory was listed, which differs between machines and workers.       *)
PlanOrdered ==
  phase = "loaded" =>
    \A i, j \in 1..Len(probes) :
      i < j => \/ Before(probes[i], probes[j])
               \/ ~Before(probes[j], probes[i]) /\ files[probes[i].at] < files[probes[j].at]

(* The text d stands for: its placeholders replaced, those in values too,  *)
(* and those in what they stand for, as deep as there are parameters.      *)
Expanded(d) ==
  LET values == Resolved(d)
      round[k \in 0..Cardinality(DOMAIN values)] ==
        IF k = 0 THEN d.text ELSE Expand(round[k - 1], values)
  IN round[Cardinality(DOMAIN values)]

(* What is compiled is the document with every placeholder replaced, those *)
(* in values too, whichever order the HashMap gives.  The order decides    *)
(* only whether a value that mentions a parameter makes the load fail.     *)
SubstitutionExact ==
  \A i \in 1..Len(probes) :
    /\ PlaceholdersIn(probes[i].text) = {}
    /\ probes[i].text = Expanded(held[probes[i].at])
=============================================================================
