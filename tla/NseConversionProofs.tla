------------------------ MODULE NseConversionProofs ------------------------
(***************************************************************************)
(* Theorems about NseConversion, for every value of its constants.         *)
(***************************************************************************)
EXTENDS NseConversion, FiniteSetTheorems, SequenceTheorems, TLAPS

-----------------------------------------------------------------------------
(* The counted blocks of a stack.                                          *)

Block == Closer \cup Name

LEMMA BlocksFinite ==
  ASSUME NEW s \in Seq(Block), NEW i \in 1..Len(s)
  PROVE  IsFiniteSet(Blocks(s, i)) /\ Cardinality(Blocks(s, i)) \in Nat
<1>1. i \in Int /\ Len(s) \in Int
  OBVIOUS
<1>2. IsFiniteSet(i..Len(s))
  BY <1>1, FS_Interval
<1>3. Blocks(s, i) \in SUBSET (i..Len(s))
  BY DEF Blocks
<1>4. QED
  BY <1>2, <1>3, FS_Subset, FS_CardinalityType

(* A block that is pushed is counted unless `until' closes it.             *)
LEMMA BlocksPush ==
  ASSUME NEW s \in Seq(Block), NEW x \in Block, NEW i \in 1..Len(s)
  PROVE  Cardinality(Blocks(Append(s, x), i)) =
           IF x = "until" THEN Cardinality(Blocks(s, i)) ELSE Cardinality(Blocks(s, i)) + 1
<1>1. Blocks(Append(s, x), i) =
        IF x = "until" THEN Blocks(s, i) ELSE Blocks(s, i) \cup {Len(s) + 1}
  BY DEF Blocks
<1>2. Len(s) + 1 \notin Blocks(s, i)
  BY DEF Blocks
<1>3. QED
  BY <1>1, <1>2, BlocksFinite, FS_AddElement

(* The name of a function that is pushed is the only block from there on.  *)
LEMMA BlocksOfName ==
  ASSUME NEW s \in Seq(Block), NEW n \in Name, s # <<>>, Last(s) = n
  PROVE  Cardinality(Blocks(s, Len(s))) = 1
<1>1. n # "until"
  BY NseConstants DEF Name
<1>2. Blocks(s, Len(s)) = {Len(s)}
  BY <1>1 DEF Blocks, Last
<1>3. QED
  BY <1>2, FS_Singleton

LEMMA FrontProperties ==
  ASSUME NEW s \in Seq(Block), s # <<>>
  PROVE  /\ Len(s) \in Nat \ {0}
         /\ Front(s) \in Seq(Block) /\ Len(Front(s)) = Len(s) - 1
         /\ \A j \in 1..(Len(s) - 1) : Front(s)[j] = s[j]
<1> DEFINE k == Len(s) - 1
<1>1. Len(s) \in Nat \ {0} /\ k \in Nat
  BY EmptySeq
<1>2. \A j \in 1..k : s[j] \in Block
  BY <1>1
<1>3. Front(s) = SubSeq(s, 1, k)
  BY DEF Front
<1> HIDE DEF k
<1>4. /\ SubSeq(s, 1, k) \in Seq(Block)
      /\ Len(SubSeq(s, 1, k)) = IF 1 <= k THEN k - 1 + 1 ELSE 0
      /\ \A j \in 1..(k - 1 + 1) : SubSeq(s, 1, k)[j] = s[1 + j - 1]
  <2>1. 1 \in Int /\ k \in Int
    BY <1>1
  <2>2. QED
    BY <1>2, <2>1, SubSeqProperties
<1>5. Front(s) \in Seq(Block) /\ Len(Front(s)) = k
  BY <1>1, <1>3, <1>4
<1>6. \A j \in 1..k : Front(s)[j] = s[j]
  BY <1>1, <1>3, <1>4
<1>7. QED
  BY <1>1, <1>5, <1>6 DEF k

(* A block that is popped was counted unless `until' closes it.            *)
LEMMA BlocksPop ==
  ASSUME NEW s \in Seq(Block), NEW i \in 1..(Len(s) - 1)
  PROVE  /\ i \in 1..Len(s)
         /\ Front(s) \in Seq(Block) /\ Len(Front(s)) = Len(s) - 1
         /\ \A j \in 1..(Len(s) - 1) : Front(s)[j] = s[j]
         /\ Cardinality(Blocks(Front(s), i)) =
              IF Last(s) = "until" THEN Cardinality(Blocks(s, i))
                                   ELSE Cardinality(Blocks(s, i)) - 1
<1>1. i \in 1..Len(s) /\ Len(s) \in Nat
  OBVIOUS
<1>2. Front(s) \in Seq(Block) /\ Len(Front(s)) = Len(s) - 1
      /\ \A j \in 1..(Len(s) - 1) : Front(s)[j] = s[j]
  BY DEF Front
<1>3. Blocks(Front(s), i) =
        IF Last(s) = "until" THEN Blocks(s, i) ELSE Blocks(s, i) \ {Len(s)}
  BY <1>2 DEF Blocks, Last
<1>4. Last(s) # "until" => Len(s) \in Blocks(s, i)
  BY DEF Blocks, Last
<1>5. QED
  BY <1>1, <1>2, <1>3, <1>4, BlocksFinite, FS_RemoveElement

(* A function contains at least its own block, still open.                 *)
LEMMA BlocksInner ==
  ASSUME NEW s \in Seq(Block), NEW i \in 1..Len(s), s[i] # "until"
  PROVE  Cardinality(Blocks(s, i)) >= 1
<1>1. i \in Blocks(s, i)
  BY DEF Blocks
<1>2. QED
  BY <1>1, BlocksFinite, FS_EmptySet

-----------------------------------------------------------------------------
(* Types.  The calls in the tokens of the function being cut out are among *)
(* those of the source, which is what bounds them.                         *)

Within == body.receives <= receives /\ body.sends <= sends

TypeInv == TypeOK /\ Within

LEMMA ReportNumber == Report \in Nat \ {0} /\ 1 \in File /\ Report \in File
<1>1. Cardinality(Mode) \in Nat
  BY NseConstants, FS_CardinalityType
<1>2. QED
  BY <1>1 DEF Report, File

LEMMA Bounds == MaxNesting \in Nat \ {0} /\ MaxSends \in Nat /\ MaxReceives \in Nat
BY NseConstants

LEMMA NoTokensType == NoTokens \in Body /\ NoTokens.receives = 0 /\ NoTokens.sends = 0
BY NseConstants DEF NoTokens, Body

LEMMA KeptType == ASSUME NEW n \in Name, body \in Body PROVE Kept(n) \in Body
BY NoTokensType DEF Kept, Body, NoTokens

Received(b, size) ==
  [b EXCEPT !.receives = @ + 1, !.size = IF @ = None THEN size ELSE @]

LEMMA ReceivedType ==
  ASSUME NEW b \in Body, NEW size \in Size, b.receives + 1 \in 0..MaxReceives
  PROVE  /\ Received(b, size) \in Body
         /\ Received(b, size).receives = b.receives + 1
         /\ Received(b, size).sends = b.sends
<1> DEFINE v == b.receives + 1
           w == IF b.size = None THEN size ELSE b.size
<1>1. w \in Size \cup {None} /\ v \in 0..MaxReceives
  BY DEF Body
<1>2. Received(b, size) = [b EXCEPT !.receives = v, !.size = w]
  BY Zenon DEF Received, Body
<1> HIDE DEF v, w
<1>3. QED
  BY <1>1, <1>2 DEF Body, v

Sent(b) == [b EXCEPT !.sends = @ + 1]

LEMMA SentType ==
  ASSUME NEW b \in Body, b.sends + 1 \in 0..MaxSends
  PROVE  /\ Sent(b) \in Body
         /\ Sent(b).sends = b.sends + 1
         /\ Sent(b).receives = b.receives
<1> DEFINE v == b.sends + 1
<1>1. v \in 0..MaxSends
  OBVIOUS
<1>2. Sent(b) = [b EXCEPT !.sends = v]
  BY Zenon DEF Sent, Body
<1> HIDE DEF v
<1>3. QED
  BY <1>1, <1>2 DEF Body, v

LEMMA CloseType ==
  ASSUME open \in Seq(Block), Len(open) \in 0..MaxNesting, legal \in BOOLEAN,
         NEW closed, Close(closed)
  PROVE  open' \in Seq(Block) /\ Len(open') \in 0..MaxNesting /\ legal' \in BOOLEAN
<1>1. CASE legal /\ open # <<>> /\ Last(open) \in closed
  <2>1. open' = Front(open) /\ legal' = legal
    BY <1>1 DEF Close
  <2>2. Len(open) \in 1..MaxNesting
    BY <1>1, EmptySeq
  <2>3. QED
    BY <2>1, <2>2, NseConstants DEF Front
<1>2. CASE ~(legal /\ open # <<>> /\ Last(open) \in closed)
  <2>1. open' = <<>> /\ legal' = FALSE
    BY <1>2, Zenon DEF Close
  <2>2. <<>> \in Seq(Block) /\ Len(<<>>) = 0
    BY EmptySeq
  <2>3. 0 \in 0..MaxNesting
    BY NseConstants
  <2>4. QED
    BY <2>1, <2>2, <2>3, Zenon
<1>3. QED
  BY <1>1, <1>2

LEMMA ScanTypesStep ==
  ASSUME TypeInv, ScanNext
  PROVE  ScanTypes' /\ Within' /\ phase' \in {"scan", "converted", "failed"}
<1> USE Bounds DEF TypeInv, TypeOK, ScanTypes, Within, Block, Checked
<1>1. ASSUME NEW keyword \in Keyword, OpenBlock(keyword)
      PROVE  ScanTypes' /\ Within' /\ phase' \in {"scan", "converted", "failed"}
  <2>1. ClosedBy(keyword) \in Block
    BY DEF ClosedBy, Closer
  <2>2. open' \in Seq(Block) /\ Len(open') \in 0..MaxNesting
    BY <1>1, <2>1, AppendProperties DEF OpenBlock
  <2>3. depth' \in 0..MaxNesting
    BY <1>1 DEF OpenBlock
  <2>4. QED
    BY <1>1, <2>2, <2>3 DEF OpenBlock
<1>2. ASSUME NEW n \in Name, LocalFunction(n)
      PROVE  ScanTypes' /\ Within' /\ phase' \in {"scan", "converted", "failed"}
  <2>1. open' \in Seq(Block) /\ Len(open') \in 0..MaxNesting
    BY <1>2, AppendProperties DEF LocalFunction, Closer
  <2>2. depth' \in 0..MaxNesting /\ current' \in Name \cup {None}
    BY <1>2 DEF LocalFunction
  <2>3. body' = body \/ body' = NoTokens
    BY <1>2 DEF LocalFunction
  <2>4. body' \in Body /\ Within'
    BY <1>2, <2>3, NoTokensType DEF LocalFunction
  <2>5. QED
    BY <1>2, <2>1, <2>2, <2>4 DEF LocalFunction
<1>3. ASSUME End
      PROVE  ScanTypes' /\ Within' /\ phase' \in {"scan", "converted", "failed"}
  <2>1. open' \in Seq(Block) /\ Len(open') \in 0..MaxNesting /\ legal' \in BOOLEAN
    BY <1>3, CloseType DEF End
  <2>2. depth' \in 0..MaxNesting /\ current' \in Name \cup {None}
    BY <1>3 DEF End
  <2>3. body' \in Body /\ Within'
    <3>1. body' = body \/ body' = NoTokens
      BY <1>3, Zenon DEF End
    <3>2. QED
      BY <1>3, <3>1, NoTokensType DEF End
  <2>4. functions' \in [Checked -> Body \cup {None}]
    <3>1. functions' = functions \/ functions' = [functions EXCEPT ![current] = Kept(current)]
      BY <1>3, Zenon DEF End
    <3>2. functions' = functions \/ current \in Checked
      BY <1>3, Zenon DEF End
    <3>3. current \in Checked => Kept(current) \in Body
      BY KeptType DEF Name
    <3>4. QED
      BY <3>1, <3>2, <3>3
  <2>5. QED
    BY <1>3, <2>1, <2>2, <2>3, <2>4 DEF End
<1>4. CASE Until
  <2>1. open' \in Seq(Block) /\ Len(open') \in 0..MaxNesting /\ legal' \in BOOLEAN
    BY <1>4, CloseType DEF Until
  <2>2. QED
    BY <1>4, <2>1 DEF Until
<1>5. CASE SendCall
  <2>1. body' \in Body /\ Within'
    <3>1. body.sends + 1 \in 0..MaxSends
      BY <1>5 DEF SendCall, Body
    <3>2. body' = body \/ body' = Sent(body)
      BY <1>5, Zenon DEF SendCall, Sent
    <3>3. QED
      BY SMTT(30), <1>5, <3>1, <3>2, SentType DEF SendCall, Body
  <2>2. QED
    BY <1>5, <2>1 DEF SendCall
<1>6. CASE Profile
  <2>1. body' \in Body /\ Within'
    BY <1>6 DEF Profile, Body
  <2>2. QED
    BY <1>6, <2>1 DEF Profile
<1>7. ASSUME NEW size \in Size, Receive(size)
      PROVE  ScanTypes' /\ Within' /\ phase' \in {"scan", "converted", "failed"}
  <2>1. body' \in Body /\ Within'
    <3>1. body.receives + 1 \in 0..MaxReceives
      BY <1>7 DEF Receive, Body
    <3>2. body' = body \/ body' = Received(body, size)
      BY <1>7, Zenon DEF Receive, Received
    <3>3. QED
      BY <1>7, <3>1, <3>2, ReceivedType DEF Receive, Body
  <2>2. QED
    BY <1>7, <2>1 DEF Receive
<1>8. ASSUME NEW unsafe \in BOOLEAN, NEW compared \in SUBSET Mode, EndOfSource(unsafe, compared)
      PROVE  ScanTypes' /\ Within' /\ phase' \in {"scan", "converted", "failed"}
  <2>1. CASE phase' = "converted"
    <3>1. ProfilesFound /\ bundle' = [m \in Mode |-> functions[m].size]
          /\ UNCHANGED <<open, legal, current, depth, body, functions, sends, receives>>
      BY <1>8, <2>1, Zenon DEF EndOfSource
    <3>2. ASSUME NEW m \in Mode PROVE functions[m].size \in Size \cup {None}
      BY <3>1 DEF ProfilesFound, Body
    <3>3. QED
      BY <2>1, <3>1, <3>2
  <2>2. CASE phase' # "converted"
    <3>1. phase' = "failed" /\ UNCHANGED bundle /\ Dropped
      BY <1>8, <2>2, Zenon DEF EndOfSource
    <3>2. QED
      BY <3>1, NoTokensType, EmptySeq DEF Dropped, NoTokens
  <2>3. QED
    BY <2>1, <2>2
<1>9. QED
  BY <1>1, <1>2, <1>3, <1>4, <1>5, <1>6, <1>7, <1>8 DEF ScanNext

LEMMA DroppedTypes ==
  ASSUME Dropped, bundle' \in [Mode -> Size \cup {None}]
  PROVE  ScanTypes' /\ Within'
BY NseConstants, NoTokensType, EmptySeq DEF Dropped, ScanTypes, Within

LEMMA WrittenType ==
  ASSUME NEW content \in {"empty", "partial", "whole"}, run \in 1..MaxRuns
  PROVE  Written(content) \in FileState
BY RunsAssumption DEF Written, FileState

(* What a step may put into the output files.                              *)
LEMMA FilesStep ==
  ASSUME TypeInv, [Next]_vars
  PROVE  files' \in [File -> FileState]
<1> USE DEF TypeInv, TypeOK, Order
<1>1. CASE OpenFile
  BY <1>1, WrittenType DEF OpenFile, Fail
<1>2. CASE WriteFile
  BY <1>2, WrittenType DEF WriteFile, Fail
<1>3. CASE SyncFile
  <2>1. files' = files \/ files' = [files EXCEPT ![at] = [files[at] EXCEPT !.synced = TRUE]]
    BY <1>3 DEF SyncFile
  <2>2. [files[at] EXCEPT !.synced = TRUE] \in FileState
    BY DEF FileState
  <2>3. QED
    BY <2>1, <2>2
<1>4. CASE PowerLost
  <2>1. PICK lost \in SUBSET {f \in File : ~files[f].synced}, content \in {"empty", "partial"} :
          files' = [f \in File |-> IF f \in lost THEN [files[f] EXCEPT !.content = content]
                                                 ELSE files[f]]
    BY <1>4 DEF PowerLost
  <2>2. \A f \in File : [files[f] EXCEPT !.content = content] \in FileState
    BY DEF FileState
  <2>3. QED
    BY <2>1, <2>2
<1>5. ASSUME NEW f \in File, Place(f) PROVE files' \in [File -> FileState]
  <2>1. Foreign \in FileState
    BY RunsAssumption DEF Foreign, FileState
  <2>2. QED
    BY <1>5, <2>1 DEF Place
<1>6. CASE Scan \/ Return \/ CompileAll \/ CheckOutputs \/ Killed \/ RunAgain \/ UNCHANGED vars
  BY <1>6 DEF Scan, Return, CompileAll, CheckOutputs, Killed, RunAgain, vars, outVars
<1>7. QED
  BY <1>1, <1>2, <1>3, <1>4, <1>5, <1>6 DEF Next

LEMMA ControlStep ==
  ASSUME TypeInv, [Next]_vars
  PROVE  /\ run' \in 1..MaxRuns /\ force' \in BOOLEAN /\ at' \in File
         /\ phase' \in {"scan", "converted", "failed", "compile"} \cup {"check", "open", "write", "sync", "done"}
<1> USE RunsAssumption, ReportNumber DEF TypeInv, TypeOK, Fail
<1>1. CASE Scan
  BY <1>1, ScanTypesStep DEF Scan, outVars
<1>2. CASE Return \/ CompileAll \/ CheckOutputs
  BY <1>2 DEF Return, CompileAll, CheckOutputs, outVars
<1>3. CASE OpenFile \/ WriteFile
  BY <1>3 DEF OpenFile, WriteFile
<1>4. CASE SyncFile
  BY <1>4 DEF SyncFile, File
<1>5. CASE Killed \/ PowerLost \/ RunAgain
  BY <1>5 DEF Killed, PowerLost, RunAgain
<1>6. ASSUME NEW f \in File, Place(f)
      PROVE  run' = run /\ force' = force /\ at' = at /\ phase' = phase
  BY <1>6 DEF Place
<1>7. CASE UNCHANGED vars
  BY <1>7 DEF vars, outVars, scanVars
<1>8. QED
  BY <1>1, <1>2, <1>3, <1>4, <1>5, <1>6, <1>7 DEF Next

LEMMA ScanStep ==
  ASSUME TypeInv, [Next]_vars
  PROVE  ScanTypes' /\ Within'
<1>1. CASE Scan
  BY <1>1, ScanTypesStep DEF Scan
<1>2. CASE Return
  BY <1>2, DroppedTypes DEF Return, TypeInv, TypeOK, ScanTypes
<1>3. CASE CompileAll
  BY <1>3 DEF CompileAll, TypeInv, TypeOK, ScanTypes, Within
<1>4. CASE UNCHANGED scanVars \/ Unscanned
  BY <1>4 DEF Unscanned, scanVars, TypeInv, TypeOK, ScanTypes, Within
<1>5. Unscanned \/ Scan \/ Return \/ CompileAll \/ UNCHANGED scanVars
  BY DEF Next, CheckOutputs, OpenFile, WriteFile, SyncFile, Killed, PowerLost, Place, RunAgain, vars
<1>6. QED
  BY <1>1, <1>2, <1>3, <1>4, <1>5

LEMMA TypeInit == Init => TypeInv
<1> SUFFICES ASSUME Init PROVE TypeInv
  OBVIOUS
<1>1. ScanTypes /\ Within
  BY NseConstants, NoTokensType, EmptySeq DEF Init, ScanInit, ScanTypes, Within
<1>2. Absent \in FileState
  BY RunsAssumption DEF Absent, FileState
<1>3. 1 \in 1..MaxRuns
  BY RunsAssumption
<1>4. run \in 1..MaxRuns /\ force \in BOOLEAN /\ at \in File /\ phase = "scan"
  BY <1>3, ReportNumber, Zenon DEF Init, ScanInit
<1>5. files \in [File -> FileState]
  BY <1>2 DEF Init
<1>6. QED
  BY <1>1, <1>4, <1>5 DEF TypeInv, TypeOK

LEMMA TypeStep == TypeInv /\ [Next]_vars => TypeInv'
BY FilesStep, ControlStep, ScanStep DEF TypeInv, TypeOK

(* Every variable keeps its type, through every token and every failure.   *)
THEOREM TypeCorrect == Spec => []TypeOK
<1>1. TypeInv => TypeOK
  BY DEF TypeInv
<1>2. QED
  BY <1>1, TypeInit, TypeStep, PTL DEF Spec

-----------------------------------------------------------------------------
(* The extents of functions.  At most one open block carries a name: that  *)
(* of the outermost local function.                                        *)

NamesOnce ==
  legal => \A i, j \in 1..Len(open) : open[i] \in Name /\ open[j] \in Name => i = j

ExtentInv == NamesOnce /\ ExtentRight

LEMMA NameFacts ==
  /\ None \notin Block /\ "end" \notin Name /\ "until" \notin Name
  /\ \A keyword \in Keyword :
       /\ ClosedBy(keyword) \in Block \ Name
       /\ Counted(keyword) <=> ClosedBy(keyword) # "until"
BY NseConstants DEF Name, Keyword, ClosedBy, Counted, Block, Closer

(* A block that carries no name is pushed.                                 *)
LEMMA PushPlain ==
  ASSUME TypeInv, ExtentInv, phase = "scan", legal,
         NEW x \in Block \ Name, open' = Append(open, x), legal' = legal,
         current' = current,
         depth' = IF current # None /\ x # "until" THEN depth + 1 ELSE depth
  PROVE  ExtentInv'
<1> USE DEF ExtentInv
<1>1. open \in Seq(Block)
  BY DEF TypeInv, TypeOK, ScanTypes, Block
<1>2. Len(open') = Len(open) + 1 /\ open'[Len(open) + 1] = x
      /\ \A i \in 1..Len(open) : open'[i] = open[i]
  BY <1>1
<1>3. NamesOnce'
  BY <1>1, <1>2 DEF NamesOnce
<1>4. InLocal' <=> InLocal
  BY <1>1, <1>2 DEF InLocal
<1>5. CASE InLocal
  <2>1. PICK i \in 1..Len(open) : current = open[i] /\ depth = Cardinality(Blocks(open, i))
    BY <1>5 DEF ExtentRight
  <2>2. current # None
    <3>1. current \in Block
      BY <1>1, <2>1
    <3>2. QED
      BY <3>1, NameFacts
  <2>3. Cardinality(Blocks(open', i)) = IF x = "until" THEN depth ELSE depth + 1
    BY <1>1, <2>1, BlocksPush
  <2>4. i \in 1..Len(open') /\ current' = open'[i] /\ depth' = Cardinality(Blocks(open', i))
    BY <1>1, <1>2, <2>1, <2>2, <2>3
  <2>5. QED
    BY <1>3, <1>4, <1>5, <2>4 DEF ExtentRight
<1>6. CASE ~InLocal
  BY <1>3, <1>4, <1>6 DEF ExtentRight
<1>7. QED
  BY <1>5, <1>6

(* The `end' of a block that carries no name, or an `until', pops a block. *)
LEMMA PopPlain ==
  ASSUME TypeInv, ExtentInv, phase = "scan", legal, open # <<>>,
         open' = Front(open), legal' = legal, Last(open) \notin Name,
         current' = current,
         depth' = IF current # None /\ Last(open) # "until" THEN depth - 1 ELSE depth
  PROVE  ExtentInv'
<1> USE DEF ExtentInv
<1> DEFINE n == Len(open)
<1>1. open \in Seq(Block) /\ n \in Nat \ {0}
  BY EmptySeq DEF TypeInv, TypeOK, ScanTypes, Block
<1>2. Len(open') = n - 1 /\ \A i \in 1..(n - 1) : open'[i] = open[i]
  BY <1>1, FrontProperties
<1>3. NamesOnce'
  BY <1>1, <1>2 DEF NamesOnce
<1>4. InLocal' <=> InLocal
  BY <1>1, <1>2 DEF InLocal, Last
<1>5. CASE InLocal
  <2>1. PICK i \in 1..n : open[i] \in Name /\ current = open[i] /\ depth = Cardinality(Blocks(open, i))
    <3>1. PICK i \in 1..n : current = open[i] /\ depth = Cardinality(Blocks(open, i))
      BY <1>5 DEF ExtentRight
    <3>2. current \in Name
      BY <1>1, <3>1, NameFacts DEF TypeInv, TypeOK, ScanTypes
    <3>3. QED
      BY <3>1, <3>2
  <2>2. current # None
    BY <2>1, NameFacts DEF Block
  <2>3. i \in 1..(n - 1)
    BY <1>1, <2>1 DEF Last
  <2>4. Cardinality(Blocks(open', i)) = IF Last(open) = "until" THEN depth ELSE depth - 1
    BY <1>1, <2>1, <2>3, BlocksPop
  <2>5. i \in 1..Len(open') /\ current' = open'[i] /\ depth' = Cardinality(Blocks(open', i))
    BY <1>1, <1>2, <2>1, <2>2, <2>3, <2>4
  <2>6. QED
    BY <1>3, <1>4, <1>5, <2>5 DEF ExtentRight
<1>6. CASE ~InLocal
  BY <1>3, <1>4, <1>6 DEF ExtentRight
<1>7. QED
  BY <1>5, <1>6

(* The converter is at depth one exactly at the block that carries the     *)
(* name, so that its `end' there is Lua's.                                 *)
LEMMA DepthOne ==
  ASSUME TypeInv, ExtentInv, phase = "scan", legal, open # <<>>, InLocal
  PROVE  /\ current # None /\ depth \in Nat
         /\ Last(open) \in Name => depth = 1
         /\ Last(open) = "end" => depth > 1
<1> DEFINE n == Len(open)
<1>1. open \in Seq(Block) /\ n \in Nat \ {0} /\ depth \in Nat
  BY EmptySeq DEF TypeInv, TypeOK, ScanTypes, Block
<1>2. PICK i \in 1..n : current = open[i] /\ depth = Cardinality(Blocks(open, i))
  BY DEF ExtentInv, ExtentRight
<1>3. current \in Name
  <2>1. current \in Block
    BY <1>1, <1>2
  <2>2. QED
    BY <2>1, NameFacts DEF TypeInv, TypeOK, ScanTypes
<1>4. ASSUME Last(open) \in Name PROVE depth = 1
  <2>1. i = n
    BY <1>1, <1>2, <1>3, <1>4 DEF ExtentInv, NamesOnce, Last
  <2>2. QED
    BY <1>1, <1>2, <1>4, <2>1, BlocksOfName
<1>5. ASSUME Last(open) = "end" PROVE depth > 1
  <2>1. i \in 1..(n - 1)
    BY <1>1, <1>2, <1>3, <1>5, NameFacts DEF Last
  <2>2. Cardinality(Blocks(Front(open), i)) = depth - 1
    BY <1>1, <1>2, <1>5, <2>1, BlocksPop
  <2>3. i \in 1..Len(Front(open)) /\ Front(open) \in Seq(Block) /\ Front(open)[i] # "until"
    BY <1>1, <1>2, <1>3, <2>1, BlocksPop, NameFacts
  <2>4. Cardinality(Blocks(Front(open), i)) >= 1
    BY <2>3, BlocksInner
  <2>5. QED
    BY <1>1, <2>2, <2>4
<1>6. QED
  BY <1>1, <1>3, <1>4, <1>5, NameFacts DEF Block

(* The block pushed last is the last one.                                  *)
LEMMA NoName ==
  ASSUME NEW s \in Seq(Block), NEW x \in Name
  PROVE  Append(s, x) # <<>> /\ Last(Append(s, x)) = x
BY DEF Last

LEMMA LocalFunctionExtent ==
  ASSUME TypeInv, ExtentInv, NEW n \in Name, LocalFunction(n)
  PROVE  ExtentInv'
<1>1. CASE ~legal
  BY <1>1 DEF LocalFunction, ExtentInv, NamesOnce, ExtentRight
<1>2. CASE legal /\ current # None
  <2>1. InLocal
    BY <1>2 DEF ExtentInv, ExtentRight, LocalFunction
  <2>2. "end" \in Block \ Name /\ "end" # "until"
    BY NameFacts DEF Block, Closer
  <2>3. /\ phase = "scan" /\ open' = Append(open, "end") /\ legal' = legal
        /\ current' = current /\ depth' = depth + 1
    BY <1>2, <2>1 DEF LocalFunction
  <2>4. QED
    BY <1>2, <2>2, <2>3, PushPlain
<1>3. CASE legal /\ current = None
  <2>1. open \in Seq(Block) /\ n \in Block
    BY DEF TypeInv, TypeOK, ScanTypes, Block
  <2>2. ~InLocal
    <3>1. ASSUME NEW i \in 1..Len(open) PROVE open[i] # None
      BY <2>1, NameFacts
    <3>2. QED
      BY <1>3, <3>1 DEF ExtentInv, ExtentRight, LocalFunction
  <2>3. open' = Append(open, n) /\ current' = n /\ depth' = 1 /\ legal' = legal
    BY <1>3, <2>2 DEF LocalFunction
  <2>4. Len(open') = Len(open) + 1 /\ open'[Len(open')] = n /\ Len(open') \in 1..Len(open')
        /\ open' \in Seq(Block) /\ \A i \in 1..Len(open) : open'[i] = open[i]
    BY <2>1, <2>3
  <2>5. NamesOnce'
    BY <2>1, <2>2, <2>4 DEF NamesOnce, InLocal
  <2>6. Cardinality(Blocks(open', Len(open'))) = 1
    BY <2>1, <2>3, <2>4, NoName, BlocksOfName
  <2>7. QED
    BY <2>3, <2>4, <2>5, <2>6 DEF ExtentInv, ExtentRight, InLocal
<1>4. QED
  BY <1>1, <1>2, <1>3

LEMMA EndExtent ==
  ASSUME TypeInv, ExtentInv, End
  PROVE  ExtentInv'
<1>1. CASE ~legal' \/ ~legal
  <2>1. ~legal'
    BY <1>1 DEF End, Close
  <2>2. QED
    BY <2>1 DEF ExtentInv, NamesOnce, ExtentRight
<1>2. CASE legal' /\ legal
  <2>1. /\ open # <<>> /\ open' = Front(open) /\ legal' = legal
        /\ Last(open) \in {"end"} \cup Name
    BY <1>2 DEF End, Close
  <2>2. phase = "scan" /\ Last(open) # "until"
    BY <2>1, NameFacts DEF End
  <2>3. CASE ~InLocal
    <3>1. open \in Seq(Block) /\ Len(open) \in Nat \ {0}
      BY <2>1, EmptySeq DEF TypeInv, TypeOK, ScanTypes, Block
    <3>2. Last(open) \notin Name
      BY <2>3, <3>1 DEF InLocal, Last
    <3>3. current = None
      BY <1>2, <2>2, <2>3 DEF ExtentInv, ExtentRight
    <3>4. current' = current /\ depth' = depth
      BY <3>3 DEF End
    <3>5. QED
      BY <1>2, <2>1, <2>2, <3>2, <3>3, <3>4, PopPlain
  <2>4. CASE InLocal /\ Last(open) \notin Name
    <3>1. current # None /\ depth > 1 /\ depth \in Nat
      BY <1>2, <2>1, <2>2, <2>4, DepthOne
    <3>2. current' = current /\ depth' = depth - 1
      BY <3>1 DEF End
    <3>3. QED
      BY <1>2, <2>1, <2>2, <2>4, <3>1, <3>2, PopPlain
  <2>5. CASE InLocal /\ Last(open) \in Name
    <3>1. current # None /\ depth = 1
      BY <1>2, <2>1, <2>2, <2>5, DepthOne
    <3>2. current' = None
      BY <3>1 DEF End
    <3>3. open \in Seq(Block) /\ Len(open) \in Nat \ {0} /\ Len(open') = Len(open) - 1
          /\ \A i \in 1..(Len(open) - 1) : open'[i] = open[i]
      <4>1. open \in Seq(Block)
        BY DEF TypeInv, TypeOK, ScanTypes, Block
      <4>2. QED
        BY <2>1, <4>1, FrontProperties
    <3>4. \A i \in 1..(Len(open) - 1) : open[i] \notin Name
      BY <1>2, <2>5, <3>3 DEF ExtentInv, NamesOnce, Last
    <3>5. ~InLocal' /\ NamesOnce'
      BY <3>3, <3>4 DEF InLocal, NamesOnce
    <3>6. QED
      BY <3>2, <3>5 DEF ExtentInv, ExtentRight
  <2>6. QED
    BY <2>3, <2>4, <2>5
<1>3. QED
  BY <1>1, <1>2 DEF TypeInv, TypeOK, ScanTypes

LEMMA ExtentStep == TypeInv /\ ExtentInv /\ [Next]_vars => ExtentInv'
<1> SUFFICES ASSUME TypeInv, ExtentInv, [Next]_vars PROVE ExtentInv'
  OBVIOUS
<1>1. ASSUME NEW keyword \in Keyword, OpenBlock(keyword) PROVE ExtentInv'
  <2>1. CASE ~legal
    BY <1>1, <2>1 DEF OpenBlock, ExtentInv, NamesOnce, ExtentRight
  <2>2. CASE legal
    <3>1. ClosedBy(keyword) \in Block \ Name /\ (Counted(keyword) <=> ClosedBy(keyword) # "until")
      BY NameFacts
    <3>2. /\ phase = "scan" /\ open' = Append(open, ClosedBy(keyword)) /\ legal' = legal
          /\ current' = current
          /\ depth' = IF current # None /\ ClosedBy(keyword) # "until" THEN depth + 1 ELSE depth
      BY <1>1, <2>2, <3>1 DEF OpenBlock
    <3>3. QED
      BY <2>2, <3>1, <3>2, PushPlain
  <2>3. QED
    BY <2>1, <2>2
<1>2. ASSUME NEW n \in Name, LocalFunction(n) PROVE ExtentInv'
  BY <1>2, LocalFunctionExtent
<1>3. CASE End
  BY <1>3, EndExtent
<1>4. CASE Until
  <2>1. CASE ~legal'
    BY <2>1 DEF ExtentInv, NamesOnce, ExtentRight
  <2>2. CASE legal'
    <3>1. /\ phase = "scan" /\ legal /\ open # <<>> /\ open' = Front(open) /\ legal' = legal
          /\ Last(open) = "until" /\ current' = current /\ depth' = depth
      BY <1>4, <2>2 DEF Until, Close
    <3>2. QED
      BY <3>1, NameFacts, PopPlain
  <2>3. QED
    BY <2>1, <2>2
<1>5. CASE UNCHANGED <<phase, open, legal, current, depth>>
  BY <1>5 DEF ExtentInv, NamesOnce, ExtentRight, InLocal
<1>6. ASSUME phase' # "scan", open' = <<>> \/ UNCHANGED <<open, legal>>
      PROVE ExtentInv'
  <2>1. CASE open' = <<>>
    BY <1>6, <2>1, EmptySeq DEF ExtentInv, NamesOnce, ExtentRight
  <2>2. CASE UNCHANGED <<open, legal>>
    BY <1>6, <2>2 DEF ExtentInv, NamesOnce, ExtentRight
  <2>3. QED
    BY <1>6, <2>1, <2>2
<1>7. ASSUME NEW unsafe \in BOOLEAN, NEW compared \in SUBSET Mode, EndOfSource(unsafe, compared)
      PROVE ExtentInv'
  BY <1>6, <1>7 DEF EndOfSource, Dropped
<1>8. CASE SendCall \/ Profile \/ \E size \in Size : Receive(size)
  BY <1>5, <1>8 DEF SendCall, Profile, Receive
<1>9. CASE Scan
  BY <1>1, <1>2, <1>3, <1>4, <1>7, <1>8, <1>9 DEF Scan, ScanNext
<1>10. CASE Return \/ CompileAll \/ CheckOutputs \/ OpenFile \/ WriteFile \/ SyncFile
  <2>1. phase' # "scan" /\ (open' = <<>> \/ UNCHANGED <<open, legal>>)
    BY <1>10 DEF Return, CompileAll, CheckOutputs, OpenFile, WriteFile, SyncFile, Fail, Dropped, Unscanned
  <2>2. QED
    BY <1>6, <2>1
<1>11. CASE Killed \/ PowerLost \/ RunAgain
  <2>1. phase' # "scan" /\ UNCHANGED <<open, legal>>
    BY <1>11 DEF Killed, PowerLost, RunAgain, Fail, Unscanned
  <2>2. QED
    BY <1>6, <2>1
<1>12. ASSUME NEW f \in File, Place(f) PROVE ExtentInv'
  BY <1>5, <1>12 DEF Place, Unscanned
<1>13. CASE UNCHANGED vars
  BY <1>5, <1>13 DEF vars, scanVars
<1>14. QED
  BY <1>9, <1>10, <1>11, <1>12, <1>13 DEF Next

(* In legal Lua of any length and nesting, the converter is inside exactly *)
(* the local function that Lua is in, and ends it where Lua does.          *)
THEOREM ExtentsCorrect == Spec => []ExtentRight
<1>1. Init => ExtentInv
  BY EmptySeq DEF Init, ScanInit, ExtentInv, NamesOnce, ExtentRight, InLocal
<1>2. ExtentInv => ExtentRight
  BY DEF ExtentInv
<1>3. QED
  BY <1>1, <1>2, TypeInit, TypeStep, ExtentStep, PTL DEF Spec

-----------------------------------------------------------------------------
(* The output files.  The inductive invariant says which run each file     *)
(* comes from while the program is at work: the files before `at' are of   *)
(* this run, whole and synced; the one at `at' is, once it is open; the    *)
(* report is of an earlier run until it is opened.                         *)

Writing == phase \in {"write", "sync"}

BeforeReport ==
  \/ phase \in {"scan", "converted", "compile", "check", "open"}
  \/ Writing /\ at # Report

ByKnownRun ==
  /\ \A f \in File : files[f].by <= run
  /\ \A f \in File : ~Exists(f) => files[f].by = 0
EarlierDone ==
  phase = "open" \/ Writing =>
    \A f \in File : f < at => files[f].by = run /\ files[f].content = "whole" /\ files[f].synced
CurrentOurs == Writing => files[at].by = run /\ Exists(at)
CurrentWhole == phase = "sync" => files[at].content = "whole"
ReportOlder == BeforeReport => files[Report].by < run

OutputInv == ByKnownRun /\ EarlierDone /\ CurrentOurs /\ CurrentWhole /\ ReportOlder /\ ReportMeansComplete

LEMMA FileTypes ==
  ASSUME TypeInv
  PROVE  /\ Report \in Nat \ {0} /\ Report \in File /\ File = 1..Report
         /\ at \in File /\ run \in Nat \ {0} /\ files \in [File -> FileState]
         /\ \A f \in File : files[f].by \in Nat /\ files[f].synced \in BOOLEAN
BY ReportNumber, RunsAssumption DEF File, TypeInv, TypeOK, FileState

LEMMA OpenOutput ==
  ASSUME TypeInv, OutputInv, OpenFile
  PROVE  OutputInv'
<1> USE FileTypes DEF Order, Exists, Writing, BeforeReport
<1>1. CASE phase' = "failed" /\ UNCHANGED <<at, files, run>>
  BY <1>1 DEF OutputInv, ByKnownRun, EarlierDone, CurrentOurs, CurrentWhole, ReportOlder, ReportMeansComplete
<1>2. CASE /\ phase' = "write" /\ files' = [files EXCEPT ![at] = Written("empty")]
           /\ UNCHANGED <<at, run>>
  <2>1. /\ files'[at].by = run /\ files'[at].content = "empty"
        /\ \A f \in File \ {at} : files'[f] = files[f]
    BY <1>2 DEF Written
  <2>2. phase = "open" /\ files[Report].by < run
    BY DEF OpenFile, OutputInv, ReportOlder
  <2>3. ByKnownRun'
    BY <1>2, <2>1 DEF OutputInv, ByKnownRun
  <2>4. EarlierDone' /\ CurrentOurs' /\ CurrentWhole'
    BY <1>2, <2>1, <2>2 DEF OutputInv, EarlierDone, CurrentOurs, CurrentWhole
  <2>5. ReportOlder'
    BY <1>2, <2>1, <2>2 DEF ReportOlder
  <2>6. ReportMeansComplete'
    BY <1>2, <2>1, <2>2 DEF OutputInv, ReportMeansComplete
  <2>7. QED
    BY <2>3, <2>4, <2>5, <2>6 DEF OutputInv
<1>3. QED
  BY <1>1, <1>2 DEF OpenFile, Fail

LEMMA WriteOutput ==
  ASSUME TypeInv, OutputInv, WriteFile
  PROVE  OutputInv'
<1> USE FileTypes DEF Order, Exists, Writing, BeforeReport
<1>1. PICK content \in {"empty", "partial", "whole"} :
        /\ files' = [files EXCEPT ![at] = Written(content)]
        /\ \/ phase' = "sync" /\ content = "whole" /\ at' = at
           \/ phase' = "failed" /\ content # "whole"
  BY DEF WriteFile, Fail
<1>2. run' = run /\ phase = "write"
  BY DEF WriteFile
<1>3. /\ files'[at].by = run /\ files'[at].content = content
      /\ \A f \in File \ {at} : files'[f] = files[f]
  BY <1>1 DEF Written
<1>4. ByKnownRun'
  BY <1>2, <1>3 DEF OutputInv, ByKnownRun
<1>5. EarlierDone' /\ CurrentOurs' /\ CurrentWhole' /\ ReportOlder'
  BY <1>1, <1>2, <1>3 DEF OutputInv, EarlierDone, CurrentOurs, CurrentWhole, ReportOlder
<1>6. ReportMeansComplete'
  <2>1. CASE at = Report
    <3>1. \A f \in File \ {Report} : files'[f].by = run /\ files'[f].content = "whole" /\ files'[f].synced
      BY <1>2, <1>3, <2>1 DEF OutputInv, EarlierDone
    <3>2. files'[Report].by = run
      BY <1>3, <2>1
    <3>3. QED
      BY <3>1, <3>2 DEF ReportMeansComplete
  <2>2. CASE at # Report
    <3>1. files'[at].by > files'[Report].by /\ files'[Report] = files[Report]
      BY <1>2, <1>3, <2>2 DEF OutputInv, ReportOlder
    <3>2. QED
      BY <1>3, <3>1 DEF OutputInv, ReportMeansComplete
  <2>3. QED
    BY <2>1, <2>2
<1>7. QED
  BY <1>4, <1>5, <1>6 DEF OutputInv

LEMMA SyncOutput ==
  ASSUME TypeInv, OutputInv, SyncFile
  PROVE  OutputInv'
<1> USE FileTypes DEF Order, Exists, Writing, BeforeReport
<1>1. CASE phase' = "failed" /\ UNCHANGED <<at, files, run>>
  BY <1>1 DEF OutputInv, ByKnownRun, EarlierDone, CurrentOurs, CurrentWhole, ReportOlder, ReportMeansComplete
<1>2. CASE /\ files' = [files EXCEPT ![at].synced = TRUE] /\ run' = run
           /\ \/ at = Report /\ phase' = "done"
              \/ at # Report /\ phase' = "open" /\ at' = at + 1
  <2>1. /\ files'[at] = [files[at] EXCEPT !.synced = TRUE]
        /\ \A f \in File \ {at} : files'[f] = files[f]
    BY <1>2
  <2>2. files'[at].by = files[at].by /\ files'[at].content = files[at].content /\ files'[at].synced
    BY <2>1 DEF FileState
  <2>3. phase = "sync"
    BY DEF SyncFile
  <2>4. files[at].by = run /\ files[at].content = "whole"
    BY <2>3 DEF OutputInv, CurrentOurs, CurrentWhole
  <2>5. ByKnownRun'
    BY <1>2, <2>1, <2>2 DEF OutputInv, ByKnownRun
  <2>6. EarlierDone' /\ CurrentOurs' /\ CurrentWhole'
    BY <1>2, <2>1, <2>2, <2>3, <2>4 DEF OutputInv, EarlierDone, CurrentOurs, CurrentWhole
  <2>7. ReportOlder'
    BY <1>2, <2>1, <2>2, <2>3 DEF OutputInv, ReportOlder
  <2>8. ReportMeansComplete'
    <3>1. /\ \A f \in File : files'[f].by = files[f].by /\ files'[f].content = files[f].content
          /\ \A f \in File : files[f].synced => files'[f].synced
      BY <2>1, <2>2
    <3>2. QED
      BY <3>1 DEF OutputInv, ReportMeansComplete
  <2>9. QED
    BY <2>5, <2>6, <2>7, <2>8 DEF OutputInv
<1>3. QED
  BY <1>1, <1>2 DEF SyncFile, Fail

(* What was synced survives a loss of power, and nothing that was lost is  *)
(* whole afterwards.                                                       *)
LEMMA PowerOutput ==
  ASSUME TypeInv, OutputInv, PowerLost
  PROVE  OutputInv'
<1> USE FileTypes DEF Exists, Writing, BeforeReport
<1>1. PICK lost \in SUBSET {f \in File : ~files[f].synced}, content \in {"empty", "partial"} :
        files' = [f \in File |-> IF f \in lost THEN [files[f] EXCEPT !.content = content]
                                               ELSE files[f]]
  BY DEF PowerLost
<1>2. phase' = "failed" /\ run' = run
  BY DEF PowerLost, Fail
<1>3. \A f \in File : /\ files'[f].by = files[f].by
                      /\ files[f].synced => files'[f] = files[f]
                      /\ files'[f].content \in {files[f].content, "empty", "partial"}
                      /\ ~Exists(f)' => ~Exists(f)
  BY <1>1 DEF FileState
<1>4. ByKnownRun'
  BY <1>2, <1>3 DEF OutputInv, ByKnownRun
<1>5. ReportMeansComplete'
  BY <1>3 DEF OutputInv, ReportMeansComplete
<1>6. QED
  BY <1>2, <1>4, <1>5 DEF OutputInv, EarlierDone, CurrentOurs, CurrentWhole, ReportOlder

(* Another program cannot put a file where the program has one.            *)
LEMMA PlaceOutput ==
  ASSUME TypeInv, OutputInv, NEW f \in File, Place(f)
  PROVE  OutputInv'
<1> USE FileTypes DEF Exists, Writing, BeforeReport
<1>1. /\ UNCHANGED <<phase, run, at>> /\ ~Exists(f)
      /\ files'[f] = Foreign /\ \A g \in File \ {f} : files'[g] = files[g]
  BY DEF Place
<1>2. files[f].by = 0 /\ files'[f].by = 0 /\ files'[f].content = "whole"
  BY <1>1 DEF Foreign, OutputInv, ByKnownRun
<1>3. ByKnownRun'
  BY <1>1, <1>2 DEF OutputInv, ByKnownRun
<1>4. EarlierDone' /\ CurrentOurs' /\ CurrentWhole'
  BY <1>1 DEF OutputInv, EarlierDone, CurrentOurs, CurrentWhole
<1>5. ReportOlder'
  BY <1>1, <1>2 DEF OutputInv, ReportOlder
<1>6. ReportMeansComplete'
  BY <1>1, <1>2 DEF OutputInv, ReportMeansComplete
<1>7. QED
  BY <1>3, <1>4, <1>5, <1>6 DEF OutputInv

LEMMA OutputStep == TypeInv /\ OutputInv /\ [Next]_vars => OutputInv'
<1> SUFFICES ASSUME TypeInv, OutputInv, [Next]_vars PROVE OutputInv'
  OBVIOUS
<1> DEFINE Idle == UNCHANGED <<files, run, at>>
<1>1. ASSUME Idle, phase' \in {"failed", "done"} \/ (BeforeReport /\ BeforeReport' /\ phase' # "open" /\ ~Writing')
      PROVE  OutputInv'
  BY <1>1 DEF OutputInv, ByKnownRun, EarlierDone, CurrentOurs, CurrentWhole, ReportOlder,
              BeforeReport, ReportMeansComplete, Exists, Writing
<1>2. CASE UNCHANGED <<files, run, at, phase>>
  BY <1>2 DEF OutputInv, ByKnownRun, EarlierDone, CurrentOurs, CurrentWhole, ReportOlder,
              BeforeReport, ReportMeansComplete, Exists, Writing
<1>3. CASE Scan
  <2>1. UNCHANGED outVars
    BY <1>3 DEF Scan
  <2>2. ASSUME NEW unsafe, NEW compared, EndOfSource(unsafe, compared)
        PROVE  phase = "scan" /\ phase' \in {"converted", "failed"}
    BY <2>2, Zenon DEF EndOfSource
  <2>3. phase' = phase \/ (phase = "scan" /\ phase' \in {"converted", "failed"})
    BY <1>3, <2>2 DEF Scan, ScanNext, OpenBlock, LocalFunction, End, Until, SendCall, Profile, Receive
  <2>4. CASE phase' = phase
    BY <1>2, <2>1, <2>4 DEF outVars
  <2>5. CASE phase = "scan" /\ phase' \in {"converted", "failed"}
    BY <1>1, <2>1, <2>5 DEF outVars, BeforeReport, Writing
  <2>6. QED
    BY <2>3, <2>4, <2>5
<1>4. CASE Return \/ CompileAll \/ Killed
  <2>1. /\ Idle
        /\ \/ phase' = "failed"
           \/ phase = "converted" /\ phase' = "compile"
           \/ phase = "compile" /\ phase' = "check"
    BY <1>4 DEF Return, CompileAll, Killed, Fail, outVars
  <2>2. QED
    BY <1>1, <2>1 DEF BeforeReport, Writing
<1>5. CASE CheckOutputs
  <2>1. CASE phase' = "failed" /\ Idle
    BY <1>1, <2>1
  <2>2. CASE phase = "check" /\ phase' = "open" /\ at' = 1 /\ UNCHANGED <<files, run>>
    <3>1. \A f \in File : ~(f < 1)
      BY FileTypes
    <3>2. QED
      BY <2>2, <3>1 DEF OutputInv, ByKnownRun, EarlierDone, CurrentOurs, CurrentWhole, ReportOlder,
                        BeforeReport, ReportMeansComplete, Exists, Writing
  <2>3. QED
    BY <1>5, <2>1, <2>2 DEF CheckOutputs, Fail
<1>6. CASE OpenFile \/ WriteFile \/ SyncFile \/ PowerLost \/ \E f \in File : Place(f)
  BY <1>6, OpenOutput, WriteOutput, SyncOutput, PowerOutput, PlaceOutput
<1>7. CASE RunAgain
  <2>1. UNCHANGED files /\ run' = run + 1 /\ phase' = "check"
    BY <1>7 DEF RunAgain
  <2>2. files[Report].by < run' /\ \A f \in File : files[f].by <= run'
    BY <2>1, FileTypes DEF OutputInv, ByKnownRun
  <2>3. QED
    BY <2>1, <2>2 DEF OutputInv, ByKnownRun, EarlierDone, CurrentOurs, CurrentWhole, ReportOlder,
                      ReportMeansComplete, Exists, Writing
<1>8. CASE UNCHANGED vars
  BY <1>2, <1>8 DEF vars, outVars, scanVars
<1>9. QED
  BY <1>3, <1>4, <1>5, <1>6, <1>7, <1>8 DEF Next

LEMMA OutputInit == Init => OutputInv
<1> SUFFICES ASSUME Init PROVE OutputInv
  OBVIOUS
<1>1. /\ \A f \in File : files[f].by = 0 /\ run = 1 /\ phase = "scan"
      /\ Report \in File
  BY ReportNumber DEF Init, ScanInit, Absent
<1>2. QED
  BY <1>1 DEF OutputInv, ByKnownRun, EarlierDone, CurrentOurs, CurrentWhole, ReportOlder,
              ReportMeansComplete, Writing

(* Through failed writes, kills, losses of power, foreign files and runs   *)
(* over what earlier runs left, for any number of modes and of runs: a     *)
(* report that is whole is never accompanied by an older, torn or unsynced *)
(* file.                                                                   *)
THEOREM ReportSound == Spec => []ReportMeansComplete
<1>1. OutputInv => ReportMeansComplete
  BY DEF OutputInv
<1>2. QED
  BY <1>1, TypeInit, TypeStep, OutputInit, OutputStep, PTL DEF Spec

(* An unforced run changes no file but those it created itself.            *)
THEOREM NothingOverwritten == Spec => NeverOverwrites
<1> DEFINE Unforced == (OpenFile \/ WriteFile \/ SyncFile) /\ ~force =>
                         \A f \in File : Exists(f) /\ files[f].by # run => files'[f] = files[f]
<1>1. TypeInv /\ OutputInv /\ [Next]_vars => [Unforced]_vars
  <2> SUFFICES ASSUME TypeInv, OutputInv, OpenFile \/ WriteFile \/ SyncFile, ~force,
                      NEW f \in File, Exists(f), files[f].by # run
               PROVE  files'[f] = files[f]
    OBVIOUS
  <2>1. CASE f # at
    BY <2>1, FileTypes DEF OpenFile, WriteFile, SyncFile, Order
  <2>2. CASE f = at
    <3>1. ~Writing
      BY <2>2 DEF OutputInv, CurrentOurs
    <3>2. OpenFile /\ ~MayOpen(at)
      BY <2>2, <3>1 DEF WriteFile, SyncFile, Writing, MayOpen
    <3>3. QED
      BY <3>2 DEF OpenFile, Order
  <2>3. QED
    BY <2>1, <2>2
<1>2. QED
  BY <1>1, TypeInit, TypeStep, OutputInit, OutputStep, PTL DEF Spec, NeverOverwrites

-----------------------------------------------------------------------------
(* The reads.  Each call in a function that is kept is a call of the       *)
(* source of its own, and so is each call in the function being cut out.   *)
(* The calls that are kept are pairs of a mode and a number.               *)

Held(f) == {x \in Mode \X (1..MaxReceives) : f[x[1]] # None /\ x[2] <= f[x[1]].receives}

CallsApart == phase = "scan" => Cardinality(Held(functions)) + body.receives <= receives
SizeOfCall(b) == b.size # None => b.receives > 0
Sized ==
  /\ SizeOfCall(body)
  /\ \A m \in Mode : functions[m] # None => SizeOfCall(functions[m])

CarriedInv == CallsApart /\ Sized /\ ReadsCarriedOver

LEMMA HeldFinite == ASSUME NEW f PROVE IsFiniteSet(Held(f)) /\ Cardinality(Held(f)) \in Nat
<1>1. IsFiniteSet(Mode) /\ IsFiniteSet(1..MaxReceives)
  BY NseConstants, FS_Interval
<1>2. IsFiniteSet(Mode \X (1..MaxReceives))
  BY <1>1, FS_Product
<1>3. Held(f) \subseteq Mode \X (1..MaxReceives)
  BY DEF Held
<1>4. QED
  BY <1>2, <1>3, FS_Subset, FS_CardinalityType

(* A function that is kept adds at most its own calls.                     *)
LEMMA HeldReplaced ==
  ASSUME NEW f \in [Checked -> Body \cup {None}], NEW n \in Checked, NEW b \in Body
  PROVE  Cardinality(Held([f EXCEPT ![n] = b])) <= Cardinality(Held(f)) + b.receives
<1> DEFINE g == [f EXCEPT ![n] = b]  new == {n} \X (1..b.receives)
<1>1. b.receives \in Nat
  BY NseConstants DEF Body
<1>2. Held(g) \subseteq Held(f) \cup new
  <2>1. ASSUME NEW x \in Held(g) PROVE x \in Held(f) \cup new
    <3>1. x \in Mode \X (1..MaxReceives) /\ g[x[1]] # None /\ x[2] <= g[x[1]].receives
      BY DEF Held
    <3>2. x[1] \in Checked /\ x = <<x[1], x[2]>> /\ x[2] \in Int /\ x[2] >= 1
      BY <3>1, NseConstants DEF Checked
    <3>3. CASE x[1] = n
      <4>1. x[2] <= b.receives
        BY <3>1, <3>2, <3>3
      <4>2. x[2] \in 1..b.receives
        BY <1>1, <3>2, <4>1
      <4>3. QED
        BY <3>2, <3>3, <4>2
    <3>4. CASE x[1] # n
      <4>1. g[x[1]] = f[x[1]]
        BY <3>2, <3>4
      <4>2. QED
        BY <3>1, <4>1 DEF Held
    <3>5. QED
      BY <3>3, <3>4
  <2>2. QED
    BY <2>1
<1>3. IsFiniteSet(new) /\ Cardinality(new) = b.receives
  <2>1. /\ IsFiniteSet(1..b.receives) /\ Cardinality(1..b.receives) = b.receives
    BY SMTT(30), <1>1, FS_Interval
  <2>2. IsFiniteSet({n}) /\ Cardinality({n}) = 1
    BY FS_Singleton
  <2>3. IsFiniteSet(new) /\ Cardinality(new) = Cardinality({n}) * Cardinality(1..b.receives)
    BY <2>1, <2>2, FS_Product
  <2>4. QED
    BY <1>1, <2>1, <2>2, <2>3
<1> HIDE DEF g, new
<1>4. /\ IsFiniteSet(Held(f)) /\ Cardinality(Held(f)) \in Nat
      /\ IsFiniteSet(Held(g)) /\ Cardinality(Held(g)) \in Nat
  BY HeldFinite
<1>5. /\ IsFiniteSet(Held(f) \cup new)
      /\ Cardinality(Held(f) \cup new) <= Cardinality(Held(f)) + b.receives
      /\ Cardinality(Held(f) \cup new) \in Nat
  <2>1. /\ IsFiniteSet(Held(f) \cup new)
        /\ Cardinality(Held(f) \cup new)
             = Cardinality(Held(f)) + Cardinality(new) - Cardinality(Held(f) \cap new)
    BY <1>3, <1>4, FS_Union
  <2>2. Cardinality(Held(f) \cap new) \in Nat /\ Cardinality(Held(f) \cup new) \in Nat
    <3>1. Held(f) \cap new \subseteq new
      OBVIOUS
    <3>2. QED
      BY <1>3, <2>1, <3>1, FS_Subset, FS_CardinalityType
  <2>3. QED
    BY <1>1, <1>3, <1>4, <2>1, <2>2
<1>6. Cardinality(Held(g)) <= Cardinality(Held(f) \cup new)
  BY <1>2, <1>5, FS_Subset
<1>7. QED
  BY <1>1, <1>4, <1>5, <1>6 DEF g

(* As many calls as modes, and one in each at least: one in each.          *)
LEMMA OneEach ==
  ASSUME NEW f \in [Checked -> Body \cup {None}],
         \A m \in Mode : f[m] # None /\ f[m].receives > 0,
         Cardinality(Held(f)) <= Cardinality(Mode),
         NEW n \in Mode
  PROVE  f[n].receives = 1
<1>1. \A m \in Mode : f[m] \in Body /\ f[m].receives \in 1..MaxReceives
  BY NseConstants DEF Checked, Body
<1>2. SUFFICES ASSUME f[n].receives >= 2 PROVE FALSE
  BY <1>1, NseConstants
<1> DEFINE one == {<<m, 1>> : m \in Mode}
           h == [m \in Mode |-> <<m, 1>>]
<1>3. IsFiniteSet(Mode) /\ Cardinality(Mode) \in Nat
  BY NseConstants, FS_CardinalityType
<1>4. IsFiniteSet(one) /\ Cardinality(one) = Cardinality(Mode)
  <2>1. h \in Bijection(Mode, one)
    <3>1. h \in Surjection(Mode, one)
      BY DEF Surjection
    <3>2. h \in Injection(Mode, one)
      BY DEF Injection, IsInjective
    <3>3. QED
      BY <3>1, <3>2 DEF Bijection
  <2>2. h \in Surjection(Mode, one) /\ h \in Injection(Mode, one)
    BY <2>1 DEF Bijection
  <2> HIDE DEF h, one
  <2>3. QED
    BY <1>3, <2>2, FS_Surjection
<1>5. one \cup {<<n, 2>>} \subseteq Held(f)
  <2>1. 1 \in 1..MaxReceives /\ 2 \in 1..MaxReceives
    BY <1>1, <1>2, NseConstants
  <2>2. \A m \in Mode : <<m, 1>> \in Held(f)
    BY <1>1, <2>1 DEF Held
  <2>3. <<n, 2>> \in Held(f)
    BY <1>1, <1>2, <2>1 DEF Held
  <2>4. QED
    BY <2>2, <2>3
<1>6. <<n, 2>> \notin one
  OBVIOUS
<1> HIDE DEF one
<1>7. Cardinality(one \cup {<<n, 2>>}) = Cardinality(Mode) + 1
  BY <1>4, <1>6, FS_AddElement
<1>8. Cardinality(one \cup {<<n, 2>>}) <= Cardinality(Held(f))
  BY <1>5, HeldFinite, FS_Subset
<1>9. QED
  BY <1>3, <1>7, <1>8, HeldFinite

(* What the converter does with the tokens when the end of a function is   *)
(* read, and with a call inside a function.                                *)
LEMMA EndReads ==
  ASSUME TypeInv, CarriedInv, End
  PROVE  CarriedInv'
<1>1. /\ phase = "scan" /\ phase' = phase /\ receives' = receives /\ receives \in Nat
      /\ functions \in [Checked -> Body \cup {None}] /\ body \in Body /\ body.receives \in Nat
      /\ current \in Name \cup {None}
  BY NseConstants DEF End, TypeInv, TypeOK, ScanTypes, Body
<1>2. CASE UNCHANGED <<functions, body>>
  BY <1>1, <1>2 DEF CarriedInv, CallsApart, Sized, SizeOfCall, ReadsCarriedOver
<1>3. CASE body' = NoTokens /\ functions' = functions
  <2>1. body'.receives <= body.receives /\ body'.size = None
    BY <1>1, <1>3, NseConstants DEF NoTokens
  <2>2. body'.receives = 0
    BY <1>3 DEF NoTokens
  <2>3. CallsApart'
    <3>1. Cardinality(Held(functions)) \in Nat
      BY HeldFinite
    <3>2. Cardinality(Held(functions)) + 0 <= receives
      BY <1>1, <3>1 DEF CarriedInv, CallsApart
    <3>3. QED
      BY <1>1, <1>3, <2>2, <3>2 DEF CallsApart
  <2>4. QED
    BY <1>1, <1>3, <2>1, <2>3 DEF CarriedInv, Sized, SizeOfCall, ReadsCarriedOver
<1>4. CASE /\ current \in Checked /\ body' = NoTokens
           /\ functions' = [functions EXCEPT ![current] = Kept(current)]
  <2>1. /\ Kept(current) \in Body /\ Kept(current).receives \in Nat
        /\ Kept(current).receives <= body.receives
        /\ current \in Mode => Kept(current) = body
    BY <1>1, <1>4, KeptType, NseConstants DEF Kept, NoTokens, Body, Checked, Name
  <2>2. body'.receives = 0 /\ body'.size = None
    BY <1>4 DEF NoTokens
  <2>3. CallsApart'
    <3>1. Cardinality(Held(functions')) <= Cardinality(Held(functions)) + Kept(current).receives
      BY <1>1, <1>4, <2>1, HeldReplaced
    <3>2. Cardinality(Held(functions)) \in Nat /\ Cardinality(Held(functions')) \in Nat
      BY HeldFinite
    <3>3. Cardinality(Held(functions)) + body.receives <= receives
      BY <1>1 DEF CarriedInv, CallsApart
    <3>4. Cardinality(Held(functions')) + 0 <= receives'
      BY <1>1, <2>1, <3>1, <3>2, <3>3
    <3>5. QED
      BY <2>2, <3>4 DEF CallsApart
  <2>4. Sized'
    <3>1. ASSUME NEW m \in Mode, functions'[m] # None PROVE SizeOfCall(functions'[m])
      <4>1. CASE m = current
        BY <1>1, <1>4, <2>1, <4>1 DEF CarriedInv, Sized, Checked
      <4>2. CASE m # current
        BY <1>1, <1>4, <3>1, <4>2 DEF CarriedInv, Sized, Checked
      <4>3. QED
        BY <4>1, <4>2
    <3>2. QED
      BY <2>2, <3>1 DEF Sized, SizeOfCall
  <2>5. QED
    BY <1>1, <2>3, <2>4 DEF CarriedInv, ReadsCarriedOver
<1>5. QED
  BY <1>2, <1>3, <1>4 DEF End

LEMMA ReceiveReads ==
  ASSUME TypeInv, CarriedInv, NEW size \in Size, Receive(size)
  PROVE  CarriedInv'
<1>1. /\ phase = "scan" /\ phase' = phase /\ functions' = functions
      /\ receives' = receives + 1 /\ receives \in Nat /\ receives + 1 \in 0..MaxReceives
      /\ body \in Body /\ body.receives \in Nat /\ body.receives <= receives
      /\ Cardinality(Held(functions)) \in Nat
  BY HeldFinite, NseConstants DEF Receive, TypeInv, TypeOK, ScanTypes, Body, Within
<1>2. CASE body' = body
  BY <1>1, <1>2 DEF CarriedInv, CallsApart, Sized, ReadsCarriedOver
<1>3. CASE body' = Received(body, size)
  <2>1. body.receives + 1 \in 0..MaxReceives
    BY <1>1, NseConstants
  <2>2. body'.receives = body.receives + 1
    BY <1>1, <1>3, <2>1, ReceivedType
  <2>3. CallsApart'
    BY <1>1, <2>2 DEF CarriedInv, CallsApart
  <2>4. SizeOfCall(body')
    BY <1>1, <2>2 DEF SizeOfCall
  <2>5. QED
    BY <1>1, <2>3, <2>4 DEF CarriedInv, Sized, ReadsCarriedOver
<1>4. QED
  BY <1>2, <1>3 DEF Receive, Received

LEMMA EndOfSourceReads ==
  ASSUME TypeInv, CarriedInv, NEW unsafe, NEW compared, EndOfSource(unsafe, compared)
  PROVE  CarriedInv'
<1>1. CASE /\ CallsExpected /\ ProfilesFound
           /\ phase' = "converted"
           /\ bundle' = [m \in Mode |-> functions[m].size]
           /\ UNCHANGED <<body, functions, receives>>
  <2>1. /\ functions \in [Checked -> Body \cup {None}] /\ body \in Body
        /\ body.receives \in Nat /\ receives \in Nat /\ receives = Cardinality(Mode)
        /\ phase = "scan" /\ Cardinality(Held(functions)) \in Nat
    BY <1>1, HeldFinite, NseConstants
       DEF TypeInv, TypeOK, ScanTypes, Body, CallsExpected, EndOfSource
  <2>2. \A m \in Mode : functions[m] # None /\ functions[m].receives > 0
    BY <1>1 DEF CarriedInv, Sized, SizeOfCall, ProfilesFound, Checked
  <2>3. Cardinality(Held(functions)) <= Cardinality(Mode)
    BY <2>1 DEF CarriedInv, CallsApart
  <2>4. \A m \in Mode : functions[m].receives = 1
    BY <2>1, <2>2, <2>3, OneEach
  <2>5. ReadsCarriedOver'
    BY <1>1, <2>4 DEF ReadsCarriedOver
  <2>6. QED
    BY <1>1, <2>5 DEF CarriedInv, CallsApart, Sized, SizeOfCall
<1>2. CASE phase' = "failed" /\ Dropped
  <2>1. \A m \in Mode : functions'[m] = None
    BY <1>2 DEF Dropped, Checked
  <2>2. body'.size = None
    BY <1>2 DEF Dropped, NoTokens
  <2>3. QED
    BY <1>2, <2>1, <2>2 DEF CarriedInv, CallsApart, Sized, SizeOfCall, ReadsCarriedOver
<1>3. QED
  BY <1>1, <1>2 DEF EndOfSource

LEMMA CarriedStep == TypeInv /\ CarriedInv /\ [Next]_vars => CarriedInv'
<1> SUFFICES ASSUME TypeInv, CarriedInv, [Next]_vars PROVE CarriedInv'
  OBVIOUS
<1>1. CASE UNCHANGED <<body, functions, receives, phase, bundle>>
  BY <1>1 DEF CarriedInv, CallsApart, Sized, SizeOfCall, ReadsCarriedOver
<1>2. CASE UNCHANGED <<body, functions>> /\ phase' \notin {"scan", "converted"}
  BY <1>2 DEF CarriedInv, CallsApart, Sized, SizeOfCall, ReadsCarriedOver
<1>3. ASSUME phase = "scan", phase' = "scan", UNCHANGED <<functions, receives, bundle>>,
             body'.receives <= body.receives, body'.receives \in Nat, SizeOfCall(body')
      PROVE  CarriedInv'
  <2>1. Cardinality(Held(functions)) \in Nat /\ receives \in Nat /\ body.receives \in Nat
    BY HeldFinite, NseConstants DEF TypeInv, TypeOK, ScanTypes, Body
  <2>2. Cardinality(Held(functions)) + body'.receives <= receives
    BY <1>3, <2>1 DEF CarriedInv, CallsApart
  <2>3. QED
    BY <1>3, <2>2 DEF CarriedInv, CallsApart, Sized, ReadsCarriedOver
<1>4. CASE Until \/ \E keyword \in Keyword : OpenBlock(keyword)
  BY <1>1, <1>4 DEF Until, OpenBlock
<1>5. ASSUME NEW n \in Name, LocalFunction(n) PROVE CarriedInv'
  <2>1. CASE body' = body
    BY <1>1, <1>5, <2>1 DEF LocalFunction
  <2>2. CASE body' = NoTokens
    <3>1. body'.receives = 0 /\ body'.size = None /\ body.receives \in Nat
      BY <2>2, NseConstants DEF NoTokens, TypeInv, TypeOK, ScanTypes, Body
    <3>2. SizeOfCall(body') /\ body'.receives <= body.receives /\ body'.receives \in Nat
      BY <3>1 DEF SizeOfCall
    <3>3. QED
      BY <1>3, <1>5, <3>2 DEF LocalFunction
  <2>3. QED
    BY <1>5, <2>1, <2>2 DEF LocalFunction
<1>6. CASE SendCall \/ Profile
  <2>1. body \in Body /\ body.receives \in Nat
    BY NseConstants DEF TypeInv, TypeOK, ScanTypes, Body
  <2>2. body'.receives = body.receives /\ body'.size = body.size
    BY <1>6, <2>1 DEF SendCall, Profile, Body
  <2>3. SizeOfCall(body')
    BY <2>2 DEF CarriedInv, Sized, SizeOfCall
  <2>4. QED
    BY <1>3, <1>6, <2>1, <2>2, <2>3 DEF SendCall, Profile
<1>7. CASE Scan
  BY <1>4, <1>5, <1>6, <1>7, EndReads, ReceiveReads, EndOfSourceReads DEF Scan, ScanNext
<1>8. CASE Return
  <2>1. (\A m \in Mode : functions'[m] = None) /\ body'.size = None /\ phase' = "compile"
    BY <1>8 DEF Return, Dropped, Checked, NoTokens
  <2>2. QED
    BY <2>1 DEF CarriedInv, CallsApart, Sized, SizeOfCall, ReadsCarriedOver
<1>9. CASE \/ CompileAll \/ CheckOutputs \/ OpenFile \/ WriteFile \/ SyncFile
           \/ Killed \/ PowerLost \/ RunAgain
  BY <1>2, <1>9 DEF CompileAll, CheckOutputs, OpenFile, WriteFile, SyncFile, Killed,
                    PowerLost, RunAgain, Fail, Unscanned
<1>10. ASSUME NEW f \in File, Place(f) PROVE CarriedInv'
  BY <1>1, <1>10 DEF Place, Unscanned
<1>11. CASE UNCHANGED vars
  BY <1>1, <1>11 DEF vars, scanVars
<1>12. QED
  BY <1>7, <1>8, <1>9, <1>10, <1>11 DEF Next

(* What is converted receives once in each mode, with the size its YAML    *)
(* asks for, although no check of the converter says so.                   *)
THEOREM ReadsCarriedOverCorrect == Spec => []ReadsCarriedOver
<1>1. Init => CarriedInv
  <2> SUFFICES ASSUME Init PROVE CarriedInv
    OBVIOUS
  <2>1. /\ phase = "scan" /\ receives = 0 /\ body.receives = 0 /\ body.size = None
        /\ \A n \in Checked : functions[n] = None
    BY DEF Init, ScanInit, NoTokens
  <2>2. Held(functions) = {}
    BY <2>1 DEF Held, Checked
  <2>3. Cardinality(Held(functions)) = 0
    BY <2>2, FS_EmptySet
  <2>4. QED
    BY <2>1, <2>3 DEF CarriedInv, CallsApart, Sized, SizeOfCall, ReadsCarriedOver, Checked
<1>2. CarriedInv => ReadsCarriedOver
  BY DEF CarriedInv
<1>3. QED
  BY <1>1, <1>2, TypeInit, TypeStep, CarriedStep, PTL DEF Spec
=============================================================================
