--------------------------- MODULE NseConversion ---------------------------
(***************************************************************************)
(* The program nse2yaml (src/src/bin/nse2yaml.rs): it converts one source, *)
(* compiles what it generated, and writes one YAML file per mode and last  *)
(* a report that vouches for them.  Writes may fail half-way, the program  *)
(* may be killed, the machine may lose power, other programs may put files *)
(* into the same directory, and the operator may run it again, with or     *)
(* without --force.  Every run reads the same source, so a later run goes  *)
(* straight to the compilation of the same bundle.                         *)
(***************************************************************************)
EXTENDS NseRecogniser

CONSTANT MaxRuns  \* bound: times the program is run

ASSUME RunsAssumption == MaxRuns \in Nat \ {0}

VARIABLES
  run,     \* number of the run of the program
  force,   \* its option --force
  at,      \* the file it is at
  files    \* the output files: content, and the run that wrote it

outVars == <<run, force, at, files>>
vars == <<scanVars, outVars>>

-----------------------------------------------------------------------------
(* Files in the order in which they are written: the YAML files of the     *)
(* bundle, then the report.                                                *)
Report == Cardinality(Mode) + 1
File == 1..Report
ReportFirst(i) == IF i = 1 THEN Report ELSE i - 1
Order(i) == i

(* A file that is absent, or what the run `by' put into it; 0 is another   *)
(* program.  What is not synced may be gone after a loss of power.         *)
Absent == [by |-> 0, content |-> "absent", synced |-> TRUE]
Foreign == [by |-> 0, content |-> "whole", synced |-> TRUE]
Written(content) == [by |-> run, content |-> content, synced |-> FALSE]
FileState == [by : 0..MaxRuns, content : {"absent", "empty", "partial", "whole"}, synced : BOOLEAN]

Exists(f) == files[f].content # "absent"

Init ==
  /\ ScanInit
  /\ run = 1 /\ force = FALSE
  /\ at = 1
  /\ files = [f \in File |-> Absent]

-----------------------------------------------------------------------------
Fail == phase' = "failed" /\ UNCHANGED at

Scan == ScanNext /\ UNCHANGED outVars

(* convert_valleyrat returns: the bundle is all that is left of the source.*)
Return ==
  /\ phase = "converted"
  /\ phase' = "compile"
  /\ Dropped
  /\ UNCHANGED <<bundle, outVars>>

(* Every generated document goes through the DSL compiler, which refuses   *)
(* one that extracts beyond what it receives.  The options of the program  *)
(* are not looked at before this.                                          *)
CompileAll ==
  /\ phase = "compile"
  /\ phase' = IF \A m \in Mode : bundle[m] = "enough" THEN "check" ELSE "failed"
  /\ bundle' = [m \in Mode |-> None]
  /\ force' \in BOOLEAN
  /\ UNCHANGED <<open, legal, current, depth, body, functions, sends, receives, run, at, files>>

Unscanned == UNCHANGED <<open, legal, current, depth, body, functions, sends, receives, bundle>>

(* Without --force nothing may exist; the directory may be unusable.       *)
CheckOutputs ==
  /\ phase = "check"
  /\ \/ /\ ~force => \A f \in File : ~Exists(f)
        /\ phase' = "open" /\ at' = 1
     \/ Fail
  /\ Unscanned /\ UNCHANGED <<run, force, files>>

(* create_new, or create and truncate; fails when create_new finds a file, *)
(* or for a reason of the file system.                                     *)
AnyOpen(f) == TRUE
MayOpen(f) == force \/ ~Exists(f)

OpenFile ==
  /\ phase = "open"
  /\ LET f == Order(at) IN
     \/ /\ MayOpen(f)
        /\ phase' = "write"
        /\ files' = [files EXCEPT ![f] = Written("empty")]
        /\ UNCHANGED at
     \/ Fail /\ UNCHANGED files
  /\ Unscanned /\ UNCHANGED <<run, force>>

WriteFile ==
  /\ phase = "write"
  /\ \/ /\ phase' = "sync"
        /\ files' = [files EXCEPT ![Order(at)] = Written("whole")]
        /\ UNCHANGED at
     \/ /\ \E content \in {"empty", "partial"} :
             files' = [files EXCEPT ![Order(at)] = Written(content)]
        /\ Fail
  /\ Unscanned /\ UNCHANGED <<run, force>>

(* sync_all, and on to the next file.                                      *)
SyncFile ==
  /\ phase = "sync"
  /\ \/ /\ files' = [files EXCEPT ![Order(at)].synced = TRUE]
        /\ IF at = Report
           THEN phase' = "done" /\ UNCHANGED at
           ELSE phase' = "open" /\ at' = at + 1
     \/ Fail /\ UNCHANGED files
  /\ Unscanned /\ UNCHANGED <<run, force>>

-----------------------------------------------------------------------------
(* The environment.                                                        *)

Outputting == phase \in {"check", "open", "write", "sync"}

Killed ==
  /\ Outputting
  /\ Fail
  /\ Unscanned /\ UNCHANGED <<run, force, files>>

(* What was not synced may be lost; the program is stopped.                *)
PowerLost ==
  /\ \E lost \in SUBSET {f \in File : ~files[f].synced}, content \in {"empty", "partial"} :
       /\ lost # {}
       /\ files' = [f \in File |-> IF f \in lost
                                   THEN [files[f] EXCEPT !.content = content]
                                   ELSE files[f]]
  /\ Fail
  /\ Unscanned /\ UNCHANGED <<run, force>>

(* Another program puts a file where there is none.                        *)
Place(f) ==
  /\ Outputting /\ ~Exists(f)
  /\ files' = [files EXCEPT ![f] = Foreign]
  /\ Unscanned /\ UNCHANGED <<phase, run, force, at>>

(* The operator runs the program again after a run that got as far as its  *)
(* output, which is when anything has been written or the directory seen.  *)
RunAgain ==
  /\ \/ phase = "done"
     \/ phase = "failed" /\ \E f \in File : Exists(f)
  /\ run < MaxRuns
  /\ run' = run + 1 /\ force' \in BOOLEAN
  /\ phase' = "check" /\ at' = 1
  /\ Unscanned /\ UNCHANGED files

Next ==
  \/ Scan \/ Return \/ CompileAll \/ CheckOutputs \/ OpenFile \/ WriteFile \/ SyncFile
  \/ Killed \/ PowerLost \/ (\E f \in File : Place(f)) \/ RunAgain

Spec == Init /\ [][Next]_vars

-----------------------------------------------------------------------------
(* Properties.                                                             *)

TypeOK ==
  /\ phase \in {"scan", "converted", "failed", "compile"} \cup {"check", "open", "write", "sync", "done"}
  /\ ScanTypes
  /\ run \in 1..MaxRuns /\ force \in BOOLEAN
  /\ at \in File
  /\ files \in [File -> FileState]

(* A report that is whole vouches for whole and synced YAML files of the   *)
(* same run, or for files that a later run has replaced, through failed    *)
(* writes, kills and losses of power: it is written last, after each file  *)
(* has been synced (src/src/bin/nse2yaml.rs:75).                           *)
ReportMeansComplete ==
  LET report == files[Report] IN
  report.by > 0 /\ report.content = "whole" =>
    \A f \in File \ {Report} :
      \/ files[f].by > report.by
      \/ files[f].by = report.by /\ files[f].content = "whole" /\ files[f].synced

(* Without --force, no step of the program changes a file that was there   *)
(* when its run began or that another program put there meanwhile, however *)
(* late: what exists is looked up once, but opened with create_new         *)
(* (src/src/bin/nse2yaml.rs:108).                                          *)
NeverOverwrites ==
  [][(OpenFile \/ WriteFile \/ SyncFile) /\ ~force =>
       \A f \in File : Exists(f) /\ files[f].by # run => files'[f] = files[f]]_vars
=============================================================================
