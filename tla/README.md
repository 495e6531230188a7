# Verification of c2probe in TLA+

c2probe scans IPv4 address ranges for C2 servers: it sends SYN packets, and on
every port that answers it runs a list of application probes written in a YAML
DSL. A second program, `nse2yaml`, writes such probes from a reviewed Nmap
script. This directory holds TLA+ models of both, TLC configurations that check
them on small instances, and TLAPS proofs for all instances. Paths
such as `scheduler.rs:125` are relative to `src/src/`, line numbers are those of
the modelled commit.

## 1. Inventory

| Component | State it keeps | Operations | Talks to |
|---|---|---|---|
| Pipeline (`main.rs`) | channel ends, `pipeline_error`, task handles | start tasks, produce jobs, wait with grace, abort, flush, report | everything below |
| Shutdown (`shutdown.rs`) | one watch flag, two-signal listener | `listen`, `request`, `wait`, `is_triggered` | all tasks |
| Probe scheduler (`probe/scheduler.rs`) | claimed keys, host map with counts, three kinds of semaphores, plan tasks | `run_probes_with_shutdown`, `run_plan`, `SeenProbes::claim`, `HostLimits::{acquire,release}`, `send_result` | input channel from discovery or targets; result channel to output |
| Probe executor (`probe/executor.rs`, `probe/transport.rs`) | buffers, registers, overrides, stream of one connection | `execute`, `run`, evaluation, framed reads with deadlines | the remote peer |
| SYN discovery (`discovery/linux.rs`, `cookie.rs`) | send batch, pacing clock, `done` flag | sender loop, receiver thread, cookie encode/match, RTT | job channel, raw sockets, open-port channel |
| Targets and ports (`target/mod.rs`) | nets, sockets, exclusions, port ranges | parse, iterate, shard, count | producer, metrics |
| Multi-process parent (`multiprocess.rs`) | children, readers, line channel, deadline | spawn, forward lines, stop, kill, reap, share limits | worker processes |
| Output writer (`output/mod.rs`) | buffered writer, CSV header flag | `write`, `flush`, `shutdown` | result channel, file |
| Metrics (`metrics/mod.rs`) | saturating atomic counters | inc, dec | all tasks |
| DSL compiler (`dsl/compiler.rs`, `ir.rs`, `schema.rs`) | files of a load, resolved parameters; symbol tables of one compilation | collect, parameterise, substitute, compile, check ranges, sort | executor (IR), command line |
| CLI (`cli/mod.rs`) | parsed options | `validate`, `runs_probes`, limits | pipeline |
| NSE converter (`nse/mod.rs`, `bin/nse2yaml.rs`) | tokens of one script, the function being cut out, counts of calls; the output files | recognise, convert, compile, check, write, sync | DSL compiler; the file system |
| Affinity, logging, error, scripts, probe YAML | none that interacts | system calls, formatting, data | - |

**What is hard.** Host semaphores live in a map with reference counts and are
created again after removal. Plans of the same endpoint overlap (an explicit
target that a net also covers, a repeated SYN/ACK). A plan holds a global, a
host and a probe permit and waits for room in a bounded channel. Ctrl+C, an
output error, the grace timer and an aborted `JoinSet` may come between any two
steps. The metrics count across tasks and must be undone on error paths. In the
parent, a deadline races with the worker's own and with lines still queued.
The SYN sender paces batches against a clock that stands still while idle, and
its receiver outlives some error exits. Parameters are substituted in the order
of a `HashMap`, which differs from process to process. The converter writes
several files that vouch for one another and may be stopped between any two.

**What makes each component correct.**

* *Scheduler*: limits hold at all times; each (ip, port, probe name) runs at most
  once; none is lost but to an earlier probe of its name; results are delivered once, after the open record of their port;
  after Ctrl+C at most one plan starts; it always comes to rest.
* *Pipeline*: every way to stop ends in a flushed output, and no failure of a task is
  lost in the exit status; no record is lost on a clean exit; a silent peer cannot hold the process after Ctrl+C.
* *Parent*: without Ctrl+C the file holds every line of every worker once, in the
  order of the worker; a failing worker is reported; the process ends.
* *Targets*: shards partition the jobs, counts equal what iteration yields.
* *Discovery*: no burst above the rate, every job is sent, skipped or still queued, receiver stops.
* *Executor and compiler*: a compiled probe never reads outside a buffer; a
  rejecting rule wins over a matching one; no peer holds an operation beyond its deadlines.
* *Loading*: every probe asked for is in the plan, once, except those that may be
  skipped; the plan does not depend on the order of a directory or of a `HashMap`.
* *Converter*: functions are cut out where Lua ends them; a report vouches only for
  whole files; nothing is overwritten unasked.

## 2. Modules and how they compose

| Module | Models | Used with |
|---|---|---|
| `ProbeScheduler` | `probe/scheduler.rs` | `MCProbeScheduler` instantiates it |
| `ProbeLedger` | what the scheduler promises of each (ip, port, probe name) | refined by `ProbeScheduler` through `LedgerRefinement`, checked by `MCLedgerRefinement` |
| `ScanPipeline` | `main.rs` with the tasks, seen from the outside, and `shutdown.rs`, `output/mod.rs` | composes producer, discovery, scheduler and output |
| `WorkerAggregation` | `multiprocess.rs` | the processes of `ScanPipeline` appear as workers |
| `TargetSharding` | `target/mod.rs`, the shares in `multiprocess.rs`, `cli/mod.rs` checks | `MCTargetSharding` gives the inputs |
| `SynDiscovery` | `discovery/linux.rs`, `cookie.rs` | the SYN sender of `ScanPipeline` in detail |
| `ProbeProgram` | `dsl/compiler.rs` (`compile`), `probe/executor.rs`, `probe/transport.rs` | one attempt of a plan of `ProbeScheduler` in detail; `MCProbeProgram` gives the steps |
| `ProbeLoading` | `dsl/compiler.rs` (`load_probes_with_params` and below) | calls the compiler, of which it sees only whether it accepts; `MCProbeLoading` gives the documents |
| `NseRecogniser` | `nse/mod.rs`: tokens, functions, counts of calls, profiles | extended by `NseConversion` |
| `NseConversion` | `bin/nse2yaml.rs` around the recogniser: compilation, outputs, runs | `MCNseConversion` gives the modes |

| Proofs | About | Theorems |
|---|---|---|
| `ProbeSchedulerProofs` | `ProbeScheduler`, `LedgerRefinement` | types, host map, limits, order of records, queue gauge; claims of probes, plans after Ctrl+C, delivery of results, the ledger |
| `TargetShardingProofs` | `TargetSharding` | iteration of ports, shards, shares, counts |
| `ProbeProgramProofs` | `ProbeProgram` | verdict, deadlines, sizes of buffers, what reads find |
| `ProbeLoadingProofs` | `ProbeLoading` | what a plan leaves out, its order, the substituted texts |
| `ScanPipelineProofs` | `ScanPipeline` | exit of a scan |
| `WorkerAggregationProofs` | `WorkerAggregation` | the aggregated file, workers left |
| `SynDiscoveryProofs` | `SynDiscovery` | rate, jobs, ports found |
| `NseConversionProofs` | `NseRecogniser`, `NseConversion` | extents of functions, reads, outputs |

The pipeline sees of the scheduler only what it waits for: it takes open ports
one at a time, reports them in some output modes, runs at most so many plans, each
of which may wait for room in the result channel, and returns after its input closed
and its plans joined, or with the error of a send. The scheduler sees of a probe only its outcome, which
`ProbeProgram` produces. Each boundary is a channel in the code.

Faulty variants of some definitions stand beside them and are used by nothing
else. They name mistakes that a change of the code could make, and each
property is shown to fail when one of them replaces the definition it varies
(`PROJECT.json`, "mutants").

### State and actions

**`ProbeScheduler`**. `loop` is the position of `run_probes_with_shutdown`
(receive, report the open port, check shutdown, wait for a global permit,
join). For a plan `t`, `pc[t]` is its position in `run_plan`: claim of the next
probe, host permit, probe permit, execution, retry, send of the result.
A probe has an index in the plan order and a name (`NameOf`); claims and the permits
of a probe are by name, as in the code, and names need not differ.
`entries` and `refs` are the map of `HostLimits` and its counts; a host
semaphore is an object of its own, because plans keep the one they got after
the map has dropped it. `depth` is the queue gauge, `waiting` the
open port that its producer has counted and not yet sent, and `dropped` a history of
what was counted and then thrown away with a channel or a cancelled send. (In full mode
the gauge also counts the jobs in front of the SYN sender; that term is not
here.) `RequestShutdown`,
`AbortScheduler` and `OutputFails` are the environment (Ctrl+C, the grace
timer of `main.rs`, the end of the output task), and may come between any two
steps. After an abort or an error of the loop each
plan is cancelled by a step of its own, wherever it then stands, and goes on until then.

**`ScanPipeline`**. Jobs, open ports and records are counts. `main` is the
position of `run()`; `scan` and `receiver` are the two halves of discovery;
`sched` is the loop of the scheduler, `plans` and `sending` are the plans that execute and
those that wait in `send_result`; the loop notices a dead output only at its own send
(`scheduler.rs:128`) or when it joins a plan with an error (`scheduler.rs:161`), and after an abort the
plans are cancelled one by one. `output`, `written`, `synced` the writer. A
channel is closed when the last holder of its sender is gone, which is a
predicate over the positions (`InputOpen`, `OutputOpen`), as ownership is in the code.

**`WorkerAggregation`**. Per worker a process, a pipe and a reader task; a line
channel, the file, the parent's loop with its deadline and the `stop`, `kill`,
`wait` sequence after it. Lines are numbered so that the file can be compared
with what each worker wrote; `Torn` is the piece of line of a dying worker.

**`TargetSharding`**. Pure operators: parsing into nets, sockets and exclusions,
iteration, ports, shards, counts, shares of limits. The state machine only
enumerates inputs, one target line or exclusion at a time.

**`SynDiscovery`**. The batch, the pacing clock `next`, `sendmmsg` with partial
success or an error for its first packet, the final wait, `done`, the receiver
thread, its errors and its blocking send. A stamp is the clock modulo `Span`.

**`ProbeProgram`**. `CompileStep` and `EndCompile` are `compile()`: symbol tables
with indices, static sizes, the rules of each step, the budget. Then one action
per operation of the IR, and the three kinds of read as steps of their own
(`Data`, `Tick`, `Deadline`, `PeerCloses`, `ReadError`), so that time can pass
between two bytes. Contents are left open: a buffer is its length, a condition
comes out either way. The two flags that differ from what is reported
(`responsive`, `override`) are variables of `run()`.

**`ProbeLoading`**. `Collect` lists the paths, `SortDedup` orders them,
`ReadFile` reads one and resolves its parameters, `Substitute` replaces one
placeholder after another in any order, `CompileFile` compiles, `SortPlan`
sorts. What a file holds is chosen when it is read. A text is a sequence
of letters and placeholders, and a value is a text too.

**`NseRecogniser`**. One action per kind of token: a local function, a block
keyword, `end`, `until`, a call of the network, and so on. `open` is what the
token means to Lua, `current`, `depth` and `body` what `local_functions()` makes
of it; `functions` is what it has cut out. Then the validations and profiles in their order.

**`NseConversion`**. `at` is the file that is checked, opened, written or synced;
a file is known by what it holds, by the run that wrote it and by whether it is
synced. `Kill`, `PowerLoss` and `OthersWrite` may come between any two steps, and
the operator runs the program again, with or without `--force`.

## 3. What is checked

All runs are exhaustive for their constants. Wherever `CHECK_DEADLOCK FALSE`
is set, the system really stops (a scan ends); that it stops in the right state is what
the liveness properties say. The run of `ProbeProgram` checks deadlock.

| Run | Question it answers | Result |
|---|---|---|
| `scheduler` | Three plans of one host on two ports, one of them reported twice, three probes of which two have one name, permits for one, host semaphores removed and created again, channels of one slot, Ctrl+C, a failing output, aborts | limits hold, entries are those of the plans that need them, no name is probed twice on an endpoint, no probe is lost but to an earlier one of its name, a confirmed probe ends its plan, the open record comes first, the gauge is off by nothing but what was thrown away, at most one plan is late after Ctrl+C |
| `scheduler_ledger` | Two plans that compete for the permit of a probe name, with a retry, in the mode that asks for responsive probes: does the scheduler come to rest, deliver, and implement the ledger? | yes, liveness included; what was executed is what is delivered, once for all attempts |
| `pipeline` | Both scan modes, with and without records of open ports, with every failure of a task and two Ctrl+C | ends, flushed, every failure in the exit status (discovery's by name), nothing silently skipped; in probe mode Ctrl+C needs nothing of the peers |
| `pipeline_silent` | Does Ctrl+C end a scan in every mode? | no, see findings |
| `workers` | Parent and two workers under crashes, deadline, output errors, Ctrl+C to one or all | complete unless cut, prefix always, failures reported, no worker left, parent returns |
| `sharding` | All pairs of target lines and exclusions, three port sets, up to three workers, limits 3, 5 and 8 | every job has exactly one owner, shares add up and none is zero, counts are exact |
| `discovery` | Idle times, partial sends, errors, late, repeated and foreign packets | the rate holds over every window, no job lost or counted twice, only open ports found, RTT within a wrap right |
| `program` | Documents of up to four of 28 steps against every peer | sizes bound the buffers, nothing is read before it is set, rejections win, deadlines hold |
| `answer_lost` | Is a probe that got an answer reported as responsive? | no, see findings |
| `loading` | Three files named or found in any order, any of nine documents, all values of two parameters | only what may be skipped is missing, the order is that of the documents, texts are fully substituted whatever the order |
| `conversion` | Every token sequence up to three open blocks, three runs under failed writes, kills, power loss and foreign files | extents are those of Lua, every mode receives as written, a whole report vouches for whole files, nothing is overwritten unforced |
| `conversion_dropped` | Is what the source sends what the YAML sends? | no, see findings |

**Bounds, and why they are enough.**

* *Scheduler*: three plans is the least with which one plan leaves a host, one still holds
  and one arrives; the map entry can then be removed, recreated and shared. Three
  probes, the first two of one name, tell "later in the plan", "the same" and "of the
  same name" apart: the second is skipped on one port and runs on the other. `Arrivals`
  bounds what is reported: p1 once and p2 twice in `scheduler`, any two endpoints or one
  of them twice in `scheduler_ledger`; the endpoint that arrives twice is the one with two
  probes that can run, so two plans share it. Retries are in
  `scheduler_ledger` only. Channels of one slot make
  every send block at some time; a larger capacity only removes waits. The host
  limit is the one contended in `scheduler`, the limit of a probe in `scheduler_ledger`.
* *Pipeline*: with one slot in each channel and two plans, three jobs let a plan wait
  for room in the result channel while the other holds the last permit, the loop waits
  for either, and what comes next waits in front of the loop. `MaxRecords` bounds the
  records from which no plan adds a further one.
* *Workers*: two workers of two lines, one slot in each pipe and in the channel: a
  line can be in the worker, the pipe, the reader, the channel and the file at once.
* *Sharding*: addresses of three bits hold nets with and without network and
  broadcast address, and every overlap of two nets and two exclusions. Three
  workers divide neither the ports nor the addresses evenly; the limits leave three
  workers the remainders 0, 2 and 2 with the quotients 1, 1 and 2, and two workers the remainder 1.
* *Discovery*: two batches of two packets, one job skipped, a clock that passes two
  wraps of a stamp of two ticks.
* *Program*: four steps are enough for receive, transform, extract and match. Sizes up
  to four units separate a code that grows its input from one that does not; two ticks and
  two units let a peer send before every deadline.
* *Loading*: three files allow a tie, a skip and a duplicate in one plan; two
  parameters allow values that mention each other, the empty one and an invalid one.
* *Conversion*: three open blocks are a function, a block in it and one in that,
  which is where counting keywords could go wrong; one mode that sends and one that does not;
  three runs let a report outlive a failed run and be met by a further one.
* The bounds are the constants of each `.cfg`. Those that stand for no limit in the code are
  `Answers`, `MaxTime`, `MaxSteps`, `MaxNesting`, `MaxSends`, `MaxReceives`, `MaxRuns`,
  `MaxRecords`, `MaxLines`, `MaxExclusions`, `MaxProcesses`, `Arrivals` and `Plan`. They are guards of the specifications, so the theorems hold for
  every value of them, small or large; and the sets of inputs (`Limits`, `Lines`,
  `Exclusions`, `PortSets`, ...) may be any that the named assumptions admit. A
  limit that is shared is any member of `Limits`, any set of naturals, that is at least the
  number of workers, which is what `cli/mod.rs:160` demands.

**Fairness.** Liveness assumes what the runtime gives:

* A task that can go on does (`WF` per task, never per action): tokio polls
  every woken task, and threads run. Where a select has several ready branches
  either may be taken, for ever if need be; no property relies on the choice.
* Timers expire: the grace period and the parent's deadline are `tokio::time`
  timers.
* Nothing is assumed of peers, of Ctrl+C, of failures, and of workers in
  `ShutdownReturns`. `ProbeModeStops` assumes nothing of plans.
* Plans that wait for room in the result channel, and plans that were cancelled, are tasks that
  can go on. That an *execution* ends is assumed only in `ScanEnds` and `ComesToRest`. Connects and reads have
  deadlines (that is `DeadlineHeld`); a send has none, so this is an
  assumption on peers, written in the property where it is not in the specification.

## 4. What is proved

Eight modules hold theorems for every value of the constants. The only
assumptions are the named ones of the modules (`ConstantsAssumption`,
`PipelineAssumption`, `AggregationAssumption`, `ShardingAssumption`,
`DiscoveryAssumption`, `ProgramAssumption`, `LoadingConstants`, `NseConstants`,
`RunsAssumption`): sets are finite where they say so, limits and capacities are
positive, inputs have their types. TLC evaluates them in every run.

The theorems about data (sums, lists in order, texts) need induction over
numbers and texts. It is done on sets: the numbers for which a fact fails have a
least member (from the theorem modules), and there is none. Recursive functions
are shown to exist in the same way before anything is said about their values.

**Scheduler** (any hosts, ports, plans, probes, permits, capacities).

* `TypeCorrect`. `TypeOK` is not inductive alone: a release could take the count
  of a host below zero. `TypeInv` adds that a host has a map entry exactly
  while its count is positive.
* `HostEntriesCorrect`. `HostInv` says when a plan has a semaphore at all
  (`SemPhase`), that the count of a host is the number of plans registered there
  (`CountExact`) and that these all have the semaphore in the map (`SharedSem`).
  `CountExact` is the heart: the code removes the entry when the count is zero,
  and that is safe because then nobody is left with the old semaphore.
* `LimitsRespected`. `PermitInv` says that the permits a semaphore has out are
  those of the plans in the phases that hold one. That the limit holds per *host* and not only
  per *semaphore* follows from `SharedSem`.
* `ProbedOnceCorrect`, `NoProbeLostCorrect`, `ConfirmedCorrect`, for any names, also shared ones.
  `WalkInv` says what
  a plan has done from its position alone: every probe before `idx` is out of scope or
  its key is claimed, by it or by another plan, and what it ran itself is claimed. `Claimed` says that
  each claimed key has a plan that holds it or has run it; `DoneInv` that at the end no
  plan is half-way. Together: a plan that skips a claimed key relies on a
  plan that, at the end, has run it; and when no earlier probe of the name allows the endpoint
  (`OneUnshadowed`), what was run is that probe and no namesake.
* `LatePlanCorrect`. An action property; it needs the types only.
* `OpenBeforeProbeCorrect`. `OpenInv` orders what is in the channel and says
  that an endpoint whose plan exists has been reported.
* `DepthCorrect`. `DepthExact` is inductive with the types; the proof is that each step that
  puts an open port or a record on its way, takes one off it or gives up a send counts exactly
  that, also when the send fails, and that what a step throws away without counting is in `dropped`.
* `ResultsDeliveredCorrect`. `DeliveryInv` says of the channel followed by what is
  written that a probe record stands there at most once (`Distinct`), only if its plan
  has handed it over (`NothingInvented`), and whenever it was handed over to a living
  output task (`NothingLost`). What a plan has handed over follows from its position and
  its results.
* `LedgerImplemented`. Every step is a step of `ProbeLedger`, or leaves its view as it
  is. It rests on all the invariants above: a key is free until it is claimed, and
  the limits of the ledger are those of `PermitInv` and `HostInv`.

**Program** (any document, any sizes and timeouts).

* `VerdictCorrect`. A lemma sorts all steps into those that leave flags alone and
  go on, fail, or judge. `Judged` says that the flags are those of the match operation once it is behind
  `pc`; that there is one (`EndCompile`) makes the last step go through.
* `DeadlineCorrect`. `DeadlineInv`: an operation makes at most two reads, and what
  has been spent is at most one timeout per finished read and the time waited in this one.
* `BuffersCorrect`, `ReadsCorrect`. `DataInv` relates a running program with the tables of
  the compiler: the operations are those that were compiled (`Compiled`), each with the
  index of its buffer (`Placed`) and its computed bound (`Sized`); before an
  operation runs, exactly the buffers and registers of the earlier ones are set and within
  their bounds (`SetBefore`), a read of the network stays within its buffer (`ReadFits`), and
  internal errors are left only where the compiler cannot know better (`MayFail`). That the budget bounds all
  buffers together is a comparison of two sums, by induction over the partial sums.

**Targets** (any address length, nets, exclusions, ports, workers). The operators are
pure, so the work is in lemmas about them; `ShardInv` only adds that the inputs were
formed by the parser and that the assigned limits are those of the shares so far, for
any limit that is at least the number of workers.

* `PortsIterExact`: the ranges are formed (each non-empty, apart and ascending), hence the
  concatenation of their members is ascending, and it has every port.
* `StrideIsShard`, `ShardsApart`, `ShardsComplete`: the position of a port is the
  number of ports in earlier ranges and its offset in its own; a worker takes the
  positions with its remainder, and quotient and remainder are unique.
* `CountsCorrect`: two nets are nested or disjoint, because their sizes are powers of
  two and their bases multiples of them. So the exclusions that are left when
  contained ones are dropped are disjoint, and the size of a net is what they exclude and
  what iteration keeps. The totals count the pairs of address and net, and of job and origin, in
  two ways; sums over finite sets do not depend on the order.

**Loading** (any files, documents, parameters and values): `LeftOutCorrect`,
`OrderCorrect`, `SubstitutionCorrect`.

* `LoadInv` says where each file that was read is: in the plan, in hand, or skipped
  for a reason (`SkippedRight`); the files are listed once and in order (`FilesRight`), and
  until the sort so are the probes (`ProbesRight`).
* The stable sort is described by ranks; the lemma `SortRight` shows that the
  ranks are a permutation. Files that tie keep the order of their paths.
* `TextsRight` is what makes the order of the `HashMap` irrelevant: if some rounds
  of expanding all parameters at once take the text to one without placeholders, then
  that is what the document stands for. The lemma `ReplaceRight` shows that one round more
  overtakes the replacement of one parameter. What is compiled has no
  placeholders, so it is its own expansion.

**Pipeline** (any number of jobs, capacities, plans): `TypeCorrect`,
`FlushedCorrect`, `FailureCorrect`, `WholeScanCorrect`. The invariant relates the
positions of the tasks (who has ended when `main` waits for whom, which error
is known and named by then: `LoopEnded`, `DiscoveryKnown`, `ErrorNamed`) with counts: `JobsLeft`, `RecordsCounted`, and `PortsCounted`, that
every open port found has its plan, is in the channel or in a hand.

**Parent** (any number of workers, lines, capacities): `TypeCorrect`,
`NoWorkerLeftCorrect`, `FileIsPrefixCorrect`, `CompleteCorrect`, `FailureCorrect`.
The invariant looks at the file followed by the line channel as one stream:
every line of it is in its place (`StreamInPlace`), the line in a reader and those in
its pipe come next (`InPipe`), a torn line means a failed worker (`TornFailed`), and past the
loop, unless cut, the channel is empty and the readers are done (`AllRead`).

**Discovery** (any jobs, batch size, rate, span): `TypeCorrect`, `RateCorrect`,
`JobsCorrect`, `FoundCorrect`. `Owing` says that the pacing clock is never behind
what the rate gives every earlier batch, and that it has been waited for when a batch
starts; that is what keeps idle time from becoming credit. `Placed` and `TookAll` follow a
job from the queue to where it is counted. `FoundInv` follows a stamp from the batch over the
answer to the report, and the lemma `TickDifference` is the arithmetic of the wrap.

**Converter** (any modes, nesting, runs): `TypeCorrect`, `ExtentsCorrect`,
`ReadsCarriedOverCorrect`, `ReportSound`, `NothingOverwritten`. For the extents, `NamesOnce` says that at
most one open block carries a name, so the block that `end` closes is the function
exactly when the count is one. For the reads, `CallsApart`
says that the calls in the functions kept and in the one being cut out are calls of the
source of their own: with one in each mode and no more in total than modes, each has
just one. `Sized` ties a size to a call. For the files, `OutputInv` says that what is before
`at` is of this run, whole and synced, and that the report is of an earlier run until it is opened.

**Model-checked only**: liveness (`ComesToRest`, `ScanEnds`, `ProbeModeStops`,
`ShutdownReturns`, `ParentReturns`, and the fairness half of the refinement of the ledger), because the
proof system has no rules for `ENABLED` and fairness here. Every invariant and
every other action property that a passing run checks is a theorem. The prover sees nothing of
`SortSeq`, `SelectSeq` and powers, so the proved modules say by ranks, sets of
positions and a table of powers (`Powers`) what these compute.

## 5. Findings

* **Ctrl+C in full mode** (`pipeline_silent`, `main.rs:202`): `scan.await` has no
  shutdown branch, the grace period starts only after it. With peers that do
  not read what a probe sends, the plans hold all global permits, the scheduler
  does not read, the receiver is blocked in the full open-port channel, and the first Ctrl+C has no end.
* **Lost answers** (`answer_lost`, `executor.rs:72`): an operation that fails after
  an answer has been received makes the execution unresponsive; `--output-mode responsive` drops it.
* **Dropped sends** (`conversion_dropped`, `nse/mod.rs:392`): network calls are
  counted over the whole source and not per function, so a source that sends in
  `n520` and not in `winos` is converted, and the YAML sends in `winos`.

Observations that no run is devoted to:

* Loading does not reject two documents of one `name` (`compiler.rs:83`, `compiler.rs:302`), and the
  scheduler claims by name (`scheduler.rs:40`, under a comment that speaks of the probe): where
  both allow an endpoint, the later one in the plan silently never runs. `NoProbeLost` says that
  in a scheduler that returns without an error this is the only loss.
* The error of a failed exit is that of the first stage that failed, not the first in time: discovery's
  if there is one, then the scheduler's, then the output's. A scheduler that fails because the
  output did is reported in its place, unless its grace expired in that moment.
* After Ctrl+C one more plan may start, since the flag is tested before the wait
  for a permit (`NoSecondLatePlan` says that it is at most one). An endpoint that arrives twice is
  probed on by its second plan after the first one confirmed it
  (`ConfirmedStopsPlan` therefore speaks of endpoints that arrived once).
* `target_count` (`target/mod.rs:117`) counts an explicit target inside a net,
  and overlapping nets, twice, although its comment says "distinct addresses".
* Whether RTTs are reported depends on the wait after the last SYN
  (`cookie.rs:55`), but the receiver listens all the time: an answer older than a
  wrap gets its age modulo the wrap. `FoundRight` speaks of answers within one.
* In a file of `--probe-dir`, a parameter that is not required, has no default and gets no
  value leaves its placeholder, which fails the whole load; README.md:696
  speaks of skipping such a rule. A file that `--probe` and `--probe-dir` spell differently is
  loaded twice. Keys of mappings are not substituted.
* Whether a value that mentions another parameter makes the load fail depends
  on the order of a `HashMap`, so it can differ between workers of one scan.
* In the converter, multi-line comments `--[[ ]]` are read as code from their
  second line on, and a nested local function is never held against the list of allowed names.
  `require_action_modes` looks for `winos(` anywhere, which the definition itself
  satisfies. The frame constants of `winos` are carried over from the source, not compared.
* A report of an earlier run stays when a forced run fails half-way; it then
  vouches only for files that have been replaced since (`ReportMeansComplete` says exactly this).
  A failed unforced run leaves files that the next unforced run refuses.

## 6. What is not modelled

* Scope addresses, HTTP token syntax, hex, and option defaults of the DSL; the types of
  parameters (a value is valid or not); the depth limit of the directory walk.
* Contents of buffers and registers: arithmetic, RC4, Base64, gzip and
  MessagePack appear as the lengths and errors they can give. Confidences
  appear as which of the declared ones is reported.
* The tokens of a Lua source and the constants that the profiles compare: a
  token is its meaning for blocks and calls, a profile is there or not. The text of the YAML files.
* Durability of directory entries: `sync_all` is taken to include them.
* The layout of packets, JSONL and CSV, the mixing function of the cookie, the choice of a source port.
* Rewriting of the argument list for workers; errors when reading a pipe.
* Counters that are only added to, the status line, the summary.
* Panics of tasks, and 128-bit overflow in counts of very large IPv6 nets.
* Affinity, logging, scripts, the probes in YAML: no state that interacts.

## 7. Plan

Done: the modules above, in the order scheduler, pipeline, parent, targets,
discovery, program, loading, converter, and the proofs of all of them. What could come next:

1. A model of the argument list of workers, and of the summary and status counters.
2. The scopes and option defaults of the DSL in `ProbeProgram`.
3. That `ScanPipeline` sees of the scheduler what `ProbeScheduler` does, as a refinement.
