# setup-boss: a verification of the job daemon, the run pipeline and its runtimes

`setup-boss` runs a pipeline of language-model agents over a project: architect,
executor, review, correction, knowledge. A local daemon, `setup-bossd`, keeps a
queue of such runs on disk, starts them as child processes in a bounded number
of slots, one per project, and survives restarts. Around it are a local HTTP
API inside the daemon, a command line whose commands read and write the same
files, and any number of stray processes: a second daemon started too early, a
foreground `setup-boss run`, a child that outlived its daemon.

Everything these processes share is a handful of files. There is no database
and no message broker: mutual exclusion is a lock file, durability is a rename,
and recovery is what the next daemon makes of what it finds. That is the part
of the system where steps of several actors interleave, where a crash lands
between two writes, and where a unit test hardly reaches. It is modelled first.

The run inside a child keeps its state in files too. It may be killed between
any two of them, and three commands come back to it afterwards and go by what
they find: `resume`, `apply` (of a dry run) and `replay`. They are the second
part of this project.

Around the stages of a run stand runtimes that judge it: a policy before it
starts, governance with a human approval, a plan and its validation, a
deterministic review, a gate in front of corrections, a transaction record, an
execution graph, an overlay of what a change may reach, a structural way of
applying patches. Most of them are algorithms over the files of a run, switched
on by an environment variable, and some decide whether the run goes on. They are
the third part.

All paths below are relative to the repository (`src/` in `PROJECT.json`).

## 1. The system and its parts

| Component | State it keeps | Operations | Interacts with |
|---|---|---|---|
| Job queue store (`scripts/daemon/lib/queue-store.js`) | `queue.json`: the job records | enqueue, claim (`markJobRunning`), `updateJob`, retry, prune, orphan recovery | everybody, through the queue mutex |
| Queue mutex (same file) | `queue.lock` | poll, steal when stale, create, write pid, release | every queue transaction |
| Daemon (`scripts/daemon/setup-bossd.js`) | pool of slots, child processes, shutdown flag | start-up recovery, tick (claim, spawn), close of a child, recurring jobs, exceptions, shutdown | queue, project locks, pid file, children |
| Worker pool (`worker-pool.js`) | slot records, fairness cursor | pick a slot, order the candidates | daemon |
| Project lock (`project-lock.js`) | `<hash>.lock`, one per project | acquire, heartbeat, release, sweep | daemon, `setup-boss run`, doctor |
| Pid file, start and stop (`daemon-paths.js`, `cli/commands/daemon.js`) | `pid` | duplicate check, write, delete, signal and kill | daemon, operator |
| Runtime API (`runtime-api.js`) | none of its own; it runs in the daemon's process | POST job, cancel, retry, prune; reads | queue, slots, children |
| Scheduler loop (`scheduler-loop.js`) | none | notices that delayed jobs are due | queue, event log |
| CLI job commands (`cli/commands/*.js`) | none | enqueue (API, or file when that fails), retry, prune, doctor | API, queue, locks |
| Event log (`runtime-events.js`) | append-only JSONL, rotated | append, trim | daemon, scheduler, CLI |
| Pipeline (`runtime/run-runtime.js`, `orchestration.js`, `logger.js`) | files of one run under `outputs/`: metadata, run log, one file per agent | stages, correction loop, limits, outcome | agents, budgets, replay, governance |
| Executor (`executor.js`, `runtime/virtual-file-state.js`) | result, list of changes; the overlay of a dry run | compute patches, write them file by file, put them back | project files, pipeline |
| Executor recovery (`runtime/recovery/`) | a budget session per executor stage | consume, back off, retry | pipeline, executor |
| Replay, resume, apply later (`runtime/replay/`) | lifecycle state in the run's metadata, patch manifest | replay, resume, apply once | pipeline, project files |
| Preflight and policy (`runtime/preflight/`, `runtime/governance/policy-*.js`) | none | analyse the task, merge the policy, give the verdict | the start of a run |
| Governance and approval (`runtime/governance/`) | `governance-runtime.json`, `governance-approval.json`, the metadata | hooks, enforcement, request, resolution, gate | pipeline, resume, replay, operator |
| Transaction runtime (`transaction-runtime/`) | `transaction-runtime.json`, numbered snapshots | bind, snapshot, commit, recovery analysis | pipeline, resume |
| Execution graph (`runtime/graph/`) | documents beside the run | order, schedule, replay plan, overlay | pipeline (shadow) |
| Execution plan and validation (`execution-plan/`) | plan, its lifecycle state, two caches of verdicts | draft, reconcile, target, run validators | pipeline hooks, governance, review |
| Structural patches (`hybrid-executor/`) | rows of an executor call | plan, bind, apply, fall back, report a replay | executor |
| Semantic propagation (`semantic-dependency-runtime/`, the graph of validation targets) | artifacts of one run | read imports, expand, cut at limits, project | validation, risk, review, correction |
| Review runtime (`review-runtime/`, deterministic review) | `review-output.json`, findings, baseline | evidence, risk, gate, baseline, verdict | review agent, pipeline |
| Correction runtime (`correction-runtime/`) | `correction-memory.json`, the streak of a failure | classify, sign, gate, remediation targets | pipeline, review |
| Risk runtime | artifacts of one run | scoring | pipeline |
| Agents and LLM client (`scripts/*.js`, `core/`) | prompts and outputs | I/O and text | pipeline |

### How the daemon works

A job is `pending`, becomes `running` when a slot claims it, and ends as
`completed`, `failed` or `cancelled`. A cancellation first makes a running job
`cancelling` and signals its child; when the signal cannot be sent the job is
`failed_cancel` although the child goes on, and turns `cancelled` when the child
ends. An ended job may be retried while `attempts < maxAttempts`, or pruned. A
completed recurring job is enqueued again under a new identifier.

The daemon is one JavaScript thread: a callback runs until it returns, and the
claim, the spawn of the child and the record of the child's pid happen in one
callback; so does the whole end of an execution. The API runs in the same
thread, so its handlers fall between those callbacks. Other processes fall
anywhere.

### How a run works

The architect plans; the executor answers with patches and writes them, or, in a
dry run, keeps them in an overlay in memory; the review approves, rejects or
blocks; a rejection leads to a correction and to the executor again, at most
`MAX_CORRECTIONS` times; the knowledge agent closes an approved run. Inside one
executor stage an unusable answer is retried within a budget. Every stage leaves
a file, `metadata.json` keeps the mode and a lifecycle state, and `run-log.json`
the steps, the errors and the outcome. An approved dry run waits for
`setup-boss apply`, which needs the approval, a manifest that matches the list
of changes, and project files with the hashes of the manifest. `resume` infers
from the files which stage comes next, `replay` runs one stage again and puts
the metadata back. One command works at a time (the project lock), but the CLI
assesses a resume before it asks for the lock.

### What is hard, and what makes each component correct

* **Queue mutex.** Processes poll one lock file and remove it when they find it
  stale. It should exclude, should lose no committed update, and a killed owner
  should not stop the others. The payload that decides staleness is read before
  the file is removed.
* **Project lock.** The same question, with renames instead of exclusive
  creation, a heartbeat and a sweep by other processes.
* **Claim.** The candidates are read outside the mutex, and the transaction that
  claims one does not look at its status again. No job that was cancelled,
  pruned or started meanwhile may be started.
* **Slots, records and locks.** Three records of one fact (this job is being
  executed here): memory, queue and lock file. They must agree whenever somebody
  acts upon one of them: retry and prune look at the record only, recovery looks
  at the record only, another daemon looks at the lock only.
* **Crashes.** A killed daemon leaves running records, locks, a pid file and
  living children. The next one must leave no job running or cancelling that
  nobody executes.
* **Timeouts.** Every queue transaction may throw after its deadline, in the
  middle of a claim or at the end of an execution.
* **Two daemons.** The duplicate check looks at the pid file, which is written
  after the recovery and deleted by whoever stops a daemon.
* **Liveness.** Executions end, pending jobs start, shutdown ends, no project is
  starved by the rotation of the candidates.
* **Runs that are come back to.** No file of a run is written together with
  another, or with the project. Whatever was written last, a patch must not be
  applied twice or by halves, an approval must not cover changes it never saw,
  a run must not count as a success because a later command forgot its failure,
  and a dry run must stay one.
* **Nested loops.** Micro-retries in an executor stage in a correction loop: each
  limit has to stop its own loop.
* **A record of slots and a handle per slot.** Continuations of one execution run
  between those of another, the slot is given back at two places, and a
  cancellation goes through whatever handle the slot has then.
* **The log of events.** Everybody appends, anybody rotates, nobody locks; a
  follower keeps only the identifier of the last event it saw.
* **Approvals that outlive what they were given for.** The request, the
  evaluation that names it and the manifest are three saves; the grant is bound
  to a fingerprint of files that go on changing.
* **Sets of patches.** Texts with mixed line ends, patches of a text that an
  earlier patch of the set changed, a refusal whose wording decides whether the
  model is asked again. The structural way must never give another result.
* **Verdicts under a key.** Two caches, a graph of adapters and several rounds: a
  key must not stand for contents that were never looked at.
* **Records of runs that are killed and resumed.** Numbered snapshots and a
  contract, two writes per checkpoint, each of them torn by a kill.
* **Graphs with limits.** Cycles, depth, number of nodes, edges and candidates:
  what is cut off must be said to be cut off.
* **Judgements.** Findings in any order of the files, failures that come back
  over kills, verdicts of an engine that replace a model's.

## 2. The modules

| Module | Models | State ↔ code |
|---|---|---|
| `QueueStore` | the transactions on `queue.json`, each one atomic | `status`, `attempts`, `cancelRequested`, `available`, `derivedFrom` ↔ the fields of a job record; `absent` and `pruned` are identifiers not yet, or no longer, in the file |
| `JobLifecycle` | abstract: which status may follow which, when an attempt is counted | `status`, `attempts` |
| `Daemon` | daemons that start, recover, claim, execute, time out, crash and stop; API, CLI, doctor and time around them | `mode` ↔ how far `main` has come; `step`, `focus`, `snap` ↔ where the running callback stands and its locals; `pool` ↔ busy slots; `lock` ↔ lock files; `alive` ↔ child processes; `pidFile`; `stopCmd` ↔ a running `daemon stop` |
| `DaemonInv` | the inductive invariant, in named parts | |
| `QueueMutex`, `QueueMutexInv` | one file access per step of `withQueueExclusiveSync` and of the transaction inside | `file` ↔ `queue.lock` and whether its pid is written; `payload` ↔ the pid read at this turn; `queue`, `local`, `committed` ↔ the file, the loaded copy, the updates whose save returned |
| `ProjectLock` | one file access per step of acquire, heartbeat, release and sweep | `file` ↔ the lock file; `seen` ↔ what the running call has read |
| `FairClaim` | the order of the candidates and the cursor | `pending` ↔ the available jobs by age, each as its project; `running` ↔ projects with a held lock; `rrCursor` |
| `WorkerPool` | extends `FairClaim` with what an execution does to the slot records, in the order of the event loop | `slot` ↔ `pool.slots` with the handle `workerCtl`; one action per callback and per promise continuation |
| `EventLog` | appending, rotating, pruning processes and a follower, one file access per step | the file as the sequence of its events, numbered as they are written; each process with what it has opened or read |
| `Approval` | governance of one run: hooks, enforcement, request, resolution, gate | the manifest, the request and the metadata, each saved on its own; a fingerprint is the state of the files it was taken from |
| `RunPipeline` | one run and the commands on it, one file access per step | `meta`, `log`, `plan`, `result`, `changes`, `manifest`, `review`, `instructions`, `physical` ↔ the files of the run, each with what the control flow reads of it; `disk` ↔ the project files, each as the bag of patch sets written to it; `proc` ↔ the running command: its place, its mode, its overlay, its pass, the answer it works on; `waiting` ↔ a resume assessed and not yet locked; `asked`, `patches`, `commands`, `bypassed` are history |
| `RunPipelineInv` | its inductive invariant, in named parts | |
| `ExecutionGraph` | graphs, their order, scheduler, replays and overlay | operators |
| `Preflight` | analysis of a task, merge of a policy, verdict | operators |
| `PatchSet` | one patch of one text, a set of patches, its refusal, what the recovery makes of it | operators; a text is a sequence of characters, line ends included |
| `Hybrid` | extends `PatchSet`: the structural way, its gate, control and reports | operators; the parser is abstracted to declarations, exports and errors |
| `Snippets` | what of a file the next pass of the executor sees | operators |
| `ExecutionPlan`, `Validation` | the plan, its state over hooks, targets and commands; the rounds of two validations and their caches | operators; a world is the contents of the files and the state of the tools |
| `Transaction` | the contract and its snapshots over commands that are killed and resumed | a state and its set of successors |
| `Propagation` | the graph of the targets, the reader of imports, the overlay of a change and what others make of it | operators |
| `Correction` | classification and signature of failures; the gate over reviews, kills and resumes | operators; a state and its set of successors |
| `Review` | evidence, risk, gate and baseline; engine and verdict | operators over the files of a run, each a record or missing |
| `MC*` | instances for TLC; `MCAlgorithms` applies the operators of the eleven modules above to every small input | |
| `Cases` | what the modules of inputs share: a state is a case, an algorithm with what it is applied to | `input` |
| `RunPolicy` | the decision before a run, for any task, project, policy file, environment and command line: `Preflight` with its inputs and what it promises | the input is what the decision reads |
| `RunRecords` | what a run leaves on disk from command to command: the steps of `Transaction` and of `Correction`, which share no file | the input is a case with the state of its files and of the command |
| `DaemonProofs`, `QueueMutexProofs`, `ProjectLockProofs`, `WorkerPoolProofs`, `EventLogProofs`, `RunPipelineProofs`, `GovernanceProofs`, `RunRecordsProofs` | theorems; `GovernanceProofs` is about `Approval` and `RunPolicy` | |

`Daemon` extends `QueueStore` and shows that it implements `JobLifecycle`, the
abstract life of every job (`Lifecycle == INSTANCE JobLifecycle WITH ...`, the same
`status` and `attempts`). A step of `Daemon` is one
queue transaction, one project-lock call or one access to the pid file;
`QueueMutex` and `ProjectLock` take the first two apart and say when that
granularity is right: always, unless a live lock is removed or overwritten by a
process that had not read it (`stolen`, `raced`). Everything said of `Daemon`
is said under that reservation.

`RunPipeline` stands beside `Daemon`: there a run is a child process that ends
at some time, here it is taken apart. What joins them is the project lock, which
lets one command at a time work on a run, and `Kill`, which is what a crash of
the machine or the end of a daemon's child is to it.

`Approval` looks at the same run from the side of governance: a pass of the
executor with its hooks is there a few saves, and what `RunPipeline` chooses
(governance throws or does not) is there computed. The remaining modules are
functions of what a stage finds in its directory. They have no state of their
own: `MCAlgorithms` chooses a module and an input in its initial state and its
first step, and the invariants compare the result with a definition of what is
promised. Only `Transaction` and `Correction` go on from there, step by step,
because kills and resumes are what they are about; `RunRecords` is the
specification of their steps alone, `RunPolicy` that of the inputs of `Preflight`,
and `MCAlgorithms` extends both, so that TLC and the provers speak of the same
definitions.

Names follow the code. Where they do not: `ClaimSnapshot`, `SkipCandidate`,
`LockCandidate`, `ClaimCommit` and `ClaimVanished` are the parts of
`claimNextJobForSlot`; `Spawn*` is `runJobChild` up to its first return to the
event loop; `Finish*`, `Requeue*` and `ReleaseWorker` are the rest of
`executeJobLifecycle`; `HandleException` is the catch of `runWorkerJob`. In
`RunPipeline`, `Start*` is the head of a stage up to `startStep`, `*Answers` and
`Executor*` are what the agents write, `Commit*` is the second phase of
`applyChanges`, `Judge` is the body of `runPostExecutorLoop` after the review,
`NextPhase` is `assessResume`, and `Abort` is the catch of both flows.
`PROJECT.json` has the lines of every definition.

What the abstractions give up:

* A job has no payload. The project of a job is a constant function.
* An attempt number names an execution; the code tells executions apart by
  their child process. (`AttemptsTellExecutionsApart` says the two agree.)
* The order of the candidates is arbitrary in `Daemon`; it is `FairClaim`'s.
* The status check of an API handler and its update are one step. For one daemon
  this is exact up to other processes' transactions on the same record, and the
  only ones of these that touch a job that is not terminal come from another
  daemon; with `overlap` it is an abstraction.
* A foreground `setup-boss run` takes project locks too. It is a process of
  `ProjectLock`; in `Daemon` every holder is a daemon.
* Time is a fact per job (`available`) or a nondeterministic choice (timeouts,
  deadlines, heartbeats).
* A patch set is a number, and a file is the bag of the patch sets written to it.
  Whether a search string is found in a file other than the one the executor saw
  is a choice; in the same file it is found. Equal bags stand for equal hashes.
* A file whose write fails keeps its content; the truncated file of a full disk
  is not modelled.
* Preflight, scan and the enrichment of notes do not touch the state the commands
  of `RunPipeline` go by, and are left out there. Governance is in it the choice
  to throw before or after the executor's hooks.
* Hashes are what is hashed: a fingerprint, a cache key, a failure's signature or
  an identifier of a finding is the tuple of what goes into it, so that two are
  equal exactly if their inputs are.
* Texts in `PatchSet` are over few characters: those of a search, the two line
  ends, and the pairs that `String.replace` expands. Files in `Propagation`,
  nodes in `ExecutionGraph` and findings in `Review` are numbers in the order in
  which the code sorts their names.
* Guesses of the code about the outside (which file a test is of, what an import
  resolves to, how long a prompt is, what it will cost) are inputs.

## 3. Faults

`Faults` selects what the environment does to daemons: `crash` (SIGKILL, power),
`timeout` (a queue transaction throws `queue_lock_timeout`), `signal` (a child
cannot be signalled), `overlap` (a daemon starts while another is alive, which
the duplicate check only prevents once the pid file is written). Child
processes end at any time, by themselves. In `QueueMutex` and `ProjectLock` a
crash is always possible. In `RunPipeline` the faults are `kill` (a command dies
between two accesses), `write` (a project file or the manifest cannot be
written), `edit` (somebody else edits a file of the last patch, once, between
two commands) and `rollback` (the files written before a failing write cannot be
put back), which no run enables: nothing is promised then.

`Approval` kills commands and operators between two saves (`MaxKills`) and lets
somebody change the artefacts (`MaxDrift`). `EventLog` kills a process half way
(`MaxCrashes`). `Transaction` kills a command before any write and tears the file
it was about to write; `Correction` kills it between the save of its memory and
the correction, and tears the memory.

## 4. What the runs check

Bounds are the sizes of the constant sets and the constants whose names begin
with `Max`. `Jobs` bounds how many jobs are ever enqueued, `Daemons` how many
starts there are.

| Run | Instance | Question and result |
|---|---|---|
| `faulty` | two recurring jobs that share a project, two daemons one after the other, two attempts, two slots; crash, timeout, signal | Do slots, locks and records stay consistent wherever it crashes or throws? `InductiveInvariant` (with the agreement of slots, locks and records in it), `RunningJobHasWorker` and the lifecycle of every job (`ImplementsLifecycle`) hold. |
| `calm` | three jobs in two projects, the pair in the first one recurring; unsignalled children, clean restarts | Without crashes and timeouts, is there one child per project, is every child waited for, does a recurring job go on? Yes. |
| `live` | two jobs, one attempt, one slot per project; crash, fair scheduling | Executions end, pending jobs are started, a shutdown ends, and no cancellation is left without a worker. |
| `rivals` | two jobs, two daemons at once (`overlap`), one slot | Attempt numbers still tell executions apart, pruned records stay away; `DaemonProofs` shows it for any number of daemons. |
| `mutex` | three processes, one transaction each, crashes, fair processes | The queue mutex excludes and keeps every committed update unless a lock is stolen, and recovers from dead owners. |
| `project_lock` | three processes, crashes, fair calls | The project lock excludes unless raced, never leaks, and is taken over from a dead holder. |
| `worker_pool` | two slots, three projects, three children at a time, at most four pending jobs | `ExecutionsKeepTheirOwn`: a slot is given back only by its own execution, and a cancellation signals the child of its own job, in every order of continuations. `BusySlotEnds`: no slot stays busy with nothing left to end it. `WaitIsBounded`: a project is passed over by at most six claims in a row; with five the run fails. |
| `approval` | two passes of the executor, one change from outside, two kills | `ApprovalInvariant`: a run that waits has a request on disk, a stopped one has its blockers in every copy of the manifest, and a manifest with blockers is clear only by a grant. `StoppedNeedsGrant`: a run that enforcement stopped goes on only in a state of its files that was granted; the one exception is a later request whose rejection was only half saved, so that the earlier grant still clears the run. |
| `event_log` | three processes, five events, a file of two, rotation to two lines, pruning to three, pages of two, one kill | `LossIsExplained`: an event that is missing early was written while somebody copied the file. `PagesAdvance`: a follower never goes back. |
| `pipeline` | two files, two patch sets, one correction, one micro-retry, six steps, two commands after the run; kill, write, edit | `AppliedOnce`, `AppliedWhole`: no patch twice or by halves. `OnlyApprovedIsApplied`, `SuccessMeansApproved`: an approval covers just the changes it saw, as long as stages ran in their order. `RefusedPatchIsUndone`: a refused answer leaves nothing behind. `DryRunWritesNothing`: dry runs write nothing. `CommandsRunOut`: every command ends. `PipelineInvariant` is what the proofs use. |
| `algorithms` | every small input of the eleven modules of operators, see below | The seven invariants of `MCAlgorithms`, one per promise, each a conjunction over the algorithms that make it. |
| `dry_run_lost` | one file, one resume, no fault | Expected violation of `DryRunIsHarmless`: see findings. |

What the invariants of `algorithms` compare:

| Invariant | Algorithm → reference | Inputs |
|---|---|---|
| `GraphRunsInOrder` | the scheduler, Kahn's order, the transitions of nodes, the plan of a replay, the overlay → reachability and one linear order | all graphs of three nodes with two kinds of edges, of four with one, the graph of the pipeline; all runs of up to six checkpoints |
| `PolicyStopsWhatItNames` | analysis, merge, verdict → the meaning of each limit, monotony in words and in strictness, one order of precedence | all sets of keywords, twelve policy files against environments and command lines, limits on both sides of what the task needs |
| `RefusalsAreWholeAndMendable` | one patch, a set of patches, its refusal and the recovery's reading of it, the structural way, the windows → positions of a text, all or nothing, equality of the two ways, coverage | all texts of up to six characters with every mixture of line ends; sets of up to three edits of two files; all combinations of an answer's fields; files of two or three declarations under four settings of the flags |
| `ChangesAreValidated` | draft, structural validation, hooks, targets, rounds of validation → the graph of the operations, the sequence of the hooks, the contents that were looked at | all graphs of three operations with missing and double identifiers, two commands after one another, two and three rounds over good and bad contents and working, absent and killed tools |
| `RecordsSurviveKills` | the contract and its snapshots, the gate of corrections → the hooks and ends of the commands, the number of repeats, the limit, one story in memory and lineage | three commands with a correction, killed before any write; two resumes of a corrected run: all reachable states |
| `ReachIsExact` | the expansion over targets, the reader of imports, the overlay, its projection → reachability, nearest first at a limit, and a mark wherever something was cut; for the turns of the reader, which leave none, how many are enough | all import relations of four files, limits that cut and limits that do not; lists of imports of three and five files, read to depth one, two or any, with 5, 12 or 99 turns |
| `TroubleIsJudged` | classification, signature, remediation targets; evidence, baseline, engine → the facts, in any order of the files | combinations of four kinds of violations with all reports; all combinations of missing, wrong and foreign files; all plans, reconciliations, risks and sizes on both sides of each threshold of the engine |

Why the bounds are enough. Two jobs in one project are what it takes to compete
for a lock; two attempts are what it takes to retry and to exhaust; two daemons
are a crash and a recovery, or a rivalry; a third job lets a recurring pair run
beside a job of another project. The safety properties of `faulty`, `mutex` and
`project_lock` hold for every value of the constants by the theorems below, and
so do those of `approval`, `event_log` and `pipeline` (`RefusedPatchIsUndone`
unless a rollback fails), and those of `worker_pool` except the bound on the wait. Of the invariants of
`algorithms`, `RecordsSurviveKills` holds for any number of commands, corrections
and resumes and `PolicyStopsWhatItNames` for every input that the code can be given.
For fairness the bound on the wait is the same for a backlog of four and of
eight; with two projects it is two. A cursor that keeps missing a project needs
more projects, and cancellations between the claims; that case lies beyond the
instance. In the pool, two slots are what it takes for one execution to disturb
another, and a third child is one that was left behind by an earlier execution.
For the log, three writers are the one that rotates, the one whose event is lost
and the one that prunes; a page of two is smaller than what a follower can lag.

For a run, two files are what it takes to write a half; two patch sets are one
that is reviewed and one that is not, or the two passes of a correction; two
commands are an interrupted apply and another one, a replay and a resume, a
resume of a resume. The counter of logged steps stops at its limit, after which
the code only compares. Six steps let a run reach its last stage with one
correction, and let its later commands meet the limit.

For the reader of imports, 5, 12 or 99 turns stand for `max_files * 128 + 16384`:
five are just enough for some of the inputs and too few for others.

For the algorithms, the mutants say what the inputs reach: each of the plausible
slips in `PROJECT.json` (a match taken twice, a cap applied before the sort, a
cache key without contents, a contract written before its snapshot) is found by
them. Four files are the least in which a file is reached by two ways of
different length with one of them cut; three operations the least with a cycle
beside a chain; three patches the least in which the third sees what the second
did to the text of the first.

`CHECK_DEADLOCK FALSE` is set where all processes may have been killed or be
done, or where an input has been dealt with.

### Findings

* `dry_run_lost`: `orchestration.js:1095` announces a whole pipeline that leaves
  the project alone. The mode is recorded when the architect has approved
  (1434), but the architect's files are there before. When it blocks, the run is
  resumable at the executor, and the resume finds no mode and patches the
  project. It also executes a plan that the architect did not approve: nothing
  in `assessResume` looks at the verdict.

### Stated, and refuted by TLC

These formulas say what a document, a comment or a name of the repository
suggests. They stand in the modules, no run lists them, and each is violated
when it is added to the cfg or the invariant named here. What holds instead is
among the properties above.

* `OneChildPerProject` (`Daemon`, with `crash`). `docs/changelog-unreleased.md:94`
  promises that the project lock avoids concurrent executions. When the daemon is
  killed its child lives on; recovery declares the job failed and the lock stale,
  and a retry starts a second pipeline on the same project.
* `Exclusive` (`ProjectLock`). `project-lock.js:55` says exclusivity. Two
  processes that both read no lock both rename theirs into place.
* `Exclusive` (`QueueMutex`). `queue-store.js:300` calls the queue mutex exclusive.
  A process that read no lock removes the one created since, or one whose pid is
  not written yet. The history variable `stolen` is about it.
* `AppliedAsSimulated` (`RunPipeline`, two patch sets, one correction, one apply).
  `docs/dry-run.md:28` calls the patch of a dry run reproducible. After a
  correction the executor patches its overlay, but the list of changes has the
  patches of the last pass only and the manifest takes its base from the disk, so
  `apply` passes all its gates and writes something else than what the review saw
  (or fails, when the search strings lie in the first patch).
* `EscalationKills` (`WorkerPool`). `setup-bossd.js:730` sends SIGKILL if
  `child.killed` is false; a delivered SIGTERM has made it true. A child that
  survives SIGTERM is never killed.
* `PauseCanBeGranted` (`Approval`). `docs/changelog-unreleased.md:19` says that
  `resume.js` goes on with a run that waits for an approval. `governance-validation-enforcement.js:166–180`
  binds the request to a fingerprint before the evaluation
  GOVERNANCE_HITL_AWAITING is saved, and the evaluations are part of the
  fingerprint; `governance-approval-runtime.js:187–200` then refuses with
  `governance_continuity_mismatch_at_resolve`.
* `ReportedReplayAgrees` (`Hybrid`). `docs/hybrid-runtime-lifecycle.md:89–93`
  describes the replay simulation of the reports. It starts from the texts after
  the run (`executor.js:2213–2230`), so it aborts for nearly every patch that was
  applied.
* `VerdictsAreCurrent` (`Validation`). `docs/discovery-phase410.md:154–163` has the
  plan and the cache go by a fingerprint of the change set. The identity hashes only which
  paths changed, so a correction of the same files gets the verdict "passed" of
  the round before.
* `AdviceIsHarmless` (`Propagation`). `semantic-review-propagation.js:3–6` and
  `semantic-correction-propagation.js:3–7` say report-only. Their fallback (310 and
  417) calls `summarizePropagationFromProjectionOnly`, which
  `semantic-risk-propagation.js:382–390` does not export. When
  `semantic-mutation-graph.json` is missing and `propagation-manifest.json` is
  there, the review orchestrator answers `{ok: false}` and the gate of corrections
  lets everything through.
* `LineageIsAChain`, `AnalysisFitsTheGate` (`Correction`).
  `docs/correction-runtime-phase45.md:19` calls the lineage a chain of nodes. A
  suppressed or capped run that is resumed goes to the executor past the gate; when
  it fails again its node has the identifier of the node before and is its own
  parent. And the analysis made for the last correction that the gate lets through
  says that it is suppressed.
* `CutsAreReported` (`Propagation`). `docs/semantic-runtime-phase48.md:7` calls the
  limits of the graph explicit, and the code has a record `limits_applied`. The
  loop of `import-graph-builder.js:187` also stops after `max_files * 128 + 16384`
  turns, a file that was on the list twice counted twice, and puts that in no
  field. With the defaults some 1500 files with seven imports each can be enough.
* `RejectionsAskForCorrection` (`Review`). `agents/reviewer.md:16` and
  `review.js:535` want a correction with every rejection. The engine corrects below
  40 (`review-policies.js:38`) and rejects below 45 (line 89), and its verdict is not
  validated. A run with two failing invariants, failed validation and a high
  risk is rejected with 43 or 44 and no correction, and `orchestration.js:916–920` throws
  `REVIEW_FAILED_WITHOUT_CORRECTION_PATH`.
* `GateEndsTheCommand` (`Review`).
  `docs/deterministic-review-phase411-release-readiness.md:59,104,112` promises an
  exit code. The gates set `process.exitCode` in `review.js`; `run.js:83`,
  `resume.js:85`, `replay.js:77` and `cli/index.js` overwrite it.
* `PlansAreIntact` (`Review`). `artifact-invariant.js:20–36` compares
  `plan_content_sha256` with the hash of the file that contains it, so with a plan
  on disk every review of the engine has a failing invariant and none approves.

Two more came up and have no formula. A second daemon that passed the duplicate
check before the first wrote its pid, or after a late `daemon stop` deleted it,
declares failed the jobs that the first one is running, though recovery is meant
for the jobs of a daemon that is gone (`docs/phase3-runtime-readiness.md:70`). This
is why the theorems about slots assume one daemon at a time. And
`setup-bossd.js:159` says round robin, but the cursor moves by one over candidates
that are sorted anew, so a project may be served twice in a row while another
waits; `WaitIsBounded` is what remains.

### What modelling found out, module by module

Behaviour that the models contain because the code has it, and that a reader of
the code may not expect:

* `EventLog`. A follower whose event was trimmed gets empty pages from then on; one
  that lags by more than a page skips events (`slice(-limit)`).
* `Approval`. A kill between the executor's success and the hook after validation
  lets the resume continue at the review, past enforcement. A torn
  `governance-runtime.json` is read as none. The review writes manifests that make
  an approval stale. A race of two resolutions leaves a run that cannot go on.
* `PatchSet`. A search is accepted although it occurs twice, overlapping. A match
  that begins with the LF of a CR LF leaves a lone CR. `$&` in a replacement is
  expanded. The fallback for line ends gives every line of a mixed file the same
  end. A path that contains one of the words of missing context turns a final
  refusal into one that is retried.
* `Hybrid`. The two ways agree unless a replacement contains a pattern such as
  `` $` ``. Exported declarations never reach the default score. Matches found by
  the fallback for line ends are never structural.
* `ExecutionGraph`. The scheduler starts the counter of transitions again, so a
  document that has some is refused at its first step. An overlay is never
  "consistent".
* `Preflight`. A file cap that does not parse removes the profile's cap; an empty
  variable counts as 0.
* `ExecutionPlan`, `Validation`. A plan stays FAILED when its resumed run succeeds.
  "skipped" and "error" stay in the cache of the run time as long as the contents
  do. An edit between the fingerprint and the execution poisons it.
* `Transaction`. Before the first AFTER_EXECUTOR checkpoint, continuity is reported
  broken at every hook of the first round. After a kill inside a stage it stays
  broken. A torn contract starts the record again at 1.
* `Propagation`. In the graph of the targets only targets are read for imports, so
  the reverse expansion finds nothing outside them. The cap on candidates drops importers first.
  A reader of imports without a limit on depth goes round a cycle until its turns
  are used up, and files whose names come later are not read at all.
* `Correction`. The streak of a failure is saved before the correction, so one that
  is killed and resumed counts twice. An error in the gate lets a correction pass.
  With `MAX_CORRECTIONS` 0 a resume makes one.
* `Review`. The engine's verdict is not validated as the model's is. With
  fewer than three failing invariants no run that is not blocked scores below 40,
  so only the third failing invariant makes a rejection ask for a correction. A
  "partial" verdict always becomes "blocked": a run with two failing invariants may
  be stopped where one with three would be corrected. Two runs always
  differ for the baseline, because `run_id` is part of what is compared. A single
  missing row passes the default gate.

### Fairness

`FairSpec` of `Daemon`: a callback that has begun goes on until it returns, and
the start-up code is straight-line (weak fairness); the event loop serves its
queue in order, so the close event of a child, the next tick and the end of a
shutdown are handled although other callbacks run in between (strong fairness);
delays pass and children end. Nobody is obliged to start a daemon, enqueue,
retry, cancel or stop. Crashes are not excluded: the properties say what holds
while a daemon is there. `PendingIsStarted` supposes that no process other than
a daemon holds project locks for ever. `QueueMutex`: a process that is not
killed goes on; the deadline is not relied on. `ProjectLock`: a call that has
begun returns, and the daemon's tick keeps trying (strong fairness of
`AcquireRead`); a holder owes nothing. `RunPipeline` needs no fairness: that a
command ends is stated by a variant (`Remaining`, which every step decreases) and
so is an action property that can be proved. Nor does `WorkerPool`: `BusySlotEnds`
says that something is always left that ends a busy slot, and `WaitIsBounded`
counts claims.

## 5. What is proved

For all values of the constants that satisfy `QueueAssumption`,
`DaemonAssumption`, `MutexAssumption`, `LockAssumption`, `FairAssumption`,
`NoneAssumption`, `EventLogAssumption`, `PipelineAssumption`,
`ApprovalAssumption`, `FilesAssumption`, `LimitsAssumption` and `PolicyAssumption`
(the sets are arbitrary, also infinite ones; the limits are natural numbers,
positive where the code needs it; `None` is not a project, a child, a manifest, a
request or a resolution; a missing or torn file is not one that is whole, and a
value that is not set, or does not parse, is not a number). `RunRecords` assumes
nothing of its bounds `MaxCommands`, `MaxCorrections` and `MaxResumes`, and
`RunPolicy` has none:

| Module | Theorem | Statement |
|---|---|---|
| `DaemonProofs` | `TypeCorrect` | `Spec => []TypeOK`, under every fault |
| | `ExecutionsAreDistinct`, `PrunedRecordsStayAway` | under every fault, several daemons at once included: an attempt number names one execution, and no transaction brings a pruned record back |
| | `Invariance` | `Spec => []InductiveInvariant` |
| | `SlotsHoldTheirLocks`, `ProjectsAreExclusive`, `ClaimsAreFresh`, `RecordsMatchSlots`, `NoRunningJobForgotten` | its parts that a reader of the code asks for: a busy slot holds its lock, no two slots work on one project, a claim never starts a job that changed meanwhile, nobody settles a job under its worker, a running job has its worker |
| | `LifecycleImplemented` | `Daemon` implements `JobLifecycle` |
| | `ChildrenAreSupervised`, `ProjectsHaveOneChild` | if `Faults \subseteq {"signal"}`: every child has a daemon that waits for it, and a project has one child |
| | `CancellationsHaveWorkers` | `CancellingJobHasWorker`, without `overlap` and `timeout` |
| | `RecurringJobsContinue` | `RecurrenceContinues`, without `crash` and `timeout` |
| `QueueMutexProofs` | `MutexTypeCorrect`, `MutexExcludes`, `MutexKeepsUpdates` | the mutex, any number of processes and transactions |
| `ProjectLockProofs` | `LockTypeCorrect`, `LocksNeverLeak`, `LockExcludes` | the project lock, any number of processes |
| `WorkerPoolProofs` | `PoolInvariantHolds` | `PoolSpec => []PoolInvariant`: slots, locks, busy counts, handles of children and queued continuations agree between any two callbacks, any number of slots, projects and children |
| | `ExecutionsAreNotMixedUp`, `EverySlotHasItsEnd`, `CountersAgree` | `ExecutionsKeepTheirOwn`, `BusySlotEnds`, `CountsMatchSlots` |
| `EventLogProofs` | `LogInvariantHolds` | `Spec => []LogInvariant`: the file and every copy of it in memory account for all events, any number of processes |
| | `LossesAreExplained`, `FollowersAdvance` | `LossIsExplained`, `PagesAdvance` |
| `RunPipelineProofs` | `PipelineTypeCorrect`, `DryRunIsDry`, `EveryCommandRunsOut` | type correctness, `DryRunWritesNothing` and `CommandsRunOut`, under every fault |
| | `PipelineInvariantHolds`, `NoPatchTwice` | `Spec => []PipelineInvariant` and `[]AppliedOnce`, under every fault |
| | `RefusalUndoes` | `RefusedPatchIsUndone`, if no rollback fails (`"rollback" \notin Faults`) |
| | `AppliedRunsAreWhole`, `ApplyWritesApproved`, `SuccessIsApproved` | `AppliedWhole`, `OnlyApprovedIsApplied`, `SuccessMeansApproved`, under every fault |
| | `AppliedRunsDoNotWait` | `NeverAppliedAndPending`: the two states `lifecycle-consistency.js:46` and `run-artifacts-validator.js:131` call impossible are never on disk between two steps, under every fault |
| `GovernanceProofs` | `ApprovalInvariantHolds`, `WaitingRunsHaveRequests`, `StoppedRunsNeedGrants` | requests, grants and manifests belong together over any number of passes, kills and changes from outside, and a stopped run needs a grant of its present state |
| | `PolicyAlwaysStops` | `PolicyInput => PolicyStopsWhatItNames`: for every task, project, history, policy file, environment and command line, a hard policy stops what it names and only that, a stricter profile stops, asks for and allows no less strictly, the limits come from the environment before the file before the profile, and no word more (but "docs"), no path and no length makes a task look more harmless |
| `RunRecordsProofs` | `RecordsInvariant` | `RecordsSpec => []RecordsInv`: the inductive invariant of contract, snapshots, memory, lineage and analysis |
| | `RecordsAlwaysSurvive` | `RecordsSpec => []RecordsSurviveKills`, for any number of commands, corrections and resumes, kills before any write, any troubles, thresholds and limits |

The theorems from `Invariance` to `LifecycleImplemented` assume
`"overlap" \notin Faults`: daemons follow one another, with crashes, timeouts and
failing signals everywhere. With two daemons at once they are false (see above).
What is left then is what the first three theorems say, from an invariant of three parts:
every child and every slot has counted its run (`RunsAreCounted`), a claim past its lock
has its slot (`ClaimedHoldsSlot`), and `AttemptsTellExecutionsApart` itself.
The faults that the last four theorems about `Daemon` exclude are those under which TLC
finds their statements false of the code: a kill or an exception leaves a child without a daemon, a lost
settlement leaves a `cancelling` job without a worker, a kill or a lost
transaction between the end of a recurring job and its successor ends the
recurrence, and two daemons at once start two children. Only
`ChildrenAreSupervised` excludes `overlap` for its proof's sake.

The argument for the daemon. None of the safety properties is inductive alone:
that a slot holds its lock depends on what a claim locks, which depends on the
candidates still being pending, which depends on nobody retrying or settling a
job under its worker, which depends on the records agreeing with the slots. So
they are proved together. `InductiveInvariant` adds what the code relies on
without checking it:

* `FocusIsRun`: a callback past its start works on a run;
* `OneDaemonAtATime`, `OnlyServingDaemonsWork`: a dead or booting daemon has no
  slot, so no other daemon's lock is ever stale while a slot needs it;
* `RecordsConsistent`: a pending job has no cancel request and attempts left;
* `CallbackConsistent`: between taking the lock and the claim transaction the
  lock is ours; a settled run is no longer `running`; the exception path has
  given its project back;
* `RunningJobTracked`: a running job has its slot, or its failure is about to be
  recorded, and after the recovery there is none.

What they show of the children rests on this invariant and three more, each of two
parts. `Supervision`: a slot is given back only by an execution that is settled,
and the child of a settled execution is gone (`SettledChildIsGone`; a spawn that
is skipped has no child because no earlier attempt has its number, which is where
`AttemptsTellExecutionsApart` comes in). `CancellingJobTracked`: a pending
cancellation is in the pool of whoever serves, is not the run being settled, and
is gone after the recovery. `Recurrence`: a new identifier is not yet a
successor's (`AbsentHasNoOrigin`), so an enqueue never overwrites the record that
continues a job.

The lifecycle then follows step by step: for each action, each job either stays
or makes one abstract move, by the invariant.

For the mutex the invariant is: unless a lock was stolen, whoever is inside owns
the lock file, and whoever has loaded the queue holds all that was committed.
For the project lock: unless raced, a process about to write finds what it has
read or a dead owner's lock (`MayReplace`), so a holder's pid stays in the file
(`HolderIsInFile`). `LocksNeverLeak` needs neither: it holds after a race too.

For the pool no single fact is inductive, because one execution goes through
several callbacks and each of them leaves the slot, the counter, the lock, the
child and the queue of continuations a step apart. `PoolInvariant` says how far
apart they may be: a busy slot is the only one of a project whose lock is held
(`SlotsHoldLocks`), no two continuations settle one slot and no tick claims a slot
that a catch is still going to mark idle (`OneEndPerSlot`), the child that is
waited for is the one in the handle of its slot, and nothing queued ends that slot
(`HandleIsOwn`), and a busy slot has one or the other (`EndsToCome`). A claim compares
the number of held locks with that of the slots; that it then finds a slot free is
the pigeonhole principle (`SomeSlotIsFree`), and that it takes the first one needs
the least element of a set of numbers, from well-founded induction.

For the log, `LogInvariant` says the same of the file and of what a process has
read and is going to put back (`Accounts`): its lines are in the order in which
they were written and far enough apart (`InOrder`), and an event that is not among
them is lost to a race or followed by as many as are kept (`Explains`). The second
part alone is not inductive: a trim keeps the last lines, and only the order tells
that those are the last events. What a rotation drops that the copy does not have
is exactly what it adds to `raced`.

For a run the question is why the hashes of the manifest keep a patch from being
written twice although no file says that an apply was interrupted. `PatchInv`
says it: a manifest is made from files that do not have its patch (`AbsentInv`),
since a dry run never commits (`DryInv`) and its number is new (`ListsInv`,
`NewAnswerInv`); a commit starts from files without its patch and has changed
only those it lists (`CommitInv`); so every file that holds the patch differs
from the base, and apply refuses. `DiskInv` is then the property itself, for
every number that was ever given out. `RefusalUndoes` reads off `CommitInv`
what a rollback restores.

What counts as applied is the next question. `ApplyInv` follows apply through its
stages: what it writes is the list of changes of the manifest, and every file it
has written has the patch once (`CommitInv` again). `AppliedInv` keeps that after
the mark, and is wider than the property: a replay writes REPLAYING over APPLIED and
gives APPLIED back from its copy of the metadata, so what holds of an applied run
must hold during the replay too, and of the copies from which the replay would
undo a commit of its own; its own patch is another one (`NewAnswerInv`). No run
or resume keeps the mark (`~InFlow`). `PendingInv` ties the mark to the mode and to the
result file of apply: what waits is a dry run, a command that comes back is dry
only for one, and a replay gives back the mode that it found; without its
conjunct on the copy of the metadata a replay might bring a pending mark back
over an applied run. `OrderInv` is about approvals: once a review
approves, the flow only goes on to the knowledge agent and its end, and a resume
finds no stage before that, because `assessResume` names none for an approved
review. This is where the ordering of its early returns matters; the mutant
that puts the executor first makes the theorem false. The invariant is claimed
only while no stage was replayed and no resume worked on an assessment that had
become stale (`bypassed`), for then an approval does stand over other changes.
`ControlInv` keeps the places of the commands, their
modes and their budgets together; the variant of `CommandsRunOut` is
lexicographic (corrections, retries, stages, files), and the budget is what
makes its second component natural.

For approvals the property looks at one step, but a step that lets a run go on
reads three files that were saved at different times. `ApprovalInvariant` says
which of them may be ahead of which: a manifest that waits has its request on
disk (`CopySound`, by the order of the two saves), the copy a command works on is
as sound as the one on disk (`MemorySound`, `DiskSound`), a resolution is for a
request that was made, and what an approval is bound to was granted
(`GrantsOnRecord`). `StoppedNeedsGrant` then follows from the gate's comparison of
the fingerprint with the present state.

For the records of a run, the files alone say little: what a contract may hold
depends on where its command stands, and on where earlier commands were cut.
`TxInv` ties the two. A command writes the snapshot before the contract that
counts it, so whatever the contract lists is there (`TxShot`, `TxPlan`), also when a
kill has torn the contract and the record starts again at 1. That a contract tells the truth about its
end rests on the results of the stages, which decide what the next command does:
before the plan there is nothing of the executor (`TxEarly`), what comes after a stage has
its results (`TxDisk`), and only an approved run gets to its last checkpoint
(`TxEnd`, `TxRest`). `continuous` is told in two directions. If the contract says
so, its hooks follow one another (`TxTold`). If nothing was cut, it does say so
(`TxWhole`): this one needs the phases of the older record beside the contract, of
which one is still to be written after the executor (`Owed`), and it holds
as long as no command has taken over (`TxSeams` says where they have).

`CoInv` is about the corrections. The memory counts what the gate saw: its streak is the
number of equal signatures at the end of all that came to the gate, in this
command and in those before it, killed ones included (`CoStreak`). Only a kill that
tears the memory makes the count begin anew. So what is corrected is below the threshold, what is refused is not
(`CoGate`), and a run is corrected at most as often as it may be, or once by a
resume (`CoLimits`). Memory and lineage tell one story as long as the command
was not killed: two files, one write apart (`CoStory`), whose nodes have different
names (`CoNames`). `StreakIsRepeats` and `NextStreak` join the streak with its
definition without recursion.

For the policy there is no state; the difficulty is monotony. A task that says
more gets more points in each sum, but one summand is the span of the estimated
range of files, and the span may shrink: what raises the least number may leave the
most where it was, when the history of earlier runs or the limits of the range
cut it off. `SpanHolds` bounds that loss by what the least has grown, and
`SaysMore` lists what can make it grow (a text past 3500 or 9000 characters,
a second layer, a wide word, the core of the run time) with the points it brings elsewhere,
which are always more than the loss (`WordSaysMore`, `NameSaysMore`,
`LengthSaysMore`, `ReportGrows`). A profile of the command line is merged a second
time over the result of the first merge; `MergedOnce` shows that this gives the
limits it gave the first time, and `PicksAreValues` gives each limit in one line. From there a
stricter profile has no higher limit and no fewer demands (`ProfilesTighten`,
`LimitsTighten`, `DemandsGrow`), what stops a run under a hard gate is one formula
(`BlockersAre`, `Stops`), and that formula only grows (`StrictnessGrows`).

Only model-checked:

* the liveness properties of `Daemon`, `QueueMutex` and `ProjectLock`: temporal
  reasoning under fairness is out of the prover's reach;
* `WaitIsBounded` of `FairClaim`: six is the bound TLC finds for the instance with
  three projects and two slots. It says nothing for every value of the constants:
  with more projects, and cancellations between the claims, the cursor may keep
  missing a project (section 4), so there is no such theorem to prove;
* the other five invariants of `MCAlgorithms` (`GraphRunsInOrder`,
  `RefusalsAreWholeAndMendable`, `ChangesAreValidated`, `ReachIsExact`,
  `TroubleIsJudged`): their algorithms run over graphs, texts and lists by
  recursion, and so do the definitions they are compared with. What such a
  recursion computes for every input is an induction over data, which is
  beyond the prover, and its modules declare RECURSIVE operators, under which it has
  no arithmetic.

## 6. What is not modelled

* Heartbeats of jobs, stuck detection, status files, event emission, output:
  nothing reads them to decide a state change.
* A `queue.json` damaged from outside (it loads as an empty queue), the migration
  of project identifiers, strict validation.
* The client of the API in `enqueue`, with replies that are lost after the job was
  stored: a second enqueue of the same work is an ordinary enqueue of the model.
* The availability notices of the scheduler loop; time passing is a step.
* The wait of `daemon start` for the API; the read-only endpoints, the SSE stream.
* Of the pipeline: prompts, the scan and its cache, the enrichment of the project's
  notes, the exit code; of the executor, files torn by their own failing write.
* Of the transaction runtime: the rollback plan, which is always infeasible, and
  the manifest of hashes.
* Of governance: diagnostics. Of the graph: its release audit, its risk score and
  the adapters that describe nodes. Of preflight: the estimate of cost and the
  index of earlier runs, which are inputs.
* Of validation: the loops of single adapters (a linter, a test runner): each is a
  verdict of the world.
* The risk runtime is advisory; agents, parsing and rendering are I/O and text.

Telemetry, summaries and human-readable reports are left out everywhere.

## 7. The plan

The modules were written in the order of how much rests on them:

1. `QueueStore`, `JobLifecycle`, `Daemon` with its proofs; `QueueMutex` and
   `ProjectLock`, which justify its steps, with theirs; `FairClaim`.
2. `RunPipeline` with its proofs: one run and the commands that come back to it.
3. `WorkerPool`, `EventLog`, `Approval`, with their proofs, and `Daemon` as a refinement
   of `JobLifecycle`.
4. The algorithms: `ExecutionGraph`, `Preflight`, `PatchSet`, `Hybrid`, `Snippets`,
   `ExecutionPlan`, `Validation`, `Transaction`, `Propagation`, `Correction`,
   `Review`.
5. What of them is not recursive, proved: `RunRecords` over `Transaction` and
   `Correction`, `RunPolicy` over `Preflight`, `Daemon` with several daemons at once.

What would come next:

* an abstract run (proposed, reviewed, applied) that `RunPipeline` implements, with
  the gate of `Approval` as one of its guards; torn project files;
* `WorkerPool`'s slot records as a refinement of `pool` in `Daemon`;
* the enqueue client with lost replies (API first, file second) and the notices of
  the scheduler, composed with `QueueStore`;
* the risk runtime.
