# Phoenix Office: TLA+ models and proofs

Phoenix Office automates the office work of a contractor (proposal documents,
customer and job records, a desktop form, a command line) and contains, under
`src/phoenix_office/dev`, a *supervised Codex pilot*: a tool that takes one
reviewed authorization package, consumes it once, runs a Codex worker in a
worktree of its own, inspects and validates what the worker changed, publishes
one draft pull request and leaves an audit trail.

This directory models the parts of that code whose correctness depends on
order, concurrency or failure, checks the models with TLC, and proves the most
important results for all sizes with TLAPS. Paths below are relative to
`src/phoenix_office/` of the repository unless they start with `docs/`.

## 1. The system

| Component | Code | State it keeps | Operations | What is hard |
|---|---|---|---|---|
| Audit contract | `core/contracts.py` | none: it defines events, chains, snapshots | validate an event, bind it to its predecessor, derive and validate a snapshot, compose an initial claim, classify conflicts | whether every reachable chain still validates |
| Claim store | `dev/codex_claim_store.py` | one SQLite file: claims, events, two snapshots per attempt, uniqueness keys | create a claim, append an event, read a lifecycle, read an initial claim, initialize, migrate | several processes, faults between two inserts, COMMITs with an unknown outcome, crashes, hot journals |
| Pilot runner | `dev/codex_runner.py` | the run's view of its audit log, a worktree, a local branch, a remote branch, a pull request | gates, claim, worktree, start, invocation, inspection, validation, commit, push, pull request, terminal record | races of runs, answers that never arrive, crashes, what the worker does meanwhile |
| Worker process | `dev/codex_runner.py`, `_run_codex_process` | a process tree, three pipes, two reading threads | launch, audit, prompt, wait, collect, time out, interrupt, terminate | threads, full pipes, processes that outlive their parent |
| WSL worker | `dev/codex_wsl.py` | a shadow workspace and a control record inside WSL | the same invocation, with a supervisor and patch transfer | two process trees, a record that may not be there yet |
| Reviewed execution | `dev/codex_reviewed.py` | a combined result | build a package, invoke the runner at most once, compare its result with the store | the runner's answer may contradict the store |
| Package builder | `dev/codex_package.py` | a staged directory and its final name | inspect, compose, write, publish, clean up | failure of one of several files |
| Successor proposals | `dev/codex_successor*.py` | none: proposals bound to recorded evidence | verify evidence, derive, review | evidence that went stale |
| Records store | `records/*.py` | SQLite or JSON files of customers and jobs | create, save, compare-and-update, read-only reading | two editors of one record |
| Desktop application | `proposal_desktop.py` | the form, a validated snapshot of it, the record selection, drafts | validate, generate, save, load, edit records | generating what was not validated |
| Proposal build and intake | `proposal_build.py`, `proposal_intake*.py`, `generators/`, `renderers/`, `tasks/` | output files | normalize, check, render, write | several files, some written |
| Orchestration and plugins | `orchestration/`, `plugins/` | plan and approval records | plan, preflight, approve | acting on an approval of something else |
| Command line | `cli.py` | none | calls the others | - |

The desktop application, the command line and the records store are
single-threaded; concurrency there is between processes on the same files, and
in the desktop between the handlers of one window, which leave state behind for
each other. The
pilot is where processes, threads and remote services meet, so it comes first.

How they interact: reviewed execution calls the package builder and then the
runner; the runner calls the claim store (a function call that opens the SQLite
file anew each time), git and gh (subprocesses with a timeout), and the worker
process, which calls back once (`on_started`) between launch and prompt; the
store calls the audit contract on every read and write. The worker shares the
run's worktree with the runner, and the clone's refs and the remote are shared
by all runs.

### What makes each component correct

* *Claim store*: an authorization is consumed by at most one attempt; what is
  stored of an attempt is a whole, valid unit at every moment; a caller who was
  told of success finds it there for ever; a definite refusal changed nothing.
* *Runner*: one authorization, one prompt; no prompt without its audit events;
  a reported state is the recorded state, or the report says that it is
  uncertain; nothing is published but what was inspected, as the run's own, as
  long as nothing is left behind that could replace it; every run comes to a
  recorded end, but for two waits.
* *Worker process*: success means all of the output was read and judged; a
  verdict means that the process ended; no wait is unbounded but two.
* *Records store*: no edit overwrites one its editor did not see.
* *Desktop*: what is generated is what was validated.
* *Reviewed execution*: it runs the package that it built, of the spec that was
  approved; what it reports is what the store holds.
* *Package builder, proposal build*: a published package is whole, and nobody
  removes or replaces a file that somebody else made.
* *WSL worker*: no second model while a first may run, nothing it may use is
  taken away, and only contents that were checked reach Windows.

## 2. The modules

| Module | Models | Notes |
|---|---|---|
| `AuditChain` | the audit contract | operators only |
| `ClaimLedger` | what the store promises | abstract specification |
| `ClaimStore` | the store under concurrency and failure | implements `ClaimLedger` |
| `StoreInit` | opening, creating and migrating the store's file | actions only, composed by `ReviewedExecution` |
| `PilotRunner` | one or several runs | extends `ClaimLedger`, whose actions it calls |
| `WorkerContract` | one invocation, as the run relies on it | abstract specification |
| `WorkerProcess` | one native invocation, thread by thread | implements `WorkerContract` |
| `WslInvocation` | one invocation inside WSL | implements `WorkerContract` |
| `WslWorker` | the whole of the WSL worker | extends `WslInvocation` |
| `Successor` | proposals, approvals and task specs | composed by `ReviewedExecution` |
| `PackageBuild` | building a package | composed by `ReviewedExecution` |
| `ReviewedExecution` | the four commands that lead to a run | composes `Successor`, `PackageBuild`, `StoreInit` |
| `RecordsStore` | customers and jobs in SQLite | composed by `ProposalDesktop` |
| `ProposalBuild` | validating and building one proposal | composed by `ProposalDesktop` |
| `ProposalDesktop` | the desktop's windows, the importer, the build command | composes `RecordsStore`, `ProposalBuild` |
| `MC...` | instances for TLC | one for each module that a run checks |
| `AuditChainProofs`, `ClaimStoreProofs`, `ClaimStorePromises`, `PilotRunnerProofs`, `WorkerProcessProofs`, `WslWorkerProofs`, `ReviewedExecutionProofs`, `ProposalDesktopProofs` | theorems | section 5 |

The modules that are composed hold the variables and the actions of their part,
and take what they read of another part as a parameter of the action: whether a
spec is readable, whether HEAD is still the base, the rows that the file holds.
The composing module supplies it from the other part's variables at that step.
This is what makes a value that is read early and used late stale.

Definitions whose comment begins with "Variant" or "Plausible bug" are not part
of a specification: each is another definition with one plausible bug, and is put
in its place to see that a property notices.

### AuditChain

An event keeps its sequence number, its two states, the set of optional fields
it carries and its pull request. `Transitions` and `Required` are the table
`CODEX_PILOT_AUDIT_EVENT_TRANSITIONS`, `EventOK` the structural check of one
event, `Follows` its binding to the previous one, `ChainOK` the walk of the
snapshot derivation, `Derive` the snapshot and `SnapshotOK` the snapshot's own
check. Digests are injective and nothing rewrites stored bytes, so "the digest
of the previous event" is the previous event, and the digest checks disappear.

### ClaimStore

`claims`, `events`, `initial`, `current`, `unique` are the tables (the two event
tables are one sequence). `writer` and `readers` are SQLite's RESERVED and
SHARED locks, `hot` a hot journal, `opened` the processes that hold a store
object. Each process has a program counter for its one request: `calling`
(about to open the file), `begun` (inside BEGIN IMMEDIATE), `staged` (inserts
made, COMMIT next), `reading` (between the first and the last SELECT).

| Action | Code |
|---|---|
| `Open`, `OpenFails` | `__init__` on an existing version-2 file |
| `Call`, `RefuseArguments` | the call, and the validation before the file is opened |
| `Unavailable` | connection, schema check or BEGIN fails, or the busy timeout passes |
| `BeginImmediate` | `_connect_writable` and BEGIN IMMEDIATE, which roll a hot journal back |
| `CreateStages` | conflict check and the inserts of `create_initial_claim_commit` |
| `AppendRefused`, `AppendStages` | `append_lifecycle_event` up to COMMIT |
| `Commit`, `CommitUncertain`, `Incomplete` | COMMIT succeeds, reports an error, or is not reached |
| `BeginRead`, `EndRead`, `ReadFails` | the two read operations |
| `Crash` | the process dies at any point of a request |

What SQLite guarantees is assumed: atomic COMMIT, locks released at death,
read-only connections refused while a hot journal exists.

### PilotRunner

A run's `pc` names the call it is about to make; one action is one call together
with the branch the run takes on its answer. `owner` and `log` are the ledger of
`ClaimLedger`; `known` is the run's own idea of the head of its log
(`lifecycle` in the code), which falls behind when an append is applied but
reported as failed. `local`, `remote`, `prHead`, `open` are git and GitHub,
`worker` the worker (or the probe's), `tree` what its worktree holds, `head` the
commit its HEAD is at (`None` is the base), `paths` the result of the first
inspection and `pushed` what HEAD was when it was pushed. Every call to git, gh or
the store may fail without effect, and those that change something may fail after
taking effect. `worker` is `left_behind` when the launched process is gone but
some process it started may still run; it stays so, because nobody ever looks.

Such a process, as the worker itself, changes the worktree and moves HEAD at any
moment (`WorkerActs`), and so does the code that the validations run. The commit
is made (`CommitChanges`), verified (`VerifyCommit`), and HEAD is pushed as it is
after two more gates (`Push`); nobody inspects it again, so what a left-behind
process puts there in time is published. `PublishedWasInspected` therefore speaks
of what was pushed, and excepts exactly the runs that left processes behind:
everything else that moves HEAD or the tree, between the inspections and during
the validations, is caught. What is not modelled of such processes: changes of the
remote, of the git configuration, of `.git` itself, and of the branches of other
runs in the clone. `PullRequestIsOwn` is about what runs and the operator do on
the remote, and not about a worker that writes there itself.

A worktree's contents are one of a few trees. `PathsOf` gives their changed
paths and `Allowed` those that `inspect_diff` lets through; the content of two
trees with the same paths may differ, and only one of them may be allowed.

### WorkerProcess

`main` is the invoking thread's position in `_run_codex_process`, `reader` and
`diag` are the two threads, `stdin`, `out`, `err` the pipes, `alive` and `holds`
the processes that run and those that keep the pipes open. `why` is the verdict
to be returned if termination succeeds. Only the order and the effects of the
parser's findings are kept: a line is a note, `turn.completed`, fatal, or too
long.

`WorkerContract` has three variables, the stage, the worker and the verdict. Both
backends implement it, and what a run believes of its worker from the launch to
the verdict follows it (`RunsFollowTheContract`). After the verdict the run goes
on alone, with one difference: it keeps `left_behind` where the contract lets
those processes end.

### StoreInit

`file` says what is at a path (absent, empty, version 1 or version 2), `initial`
and `current` which attempts have a row in the initial table and in the current
snapshots that only version 2 has, `lock` and `hot` are SQLite's. An opener's
`opening` is the question it asks next: `Stat` (does the file exist),
`CreateExclusive` (O_EXCL, which leaves an empty file), `BeginCreation`, the two
schema checks of `inspect`, `BeginMigration`, which repeats its check under the
lock because another opener may have migrated meanwhile, and the three outcomes of
COMMIT. Each question is an action, so that a file may change between two of them.
An empty file that a process leaves by dying between the creation and COMMIT is
never repaired by anybody, and a hot journal keeps openers out; both are refusals.

### WslInvocation and WslWorker

`client` is the Windows process `wsl.exe`, `leader` the supervisor and later the
worker, `group` and `outside` the helpers that stayed in its process group and
those that left it, `record` and `dir` the control record, by which alone the
worker can be signalled. `stranger` is a process that was given the leader's
number after it ended, and `struck` says whether it was signalled. `main` is the
invoking thread's position in `_run_model`:
`Ready`, `NotYet`, `NotReady` (the record is polled), `Audit`, `SendPrompt`, the
waits, then `StopClient`, `AskToStop`, `StopAnswered` or `StopUnanswered`,
`StopProve` and `StopCleanup`. Where `Prove` fails the verdict is uncertain.

The control script that `AskToStop` starts is a process of its own inside WSL
(`script`): it may begin late, and it goes on when the invoking thread has given
up waiting for it. It looks once whether the recorded number is still the
worker's (`Look`), sends SIGTERM (`SendTerm`), waits for up to two seconds and
sends SIGKILL (`SendKill`). The number may be given to somebody else before the
look, which the look notices, or after it, which nothing does: `StrangersAreSpared`
is about the first, and the second is in the model. The other uses of the script
(`ready`, `prove-exited`) only read, and are one action each.

`WslWorker` adds the four gates with their cached answers (two of them run a
model, which is represented by what such a run returns and leaves behind), and
`invoke_codex`: `Snapshot`, `CreateShadow`, `FillShadow`, the invocation,
`Compare`, `CheckPaths`, `CheckContents`, `Export`, `LookBeforeApplying`,
`ApplyPatch`, `CheckApplied`, `Cleanup`. `WriteShadow` is the worker, or a helper
that got away, writing at any moment; `EditWorktree` is anybody on Windows.

`worktree` is the set of what was done to the Windows worktree since the call
began: `edited`, a change before the last look at it; then, until the paths are
checked, `late`, a change of another file than the patch's, or `mixed`, a change
of one of the patch's own files; the patch; or `part`, a piece of it, which a
failed or timed-out `git apply` may leave. The last check compares the names of
the changed paths and not what is in them: a `late` change is refused, a `mixed`
one is not noticed, and `WorktreeIsWhole` says no more than that.

### Successor, PackageBuild and ReviewedExecution

`Successor` has a proposer (`ListIssues`, then `Propose`, which reads the
dependencies), an architect (`Approve`) and compilers, which read HEAD, the
issue and the dependencies again, one after the other, and write the spec
(`CreateSpec` with O_EXCL, `FinishSpec`, and `RemoveSpec` after a failure).
`World` edits issues, reopens dependencies, moves HEAD and edits the checkout. A
fingerprint is the record it digests, and the spec keeps with it what its
compiler has itself read of the issue and the dependencies, which
`OnlyApprovedWorkRuns` compares with what was approved. HEAD is compared once,
before these reads. `PackageBuild` goes through `RequireBase`, `Compose`,
`CreateStage`, `WriteFiles`, `Inspect` and `Publish`, the rename that fails if
something is there.

`ReviewedExecution` gives each process one command (`kind`): `successor`
compiles, builds and runs; `reviewed` loads a spec, builds and runs; `package`
only builds; `run` runs a package that is there. Of a run it keeps the opening of
the store, the claim, the recorded end and the answer; `PilotRunner` has the rest.
`Verified` and `Combined` are `_combined_result`. The invoker catches whatever
the runner raises and reports `runner_internal_failure` without an attempt, so
that a claim may exist for an authorization reported unconsumed: that category
and `claim_durability_uncertain` are the two that `ReportsMatchTheStore` excepts.
One approval may be compiled and run in several control roots; nothing in the
code forbids it, so no property does.

### RecordsStore, ProposalBuild and ProposalDesktop

`rows` is what the pages of the records file hold, `journal` what a rollback
restores, `tx` the open transaction. `Begin` takes the lock and rolls a dead
writer's pages back, `Flush` changes the pages, `Commit` removes the journal. A
read-only repository opens the file as immutable: it looks for sidecar files
(`SidecarFree`) and then reads without a lock, so it may see uncommitted pages.

`ProposalBuild` reads the customer and the job at two moments, publishes the JSON
file and then the DOCX file without overwriting, verifies, and on failure removes
what it `created`. A process that dies between the two files leaves the first.

`ProposalDesktop` has, for each window, `form` (what its fields select), `seen`
(the records loaded), `edit` (the record its edit fields were filled from),
`valid` (request and snapshot of the last validation), `shown` (the result on
display) and `call`, the handler that runs: loading, selecting, creating and
updating records, opening drafts, choosing outputs, validating, generating. A
handler is interrupted wherever it reads or writes a file, never elsewhere: a
window has one thread. The importer upserts records without looking; the command
builds a proposal into the same folder. The summary shown by a validation may
differ from what a later build reads: the build validates anew, and
`ResultIsOfTheForm` is about what it made.

## 3. What is checked

Each run finishes within about two and a half minutes on two cores.

| Run | Instance | Distinct states | Shows |
|---|---|---|---|
| `store_appends` | 2 processes, 1 attempt, 2 packages with one id, 2 pull requests, all states | 70,035 | units always validate; answers are durable; one winner per sequence number; refusals change nothing; the store implements the ledger |
| `store_claims` | 2 processes, 2 attempts, 3 packages, two of one id | 114,230 | an authorization is consumed once; exact uniqueness keys; nothing partial; the inductive invariant |
| `store_hot_journal` | as `store_claims` | violation | finding 1 |
| `runner_shared` | 2 runs in one or two clones, one branch, 2 packages, 2 pull requests, 2 trees | 2,205,993 | one prompt per authorization; prompts are audited; results are durable; blocked runs consume nothing; a run's pull request is its own |
| `runner_alone` | 1 run, 5 trees, fairness | 12,351 | what is published was inspected; a worker at work is not said to be stopped; legal requests; termination |
| `runner_known_pr`, `runner_cancel` | 1 run | violation | findings 2, 3 |
| `worker_process` | 2 helpers, one of which escapes, prompt of 2 chunks, pipes of 1 item, fairness | 189,986 | whole success; verdicts; bounded waits; the contract |
| `worker_runtime` | the same | violation | finding 4 |
| `wsl_worker` | 2 helpers, one of which escapes, 2 polls, fairness | 381,367 | sound exit proofs; strangers are spared; no model after uncertainty; nothing is taken from a running worker; only checked contents; a whole worktree; the contract; every call returns |
| `reviewed` | 2 processes, 1 issue with two candidates, 1 dependency, 2 bases, 2 roots, 1 store, 1 old attempt | 1,506,603 | opened stores are whole; only approved work runs; own packages; true reports; others' files are kept |
| `desktop` | 1 window, importer, command, 2 customers, 1 job, 2 values, 2 details, 1 pair of outputs, 2 drafts | 1,572,376 | no lost update; edits are of the selection; results are of the form; outputs are kept |

The bounds. The store's properties are about pairs: two processes race for one
row, a reader overlaps one writer, one attempt conflicts with one other; a third
process adds only another holder of the same locks, and the proofs (section 5)
cover any number. Two packages with one id are what a reissued package is; three
allow an unrelated one. A chain has at most five events, so every lifecycle is
explored whole, with no bound of ours. Two pull requests are needed to see one
run adopt another's. A prompt of two chunks (`PromptChunks`) over a pipe of one
(`PipeSize`) blocks; two helpers are one that dies with the group and one that
does not. Two polls (`ReadyPolls`; the code has more) are one that is too early
and one that is not.

In `reviewed`, `MaxProposals` = 1 and `MaxChanges` = 1 bound the proposals and
the changes of the world; one change between two reads of one command is what
makes its first read stale. The initial state ranges over absent, version 1 with
and without claims, and a package left from before; empty, hot and version 2 files
arise. In `desktop`, `Budgets` bounds the writes, the builds by the command and
the deaths: two writes, or one write and one command, or one death with one of
either; the window's own steps are not bounded. Two writes are an edit and the
import that makes it stale; one death is the crash in the middle of either. Two full
windows were tried and are beyond TLC here; the other users of the files are the
importer and the command, whose steps on them are those of a second window, and
the proofs are for any number of windows.
The runs of the store, the runner and the worker have no artificial counter.

Symmetry is used for processes, runs and attempts in the runs whose properties
are invariants or action properties, never with fairness.

Deadlock is checked in the store's passing runs: a process always has a next
step. Runs, invocations, commands and bounded worlds come to an end, so the other
runs turn the check off.

### Fairness

`runner_alone` assumes weak fairness of the runner's own next step, because
each subprocess of `_run` has a timeout, `process.wait` has one, and the store's
calls have a busy timeout; but not of writing the prompt nor of leaving the
executor while somebody holds the pipes, which have none. The capability probe
runs a worker of its own through the same function, so the model lets it last
for ever as well (`probing`). Nothing is assumed of
the worker, the operator or the other runs. `WorkerProcess` assumes weak
fairness of each of the three threads, and nothing of the processes.

`WslWorker` assumes weak fairness of the calling thread's next step in the
gates, the transfer and the invocation, because every command there has a
timeout; of the prompt's write only once the client is gone, since it has none;
of the Linux timer (`timeout` in front of the worker); and of the client's end
after what it runs has ended. On Windows two more writes have no timeout,
whatever is passed to `subprocess.run`: that of the archive to `tar` inside WSL
and that of the patch to `git apply`. They are assumed to end, because both
programs read their input before they do anything else. Nothing is assumed of
the worker, its helpers, or who edits the worktree. `reviewed` and `desktop`
state no liveness and assume no fairness.

### Findings

1. **A hot journal shuts readers out** (`store_hot_journal`). The store's
   read-only connections cannot roll back a journal left by a process that died
   inside COMMIT, so reads and the opening of new store objects fail until an
   already open object writes. `docs/process/supervised-codex-pilot-storage.md:72`
   says that readers must ignore uncommitted state. The failure is closed
   (`claim_store_unavailable`) and no data is lost.
2. **A known pull request is not recorded** (`runner_known_pr`). After a failed
   append of `pr_opened_and_stopped` the run closes the attempt as `failed`, an
   event that cannot carry the identity, against
   `docs/process/supervised-codex-pilot-consumption-audit.md:228` and `:253`.
3. **Cancelled and timed-out runs may leave processes at work** (`runner_cancel`),
   against `docs/process/issue-to-codex-trigger-evaluation.md:45`. In the trace
   the worker had its prompt, the run timed out, and a process that the worker
   started outlives it; a run that is cancelled with nothing running is no
   violation.
4. **An invocation has no maximum runtime** (`worker_runtime`), against the same
   line.

Seen while modelling, and in the models as they are in the code:

* the capability probe runs a model before the claim, while line 312 of the
  consumption audit document forbids a start before it;
* another run that adds a branch or worktree to the clone while the worker works
  makes the inspection blame the worker; the run fails closed (`StepFails`);
* a death between the JSON and the DOCX file of a proposal leaves the JSON file
  alone, which blocks a second build under that name until somebody removes it;
* `push_authorized_branch` pushes whatever HEAD is when it runs, and afterwards
  compares the remote with HEAD and not with the commit that was verified;
* when the end of a worker that could not be stopped is not recorded for certain,
  `_terminal_result` answers `lifecycle_storage_uncertain`, and that the process
  tree may still run is said nowhere (`TerminalMeansStopped` allows either answer);
* the capability probe may hang for the same two reasons as an invocation;
* the control script signals a process group twice after one look at its number;
* an edit of a patched file between `apply_shadow_patch`'s look at the worktree
  and its check of the paths is reported as success, and a `git apply` that is
  stopped by its timeout may leave part of a patch behind an ordinary failure;
* imports overwrite what a window edited (`NoLostUpdate` is about the windows'
  updates), and a window's later update of such a record is refused;
* pressing Generate again clears the result on display before it builds.

## 4. Fidelity

Kept: every state change, early return and error path of the mapped functions,
in their order, and every point where another process, thread or crash can come
between two of them. Abstracted: the syntax of identifiers and packets, digests
(injective), the individual text checks inside one git gate (one answer), usage
telemetry (it decides between two categories and one failure), and the names of
result categories where nothing depends on them: failures of the steps of a run
are `step_failed`, and the eight defects that `read_initial_claim_bundle` tells
apart in a unit of the right package are `history_mismatch`.

A record's fields are one value, a form's fields that select nothing are
`details`, a proposal is what it was made from. The inspections of a spec, a
package or a patch that depend on nothing but their argument are one answer.

External and modelled from its use: SQLite's locking and journals, git, gh, the
operating systems' processes and pipes, WSL, the worker, the operator and the
architect, edits of issues, and the death of a process.

## 5. What is proved

Every invariant and every action property that a passing run checks is a theorem
too, and holds for any sets of clients, attempts, packages, runs, clones, helpers,
processes, control roots, windows, records and drafts, any number of polls and any
budget. What the theorems assume is named in the modules:

* `None` is none of the other values (`NoPrAssumption`, `AuthAssumption`,
  `StoreAssumption`, `RunnerAssumption`, `NamesAssumption`, `FilesAssumption`,
  `FormsAssumption`), and no process is one of an older version's attempts
  (`NamesAssumption`);
* functions and bounds given as constants are of their types (`AuthAssumption`,
  `StoreAssumption`, `WorkerAssumption`, `WslAssumption`, `CandidatesAssumption`),
  the states that are asked for are states of the contract (`StoreAssumption`),
  and the leader of a group is none of its helpers (`WorkerAssumption`);
* every authorization names a branch, every tree has its changed paths, and the
  unchanged tree is a tree and not one that the package allows to be published,
  since an empty diff is refused (`RunnerAssumption`);
* issues have numbers and are finitely many (`IssuesAssumption`): `gh` returns a
  list of them;
* the rows that are there at first are rows, the importer is nobody else, and
  windows and commands are different processes (`FirstRowsAssumption`,
  `ActorsAssumption`);
* a draft is a form, and the build command names a customer and a job, which its
  parser requires (`FormsAssumption`).

**The audit contract** (`AuditChainProofs`). `ChainsDeriveSnapshots`: every chain
that the contract accepts derives a snapshot that is well typed and passes
`SnapshotOK`. It rests on `ChainShape`: a chain takes its steps in order, may
leave by an exit at any of them, and has at most five events.

**The claim store's tables** (`ClaimStoreProofs`). `IInvHolds`:
`Spec => []IInv`, and from it `TypeCorrect`, `UniquenessIsExact`,
`NothingPartialIsVisible`, `AuthorizationConsumedOnce` and
`StoredUnitsAlwaysValidate`. None of these is inductive alone.
`OneClaimPerAuthorization` needs `UniquenessMatchesClaims`, which a COMMIT
preserves only because what it is about to insert is still acceptable
(`StagedIsAccepted`), which holds only because one transaction is open at a time
(`LocksMatchRequests`). `StoredUnitsValidate` needs the stored snapshots to be
those their events derive (`UnitsWhole`), and, for the snapshot's own check,
`ChainsDeriveSnapshots`. `SeenIsCurrent` says that nothing is committed under a
reader. `IInv` is their conjunction, and TLC checks it in `store_claims`. The
proof splits by what a step touches: `TablesChange` (tables change only when a
staged transaction commits), `OtherSessions` and `OwnLocks` (a step moves only
its client's session and locks), `ClaimStep` and `AppendStep` (what the two
COMMITs do), then one lemma per conjunct.

**The claim store's answers** (`ClaimStorePromises`). `ImplementsTheLedger`: the
only steps that change a table apply a staged request, and `ApplyIsLedgerStep`
maps each to one action of `ClaimLedger`; all others stutter.
`FailuresChangeNothing` follows from the same. `SuccessesLast`,
`OneWinnerPerSequence` and `ForeignPackagesOnly` come from one more invariant,
`Told`: what a client was last told holds in the tables. It is established by
the step that answers (`CommitTells`, `ReadTells`, `RefusalTells`) and kept
because tables only grow (`TablesGrow`). `FingerprintNeverDecides` says that the
fingerprint key is redundant: whoever finds it taken finds the id taken too.

**The runner** (`PilotRunnerProofs`). `PInv` has types, a part for each run and
two shared parts. `RunOK` is a run's own affair: what its place in the program
says of its claim (`ClaimOK`), its worker (`WorkerOK`), its audit log
(`AuditOK`), its result (`ResultOK`) and its tree (`TreeOK`). `LedgerOK` says
that no two claims are of one authorization, which an applied claim preserves
because the ledger refuses a taken id, and from which `AuthorizationPromptsOnce`
follows: a prompted run owns its claim. `GithubOK` says that a remote branch
holds the commit of a run that has published it, because the leased push takes
nobody's branch, and so that a pull request proposes its run's own commit. What
is published is `PassedInspection` of the run's `head` at each step from the
commit on, which the second inspection and `VerifyCommit` establish, and every
other step keeps unless processes are left behind. `SInv` (`StopOK`) says where
a worker may still be at work: only before the end of the attempt is recorded,
or with an exit of `failed` and an uncertain category, or behind one of the two
answers that say so. The other theorems are `PromptsFollowTheirRecord`,
`ResultsAreTrue`, `BlockedMeansUnclaimed`, `PublishedPassedInspection` and
`RecordedEndsAreEnds`. The step lemmas follow the order of a run; `OthersStay`
gives the other runs.

`RunsAskForLegalEvents` needs more: what a run knows of its log. `KInv` says that
a run that knows all of it knows a legal chain that has come exactly as far as the
run has (`HeadFits`), and that knowledge once lost is never regained, because the
store refuses an event at a position that is taken. `LegalMovesExtend`
(`AuditChainProofs`) then gives that the next request is accepted.

Two more theorems set the run against its neighbours. `RunnerKeepsToTheLedger`:
seen through claims and logs alone, the runs behave as `ClaimLedger`, which is
what `ClaimStore` is proved to implement; so the runner relies on no more than the
store promises, and asks for no less than legal steps. `RunsFollowTheContract`:
from the launch to the verdict each step of a run and of its worker is a step of
`WorkerContract`, which is what both backends are proved to implement. Neither is
a property of a run of TLC's, since both take a definition of the proof module or
hold a whole specification; TLC has evaluated the second on the instance of
`runner_alone`.

**The native worker** (`WorkerProcessProofs`). `SuccessCoversTheOutput` and
`VerdictsAreOfEndedWorkers` from `WInv` (`LeaderOK`, `ReaderOK`, `VerdictOK`:
where the main thread is tells whether the worker lives, what the reader has read
and which verdict there can be). `KeepsTheContract`: `WorkerProcess` implements
`WorkerContract`, step by step, with `PromptOK` (the prompt is submitted when its
last chunk is written) in addition.

**The WSL worker** (`WslWorkerProofs`). Its first half is about one invocation.
`IInv` follows the invoking thread: before the launch nothing is there
(`UnlaunchedOK`); the prompt follows the audit and the audit the start
(`PromptOK`); a record is of a leader that has started, and outlives whatever of
the group runs (`RecordOK`); a proof of the end comes before the cleanup and the
cleanup before the verdict (`VerdictOK`); and where the control script is tells who
can have the number it signals (`SparedOK`). `ExitProofsAreSound` and
`OnlyTheWorkerIsSignalled` follow, and `WslKeepsTheContract`, action by action as
for the native worker. The second half is about the whole of `WslWorker`, each of
whose steps is a step of the invocation or leaves it as it is
(`WorkerIsInvocation`), so that `CallsKeepThePromises` inherits the first half.
`WorkerInv` adds the gates with their cached answers (`GatesOK`, `SpacesOK`), the
place of the call (`CallOK`), the shadow (`ShadowOK`), what was seen of its
contents (`SeenOK`), the Windows worktree (`WorktreeOK`) and the evidence
(`EvidenceOK`), and gives `NothingRunsAfterUncertainty`, `WhatRunsIsKept`,
`OnlyCheckedContentsArrive` and `WorktreesAreWhole`.

**Reviewed execution** (`ReviewedExecutionProofs`). `OpenedStoresAreWhole` and
`ReportsAreTrue` from `RInv`: a lock is held by the opener that is in a
transaction (`LocksAreHeld`); what an opener has found out is still true of the
file where it matters (`FilesMatchOpeners`); a version-2 file has a current row
for each initial one (`TablesMatchFiles`); who claims has opened
(`ClaimersHaveOpened`); and a process's place tells whether its claim is in the
store (`ClaimsMatchPlaces`). The specs and packages have an invariant of their
own, `FInv`: a compiled spec is of an approved proposal (`SpecOK`), a package is
inspected and of the spec beside it (`PackageOK`), and a command's place tells
what it has compiled, built and taken to run (`CompilerOK`, `BuilderOK`,
`CommandOK`). From it come `RunsAreApproved`, `RunsUseTheirPackage` and, since
whoever writes a file found its place empty or made the file, `FilesOfOthersStay`.

**The desktop** (`ProposalDesktopProofs`). `DesktopInv` has the types and, for
each window, what is selected and edited (`SelectionOK`), what a call that reads
may assume (`ReadingOK`, `DraftOK`), what one that writes is about to write
(`WritingOK`) and what was shown to be valid or made (`ShownOK`, `RequestOK`);
then the transaction (`TransactionOK`: it makes what its call says of the rows it
compared), the file (`FileOK`: what the journal restores or what the transaction
makes, even while a reader sees uncommitted pages) and the builds (`BuildOK`). A
step is one window's, which leaves the other windows alone (`WindowStepMoves`),
or nobody's, which leaves all of them alone (`OthersWait`). The theorems are
`EditsBelongToTheSelection`, `ResultsAreOfTheForm`, `NoUpdateIsLost` and
`OutputsStay`. `NoUpdateIsLost` rests on the comparison inside the transaction:
the row that an update replaces is the one that its edit fields came from
(`WritesReplaceWhatWasShown`).

Where the model was changed so that it can be reasoned about: `Successor` takes
the candidate that stands before every other eligible one by what it is
(`Selected`) and not by `CHOOSE`, which is the same one, since eligible issues
are ordered by priority and number; and the sets that its files and forms are
taken from have names (`Digests`, `Specs`, `Packages`, `Requests`, `Proposals`).

Only model-checked: liveness (`EveryRunReports`, `WaitsAreBounded`,
`EveryCallReturns`), and `ReadersIgnoreUncommitted`, which speaks of `ENABLED`
and is violated; both are beyond TLAPS. So is what the findings say: a violation
is one behaviour, which TLC shows.

## 6. Not modelled

* *Contract structure of handoffs, evidence and authorizations*: field-by-field
  validators of immutable packets, pure functions of their argument. In the
  models they are an answer.
* *Reviewed execution*: the disposition of a finished pull request and the
  advancement of a cycle after it. Each judges its caller's arguments and writes
  nothing.
* *Runner and WSL worker*: the text of each git and `wsl.exe` answer; a gate
  passes or fails.
* *Records*: creating the file and its cleanup, the JSON export and codec.
* *Desktop*: saving a draft (a file created with O_EXCL that nothing changes
  later; the drafts that can be opened are given), preferences and recent work
  (the last writer wins, and nothing else reads them), search, widgets.
* *Proposal intake, normalization, rendering*: conversions inside one process.
* *Orchestration plans and plugins*: records built and compared within one call.
* *Scripts and workflows*, argument parsing, text output: no state that outlives
  a call.

What would come next: `ReviewedExecution` over the whole of `PilotRunner` instead
of what a run leaves in the store, shown to be a refinement of it; and the
contract structure of a handoff as pure operators with their reference
definitions.
