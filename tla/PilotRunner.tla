------------------------------ MODULE PilotRunner -----------------------------
(***************************************************************************)
(* SupervisedCodexPilotRunner.run (dev/codex_runner.py): one supervised    *)
(* pilot run takes a reviewed authorization package through its gates, the *)
(* one-time claim, the worker, the inspection of what the worker changed,  *)
(* publication and the audit events in between.  Several runs, in one or   *)
(* several clones of the repository, share the claim store and the remote. *)
(*                                                                         *)
(* The store is the ledger that ClaimStore implements, with its answers: a *)
(* request succeeds, is refused, or fails, and a failed write may still    *)
(* have been applied.  git, gh and the worker process are modelled by what *)
(* the runner relies on: a command may fail after it took effect; `git     *)
(* worktree add -b` and `push --force-with-lease=<ref>:` are exclusive on  *)
(* the branch; GitHub keeps one open pull request per branch.              *)
(***************************************************************************)
EXTENDS ClaimLedger

CONSTANTS
  Branches,  \* branch names
  BranchOf,  \* the branch each package authorizes
  Clones,    \* clones of the repository
  Trees,     \* what a worktree may hold
  PathsOf,   \* the changed paths of each tree
  Unchanged, \* the tree of the base commit
  Allowed    \* the trees whose paths and contents inspect_diff lets through

\* Each run draws an attempt id of its own, which names it here.
Runs == Attempts

ASSUME RunnerAssumption ==
  /\ BranchOf \in [Auths -> Branches]
  /\ DOMAIN PathsOf = Trees
  /\ Unchanged \in Trees
  /\ Allowed \subseteq Trees \ {Unchanged}
  /\ None \notin Runs \cup Trees

VARIABLES
  local,   \* the run whose worktree holds each branch of each clone
  remote,  \* the run whose commit each branch of the remote points to
  prHead,  \* the run whose commit each pull request proposes
  open,    \* the pull requests that are open
  pc,      \* the call each run is about to make
  auth,    \* the package each run was started with
  clone,   \* the clone each run works in
  known,   \* the number of its audit events each run knows of
  worker,  \* each run's Codex process, and what it leaves behind
  tree,    \* what each run's worktree holds
  paths,   \* changed_paths: what its first inspection found
  head,    \* the tree of the commit that HEAD names there; None at the base
  pushed,  \* the tree of the commit it has sent to the remote
  pr,      \* the pull request identity it was told
  exit,    \* the terminal state and category it is about to record
  result   \* the status and category it returned

github == <<remote, prHead, open>>
work == <<worker, tree, paths, head, pushed>>
outcome == <<pr, exit, result>>
vars == <<ledgerVars, local, github, pc, auth, clone, known, work, outcome>>

Branch(r) == BranchOf[auth[r]]

LocalBranch(r) == local[clone[r]][Branch(r)]

OpenFor(b) == {p \in open : BranchOf[auth[prHead[p]]] = b}

\* The calls before the claim, and those after it that may fail.
Preclaim ==
  {"local_gate", "remote_gate", "pr_gate", "probe", "probing", "claim"}

Steps ==
  {"worktree", "record_starting", "launch", "record_started", "prompt",
   "working", "draining", "diff", "validate", "rediff", "commit",
   "verify_commit", "remote_gate_again", "pr_gate_again", "push", "open_pr", "record_pr",
   "terminal"}

\* Those after the prompt that read the worktree or its HEAD, or come before one
\* that does.
ReadsTree == {"working", "diff", "validate", "rediff", "commit", "verify_commit"}

ReadsHead == {"remote_gate_again", "pr_gate_again", "push"}

Active == {r \in Runs : pc[r] \in Preclaim \cup Steps}

NoResult == [status |-> "none", category |-> "none"]

NoExit == [state |-> "none", category |-> "none"]

Init ==
  /\ LedgerInit
  /\ local = [c \in Clones |-> [b \in Branches |-> None]]
  /\ remote = [b \in Branches |-> None]
  /\ prHead = [p \in Prs |-> None]
  /\ open = {}
  /\ pc = [r \in Runs |-> "idle"]
  /\ auth = [r \in Runs |-> None]
  /\ clone = [r \in Runs |-> None]
  /\ known = [r \in Runs |-> 0]
  /\ worker = [r \in Runs |-> "none"]
  /\ tree = [r \in Runs |-> Unchanged]
  /\ paths = [r \in Runs |-> None]
  /\ head = [r \in Runs |-> None]
  /\ pushed = [r \in Runs |-> None]
  /\ pr = [r \in Runs |-> None]
  /\ exit = [r \in Runs |-> NoExit]
  /\ result = [r \in Runs |-> NoResult]

-----------------------------------------------------------------------------
(***************************************************************************)
(* Control: where a run goes next.                                         *)
(***************************************************************************)

Goto(r, next) ==
  /\ pc' = [pc EXCEPT ![r] = next]
  /\ UNCHANGED <<auth, clone, pr, exit, result>>

\* The run returns without a claim.
Block(r, category) ==
  /\ pc' = [pc EXCEPT ![r] = "done"]
  /\ result' = [result EXCEPT ![r] = [status |-> "blocked", category |-> category]]
  /\ UNCHANGED <<auth, clone, pr, exit>>

\* The run is to record state, then to return it as its status; it may have to
\* wait before it does.
ExitAfter(r, wait, state, category) ==
  /\ pc' = [pc EXCEPT ![r] = wait]
  /\ exit' = [exit EXCEPT ![r] = [state |-> state, category |-> category]]
  /\ UNCHANGED <<auth, clone, pr, result>>

Exit(r, state, category) == ExitAfter(r, "terminal", state, category)

Fail(r) == Exit(r, "failed", "step_failed")

Return(r, status, category) ==
  /\ pc' = [pc EXCEPT ![r] = "done"]
  /\ result' = [result EXCEPT ![r] = [status |-> status, category |-> category]]
  /\ UNCHANGED <<auth, clone, pr, exit>>

-----------------------------------------------------------------------------
(***************************************************************************)
(* The claim store, as the run uses it.                                    *)
(***************************************************************************)

NewEvent(r, next, fields, p) == EventAfter(log[r], next, fields, p)

\* The store has a legal event to append: the run knows the head of the log.
Appendable(r, next, fields, p) ==
  /\ known[r] = Len(log[r])
  /\ ChainOK(Append(log[r], NewEvent(r, next, fields, p)))

\* The event is appended and the run is told.
Appended(r, next, fields, p) ==
  /\ Appendable(r, next, fields, p)
  /\ log' = [log EXCEPT ![r] = Append(@, NewEvent(r, next, fields, p))]
  /\ known' = [known EXCEPT ![r] = @ + 1]
  /\ UNCHANGED owner

\* The run is told anything else.  The event may have been appended still:
\* claim_durability_uncertain.
NotAppended(r, next, fields, p) ==
  /\ \/ UNCHANGED log
     \/ /\ Appendable(r, next, fields, p)
        /\ log' = [log EXCEPT ![r] = Append(@, NewEvent(r, next, fields, p))]
  /\ UNCHANGED <<owner, known>>

\* Variant: the usage category is always given.
ExitFieldsWithUsage(r, state) == Exits[state] \cup {"usage_category"}

\* The categories a terminal event is given, by the state the run knows.
ExitFields(r, state) ==
  Exits[state] \cup
    {f \in {"usage_category"} : log[r][known[r]].next = "invocation_started"}

-----------------------------------------------------------------------------
(***************************************************************************)
(* Before the claim.                                                       *)
(***************************************************************************)

Start(r) ==
  /\ pc[r] = "idle"
  /\ \E u \in Auths : auth' = [auth EXCEPT ![r] = u]
  /\ \E c \in Clones : clone' = [clone EXCEPT ![r] = c]
  /\ pc' = [pc EXCEPT ![r] = "local_gate"]
  /\ UNCHANGED <<ledgerVars, local, github, known, work, outcome>>

\* Any gate before the claim may fail or be unavailable.
GateFails(r) ==
  /\ pc[r] \in {"local_gate", "remote_gate", "pr_gate", "probe"}
  /\ Block(r, "gate_failed")
  /\ UNCHANGED <<ledgerVars, local, github, known, work>>

\* _collision_gate: the branch must not exist in this clone, ...
LocalGate(r) ==
  /\ pc[r] = "local_gate"
  /\ IF LocalBranch(r) = None THEN Goto(r, "remote_gate")
     ELSE Block(r, "local_branch_collision")
  /\ UNCHANGED <<ledgerVars, local, github, known, work>>

\* ... nor on the remote, ...
RemoteGate(r) ==
  /\ pc[r] = "remote_gate"
  /\ IF remote[Branch(r)] = None THEN Goto(r, "pr_gate")
     ELSE Block(r, "remote_branch_collision")
  /\ UNCHANGED <<ledgerVars, local, github, known, work>>

\* ... nor have an open pull request.
PrGate(r) ==
  /\ pc[r] = "pr_gate"
  /\ IF OpenFor(Branch(r)) = {} THEN Goto(r, "probe")
     ELSE Block(r, "duplicate_active_pr")
  /\ UNCHANGED <<ledgerVars, local, github, known, work>>

\* capability_probe: Codex itself is started on a synthetic task.
StartProbe(r) ==
  /\ pc[r] = "probe"
  /\ worker' = [worker EXCEPT ![r] = "probing"]
  /\ Goto(r, "probing")
  /\ UNCHANGED <<ledgerVars, local, github, known, tree, paths, head, pushed>>

EndProbe(r) ==
  /\ pc[r] = "probing"
  /\ \/ /\ worker' = [worker EXCEPT ![r] = "none"]
        /\ Goto(r, "claim") \/ Block(r, "gate_failed")
     \/ /\ Block(r, "process_tree_termination_uncertain")
        /\ UNCHANGED worker
  /\ UNCHANGED <<ledgerVars, local, github, known, tree, paths, head, pushed>>

ClaimCreated(r) ==
  /\ pc[r] = "claim"
  /\ Claim(r, auth[r])
  /\ known' = [known EXCEPT ![r] = 1]
  /\ Goto(r, "worktree")
  /\ UNCHANGED <<local, github, work>>

\* The authorization was claimed before: claim_authorization_id_conflict.
ClaimConflict(r) ==
  /\ pc[r] = "claim"
  /\ \E s \in Claimed : AuthId[owner[s]] = AuthId[auth[r]]
  /\ Block(r, "claim_conflict")
  /\ UNCHANGED <<ledgerVars, local, github, known, work>>

ClaimUnavailable(r) ==
  /\ pc[r] = "claim"
  /\ Block(r, "claim_store_unavailable")
  /\ UNCHANGED <<ledgerVars, local, github, known, work>>

\* Variant: an uncertain claim is taken for no claim.
ClaimDisregarded(r) ==
  /\ pc[r] = "claim"
  /\ Claim(r, auth[r]) \/ UNCHANGED ledgerVars
  /\ Block(r, "claim_store_unavailable")
  /\ UNCHANGED <<local, github, known, work>>

ClaimUncertain(r) ==
  /\ pc[r] = "claim"
  /\ Claim(r, auth[r]) \/ UNCHANGED ledgerVars
  /\ Block(r, "claim_durability_uncertain")
  /\ UNCHANGED <<local, github, known, work>>

-----------------------------------------------------------------------------
(***************************************************************************)
(* The invocation.                                                         *)
(***************************************************************************)

CreateWorktree(r) ==
  /\ pc[r] = "worktree"
  /\ LocalBranch(r) = None
  /\ local' = [local EXCEPT ![clone[r]][Branch(r)] = r]
  /\ Goto(r, "record_starting")
  /\ UNCHANGED <<ledgerVars, github, known, work>>

\* The branch exists, or the command or the checks after it fail; nothing is
\* undone.
WorktreeFails(r) ==
  /\ pc[r] = "worktree"
  /\ \/ UNCHANGED local
     \/ /\ LocalBranch(r) = None
        /\ local' = [local EXCEPT ![clone[r]][Branch(r)] = r]
  /\ Fail(r)
  /\ UNCHANGED <<ledgerVars, github, known, work>>

RecordStarting(r) ==
  /\ pc[r] = "record_starting"
  /\ \/ /\ Appended(r, "invocation_starting", {}, None)
        /\ Goto(r, "launch")
     \/ /\ NotAppended(r, "invocation_starting", {}, None)
        /\ Fail(r)
  /\ UNCHANGED <<local, github, work>>

Launch(r) ==
  /\ pc[r] = "launch"
  /\ \/ /\ worker' = [worker EXCEPT ![r] = "launched"]
        /\ Goto(r, "record_started")
     \/ /\ Fail(r)
        /\ UNCHANGED worker
  /\ UNCHANGED <<ledgerVars, local, github, known, tree, paths, head, pushed>>

ExitUncertain(r) == Exit(r, "failed", "process_tree_termination_uncertain")

\* Variant: the prompt follows whether or not the event was appended.
RecordStartedAnyway(r) ==
  /\ pc[r] = "record_started"
  /\ \/ Appended(r, "invocation_started", {}, None)
     \/ NotAppended(r, "invocation_started", {}, None)
  /\ Goto(r, "prompt")
  /\ UNCHANGED <<local, github, work>>

\* on_started, called between the launch and the prompt.  If it fails, the
\* worker is terminated, which cannot always be proved.
RecordStarted(r) ==
  /\ pc[r] = "record_started"
  /\ \/ /\ Appended(r, "invocation_started", {}, None)
        /\ Goto(r, "prompt")
        /\ UNCHANGED worker
     \/ /\ NotAppended(r, "invocation_started", {}, None)
        /\ \/ Fail(r) /\ worker' = [worker EXCEPT ![r] = "none"]
           \/ ExitUncertain(r) /\ UNCHANGED worker
  /\ UNCHANGED <<local, github, tree, paths, head, pushed>>

\* A worker that exited at once may have left a process to receive it.
SubmitPrompt(r) ==
  /\ pc[r] = "prompt"
  /\ \E w \in {"prompted", "left_behind"} : worker' = [worker EXCEPT ![r] = w]
  /\ Goto(r, "working")
  /\ UNCHANGED <<ledgerVars, local, github, known, tree, paths, head, pushed>>

\* The worker's processes write in the worktree and move its HEAD, at any time
\* while the run still reads them.
WorkerActs(r) ==
  /\ worker[r] \in {"prompted", "left_behind"}
  /\ \/ /\ pc[r] \in ReadsTree
        /\ \E t \in Trees : tree' = [tree EXCEPT ![r] = t]
        /\ UNCHANGED head
     \/ /\ pc[r] \in ReadsTree \cup ReadsHead
        /\ \E t \in Trees \cup {None} : head' = [head EXCEPT ![r] = t]
        /\ UNCHANGED tree
  /\ UNCHANGED <<ledgerVars, local, github, pc, auth, clone, known, worker, paths, pushed, outcome>>

\* The worker exits; what it started may run on.
WorkerExits(r) ==
  /\ worker[r] = "prompted"
  /\ \E w \in {"dead", "left_behind"} : worker' = [worker EXCEPT ![r] = w]
  /\ UNCHANGED <<ledgerVars, local, github, pc, auth, clone, known, tree, paths, head, pushed, outcome>>

\* The worker exited: completed, or a nonzero exit, a structured failure or a
\* usage above the budget ceiling.
InvocationEnds(r) ==
  /\ pc[r] = "working"
  /\ worker[r] # "prompted"
  /\ Goto(r, "diff") \/ Fail(r)
  /\ UNCHANGED <<ledgerVars, local, github, known, work>>

\* _terminate_process_tree: the worker's end is proved or not, and either way
\* processes that left its group, or outlived it, run on.  The executor then
\* waits for the threads that read the output, for as long as any process
\* keeps it open.
Terminate(r, state, category) ==
  LET ended == IF worker[r] = "launched" THEN {"none"} ELSE {"dead", "left_behind"} IN
  \/ \E w \in ended, wait \in {"terminal", "draining"} :
       /\ w = "dead" => wait = "terminal"
       /\ worker' = [worker EXCEPT ![r] = w]
       /\ ExitAfter(r, wait, state, category)
  \/ /\ worker[r] \in {"launched", "prompted"}
     /\ \E wait \in {"terminal", "draining"} :
          ExitAfter(r, wait, "failed", "process_tree_termination_uncertain")
     /\ UNCHANGED worker

\* Variant: the timeout does not stop the worker.
TimeoutLeavesWorker(r) ==
  /\ pc[r] = "working"
  /\ Exit(r, "timed_out", "codex_timed_out")
  /\ UNCHANGED <<ledgerVars, local, github, known, work>>

\* Variant: the wait itself has no timeout.
TimeOutAfterExit(r) ==
  /\ pc[r] = "working"
  /\ worker[r] # "prompted"
  /\ Terminate(r, "timed_out", "codex_timed_out")
  /\ UNCHANGED <<ledgerVars, local, github, known, tree, paths, head, pushed>>

TimeOut(r) ==
  /\ pc[r] = "working"
  /\ Terminate(r, "timed_out", "codex_timed_out")
  /\ UNCHANGED <<ledgerVars, local, github, known, tree, paths, head, pushed>>

\* KeyboardInterrupt, while the runner writes or waits.
Cancel(r) ==
  /\ pc[r] \in {"prompt", "working"}
  /\ Terminate(r, "cancelled", "codex_cancelled")
  /\ UNCHANGED <<ledgerVars, local, github, known, tree, paths, head, pushed>>

\* A pipe is broken, or the output is not read to its end in time.
StreamFails(r) ==
  /\ pc[r] \in {"prompt", "working"}
  /\ Terminate(r, "failed", "step_failed")
  /\ UNCHANGED <<ledgerVars, local, github, known, tree, paths, head, pushed>>

\* The reading threads are done; with processes alive they may never be.
Drain(r) ==
  /\ pc[r] = "draining"
  /\ Goto(r, "terminal")
  /\ UNCHANGED <<ledgerVars, local, github, known, work>>

-----------------------------------------------------------------------------
(***************************************************************************)
(* Inspection and publication.                                             *)
(***************************************************************************)

\* What inspect_diff lets through: HEAD and the branch are as they were, and
\* what is changed is allowed.
Inspected(r) == head[r] = None /\ tree[r] \in Allowed

InspectDiff(r) ==
  /\ pc[r] = "diff"
  /\ IF Inspected(r)
     THEN Goto(r, "validate") /\ paths' = [paths EXCEPT ![r] = PathsOf[tree[r]]]
     ELSE Fail(r) /\ UNCHANGED paths
  /\ UNCHANGED <<ledgerVars, local, github, known, worker, tree, head, pushed>>

\* The validation commands run the worker's code in its worktree, which may
\* leave processes behind as well.
RunValidations(r) ==
  /\ pc[r] = "validate"
  /\ \E t \in Trees : tree' = [tree EXCEPT ![r] = t]
  /\ \E t \in Trees \cup {None} : head' = [head EXCEPT ![r] = t]
  /\ \E w \in {worker[r], "left_behind"} : worker' = [worker EXCEPT ![r] = w]
  /\ Goto(r, "rediff") \/ Fail(r)
  /\ UNCHANGED <<ledgerVars, local, github, known, paths, pushed>>

\* Variant: the second inspection is skipped.
InspectAgainNothing(r) ==
  /\ pc[r] = "rediff"
  /\ Goto(r, "commit")
  /\ UNCHANGED <<ledgerVars, local, github, known, work>>

InspectDiffAgain(r) ==
  /\ pc[r] = "rediff"
  /\ IF Inspected(r) /\ PathsOf[tree[r]] = paths[r] THEN Goto(r, "commit")
     ELSE Fail(r)
  /\ UNCHANGED <<ledgerVars, local, github, known, work>>

\* The changed paths are staged as they now are and committed where HEAD is;
\* anything else among the staged names is refused, ...
CommitChanges(r) ==
  /\ pc[r] = "commit"
  /\ head' = [head EXCEPT ![r] = tree[r]]
  /\ IF head[r] = None /\ PathsOf[tree[r]] = paths[r] THEN Goto(r, "verify_commit")
     ELSE Fail(r)
  /\ UNCHANGED <<ledgerVars, local, github, known, worker, tree, paths, pushed>>

\* ... and then HEAD must be a commit of these paths, and the worktree clean.
VerifyCommit(r) ==
  /\ pc[r] = "verify_commit"
  /\ IF head[r] = tree[r] /\ PathsOf[tree[r]] = paths[r] THEN Goto(r, "remote_gate_again")
     ELSE Fail(r)
  /\ UNCHANGED <<ledgerVars, local, github, known, work>>

\* prepublication_gate
RemoteGateAgain(r) ==
  /\ pc[r] = "remote_gate_again"
  /\ IF remote[Branch(r)] = None THEN Goto(r, "pr_gate_again") ELSE Fail(r)
  /\ UNCHANGED <<ledgerVars, local, github, known, work>>

PrGateAgain(r) ==
  /\ pc[r] = "pr_gate_again"
  /\ IF OpenFor(Branch(r)) = {} THEN Goto(r, "push") ELSE Fail(r)
  /\ UNCHANGED <<ledgerVars, local, github, known, work>>

\* The remote branch is set to what HEAD is now.
Pushes(r) ==
  /\ remote' = [remote EXCEPT ![Branch(r)] = r]
  /\ pushed' = [pushed EXCEPT ![r] = head[r]]

\* Variant: --force without the lease.
PushForced(r) ==
  /\ pc[r] = "push"
  /\ Pushes(r)
  /\ Goto(r, "open_pr")
  /\ UNCHANGED <<ledgerVars, local, prHead, open, known, worker, tree, paths, head>>

\* HEAD is not looked at again before: afterwards the remote must agree with it.
Push(r) ==
  /\ pc[r] = "push"
  /\ remote[Branch(r)] = None
  /\ Pushes(r)
  /\ Goto(r, "open_pr")
  /\ UNCHANGED <<ledgerVars, local, prHead, open, known, worker, tree, paths, head>>

\* The lease is refused, or the command or its verification fails.
PushFails(r) ==
  /\ pc[r] = "push"
  /\ \/ UNCHANGED <<remote, pushed>>
     \/ remote[Branch(r)] = None /\ Pushes(r)
  /\ Fail(r)
  /\ UNCHANGED <<ledgerVars, local, prHead, open, known, worker, tree, paths, head>>

\* GitHub opens a pull request for what the branch points to.
Opened(r, p) ==
  /\ remote[Branch(r)] # None
  /\ OpenFor(Branch(r)) = {}
  /\ prHead[p] = None
  /\ prHead' = [prHead EXCEPT ![p] = remote[Branch(r)]]
  /\ open' = open \cup {p}

CreatePullRequest(r) ==
  /\ pc[r] = "open_pr"
  /\ \E p \in Prs : Opened(r, p) /\ pr' = [pr EXCEPT ![r] = p]
  /\ pc' = [pc EXCEPT ![r] = "record_pr"]
  /\ UNCHANGED <<ledgerVars, local, remote, known, auth, clone, work, exit, result>>

\* The command or its verification fails: the runner forgets the number.
PullRequestFails(r) ==
  /\ pc[r] = "open_pr"
  /\ (\E p \in Prs : Opened(r, p)) \/ UNCHANGED <<prHead, open>>
  /\ Fail(r)
  /\ UNCHANGED <<ledgerVars, local, remote, known, work>>

PrFields == {"branch_identity", "pull_request_identity", "usage_category"}

RecordPr(r) ==
  /\ pc[r] = "record_pr"
  /\ \/ /\ Appended(r, "pr_opened_and_stopped", PrFields, pr[r])
        /\ Return(r, "success", "pr_opened_and_stopped")
     \/ /\ NotAppended(r, "pr_opened_and_stopped", PrFields, pr[r])
        /\ Exit(r, "failed", "publication_audit_storage_uncertain")
  /\ UNCHANGED <<local, github, work>>

\* Any of these steps may fail before it takes effect.
StepFails(r) ==
  /\ pc[r] \in {"diff", "validate", "rediff", "commit", "verify_commit",
                "remote_gate_again", "pr_gate_again"}
  /\ Fail(r)
  /\ UNCHANGED <<ledgerVars, local, github, known, work>>

\* Variant: the terminal result is returned whether or not it was recorded.
RecordExitAnyway(r) ==
  /\ pc[r] = "terminal"
  /\ LET state == exit[r].state IN
     \/ Appended(r, state, ExitFields(r, state), None)
     \/ NotAppended(r, state, ExitFields(r, state), None)
  /\ Return(r, exit[r].state, exit[r].category)
  /\ UNCHANGED <<local, github, work>>

\* _terminal_result
RecordExit(r) ==
  /\ pc[r] = "terminal"
  /\ LET state == exit[r].state IN
     \/ /\ Appended(r, state, ExitFields(r, state), None)
        /\ Return(r, state, exit[r].category)
     \/ /\ NotAppended(r, state, ExitFields(r, state), None)
        /\ Return(r, "failed", "lifecycle_storage_uncertain")
  /\ UNCHANGED <<local, github, work>>

-----------------------------------------------------------------------------
(***************************************************************************)
(* The world around a run.                                                 *)
(***************************************************************************)

\* The runner dies, or an exception that is no Exception leaves run: whatever
\* it started stays as it is.
Crash(r) ==
  /\ r \in Active
  /\ pc' = [pc EXCEPT ![r] = "crashed"]
  /\ UNCHANGED <<ledgerVars, local, github, auth, clone, known, work, outcome>>

\* Between runs, the operator removes what ended runs left behind.
OperatorDeletesLocal(c, b) ==
  /\ local[c][b] \in Runs \ Active
  /\ local' = [local EXCEPT ![c][b] = None]
  /\ UNCHANGED <<ledgerVars, github, pc, auth, clone, known, work, outcome>>

OperatorDeletesRemote(b) ==
  /\ remote[b] \in Runs \ Active
  /\ remote' = [remote EXCEPT ![b] = None]
  /\ open' = open \ OpenFor(b)
  /\ UNCHANGED <<ledgerVars, local, prHead, pc, auth, clone, known, work, outcome>>

RunStep(r) ==
  \/ GateFails(r) \/ LocalGate(r) \/ RemoteGate(r) \/ PrGate(r)
  \/ StartProbe(r) \/ EndProbe(r)
  \/ ClaimCreated(r) \/ ClaimConflict(r) \/ ClaimUnavailable(r) \/ ClaimUncertain(r)
  \/ CreateWorktree(r) \/ WorktreeFails(r) \/ RecordStarting(r)
  \/ Launch(r) \/ RecordStarted(r) \/ SubmitPrompt(r)
  \/ InvocationEnds(r) \/ TimeOut(r) \/ Drain(r)
  \/ InspectDiff(r) \/ RunValidations(r) \/ InspectDiffAgain(r)
  \/ CommitChanges(r) \/ VerifyCommit(r)
  \/ RemoteGateAgain(r) \/ PrGateAgain(r) \/ Push(r) \/ PushFails(r)
  \/ CreatePullRequest(r) \/ PullRequestFails(r) \/ RecordPr(r)
  \/ StepFails(r) \/ RecordExit(r)

Next ==
  \/ \E r \in Runs :
       \/ Start(r) \/ RunStep(r) \/ Crash(r)
       \/ WorkerActs(r) \/ WorkerExits(r) \/ Cancel(r) \/ StreamFails(r)
  \/ \E b \in Branches : OperatorDeletesRemote(b)
  \/ \E c \in Clones, b \in Branches : OperatorDeletesLocal(c, b)

Spec == Init /\ [][Next]_vars

\* Every call the runner makes returns, because each command has a timeout and
\* so has the wait for the worker, with two exceptions, in the probe and in the
\* invocation alike: the prompt is written without a timeout, and output is
\* drained for as long as a process keeps it open.  Nothing is assumed of the
\* worker or the operator.
Fairness ==
  \A r \in Runs :
    /\ WF_vars(RunStep(r) /\ pc[r] \notin {"probing", "prompt", "draining"})
    /\ WF_vars(Drain(r) /\ worker[r] = "dead")

FairSpec == Spec /\ Fairness

-----------------------------------------------------------------------------
(***************************************************************************)
(* Properties.                                                             *)
(***************************************************************************)

Prompted(r) == worker[r] \in {"prompted", "left_behind", "dead"}

Recorded(r, state) == \E i \in DOMAIN log[r] : log[r][i].next = state

\* One authorization starts the worker on its task at most once, however many
\* runs race with it, whatever the store answers and whoever crashes
\* (SupervisedCodexPilotRunner.run).
OnePromptPerAuthorization ==
  \A r, s \in Runs :
    r # s /\ Prompted(r) /\ Prompted(s) => AuthId[auth[r]] # AuthId[auth[s]]

\* A worker has its prompt only if the claim and the start of the invocation
\* are already in the store under this run's package (on_started).
PromptsAreAudited ==
  \A r \in Runs :
    Prompted(r) => owner[r] = auth[r] /\ Recorded(r, "invocation_started")

\* What a run returns about its attempt is what the store will say for ever:
\* success names the recorded pull request, and any other status than
\* "blocked" is the last recorded state, unless the run says that it does not
\* know (_terminal_result).
ResultsAreDurable ==
  \A r \in Runs :
    /\ result[r].status = "success" =>
         /\ Latest(log[r]).next = "pr_opened_and_stopped"
         /\ Latest(log[r]).pr = pr[r]
    /\ /\ result[r].status \in Terminal
       /\ result[r].category # "lifecycle_storage_uncertain"
       => Latest(log[r]).next = result[r].status

\* A blocked run leaves its authorization unconsumed, unless it says that it
\* does not know (SupervisedCodexPilotRunner.run).
BlockedRunsConsumeNothing ==
  \A r \in Runs :
    /\ result[r].status = "blocked"
    /\ result[r].category # "claim_durability_uncertain"
    => owner[r] = None

\* A run opens a pull request for its own commit, never for that of another
\* run which published the same branch from another clone
\* (push_authorized_branch, create_pull_request).
PullRequestIsOwn ==
  \A r \in Runs : pr[r] # None => prHead[pr[r]] = r

\* What is published passed the second inspection and changes exactly the paths
\* that the first one found, whatever the worker and the validation commands did
\* in between, unless they left processes behind: the commit is not looked at
\* again before it is pushed, so that such a process may replace it
\* (inspect_diff, commit_authorized_changes, push_authorized_branch).
PublishedWasInspected ==
  \A r \in Runs :
    (\E b \in Branches : remote[b] = r) =>
      \/ worker[r] = "left_behind"
      \/ pushed[r] \in Allowed /\ PathsOf[pushed[r]] = paths[r]

\* While the worker, or the probe's, is still at work, nobody is told otherwise:
\* its attempt is not recorded as cancelled, timed out or aborted, and a run that
\* returns says that the worker's end, or what is recorded of it, is uncertain
\* (_terminate_process_tree, _terminal_result).
TerminalMeansStopped ==
  \A r \in Runs :
    worker[r] \in {"probing", "launched", "prompted"} =>
      /\ log[r] # <<>> => Latest(log[r]).next \notin Terminal \ {"failed"}
      /\ result[r].status # "none" =>
           result[r].category \in {"process_tree_termination_uncertain",
                                   "lifecycle_storage_uncertain"}

\* Every run comes to an end, but for the waits without a timeout: the prompt's
\* write and the drain, each in the probe or in the invocation.
EveryRunReports ==
  \A r \in Runs :
    []<>(\/ pc[r] \in {"idle", "probing", "prompt", "done", "crashed"}
         \/ pc[r] = "draining" /\ worker[r] # "dead")

\* A run that says that it was cancelled, or timed out, left nothing running
\* (docs: "Cancellation stops further work immediately").
CancellationStopsWork ==
  \A r \in Runs :
    result[r].status \in {"cancelled", "timed_out"} => worker[r] \in {"none", "dead"}

\* A run that knows the head of its attempt's log never asks for an event that
\* the store's contract refuses, so only a lost answer or a failure of the
\* store can keep its state from being recorded (_terminalize).
RequestsAreLegal ==
  \A r \in Runs :
    known[r] = Len(log[r]) =>
      /\ pc[r] = "record_starting" => Appendable(r, "invocation_starting", {}, None)
      /\ pc[r] = "record_started" => Appendable(r, "invocation_started", {}, None)
      /\ pc[r] = "record_pr" =>
           Appendable(r, "pr_opened_and_stopped", PrFields, pr[r])
      /\ pc[r] = "terminal" =>
           Appendable(r, exit[r].state, ExitFields(r, exit[r].state), None)

\* The audit record of an attempt holds the identity of the created pull
\* request when the runner knows it (docs: "created PR identity when known").
KnownPrIsRecorded ==
  \A r \in Runs :
    pc[r] = "done" /\ pr[r] # None /\ Latest(log[r]).next \in Terminal =>
      OpenedPr(log[r]) = pr[r]

===============================================================================
