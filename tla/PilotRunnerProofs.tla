--------------------------- MODULE PilotRunnerProofs --------------------------
(***************************************************************************)
(* The supervised pilot runner, for any number of runs, clones, packages   *)
(* and branches: the safety properties of PilotRunner, from one inductive  *)
(* invariant.  RunOK relates how far a run has got to its claim, its log,  *)
(* its worker and its worktree, and is the run's own affair: no step of    *)
(* another run touches what it speaks of.  The rest is about what runs     *)
(* share, the ledger and GitHub.  SInv adds what a run's states say of its *)
(* worker, and KInv what the run knows of its log.                         *)
(* At the end the run is set against its neighbours: what it does to the   *)
(* store is what the ledger allows, and what it believes of its worker is  *)
(* what the contract says.                                                 *)
(***************************************************************************)
EXTENDS PilotRunner, AuditChainProofs

Places == {"idle", "done", "crashed"} \cup Preclaim \cup Steps

\* Between the end of the worker and the record of the pull request.
Inspecting ==
  {"diff", "validate", "rediff", "commit", "verify_commit", "remote_gate_again",
   "pr_gate_again", "push", "open_pr", "record_pr"}

\* After the local commit.
Publishing ==
  {"verify_commit", "remote_gate_again", "pr_gate_again", "push", "open_pr", "record_pr"}

Workers == {"none", "probing", "launched", "prompted", "left_behind", "dead"}

Uncertain == "process_tree_termination_uncertain"

LedgerTyped ==
  /\ owner \in [Attempts -> Auths \cup {None}]
  /\ log \in [Attempts -> Seq(Event)]

GithubTyped ==
  /\ remote \in [Branches -> Runs \cup {None}]
  /\ prHead \in [Prs -> Runs \cup {None}]

IsOver(f) == f = [r \in Runs |-> f[r]]

RunsTyped ==
  /\ pc \in [Runs -> Places]
  /\ auth \in [Runs -> Auths \cup {None}]
  /\ worker \in [Runs -> Workers]
  /\ pr \in [Runs -> Prs \cup {None}]
  /\ IsOver(tree) /\ IsOver(paths) /\ IsOver(head) /\ IsOver(pushed)
  /\ IsOver(exit) /\ IsOver(result)

\* A run that has not claimed has no events; one that works has claimed.
ClaimOK(r) ==
  /\ pc[r] = "idle" \/ pc[r] \in Preclaim =>
       owner[r] = None /\ log[r] = <<>> /\ pr[r] = None
  /\ pc[r] # "idle" => auth[r] \in Auths
  /\ pc[r] \in Steps => owner[r] = auth[r] /\ log[r] # <<>>
  /\ pc[r] # "done" /\ log[r] # <<>> => Latest(log[r]).next \notin Terminal

\* What the worker is at each call.
WorkerOK(r) ==
  /\ pc[r] \in {"idle", "worktree", "record_starting", "launch"}
                 \cup (Preclaim \ {"probing"}) => worker[r] = "none"
  /\ pc[r] = "probing" => worker[r] = "probing"
  /\ pc[r] \in {"record_started", "prompt"} => worker[r] = "launched"
  /\ pc[r] = "working" => Prompted(r)
  /\ pc[r] \in Inspecting => worker[r] \in {"dead", "left_behind"}
  /\ worker[r] \in {"launched", "prompted"} /\ pc[r] \in {"draining", "terminal", "done"}
       => exit[r].category = Uncertain

\* The start of the invocation is recorded before the prompt.
AuditOK(r) ==
  /\ pc[r] \in {"prompt", "working"} \cup Inspecting =>
       Recorded(r, "invocation_started")
  /\ Prompted(r) => owner[r] = auth[r] /\ Recorded(r, "invocation_started")

\* What a run is about to record, and what it returned.
ResultOK(r) ==
  /\ pc[r] # "done" => result[r] = NoResult
  /\ pc[r] \in {"draining", "terminal"} => exit[r].state \in ExitStates
  /\ result[r].status = "blocked" /\ result[r].category # "claim_durability_uncertain"
       => owner[r] = None
  /\ result[r].status = "success" =>
       /\ Latest(log[r]).next = "pr_opened_and_stopped"
       /\ Latest(log[r]).pr = pr[r]
  /\ result[r].status \in Terminal /\ result[r].category # "lifecycle_storage_uncertain"
       => Latest(log[r]).next = result[r].status

\* A tree that passed inspection and changes the paths found first, unless
\* something was left behind to change it.
PassedInspection(r, t) ==
  \/ worker[r] = "left_behind"
  \/ t \in Allowed /\ PathsOf[t] = paths[r]

TreeOK(r) ==
  /\ pc[r] = "commit" => PassedInspection(r, tree[r])
  /\ pc[r] \in Publishing => PassedInspection(r, head[r])

RunOK(r) == ClaimOK(r) /\ WorkerOK(r) /\ AuditOK(r) /\ ResultOK(r) /\ TreeOK(r)

\* No two claims are of one authorization.
LedgerOK ==
  \A a, b \in Claimed : AuthId[owner[a]] = AuthId[owner[b]] => a = b

\* A branch of the remote holds the commit of a run that has published it,
\* which it keeps holding until the run has opened its pull request.
Published == {"open_pr", "record_pr", "terminal", "done", "crashed"}

GithubOK ==
  /\ \A r \in Runs : pc[r] = "open_pr" => remote[Branch(r)] = r
  /\ \A r \in Runs, b \in Branches :
       remote[b] = r => pc[r] \in Published /\ PassedInspection(r, pushed[r])
  /\ PullRequestIsOwn

PInv ==
  /\ LedgerTyped /\ GithubTyped /\ RunsTyped
  /\ \A r \in Runs : RunOK(r)
  /\ LedgerOK /\ GithubOK

LEMMA InitPInv == Init => PInv
<1> SUFFICES ASSUME Init PROVE PInv
  OBVIOUS
<1> USE RunnerAssumption, AuthAssumption DEF Init, LedgerInit, Runs
<1>1. LedgerTyped /\ GithubTyped /\ RunsTyped
  BY DEF LedgerTyped, GithubTyped, RunsTyped, IsOver, Places, Workers
<1>2. ASSUME NEW r \in Runs PROVE RunOK(r)
  <2>1. ClaimOK(r) /\ WorkerOK(r) /\ AuditOK(r) /\ TreeOK(r)
    BY <1>2 DEF ClaimOK, WorkerOK, AuditOK, TreeOK, Prompted, Preclaim, Steps,
                Inspecting, Publishing
  <2>2. ResultOK(r)
    BY <1>2 DEF ResultOK, NoResult, NoExit, Terminal
  <2> QED
    BY <2>1, <2>2 DEF RunOK
<1>3. LedgerOK /\ GithubOK
  BY DEF LedgerOK, Claimed, GithubOK, PullRequestIsOwn
<1> QED
  BY <1>1, <1>2, <1>3 DEF PInv

-----------------------------------------------------------------------------
(***************************************************************************)
(* Steps before the claim.                                                 *)
(***************************************************************************)

\* What the steps of a run have in common: they leave the other runs alone.
Alone(r) ==
  /\ \A s \in Runs \ {r} :
       /\ pc'[s] = pc[s] /\ auth'[s] = auth[s] /\ worker'[s] = worker[s]
       /\ pr'[s] = pr[s] /\ tree'[s] = tree[s] /\ paths'[s] = paths[s]
       /\ head'[s] = head[s] /\ pushed'[s] = pushed[s]
       /\ exit'[s] = exit[s] /\ result'[s] = result[s]
       /\ owner'[s] = owner[s] /\ log'[s] = log[s]
  /\ LedgerTyped' /\ RunsTyped'

\* The ways a step moves on.
LEMMA Moves ==
  ASSUME RunsTyped, NEW r \in Runs
  PROVE  /\ \A to \in Places : Goto(r, to) =>
              /\ pc' \in [Runs -> Places] /\ pc'[r] = to
              /\ \A s \in Runs \ {r} : pc'[s] = pc[s]
              /\ UNCHANGED <<auth, pr, exit, result>>
         /\ \A status, category :
              Return(r, status, category) =>
                /\ pc' \in [Runs -> Places] /\ pc'[r] = "done"
                /\ \A s \in Runs \ {r} : pc'[s] = pc[s] /\ result'[s] = result[s]
                /\ result'[r] = [status |-> status, category |-> category]
                /\ IsOver(result)'
                /\ UNCHANGED <<auth, pr, exit>>
         /\ \A wait \in Places : \A state, category :
              ExitAfter(r, wait, state, category) =>
                /\ pc' \in [Runs -> Places] /\ pc'[r] = wait
                /\ \A s \in Runs \ {r} : pc'[s] = pc[s] /\ exit'[s] = exit[s]
                /\ exit'[r] = [state |-> state, category |-> category]
                /\ IsOver(exit)'
                /\ UNCHANGED <<auth, pr, result>>
<1> USE DEF RunsTyped, IsOver
<1>1. \A to \in Places : Goto(r, to) =>
        /\ pc' \in [Runs -> Places] /\ pc'[r] = to
        /\ \A s \in Runs \ {r} : pc'[s] = pc[s]
        /\ UNCHANGED <<auth, pr, exit, result>>
  BY DEF Goto
<1>2. ASSUME NEW status, NEW category, Return(r, status, category)
      PROVE  /\ pc' \in [Runs -> Places] /\ pc'[r] = "done"
             /\ \A s \in Runs \ {r} : pc'[s] = pc[s] /\ result'[s] = result[s]
             /\ result'[r] = [status |-> status, category |-> category]
             /\ IsOver(result)'
             /\ UNCHANGED <<auth, pr, exit>>
  BY <1>2 DEF Return, Places
<1>3. ASSUME NEW wait \in Places, NEW state, NEW category,
             ExitAfter(r, wait, state, category)
      PROVE  /\ pc' \in [Runs -> Places] /\ pc'[r] = wait
             /\ \A s \in Runs \ {r} : pc'[s] = pc[s] /\ exit'[s] = exit[s]
             /\ exit'[r] = [state |-> state, category |-> category]
             /\ IsOver(exit)'
             /\ UNCHANGED <<auth, pr, result>>
  BY <1>3 DEF ExitAfter
<1> QED
  BY <1>1, <1>2, <1>3

\* The other runs stay as they are.
LEMMA OthersStay ==
  ASSUME NEW r \in Runs, NEW s \in Runs \ {r}, RunOK(s), Alone(r)
  PROVE  RunOK(s)'
<1> USE DEF Alone, RunOK
<1>1. ClaimOK(s)' /\ WorkerOK(s)'
  BY DEF ClaimOK, WorkerOK, Prompted, Latest
<1>2. AuditOK(s)' /\ TreeOK(s)'
  BY DEF AuditOK, TreeOK, Prompted, Recorded, PassedInspection
<1>3. ResultOK(s)'
  BY DEF ResultOK, Latest
<1> QED
  BY <1>1, <1>2, <1>3

\* A step that publishes nothing, and changes nothing that is published.
Quiet(r) ==
  /\ UNCHANGED <<remote, prHead>> /\ pr'[r] = pr[r]
  /\ pc'[r] = "open_pr" => pc[r] = "open_pr" /\ auth'[r] = auth[r]
  /\ pc[r] \in Published =>
       /\ pc'[r] \in Published /\ pushed'[r] = pushed[r] /\ paths'[r] = paths[r]
       /\ worker[r] = "left_behind" => worker'[r] = "left_behind"

LEMMA QuietKeepsGithub ==
  ASSUME GithubTyped, GithubOK, NEW r \in Runs, Alone(r), Quiet(r)
  PROVE  GithubTyped' /\ GithubOK'
<1> USE DEF Alone, Quiet
<1>1. GithubTyped'
  BY DEF GithubTyped
<1>2. ASSUME NEW s \in Runs, pc'[s] = "open_pr"
      PROVE  (remote[Branch(s)] = s)'
  BY <1>2 DEF GithubOK, Branch
<1>3. ASSUME NEW s \in Runs, NEW b \in Branches, remote'[b] = s
      PROVE  pc'[s] \in Published /\ PassedInspection(s, pushed[s])'
  <2>1. pc[s] \in Published /\ PassedInspection(s, pushed[s])
    BY <1>3 DEF GithubOK
  <2> QED
    BY <2>1 DEF PassedInspection
<1>4. PullRequestIsOwn'
  BY DEF GithubOK, PullRequestIsOwn
<1> QED
  BY <1>1, <1>2, <1>3, <1>4 DEF GithubOK

\* The gates and the probe only move on, or block the run.
LEMMA PreclaimSteps ==
  ASSUME PInv, NEW r \in Runs,
         \/ Start(r) \/ GateFails(r) \/ LocalGate(r) \/ RemoteGate(r) \/ PrGate(r)
         \/ StartProbe(r) \/ EndProbe(r) \/ ClaimConflict(r) \/ ClaimUnavailable(r)
  PROVE  Alone(r) /\ RunOK(r)' /\ Quiet(r) /\ UNCHANGED owner
<1>0. LedgerTyped /\ RunsTyped /\ RunOK(r)
  BY DEF PInv
<1>1. /\ pc[r] = "idle" \/ pc[r] \in Preclaim
      /\ UNCHANGED <<owner, log, tree, paths, head, pushed, remote, prHead>>
      /\ \A s \in Runs \ {r} : worker'[s] = worker[s]
      /\ worker' \in [Runs -> Workers]
  BY <1>0 DEF Start, GateFails, LocalGate, RemoteGate, PrGate, StartProbe, EndProbe,
     ClaimConflict, ClaimUnavailable, Preclaim, ledgerVars, github, work, RunsTyped,
     Workers
<1>2. owner[r] = None /\ log[r] = <<>> /\ pr[r] = None /\ result[r] = NoResult
  BY <1>0, <1>1 DEF RunOK, ClaimOK, ResultOK, Preclaim
<1>3. CASE Start(r)
  <2>1. /\ pc[r] = "idle" /\ pc' = [pc EXCEPT ![r] = "local_gate"]
        /\ \E u \in Auths : auth' = [auth EXCEPT ![r] = u]
        /\ UNCHANGED <<worker, pr, exit, result>>
    BY <1>3 DEF Start, work, outcome
  <2>2. Alone(r)
    BY <1>0, <1>1, <2>1 DEF Alone, LedgerTyped, RunsTyped, IsOver, Places, Preclaim
  <2>3. auth'[r] \in Auths
    BY <1>0, <2>1 DEF RunsTyped
  <2>4. ClaimOK(r)' /\ WorkerOK(r)'
    BY <1>0, <1>1, <1>2, <2>1, <2>3 DEF RunsTyped, RunOK, ClaimOK, WorkerOK, Prompted,
       Preclaim, Steps, Inspecting
  <2>5. AuditOK(r)' /\ ResultOK(r)' /\ TreeOK(r)'
    BY <1>0, <1>1, <1>2, <2>1, <2>4 DEF RunsTyped, RunOK, ClaimOK, WorkerOK, AuditOK,
       ResultOK, TreeOK, Prompted, Preclaim, Steps, Inspecting, Publishing, NoResult,
       Terminal
  <2> QED
    BY <1>1, <2>1, <2>2, <2>4, <2>5, <1>0 DEF RunOK, Quiet, Published, RunsTyped
<1>4. ASSUME NEW to \in Preclaim, Goto(r, to), pc[r] # "idle",
             worker'[r] = IF to = "probing" THEN "probing" ELSE "none"
      PROVE  Alone(r) /\ RunOK(r)' /\ Quiet(r)
  <2>1. /\ pc' \in [Runs -> Places] /\ pc'[r] = to
        /\ \A s \in Runs \ {r} : pc'[s] = pc[s]
        /\ UNCHANGED <<auth, pr, exit, result>>
    BY <1>0, <1>4, Moves DEF Places
  <2>2. Alone(r)
    BY <1>0, <1>1, <2>1 DEF Alone, LedgerTyped, RunsTyped, IsOver
  <2>3. ClaimOK(r)' /\ WorkerOK(r)'
    BY <1>0, <1>1, <1>2, <1>4, <2>1 DEF RunOK, ClaimOK, WorkerOK, Prompted,
       Preclaim, Steps, Inspecting
  <2>4. AuditOK(r)' /\ ResultOK(r)' /\ TreeOK(r)'
    BY <1>0, <1>1, <1>2, <1>4, <2>1 DEF RunOK, AuditOK, ResultOK, TreeOK, Prompted,
       Preclaim, Inspecting, Publishing, NoResult, Terminal
  <2> QED
    BY <1>1, <2>1, <2>2, <2>3, <2>4 DEF RunOK, Quiet, Published, Preclaim
<1>5. ASSUME NEW category, Block(r, category), pc[r] # "idle",
             worker'[r] \in {worker[r], "none"}
      PROVE  Alone(r) /\ RunOK(r)' /\ Quiet(r)
  <2>1. /\ pc' \in [Runs -> Places] /\ pc'[r] = "done"
        /\ \A s \in Runs \ {r} : pc'[s] = pc[s] /\ result'[s] = result[s]
        /\ result'[r] = [status |-> "blocked", category |-> category]
        /\ IsOver(result)'
        /\ UNCHANGED <<auth, pr, exit>>
    <3>1. Return(r, "blocked", category)
      BY <1>5 DEF Block, Return
    <3> QED
      BY <1>0, <3>1, Moves
  <2>2. Alone(r)
    BY <1>0, <1>1, <2>1 DEF Alone, LedgerTyped, RunsTyped, IsOver
  <2>3. worker'[r] \in {"none", "probing"}
    BY <1>0, <1>1, <1>5 DEF RunOK, WorkerOK
  <2>4. ClaimOK(r)' /\ WorkerOK(r)'
    BY <1>0, <1>1, <1>2, <1>5, <2>1, <2>3 DEF RunOK, ClaimOK, WorkerOK, Prompted,
       Preclaim, Steps, Inspecting
  <2>5. AuditOK(r)' /\ ResultOK(r)' /\ TreeOK(r)'
    BY <1>0, <1>1, <1>2, <2>1, <2>3 DEF RunOK, AuditOK, ResultOK, TreeOK, Prompted,
       Preclaim, Inspecting, Publishing, Terminal
  <2> QED
    BY <1>1, <2>1, <2>2, <2>4, <2>5 DEF RunOK, Quiet, Published, Preclaim
<1>6. pc[r] \in Preclaim \ {"probing"} => worker[r] = "none"
  BY <1>0 DEF RunOK, WorkerOK
<1>7. CASE \/ GateFails(r) \/ LocalGate(r) \/ RemoteGate(r) \/ PrGate(r)
           \/ ClaimConflict(r) \/ ClaimUnavailable(r)
  BY <1>1, <1>4, <1>5, <1>6, <1>7 DEF GateFails, LocalGate, RemoteGate, PrGate,
     ClaimConflict, ClaimUnavailable, work, Preclaim
<1>8. CASE StartProbe(r)
  BY <1>0, <1>1, <1>4, <1>8 DEF StartProbe, Preclaim, RunsTyped
<1>9. CASE EndProbe(r)
  BY <1>0, <1>1, <1>4, <1>5, <1>9 DEF EndProbe, Preclaim, RunsTyped
<1> QED
  BY <1>1, <1>3, <1>7, <1>8, <1>9

\* A run claims for itself only, and nobody holds what it claims.
LEMMA ClaimTakes ==
  ASSUME LedgerTyped, LedgerOK, NEW r \in Runs, owner[r] = None, auth[r] \in Auths,
         Claim(r, auth[r])
  PROVE  /\ LedgerTyped' /\ LedgerOK'
         /\ owner'[r] = auth[r] /\ log'[r] = <<FirstEvent>>
         /\ \A s \in Runs \ {r} : owner'[s] = owner[s] /\ log'[s] = log[s]
<1> USE AuthAssumption DEF LedgerTyped, Claim, Runs
<1>1. FirstEvent \in Event
  BY DEF FirstEvent, Event, States, Working
<1>2. LedgerTyped'
  BY <1>1
<1>3. LedgerOK'
  BY DEF LedgerOK, Claimed
<1> QED
  BY <1>2, <1>3

\* The claim's COMMIT succeeds, or is not confirmed.
LEMMA ClaimSteps ==
  ASSUME PInv, NEW r \in Runs, ClaimCreated(r) \/ ClaimUncertain(r)
  PROVE  Alone(r) /\ RunOK(r)' /\ Quiet(r) /\ LedgerOK'
<1>0. LedgerTyped /\ RunsTyped /\ RunOK(r) /\ LedgerOK
  BY DEF PInv
<1>1. /\ pc[r] = "claim" /\ UNCHANGED <<worker, tree, paths, head, pushed, remote, prHead>>
      /\ Claim(r, auth[r]) \/ UNCHANGED <<owner, log>>
  BY DEF ClaimCreated, ClaimUncertain, work, github, ledgerVars
<1>2. /\ owner[r] = None /\ log[r] = <<>> /\ pr[r] = None /\ result[r] = NoResult
      /\ auth[r] \in Auths /\ worker[r] = "none"
  BY <1>0, <1>1 DEF RunOK, ClaimOK, ResultOK, WorkerOK, Preclaim
<1>3. /\ LedgerTyped' /\ LedgerOK'
      /\ \A s \in Runs \ {r} : owner'[s] = owner[s] /\ log'[s] = log[s]
      /\ \/ owner'[r] = None /\ log'[r] = <<>>
         \/ owner'[r] = auth[r] /\ log'[r] = <<FirstEvent>>
  <2>1. CASE Claim(r, auth[r])
    BY <1>0, <1>2, <2>1, ClaimTakes
  <2>2. CASE UNCHANGED <<owner, log>>
    BY <1>0, <1>2, <2>2 DEF LedgerTyped, LedgerOK, Claimed
  <2> QED
    BY <1>1, <2>1, <2>2
<1>4. <<FirstEvent>> # <<>> /\ Latest(<<FirstEvent>>).next \notin Terminal
  BY DEF Latest, FirstEvent, Terminal
<1>5. CASE ClaimCreated(r)
  <2>1. owner'[r] = auth[r] /\ log'[r] = <<FirstEvent>>
    BY <1>0, <1>2, <1>5, ClaimTakes DEF ClaimCreated
  <2>2. /\ pc' \in [Runs -> Places] /\ pc'[r] = "worktree"
        /\ \A s \in Runs \ {r} : pc'[s] = pc[s]
        /\ UNCHANGED <<auth, pr, exit, result>>
    BY <1>0, <1>5, Moves DEF ClaimCreated, Places, Steps
  <2>3. Alone(r)
    BY <1>0, <1>1, <1>3, <2>2 DEF Alone, RunsTyped, IsOver
  <2>4. ClaimOK(r)' /\ WorkerOK(r)'
    BY <1>1, <1>2, <1>4, <2>1, <2>2 DEF ClaimOK, WorkerOK, Prompted, Preclaim, Steps,
       Inspecting, Latest
  <2>5. AuditOK(r)' /\ ResultOK(r)' /\ TreeOK(r)'
    BY <1>1, <1>2, <2>2 DEF AuditOK, ResultOK, TreeOK, Prompted, Inspecting,
       Publishing, NoResult, Terminal
  <2> QED
    BY <1>1, <1>3, <2>2, <2>3, <2>4, <2>5 DEF RunOK, Quiet, Published
<1>6. CASE ClaimUncertain(r)
  <2>1. /\ pc' \in [Runs -> Places] /\ pc'[r] = "done"
        /\ \A s \in Runs \ {r} : pc'[s] = pc[s] /\ result'[s] = result[s]
        /\ result'[r] = [status |-> "blocked",
                         category |-> "claim_durability_uncertain"]
        /\ IsOver(result)'
        /\ UNCHANGED <<auth, pr, exit>>
    <3>1. Return(r, "blocked", "claim_durability_uncertain")
      BY <1>6 DEF ClaimUncertain, Block, Return
    <3> QED
      BY <1>0, <3>1, Moves
  <2>2. Alone(r)
    BY <1>0, <1>1, <1>3, <2>1 DEF Alone, RunsTyped, IsOver
  <2>3. ClaimOK(r)' /\ WorkerOK(r)'
    BY <1>1, <1>2, <2>1 DEF ClaimOK, WorkerOK, Prompted, Preclaim, Steps, Inspecting
  <2>4. AuditOK(r)' /\ ResultOK(r)' /\ TreeOK(r)'
    BY <1>1, <1>2, <2>1 DEF AuditOK, ResultOK, TreeOK, Prompted, Inspecting,
       Publishing, Terminal
  <2> QED
    BY <1>1, <1>3, <2>1, <2>2, <2>3, <2>4 DEF RunOK, Quiet, Published
<1> QED
  BY <1>5, <1>6

-----------------------------------------------------------------------------
(***************************************************************************)
(* The invocation and the inspection.                                      *)
(***************************************************************************)

\* A step of a claimed run that records and publishes nothing: what remains to
\* be shown of it.
LEMMA WorkStep ==
  ASSUME PInv, NEW r \in Runs, pc[r] \in Steps \ Published, pc'[r] \in Steps,
         pc'[r] # "open_pr" /\ pc'[r] # "record_pr",
         UNCHANGED <<owner, log, auth, pr, result, pushed, remote, prHead>>,
         RunsTyped',
         \A s \in Runs \ {r} :
           /\ pc'[s] = pc[s] /\ worker'[s] = worker[s] /\ tree'[s] = tree[s]
           /\ paths'[s] = paths[s] /\ head'[s] = head[s] /\ exit'[s] = exit[s],
         WorkerOK(r)', TreeOK(r)',
         Prompted(r)' \/ pc'[r] \in {"prompt", "working"} \cup Inspecting =>
           Recorded(r, "invocation_started"),
         pc'[r] \in {"draining", "terminal"} => exit'[r].state \in ExitStates
  PROVE  Alone(r) /\ RunOK(r)' /\ Quiet(r) /\ UNCHANGED owner
<1>1. LedgerTyped /\ RunOK(r)
  BY DEF PInv
<1>2. pc[r] # "done" /\ pc'[r] # "done" /\ pc[r] \notin Preclaim /\ pc'[r] \notin Preclaim
      /\ pc'[r] # "idle"
  BY DEF Steps, Preclaim
<1>3. Alone(r)
  BY <1>1 DEF Alone, LedgerTyped
<1>4. ClaimOK(r)'
  BY <1>1, <1>2 DEF RunOK, ClaimOK, Latest
<1>5. AuditOK(r)'
  BY <1>1 DEF RunOK, AuditOK, ClaimOK, Recorded, Prompted
<1>6. ResultOK(r)'
  BY <1>1, <1>2 DEF RunOK, ResultOK, Latest
<1>7. Quiet(r)
  BY DEF Quiet
<1> QED
  BY <1>3, <1>4, <1>5, <1>6, <1>7 DEF RunOK

\* Up to the launch there is no worker.
LEMMA LaunchSteps ==
  ASSUME PInv, NEW r \in Runs, CreateWorktree(r) \/ WorktreeFails(r) \/ Launch(r)
  PROVE  Alone(r) /\ RunOK(r)' /\ Quiet(r) /\ UNCHANGED owner
<1>0. RunsTyped /\ RunOK(r)
  BY DEF PInv
<1>1. /\ pc[r] \in {"worktree", "launch"}
      /\ UNCHANGED <<owner, log, tree, paths, head, pushed, remote, prHead>>
  BY DEF CreateWorktree, WorktreeFails, Launch, ledgerVars, github, work
<1>2. worker[r] = "none"
  BY <1>0, <1>1 DEF RunOK, WorkerOK
<1>3. CASE Goto(r, "record_starting") /\ UNCHANGED worker
  <2>1. /\ pc' \in [Runs -> Places] /\ pc'[r] = "record_starting"
        /\ \A s \in Runs \ {r} : pc'[s] = pc[s]
        /\ UNCHANGED <<auth, pr, exit, result>>
    BY <1>0, <1>3, Moves DEF Places, Steps
  <2>2. RunsTyped' /\ WorkerOK(r)' /\ TreeOK(r)'
    BY <1>0, <1>1, <1>2, <1>3, <2>1 DEF RunsTyped, IsOver, WorkerOK, TreeOK, Prompted,
       Preclaim, Inspecting, Publishing
  <2> QED
    BY <1>1, <1>2, <1>3, <2>1, <2>2, WorkStep DEF Steps, Published, Inspecting, Prompted
<1>4. CASE Fail(r) /\ UNCHANGED worker
  <2>1. /\ pc' \in [Runs -> Places] /\ pc'[r] = "terminal"
        /\ \A s \in Runs \ {r} : pc'[s] = pc[s] /\ exit'[s] = exit[s]
        /\ exit'[r] = [state |-> "failed", category |-> "step_failed"]
        /\ IsOver(exit)'
        /\ UNCHANGED <<auth, pr, result>>
    BY <1>0, <1>4, Moves DEF Fail, Exit, Places, Steps
  <2>2. RunsTyped' /\ WorkerOK(r)' /\ TreeOK(r)'
    BY <1>0, <1>1, <1>2, <1>4, <2>1 DEF RunsTyped, IsOver, WorkerOK, TreeOK, Prompted,
       Preclaim, Inspecting, Publishing
  <2> QED
    BY <1>1, <1>2, <1>4, <2>1, <2>2, WorkStep DEF Steps, Published, Inspecting, Prompted,
       ExitStates
<1>5. CASE Goto(r, "record_started") /\ worker' = [worker EXCEPT ![r] = "launched"]
  <2>1. /\ pc' \in [Runs -> Places] /\ pc'[r] = "record_started"
        /\ \A s \in Runs \ {r} : pc'[s] = pc[s]
        /\ UNCHANGED <<auth, pr, exit, result>>
    BY <1>0, <1>5, Moves DEF Places, Steps
  <2>2. /\ worker' \in [Runs -> Workers] /\ worker'[r] = "launched"
        /\ \A s \in Runs \ {r} : worker'[s] = worker[s]
    BY <1>0, <1>5 DEF RunsTyped, Workers
  <2>3. RunsTyped' /\ WorkerOK(r)' /\ TreeOK(r)'
    BY <1>0, <1>1, <2>1, <2>2 DEF RunsTyped, IsOver, WorkerOK, TreeOK, Prompted,
       Preclaim, Inspecting, Publishing
  <2> QED
    BY <1>1, <2>1, <2>2, <2>3, WorkStep DEF Steps, Published, Inspecting, Prompted
<1> QED
  BY <1>3, <1>4, <1>5 DEF CreateWorktree, WorktreeFails, Launch, work

\* The worker's processes are ended, or said to be of uncertain end.
LEMMA TerminateSteps ==
  ASSUME PInv, NEW r \in Runs, pc[r] \in {"prompt", "working"},
         NEW state \in ExitStates, NEW category, Terminate(r, state, category),
         UNCHANGED <<owner, log, tree, paths, head, pushed, remote, prHead>>
  PROVE  Alone(r) /\ RunOK(r)' /\ Quiet(r) /\ UNCHANGED owner
<1>0. RunsTyped /\ RunOK(r)
  BY DEF PInv
<1>1. Recorded(r, "invocation_started")
  BY <1>0 DEF RunOK, AuditOK
<1>2. ASSUME NEW wait \in {"terminal", "draining"}, NEW last \in ExitStates, NEW why,
             ExitAfter(r, wait, last, why),
             \/ /\ worker' \in [Runs -> Workers]
                /\ worker'[r] \in {"none", "dead", "left_behind"}
                /\ \A s \in Runs \ {r} : worker'[s] = worker[s]
             \/ UNCHANGED worker /\ why = Uncertain
      PROVE  Alone(r) /\ RunOK(r)' /\ Quiet(r) /\ UNCHANGED owner
  <2>1. /\ pc' \in [Runs -> Places] /\ pc'[r] = wait
        /\ \A s \in Runs \ {r} : pc'[s] = pc[s] /\ exit'[s] = exit[s]
        /\ exit'[r] = [state |-> last, category |-> why]
        /\ IsOver(exit)'
        /\ UNCHANGED <<auth, pr, result>>
    BY <1>0, <1>2, Moves DEF Places, Steps
  <2>2. RunsTyped'
    BY <1>0, <1>2, <2>1 DEF RunsTyped, IsOver
  <2>3. WorkerOK(r)' /\ TreeOK(r)'
    BY <1>2, <2>1 DEF WorkerOK, TreeOK, Preclaim, Inspecting, Publishing
  <2>4. \A s \in Runs \ {r} :
          /\ pc'[s] = pc[s] /\ worker'[s] = worker[s] /\ tree'[s] = tree[s]
          /\ paths'[s] = paths[s] /\ head'[s] = head[s] /\ exit'[s] = exit[s]
    BY <1>2, <2>1
  <2> QED
    BY <1>1, <1>2, <2>1, <2>2, <2>3, <2>4, WorkStep DEF Steps, Published
<1>3. CASE \E w \in IF worker[r] = "launched" THEN {"none"} ELSE {"dead", "left_behind"},
              wait \in {"terminal", "draining"} :
             /\ worker' = [worker EXCEPT ![r] = w]
             /\ ExitAfter(r, wait, state, category)
  <2> PICK w \in IF worker[r] = "launched" THEN {"none"} ELSE {"dead", "left_behind"},
           wait \in {"terminal", "draining"} :
             /\ worker' = [worker EXCEPT ![r] = w]
             /\ ExitAfter(r, wait, state, category)
    BY <1>3
  <2>1. /\ worker' \in [Runs -> Workers]
        /\ worker'[r] \in {"none", "dead", "left_behind"}
        /\ \A s \in Runs \ {r} : worker'[s] = worker[s]
    BY <1>0 DEF RunsTyped, Workers
  <2> QED
    BY <1>2, <2>1
<1>4. CASE /\ UNCHANGED worker
           /\ \E wait \in {"terminal", "draining"} :
                ExitAfter(r, wait, "failed", "process_tree_termination_uncertain")
  BY <1>2, <1>4 DEF Uncertain, ExitStates
<1> QED
  BY <1>3, <1>4 DEF Terminate

LEMMA InvocationSteps ==
  ASSUME PInv, NEW r \in Runs,
         \/ SubmitPrompt(r) \/ InvocationEnds(r) \/ TimeOut(r) \/ Cancel(r)
         \/ StreamFails(r) \/ Drain(r)
  PROVE  Alone(r) /\ RunOK(r)' /\ Quiet(r) /\ UNCHANGED owner
<1>0. RunsTyped /\ RunOK(r)
  BY DEF PInv
<1>1. UNCHANGED <<owner, log, tree, paths, head, pushed, remote, prHead>>
  BY DEF SubmitPrompt, InvocationEnds, TimeOut, Cancel, StreamFails, Drain,
         ledgerVars, github, work
<1>2. CASE TimeOut(r) \/ Cancel(r) \/ StreamFails(r)
  BY <1>1, <1>2, TerminateSteps DEF TimeOut, Cancel, StreamFails, ExitStates
<1>3. CASE SubmitPrompt(r)
  <2>1. /\ pc[r] = "prompt" /\ pc' \in [Runs -> Places] /\ pc'[r] = "working"
        /\ \A s \in Runs \ {r} : pc'[s] = pc[s]
        /\ UNCHANGED <<auth, pr, exit, result>>
    BY <1>0, <1>3, Moves DEF SubmitPrompt, Places, Steps
  <2>2. /\ worker' \in [Runs -> Workers] /\ worker'[r] \in {"prompted", "left_behind"}
        /\ \A s \in Runs \ {r} : worker'[s] = worker[s]
    BY <1>0, <1>3 DEF SubmitPrompt, RunsTyped, Workers
  <2>3. RunsTyped' /\ WorkerOK(r)' /\ TreeOK(r)'
    BY <1>0, <1>1, <2>1, <2>2 DEF RunsTyped, IsOver, WorkerOK, TreeOK, Prompted,
       Preclaim, Inspecting, Publishing
  <2>4. Recorded(r, "invocation_started")
    BY <1>0, <2>1 DEF RunOK, AuditOK
  <2> QED
    BY <1>1, <2>1, <2>2, <2>3, <2>4, WorkStep DEF Steps, Published
<1>4. CASE Drain(r)
  <2>1. /\ pc[r] = "draining" /\ pc' \in [Runs -> Places] /\ pc'[r] = "terminal"
        /\ \A s \in Runs \ {r} : pc'[s] = pc[s]
        /\ UNCHANGED <<auth, pr, exit, result, worker>>
    BY <1>0, <1>4, Moves DEF Drain, Places, Steps, work
  <2>2. RunsTyped' /\ WorkerOK(r)' /\ TreeOK(r)'
    BY <1>0, <1>1, <2>1 DEF RunsTyped, IsOver, RunOK, WorkerOK, TreeOK, Prompted,
       Preclaim, Inspecting, Publishing
  <2>3. Prompted(r) => Recorded(r, "invocation_started")
    BY <1>0 DEF RunOK, AuditOK
  <2>4. exit[r].state \in ExitStates
    BY <1>0, <2>1 DEF RunOK, ResultOK
  <2> QED
    BY <1>1, <2>1, <2>2, <2>3, <2>4, WorkStep DEF Steps, Published, Inspecting, Prompted
<1>5. CASE InvocationEnds(r)
  <2>1. /\ pc[r] = "working" /\ UNCHANGED worker /\ worker[r] \in {"dead", "left_behind"}
        /\ Recorded(r, "invocation_started")
    BY <1>0, <1>5 DEF InvocationEnds, work, RunOK, WorkerOK, AuditOK, Prompted
  <2>2. CASE Goto(r, "diff")
    <3>1. /\ pc' \in [Runs -> Places] /\ pc'[r] = "diff"
          /\ \A s \in Runs \ {r} : pc'[s] = pc[s]
          /\ UNCHANGED <<auth, pr, exit, result>>
      BY <1>0, <2>2, Moves DEF Places, Steps
    <3>2. RunsTyped' /\ WorkerOK(r)' /\ TreeOK(r)'
      BY <1>0, <1>1, <2>1, <3>1 DEF RunsTyped, IsOver, WorkerOK, TreeOK, Preclaim,
         Publishing
    <3> QED
      BY <1>1, <2>1, <3>1, <3>2, WorkStep DEF Steps, Published
  <2>3. CASE Fail(r)
    <3>1. /\ pc' \in [Runs -> Places] /\ pc'[r] = "terminal"
          /\ \A s \in Runs \ {r} : pc'[s] = pc[s] /\ exit'[s] = exit[s]
          /\ exit'[r] = [state |-> "failed", category |-> "step_failed"]
          /\ IsOver(exit)'
          /\ UNCHANGED <<auth, pr, result>>
      BY <1>0, <2>3, Moves DEF Fail, Exit, Places, Steps
    <3>2. RunsTyped' /\ WorkerOK(r)' /\ TreeOK(r)'
      BY <1>0, <1>1, <2>1, <3>1 DEF RunsTyped, IsOver, WorkerOK, TreeOK, Preclaim,
         Inspecting, Publishing
    <3> QED
      BY <1>1, <2>1, <3>1, <3>2, WorkStep DEF Steps, Published, ExitStates
  <2> QED
    BY <1>5, <2>2, <2>3 DEF InvocationEnds
<1> QED
  BY <1>2, <1>3, <1>4, <1>5

\* Inspection, validation and commit, with nobody but what the worker left
\* behind to change the worktree.
LEMMA InspectionSteps ==
  ASSUME PInv, NEW r \in Runs,
         \/ InspectDiff(r) \/ RunValidations(r) \/ InspectDiffAgain(r)
         \/ CommitChanges(r) \/ VerifyCommit(r) \/ RemoteGateAgain(r) \/ PrGateAgain(r)
         \/ StepFails(r)
  PROVE  Alone(r) /\ RunOK(r)' /\ Quiet(r) /\ UNCHANGED owner
<1>0. RunsTyped /\ RunOK(r)
  BY DEF PInv
<1>1. /\ UNCHANGED <<owner, log, pushed, remote, prHead>>
      /\ pc[r] \in {"diff", "validate", "rediff", "commit", "verify_commit",
                    "remote_gate_again", "pr_gate_again"}
  BY DEF InspectDiff, RunValidations, InspectDiffAgain, CommitChanges, VerifyCommit,
         RemoteGateAgain, PrGateAgain, StepFails, ledgerVars, github, work
<1>2. worker[r] \in {"dead", "left_behind"} /\ Recorded(r, "invocation_started")
  BY <1>0, <1>1 DEF RunOK, WorkerOK, AuditOK, Inspecting
<1>3. /\ worker' \in [Runs -> Workers] /\ worker'[r] \in {worker[r], "left_behind"}
      /\ IsOver(tree)' /\ IsOver(paths)' /\ IsOver(head)' /\ IsOver(pushed)'
      /\ \A s \in Runs \ {r} :
           /\ worker'[s] = worker[s] /\ tree'[s] = tree[s]
           /\ paths'[s] = paths[s] /\ head'[s] = head[s]
  <2>1. CASE InspectDiff(r)
    BY <1>0, <1>1, <2>1 DEF InspectDiff, RunsTyped, IsOver
  <2>2. CASE RunValidations(r)
    <3>1. PICK t \in Trees, h \in Trees \cup {None}, w \in {worker[r], "left_behind"} :
            /\ tree' = [tree EXCEPT ![r] = t] /\ head' = [head EXCEPT ![r] = h]
            /\ worker' = [worker EXCEPT ![r] = w] /\ paths' = paths
      BY <2>2 DEF RunValidations
    <3>2. /\ IsOver(tree)' /\ IsOver(paths)' /\ IsOver(head)' /\ IsOver(pushed)'
          /\ \A s \in Runs \ {r} :
               tree'[s] = tree[s] /\ paths'[s] = paths[s] /\ head'[s] = head[s]
      BY <1>0, <1>1, <3>1 DEF RunsTyped, IsOver
    <3>3. /\ worker' \in [Runs -> Workers] /\ worker'[r] \in {worker[r], "left_behind"}
          /\ \A s \in Runs \ {r} : worker'[s] = worker[s]
      BY <1>0, <3>1 DEF RunsTyped, Workers
    <3> QED
      BY <3>2, <3>3
  <2>3. CASE CommitChanges(r)
    BY <1>0, <1>1, <2>3 DEF CommitChanges, RunsTyped, IsOver
  <2>4. CASE \/ InspectDiffAgain(r) \/ VerifyCommit(r) \/ RemoteGateAgain(r)
             \/ PrGateAgain(r) \/ StepFails(r)
    BY <1>0, <2>4 DEF InspectDiffAgain, VerifyCommit, RemoteGateAgain, PrGateAgain,
       StepFails, work, RunsTyped, IsOver
  <2> QED
    BY <2>1, <2>2, <2>3, <2>4
<1>4. ASSUME Fail(r)
      PROVE  Alone(r) /\ RunOK(r)' /\ Quiet(r) /\ UNCHANGED owner
  <2>1. /\ pc' \in [Runs -> Places] /\ pc'[r] = "terminal"
        /\ \A s \in Runs \ {r} : pc'[s] = pc[s] /\ exit'[s] = exit[s]
        /\ exit'[r] = [state |-> "failed", category |-> "step_failed"]
        /\ IsOver(exit)'
        /\ UNCHANGED <<auth, pr, result>>
    BY <1>0, <1>4, Moves DEF Fail, Exit, Places, Steps
  <2>2. RunsTyped' /\ WorkerOK(r)' /\ TreeOK(r)'
    BY <1>0, <1>2, <1>3, <2>1 DEF RunsTyped, IsOver, WorkerOK, TreeOK, Preclaim,
       Inspecting, Publishing
  <2> QED
    BY <1>1, <1>2, <1>3, <2>1, <2>2, WorkStep DEF Steps, Published, ExitStates
<1>5. ASSUME NEW to \in {"validate", "rediff", "commit", "verify_commit",
                         "remote_gate_again", "pr_gate_again", "push"},
             Goto(r, to), TreeOK(r)'
      PROVE  Alone(r) /\ RunOK(r)' /\ Quiet(r) /\ UNCHANGED owner
  <2>1. /\ pc' \in [Runs -> Places] /\ pc'[r] = to
        /\ \A s \in Runs \ {r} : pc'[s] = pc[s]
        /\ UNCHANGED <<auth, pr, exit, result>>
    BY <1>0, <1>5, Moves DEF Places, Steps
  <2>2. RunsTyped' /\ WorkerOK(r)'
    BY <1>0, <1>2, <1>3, <2>1 DEF RunsTyped, IsOver, WorkerOK, Preclaim, Inspecting
  <2> QED
    BY <1>1, <1>2, <1>3, <1>5, <2>1, <2>2, WorkStep DEF Steps, Published
<1>6. \A to \in {"validate", "rediff", "commit", "verify_commit", "remote_gate_again",
                 "pr_gate_again", "push"} : Goto(r, to) => pc'[r] = to
  BY <1>0, Moves DEF Places, Steps
<1>7. CASE InspectDiff(r)
  <2>1. Goto(r, "validate") => TreeOK(r)'
    BY <1>6 DEF TreeOK, Publishing
  <2> QED
    BY <1>4, <1>5, <1>7, <2>1 DEF InspectDiff
<1>8. CASE RunValidations(r)
  <2>1. Goto(r, "rediff") => TreeOK(r)'
    BY <1>6 DEF TreeOK, Publishing
  <2> QED
    BY <1>4, <1>5, <1>8, <2>1 DEF RunValidations
<1>9. CASE InspectDiffAgain(r)
  <2>1. /\ Inspected(r) /\ PathsOf[tree[r]] = paths[r]
        /\ Goto(r, "commit")
        => TreeOK(r)'
    BY <1>6, <1>9 DEF InspectDiffAgain, work, TreeOK, PassedInspection, Inspected,
       Publishing
  <2> QED
    BY <1>4, <1>5, <1>9, <2>1 DEF InspectDiffAgain
<1>10. CASE CommitChanges(r)
  <2>1. Goto(r, "verify_commit") => TreeOK(r)'
    BY <1>0, <1>6, <1>10 DEF CommitChanges, RunOK, TreeOK, PassedInspection, RunsTyped,
       IsOver
  <2> QED
    BY <1>4, <1>5, <1>10, <2>1 DEF CommitChanges
<1>11. CASE VerifyCommit(r) \/ RemoteGateAgain(r) \/ PrGateAgain(r)
  <2>1. \A to \in {"remote_gate_again", "pr_gate_again", "push"} :
          Goto(r, to) => TreeOK(r)'
    BY <1>0, <1>6, <1>11 DEF VerifyCommit, RemoteGateAgain, PrGateAgain, work, RunOK,
       TreeOK, PassedInspection, Publishing
  <2> QED
    BY <1>4, <1>5, <1>11, <2>1 DEF VerifyCommit, RemoteGateAgain, PrGateAgain
<1>12. CASE StepFails(r)
  BY <1>4, <1>12 DEF StepFails
<1> QED
  BY <1>7, <1>8, <1>9, <1>10, <1>11, <1>12

-----------------------------------------------------------------------------
(***************************************************************************)
(* The records.                                                            *)
(***************************************************************************)

LEMMA ExitFieldsType ==
  ASSUME NEW r \in Runs, NEW state \in ExitStates
  PROVE  ExitFields(r, state) \in SUBSET Fields
<1>1. Exits[state] \in SUBSET Fields
  BY DEF Exits, ExitStates, Fields
<1> QED
  BY <1>1 DEF ExitFields, Fields

\* A request to append lengthens the log by the event, or leaves it.
LEMMA LogGrows ==
  ASSUME LedgerTyped, NEW r \in Runs, log[r] # <<>>, NEW next \in States,
         NEW fields \in SUBSET Fields, NEW p \in Prs \cup {None},
         Appended(r, next, fields, p) \/ NotAppended(r, next, fields, p)
  PROVE  /\ LedgerTyped' /\ owner' = owner
         /\ \A s \in Runs \ {r} : log'[s] = log[s]
         /\ log'[r] # <<>>
         /\ Latest(log'[r]).next \in {next, Latest(log[r]).next}
         /\ \A state : Recorded(r, state) => Recorded(r, state)'
         /\ Appended(r, next, fields, p) =>
              /\ Latest(log'[r]).next = next /\ Latest(log'[r]).pr = p
              /\ Recorded(r, next)'
<1> DEFINE e == NewEvent(r, next, fields, p)
           evs == log[r]
<1>1. evs \in Seq(Event) /\ Len(evs) \in Nat \ {0}
  BY DEF LedgerTyped, Runs
<1>2. evs[Len(evs)] \in Event
  BY <1>1
<1>3. e \in Event /\ e.next = next /\ e.pr = p
  BY <1>2 DEF NewEvent, EventAfter, Event
<1>4. CASE log' = [log EXCEPT ![r] = Append(@, e)] /\ owner' = owner
  <2>1. log'[r] = Append(evs, e) /\ \A s \in Runs \ {r} : log'[s] = log[s]
    BY <1>4 DEF LedgerTyped, Runs
  <2>2. LedgerTyped'
    BY <1>1, <1>3, <1>4 DEF LedgerTyped, Runs
  <2> HIDE DEF e, evs
  <2>3. /\ Append(evs, e) # <<>> /\ Latest(Append(evs, e)) = e
        /\ \A i \in DOMAIN evs : /\ i \in DOMAIN Append(evs, e)
                                 /\ Append(evs, e)[i] = evs[i]
        /\ Len(evs) + 1 \in DOMAIN Append(evs, e)
        /\ Append(evs, e)[Len(evs) + 1] = e
    BY <1>1, <1>3 DEF Latest
  <2> QED
    BY <1>3, <1>4, <2>1, <2>2, <2>3 DEF Recorded, evs
<1>5. CASE log' = log /\ owner' = owner /\ NotAppended(r, next, fields, p)
                                      /\ ~ Appended(r, next, fields, p)
  BY <1>5 DEF LedgerTyped, Recorded
<1> QED
  BY <1>4, <1>5 DEF Appended, NotAppended

\* A run that records goes on, returns, or is to record its end.
LEMMA RecordSteps ==
  ASSUME PInv, NEW r \in Runs,
         RecordStarting(r) \/ RecordStarted(r) \/ RecordPr(r) \/ RecordExit(r)
  PROVE  Alone(r) /\ RunOK(r)' /\ Quiet(r) /\ UNCHANGED owner
<1>0. LedgerTyped /\ RunsTyped /\ RunOK(r)
  BY DEF PInv
<1>1. /\ UNCHANGED <<tree, paths, head, pushed, remote, prHead>>
      /\ pc[r] \in {"record_starting", "record_started", "record_pr", "terminal"}
  BY DEF RecordStarting, RecordStarted, RecordPr, RecordExit, github, work
<1>2. /\ log[r] # <<>> /\ Latest(log[r]).next \notin Terminal
      /\ owner[r] = auth[r] /\ auth[r] \in Auths /\ result[r] = NoResult
  BY <1>0, <1>1 DEF RunOK, ClaimOK, ResultOK, Steps
<1>3. "invocation_starting" \in States /\ "invocation_started" \in States
      /\ "pr_opened_and_stopped" \in States /\ Terminal \subseteq States
      /\ {} \in SUBSET Fields /\ PrFields \in SUBSET Fields
  BY DEF States, Working, PrFields, Fields
<1>4. CASE RecordStarting(r)
  <2>1. /\ LedgerTyped' /\ owner' = owner
        /\ \A s \in Runs \ {r} : log'[s] = log[s]
        /\ log'[r] # <<>> /\ Latest(log'[r]).next \notin Terminal
    <3>1. Latest(log'[r]).next \in {"invocation_starting", Latest(log[r]).next}
      BY <1>0, <1>2, <1>3, <1>4, LogGrows DEF RecordStarting
    <3> QED
      BY <1>0, <1>2, <1>3, <1>4, <3>1, LogGrows DEF RecordStarting, Terminal
  <2>2. worker[r] = "none" /\ UNCHANGED worker /\ pc[r] = "record_starting"
    BY <1>0, <1>4 DEF RecordStarting, RunOK, WorkerOK, work
  <2>3. CASE Goto(r, "launch")
    <3>1. /\ pc' \in [Runs -> Places] /\ pc'[r] = "launch"
          /\ \A s \in Runs \ {r} : pc'[s] = pc[s]
          /\ UNCHANGED <<auth, pr, exit, result>>
      BY <1>0, <2>3, Moves DEF Places, Steps
    <3>2. Alone(r)
      BY <1>0, <1>1, <2>1, <2>2, <3>1 DEF Alone, RunsTyped, IsOver
    <3>3. ClaimOK(r)' /\ WorkerOK(r)' /\ TreeOK(r)'
      BY <1>2, <2>1, <2>2, <3>1 DEF ClaimOK, WorkerOK, TreeOK, Preclaim, Steps,
         Prompted, Inspecting, Publishing, Latest
    <3>4. AuditOK(r)' /\ ResultOK(r)'
      BY <1>2, <2>2, <3>1 DEF AuditOK, ResultOK, Inspecting, Prompted, NoResult, Terminal,
         ExitStates
    <3> QED
      BY <1>1, <2>1, <2>2, <3>1, <3>2, <3>3, <3>4 DEF RunOK, Quiet, Published
  <2>4. CASE Fail(r)
    <3>1. /\ pc' \in [Runs -> Places] /\ pc'[r] = "terminal"
          /\ \A s \in Runs \ {r} : pc'[s] = pc[s] /\ exit'[s] = exit[s]
          /\ exit'[r] = [state |-> "failed", category |-> "step_failed"]
          /\ IsOver(exit)'
          /\ UNCHANGED <<auth, pr, result>>
      BY <1>0, <2>4, Moves DEF Fail, Exit, Places, Steps
    <3>2. Alone(r)
      BY <1>0, <1>1, <2>1, <2>2, <3>1 DEF Alone, RunsTyped, IsOver
    <3>3. ClaimOK(r)' /\ WorkerOK(r)' /\ TreeOK(r)'
      BY <1>2, <2>1, <2>2, <3>1 DEF ClaimOK, WorkerOK, TreeOK, Preclaim, Steps,
         Prompted, Inspecting, Publishing, Latest
    <3>4. AuditOK(r)' /\ ResultOK(r)'
      BY <1>2, <2>2, <3>1 DEF AuditOK, ResultOK, Inspecting, Prompted, NoResult, Terminal,
         ExitStates
    <3> QED
      BY <1>1, <2>1, <2>2, <3>1, <3>2, <3>3, <3>4 DEF RunOK, Quiet, Published
  <2> QED
    BY <1>4, <2>3, <2>4 DEF RecordStarting
<1>5. CASE RecordStarted(r)
  <2>1. /\ LedgerTyped' /\ owner' = owner
        /\ \A s \in Runs \ {r} : log'[s] = log[s]
        /\ log'[r] # <<>> /\ Latest(log'[r]).next \notin Terminal
        /\ Goto(r, "prompt") => Recorded(r, "invocation_started")'
    <3>1. Latest(log'[r]).next \in {"invocation_started", Latest(log[r]).next}
      BY <1>0, <1>2, <1>3, <1>5, LogGrows DEF RecordStarted
    <3>2. Goto(r, "prompt") => Appended(r, "invocation_started", {}, None)
      <4>1. Goto(r, "prompt") => pc'[r] = "prompt"
        BY <1>0, Moves DEF Places, Steps
      <4>2. Fail(r) \/ ExitUncertain(r) => pc'[r] = "terminal"
        BY <1>0, Moves DEF Fail, ExitUncertain, Exit, Places, Steps
      <4> QED
        BY <1>5, <4>1, <4>2 DEF RecordStarted
    <3> QED
      BY <1>0, <1>2, <1>3, <1>5, <3>1, <3>2, LogGrows DEF RecordStarted, Terminal
  <2>2. worker[r] = "launched" /\ pc[r] = "record_started"
    BY <1>0, <1>5 DEF RecordStarted, RunOK, WorkerOK
  <2>3. CASE Goto(r, "prompt") /\ UNCHANGED worker
    <3>1. /\ pc' \in [Runs -> Places] /\ pc'[r] = "prompt"
          /\ \A s \in Runs \ {r} : pc'[s] = pc[s]
          /\ UNCHANGED <<auth, pr, exit, result>>
      BY <1>0, <2>3, Moves DEF Places, Steps
    <3>2. Alone(r)
      BY <1>0, <1>1, <2>1, <2>3, <3>1 DEF Alone, RunsTyped, IsOver
    <3>3. ClaimOK(r)' /\ WorkerOK(r)' /\ TreeOK(r)'
      BY <1>2, <2>1, <2>2, <2>3, <3>1 DEF ClaimOK, WorkerOK, TreeOK, Preclaim, Steps,
         Prompted, Inspecting, Publishing, Latest
    <3>4. AuditOK(r)' /\ ResultOK(r)'
      BY <1>2, <2>1, <2>2, <2>3, <3>1 DEF AuditOK, ResultOK, Inspecting, Prompted,
         NoResult, Terminal, ExitStates
    <3> QED
      BY <1>1, <2>1, <2>2, <3>1, <3>2, <3>3, <3>4 DEF RunOK, Quiet, Published
  <2>4. ASSUME NEW category, Exit(r, "failed", category),
               \/ worker' = [worker EXCEPT ![r] = "none"]
               \/ UNCHANGED worker /\ category = Uncertain
        PROVE  Alone(r) /\ RunOK(r)' /\ Quiet(r)
    <3>1. /\ pc' \in [Runs -> Places] /\ pc'[r] = "terminal"
          /\ \A s \in Runs \ {r} : pc'[s] = pc[s] /\ exit'[s] = exit[s]
          /\ exit'[r] = [state |-> "failed", category |-> category]
          /\ IsOver(exit)'
          /\ UNCHANGED <<auth, pr, result>>
      BY <1>0, <2>4, Moves DEF Exit, Places, Steps
    <3>2. /\ worker' \in [Runs -> Workers]
          /\ worker'[r] = "none" \/ (worker'[r] = "launched" /\ category = Uncertain)
          /\ \A s \in Runs \ {r} : worker'[s] = worker[s]
      BY <1>0, <2>2, <2>4 DEF RunsTyped, Workers
    <3>3. Alone(r)
      BY <1>0, <1>1, <2>1, <3>1, <3>2 DEF Alone, RunsTyped, IsOver
    <3>4. ClaimOK(r)' /\ WorkerOK(r)' /\ TreeOK(r)'
      BY <1>2, <2>1, <3>1, <3>2 DEF ClaimOK, WorkerOK, TreeOK, Preclaim, Steps,
         Prompted, Inspecting, Publishing, Latest
    <3>5. AuditOK(r)' /\ ResultOK(r)'
      BY <1>2, <3>1, <3>2 DEF AuditOK, ResultOK, Inspecting, Prompted, NoResult, Terminal,
         ExitStates
    <3> QED
      BY <1>1, <2>1, <2>2, <3>1, <3>3, <3>4, <3>5 DEF RunOK, Quiet, Published
  <2> QED
    BY <1>5, <2>1, <2>3, <2>4 DEF RecordStarted, Fail, ExitUncertain, Uncertain
<1>6. CASE RecordPr(r)
  <2>1. /\ pc[r] = "record_pr" /\ UNCHANGED worker
        /\ worker[r] \in {"dead", "left_behind"} /\ pr[r] \in Prs \cup {None}
        /\ Recorded(r, "invocation_started")
    BY <1>0, <1>6 DEF RecordPr, work, RunOK, WorkerOK, AuditOK, TreeOK, Inspecting,
       Publishing, RunsTyped
  <2>2. /\ LedgerTyped' /\ owner' = owner
        /\ \A s \in Runs \ {r} : log'[s] = log[s]
        /\ log'[r] # <<>> /\ Latest(log'[r]).next \notin Terminal
        /\ Recorded(r, "invocation_started")'
        /\ Appended(r, "pr_opened_and_stopped", PrFields, pr[r]) =>
             /\ Latest(log'[r]).next = "pr_opened_and_stopped"
             /\ Latest(log'[r]).pr = pr[r]
    <3>1. Latest(log'[r]).next \in {"pr_opened_and_stopped", Latest(log[r]).next}
      BY <1>0, <1>2, <1>3, <1>6, <2>1, LogGrows DEF RecordPr
    <3> QED
      BY <1>0, <1>2, <1>3, <1>6, <2>1, <3>1, LogGrows DEF RecordPr, Terminal
  <2>3. CASE /\ Appended(r, "pr_opened_and_stopped", PrFields, pr[r])
             /\ Return(r, "success", "pr_opened_and_stopped")
    <3>1. /\ pc' \in [Runs -> Places] /\ pc'[r] = "done"
          /\ \A s \in Runs \ {r} : pc'[s] = pc[s] /\ result'[s] = result[s]
          /\ result'[r] = [status |-> "success", category |-> "pr_opened_and_stopped"]
          /\ IsOver(result)'
          /\ UNCHANGED <<auth, pr, exit>>
      BY <1>0, <2>3, Moves
    <3>2. Alone(r)
      BY <1>0, <1>1, <2>1, <2>2, <3>1 DEF Alone, RunsTyped, IsOver
    <3>3. ClaimOK(r)' /\ WorkerOK(r)' /\ TreeOK(r)'
      BY <1>2, <2>1, <3>1 DEF ClaimOK, WorkerOK, TreeOK, Preclaim, Steps, Inspecting,
         Publishing
    <3>4. AuditOK(r)' /\ ResultOK(r)'
      BY <1>2, <2>2, <2>3, <3>1 DEF AuditOK, ResultOK, Inspecting, Terminal, Latest
    <3> QED
      BY <1>1, <2>1, <2>2, <3>1, <3>2, <3>3, <3>4 DEF RunOK, Quiet, Published
  <2>4. CASE Exit(r, "failed", "publication_audit_storage_uncertain")
    <3>1. /\ pc' \in [Runs -> Places] /\ pc'[r] = "terminal"
          /\ \A s \in Runs \ {r} : pc'[s] = pc[s] /\ exit'[s] = exit[s]
          /\ exit'[r] = [state |-> "failed",
                          category |-> "publication_audit_storage_uncertain"]
          /\ IsOver(exit)'
          /\ UNCHANGED <<auth, pr, result>>
      BY <1>0, <2>4, Moves DEF Exit, Places, Steps
    <3>2. Alone(r)
      BY <1>0, <1>1, <2>1, <2>2, <3>1 DEF Alone, RunsTyped, IsOver
    <3>3. ClaimOK(r)' /\ WorkerOK(r)' /\ TreeOK(r)'
      BY <1>2, <2>1, <2>2, <3>1 DEF ClaimOK, WorkerOK, TreeOK, Preclaim, Steps,
         Inspecting, Publishing, Latest
    <3>4. AuditOK(r)' /\ ResultOK(r)'
      BY <1>2, <2>2, <3>1 DEF AuditOK, ResultOK, Inspecting, NoResult, Terminal,
         ExitStates
    <3> QED
      BY <1>1, <2>1, <2>2, <3>1, <3>2, <3>3, <3>4 DEF RunOK, Quiet, Published
  <2> QED
    BY <1>6, <2>2, <2>3, <2>4 DEF RecordPr
<1>7. CASE RecordExit(r)
  <2> DEFINE state == exit[r].state
  <2>1. /\ pc[r] = "terminal" /\ UNCHANGED worker /\ state \in ExitStates
        /\ ExitFields(r, state) \in SUBSET Fields /\ None \in Prs \cup {None}
        /\ Prompted(r) => Recorded(r, "invocation_started")
        /\ worker[r] \in {"launched", "prompted"} => exit[r].category = Uncertain
    BY <1>0, <1>7, ExitFieldsType DEF RecordExit, work, RunOK, WorkerOK, AuditOK,
       ResultOK
  <2>2. /\ LedgerTyped' /\ owner' = owner
        /\ \A s \in Runs \ {r} : log'[s] = log[s]
        /\ Recorded(r, "invocation_started") => Recorded(r, "invocation_started")'
        /\ Appended(r, state, ExitFields(r, state), None) =>
             Latest(log'[r]).next = state
    <3> DEFINE fields == ExitFields(r, state)
    <3>1. state \in States /\ fields \in SUBSET Fields
      BY <1>3, <2>1 DEF ExitStates, Terminal
    <3>2. Appended(r, state, fields, None) \/ NotAppended(r, state, fields, None)
      BY <1>7 DEF RecordExit
    <3> HIDE DEF state, fields
    <3>3. /\ LedgerTyped' /\ owner' = owner
          /\ \A s \in Runs \ {r} : log'[s] = log[s]
          /\ Recorded(r, "invocation_started") => Recorded(r, "invocation_started")'
          /\ Appended(r, state, fields, None) => Latest(log'[r]).next = state
      BY <1>0, <1>2, <2>1, <3>1, <3>2, LogGrows
    <3> QED
      BY <3>3 DEF fields
  <2>3. ASSUME NEW status \in Terminal, NEW category, Return(r, status, category),
               category # "lifecycle_storage_uncertain" =>
                 Latest(log'[r]).next = status
        PROVE  Alone(r) /\ RunOK(r)' /\ Quiet(r)
    <3>1. /\ pc' \in [Runs -> Places] /\ pc'[r] = "done"
          /\ \A s \in Runs \ {r} : pc'[s] = pc[s] /\ result'[s] = result[s]
          /\ result'[r] = [status |-> status, category |-> category]
          /\ IsOver(result)'
          /\ UNCHANGED <<auth, pr, exit>>
      BY <1>0, <2>3, Moves
    <3>2. Alone(r)
      BY <1>0, <1>1, <2>1, <2>2, <3>1 DEF Alone, RunsTyped, IsOver
    <3>3. ClaimOK(r)' /\ WorkerOK(r)' /\ TreeOK(r)'
      BY <1>2, <2>1, <3>1 DEF ClaimOK, WorkerOK, TreeOK, Preclaim, Steps, Inspecting,
         Publishing
    <3>4. AuditOK(r)'
      BY <1>2, <2>1, <2>2, <3>1 DEF AuditOK, Inspecting, Prompted
    <3>5. ResultOK(r)'
      BY <2>3, <3>1 DEF ResultOK, Terminal, Latest
    <3> QED
      BY <1>1, <2>1, <2>2, <3>1, <3>2, <3>3, <3>4, <3>5 DEF RunOK, Quiet, Published
  <2>4. CASE /\ Appended(r, state, ExitFields(r, state), None)
             /\ Return(r, state, exit[r].category)
    BY <2>1, <2>2, <2>3, <2>4 DEF ExitStates, Terminal
  <2>5. CASE Return(r, "failed", "lifecycle_storage_uncertain")
    BY <2>2, <2>3, <2>5 DEF Terminal
  <2> QED
    BY <1>7, <2>2, <2>4, <2>5 DEF RecordExit
<1> QED
  BY <1>4, <1>5, <1>6, <1>7
-----------------------------------------------------------------------------
(***************************************************************************)
(* Publication.                                                            *)
(***************************************************************************)

\* What publication leaves as it is in the run itself.
LEMMA PublicationStep ==
  ASSUME PInv, NEW r \in Runs, pc[r] \in {"push", "open_pr"},
         pc' \in [Runs -> Places], pc'[r] \in {"open_pr", "record_pr", "terminal"},
         pr' \in [Runs -> Prs \cup {None}], IsOver(exit)',
         UNCHANGED <<owner, log, auth, worker, tree, paths, head, result>>,
         \A s \in Runs \ {r} :
           pc'[s] = pc[s] /\ pr'[s] = pr[s] /\ exit'[s] = exit[s] /\ pushed'[s] = pushed[s],
         IsOver(pushed)',
         pc'[r] = "terminal" => exit'[r].state \in ExitStates
  PROVE  Alone(r) /\ RunOK(r)' /\ (pc[r] = "push" => PassedInspection(r, head[r])')
<1>0. LedgerTyped /\ RunsTyped /\ RunOK(r)
  BY DEF PInv
<1>1. Alone(r)
  BY <1>0 DEF Alone, LedgerTyped, RunsTyped, IsOver
<1>2. ClaimOK(r)' /\ ResultOK(r)'
  BY <1>0 DEF RunOK, ClaimOK, ResultOK, Latest, Preclaim, Steps, NoResult, Terminal
<1>3. WorkerOK(r)' /\ AuditOK(r)'
  BY <1>0 DEF RunOK, WorkerOK, AuditOK, Prompted, Recorded, Inspecting, Preclaim
<1>4. TreeOK(r)' /\ PassedInspection(r, head[r])'
  BY <1>0 DEF RunOK, TreeOK, PassedInspection, Publishing
<1> QED
  BY <1>1, <1>2, <1>3, <1>4 DEF RunOK

\* The branch of a run that was started.
LEMMA BranchType ==
  ASSUME NEW r \in Runs, auth[r] \in Auths
  PROVE  Branch(r) \in Branches
<1>1. BranchOf \in [Auths -> Branches]
  BY RunnerAssumption
<1> QED
  BY <1>1 DEF Branch

\* The push is leased on the absence of the branch, so it takes no branch from
\* a run that has published.
LEMMA PushSteps ==
  ASSUME PInv, NEW r \in Runs, Push(r) \/ PushFails(r)
  PROVE  Alone(r) /\ RunOK(r)' /\ GithubTyped' /\ GithubOK' /\ UNCHANGED owner
<1>0. RunsTyped /\ GithubTyped /\ GithubOK /\ RunOK(r)
  BY DEF PInv
<1>1. /\ pc[r] = "push" /\ auth[r] \in Auths
      /\ UNCHANGED <<owner, log, prHead, worker, tree, paths, head>>
  BY <1>0 DEF Push, PushFails, ledgerVars, work, RunOK, ClaimOK, Steps
<1>2. Branch(r) \in Branches
  BY <1>1, BranchType
<1>3. /\ pc' \in [Runs -> Places] /\ pc'[r] \in {"open_pr", "terminal"}
      /\ \A s \in Runs \ {r} : pc'[s] = pc[s] /\ exit'[s] = exit[s]
      /\ UNCHANGED <<auth, pr, result>> /\ IsOver(exit)'
      /\ pc'[r] = "terminal" => exit'[r].state \in ExitStates
      /\ pc'[r] = "open_pr" => remote[Branch(r)] = None /\ remote'[Branch(r)] = r
  <2>1. CASE Push(r)
    <3>1. /\ pc' \in [Runs -> Places] /\ pc'[r] = "open_pr"
          /\ \A s \in Runs \ {r} : pc'[s] = pc[s]
          /\ UNCHANGED <<auth, pr, exit, result>>
      BY <1>0, <2>1, Moves DEF Push, Places, Steps
    <3> QED
      BY <1>0, <1>2, <2>1, <3>1 DEF Push, Pushes, GithubTyped, RunsTyped, IsOver
  <2>2. CASE PushFails(r)
    <3>1. /\ pc' \in [Runs -> Places] /\ pc'[r] = "terminal"
          /\ \A s \in Runs \ {r} : pc'[s] = pc[s] /\ exit'[s] = exit[s]
          /\ exit'[r] = [state |-> "failed", category |-> "step_failed"]
          /\ IsOver(exit)'
          /\ UNCHANGED <<auth, pr, result>>
      BY <1>0, <2>2, Moves DEF PushFails, Fail, Exit, Places, Steps
    <3> QED
      BY <3>1 DEF ExitStates
  <2> QED
    BY <2>1, <2>2
<1>4. /\ \/ UNCHANGED <<remote, pushed>>
         \/ /\ remote[Branch(r)] = None /\ remote' = [remote EXCEPT ![Branch(r)] = r]
            /\ pushed'[r] = head[r]
      /\ \A s \in Runs \ {r} : pushed'[s] = pushed[s]
      /\ IsOver(pushed)'
  BY <1>0 DEF Push, PushFails, Pushes, RunsTyped, IsOver
<1>5. Alone(r) /\ RunOK(r)' /\ PassedInspection(r, head[r])'
  BY <1>0, <1>1, <1>3, <1>4, PublicationStep DEF RunsTyped
<1>6. GithubTyped'
  BY <1>0, <1>1, <1>4 DEF GithubTyped
<1>7. ASSUME NEW s \in Runs, pc'[s] = "open_pr"
      PROVE  (remote[Branch(s)] = s)'
  <2>1. CASE s = r
    BY <1>3, <1>7, <2>1 DEF Branch
  <2>2. CASE s # r
    <3>1. remote[Branch(s)] = s /\ Branch(s)' = Branch(s)
      BY <1>0, <1>3, <1>7, <2>2 DEF GithubOK, Branch
    <3>2. s # None
      BY RunnerAssumption
    <3>3. Branch(s) \in Branches
      BY <1>3, <1>7, <2>2, BranchType DEF PInv, RunOK, ClaimOK, Steps
    <3> QED
      BY <1>0, <1>4, <3>1, <3>2, <3>3 DEF GithubTyped
  <2> QED
    BY <2>1, <2>2
<1>8. ASSUME NEW s \in Runs, NEW b \in Branches, remote'[b] = s
      PROVE  pc'[s] \in Published /\ PassedInspection(s, pushed[s])'
  <2>1. CASE s = r
    <3>1. ~ UNCHANGED <<remote, pushed>>
      BY <1>0, <1>1, <1>8, <2>1 DEF GithubOK, Published
    <3>2. pushed'[r] = head[r] /\ UNCHANGED head
      BY <1>1, <1>4, <3>1
    <3> QED
      BY <1>3, <1>5, <2>1, <3>2 DEF Published
  <2>2. CASE s # r
    <3>1. remote[b] = s
      BY <1>0, <1>4, <1>8, <2>2 DEF GithubTyped
    <3>2. pc[s] \in Published /\ PassedInspection(s, pushed[s])
      BY <1>0, <3>1 DEF GithubOK
    <3> QED
      BY <1>1, <1>3, <1>4, <2>2, <3>2 DEF PassedInspection
  <2> QED
    BY <2>1, <2>2
<1>9. PullRequestIsOwn'
  BY <1>0, <1>1, <1>3 DEF GithubOK, PullRequestIsOwn
<1> QED
  BY <1>1, <1>5, <1>6, <1>7, <1>8, <1>9 DEF GithubOK

\* The pull request is opened for what the branch points to: the run's own
\* commit, since nobody has taken the branch from it.
LEMMA PullRequestSteps ==
  ASSUME PInv, NEW r \in Runs, CreatePullRequest(r) \/ PullRequestFails(r)
  PROVE  Alone(r) /\ RunOK(r)' /\ GithubTyped' /\ GithubOK' /\ UNCHANGED owner
<1>0. RunsTyped /\ GithubTyped /\ GithubOK /\ RunOK(r)
  BY DEF PInv
<1>1. /\ pc[r] = "open_pr"
      /\ UNCHANGED <<owner, log, remote, worker, tree, paths, head, pushed>>
  BY DEF CreatePullRequest, PullRequestFails, ledgerVars, work
<1>2. remote[Branch(r)] = r
  BY <1>0, <1>1 DEF GithubOK
<1>3. /\ pc' \in [Runs -> Places] /\ pc'[r] \in {"record_pr", "terminal"}
      /\ \A s \in Runs \ {r} :
           pc'[s] = pc[s] /\ pr'[s] = pr[s] /\ exit'[s] = exit[s]
      /\ UNCHANGED <<auth, result>> /\ IsOver(exit)'
      /\ pr' \in [Runs -> Prs \cup {None}]
      /\ pc'[r] = "terminal" => exit'[r].state \in ExitStates
  <2>1. CASE CreatePullRequest(r)
    BY <1>0, <2>1 DEF CreatePullRequest, RunsTyped, IsOver, Places, Steps
  <2>2. CASE PullRequestFails(r)
    <3>1. /\ pc' \in [Runs -> Places] /\ pc'[r] = "terminal"
          /\ \A s \in Runs \ {r} : pc'[s] = pc[s] /\ exit'[s] = exit[s]
          /\ exit'[r] = [state |-> "failed", category |-> "step_failed"]
          /\ IsOver(exit)'
          /\ UNCHANGED <<auth, pr, result>>
      BY <1>0, <2>2, Moves DEF PullRequestFails, Fail, Exit, Places, Steps
    <3> QED
      BY <1>0, <3>1 DEF RunsTyped, ExitStates
  <2> QED
    BY <2>1, <2>2
<1>4. Alone(r) /\ RunOK(r)'
  BY <1>0, <1>1, <1>3, PublicationStep DEF RunsTyped, IsOver
<1>5. /\ \A p \in Prs : prHead'[p] \in {prHead[p], r}
      /\ \A p \in Prs : prHead[p] # None => prHead'[p] = prHead[p]
      /\ GithubTyped'
      /\ pr'[r] # pr[r] => pr'[r] \in Prs /\ prHead'[pr'[r]] = r
  <2>1. ASSUME NEW p \in Prs, Opened(r, p)
        PROVE  /\ prHead[p] = None /\ prHead'[p] = r
               /\ \A q \in Prs \ {p} : prHead'[q] = prHead[q]
               /\ GithubTyped'
    BY <1>0, <1>1, <1>2, <2>1 DEF Opened, GithubTyped
  <2>2. CASE CreatePullRequest(r)
    <3> PICK p \in Prs : Opened(r, p) /\ pr' = [pr EXCEPT ![r] = p]
      BY <2>2 DEF CreatePullRequest
    <3>1. pr'[r] = p
      BY <1>0 DEF RunsTyped
    <3> QED
      BY <2>1, <3>1
  <2>3. CASE PullRequestFails(r)
    <3>1. pr' = pr
      BY <2>3 DEF PullRequestFails, Fail, Exit, ExitAfter
    <3>2. (\E p \in Prs : Opened(r, p)) \/ prHead' = prHead
      BY <2>3 DEF PullRequestFails
    <3>3. prHead' = prHead => GithubTyped'
      BY <1>0, <1>1 DEF GithubTyped
    <3> QED
      BY <2>1, <3>1, <3>2, <3>3
  <2> QED
    BY <2>2, <2>3
<1>6. ASSUME NEW s \in Runs, pc'[s] = "open_pr"
      PROVE  (remote[Branch(s)] = s)'
  BY <1>0, <1>1, <1>3, <1>6 DEF GithubOK, Branch
<1>7. ASSUME NEW s \in Runs, NEW b \in Branches, remote'[b] = s
      PROVE  pc'[s] \in Published /\ PassedInspection(s, pushed[s])'
  <2>1. pc[s] \in Published /\ PassedInspection(s, pushed[s])
    BY <1>0, <1>1, <1>7 DEF GithubOK
  <2> QED
    BY <1>1, <1>3, <2>1 DEF PassedInspection, Published
<1>8. ASSUME NEW s \in Runs, pr'[s] # None
      PROVE  prHead'[pr'[s]] = s
  <2>1. CASE pr'[s] # pr[s]
    BY <1>3, <1>5, <2>1
  <2>2. CASE pr'[s] = pr[s]
    <3>1. pr[s] \in Prs /\ prHead[pr[s]] = s /\ s # None
      BY <1>0, <1>8, <2>2, RunnerAssumption DEF GithubOK, PullRequestIsOwn, RunsTyped
    <3> QED
      BY <1>5, <2>2, <3>1
  <2> QED
    BY <2>1, <2>2
<1> QED
  BY <1>1, <1>4, <1>5, <1>6, <1>7, <1>8 DEF GithubOK, PullRequestIsOwn

-----------------------------------------------------------------------------
(***************************************************************************)
(* The world around a run, and all steps together.                         *)
(***************************************************************************)

LEMMA WorldSteps ==
  ASSUME PInv, NEW r \in Runs, Crash(r) \/ WorkerActs(r) \/ WorkerExits(r)
  PROVE  Alone(r) /\ RunOK(r)' /\ Quiet(r) /\ UNCHANGED owner
<1>0. LedgerTyped /\ RunsTyped /\ RunOK(r)
  BY DEF PInv
<1>1. UNCHANGED <<owner, log, auth, paths, pushed, pr, exit, result, remote, prHead>>
  BY DEF Crash, WorkerActs, WorkerExits, ledgerVars, github, work, outcome
<1>2. CASE Crash(r)
  <2>1. /\ pc' \in [Runs -> Places] /\ pc'[r] = "crashed"
        /\ pc[r] # "idle" /\ pc[r] # "done"
        /\ \A s \in Runs \ {r} : pc'[s] = pc[s]
        /\ UNCHANGED <<worker, tree, head>>
    BY <1>0, <1>2 DEF Crash, RunsTyped, Places, Active, Preclaim, Steps, work
  <2>2. Alone(r)
    BY <1>0, <1>1, <2>1 DEF Alone, LedgerTyped, RunsTyped, IsOver
  <2>3. ClaimOK(r)' /\ WorkerOK(r)' /\ TreeOK(r)'
    BY <1>0, <1>1, <2>1 DEF RunOK, ClaimOK, WorkerOK, TreeOK, Preclaim, Steps,
       Inspecting, Publishing, Latest
  <2>4. AuditOK(r)' /\ ResultOK(r)'
    BY <1>0, <1>1, <2>1 DEF RunOK, AuditOK, ResultOK, Prompted, Recorded, Inspecting,
       Latest
  <2> QED
    BY <1>1, <2>1, <2>2, <2>3, <2>4 DEF RunOK, Quiet, Published
<1>3. CASE WorkerActs(r)
  <2>1. /\ worker[r] \in {"prompted", "left_behind"} /\ UNCHANGED <<pc, worker>>
        /\ \A s \in Runs \ {r} : tree'[s] = tree[s] /\ head'[s] = head[s]
        /\ IsOver(tree)' /\ IsOver(head)'
    BY <1>0, <1>3 DEF WorkerActs, RunsTyped, IsOver
  <2>2. Alone(r)
    BY <1>0, <1>1, <2>1 DEF Alone, LedgerTyped, RunsTyped, IsOver
  <2>3. ClaimOK(r)' /\ WorkerOK(r)' /\ TreeOK(r)'
    BY <1>0, <1>1, <2>1 DEF RunOK, ClaimOK, WorkerOK, TreeOK, Prompted, PassedInspection,
       Inspecting, Publishing, Latest
  <2>4. AuditOK(r)' /\ ResultOK(r)'
    BY <1>0, <1>1, <2>1 DEF RunOK, AuditOK, ResultOK, Prompted, Recorded, Latest
  <2> QED
    BY <1>1, <2>1, <2>2, <2>3, <2>4 DEF RunOK, Quiet
<1>4. CASE WorkerExits(r)
  <2>1. /\ worker[r] = "prompted" /\ UNCHANGED <<pc, tree, head>>
        /\ worker' \in [Runs -> Workers] /\ worker'[r] \in {"dead", "left_behind"}
        /\ \A s \in Runs \ {r} : worker'[s] = worker[s]
    BY <1>0, <1>4 DEF WorkerExits, RunsTyped, Workers
  <2>2. Alone(r)
    BY <1>0, <1>1, <2>1 DEF Alone, LedgerTyped, RunsTyped, IsOver
  <2>3. ClaimOK(r)' /\ WorkerOK(r)' /\ TreeOK(r)'
    BY <1>0, <1>1, <2>1 DEF RunOK, ClaimOK, WorkerOK, TreeOK, Prompted, Inspecting,
       Publishing, Latest
  <2>4. AuditOK(r)' /\ ResultOK(r)'
    BY <1>0, <1>1, <2>1 DEF RunOK, AuditOK, ResultOK, Prompted, Recorded, Latest
  <2> QED
    BY <1>0, <1>1, <2>1, <2>2, <2>3, <2>4 DEF RunOK, Quiet
<1> QED
  BY <1>2, <1>3, <1>4

\* The operator removes nothing that an active run has published.
LEMMA OperatorSteps ==
  ASSUME PInv,
         \/ \E b \in Branches : OperatorDeletesRemote(b)
         \/ \E c \in Clones, b \in Branches : OperatorDeletesLocal(c, b)
         \/ UNCHANGED vars
  PROVE  PInv'
<1>1. UNCHANGED <<owner, log, prHead, pc, auth, worker, tree, paths, head, pushed, pr,
                  exit, result>>
  BY DEF OperatorDeletesRemote, OperatorDeletesLocal, vars, ledgerVars, github, work,
         outcome
<1>2. LedgerTyped' /\ RunsTyped' /\ LedgerOK'
  BY <1>1 DEF PInv, LedgerTyped, RunsTyped, IsOver, LedgerOK, Claimed
<1>3. ASSUME NEW r \in Runs PROVE RunOK(r)'
  <2>1. RunOK(r)
    BY DEF PInv
  <2>2. ClaimOK(r)' /\ WorkerOK(r)' /\ AuditOK(r)'
    BY <1>1, <2>1 DEF RunOK, ClaimOK, WorkerOK, AuditOK, Prompted, Recorded, Latest
  <2>3. ResultOK(r)' /\ TreeOK(r)'
    BY <1>1, <2>1 DEF RunOK, ResultOK, TreeOK, PassedInspection, Latest
  <2> QED
    BY <2>2, <2>3 DEF RunOK
<1>4. /\ GithubTyped'
      /\ \A b \in Branches : remote'[b] \in {remote[b], None}
      /\ \A b \in Branches : remote[b] \in Active => remote'[b] = remote[b]
  <2>1. GithubTyped
    BY DEF PInv
  <2>2. CASE \E b \in Branches : OperatorDeletesRemote(b)
    BY <1>1, <2>1, <2>2 DEF OperatorDeletesRemote, GithubTyped
  <2>3. CASE UNCHANGED remote
    BY <1>1, <2>1, <2>3 DEF GithubTyped
  <2> QED
    BY <2>2, <2>3 DEF OperatorDeletesLocal, github, vars
<1>5. ASSUME NEW r \in Runs, pc'[r] = "open_pr"
      PROVE  (remote[Branch(r)] = r)'
  <2>1. remote[Branch(r)] = r /\ r \in Active /\ Branch(r)' = Branch(r)
    BY <1>1, <1>5 DEF PInv, GithubOK, Active, Steps, Branch
  <2>2. Branch(r) \in Branches
    BY <1>1, <1>5, BranchType DEF PInv, RunOK, ClaimOK, Steps
  <2> QED
    BY <1>4, <2>1, <2>2
<1>6. ASSUME NEW r \in Runs, NEW b \in Branches, remote'[b] = r
      PROVE  pc'[r] \in Published /\ PassedInspection(r, pushed[r])'
  <2>1. remote[b] = r
    BY <1>4, <1>6, RunnerAssumption
  <2> QED
    BY <1>1, <2>1 DEF PInv, GithubOK, PassedInspection
<1>7. PullRequestIsOwn'
  BY <1>1 DEF PInv, GithubOK, PullRequestIsOwn
<1> QED
  BY <1>2, <1>3, <1>4, <1>5, <1>6, <1>7 DEF PInv, GithubOK

LEMMA NextPInv == PInv /\ [Next]_vars => PInv'
<1> SUFFICES ASSUME PInv, [Next]_vars PROVE PInv'
  OBVIOUS
<1>0. LedgerOK /\ GithubTyped /\ GithubOK
  BY DEF PInv
<1>1. ASSUME NEW r \in Runs, Alone(r), RunOK(r)', LedgerOK', GithubTyped', GithubOK'
      PROVE  PInv'
  <2>1. \A s \in Runs \ {r} : RunOK(s)'
    BY <1>1, OthersStay DEF PInv
  <2> QED
    BY <1>1, <2>1 DEF PInv, Alone
<1>2. ASSUME NEW r \in Runs, Alone(r), RunOK(r)', LedgerOK', Quiet(r)
      PROVE  PInv'
  BY <1>0, <1>1, <1>2, QuietKeepsGithub
<1>3. UNCHANGED owner => LedgerOK'
  BY <1>0 DEF LedgerOK, Claimed
<1>4. ASSUME NEW r \in Runs, Start(r) \/ RunStep(r) \/ Crash(r) \/ WorkerActs(r)
                             \/ WorkerExits(r) \/ Cancel(r) \/ StreamFails(r)
      PROVE  PInv'
  <2>1. CASE \/ Start(r) \/ GateFails(r) \/ LocalGate(r) \/ RemoteGate(r) \/ PrGate(r)
             \/ StartProbe(r) \/ EndProbe(r) \/ ClaimConflict(r) \/ ClaimUnavailable(r)
    BY <1>2, <1>3, <2>1, PreclaimSteps
  <2>2. CASE ClaimCreated(r) \/ ClaimUncertain(r)
    BY <1>2, <2>2, ClaimSteps
  <2>3. CASE CreateWorktree(r) \/ WorktreeFails(r) \/ Launch(r)
    BY <1>2, <1>3, <2>3, LaunchSteps
  <2>4. CASE \/ SubmitPrompt(r) \/ InvocationEnds(r) \/ TimeOut(r) \/ Cancel(r)
             \/ StreamFails(r) \/ Drain(r)
    BY <1>2, <1>3, <2>4, InvocationSteps
  <2>5. CASE \/ InspectDiff(r) \/ RunValidations(r) \/ InspectDiffAgain(r)
             \/ CommitChanges(r) \/ VerifyCommit(r) \/ RemoteGateAgain(r)
             \/ PrGateAgain(r) \/ StepFails(r)
    BY <1>2, <1>3, <2>5, InspectionSteps
  <2>6. CASE RecordStarting(r) \/ RecordStarted(r) \/ RecordPr(r) \/ RecordExit(r)
    BY <1>2, <1>3, <2>6, RecordSteps
  <2>7. CASE Push(r) \/ PushFails(r)
    BY <1>1, <1>3, <2>7, PushSteps
  <2>8. CASE CreatePullRequest(r) \/ PullRequestFails(r)
    BY <1>1, <1>3, <2>8, PullRequestSteps
  <2>9. CASE Crash(r) \/ WorkerActs(r) \/ WorkerExits(r)
    BY <1>2, <1>3, <2>9, WorldSteps
  <2> QED
    BY <1>4, <2>1, <2>2, <2>3, <2>4, <2>5, <2>6, <2>7, <2>8, <2>9 DEF RunStep
<1> QED
  BY <1>4, OperatorSteps DEF Next

LEMMA PInvHolds == Spec => []PInv
<1>1. Init => PInv
  BY InitPInv
<1>2. PInv /\ [Next]_vars => PInv'
  BY NextPInv
<1> QED
  BY <1>1, <1>2, PTL DEF Spec

-----------------------------------------------------------------------------
(***************************************************************************)
(* What a run knows of its log.  A run that knows all of it knows a legal  *)
(* chain which has come as far as the run has; once an event was appended  *)
(* that it was not told of, it never catches up.                           *)
(***************************************************************************)

Claiming == {"worktree", "record_starting"}

Starting == {"launch", "record_started"}

Started == {"prompt", "working"} \cup Inspecting

HeadFits(r) ==
  /\ ChainOK(log[r])
  /\ Latest(log[r]).next \in Working
  /\ pc[r] \in Claiming => Latest(log[r]).next = "claim_created"
  /\ pc[r] \in Starting => Latest(log[r]).next = "invocation_starting"
  /\ pc[r] \in Started => Latest(log[r]).next = "invocation_started"

KnownOK(r) ==
  /\ known[r] \in Nat /\ known[r] <= Len(log[r])
  /\ pc[r] \in Steps /\ known[r] = Len(log[r]) => HeadFits(r)
  /\ pc[r] = "record_pr" => pr[r] \in Prs

KInv == IsOver(known) /\ \A r \in Runs : KnownOK(r)

LEMMA InitKInv == Init => KInv
<1> SUFFICES ASSUME Init PROVE KInv
  OBVIOUS
<1>1. IsOver(known)
  BY DEF Init, IsOver
<1>2. ASSUME NEW r \in Runs PROVE KnownOK(r)
  <2>1. known[r] = 0 /\ log[r] = <<>> /\ pc[r] = "idle"
    BY DEF Init, LedgerInit, Runs
  <2> QED
    BY <2>1 DEF KnownOK, Steps
<1> QED
  BY <1>1, <1>2 DEF KInv

\* Every step of a run leaves the other runs alone.
LEMMA StepsAreAlone ==
  ASSUME PInv, NEW r \in Runs,
         \/ Start(r) \/ RunStep(r) \/ Crash(r) \/ WorkerActs(r) \/ WorkerExits(r)
         \/ Cancel(r) \/ StreamFails(r)
  PROVE  Alone(r)
<1>1. CASE \/ Start(r) \/ GateFails(r) \/ LocalGate(r) \/ RemoteGate(r) \/ PrGate(r)
           \/ StartProbe(r) \/ EndProbe(r) \/ ClaimConflict(r) \/ ClaimUnavailable(r)
           \/ ClaimCreated(r) \/ ClaimUncertain(r)
  BY <1>1, PreclaimSteps, ClaimSteps
<1>2. CASE \/ CreateWorktree(r) \/ WorktreeFails(r) \/ Launch(r) \/ SubmitPrompt(r)
           \/ InvocationEnds(r) \/ TimeOut(r) \/ Cancel(r) \/ StreamFails(r) \/ Drain(r)
  BY <1>2, LaunchSteps, InvocationSteps
<1>3. CASE \/ InspectDiff(r) \/ RunValidations(r) \/ InspectDiffAgain(r)
           \/ CommitChanges(r) \/ VerifyCommit(r) \/ RemoteGateAgain(r)
           \/ PrGateAgain(r) \/ StepFails(r)
           \/ RecordStarting(r) \/ RecordStarted(r) \/ RecordPr(r) \/ RecordExit(r)
  BY <1>3, InspectionSteps, RecordSteps
<1>4. CASE \/ Push(r) \/ PushFails(r) \/ CreatePullRequest(r) \/ PullRequestFails(r)
           \/ Crash(r) \/ WorkerActs(r) \/ WorkerExits(r)
  BY <1>4, PushSteps, PullRequestSteps, WorldSteps
<1> QED
  BY <1>1, <1>2, <1>3, <1>4 DEF RunStep

\* A step that records nothing stays where the log is, or gives up.
Onward(r) ==
  /\ pc'[r] \in Steps => pc[r] \in Steps
  /\ pc'[r] \in Claiming => pc[r] \in Claiming
  /\ pc'[r] \in Starting => pc[r] \in Starting
  /\ pc'[r] \in Started => pc[r] \in Started

LEMMA OnwardKeepsKnown ==
  ASSUME NEW r \in Runs, KnownOK(r), log'[r] = log[r], known'[r] = known[r], Onward(r),
         pc'[r] = "record_pr" => pr'[r] \in Prs
  PROVE  KnownOK(r)'
<1>1. HeadFits(r) => HeadFits(r)'
  BY DEF HeadFits, Onward, Latest
<1> QED
  BY <1>1 DEF KnownOK, Onward

\* Every step of a run but its claim, its records and the opening of its pull
\* request is of that kind.
LEMMA MostStepsGoOnward ==
  ASSUME RunsTyped, NEW r \in Runs,
         \/ Start(r) \/ GateFails(r) \/ LocalGate(r) \/ RemoteGate(r) \/ PrGate(r)
         \/ StartProbe(r) \/ EndProbe(r) \/ ClaimConflict(r) \/ ClaimUnavailable(r)
         \/ CreateWorktree(r) \/ WorktreeFails(r) \/ Launch(r) \/ SubmitPrompt(r)
         \/ InvocationEnds(r) \/ TimeOut(r) \/ Cancel(r) \/ StreamFails(r) \/ Drain(r)
         \/ InspectDiff(r) \/ RunValidations(r) \/ InspectDiffAgain(r)
         \/ CommitChanges(r) \/ VerifyCommit(r) \/ RemoteGateAgain(r)
         \/ PrGateAgain(r) \/ StepFails(r)
         \/ Push(r) \/ PushFails(r) \/ PullRequestFails(r)
         \/ Crash(r) \/ WorkerActs(r) \/ WorkerExits(r)
  PROVE  /\ UNCHANGED <<log, known>>
         /\ Onward(r) /\ (pc'[r] = "record_pr" => pc[r] = "record_pr" /\ pr'[r] = pr[r])
<1> USE DEF Onward, Preclaim, Steps, Claiming, Starting, Started, Inspecting, ledgerVars
<1> DEFINE Fine == Onward(r) /\ pc'[r] # "record_pr"
<1>1. /\ \A to \in Places : Goto(r, to) => pc'[r] = to
      /\ \A category : Block(r, category) => pc'[r] = "done"
      /\ \A to \in {"terminal", "draining"} : \A state, category :
           ExitAfter(r, to, state, category) => pc'[r] = to
  BY DEF RunsTyped, Goto, Block, ExitAfter
<1>2. /\ \A state, category : Exit(r, state, category) => pc'[r] = "terminal"
      /\ Fail(r) => pc'[r] = "terminal"
      /\ \A state, category :
           Terminate(r, state, category) => pc'[r] \in {"terminal", "draining"}
  BY <1>1 DEF Exit, Fail, Terminate
<1>3. CASE \/ GateFails(r) \/ LocalGate(r) \/ RemoteGate(r) \/ PrGate(r)
           \/ StartProbe(r) \/ EndProbe(r) \/ ClaimConflict(r) \/ ClaimUnavailable(r)
  <2>1. /\ UNCHANGED <<log, known>>
        /\ pc'[r] \in Preclaim \cup {"done"}
    BY <1>1, <1>3 DEF GateFails, LocalGate, RemoteGate, PrGate, StartProbe, EndProbe,
       ClaimConflict, ClaimUnavailable, Places
  <2> QED
    BY <2>1
<1>4. CASE Start(r)
  BY <1>4 DEF Start, RunsTyped
<1>5. CASE CreateWorktree(r) \/ WorktreeFails(r) \/ Launch(r) \/ SubmitPrompt(r)
  <2>1. /\ UNCHANGED <<log, known>>
        /\ \/ pc[r] = "worktree" /\ pc'[r] \in {"record_starting", "terminal"}
           \/ pc[r] = "launch" /\ pc'[r] \in {"record_started", "terminal"}
           \/ pc[r] = "prompt" /\ pc'[r] = "working"
    BY <1>1, <1>2, <1>5 DEF CreateWorktree, WorktreeFails, Launch, SubmitPrompt, Places
  <2> QED
    BY <2>1
<1>6. CASE InvocationEnds(r) \/ TimeOut(r) \/ Cancel(r) \/ StreamFails(r) \/ Drain(r)
  <2>1. /\ UNCHANGED <<log, known>>
        /\ pc[r] \in {"prompt", "working", "draining"}
        /\ \/ pc[r] = "working" /\ pc'[r] = "diff"
           \/ pc'[r] \in {"terminal", "draining"}
    BY <1>1, <1>2, <1>6 DEF InvocationEnds, TimeOut, Cancel, StreamFails, Drain, Places
  <2> QED
    BY <2>1
<1>7. CASE \/ InspectDiff(r) \/ RunValidations(r) \/ InspectDiffAgain(r)
           \/ CommitChanges(r) \/ VerifyCommit(r) \/ RemoteGateAgain(r)
           \/ PrGateAgain(r) \/ StepFails(r)
           \/ Push(r) \/ PushFails(r) \/ PullRequestFails(r)
  <2>1. /\ UNCHANGED <<log, known>>
        /\ pc[r] \in Inspecting
        /\ pc'[r] \in (Inspecting \ {"record_pr"}) \cup {"terminal"}
    <3>1. CASE InspectDiff(r) \/ RunValidations(r) \/ InspectDiffAgain(r) \/ StepFails(r)
      BY <1>1, <1>2, <3>1 DEF InspectDiff, RunValidations, InspectDiffAgain, StepFails,
         Places
    <3>2. CASE CommitChanges(r) \/ VerifyCommit(r) \/ RemoteGateAgain(r) \/ PrGateAgain(r)
      BY <1>1, <1>2, <3>2 DEF CommitChanges, VerifyCommit, RemoteGateAgain, PrGateAgain,
         Places
    <3>3. CASE Push(r) \/ PushFails(r) \/ PullRequestFails(r)
      BY <1>1, <1>2, <3>3 DEF Push, PushFails, PullRequestFails, Places
    <3> QED
      BY <1>7, <3>1, <3>2, <3>3
  <2> QED
    BY <2>1
<1>8. CASE Crash(r)
  BY <1>8 DEF Crash, RunsTyped
<1>9. CASE WorkerActs(r) \/ WorkerExits(r)
  BY <1>9 DEF WorkerActs, WorkerExits, outcome
<1> QED
  BY <1>3, <1>4, <1>5, <1>6, <1>7, <1>8, <1>9

\* The claim starts a legal chain.
LEMMA ClaimsAreKnown ==
  ASSUME PInv, KInv, NEW r \in Runs, ClaimCreated(r) \/ ClaimUncertain(r)
  PROVE  IsOver(known)' /\ KnownOK(r)' /\ \A s \in Runs \ {r} : known'[s] = known[s]
<1>0. RunsTyped /\ LedgerTyped /\ ClaimOK(r) /\ KnownOK(r) /\ IsOver(known)
  BY DEF PInv, KInv, RunOK
<1>1. log[r] = <<>> /\ known[r] = 0
  BY <1>0 DEF ClaimCreated, ClaimUncertain, Preclaim, ClaimOK, KnownOK
<1>2. ChainOK(<<FirstEvent>>) /\ Latest(<<FirstEvent>>).next = "claim_created"
  <2>1. Required("claim_not_started", "claim_created") = {}
    BY ExitsDomain DEF Required, ExitStates
  <2>2. EventOK(FirstEvent)
    BY <2>1, NoPrAssumption DEF EventOK, FirstEvent, Transitions
  <2> QED
    BY <2>2 DEF ChainOK, Latest, FirstEvent
<1>3. CASE ClaimCreated(r)
  <2>1. /\ log'[r] = <<FirstEvent>> /\ known'[r] = 1 /\ pc'[r] = "worktree"
        /\ IsOver(known)' /\ \A s \in Runs \ {r} : known'[s] = known[s]
    BY <1>0, <1>3 DEF ClaimCreated, Claim, Goto, RunsTyped, LedgerTyped, IsOver, Runs
  <2>2. HeadFits(r)'
    BY <1>2, <2>1 DEF HeadFits, Working, Claiming, Starting, Started, Inspecting
  <2> QED
    BY <2>1, <2>2 DEF KnownOK
<1>4. CASE ClaimUncertain(r)
  <2>1. /\ log'[r] \in {<<FirstEvent>>, <<>>} /\ known' = known /\ pc'[r] = "done"
    BY <1>0, <1>1, <1>4 DEF ClaimUncertain, Claim, Block, RunsTyped, LedgerTyped,
       ledgerVars, Runs
  <2>2. Len(log'[r]) \in Nat
    BY <2>1
  <2> QED
    BY <1>0, <1>1, <2>1, <2>2 DEF KnownOK, Steps
<1> QED
  BY <1>3, <1>4

\* A run that knows all of its log after a request was told of the event, or
\* nothing was appended.
LEMMA RecordsAreKnown ==
  ASSUME LedgerTyped, KInv, NEW r \in Runs, log[r] # <<>>, NEW next, NEW fields, NEW p,
         Appended(r, next, fields, p) \/ NotAppended(r, next, fields, p)
  PROVE  /\ IsOver(known)' /\ \A s \in Runs \ {r} : known'[s] = known[s]
         /\ known'[r] \in Nat /\ known'[r] <= Len(log'[r])
         /\ known'[r] = Len(log'[r]) =>
              \/ UNCHANGED <<log, known>> /\ NotAppended(r, next, fields, p)
              \/ ChainOK(log'[r]) /\ Latest(log'[r]).next = next
<1> DEFINE e == NewEvent(r, next, fields, p)
           evs == log[r]
<1>0. IsOver(known) /\ known[r] \in Nat /\ known[r] <= Len(evs)
  BY DEF KInv, KnownOK
<1>1. evs \in Seq(Event) /\ Len(evs) \in Nat
  BY DEF LedgerTyped, Runs
<1>2. e.next = next
  BY DEF NewEvent, EventAfter
<1>3. ASSUME log' = [log EXCEPT ![r] = Append(@, e)], Appendable(r, next, fields, p)
      PROVE  /\ log'[r] = Append(evs, e) /\ Len(log'[r]) = Len(evs) + 1
             /\ ChainOK(log'[r]) /\ Latest(log'[r]).next = next
             /\ known[r] = Len(evs)
  <2>1. log'[r] = Append(evs, e)
    BY <1>3 DEF LedgerTyped, Runs
  <2>2. ChainOK(Append(evs, e)) /\ known[r] = Len(evs)
    BY <1>3 DEF Appendable
  <2> HIDE DEF e, evs
  <2>3. Len(Append(evs, e)) = Len(evs) + 1 /\ Latest(Append(evs, e)) = e
    BY <1>1 DEF Latest
  <2> QED
    BY <1>2, <2>1, <2>2, <2>3
<1>4. CASE Appended(r, next, fields, p)
  <2>1. known' = [known EXCEPT ![r] = @ + 1]
    BY <1>4 DEF Appended
  <2>2. /\ known'[r] = known[r] + 1 /\ IsOver(known)'
        /\ \A s \in Runs \ {r} : known'[s] = known[s]
    BY <1>0, <2>1 DEF IsOver
  <2> QED
    BY <1>0, <1>1, <1>3, <1>4, <2>2 DEF Appended
<1>5. CASE NotAppended(r, next, fields, p)
  <2>1. known' = known
    BY <1>5 DEF NotAppended
  <2>2. log' = log \/ (known[r] = Len(evs) /\ Len(log'[r]) = Len(evs) + 1)
    BY <1>3, <1>5 DEF NotAppended
  <2> QED
    BY <1>0, <1>1, <1>5, <2>1, <2>2 DEF IsOver
<1> QED
  BY <1>4, <1>5

\* The records take the chain as far as the run goes.
LEMMA RecordingKeepsKnown ==
  ASSUME PInv, KInv, NEW r \in Runs,
         RecordStarting(r) \/ RecordStarted(r) \/ RecordPr(r) \/ RecordExit(r)
  PROVE  IsOver(known)' /\ KnownOK(r)' /\ \A s \in Runs \ {r} : known'[s] = known[s]
<1>0. RunsTyped /\ LedgerTyped /\ KnownOK(r)
  BY DEF PInv, KInv
<1>1. log[r] # <<>> /\ pc[r] \in Steps
  BY DEF PInv, RunOK, ClaimOK, RecordStarting, RecordStarted, RecordPr, RecordExit, Steps
<1> DEFINE Told(next) == ChainOK(log'[r]) /\ Latest(log'[r]).next = next
<1>2. /\ \A to \in Places : Goto(r, to) => pc'[r] = to
      /\ \A status, category : Return(r, status, category) => pc'[r] = "done"
      /\ \A state, category : Exit(r, state, category) => pc'[r] = "terminal"
      /\ Fail(r) => pc'[r] = "terminal"
      /\ ExitUncertain(r) => pc'[r] = "terminal"
  BY <1>0 DEF RunsTyped, Goto, Return, Exit, ExitAfter, Fail, ExitUncertain
<1>3. ASSUME pc'[r] \in {"terminal", "done"}, NEW next \in Working \cup States,
             next \in Working \/ pc'[r] = "done",
             known'[r] \in Nat, known'[r] <= Len(log'[r]),
             known'[r] = Len(log'[r]) => UNCHANGED <<log, known>> \/ Told(next)
      PROVE  KnownOK(r)'
  <2>1. ASSUME pc'[r] = "terminal", known'[r] = Len(log'[r])
        PROVE  HeadFits(r)'
    <3>1. CASE UNCHANGED <<log, known>>
      BY <1>0, <1>1, <2>1, <3>1 DEF KnownOK, HeadFits, Claiming, Starting, Started,
         Inspecting
    <3>2. CASE Told(next)
      BY <1>3, <2>1, <3>2 DEF HeadFits, Claiming, Starting, Started, Inspecting
    <3> QED
      BY <1>3, <2>1, <3>1, <3>2
  <2> QED
    BY <1>3, <2>1 DEF KnownOK, Steps
<1>4. CASE RecordStarting(r)
  <2>1. PICK next \in {"invocation_starting"} :
          \/ Appended(r, next, {}, None) /\ Goto(r, "launch")
          \/ NotAppended(r, next, {}, None) /\ Fail(r)
    BY <1>4 DEF RecordStarting
  <2>2. /\ IsOver(known)' /\ \A s \in Runs \ {r} : known'[s] = known[s]
        /\ known'[r] \in Nat /\ known'[r] <= Len(log'[r])
        /\ known'[r] = Len(log'[r]) =>
             (UNCHANGED <<log, known>> /\ NotAppended(r, next, {}, None)) \/ Told(next)
    BY <1>0, <1>1, <2>1, RecordsAreKnown
  <2>3. CASE Fail(r)
    BY <1>2, <1>3, <2>2, <2>3 DEF Working
  <2>4. CASE Appended(r, next, {}, None) /\ Goto(r, "launch")
    <3>1. pc'[r] = "launch"
      BY <1>2, <2>4 DEF Places, Steps
    <3>2. ~ (UNCHANGED <<log, known>>)
      <4>1. known' = [known EXCEPT ![r] = @ + 1] /\ IsOver(known) /\ known[r] \in Nat
        BY <1>0, <2>4 DEF Appended, KInv, KnownOK
      <4>2. known'[r] = known[r] + 1
        BY <4>1 DEF IsOver
      <4> QED
        BY <4>1, <4>2
    <3> QED
      BY <2>2, <3>1, <3>2 DEF KnownOK, HeadFits, Working, Claiming, Starting, Started,
         Inspecting
  <2> QED
    BY <2>1, <2>2, <2>3, <2>4
<1>5. CASE RecordStarted(r)
  <2>1. PICK next \in {"invocation_started"} :
          \/ Appended(r, next, {}, None) /\ Goto(r, "prompt")
          \/ NotAppended(r, next, {}, None) /\ (Fail(r) \/ ExitUncertain(r))
    BY <1>5 DEF RecordStarted
  <2>2. /\ IsOver(known)' /\ \A s \in Runs \ {r} : known'[s] = known[s]
        /\ known'[r] \in Nat /\ known'[r] <= Len(log'[r])
        /\ known'[r] = Len(log'[r]) =>
             (UNCHANGED <<log, known>> /\ NotAppended(r, next, {}, None)) \/ Told(next)
    BY <1>0, <1>1, <2>1, RecordsAreKnown
  <2>3. CASE Fail(r) \/ ExitUncertain(r)
    BY <1>2, <1>3, <2>2, <2>3 DEF Working
  <2>4. CASE Appended(r, next, {}, None) /\ Goto(r, "prompt")
    <3>1. pc'[r] = "prompt"
      BY <1>2, <2>4 DEF Places, Steps
    <3>2. ~ (UNCHANGED <<log, known>>)
      <4>1. known' = [known EXCEPT ![r] = @ + 1] /\ IsOver(known) /\ known[r] \in Nat
        BY <1>0, <2>4 DEF Appended, KInv, KnownOK
      <4>2. known'[r] = known[r] + 1
        BY <4>1 DEF IsOver
      <4> QED
        BY <4>1, <4>2
    <3> QED
      BY <2>2, <3>1, <3>2 DEF KnownOK, HeadFits, Working, Claiming, Starting, Started,
         Inspecting
  <2> QED
    BY <2>1, <2>2, <2>3, <2>4
<1>6. CASE RecordPr(r)
  <2>1. PICK next \in {"pr_opened_and_stopped"} :
          \/ /\ Appended(r, next, PrFields, pr[r])
             /\ Return(r, "success", "pr_opened_and_stopped")
          \/ /\ NotAppended(r, next, PrFields, pr[r])
             /\ Exit(r, "failed", "publication_audit_storage_uncertain")
    BY <1>6 DEF RecordPr
  <2>2. /\ IsOver(known)' /\ \A s \in Runs \ {r} : known'[s] = known[s]
        /\ known'[r] \in Nat /\ known'[r] <= Len(log'[r])
        /\ known'[r] = Len(log'[r]) =>
             (UNCHANGED <<log, known>> /\ NotAppended(r, next, PrFields, pr[r]))
             \/ Told(next)
    BY <1>0, <1>1, <2>1, RecordsAreKnown
  <2>3. CASE pc'[r] = "done"
    BY <1>3, <2>2, <2>3 DEF States
  <2>4. CASE /\ NotAppended(r, next, PrFields, pr[r])
             /\ Exit(r, "failed", "publication_audit_storage_uncertain")
    <3>1. pc'[r] = "terminal" /\ known' = known
      BY <1>2, <2>4 DEF NotAppended
    <3>2. known'[r] = Len(log'[r]) => UNCHANGED <<log, known>>
      <4>1. CASE log' = log
        BY <3>1, <4>1
      <4>2. CASE /\ Appendable(r, next, PrFields, pr[r])
                 /\ log' = [log EXCEPT ![r] = Append(@, NewEvent(r, next, PrFields, pr[r]))]
        <5>1. log'[r] = Append(log[r], NewEvent(r, next, PrFields, pr[r]))
              /\ log[r] \in Seq(Event)
          BY <1>0, <4>2 DEF LedgerTyped, Runs
        <5>2. Len(log'[r]) = Len(log[r]) + 1 /\ Len(log[r]) \in Nat
          BY <5>1
        <5> QED
          BY <3>1, <4>2, <5>2 DEF Appendable
      <4> QED
        BY <2>4, <4>1, <4>2 DEF NotAppended
    <3> QED
      BY <1>3, <2>2, <3>1, <3>2 DEF Working
  <2> QED
    BY <1>2, <2>1, <2>2, <2>3, <2>4
<1>7. CASE RecordExit(r)
  <2>1. PICK next, fields :
          \/ Appended(r, next, fields, None)
          \/ NotAppended(r, next, fields, None)
    BY <1>7 DEF RecordExit
  <2>2. /\ IsOver(known)' /\ \A s \in Runs \ {r} : known'[s] = known[s]
        /\ known'[r] \in Nat /\ known'[r] <= Len(log'[r])
    BY <1>0, <1>1, <2>1, RecordsAreKnown
  <2>3. pc'[r] = "done"
    BY <1>2, <1>7 DEF RecordExit
  <2> QED
    BY <2>2, <2>3 DEF KnownOK, Steps
<1> QED
  BY <1>4, <1>5, <1>6, <1>7

LEMMA NextKInv == PInv /\ KInv /\ [Next]_vars => KInv'
<1> SUFFICES ASSUME PInv, KInv, [Next]_vars PROVE KInv'
  OBVIOUS
<1>0. RunsTyped /\ IsOver(known) /\ \A r \in Runs : KnownOK(r)
  BY DEF PInv, KInv
<1>1. ASSUME NEW r \in Runs, Alone(r), IsOver(known)', KnownOK(r)',
             \A s \in Runs \ {r} : known'[s] = known[s]
      PROVE  KInv'
  <2>1. ASSUME NEW s \in Runs \ {r} PROVE KnownOK(s)'
    <3>1. /\ log'[s] = log[s] /\ known'[s] = known[s] /\ pc'[s] = pc[s]
          /\ pr'[s] = pr[s] /\ KnownOK(s)
      BY <1>0, <1>1 DEF Alone
    <3> QED
      BY <3>1, OnwardKeepsKnown DEF Onward, KnownOK
  <2> QED
    BY <1>1, <2>1 DEF KInv
<1>2. ASSUME NEW r \in Runs, Start(r) \/ RunStep(r) \/ Crash(r) \/ WorkerActs(r)
                             \/ WorkerExits(r) \/ Cancel(r) \/ StreamFails(r)
      PROVE  KInv'
  <2>0. Alone(r)
    BY <1>2, StepsAreAlone
  <2>1. CASE ClaimCreated(r) \/ ClaimUncertain(r)
    BY <1>1, <2>0, <2>1, ClaimsAreKnown
  <2>2. CASE RecordStarting(r) \/ RecordStarted(r) \/ RecordPr(r) \/ RecordExit(r)
    BY <1>1, <2>0, <2>2, RecordingKeepsKnown
  <2>3. CASE CreatePullRequest(r)
    <3>1. /\ UNCHANGED <<log, known>> /\ pc[r] = "open_pr" /\ pc'[r] = "record_pr"
          /\ pr'[r] \in Prs
      BY <1>0, <2>3 DEF CreatePullRequest, RunsTyped, ledgerVars
    <3>2. Onward(r)
      BY <3>1 DEF Onward, Steps, Claiming, Starting, Started, Inspecting
    <3>3. KnownOK(r)'
      BY <1>0, <3>1, <3>2, OnwardKeepsKnown
    <3> QED
      BY <1>0, <1>1, <2>0, <3>1, <3>3 DEF IsOver
  <2>4. CASE UNCHANGED <<log, known>> /\ Onward(r)
             /\ (pc'[r] = "record_pr" => pc[r] = "record_pr" /\ pr'[r] = pr[r])
    <3>1. KnownOK(r)'
      BY <1>0, <2>4, OnwardKeepsKnown DEF KnownOK
    <3> QED
      BY <1>0, <1>1, <2>0, <2>4, <3>1 DEF IsOver
  <2> QED
    BY <1>0, <1>2, <2>1, <2>2, <2>3, <2>4, MostStepsGoOnward DEF RunStep
<1>3. ASSUME \/ \E b \in Branches : OperatorDeletesRemote(b)
             \/ \E c \in Clones, b \in Branches : OperatorDeletesLocal(c, b)
             \/ UNCHANGED vars
      PROVE  KInv'
  <2>1. UNCHANGED <<log, known, pc, pr>>
    BY <1>3 DEF OperatorDeletesRemote, OperatorDeletesLocal, vars, ledgerVars, outcome
  <2>2. ASSUME NEW r \in Runs PROVE KnownOK(r)'
    BY <1>0, <2>1, OnwardKeepsKnown DEF Onward, KnownOK
  <2> QED
    BY <1>0, <2>1, <2>2 DEF KInv, IsOver
<1> QED
  BY <1>2, <1>3 DEF Next

LEMMA KInvHolds == Spec => [](PInv /\ KInv)
<1>1. Init => PInv /\ KInv
  BY InitPInv, InitKInv
<1>2. PInv /\ KInv /\ [Next]_vars => (PInv /\ KInv)'
  BY NextPInv, NextKInv
<1> QED
  BY <1>1, <1>2, PTL DEF Spec

-----------------------------------------------------------------------------
(***************************************************************************)
(* What a run says of its worker.  SInv adds to PInv that only a failure   *)
(* is given for a worker of uncertain end, and what is recorded and        *)
(* returned then.                                                          *)
(***************************************************************************)

AtWork == {"probing", "launched", "prompted"}

StopOK(r) ==
  /\ exit[r].category = Uncertain => exit[r].state = "failed"
  /\ pc[r] \in {"draining", "terminal"} => worker[r] # "probing"
  /\ pc[r] = "done" /\ worker[r] \in AtWork =>
       /\ log[r] # <<>> => Latest(log[r]).next \notin Terminal \ {"failed"}
       /\ result[r].category \in {Uncertain, "lifecycle_storage_uncertain"}

SInv == \A r \in Runs : StopOK(r)

LEMMA InitSInv == Init => SInv
<1> SUFFICES ASSUME Init, NEW r \in Runs PROVE StopOK(r)
  BY DEF SInv
<1> QED
  BY DEF Init, NoExit, StopOK, Uncertain

\* The ways a step goes on, stops or gives up.
LEMMA StopMoves ==
  ASSUME RunsTyped, NEW r \in Runs, StopOK(r)
  PROVE  /\ \A to \in Places \ {"done", "draining", "terminal"} :
              Goto(r, to) => StopOK(r)'
         /\ \A category : Block(r, category) /\ worker'[r] \notin AtWork => StopOK(r)'
         /\ \A wait \in {"draining", "terminal"} : \A state, category :
              /\ ExitAfter(r, wait, state, category) /\ worker'[r] # "probing"
              /\ category = Uncertain => state = "failed"
              => StopOK(r)'
<1>1. ASSUME NEW to \in Places \ {"done", "draining", "terminal"}, Goto(r, to)
      PROVE  StopOK(r)'
  <2>1. pc'[r] = to /\ exit' = exit
    BY <1>1 DEF Goto, RunsTyped
  <2> QED
    BY <2>1 DEF StopOK
<1>2. ASSUME NEW category, Block(r, category), worker'[r] \notin AtWork
      PROVE  StopOK(r)'
  <2>1. pc'[r] = "done" /\ exit' = exit
    BY <1>2 DEF Block, RunsTyped
  <2> QED
    BY <1>2, <2>1 DEF StopOK
<1>3. ASSUME NEW wait \in {"draining", "terminal"}, NEW state, NEW category,
             ExitAfter(r, wait, state, category), worker'[r] # "probing",
             category = Uncertain => state = "failed"
      PROVE  StopOK(r)'
  <2>1. pc'[r] = wait /\ exit'[r] = [state |-> state, category |-> category]
    BY <1>3 DEF ExitAfter, RunsTyped, IsOver
  <2> QED
    BY <1>3, <2>1 DEF StopOK
<1> QED
  BY <1>1, <1>2, <1>3

\* Before the claim the only process is the probe's, which either is stopped or
\* is said to be of uncertain end.
LEMMA StopBeforeClaim ==
  ASSUME PInv, NEW r \in Runs, StopOK(r),
         \/ Start(r) \/ GateFails(r) \/ LocalGate(r) \/ RemoteGate(r) \/ PrGate(r)
         \/ StartProbe(r) \/ EndProbe(r) \/ ClaimConflict(r) \/ ClaimUnavailable(r)
         \/ ClaimCreated(r) \/ ClaimUncertain(r)
  PROVE  StopOK(r)'
<1>0. RunsTyped /\ ClaimOK(r) /\ WorkerOK(r)
  BY DEF PInv, RunOK
<1>1. CASE Start(r)
  <2>1. pc'[r] = "local_gate" /\ exit' = exit
    BY <1>0, <1>1 DEF Start, RunsTyped, outcome
  <2> QED
    BY <2>1 DEF StopOK
<1>2. CASE \/ GateFails(r) \/ LocalGate(r) \/ RemoteGate(r) \/ PrGate(r)
           \/ ClaimConflict(r) \/ ClaimUnavailable(r) \/ ClaimCreated(r)
           \/ ClaimUncertain(r)
  <2>1. worker'[r] = "none"
    BY <1>0, <1>2 DEF GateFails, LocalGate, RemoteGate, PrGate, ClaimConflict,
       ClaimUnavailable, ClaimCreated, ClaimUncertain, work, WorkerOK, Preclaim
  <2> QED
    BY <1>0, <1>2, <2>1, StopMoves DEF GateFails, LocalGate, RemoteGate, PrGate,
       ClaimConflict, ClaimUnavailable, ClaimCreated, ClaimUncertain, Places, Preclaim,
       Steps, AtWork
<1>3. CASE StartProbe(r)
  BY <1>0, <1>3, StopMoves DEF StartProbe, Places, Preclaim
<1>4. CASE EndProbe(r)
  <2>1. CASE worker' = [worker EXCEPT ![r] = "none"]
    <3>1. worker'[r] = "none"
      BY <1>0, <2>1 DEF RunsTyped
    <3>2. Goto(r, "claim") \/ \E category : Block(r, category)
      BY <1>4 DEF EndProbe
    <3> QED
      BY <1>0, <3>1, <3>2, StopMoves DEF Places, Preclaim, AtWork
  <2>2. CASE Block(r, Uncertain)
    <3>1. pc'[r] = "done" /\ exit' = exit /\ result'[r].category = Uncertain
      BY <1>0, <2>2 DEF Block, RunsTyped, IsOver
    <3>2. log'[r] = <<>>
      BY <1>0, <1>4 DEF EndProbe, ClaimOK, Preclaim, ledgerVars
    <3> QED
      BY <3>1, <3>2 DEF StopOK
  <2> QED
    BY <1>4, <2>1, <2>2 DEF EndProbe, Uncertain
<1> QED
  BY <1>1, <1>2, <1>3, <1>4

\* Until the end is recorded, a run goes on or is to record a failure; nothing
\* of its worker is then the probe's.
LEMMA StopBeforeRecord ==
  ASSUME PInv, NEW r \in Runs, StopOK(r),
         \/ CreateWorktree(r) \/ WorktreeFails(r) \/ RecordStarting(r) \/ Launch(r)
         \/ RecordStarted(r) \/ SubmitPrompt(r) \/ InvocationEnds(r) \/ TimeOut(r)
         \/ Cancel(r) \/ StreamFails(r)
         \/ InspectDiff(r) \/ RunValidations(r) \/ InspectDiffAgain(r)
         \/ CommitChanges(r) \/ VerifyCommit(r) \/ RemoteGateAgain(r)
         \/ PrGateAgain(r) \/ StepFails(r) \/ Push(r) \/ PushFails(r)
         \/ PullRequestFails(r)
  PROVE  StopOK(r)'
<1>0. RunsTyped /\ WorkerOK(r)
  BY DEF PInv, RunOK
<1> DEFINE Before ==
             {"worktree", "record_starting", "launch", "record_started", "prompt",
              "working"} \cup Inspecting
<1>1. pc[r] \in Before
  BY DEF CreateWorktree, WorktreeFails, RecordStarting, Launch, RecordStarted,
     SubmitPrompt, InvocationEnds, TimeOut, Cancel, StreamFails, InspectDiff,
     RunValidations, InspectDiffAgain, CommitChanges, VerifyCommit, RemoteGateAgain,
     PrGateAgain, StepFails, Push, PushFails, PullRequestFails, Inspecting
<1>2. worker[r] # "probing"
  BY <1>0, <1>1 DEF WorkerOK, Prompted, Inspecting
<1>3. /\ \A to \in Places \ {"done", "draining", "terminal"} : Goto(r, to) => StopOK(r)'
      /\ \A wait \in {"draining", "terminal"} : \A state, category :
           /\ ExitAfter(r, wait, state, category) /\ worker'[r] # "probing"
           /\ category = Uncertain => state = "failed"
           => StopOK(r)'
  BY <1>0, StopMoves
<1>4. Fail(r) /\ worker'[r] # "probing" => StopOK(r)'
  BY <1>3 DEF Fail, Exit
<1>5. CASE \/ CreateWorktree(r) \/ WorktreeFails(r) \/ RecordStarting(r)
           \/ InvocationEnds(r) \/ InspectDiffAgain(r) \/ VerifyCommit(r)
           \/ RemoteGateAgain(r) \/ PrGateAgain(r) \/ StepFails(r)
  <2>1. worker' = worker
    BY <1>5 DEF CreateWorktree, WorktreeFails, RecordStarting, InvocationEnds,
       InspectDiffAgain, VerifyCommit, RemoteGateAgain, PrGateAgain, StepFails, work
  <2>2. Fail(r) \/ \E to \in Places \ {"done", "draining", "terminal"} : Goto(r, to)
    BY <1>5 DEF CreateWorktree, WorktreeFails, RecordStarting, InvocationEnds,
       InspectDiffAgain, VerifyCommit, RemoteGateAgain, PrGateAgain, StepFails, Places,
       Steps
  <2> QED
    BY <1>2, <1>3, <1>4, <2>1, <2>2
<1>6. CASE \/ InspectDiff(r) \/ CommitChanges(r) \/ Push(r) \/ PushFails(r)
           \/ PullRequestFails(r)
  <2>1. worker' = worker
    BY <1>6 DEF InspectDiff, CommitChanges, Push, PushFails, PullRequestFails, work
  <2>2. Fail(r) \/ \E to \in Places \ {"done", "draining", "terminal"} : Goto(r, to)
    BY <1>6 DEF InspectDiff, CommitChanges, Push, PushFails, PullRequestFails, Places,
       Steps
  <2> QED
    BY <1>2, <1>3, <1>4, <2>1, <2>2
<1>7. CASE RunValidations(r)
  <2>1. worker'[r] # "probing"
    BY <1>0, <1>2, <1>7 DEF RunValidations, RunsTyped
  <2> QED
    BY <1>3, <1>4, <1>7, <2>1 DEF RunValidations, Places, Steps
<1>8. CASE Launch(r) \/ SubmitPrompt(r)
  BY <1>2, <1>3, <1>4, <1>8 DEF Launch, SubmitPrompt, Places, Steps
<1>9. CASE RecordStarted(r)
  <2>1. worker'[r] # "probing"
    BY <1>0, <1>2, <1>9 DEF RecordStarted, RunsTyped
  <2>2. ExitUncertain(r) => StopOK(r)'
    BY <1>3, <2>1 DEF ExitUncertain, Exit
  <2> QED
    BY <1>3, <1>4, <1>9, <2>1, <2>2 DEF RecordStarted, Places, Steps
<1>10. ASSUME NEW state, NEW category, Terminate(r, state, category),
              category # Uncertain
       PROVE  StopOK(r)'
  <2>1. CASE \E w \in IF worker[r] = "launched" THEN {"none"} ELSE {"dead", "left_behind"},
                wait \in {"terminal", "draining"} :
               /\ worker' = [worker EXCEPT ![r] = w]
               /\ ExitAfter(r, wait, state, category)
    <3>1. PICK w \in {"none", "dead", "left_behind"}, wait \in {"terminal", "draining"} :
            /\ worker' = [worker EXCEPT ![r] = w]
            /\ ExitAfter(r, wait, state, category)
      BY <2>1
    <3>2. worker'[r] # "probing"
      BY <1>0, <3>1 DEF RunsTyped
    <3> QED
      BY <1>3, <1>10, <3>1, <3>2
  <2>2. CASE /\ UNCHANGED worker
             /\ \E wait \in {"terminal", "draining"} :
                  ExitAfter(r, wait, "failed", Uncertain)
    BY <1>2, <1>3, <2>2
  <2> QED
    BY <1>10, <2>1, <2>2 DEF Terminate, Uncertain
<1>11. CASE TimeOut(r) \/ Cancel(r) \/ StreamFails(r)
  BY <1>10, <1>11 DEF TimeOut, Cancel, StreamFails, Uncertain
<1> QED
  BY <1>5, <1>6, <1>7, <1>8, <1>9, <1>11

\* The last records, and what happens around the run.
LEMMA StopAtTheEnd ==
  ASSUME PInv, NEW r \in Runs, StopOK(r),
         \/ RecordPr(r) \/ RecordExit(r) \/ CreatePullRequest(r) \/ Drain(r)
         \/ Crash(r) \/ WorkerActs(r) \/ WorkerExits(r)
  PROVE  StopOK(r)'
<1>0. LedgerTyped /\ RunsTyped /\ ClaimOK(r) /\ WorkerOK(r) /\ ResultOK(r)
  BY DEF PInv, RunOK
<1>1. CASE RecordPr(r)
  <2>1. worker'[r] \notin AtWork
    BY <1>0, <1>1 DEF RecordPr, work, WorkerOK, Inspecting, AtWork
  <2>2. CASE Exit(r, "failed", "publication_audit_storage_uncertain")
    BY <1>0, <2>1, <2>2, StopMoves DEF Exit, AtWork, Uncertain
  <2>3. CASE Return(r, "success", "pr_opened_and_stopped")
    <3>1. pc'[r] = "done" /\ exit' = exit
      BY <1>0, <2>3 DEF Return, RunsTyped
    <3> QED
      BY <2>1, <3>1 DEF StopOK
  <2> QED
    BY <1>1, <2>2, <2>3 DEF RecordPr
<1>2. CASE RecordExit(r)
  <2> DEFINE state == exit[r].state
             fields == ExitFields(r, state)
  <2>1. /\ pc[r] = "terminal" /\ worker' = worker /\ worker[r] # "probing"
        /\ state \in ExitStates /\ log[r] # <<>> /\ Latest(log[r]).next \notin Terminal
    BY <1>0, <1>2 DEF RecordExit, work, StopOK, ResultOK, ClaimOK, Steps
  <2>2. worker[r] \in AtWork => exit[r].category = Uncertain /\ state = "failed"
    BY <1>0, <2>1 DEF WorkerOK, AtWork, StopOK
  <2>3. state \in States /\ fields \in SUBSET Fields /\ None \in Prs \cup {None}
    BY <2>1, ExitFieldsType DEF ExitStates, States, Terminal
  <2>4. Appended(r, state, fields, None) \/ NotAppended(r, state, fields, None)
    BY <1>2 DEF RecordExit
  <2>5. Latest(log'[r]).next \in {state, Latest(log[r]).next}
    <3> HIDE DEF state, fields
    <3> QED
      BY <1>0, <2>1, <2>3, <2>4, LogGrows
  <2>6. /\ pc'[r] = "done" /\ exit' = exit
        /\ result'[r].category \in {exit[r].category, "lifecycle_storage_uncertain"}
    BY <1>0, <1>2 DEF RecordExit, Return, RunsTyped, IsOver
  <2>7. Latest(log'[r]) = Latest(log[r])'
    BY DEF Latest
  <2> QED
    BY <2>1, <2>2, <2>5, <2>6, <2>7 DEF StopOK
<1>3. CASE CreatePullRequest(r) \/ Crash(r)
  <2>1. pc'[r] \in {"record_pr", "crashed"} /\ exit' = exit
    BY <1>0, <1>3 DEF CreatePullRequest, Crash, RunsTyped, outcome
  <2> QED
    BY <2>1 DEF StopOK
<1>4. CASE Drain(r)
  <2>1. /\ pc[r] = "draining" /\ pc'[r] = "terminal" /\ UNCHANGED <<worker, exit>>
    BY <1>0, <1>4 DEF Drain, Goto, RunsTyped, work
  <2> QED
    BY <2>1 DEF StopOK
<1>5. CASE WorkerActs(r) \/ WorkerExits(r)
  <2>1. /\ UNCHANGED <<pc, exit, result, log>>
        /\ worker'[r] = worker[r] \/ worker'[r] \notin AtWork
    BY <1>0, <1>5 DEF WorkerActs, WorkerExits, RunsTyped, outcome, ledgerVars, AtWork
  <2> QED
    BY <2>1 DEF StopOK, Latest, AtWork
<1> QED
  BY <1>1, <1>2, <1>3, <1>4, <1>5

LEMMA NextSInv == PInv /\ SInv /\ [Next]_vars => SInv'
<1> SUFFICES ASSUME PInv, SInv, [Next]_vars, NEW s \in Runs PROVE StopOK(s)'
  BY DEF SInv
<1>0. StopOK(s)
  BY DEF SInv
<1>1. UNCHANGED <<pc[s], worker[s], exit[s], result[s], log[s]>> => StopOK(s)'
  BY <1>0 DEF StopOK, Latest
<1>2. ASSUME NEW r \in Runs, Start(r) \/ RunStep(r) \/ Crash(r) \/ WorkerActs(r)
                             \/ WorkerExits(r) \/ Cancel(r) \/ StreamFails(r)
      PROVE  StopOK(s)'
  <2>1. CASE s # r
    BY <1>1, <1>2, <2>1, StepsAreAlone DEF Alone
  <2>2. CASE s = r
    BY <1>0, <1>2, <2>2, StopBeforeClaim, StopBeforeRecord, StopAtTheEnd DEF RunStep
  <2> QED
    BY <2>1, <2>2
<1>3. CASE \/ \E b \in Branches : OperatorDeletesRemote(b)
           \/ \E c \in Clones, b \in Branches : OperatorDeletesLocal(c, b)
           \/ UNCHANGED vars
  <2>1. UNCHANGED <<log, pc, worker, exit, result>>
    BY <1>3 DEF OperatorDeletesRemote, OperatorDeletesLocal, vars, ledgerVars, work, outcome
  <2> QED
    BY <1>1, <2>1
<1> QED
  BY <1>2, <1>3 DEF Next

-----------------------------------------------------------------------------
(***************************************************************************)
(* What follows.                                                           *)
(***************************************************************************)

\* One authorization starts the worker on its task at most once, however many
\* runs race for it and wherever they stop: the prompt follows the claim, and
\* the store gives one claim (SupervisedCodexPilotRunner.run).
THEOREM AuthorizationPromptsOnce == Spec => []OnePromptPerAuthorization
<1>1. ASSUME PInv, NEW r \in Runs, NEW s \in Runs, Prompted(r), Prompted(s),
             AuthId[auth[r]] = AuthId[auth[s]]
      PROVE  r = s
  <2>1. /\ owner[r] = auth[r] /\ owner[s] = auth[s]
        /\ auth[r] # None /\ auth[s] # None
    <3>1. owner[r] = auth[r] /\ owner[s] = auth[s]
      BY <1>1 DEF PInv, RunOK, AuditOK
    <3>2. pc[r] # "idle" /\ pc[s] # "idle"
      BY <1>1 DEF PInv, RunOK, WorkerOK, Prompted
    <3>3. auth[r] \in Auths /\ auth[s] \in Auths
      BY <1>1, <3>2 DEF PInv, RunOK, ClaimOK
    <3> QED
      BY <3>1, <3>3, AuthAssumption
  <2>2. r \in Claimed /\ s \in Claimed
    BY <2>1 DEF Claimed, Runs
  <2> QED
    BY <1>1, <2>1, <2>2 DEF PInv, LedgerOK
<1>2. PInv => OnePromptPerAuthorization
  BY <1>1 DEF OnePromptPerAuthorization
<1> QED
  BY <1>2, PInvHolds, PTL

\* A prompt that the worker has was authorized in the store before it: its
\* claim and the start of the invocation are there, under this run's package
\* (on_started).
THEOREM PromptsFollowTheirRecord == Spec => []PromptsAreAudited
<1>1. PInv => PromptsAreAudited
  BY DEF PInv, RunOK, AuditOK, PromptsAreAudited
<1> QED
  BY <1>1, PInvHolds, PTL

\* What a run returns is what the store holds (_terminal_result).
THEOREM ResultsAreTrue == Spec => []ResultsAreDurable
<1>1. PInv => ResultsAreDurable
  BY DEF PInv, RunOK, ResultOK, ResultsAreDurable
<1> QED
  BY <1>1, PInvHolds, PTL

\* A run that says it is blocked consumed nothing, unless it says that it does
\* not know (SupervisedCodexPilotRunner.run).
THEOREM BlockedMeansUnclaimed == Spec => []BlockedRunsConsumeNothing
<1>1. PInv => BlockedRunsConsumeNothing
  BY DEF PInv, RunOK, ResultOK, BlockedRunsConsumeNothing
<1> QED
  BY <1>1, PInvHolds, PTL

\* The pull request a run is told of proposes its own commit
\* (push_authorized_branch, create_pull_request).
THEOREM PullRequestsAreOwn == Spec => []PullRequestIsOwn
<1>1. PInv => PullRequestIsOwn
  BY DEF PInv, GithubOK
<1> QED
  BY <1>1, PInvHolds, PTL

\* What is published, as HEAD was when it was pushed, passed the second inspection
\* and has the paths of the first, unless the worker left processes behind
\* (inspect_diff, commit_authorized_changes, push_authorized_branch).
THEOREM PublishedPassedInspection == Spec => []PublishedWasInspected
<1>1. PInv => PublishedWasInspected
  BY DEF PInv, GithubOK, PublishedWasInspected, PassedInspection
<1> QED
  BY <1>1, PInvHolds, PTL

\* While a run has not stopped its worker, it records no end of the attempt but
\* a failure, and if it returns it says that it does not know, of the worker or
\* of the record (_terminate_process_tree, _terminal_result).
THEOREM RecordedEndsAreEnds == Spec => []TerminalMeansStopped
<1>1. Init => SInv
  BY InitSInv
<1>2. PInv /\ SInv /\ [Next]_vars => SInv'
  BY NextSInv
<1>3. ASSUME PInv, SInv, NEW r \in Runs, worker[r] \in AtWork
      PROVE  /\ log[r] # <<>> => Latest(log[r]).next \notin Terminal \ {"failed"}
             /\ result[r].status # "none" =>
                  result[r].category \in {Uncertain, "lifecycle_storage_uncertain"}
  <2>1. CASE pc[r] = "done"
    BY <1>3, <2>1 DEF SInv, StopOK
  <2>2. CASE pc[r] # "done"
    BY <1>3, <2>2 DEF PInv, RunOK, ClaimOK, ResultOK, NoResult
  <2> QED
    BY <2>1, <2>2
<1>4. PInv /\ SInv => TerminalMeansStopped
  BY <1>3 DEF TerminalMeansStopped, AtWork, Uncertain
<1> QED
  BY <1>1, <1>2, <1>4, PInvHolds, PTL DEF Spec

\* Whenever a run that knows the head of its log is about to record something,
\* the store's contract has no objection: only a lost answer or a failure of
\* the store keeps a run's state from being recorded (_terminalize).
THEOREM RunsAskForLegalEvents == Spec => []RequestsAreLegal
<1>1. ASSUME PInv, KInv, NEW r \in Runs, pc[r] \in Steps, known[r] = Len(log[r])
      PROVE  /\ HeadFits(r) /\ log[r] \in Seq(Event) /\ Latest(log[r]) = log[r][known[r]]
             /\ pr[r] \in Prs \cup {None}
  BY <1>1 DEF KInv, KnownOK, PInv, LedgerTyped, RunsTyped, Runs, Latest
<1>2. ASSUME PInv, KInv, NEW r \in Runs, pc[r] \in Steps, known[r] = Len(log[r]),
             NEW next \in States, next # "completed_pending_review",
             <<Latest(log[r]).next, next>> \in Transitions,
             NEW p \in Prs \cup {None}, NEW fields,
             fields = Required(Latest(log[r]).next, next),
             p \in Prs <=> "pull_request_identity" \in fields
      PROVE  Appendable(r, next, fields, p)
  BY <1>1, <1>2, LegalMovesExtend DEF Appendable, NewEvent, HeadFits
<1>3. ASSUME PInv, KInv, NEW r \in Runs, known[r] = Len(log[r]),
             pc[r] \in {"record_starting", "record_started"}
      PROVE  /\ pc[r] = "record_starting" => Appendable(r, "invocation_starting", {}, None)
             /\ pc[r] = "record_started" => Appendable(r, "invocation_started", {}, None)
  <2>1. /\ pc[r] \in Steps
        /\ pc[r] = "record_starting" => Latest(log[r]).next = "claim_created"
        /\ pc[r] = "record_started" => Latest(log[r]).next = "invocation_starting"
    BY <1>1, <1>3 DEF Steps, HeadFits, Claiming, Starting
  <2>2. \A q : Required(q, "invocation_starting") = {} /\ Required(q, "invocation_started") = {}
    BY ExitsDomain DEF Required, ExitStates
  <2>3. /\ "invocation_starting" \in States /\ "invocation_started" \in States
        /\ <<"claim_created", "invocation_starting">> \in Transitions
        /\ <<"invocation_starting", "invocation_started">> \in Transitions
    BY DEF States, Working, Transitions
  <2>4. ASSUME NEW next \in {"invocation_starting", "invocation_started"},
               <<Latest(log[r]).next, next>> \in Transitions
        PROVE  Appendable(r, next, {}, None)
    BY <1>2, <1>3, <2>1, <2>2, <2>3, <2>4, NoPrAssumption
  <2> QED
    BY <1>3, <2>1, <2>3, <2>4
<1>4. ASSUME PInv, KInv, NEW r \in Runs, known[r] = Len(log[r]), pc[r] = "record_pr"
      PROVE  Appendable(r, "pr_opened_and_stopped", PrFields, pr[r])
  <2>1. pc[r] \in Steps /\ Latest(log[r]).next = "invocation_started" /\ pr[r] \in Prs
    BY <1>1, <1>4 DEF Steps, HeadFits, Started, Inspecting, KInv, KnownOK
  <2>2. PICK next \in {"pr_opened_and_stopped"} : TRUE
    OBVIOUS
  <2>3. /\ Required("invocation_started", next) = PrFields
        /\ "pull_request_identity" \in PrFields
    BY <2>2, ExitsDomain DEF Required, ExitStates, PrFields
  <2>4. next \in States /\ <<"invocation_started", next>> \in Transitions
    BY <2>2 DEF States, Transitions
  <2>5. Appendable(r, next, PrFields, pr[r])
    BY <1>2, <1>4, <2>1, <2>2, <2>3, <2>4
  <2> QED
    BY <2>2, <2>5
<1>5. ASSUME PInv, KInv, NEW r \in Runs, known[r] = Len(log[r]), pc[r] = "terminal"
      PROVE  Appendable(r, exit[r].state, ExitFields(r, exit[r].state), None)
  <2> DEFINE state == exit[r].state
             prev == Latest(log[r]).next
  <2>1. pc[r] \in Steps /\ prev \in Working /\ state \in ExitStates
    BY <1>1, <1>5 DEF Steps, HeadFits, PInv, RunOK, ResultOK
  <2>2. ExitFields(r, state) = Required(prev, state)
    <3>1. log[r][known[r]].next = prev
      BY <1>1, <1>5, <2>1
    <3>2. /\ state \in DOMAIN Exits
          /\ state # "pr_opened_and_stopped" /\ state # "completed_pending_review"
      BY <2>1, ExitsDomain DEF ExitStates
    <3> HIDE DEF state, prev
    <3>3. Required(prev, state) =
            Exits[state] \cup {f \in {"usage_category"} : prev = "invocation_started"}
      BY <3>2 DEF Required
    <3> QED
      BY <3>1, <3>3 DEF ExitFields
  <2>3. "pull_request_identity" \notin ExitFields(r, state)
    BY <2>1 DEF ExitFields, Exits, ExitStates
  <2>4. /\ state \in States /\ state # "completed_pending_review"
        /\ <<prev, state>> \in Transitions
    BY <2>1, ExitsDomain DEF States, Terminal, ExitStates, Transitions
  <2> QED
    BY <1>2, <1>5, <2>1, <2>2, <2>3, <2>4, NoPrAssumption
<1>6. PInv /\ KInv => RequestsAreLegal
  BY <1>3, <1>4, <1>5 DEF RequestsAreLegal
<1> QED
  BY <1>6, KInvHolds, PTL

-----------------------------------------------------------------------------
(***************************************************************************)
(* The runner and the store.                                               *)
(***************************************************************************)

\* What a run records, told or not, is one legal event at the end of its log.
LEMMA RecordsExtend ==
  ASSUME PInv, NEW r \in Runs, pc[r] \in Steps,
         NEW next \in States, NEW fields \in SUBSET Fields, NEW p \in Prs \cup {None},
         Appended(r, next, fields, p) \/ NotAppended(r, next, fields, p)
  PROVE  LedgerNext \/ UNCHANGED ledgerVars
<1> DEFINE evs == log[r]
           last == evs[Len(evs)]
           e == NewEvent(r, next, fields, p)
           longer == Append(evs, e)
<1>1. /\ evs \in Seq(Event) /\ Len(evs) \in Nat \ {0} /\ log \in [Attempts -> Seq(Event)]
      /\ owner[r] \in Auths
  BY DEF PInv, LedgerTyped, RunOK, ClaimOK, Runs
<1>2. r \in Claimed
  BY <1>1, AuthAssumption DEF Claimed, Runs
<1>3. CASE Appendable(r, next, fields, p) /\ log' = [log EXCEPT ![r] = longer]
           /\ UNCHANGED owner
  <2>1. ChainOK(longer) /\ log'[r] = longer
    BY <1>1, <1>3 DEF Appendable, Runs
  <2>2. last \in Event /\ e \in Event /\ e.prev = last.next /\ e.next = next
        /\ e.fields = fields
    <3>1. last \in Event
      BY <1>1
    <3> QED
      BY <3>1 DEF NewEvent, EventAfter, Event
  <2>3. EventOK(e)
    <3> HIDE DEF e, evs
    <3>1. Len(evs) + 1 \in DOMAIN Append(evs, e) /\ Append(evs, e)[Len(evs) + 1] = e
      BY <1>1, <2>2
    <3> QED
      BY <2>1, <3>1 DEF ChainOK
  <2>4. <<last.next, next>> \in Transitions /\ fields = Required(last.next, next)
    BY <2>2, <2>3 DEF EventOK
  <2>5. next \in Successors(r)
    BY <2>4 DEF Successors, Latest
  <2>6. e = EventAfter(log[r], next, Required(Latest(log[r]).next, next), p)
    BY <2>4 DEF NewEvent, Latest
  <2>7. Extend(r, next, p)
    BY <1>3, <2>1, <2>6 DEF Extend
  <2> QED
    BY <1>2, <2>5, <2>7 DEF LedgerNext
<1> QED
  BY <1>3 DEF Appended, NotAppended, ledgerVars

\* Seen through the claims and the logs alone, any number of runs in any number
\* of clones do nothing that the store does not promise its callers: the
\* runner relies on no more than the ledger that the store implements
\* (claim_initial, append_event as the runner calls them).
THEOREM RunnerKeepsToTheLedger == Spec => LedgerSpec
<1>1. Init => LedgerInit
  BY DEF Init
<1>2. PInv /\ [Next]_vars => [LedgerNext]_ledgerVars
  <2> SUFFICES ASSUME PInv, [Next]_vars PROVE LedgerNext \/ UNCHANGED ledgerVars
    OBVIOUS
  <2>1. ASSUME NEW r \in Runs, ClaimCreated(r) \/ ClaimUncertain(r)
        PROVE  LedgerNext \/ UNCHANGED ledgerVars
    <3>1. auth[r] \in Auths
      BY <2>1 DEF PInv, RunOK, ClaimOK, ClaimCreated, ClaimUncertain, Preclaim
    <3> QED
      BY <2>1, <3>1 DEF ClaimCreated, ClaimUncertain, LedgerNext, Runs
  <2>2. ASSUME NEW r \in Runs,
               RecordStarting(r) \/ RecordStarted(r) \/ RecordPr(r) \/ RecordExit(r)
        PROVE  LedgerNext \/ UNCHANGED ledgerVars
    <3>1. pc[r] \in Steps /\ pr[r] \in Prs \cup {None}
      BY <2>2 DEF PInv, RunsTyped, RecordStarting, RecordStarted, RecordPr, RecordExit,
         Steps
    <3>2. /\ {} \in SUBSET Fields /\ PrFields \in SUBSET Fields
          /\ pc[r] = "terminal" => /\ exit[r].state \in States
                                   /\ ExitFields(r, exit[r].state) \in SUBSET Fields
      <4>1. pc[r] = "terminal" => exit[r].state \in ExitStates
        BY DEF PInv, RunOK, ResultOK
      <4> QED
        BY <4>1, ExitFieldsType DEF PrFields, Fields, ExitStates, States, Terminal
    <3>3. PICK next \in States, fields \in SUBSET Fields, p \in Prs \cup {None} :
            Appended(r, next, fields, p) \/ NotAppended(r, next, fields, p)
      BY <2>2, <3>1, <3>2 DEF RecordStarting, RecordStarted, RecordPr, RecordExit, States,
         Working
    <3> QED
      BY <3>1, <3>3, RecordsExtend
  <2>3. ASSUME NEW r \in Runs,
               \/ Start(r) \/ RunStep(r) \/ Crash(r) \/ WorkerActs(r) \/ WorkerExits(r)
               \/ Cancel(r) \/ StreamFails(r)
        PROVE  LedgerNext \/ UNCHANGED ledgerVars
    <3>1. CASE \/ Start(r) \/ GateFails(r) \/ LocalGate(r) \/ RemoteGate(r) \/ PrGate(r)
               \/ StartProbe(r) \/ EndProbe(r) \/ ClaimConflict(r) \/ ClaimUnavailable(r)
      BY <3>1 DEF Start, GateFails, LocalGate, RemoteGate, PrGate, StartProbe, EndProbe,
         ClaimConflict, ClaimUnavailable
    <3>2. CASE \/ CreateWorktree(r) \/ WorktreeFails(r) \/ Launch(r) \/ SubmitPrompt(r)
               \/ InvocationEnds(r) \/ TimeOut(r) \/ Cancel(r) \/ StreamFails(r)
               \/ Drain(r)
      BY <3>2 DEF CreateWorktree, WorktreeFails, Launch, SubmitPrompt, InvocationEnds,
         TimeOut, Cancel, StreamFails, Drain
    <3>3. CASE \/ InspectDiff(r) \/ RunValidations(r) \/ InspectDiffAgain(r)
               \/ CommitChanges(r) \/ VerifyCommit(r) \/ RemoteGateAgain(r) \/ PrGateAgain(r)
               \/ StepFails(r)
      BY <3>3 DEF InspectDiff, RunValidations, InspectDiffAgain, CommitChanges,
         VerifyCommit, RemoteGateAgain, PrGateAgain, StepFails
    <3>4. CASE \/ Push(r) \/ PushFails(r) \/ CreatePullRequest(r) \/ PullRequestFails(r)
               \/ Crash(r) \/ WorkerActs(r) \/ WorkerExits(r)
      BY <3>4 DEF Push, PushFails, CreatePullRequest, PullRequestFails, Crash, WorkerActs,
         WorkerExits
    <3> QED
      BY <2>1, <2>2, <2>3, <3>1, <3>2, <3>3, <3>4 DEF RunStep
  <2> QED
    BY <2>3 DEF Next, OperatorDeletesRemote, OperatorDeletesLocal, vars
<1> QED
  BY <1>1, <1>2, PInvHolds, PTL DEF Spec, LedgerSpec

-----------------------------------------------------------------------------
(***************************************************************************)
(* The runner and its worker.                                              *)
(***************************************************************************)

Invoking == {"launch", "record_started", "prompt", "working", "draining"}

Stage(r) == IF pc[r] \in Invoking THEN pc[r] ELSE "ended"

Verdict(r) ==
  CASE pc[r] \in {"draining", "terminal"} ->
         IF exit[r].category = Uncertain THEN "uncertain" ELSE exit[r].state
    [] pc[r] \in Inspecting -> "completed"
    [] OTHER -> "none"

Invocation(r) ==
  INSTANCE WorkerContract WITH stage <- Stage(r), worker <- worker[r], outcome <- Verdict(r)

\* From the launch to the verdict, what happens to a run's worker is a step of
\* the contract, unless the runner dies.
InvocationsAreByContract ==
  [][\A r \in Runs :
       pc[r] \in Invoking /\ pc'[r] # "crashed" =>
         Invocation(r)!ContractNext \/ UNCHANGED Invocation(r)!contractVars]_vars

\* What a run believes of its worker, from the launch to the verdict, is what
\* the contract says that both backends keep: the run never takes a worker for
\* ended, prompted or audited that the contract would not
\* (CodexPilotSystem.invoke_codex, as run uses it).
THEOREM RunsFollowTheContract == Spec => InvocationsAreByContract
<1>1. ASSUME PInv, NEW r \in Runs, pc[r] \in Invoking, pc'[r] # "crashed",
             \/ Start(r) \/ RunStep(r) \/ Crash(r) \/ WorkerActs(r) \/ WorkerExits(r)
             \/ Cancel(r) \/ StreamFails(r)
      PROVE  Invocation(r)!ContractNext \/ UNCHANGED Invocation(r)!contractVars
  <2>0. RunsTyped /\ WorkerOK(r) /\ pc[r] \in Steps
    BY <1>1 DEF PInv, RunOK, Invoking, Steps
  <2>1. /\ \A to \in Places : Goto(r, to) => pc'[r] = to /\ UNCHANGED exit
        /\ \A to \in {"terminal", "draining"} : \A state, category :
             ExitAfter(r, to, state, category) =>
               /\ pc'[r] = to
               /\ exit'[r] = [state |-> state, category |-> category]
    BY <2>0 DEF RunsTyped, IsOver, Goto, ExitAfter
  <2>2. /\ \A state, category : Exit(r, state, category) =>
             pc'[r] = "terminal" /\ exit'[r] = [state |-> state, category |-> category]
        /\ Fail(r) =>
             pc'[r] = "terminal" /\ exit'[r] = [state |-> "failed", category |-> "step_failed"]
    BY <2>1 DEF Exit, Fail
  <2> DEFINE Cut == /\ pc[r] \in {"record_started", "prompt", "working"}
                    /\ pc'[r] \in {"draining", "terminal"}
             Gone == IF pc[r] = "working" THEN {"left_behind", "dead"} ELSE {"none"}
  <2>3. ASSUME Cut, worker'[r] \in Gone, exit'[r].category # Uncertain,
               exit'[r].state \in {"failed", "timed_out", "cancelled"}
        PROVE  Invocation(r)!ContractNext
    <3>1. /\ Stage(r) = pc[r] /\ Stage(r)' \in {"draining", "ended"}
          /\ Verdict(r)' = exit'[r].state
      BY <2>3 DEF Stage, Verdict, Invoking, Inspecting
    <3>2. Invocation(r)!CutOff
      BY <2>3, <3>1 DEF Invocation!CutOff, Invocation!Conclude
    <3> QED
      BY <3>2 DEF Invocation!ContractNext
  <2>4. ASSUME Cut, worker'[r] \in Gone \cup {worker[r]}, exit'[r].category = Uncertain
        PROVE  Invocation(r)!ContractNext
    <3>1. /\ Stage(r) = pc[r] /\ Stage(r)' \in {"draining", "ended"}
          /\ Verdict(r)' = "uncertain"
      BY <2>4 DEF Stage, Verdict, Invoking, Inspecting
    <3>2. Invocation(r)!CutOff
      BY <2>4, <3>1 DEF Invocation!CutOff, Invocation!Conclude
    <3> QED
      BY <3>2 DEF Invocation!ContractNext
  <2>5. CASE Launch(r)
    <3>1. /\ pc[r] = "launch" /\ worker[r] = "none"
          /\ \/ worker'[r] = "launched" /\ pc'[r] = "record_started"
             \/ /\ worker'[r] = "none" /\ pc'[r] = "terminal"
                /\ exit'[r] = [state |-> "failed", category |-> "step_failed"]
      BY <2>0, <2>1, <2>2, <2>5 DEF Launch, WorkerOK, RunsTyped, Places, Steps
    <3>2. Invocation(r)!Launch
      BY <3>1 DEF Invocation!Launch, Invocation!Conclude, Stage, Verdict, Invoking,
         Uncertain, Inspecting
    <3> QED
      BY <3>2 DEF Invocation!ContractNext
  <2>6. CASE RecordStarted(r)
    <3>1. CASE Goto(r, "prompt") /\ UNCHANGED worker
      <4>1. pc[r] = "record_started" /\ pc'[r] = "prompt"
        BY <2>1, <2>6, <3>1 DEF RecordStarted, Places, Steps
      <4>2. Invocation(r)!RecordStarted
        BY <3>1, <4>1 DEF Invocation!RecordStarted, Stage, Verdict, Invoking, Inspecting
      <4> QED
        BY <4>2 DEF Invocation!ContractNext
    <3>2. CASE Fail(r) /\ worker' = [worker EXCEPT ![r] = "none"]
      BY <2>0, <2>2, <2>3, <2>6, <3>2 DEF RecordStarted, RunsTyped, Uncertain
    <3>3. CASE ExitUncertain(r) /\ UNCHANGED worker
      <4>1. /\ pc[r] = "record_started" /\ pc'[r] = "terminal"
            /\ exit'[r] = [state |-> "failed", category |-> Uncertain]
        BY <2>2, <2>6, <3>3 DEF RecordStarted, ExitUncertain, Uncertain
      <4>2. exit'[r].category = Uncertain
        BY <4>1
      <4> QED
        BY <2>4, <3>3, <4>1, <4>2
    <3> QED
      BY <2>6, <3>1, <3>2, <3>3 DEF RecordStarted
  <2>7. CASE SubmitPrompt(r)
    <3>1. /\ pc[r] = "prompt" /\ pc'[r] = "working"
          /\ worker'[r] \in {"prompted", "left_behind"}
      BY <2>0, <2>1, <2>7 DEF SubmitPrompt, RunsTyped, Places, Steps
    <3>2. Invocation(r)!SubmitPrompt
      BY <3>1 DEF Invocation!SubmitPrompt, Stage, Verdict, Invoking, Inspecting
    <3> QED
      BY <3>2 DEF Invocation!ContractNext
  <2>8. CASE InvocationEnds(r)
    <3>1. /\ pc[r] = "working" /\ UNCHANGED worker /\ worker[r] \in {"left_behind", "dead"}
          /\ \/ pc'[r] = "diff"
             \/ /\ pc'[r] = "terminal"
                /\ exit'[r] = [state |-> "failed", category |-> "step_failed"]
      BY <2>0, <2>1, <2>2, <2>8 DEF InvocationEnds, WorkerOK, Prompted, work, Places, Steps
    <3>2. Invocation(r)!InvocationEnds
      BY <3>1 DEF Invocation!InvocationEnds, Invocation!Conclude, Stage, Verdict, Invoking,
         Inspecting, Uncertain
    <3> QED
      BY <3>2 DEF Invocation!ContractNext
  <2>9. ASSUME NEW state \in {"failed", "timed_out", "cancelled"},
               NEW category \in {"step_failed", "codex_timed_out", "codex_cancelled"},
               pc[r] \in {"prompt", "working"}, Terminate(r, state, category)
        PROVE  Invocation(r)!ContractNext
    <3>1. pc[r] = "prompt" => worker[r] = "launched"
      BY <2>0 DEF WorkerOK
    <3>2. pc[r] = "working" => worker[r] # "launched"
      BY <2>0 DEF WorkerOK, Prompted
    <3>3. \/ /\ worker'[r] \in Gone /\ pc'[r] \in {"draining", "terminal"}
             /\ exit'[r] = [state |-> state, category |-> category]
          \/ /\ worker'[r] = worker[r] /\ pc'[r] \in {"draining", "terminal"}
             /\ exit'[r].category = Uncertain
      <4>1. CASE \E w \in IF worker[r] = "launched" THEN {"none"} ELSE {"dead", "left_behind"},
                    wait \in {"terminal", "draining"} :
                   /\ worker' = [worker EXCEPT ![r] = w]
                   /\ ExitAfter(r, wait, state, category)
        <5>1. PICK w \in Gone, wait \in {"terminal", "draining"} :
                /\ worker' = [worker EXCEPT ![r] = w]
                /\ ExitAfter(r, wait, state, category)
          BY <2>9, <3>1, <3>2, <4>1
        <5>2. worker'[r] = w
          BY <2>0, <5>1 DEF RunsTyped
        <5> QED
          BY <2>1, <5>1, <5>2
      <4>2. CASE /\ UNCHANGED worker
                 /\ \E wait \in {"terminal", "draining"} :
                      ExitAfter(r, wait, "failed", Uncertain)
        <5>1. /\ pc'[r] \in {"draining", "terminal"}
              /\ exit'[r] = [state |-> "failed", category |-> Uncertain]
          BY <2>1, <4>2
        <5> QED
          BY <4>2, <5>1
      <4> QED
        BY <2>9, <4>1, <4>2 DEF Terminate, Uncertain
    <3>4. category # Uncertain
      BY <2>9 DEF Uncertain
    <3> QED
      BY <2>3, <2>4, <2>9, <3>3, <3>4
  <2>10. CASE TimeOut(r) \/ Cancel(r) \/ StreamFails(r)
    BY <2>9, <2>10 DEF TimeOut, Cancel, StreamFails
  <2>11. CASE Drain(r)
    <3>1. /\ pc[r] = "draining" /\ pc'[r] = "terminal" /\ UNCHANGED <<worker, exit>>
      BY <2>1, <2>11 DEF Drain, work, Places, Steps
    <3>2. Invocation(r)!Drain
      BY <3>1 DEF Invocation!Drain, Stage, Verdict, Invoking, Inspecting
    <3> QED
      BY <3>2 DEF Invocation!ContractNext
  <2>12. CASE WorkerExits(r)
    <3>1. /\ worker[r] = "prompted" /\ worker'[r] \in {"dead", "left_behind"}
          /\ UNCHANGED <<pc, exit>>
      BY <2>0, <2>12 DEF WorkerExits, RunsTyped, outcome
    <3>2. Invocation(r)!WorkerExits
      BY <3>1 DEF Invocation!WorkerExits, Stage, Verdict
    <3> QED
      BY <3>2 DEF Invocation!ContractNext
  <2>13. CASE WorkerActs(r)
    BY <2>13 DEF WorkerActs, outcome, Invocation!contractVars, Stage, Verdict
  <2>14. CASE Crash(r)
    BY <1>1, <2>0, <2>14 DEF Crash, RunsTyped
  <2>15. CASE \/ Start(r) \/ GateFails(r) \/ LocalGate(r) \/ RemoteGate(r) \/ PrGate(r)
              \/ StartProbe(r) \/ EndProbe(r)
              \/ ClaimCreated(r) \/ ClaimConflict(r) \/ ClaimUnavailable(r)
              \/ ClaimUncertain(r) \/ CreateWorktree(r) \/ WorktreeFails(r)
              \/ RecordStarting(r)
    BY <1>1, <2>15 DEF Start, GateFails, LocalGate, RemoteGate, PrGate, StartProbe, EndProbe,
       ClaimCreated, ClaimConflict, ClaimUnavailable, ClaimUncertain, CreateWorktree,
       WorktreeFails, RecordStarting, Invoking
  <2>16. CASE \/ InspectDiff(r) \/ RunValidations(r) \/ InspectDiffAgain(r)
              \/ CommitChanges(r) \/ VerifyCommit(r) \/ RemoteGateAgain(r) \/ PrGateAgain(r)
              \/ Push(r) \/ PushFails(r) \/ CreatePullRequest(r) \/ PullRequestFails(r)
              \/ RecordPr(r) \/ StepFails(r) \/ RecordExit(r)
    BY <1>1, <2>16 DEF InspectDiff, RunValidations, InspectDiffAgain, CommitChanges,
       VerifyCommit, RemoteGateAgain, PrGateAgain, Push, PushFails, CreatePullRequest, PullRequestFails,
       RecordPr, StepFails, RecordExit, Invoking
  <2> QED
    BY <1>1, <2>5, <2>6, <2>7, <2>8, <2>10, <2>11, <2>12, <2>13, <2>14, <2>15, <2>16
       DEF RunStep
<1>2. ASSUME NEW r \in Runs, UNCHANGED <<pc[r], worker[r], exit[r]>>
      PROVE  UNCHANGED Invocation(r)!contractVars
  BY <1>2 DEF Invocation!contractVars, Stage, Verdict
<1>3. ASSUME PInv, Next, NEW r \in Runs, pc[r] \in Invoking, pc'[r] # "crashed"
      PROVE  Invocation(r)!ContractNext \/ UNCHANGED Invocation(r)!contractVars
  <2>1. CASE \E s \in Runs \ {r} :
               \/ Start(s) \/ RunStep(s) \/ Crash(s) \/ WorkerActs(s) \/ WorkerExits(s)
               \/ Cancel(s) \/ StreamFails(s)
    BY <1>2, <1>3, <2>1, StepsAreAlone DEF Alone
  <2>2. CASE \/ \E b \in Branches : OperatorDeletesRemote(b)
             \/ \E c \in Clones, b \in Branches : OperatorDeletesLocal(c, b)
    <3>1. UNCHANGED <<pc, worker, exit>>
      BY <2>2 DEF OperatorDeletesRemote, OperatorDeletesLocal, work, outcome
    <3> QED
      BY <1>2, <3>1
  <2> QED
    BY <1>1, <1>3, <2>1, <2>2 DEF Next
<1>4. PInv /\ [Next]_vars =>
        [\A r \in Runs : pc[r] \in Invoking /\ pc'[r] # "crashed" =>
           Invocation(r)!ContractNext \/ UNCHANGED Invocation(r)!contractVars]_vars
  BY <1>3
<1> QED
  BY <1>4, PInvHolds, PTL DEF Spec, InvocationsAreByContract
===============================================================================
