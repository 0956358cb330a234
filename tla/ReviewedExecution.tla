-------------------------- MODULE ReviewedExecution --------------------------
(***************************************************************************)
(* The commands that take a task to a pull request (dev/codex_reviewed.py, *)
(* dev/codex_successor_reviewed.py, and their handlers in cli.py), run by  *)
(* several processes at once over control roots and claim stores that they *)
(* may share:                                                              *)
(*   successor - compile an approved proposal, then as for reviewed        *)
(*   reviewed  - load a task spec, build its package, run it               *)
(*   package   - build the package of a task spec, and stop                *)
(*   run       - run a package that is there already                       *)
(* The stages are those of Successor, PackageBuild and StoreInit; the rest *)
(* of a run is PilotRunner's, of which this module keeps what a run leaves *)
(* in the store and what it answers.                                       *)
(***************************************************************************)
EXTENDS Integers, FiniteSets

CONSTANTS
  Procs, Issues, Candidates, Deps, Bases, Roots, Stores, Old, None,
  MaxProposals, \* bound on the proposals made
  MaxChanges    \* bound on the changes of the world

VARIABLES
  head, clean, evidence, issue, fact, listed, proposals, approvals, spec,
  compiling, given, read,
  package, stage, building,
  file, lock, hot, initial, current, path, opening,
  changes,  \* how often the world has changed
  pc,       \* how far each process has got
  kind,     \* its command
  root,     \* its control root
  store,    \* its claim store
  runs,     \* the package that it runs
  life,     \* the last recorded state of its attempt
  result    \* what it reported

ASSUME IssuesAssumption == Issues \subseteq Nat /\ IsFiniteSet(Issues)

ASSUME CandidatesAssumption ==
  Candidates \subseteq [ready : BOOLEAN, priority : Nat, depends : SUBSET Deps,
                        work : {c.work : c \in Candidates}]

ASSUME NamesAssumption == None \notin Procs /\ Procs \cap Old = {}

(* A control root may hold a spec that the operator wrote himself,         *)
(* and a package that was built from one.                                  *)
OperatorSpecs ==
  [by : {None}, whole : {TRUE}, base : Bases, digest : {None}]

EarlierPackages ==
  [by : Old, stage : {"inspected"}, spec : OperatorSpecs]

(* The proposals, task specs and packages that there may be.               *)
Digests ==
  [base : Bases, issue : Issues, candidate : Candidates,
   facts : UNION {[D -> {"open", "completed", "not_planned"}] : D \in SUBSET Deps}]

Specs ==
  [by : Procs \cup {None}, whole : BOOLEAN, base : Bases, digest : Digests \cup {None}]

Packages ==
  [by : Procs \cup Old, stage : {"none", "empty", "whole", "inspected"}, spec : Specs]

ASSUME FilesAssumption == None \notin Specs \cup Packages

S == INSTANCE Successor WITH Compilers <- Procs, Nobody <- None

B == INSTANCE PackageBuild WITH Builders <- Procs, BuildRoots <- Roots,
                                NoPackage <- None, Earlier <- EarlierPackages

I == INSTANCE StoreInit WITH Openers <- Procs, Attempts <- Procs \cup Old,
                             OldAttempts <- Old

world == <<head, clean, evidence, issue, fact>>
successorVars == <<world, listed, proposals, approvals, spec, compiling, given, read>>
packageVars == <<package, stage, building>>
storeVars == <<file, lock, hot, initial, current, path, opening>>
control == <<changes, pc, kind, root, store, runs, life, result>>
vars == <<successorVars, packageVars, storeVars, control>>

Kinds == {"successor", "reviewed", "package", "run"}

Terminal == {"aborted", "failed", "cancelled", "timed_out"}

(* A control root that no process uses is empty, which loses nothing; one  *)
(* that has a package has the spec that it was built from.                 *)
RootsAreInOrder ==
  \A r \in Roots :
    /\ r \notin {root[p] : p \in Procs} => spec[r] = None
    /\ package[r] # None => spec[r] = package[r].spec

Init ==
  /\ S!SuccessorInit
  /\ spec \in [Roots -> {None} \cup OperatorSpecs]
  /\ B!PackageInit
  /\ I!StoreInit
  /\ changes = 0
  /\ pc = [p \in Procs |-> "idle"]
  /\ kind \in [Procs -> Kinds]
  /\ root \in [Procs -> Roots]
  /\ RootsAreInOrder
  /\ store \in [Procs -> Stores]
  /\ runs = [p \in Procs |-> None]
  /\ life = [p \in Procs |-> None]
  /\ result = [p \in Procs |-> None]

GoesTo(p, where) == pc' = [pc EXCEPT ![p] = where]

-----------------------------------------------------------------------------
(* Results.                                                                *)

(* A result: the status and category, whether it says that the             *)
(* authorization was consumed, the recorded state, and the pull request.   *)
Report(status, category, consumed, lifecycle, pr) ==
  [status |-> status, category |-> category, consumed |-> consumed,
   lifecycle |-> lifecycle, pr |-> pr]

(* All categories of a command that stopped before a claim are one here.   *)
Blocked == Report("blocked", "unclaimed", FALSE, None, FALSE)

(* What the runner returns: an attempt only if it got to a claim.          *)
Returns(status, category, attempt) ==
  [status |-> status, category |-> category, attempt |-> attempt,
   pr |-> category = "pr_opened_and_stopped"]

(* Plausible bug: the category is not looked at.                           *)
DurableByStatus(r) ==
  IF r.attempt = None THEN None
  ELSE IF r.status = "success" THEN "pr_opened_and_stopped"
  ELSE IF r.status = "failed" /\ r.category = "aborted" THEN "aborted"
  ELSE IF r.status \in Terminal THEN r.status ELSE None

(* _durable_lifecycle_from_runner_result: the state is inferred from the   *)
(* answer, the store is not opened again.                                  *)
Durable(r) ==
  IF r.attempt = None \/ r.category = "lifecycle_storage_uncertain" THEN None
  ELSE IF r.status = "success" /\ r.category = "pr_opened_and_stopped"
       THEN "pr_opened_and_stopped"
  ELSE IF r.status = "failed" /\ r.category = "aborted" THEN "aborted"
  ELSE IF r.status \in Terminal THEN r.status ELSE None

(* _lifecycle_matches_runner_result.                                       *)
Verified(r, lifecycle) ==
  CASE r.status = "success" -> lifecycle = "pr_opened_and_stopped"
    [] r.status = "failed" /\ r.category = "aborted" -> lifecycle = "aborted"
    [] r.status \in Terminal \ {"aborted"} /\ r.category # "aborted" ->
         lifecycle = r.status
    [] OTHER -> FALSE

(* _combined_result.                                                       *)
Combined(r) ==
  LET doubtful == r.attempt # None /\ ~Verified(r, Durable(r)) IN
  Report(IF doubtful THEN "failed" ELSE r.status,
         IF doubtful THEN "lifecycle_storage_uncertain" ELSE r.category,
         r.attempt # None, Durable(r), r.pr)

Answers(p, report) ==
  /\ result' = [result EXCEPT ![p] = report]
  /\ GoesTo(p, "done")

Stops(p) ==
  /\ Answers(p, Blocked)
  /\ UNCHANGED <<changes, kind, root, store, runs, life>>

Goes(p, where) ==
  /\ GoesTo(p, where)
  /\ UNCHANGED <<changes, kind, root, store, runs, life, result>>

-----------------------------------------------------------------------------
(* The commands.                                                           *)

(* codex_successor_execute_approved.                                       *)
StartSuccessor(p) ==
  /\ pc[p] = "idle" /\ kind[p] = "successor"
  /\ S!Compile(p)
  /\ Goes(p, "compile")
  /\ UNCHANGED <<packageVars, storeVars>>

CompileStep(p) ==
  /\ pc[p] = "compile"
  /\ S!CompilerStep(p, root[p])
  /\ UNCHANGED <<packageVars, storeVars, control>>

(* execute_approved_codex_successor goes on only with a compiled spec.     *)
Compiled(p) ==
  /\ pc[p] = "compile"
  /\ \/ compiling[p] = "compiled" /\ Goes(p, "spec")
     \/ compiling[p] = "blocked" /\ Stops(p)
  /\ UNCHANGED <<successorVars, packageVars, storeVars>>

(* codex_pilot_execute_reviewed.                                           *)
StartReviewed(p) ==
  /\ pc[p] = "idle" /\ kind[p] = "reviewed"
  /\ Goes(p, "spec")
  /\ UNCHANGED <<successorVars, packageVars, storeVars>>

SpecIsWhole(p) == spec[root[p]] # None /\ spec[root[p]].whole

AtBase(p) == head = spec[root[p]].base

(* load_codex_pilot_task_spec and _require_exact_clean_main.               *)
LoadSpec(p) ==
  /\ pc[p] = "spec"
  /\ \/ SpecIsWhole(p) /\ clean /\ AtBase(p) /\ Goes(p, "store")
     \/ Stops(p)
  /\ UNCHANGED <<successorVars, packageVars, storeVars>>

(* qualify_codex_new_claim_store_path: no file and no journal is there at  *)
(* the moment.  Then the builder is called.                                *)
QualifyStore(p) ==
  /\ pc[p] = "store"
  /\ \/ /\ file[store[p]] = "absent" /\ store[p] \notin hot
        /\ B!Build(p, SpecIsWhole(p))
        /\ Goes(p, "build")
     \/ Stops(p) /\ UNCHANGED packageVars
  /\ UNCHANGED <<successorVars, storeVars>>

(* codex_pilot_package_build.                                              *)
StartPackage(p) ==
  /\ pc[p] = "idle" /\ kind[p] = "package"
  /\ B!Build(p, SpecIsWhole(p))
  /\ Goes(p, "build")
  /\ UNCHANGED <<successorVars, storeVars>>

BuildStep(p) ==
  /\ pc[p] = "build"
  /\ \/ B!RequireBase(p, AtBase(p))
     \/ B!BuildStep(p, root[p])
     \/ B!Publish(p, root[p], spec[root[p]])
  /\ UNCHANGED <<successorVars, storeVars, control>>

Built(p) ==
  /\ pc[p] = "build"
  /\ \/ building[p] = "blocked" /\ Stops(p)
     \/ /\ building[p] = "published"
        /\ IF kind[p] = "package"
           THEN /\ Answers(p, Report("pass", "preclaim_ready", FALSE, None, FALSE))
                /\ UNCHANGED <<changes, kind, root, store, runs, life>>
           ELSE Goes(p, "artifacts")
  /\ UNCHANGED <<successorVars, packageVars, storeVars>>

(* codex_pilot_run.                                                        *)
StartRun(p) ==
  /\ pc[p] = "idle" /\ kind[p] = "run"
  /\ Goes(p, "artifacts")
  /\ UNCHANGED <<successorVars, packageVars, storeVars>>

(* The three files are there, and the runner is invoked with them.         *)
InvokeRunner(p) ==
  /\ pc[p] = "artifacts"
  /\ \/ /\ package[root[p]] # None
        /\ runs' = [runs EXCEPT ![p] = package[root[p]]]
        /\ GoesTo(p, "gates")
        /\ UNCHANGED <<changes, kind, root, store, life, result>>
     \/ Stops(p)
  /\ UNCHANGED <<successorVars, packageVars, storeVars>>

(* The runner returns, and its answer is reported with what is known of    *)
(* the package.                                                            *)
Return(p, r) ==
  /\ Answers(p, Combined(r))
  /\ UNCHANGED <<changes, kind, root, store, runs>>

(* The gates of a run pass only at its base; the store is opened next.     *)
Gates(p) ==
  /\ pc[p] = "gates"
  /\ \/ /\ clean /\ head = runs[p].spec.base
        /\ I!OpenStore(p, store[p])
        /\ Goes(p, "open")
     \/ /\ Return(p, Returns("blocked", "unclaimed", None))
        /\ UNCHANGED <<life, storeVars>>
  /\ UNCHANGED <<successorVars, packageVars>>

OpenStep(p) ==
  /\ pc[p] = "open"
  /\ I!OpeningStep(p)
  /\ UNCHANGED <<successorVars, packageVars, control>>

Opened(p) ==
  /\ pc[p] = "open"
  /\ \/ opening[p] = "open" /\ Goes(p, "claim")
     \/ /\ opening[p] = "failed"
        /\ Return(p, Returns("blocked", "unclaimed", None))
        /\ UNCHANGED life
  /\ UNCHANGED <<successorVars, packageVars, storeVars>>

ClaimApplies(p) ==
  LET s == store[p] IN
  /\ initial' = [initial EXCEPT ![s] = @ \cup {p}]
  /\ current' = [current EXCEPT ![s] = @ \cup {p}]
  /\ life' = [life EXCEPT ![p] = "claim_created"]

(* The authorization of a package is claimed once in a store.              *)
Conflict(p) ==
  \E q \in Procs : q \in initial[store[p]] /\ runs[q].by = runs[p].by

(* create_initial_claim_commit, which ClaimStore has in full.              *)
Claim(p) ==
  /\ pc[p] = "claim"
  /\ lock[store[p]] = None
  /\ hot' = hot \ {store[p]}
  /\ IF Conflict(p)
     THEN /\ Return(p, Returns("blocked", "unclaimed", None))
          /\ UNCHANGED <<initial, current, life>>
     ELSE /\ ClaimApplies(p)
          /\ GoesTo(p, "working")
          /\ UNCHANGED <<changes, kind, root, store, runs, result>>
  /\ UNCHANGED <<successorVars, packageVars, file, lock, path, opening>>

ClaimFails(p) ==
  /\ pc[p] = "claim"
  /\ Return(p, Returns("blocked", "unclaimed", None))
  /\ UNCHANGED <<successorVars, packageVars, storeVars, life>>

(* The claim was applied and its COMMIT reported an error.                 *)
ClaimUncertain(p) ==
  /\ pc[p] = "claim"
  /\ lock[store[p]] = None
  /\ ~Conflict(p)
  /\ ClaimApplies(p)
  /\ Return(p, Returns("blocked", "claim_durability_uncertain", None))
  /\ UNCHANGED <<successorVars, packageVars, file, lock, hot, path, opening>>

(* A run comes to a recorded end, and returns it.                          *)
Ends(p) ==
  /\ pc[p] = "working"
  /\ \E state \in Terminal \cup {"pr_opened_and_stopped"} :
       /\ life' = [life EXCEPT ![p] = state]
       /\ Return(p, CASE state = "pr_opened_and_stopped" -> Returns("success", state, p)
                      [] state = "aborted" -> Returns("failed", state, p)
                      [] OTHER -> Returns(state, "stopped", p))
  /\ UNCHANGED <<successorVars, packageVars, storeVars>>

(* What a run records last is not confirmed, whether it was applied or     *)
(* not.                                                                    *)
EndsUncertain(p) ==
  /\ pc[p] = "working"
  /\ \E state \in {"claim_created", "failed"} :
       life' = [life EXCEPT ![p] = state]
  /\ Return(p, Returns("failed", "lifecycle_storage_uncertain", p))
  /\ UNCHANGED <<successorVars, packageVars, storeVars>>

(* The runner raises: the answer does not name the attempt.                *)
RunnerRaises(p) ==
  /\ pc[p] = "working"
  /\ \E state \in {"claim_created", "pr_opened_and_stopped"} :
       life' = [life EXCEPT ![p] = state]
  /\ Return(p, Returns("failed", "runner_internal_failure", None))
  /\ UNCHANGED <<successorVars, packageVars, storeVars>>

(* A process dies in a transaction, which is lost with its lock, or leaves *)
(* a hot journal.  Anywhere else a process that has died is one that takes *)
(* no further step, which Spec allows: its stage, its partial spec and its *)
(* claim stay as they are.                                                 *)
Dies(p) ==
  /\ I!InTransaction(p)
  /\ GoesTo(p, "dead")
  /\ I!OpenerDies(p) \/ I!CommitOpeningCutShort(p)
  /\ UNCHANGED <<successorVars, packageVars,
                 changes, kind, root, store, runs, life, result>>

(* A command may still read a proposal, an issue or a dependency.  The     *)
(* bound on what others do: they do it only then.                          *)
ProposalsMatter ==
  \E p \in Procs : kind[p] = "successor" /\ pc[p] \in {"idle", "compile"}

(* People propose and approve, and the world changes.                      *)
Others ==
  /\ ProposalsMatter
  /\ \/ S!ListIssues
     \/ S!Propose
     \/ S!ProposeFails
     \/ S!Approve
  /\ UNCHANGED <<packageVars, storeVars, control>>

WorldChanges ==
  /\ changes < MaxChanges
  /\ changes' = changes + 1
  /\ S!World
  /\ <<issue, fact, evidence>>' # <<issue, fact, evidence>> => ProposalsMatter
  /\ UNCHANGED <<packageVars, storeVars,
                 pc, kind, root, store, runs, life, result>>

Step(p) ==
  \/ StartSuccessor(p) \/ CompileStep(p) \/ Compiled(p)
  \/ StartReviewed(p) \/ LoadSpec(p) \/ QualifyStore(p)
  \/ StartPackage(p) \/ BuildStep(p) \/ Built(p)
  \/ StartRun(p) \/ InvokeRunner(p) \/ Gates(p)
  \/ OpenStep(p) \/ Opened(p)
  \/ Claim(p) \/ ClaimFails(p) \/ ClaimUncertain(p)
  \/ Ends(p) \/ EndsUncertain(p) \/ RunnerRaises(p)

Next ==
  \/ \E p \in Procs : Step(p) \/ Dies(p)
  \/ Others
  \/ WorldChanges

Spec == Init /\ [][Next]_vars

-----------------------------------------------------------------------------
(* Properties.                                                             *)

(* A store that some process has open is whole, whatever others found at   *)
(* its path, created or migrated there at the same time                    *)
(* (SQLiteCodexPilotInitialClaimStore._initialize_database).               *)
OpenStoresAreWhole == I!OpenStoresAreWhole

(* A run for a successor works from a package that its own process built   *)
(* and inspected, of the spec that it compiled itself, of a proposal that  *)
(* was approved as the compiler read it                                    *)
(* (execute_approved_codex_successor, execute_reviewed_codex_task).        *)
OnlyApprovedWorkRuns ==
  /\ S!CompiledIsApproved
  /\ \A p \in Procs :
       runs[p] # None /\ kind[p] = "successor" =>
         /\ runs[p].spec.by = p
         /\ runs[p].spec.digest \in approvals

(* A reviewed run uses the package that it has built itself, never the one *)
(* that another process published in the same control root; and every      *)
(* package that runs was inspected (build_codex_pilot_package).            *)
ReviewedRunsOwnPackage ==
  \A p \in Procs :
    runs[p] # None =>
      /\ runs[p].stage = "inspected"
      /\ kind[p] # "run" => runs[p].by = p

(* A spec or package that is complete is never changed or removed, and a   *)
(* spec under construction only by its maker: losers of a race clean up    *)
(* after themselves and not after others (_write_and_round_trip_task_spec, *)
(* build_codex_pilot_package).                                             *)
OthersFilesAreKept ==
  [][\A r \in Roots :
       /\ spec[r] # None /\ spec[r].whole => spec'[r] = spec[r]
       /\ spec[r] # None /\ spec'[r] # spec[r] =>
            compiling[spec[r].by] # compiling'[spec[r].by]
       /\ package[r] # None => package'[r] = package[r]]_vars

(* What a command reports of its attempt is in the store: a recorded state *)
(* that it names is the recorded state, and an authorization that it calls *)
(* unconsumed has no claim, but for the two answers that leave it open     *)
(* (_combined_result, _durable_lifecycle_from_runner_result).              *)
ReportsMatchTheStore ==
  \A p \in Procs :
    result[p] # None =>
      /\ result[p].consumed => p \in initial[store[p]]
      /\ result[p].lifecycle # None => life[p] = result[p].lifecycle
      /\ ~result[p].consumed /\ p \in initial[store[p]] =>
           result[p].category \in
             {"claim_durability_uncertain", "runner_internal_failure"}
=============================================================================
