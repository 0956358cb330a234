------------------------------- MODULE WslWorker -------------------------------
(***************************************************************************)
(* WslCodexWorker (dev/codex_wsl.py): the gates that qualify the WSL       *)
(* backend, and invoke_codex, which gives the worker a copy of the files   *)
(* it may change (the shadow), inside WSL, and brings back a patch.        *)
(*                                                                         *)
(* The invocation itself is WslInvocation, step by step; the model runs of *)
(* the two gates that make one are taken by what such a run returns.  An   *)
(* interrupt outside of a model run ends the process.                      *)
(***************************************************************************)
EXTENDS WslInvocation

VARIABLES
  cached,    \* the result of each gate, once it is known
  probe,     \* the model run of a gate: its gate, exit proof and success
  spaces,    \* the synthetic workspaces that exist
  alive,     \* the gates whose worker may still run
  call,      \* where invoke_codex is
  shadow,    \* the shadow: absent, or what is in it
  seen,      \* whether it was checked, and written to after the checks began
  patch,     \* what was exported
  worktree,  \* the Windows worktree: what has been done to it
  evidence,  \* WslTransferEvidence: the fields that are true
  result     \* the category that invoke_codex returns

qualification == <<cached, probe, spaces, alive>>
transfer == <<call, shadow, seen, patch, worktree, evidence, result>>
workerVars == <<vars, qualification, transfer>>

GateOrder == <<"runtime", "authentication", "transport", "capability">>
Gates == {GateOrder[i] : i \in 1..4}
NoProbe == [gate |-> "none", proved |-> TRUE, passed |-> FALSE]

\* The contents of a shadow that has its baseline.  good: only allowed paths
\* are changed, to contents that pass; tainted: one of them has other contents;
\* strayed: another path, the git state or the index is changed.
Contents == {"base", "good", "tainted", "strayed"}

WorkerInit ==
  /\ Init
  /\ cached = [g \in Gates |-> "none"]
  /\ probe = NoProbe
  /\ spaces = {}
  /\ alive = {}
  /\ call = "qualify"
  /\ shadow = "absent"
  /\ seen = "none"
  /\ patch = "none"
  /\ worktree = {}
  /\ evidence = {}
  /\ result = "none"

-----------------------------------------------------------------------------
(***************************************************************************)
(* The gates.  Each asks the one before it, whose result is cached.        *)
(***************************************************************************)

Cache(gate, answer) == cached' = [cached EXCEPT ![gate] = answer]

Calls(gate) ==
  /\ call = "qualify"
  /\ probe = NoProbe
  /\ cached[gate] = "none"
  /\ UNCHANGED <<vars, transfer>>

After(gate, previous) ==
  /\ Calls(gate)
  /\ cached[previous] # "none"

\* runtime_gate and authentication_gate run no model.
RuntimeGate ==
  /\ Calls("runtime")
  /\ \E answer \in {"passed", "failed"} : Cache("runtime", answer)
  /\ UNCHANGED <<probe, spaces, alive>>

AuthenticationGate ==
  /\ After("authentication", "runtime")
  /\ \/ cached["runtime"] = "passed" /\ Cache("authentication", "passed")
     \/ Cache("authentication", "failed")
  /\ UNCHANGED <<probe, spaces, alive>>

\* A gate whose predecessor did not pass gives that one's answer.
Inherit(gate, previous) ==
  /\ After(gate, previous)
  /\ cached[previous] # "passed"
  /\ Cache(gate, cached[previous])
  /\ UNCHANGED <<probe, spaces, alive>>

NoWorkspace(gate, previous) ==
  /\ After(gate, previous)
  /\ cached[previous] = "passed"
  /\ Cache(gate, "failed")
  /\ spaces' \in {spaces, spaces \cup {gate}}
  /\ UNCHANGED <<probe, alive>>

\* A run whose exit is not proved may go on; it may also never have started.
ProbeModel(gate, previous) ==
  /\ After(gate, previous)
  /\ cached[previous] = "passed"
  /\ spaces' = spaces \cup {gate}
  /\ \E proved, passed \in BOOLEAN :
       /\ passed => proved
       /\ probe' = [gate |-> gate, proved |-> proved, passed |-> passed]
       /\ alive' \in {alive, IF proved THEN alive ELSE alive \cup {gate}}
  /\ UNCHANGED cached

\* The workspace is removed, if it can be, when the exit is proved.
EndProbe(gate) ==
  /\ probe.gate = gate
  /\ probe' = NoProbe
  /\ UNCHANGED <<vars, transfer, alive>>

TransportGate ==
  /\ EndProbe("transport")
  /\ IF probe.proved
     THEN \E cleanup \in BOOLEAN :
            /\ spaces' = IF cleanup THEN spaces \ {"transport"} ELSE spaces
            /\ Cache("transport", IF probe.passed /\ cleanup THEN "passed" ELSE "failed")
     ELSE Cache("transport", "uncertain") /\ UNCHANGED spaces

\* What the direct probes may leave behind: the workspace that they write in,
\* and the one outside of it that must not be written to.
LeftByProbes == SUBSET {"security", "outside"}

\* capability_probe: after the model's marker, the sandbox is tried directly.
CapabilityProbe ==
  /\ EndProbe("capability")
  /\ IF probe.proved
     THEN \E answer \in {"passed", "failed"}, own \in SUBSET {"capability"}, left \in LeftByProbes :
            /\ spaces' = (spaces \ {"capability"}) \cup own \cup left
            /\ answer = "passed" => probe.passed /\ own \cup left = {}
            /\ Cache("capability", answer)
     ELSE Cache("capability", "uncertain") /\ UNCHANGED spaces

Qualify ==
  \/ RuntimeGate \/ AuthenticationGate
  \/ Inherit("transport", "authentication") \/ Inherit("capability", "transport")
  \/ NoWorkspace("transport", "authentication") \/ NoWorkspace("capability", "transport")
  \/ ProbeModel("transport", "authentication") \/ ProbeModel("capability", "transport")
  \/ TransportGate \/ CapabilityProbe

-----------------------------------------------------------------------------
(***************************************************************************)
(* invoke_codex up to the invocation.                                      *)
(***************************************************************************)

At(here) == call = here /\ UNCHANGED <<vars, qualification>>

Proceed(next) == call' = next /\ UNCHANGED result
Finish(category) == call' = "returned" /\ result' = category
Fail(category) == call' = "cleanup" /\ result' = category

\* What is noted in the evidence; the shadow exists from here on.
Note(facts) == evidence' = evidence \cup facts

\* Variant: any result of the capability probe will do.
InvokeAsked ==
  /\ At("qualify")
  /\ probe = NoProbe
  /\ \/ cached["capability"] # "passed" /\ Finish("not_qualified")
     \/ cached["capability"] # "none" /\ Proceed("snapshot")
     \/ cached["capability"] # "none" /\ Finish("runtime_unavailable")
  /\ UNCHANGED <<shadow, seen, patch, worktree, evidence>>

\* The runtime must still be the one that was qualified.
Invoke ==
  /\ At("qualify")
  /\ probe = NoProbe
  /\ \/ cached["capability"] # "passed" /\ Finish("not_qualified")
     \/ cached["capability"] = "passed" /\ Proceed("snapshot")
     \/ cached["capability"] = "passed" /\ Finish("runtime_unavailable")
  /\ UNCHANGED <<shadow, seen, patch, worktree, evidence>>

\* build_windows_snapshot: of a worktree at its base and without a change.
Snapshot ==
  /\ At("snapshot")
  /\ \/ "edited" \notin worktree /\ Proceed("create")
     \/ Finish("snapshot_rejected")
  /\ UNCHANGED <<shadow, seen, patch, worktree, evidence>>

CreateShadow ==
  /\ At("create")
  /\ \/ shadow' = "empty" /\ Note({"created"}) /\ Proceed("extract")
     \/ shadow' \in {"absent", "empty"} /\ Finish("no_shadow") /\ UNCHANGED evidence
  /\ UNCHANGED <<seen, patch, worktree>>

\* _extract_snapshot, _initialize_snapshot_git, _shadow_git_control_state
FillShadow ==
  /\ At("extract")
  /\ \/ shadow' = "base" /\ Note({"baseline"}) /\ Proceed("model")
     \/ /\ shadow' \in {"empty", "base"}
        /\ evidence' \in {evidence, evidence \cup {"baseline"}}
        /\ Fail("no_baseline")
  /\ UNCHANGED <<seen, patch, worktree>>

\* _run_model
Model ==
  /\ call = "model"
  /\ MainStep \/ SendPrompt \/ StreamFails \/ Interrupt
  /\ UNCHANGED <<qualification, transfer>>

\* Variant: the shadow is removed in any case.
ModelReturnsAnyway ==
  /\ At("model")
  /\ main \in {"returned", "raised"}
  /\ IF main = "raised" THEN Fail("interrupted")
     ELSE IF verdict = "uncertain" THEN Fail("uncertain")
     ELSE Proceed("compare")
  /\ UNCHANGED <<shadow, seen, patch, worktree, evidence>>

\* Without proof of the worker's exit the shadow stays as it is.
ModelReturns ==
  /\ At("model")
  /\ main \in {"returned", "raised"}
  /\ IF main = "raised" THEN Fail("interrupted")
     ELSE IF verdict = "uncertain" THEN Finish("uncertain")
     ELSE Proceed("compare")
  /\ UNCHANGED <<shadow, seen, patch, worktree, evidence>>

-----------------------------------------------------------------------------
(***************************************************************************)
(* The way back.  Each check is a command of its own, and a process that   *)
(* left the worker's group may change the shadow between two of them.      *)
(***************************************************************************)

\* windows_snapshot_matches, whatever the model run's verdict.
Compare ==
  /\ At("compare")
  /\ \/ Fail("worktree_changed") /\ UNCHANGED evidence
     \/ /\ worktree = {}
        /\ Note({"unchanged"})
        /\ IF verdict = "completed" THEN Proceed("paths") ELSE Fail("model_failed")
  /\ UNCHANGED <<shadow, seen, patch, worktree>>

\* _validated_shadow_patch: the control state, the index and the paths.
CheckPaths ==
  /\ At("paths")
  /\ \/ /\ shadow \in {"good", "tainted"}
        /\ Proceed("contents")
        /\ seen' = "checked"
     \/ Fail("diff_rejected") /\ UNCHANGED seen
  /\ UNCHANGED <<shadow, patch, worktree, evidence>>

\* Variant: the files are taken for what their names say.
CheckContentsByName ==
  /\ At("contents")
  /\ Proceed("export")
  /\ UNCHANGED <<shadow, seen, patch, worktree, evidence>>

\* Every changed file is read and judged.  Other paths are not.
CheckContents ==
  /\ At("contents")
  /\ \/ shadow # "tainted" /\ Proceed("export")
     \/ Fail("diff_rejected")
  /\ UNCHANGED <<shadow, seen, patch, worktree, evidence>>

\* git add, the staged names, and the difference of those paths.  If the git
\* state is no longer the baseline, that may be anything.
Export ==
  /\ At("export")
  /\ \/ /\ shadow # "base"
        /\ patch' \in IF shadow = "strayed" THEN {"good", "tainted"}
                      ELSE IF shadow = "tainted" THEN {"tainted"} ELSE {"good"}
        /\ Note({"validated", "exported"})
        /\ Proceed("apply")
     \/ Fail("diff_rejected") /\ UNCHANGED <<patch, evidence>>
  /\ UNCHANGED <<shadow, seen, worktree>>

\* Variant: the worktree is not looked at before the patch is applied.
ApplyBlindly ==
  /\ At("apply")
  /\ Proceed("patch")
  /\ UNCHANGED <<shadow, seen, patch, worktree, evidence>>

\* apply_shadow_patch: git status, which may raise, must name no path.
LookBeforeApplying ==
  /\ At("apply")
  /\ \/ worktree = {} /\ Proceed("patch")
     \/ Fail("apply_failed")
     \/ Fail("raised")
  /\ UNCHANGED <<shadow, seen, patch, worktree, evidence>>

\* git apply checks all of the patch before it writes; then a failure to write,
\* or the end of the wait for it, may leave a part of the patch.
ApplyPatch ==
  /\ At("patch")
  /\ \/ worktree' = worktree \cup {patch} /\ Proceed("applied")
     \/ /\ worktree' \in {worktree, worktree \cup {patch}, worktree \cup {"part"}}
        /\ Fail("apply_failed")
  /\ UNCHANGED <<shadow, seen, patch, evidence>>

\* Variant: whatever the patch was applied to.
ApplicationUnchecked ==
  /\ At("applied")
  /\ Note({"applied"})
  /\ Fail("succeeded")
  /\ UNCHANGED <<shadow, seen, patch, worktree>>

\* The paths that are changed now must be those of the patch; what is in the
\* files is not looked at.
CheckApplied ==
  /\ At("applied")
  /\ \/ /\ worktree \subseteq {patch, "mixed"}
        /\ Note({"applied"})
        /\ Fail("succeeded")
     \/ Fail("apply_failed") /\ UNCHANGED evidence
     \/ Fail("raised") /\ UNCHANGED evidence
  /\ UNCHANGED <<shadow, seen, patch, worktree>>

\* finally
Cleanup ==
  /\ At("cleanup")
  /\ \/ shadow' = "absent" /\ Note({"cleaned"}) /\ Finish(result)
     \/ /\ shadow' \in {"absent", shadow}
        /\ Finish(IF result \in {"raised", "interrupted"} THEN result ELSE "cleanup_failed")
        /\ UNCHANGED evidence
  /\ UNCHANGED <<seen, patch, worktree>>

-----------------------------------------------------------------------------
(***************************************************************************)
(* Meanwhile.                                                              *)
(***************************************************************************)

\* The worker, while it runs with its prompt, and whatever it started.
WriteShadow ==
  /\ \/ leader = "running" /\ sent
     \/ group \cup outside # {}
  /\ shadow \in Contents
  /\ shadow' \in Contents
  /\ seen' = IF seen = "none" THEN seen ELSE "stale"
  /\ UNCHANGED <<vars, qualification, call, patch, worktree, evidence, result>>

\* Somebody edits the Windows worktree, before the last look at it, or between
\* that and the check of the paths: then of another file than the patch's ("late")
\* or of one of those ("mixed").  An edit while nobody reads the worktree, as
\* during the model run, is one just before it is read; what is edited after the
\* last check is nothing to this call.
EditWorktree ==
  /\ \/ /\ call \in {"snapshot", "compare", "paths", "contents", "export", "apply"}
        /\ worktree' = worktree \cup {"edited"}
     \/ /\ call \in {"patch", "applied"}
        /\ \E edit \in {"late", "mixed"} : worktree' = worktree \cup {edit}
  /\ UNCHANGED <<vars, qualification, call, shadow, seen, patch, evidence, result>>

Linux ==
  /\ ClientExits \/ ClientDies \/ LinuxStep
  /\ UNCHANGED <<qualification, transfer>>

Transfer ==
  \/ Invoke \/ Snapshot \/ CreateShadow \/ FillShadow \/ ModelReturns \/ Compare
  \/ CheckPaths \/ CheckContents \/ Export \/ LookBeforeApplying \/ ApplyPatch
  \/ CheckApplied \/ Cleanup

WorkerNext == Qualify \/ Transfer \/ Model \/ WriteShadow \/ EditWorktree \/ Linux

WorkerSpec == WorkerInit /\ [][WorkerNext]_workerVars

\* Each command has a timeout, except that the prompt is written for as long as
\* the client is there and nobody reads it.  (So are the archive and the patch, on
\* Windows, to a wsl.exe and a git that read their input before anything else:
\* they are taken to do so.)  The Linux timer goes off, and the client ends with
\* what it runs.
WorkerFairness ==
  /\ WF_workerVars(Qualify)
  /\ WF_workerVars(Transfer)
  /\ WF_workerVars(call = "model" /\ MainStep /\ UNCHANGED <<qualification, transfer>>)
  /\ WF_workerVars(call = "model" /\ SendPrompt /\ client # "running" /\ UNCHANGED <<qualification, transfer>>)
  /\ WF_workerVars(LinuxTimer /\ UNCHANGED <<qualification, transfer>>)
  /\ WF_workerVars(ClientExits /\ UNCHANGED <<qualification, transfer>>)

FairWorkerSpec == WorkerSpec /\ WorkerFairness

-----------------------------------------------------------------------------
(***************************************************************************)
(* Properties.                                                             *)
(***************************************************************************)

\* When the end of a model run is not proved, no further one is started, by a
\* gate or by the invocation: the uncertain answer is cached and handed on.
NoModelAfterUncertainty ==
  /\ \A g \in alive : alive = {g} /\ client = "none"
  /\ \A g \in {"transport", "capability"} : cached[g] = "uncertain" => client = "none"

\* As long as a process of the worker's group may use them, its record and the
\* shadow are there: both are removed only after the exit is proved.
RunningIsKept ==
  /\ RunningIsRecorded
  /\ leader \in {"pending", "starting", "running"} \/ group # {} => shadow # "absent"

\* What is brought to Windows passed the checks of its contents, unless the
\* shadow was written to again after the checks began.  Only a process that left
\* the worker's group can do that: ExitProofIsSound says nothing of such.
OnlyCheckedContents ==
  /\ "tainted" \in worktree => seen = "stale"
  /\ seen # "none" => leader \notin {"pending", "starting", "running"} /\ group = {}

\* No patch, nor a part of one, is ever applied to a worktree that somebody had
\* changed before the last look at it; and a failure leaves the worktree without
\* one, except when applying it failed or the cleanup after it did.  Success is
\* reported only if the whole patch was applied and no other path was changed by
\* then, no workspace is left, of the shadow or of a gate, and the evidence says
\* so.  An edit of a patched file between the last look and the check of the
\* paths goes unnoticed (apply_shadow_patch).
WorktreeIsWhole ==
  /\ worktree \cap {"good", "tainted", "part"} # {} =>
       /\ "edited" \notin worktree
       /\ result \in {"none", "succeeded", "apply_failed", "raised", "cleanup_failed"}
  /\ call = "returned" /\ result = "succeeded" =>
       /\ patch \in worktree /\ worktree \subseteq {patch, "mixed"}
       /\ spaces = {} /\ shadow = "absent"
       /\ evidence = {"created", "baseline", "unchanged", "validated", "exported",
                      "applied", "cleaned"}

\* Whatever the gates answer and however the worker behaves, the call returns:
\* if the worker does not read its prompt, the Linux timer ends it, the client
\* follows, and the write with it.
EveryCallReturns == <>(call = "returned")
===============================================================================
