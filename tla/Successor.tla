------------------------------ MODULE Successor ------------------------------
(***************************************************************************)
(* Successor proposals and their compilation into a task spec              *)
(* (dev/codex_successor.py, dev/codex_successor_task_spec.py).             *)
(*                                                                         *)
(* The proposer reads HEAD and the verification evidence, then the open    *)
(* issues, then their dependencies, and proposes the best eligible issue.  *)
(* An architect approves proposals.  A compiler, given a proposal and an   *)
(* approval, reads HEAD, the issue and its dependencies again, one after   *)
(* the other, while people edit issues, reopen dependencies and move the   *)
(* branch, and writes the task spec into a control root.                   *)
(*                                                                         *)
(* The candidate of an issue is its metadata block, with everything but    *)
(* what selection reads in one field, work.  A fingerprint is the record   *)
(* it digests (the digest is injective).  Fields that do not parse, or     *)
(* break a bound, make the reading call fail.                              *)
(***************************************************************************)
EXTENDS Integers, FiniteSets

CONSTANTS
  Compilers,   \* processes that compile an approved proposal
  Issues,      \* issue numbers
  Candidates,  \* what the metadata block of an issue may say
  Deps,        \* issues that others depend on
  Bases,       \* commits of main
  Roots,       \* control directories
  MaxProposals, \* bound on the proposals made
  Nobody       \* no value; also the author of the operator's own specs

VARIABLES
  head,       \* HEAD of main in the checkout
  clean,      \* the checkout has no changes
  evidence,   \* the commit that the verification evidence is about
  issue,      \* the candidate of each open issue
  fact,       \* the state of each dependency
  listed,     \* what the proposer has read: the evidence and the issues
  proposals,  \* the proposals made, each of them what its fingerprint digests
  approvals,  \* the fingerprints that an architect has approved
  spec,       \* the task spec in each control root: who wrote it, whether it is
              \* whole, its base and, if it was compiled, the proposal as read
  compiling,  \* how far each compiler has got
  given,      \* the proposal and the approval each compiler was given
  read        \* what each compiler has read: the candidate in the issue, and then
              \* also the facts about its dependencies

world == <<head, clean, evidence, issue, fact>>
proposing == <<listed, proposals, approvals>>
compilerVars == <<compiling, given, read>>
successorVars == <<world, proposing, spec, compilerVars>>

Facts == {"open", "completed", "not_planned"}

SuccessorInit ==
  /\ head \in Bases
  /\ clean = TRUE
  /\ evidence = head
  /\ issue \in [Issues -> Candidates]
  /\ fact \in [Deps -> {"open", "completed"}]
  /\ listed = Nobody
  /\ proposals = {}
  /\ approvals = {}
  /\ compiling = [p \in Compilers |-> "idle"]
  /\ given = [p \in Compilers |-> Nobody]
  /\ read = [p \in Compilers |-> Nobody]

Depends(c) == [d \in c.depends |-> fact[d]]

Completed(facts) == \A d \in DOMAIN facts : facts[d] = "completed"

-----------------------------------------------------------------------------
(* Proposing.                                                              *)

(* _require_canonical_repository_state.                                    *)
CleanMain == clean

(* _load_verification_evidence: it is about HEAD.                          *)
Verified == evidence = head

(* propose_codex_successor up to the list of issues.                       *)
ListIssues ==
  /\ listed = Nobody
  /\ Cardinality(proposals) < MaxProposals
  /\ CleanMain
  /\ Verified
  /\ listed' = [base |-> head, issue |-> issue]
  /\ UNCHANGED <<world, proposals, approvals, spec, compilerVars>>

Ready(candidates) == {i \in Issues : candidates[i].ready}

Eligible(candidates) == {i \in Ready(candidates) : Completed(Depends(candidates[i]))}

(* The order in which eligible candidates are preferred.                   *)
Before(candidates, i, j) ==
  \/ candidates[i].priority > candidates[j].priority
  \/ candidates[i].priority = candidates[j].priority /\ i <= j

Selected(candidates, i) ==
  \A j \in Eligible(candidates) : Before(candidates, i, j)

(* The dependencies are read after the issues, and the best eligible       *)
(* candidate is proposed with the facts it was eligible by.                *)
Propose ==
  /\ listed # Nobody
  /\ listed' = Nobody
  /\ IF Eligible(listed.issue) = {}
     THEN UNCHANGED proposals
     ELSE \E i \in Eligible(listed.issue) :
            LET c == listed.issue[i] IN
            /\ Selected(listed.issue, i)
            /\ proposals' = proposals \cup
                 {[base |-> listed.base, issue |-> i, candidate |-> c,
                   facts |-> Depends(c)]}
  /\ UNCHANGED <<world, approvals, spec, compilerVars>>

(* Any read fails or is malformed.                                         *)
ProposeFails ==
  /\ listed # Nobody
  /\ listed' = Nobody
  /\ UNCHANGED <<world, proposals, approvals, spec, compilerVars>>

(* The architect's receipt names a fingerprint.                            *)
Approve ==
  /\ \E f \in proposals \ approvals : approvals' = approvals \cup {f}
  /\ UNCHANGED <<world, listed, proposals, spec, compilerVars>>

-----------------------------------------------------------------------------
(* Compiling.                                                              *)

Compiling(p, stage) == compiling[p] = stage

CompilerGoesTo(p, stage) == compiling' = [compiling EXCEPT ![p] = stage]

Proposal(p) == given[p].proposal

(* build_approved_codex_successor_task_spec is called; the operator has an *)
(* approval of this or of another proposal at hand.                        *)
Compile(p) ==
  /\ Compiling(p, "idle")
  /\ \E f \in proposals, a \in approvals :
       given' = [given EXCEPT ![p] = [proposal |-> f, approval |-> a]]
  /\ CompilerGoesTo(p, "state")
  /\ UNCHANGED <<world, proposing, spec, read>>

(* A clean main whose HEAD is the one the proposal was verified for.       *)
LoadProposal(p) ==
  /\ Compiling(p, "state")
  /\ CompilerGoesTo(p, IF CleanMain /\ head = Proposal(p).base
                       THEN "issue" ELSE "blocked")
  /\ UNCHANGED <<world, proposing, spec, given, read>>

(* _require_exact_selected_candidate: everything the proposal shows; the   *)
(* dependencies are not among it.                                          *)
SameWork(c, f) ==
  c.ready /\ c.priority = f.candidate.priority /\ c.work = f.candidate.work

ReadIssue(p) ==
  LET c == issue[Proposal(p).issue] IN
  /\ Compiling(p, "issue")
  /\ read' = [read EXCEPT ![p] = c]
  /\ CompilerGoesTo(p, IF SameWork(c, Proposal(p)) THEN "dependencies"
                                                   ELSE "blocked")
  /\ UNCHANGED <<world, proposing, spec, given>>

(* Plausible bug: the fingerprint is taken from the proposal.              *)
RecomputedTrusted(p) == Proposal(p)

(* What the fingerprint is recomputed from: the proposal's base, the       *)
(* candidate just read and its dependencies as they are now.               *)
Recomputed(p) ==
  [base |-> Proposal(p).base, issue |-> Proposal(p).issue,
   candidate |-> read[p], facts |-> Depends(read[p])]

(* _require_approval_binding.                                              *)
Bound(p) == given[p].approval = Proposal(p)

ReadDependencies(p) ==
  /\ Compiling(p, "dependencies")
  /\ CompilerGoesTo(p, IF /\ Completed(Depends(read[p]))
                          /\ Recomputed(p) = Proposal(p)
                          /\ Bound(p)
                       THEN "output" ELSE "blocked")
  /\ read' = [read EXCEPT ![p] = [candidate |-> read[p], facts |-> Depends(read[p])]]
  /\ UNCHANGED <<world, proposing, spec, given>>

(* _qualify_output_path: nothing may be there yet.                         *)
QualifyOutput(p, r) ==
  /\ Compiling(p, "output")
  /\ CompilerGoesTo(p, IF spec[r] = Nobody THEN "write" ELSE "blocked")
  /\ UNCHANGED <<world, proposing, spec, given, read>>

(* What the spec says was checked is what this compiler has seen.          *)
CompiledSpec(p) ==
  [by |-> p, whole |-> FALSE, base |-> Proposal(p).base,
   digest |-> [base |-> Proposal(p).base, issue |-> Proposal(p).issue,
               candidate |-> read[p].candidate, facts |-> read[p].facts]]

(* The spec is opened with "xb": whoever comes second leaves it alone.     *)
CreateSpec(p, r) ==
  /\ Compiling(p, "write")
  /\ IF spec[r] = Nobody
     THEN /\ spec' = [spec EXCEPT ![r] = CompiledSpec(p)]
          /\ CompilerGoesTo(p, "written")
     ELSE UNCHANGED spec /\ CompilerGoesTo(p, "blocked")
  /\ UNCHANGED <<world, proposing, given, read>>

(* It is complete on disk and reads back as what was meant.                *)
FinishSpec(p, r) ==
  /\ Compiling(p, "written")
  /\ spec' = [spec EXCEPT ![r].whole = TRUE]
  /\ CompilerGoesTo(p, "compiled")
  /\ UNCHANGED <<world, proposing, given, read>>

(* Plausible bug: the file is removed whoever made it.                     *)
RemoveAnySpec(p, r) == spec' = [spec EXCEPT ![r] = Nobody]

(* What was created and is not complete is unlinked, if that succeeds.     *)
RemoveSpec(p, r) ==
  IF Compiling(p, "written")
  THEN spec' = [spec EXCEPT ![r] = Nobody] \/ UNCHANGED spec
  ELSE UNCHANGED spec

(* Any step of the compiler fails.                                         *)
CompileFails(p, r) ==
  /\ compiling[p] \in {"state", "issue", "dependencies", "output", "write",
                       "written"}
  /\ RemoveSpec(p, r)
  /\ CompilerGoesTo(p, "blocked")
  /\ UNCHANGED <<world, proposing, given, read>>

CompilerStep(p, r) ==
  \/ LoadProposal(p)
  \/ ReadIssue(p)
  \/ ReadDependencies(p)
  \/ QualifyOutput(p, r)
  \/ CreateSpec(p, r)
  \/ FinishSpec(p, r)
  \/ CompileFails(p, r)

-----------------------------------------------------------------------------
(* Everybody else.                                                         *)

(* An issue is edited.                                                     *)
EditIssue ==
  /\ \E i \in Issues, c \in Candidates : issue' = [issue EXCEPT ![i] = c]
  /\ UNCHANGED <<head, clean, evidence, fact>>

(* A dependency is closed or reopened.                                     *)
ChangeDependency ==
  /\ \E d \in Deps, s \in Facts : fact' = [fact EXCEPT ![d] = s]
  /\ UNCHANGED <<head, clean, evidence, issue>>

MoveHead ==
  /\ head' \in Bases
  /\ UNCHANGED <<clean, evidence, issue, fact>>

Edit ==
  /\ clean' = ~clean
  /\ UNCHANGED <<head, evidence, issue, fact>>

Verify ==
  /\ clean
  /\ evidence' = head
  /\ UNCHANGED <<head, clean, issue, fact>>

World ==
  /\ EditIssue \/ ChangeDependency \/ MoveHead \/ Edit \/ Verify
  /\ UNCHANGED <<proposing, spec, compilerVars>>

(* Whatever a compiler has written was proposed and approved as it has     *)
(* itself read it: the same candidate in the same issue, with the same     *)
(* facts about the same dependencies, all of them completed when it read   *)
(* them (_require_approval_binding and the recomputed fingerprint, while   *)
(* issues are edited and dependencies reopened between the reads).         *)
CompiledIsApproved ==
  \A r \in Roots :
    spec[r] # Nobody /\ spec[r].digest # Nobody =>
      /\ spec[r].digest \in approvals
      /\ Completed(spec[r].digest.facts)
=============================================================================
