---------------------------- MODULE ProposalBuild ----------------------------
(***************************************************************************)
(* validate_proposal_draft and build_proposal_draft (proposal_build.py):   *)
(* a request names a customer, a job, the details and two output files;    *)
(* the records are read, the proposal is composed and, in a build, staged  *)
(* and published as two files.                                             *)
(*                                                                         *)
(* Several processes build into the same folder.  The temporary siblings   *)
(* have names of their own and are always removed by whoever lives, so     *)
(* they are not state.  A file's content is the proposal it was made from. *)
(***************************************************************************)
EXTENDS FiniteSets

CONSTANTS
  Builders, \* processes that validate and build
  Files,    \* names of output files
  Missing   \* no file, no row, no request

VARIABLES
  files,    \* the content of each output file
  created,  \* created_final_paths of each builder
  work      \* what each builder is at

buildVars == <<files, created, work>>

(* No validation and no build is running.                                  *)
Resting == [at |-> "idle", build |-> FALSE, request |-> Missing,
            customer |-> Missing, job |-> Missing]

BuildInit ==
  /\ files = [f \in Files |-> Missing]
  /\ created = [p \in Builders |-> {}]
  /\ work = [p \in Builders |-> Resting]

At(p, where) == work[p].at = where

GoesOn(p, where) == work' = [work EXCEPT ![p].at = where]

(* The proposal of a builder: what it was asked for and what it read.      *)
Proposal(p) ==
  [by |-> p, request |-> work[p].request,
   customer |-> work[p].customer, job |-> work[p].job]

(* _validate_output_paths; the database and the template are there.        *)
Start(p, request, build) ==
  /\ At(p, "idle")
  /\ work' = [work EXCEPT ![p] =
       [Resting EXCEPT !.build = build, !.request = request,
          !.at = IF request.json # request.docx
                    /\ files[request.json] = Missing
                    /\ files[request.docx] = Missing
                 THEN "look for customer" ELSE "failed"]]
  /\ UNCHANGED <<files, created>>

(* Both reads look for sidecar files and then read without a lock.         *)
Look(p, what, found, free) ==
  /\ At(p, what)
  /\ GoesOn(p, IF free THEN found ELSE "failed")
  /\ UNCHANGED <<files, created>>

LookForCustomer(p, free) == Look(p, "look for customer", "customer", free)

LookForJob(p, free) == Look(p, "look for job", "job", free)

ReadCustomer(p, row) ==
  /\ At(p, "customer")
  /\ work' = [work EXCEPT ![p].customer = row,
                ![p].at = IF row = Missing THEN "failed" ELSE "look for job"]
  /\ UNCHANGED <<files, created>>

(* Plausible bug: the job is not compared with the customer.               *)
ReadJobOfAnyone(p, row) ==
  /\ At(p, "job")
  /\ work' = [work EXCEPT ![p].job = row,
                ![p].at = IF row = Missing THEN "failed"
                          ELSE IF work[p].build THEN "json" ELSE "passed"]
  /\ UNCHANGED <<files, created>>

(* The job is read, and the proposal is composed of the two records, which *)
(* must match: they were read at different moments.                        *)
ReadJob(p, row) ==
  /\ At(p, "job")
  /\ work' = [work EXCEPT ![p].job = row,
                ![p].at = IF row = Missing
                             \/ row.customer # work[p].request.customer
                          THEN "failed"
                          ELSE IF work[p].build THEN "json" ELSE "passed"]
  /\ UNCHANGED <<files, created>>

(* _publish_staged_artifact: the file is opened with "xb" and recorded in  *)
(* one step, then the staged content is copied; a copy that fails is a     *)
(* failure after this step.                                                *)
Publish(p, f) ==
  /\ files[f] = Missing
  /\ files' = [files EXCEPT ![f] = Proposal(p)]
  /\ created' = [created EXCEPT ![p] = @ \cup {f}]

PublishJson(p) ==
  /\ At(p, "json")
  /\ Publish(p, work[p].request.json)
  /\ GoesOn(p, "docx")

PublishDocx(p) ==
  /\ At(p, "docx")
  /\ Publish(p, work[p].request.docx)
  /\ GoesOn(p, "verify")

(* Both final files are there, the build is completed.                     *)
Verify(p) ==
  /\ At(p, "verify")
  /\ files[work[p].request.json] # Missing
  /\ files[work[p].request.docx] # Missing
  /\ GoesOn(p, "published")
  /\ created' = [created EXCEPT ![p] = {}]
  /\ UNCHANGED files

Running == {"look for customer", "customer", "look for job", "job",
            "json", "docx", "verify"}

(* Plausible bug: both final paths are removed.                            *)
WorkFailsClean(p) ==
  /\ work[p].at \in Running
  /\ files' = [f \in Files |->
       IF f \in {work[p].request.json, work[p].request.docx}
          /\ work[p].at \in {"json", "docx", "verify"}
       THEN Missing ELSE files[f]]
  /\ created' = [created EXCEPT ![p] = {}]
  /\ GoesOn(p, "failed")

(* A step fails, because of an output that exists or for a reason of its   *)
(* own; what this build has created is removed.                            *)
WorkFails(p) ==
  /\ work[p].at \in Running
  /\ files' = [f \in Files |-> IF f \in created[p] THEN Missing ELSE files[f]]
  /\ created' = [created EXCEPT ![p] = {}]
  /\ GoesOn(p, "failed")

(* The caller has its answer.                                              *)
WorkReturns(p) ==
  /\ work[p].at \in {"passed", "published", "failed"}
  /\ work' = [work EXCEPT ![p] = Resting]
  /\ UNCHANGED <<files, created>>

(* The process dies; nothing is removed.                                   *)
BuilderDies(p) ==
  /\ created' = [created EXCEPT ![p] = {}]
  /\ work' = [work EXCEPT ![p] = Resting]
  /\ UNCHANGED files

BuildStep(p) == PublishJson(p) \/ PublishDocx(p) \/ Verify(p) \/ WorkFails(p)
=============================================================================
