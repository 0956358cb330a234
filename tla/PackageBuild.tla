---------------------------- MODULE PackageBuild -----------------------------
(***************************************************************************)
(* build_codex_pilot_package (dev/codex_package.py): a task spec becomes a *)
(* package of three files, written into a staging directory, inspected     *)
(* there, and renamed to its place at the end.                             *)
(*                                                                         *)
(* Builders with the same control root compete for one target.  The fresh  *)
(* authorization id of a package is the builder itself: nobody else draws  *)
(* it.  What the parser, the path checks and the structural checks of the  *)
(* composed files decide about a spec does not depend on the interleaving, *)
(* so each of them only may fail; the base commit is compared with HEAD,   *)
(* which moves.                                                            *)
(***************************************************************************)
EXTENDS FiniteSets

CONSTANTS
  Builders,   \* processes that build a package
  BuildRoots, \* directories that a target directory is in
  Earlier,    \* packages that were published before
  NoPackage

VARIABLES
  package,   \* the published package in each directory
  stage,     \* that of each builder: "none", "empty", "whole" or "inspected"
  building   \* how far each builder has got

packageVars == <<package, stage, building>>

PackageInit ==
  /\ package \in [BuildRoots -> {NoPackage} \cup Earlier]
  /\ stage = [p \in Builders |-> "none"]
  /\ building = [p \in Builders |-> "idle"]

Building(p, where) == building[p] = where

BuilderGoesTo(p, where) == building' = [building EXCEPT ![p] = where]

StageBecomes(p, s) == stage' = [stage EXCEPT ![p] = s]

(* The call; the package of a spec that cannot be read is refused.         *)
Build(p, readable) ==
  /\ Building(p, "idle")
  /\ BuilderGoesTo(p, IF readable THEN "base" ELSE "blocked")
  /\ UNCHANGED <<package, stage>>

(* _require_current_base.                                                  *)
RequireBase(p, current) ==
  /\ Building(p, "base")
  /\ BuilderGoesTo(p, IF current THEN "compose" ELSE "blocked")
  /\ UNCHANGED <<package, stage>>

(* There is no entry of any kind under the target's name.                  *)
NothingThere(r) == package[r] = NoPackage

(* The paths are tracked, the output directory is fit, the three files are *)
(* composed and checked, and the target does not exist yet.                *)
Compose(p, r) ==
  /\ Building(p, "compose")
  /\ BuilderGoesTo(p, IF NothingThere(r) THEN "stage" ELSE "blocked")
  /\ UNCHANGED <<package, stage>>

CreateStage(p) ==
  /\ Building(p, "stage")
  /\ StageBecomes(p, "empty")
  /\ BuilderGoesTo(p, "files")
  /\ UNCHANGED package

WriteFiles(p) ==
  /\ Building(p, "files")
  /\ StageBecomes(p, "whole")
  /\ BuilderGoesTo(p, "inspect")
  /\ UNCHANGED package

(* _require_successful_inspection of what the inspector read from disk.    *)
Inspect(p) ==
  /\ Building(p, "inspect")
  /\ StageBecomes(p, "inspected")
  /\ BuilderGoesTo(p, "publish")
  /\ UNCHANGED package

(* Plausible bug: the stage is moved over whatever is there.               *)
PublishOver(p, r, content) ==
  /\ Building(p, "publish")
  /\ package' = [package EXCEPT ![r] = [by |-> p, stage |-> stage[p], spec |-> content]]
  /\ StageBecomes(p, "none")
  /\ BuilderGoesTo(p, "published")

(* The target must still be absent, and rename itself refuses to replace a *)
(* directory that is not empty: the check and the rename are one step.     *)
Publish(p, r, content) ==
  /\ Building(p, "publish")
  /\ NothingThere(r)
  /\ package' = [package EXCEPT ![r] = [by |-> p, stage |-> stage[p], spec |-> content]]
  /\ StageBecomes(p, "none")
  /\ BuilderGoesTo(p, "published")

Unpublished(p) ==
  building[p] \in {"base", "compose", "stage", "files", "inspect", "publish"}

(* Any step fails, and the stage is removed unless the removal fails.      *)
BuildFails(p) ==
  /\ Unpublished(p)
  /\ StageBecomes(p, "none") \/ UNCHANGED stage
  /\ BuilderGoesTo(p, "blocked")
  /\ UNCHANGED package

BuildStep(p, r) ==
  \/ Compose(p, r)
  \/ CreateStage(p)
  \/ WriteFiles(p)
  \/ Inspect(p)
  \/ BuildFails(p)

=============================================================================
