---------------------------- MODULE MCPilotRunner -----------------------------
(* Instances of PilotRunner for TLC. *)
EXTENDS PilotRunner, TLC

CONSTANTS r1, r2, u1, u2, id1, id2, b1, here, there,
          p1, p2, unchanged, docs, edited_docs, more_docs, code

\* Two packages for the same branch: a task and its reissue.
Packages == {u1, u2}
PackageIds == (u1 :> id1) @@ (u2 :> id2)
SameBranch == (u1 :> b1) @@ (u2 :> b1)

OneRun == {r1}
TwoRuns == {r1, r2}

\* Two versions of the same document, only one of which passes inspection, a
\* change of another document too, and a change outside the allowed paths.
FewTrees == {unchanged, docs}
MostTrees == {unchanged, docs, edited_docs, code}
AllTrees == MostTrees \cup {more_docs}
FewPaths == [t \in FewTrees |-> {t} \ {unchanged}]
AllPaths ==
  [t \in AllTrees |->
    CASE t = unchanged -> {}
      [] t = edited_docs -> {docs}
      [] t = more_docs -> {docs, more_docs}
      [] OTHER -> {t}]
MostPaths == [t \in MostTrees |-> AllPaths[t]]

\* Runs, clones and pull requests are alike.
RunSymmetry ==
  Permutations(TwoRuns) \cup Permutations({here, there}) \cup Permutations({p1, p2})
===============================================================================
