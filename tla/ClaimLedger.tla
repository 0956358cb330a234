------------------------------ MODULE ClaimLedger -----------------------------
(***************************************************************************)
(* What the initial-claim store promises its callers, whatever the storage *)
(* does: an attempt is claimed at most once, no two attempts ever hold the *)
(* same authorization id, and the audit log of a claimed attempt only      *)
(* grows, by one legal event at a time.                                    *)
(***************************************************************************)
EXTENDS AuditChain

CONSTANTS
  Attempts,   \* attempt identities
  Auths,      \* authorization packages; distinct packages have distinct fingerprints
  AuthIds,    \* authorization identities
  AuthId      \* the identity each package carries

ASSUME AuthAssumption ==
  /\ AuthId \in [Auths -> AuthIds]
  /\ None \notin Auths

VARIABLES
  owner,   \* the package that claimed an attempt
  log      \* the audit events of an attempt

ledgerVars == <<owner, log>>

LedgerInit ==
  /\ owner = [a \in Attempts |-> None]
  /\ log = [a \in Attempts |-> <<>>]

Claimed == {a \in Attempts : owner[a] # None}

\* Variant: only the attempt is looked up.
ClaimAgain(a, u) ==
  /\ a \notin Claimed
  /\ owner' = [owner EXCEPT ![a] = u]
  /\ log' = [log EXCEPT ![a] = <<FirstEvent>>]

\* Package u becomes the owner of attempt a, which starts its log.
Claim(a, u) ==
  /\ a \notin Claimed
  /\ \A b \in Claimed : AuthId[owner[b]] # AuthId[u]
  /\ owner' = [owner EXCEPT ![a] = u]
  /\ log' = [log EXCEPT ![a] = <<FirstEvent>>]

Successors(a) == {next \in States : <<Latest(log[a]).next, next>> \in Transitions}

\* One legal event, explaining exactly what it must, is appended to the log.
Extend(a, next, pr) ==
  LET e == EventAfter(log[a], next, Required(Latest(log[a]).next, next), pr)
  IN  /\ log' = [log EXCEPT ![a] = Append(@, e)]
      /\ ChainOK(log'[a])
      /\ UNCHANGED owner

LedgerNext ==
  \/ \E a \in Attempts, u \in Auths : Claim(a, u)
  \/ \E a \in Claimed : \E next \in Successors(a), pr \in Prs \cup {None} :
       Extend(a, next, pr)

LedgerSpec == LedgerInit /\ [][LedgerNext]_ledgerVars
===============================================================================
