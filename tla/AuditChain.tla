------------------------------ MODULE AuditChain ------------------------------
(***************************************************************************)
(* The audit contract of one supervised pilot attempt: which lifecycle     *)
(* events exist, when an event may follow another, and the snapshot that   *)
(* a chain of events derives (core/contracts.py).                          *)
(*                                                                         *)
(* An event keeps its sequence number, its two lifecycle states, the set   *)
(* of optional fields it carries and the pull request it names (None when  *)
(* it names none; the branch identity travels with the pull request).      *)
(* Digests are abstracted: nothing rewrites stored bytes, so "the digest   *)
(* of the previous event" is the previous event.  The identities copied    *)
(* from the claim into each event equal the claim's by construction of     *)
(* the events, and are compared where an authorization is presented        *)
(* (ClaimStore).                                                           *)
(***************************************************************************)
EXTENDS Integers, Sequences

CONSTANTS
  Prs,    \* pull request identities
  None    \* the absent identity, package, attempt, client, ...

ASSUME NoPrAssumption == None \notin Prs

Terminal ==
  {"aborted", "failed", "cancelled", "timed_out", "completed_pending_review"}

Working == {"claim_created", "invocation_starting", "invocation_started"}

States == Working \cup Terminal \cup {"pr_opened_and_stopped"}

\* What an exit must explain.
Exits ==
  [aborted   |-> {"recovery_category"},
   failed    |-> {"recovery_category"},
   cancelled |-> {"cancellation_category"},
   timed_out |-> {"timeout_category"}]

Fields ==
  {"branch_identity", "pull_request_identity", "usage_category",
   "timeout_category", "cancellation_category", "final_ci_category",
   "assistant_review_verdict", "recovery_category"}

\* The legal (previous state, next state) pairs.
Transitions ==
  {<<"claim_not_started", "claim_created">>,
   <<"claim_created", "invocation_starting">>,
   <<"invocation_starting", "invocation_started">>,
   <<"invocation_started", "pr_opened_and_stopped">>,
   <<"pr_opened_and_stopped", "completed_pending_review">>}
  \cup Working \X DOMAIN Exits

\* The optional fields a transition requires; every other one is forbidden.
Required(prev, next) ==
  CASE next \in DOMAIN Exits ->
         Exits[next] \cup {f \in {"usage_category"} : prev = "invocation_started"}
    [] next = "pr_opened_and_stopped" ->
         {"branch_identity", "pull_request_identity", "usage_category"}
    [] next = "completed_pending_review" ->
         {"branch_identity", "pull_request_identity", "final_ci_category",
          "assistant_review_verdict"}
    [] OTHER -> {}

Event ==
  [seq    : Nat,
   prev   : States \cup {"claim_not_started"},
   next   : States,
   fields : SUBSET Fields,
   pr     : Prs \cup {None}]

FirstEvent ==
  [seq |-> 0, prev |-> "claim_not_started", next |-> "claim_created",
   fields |-> {}, pr |-> None]

\* The event that takes a chain to state next: the caller supplies the
\* optional fields and the pull request, the store the rest.
EventAfter(evs, next, fields, pr) ==
  LET last == evs[Len(evs)]
  IN  [seq |-> last.seq + 1, prev |-> last.next, next |-> next,
       fields |-> fields, pr |-> pr]

\* The event is well formed on its own.
EventOK(e) ==
  /\ <<e.prev, e.next>> \in Transitions
  /\ e.fields = Required(e.prev, e.next)
  /\ e.seq = 0 <=> e.prev = "claim_not_started"
  /\ e.pr \in Prs <=> "pull_request_identity" \in e.fields

\* Event e may directly follow event p.
Follows(e, p) ==
  /\ e.seq = p.seq + 1
  /\ e.prev = p.next
  /\ p.next \notin Terminal
  /\ e.next = "completed_pending_review" => e.pr = p.pr

\* A whole chain, as the snapshot derivation walks it.
ChainOK(evs) ==
  /\ Len(evs) > 0
  /\ \A i \in DOMAIN evs :
       /\ EventOK(evs[i])
       /\ evs[i].seq = i - 1
       /\ i > 1 => Follows(evs[i], evs[i - 1])

Latest(evs) == evs[Len(evs)]

\* The pull request the derived snapshot reports: the one of the last event
\* that opened one.
OpenedPr(evs) ==
  LET opened == {i \in DOMAIN evs : evs[i].next = "pr_opened_and_stopped"}
  IN  IF opened = {} THEN None
      ELSE evs[CHOOSE i \in opened : \A j \in opened : j <= i].pr

Snapshot ==
  [seq : Nat, state : States, terminal : BOOLEAN, pr : Prs \cup {None},
   reviewed : BOOLEAN]

Derive(evs) ==
  [seq      |-> Latest(evs).seq,
   state    |-> Latest(evs).next,
   terminal |-> Latest(evs).next \in Terminal,
   pr       |-> OpenedPr(evs),
   reviewed |-> \E i \in DOMAIN evs : evs[i].next = "completed_pending_review"]

\* The sequence numbers at which a snapshot may show a state.
StateSequences(state) ==
  CASE state = "claim_created"            -> {0}
    [] state = "invocation_starting"      -> {1}
    [] state = "invocation_started"       -> {2}
    [] state = "pr_opened_and_stopped"    -> {3}
    [] state = "completed_pending_review" -> {4}
    [] OTHER                              -> 1..3

\* The snapshot is well formed on its own.
SnapshotOK(s) ==
  /\ s.seq \in StateSequences(s.state)
  /\ s.terminal <=> s.state \in Terminal
  /\ s.pr \in Prs <=>
       s.state \in {"pr_opened_and_stopped", "completed_pending_review"}
  /\ s.reviewed <=> s.state = "completed_pending_review"
===============================================================================
