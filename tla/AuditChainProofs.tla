--------------------------- MODULE AuditChainProofs ---------------------------
(***************************************************************************)
(* What the audit contract implies for every chain of events it accepts.   *)
(***************************************************************************)
EXTENDS AuditChain, TLAPS

ExitStates == {"aborted", "failed", "cancelled", "timed_out"}

\* The exits a working attempt may take.
LEMMA ExitsDomain == DOMAIN Exits = ExitStates
BY DEF Exits, ExitStates

\* A chain is one of a few: it takes its steps in order, may leave by an exit
\* at any of them, and has at most five events.
LEMMA ChainShape ==
  ASSUME NEW evs \in Seq(Event), ChainOK(evs)
  PROVE  /\ Len(evs) \in 1..5
         /\ evs[1].next = "claim_created"
         /\ Len(evs) >= 2 => evs[2].next \in {"invocation_starting"} \cup ExitStates
         /\ Len(evs) >= 3 => /\ evs[2].next = "invocation_starting"
                             /\ evs[3].next \in {"invocation_started"} \cup ExitStates
         /\ Len(evs) >= 4 => /\ evs[3].next = "invocation_started"
                             /\ evs[4].next \in {"pr_opened_and_stopped"} \cup ExitStates
         /\ Len(evs) >= 5 => /\ evs[4].next = "pr_opened_and_stopped"
                             /\ evs[5].next = "completed_pending_review"
<1> DEFINE n == Len(evs)
<1>1. n \in Nat /\ n > 0 /\ DOMAIN evs = 1..n
  BY DEF ChainOK
<1>2. ASSUME NEW i \in 1..n
      PROVE  /\ <<evs[i].prev, evs[i].next>> \in Transitions
             /\ i = 1 => evs[i].prev = "claim_not_started"
             /\ i > 1 => evs[i].prev = evs[i - 1].next
  <2>1. EventOK(evs[i]) /\ evs[i].seq = i - 1 /\ (i > 1 => Follows(evs[i], evs[i - 1]))
    BY <1>1 DEF ChainOK
  <2> QED
    BY <2>1 DEF EventOK, Follows
<1>3. \A p, q : <<p, q>> \in Transitions =>
        /\ p = "claim_not_started" => q = "claim_created"
        /\ p = "claim_created" => q \in {"invocation_starting"} \cup ExitStates
        /\ p = "invocation_starting" => q \in {"invocation_started"} \cup ExitStates
        /\ p = "invocation_started" => q \in {"pr_opened_and_stopped"} \cup ExitStates
        /\ p = "pr_opened_and_stopped" => q = "completed_pending_review"
        /\ p \notin Terminal
  BY ExitsDomain DEF Transitions, Working, ExitStates, Terminal
<1>4. /\ 1 \in 1..n
      /\ n >= 2 => 2 \in 1..n
      /\ n >= 3 => 3 \in 1..n
      /\ n >= 4 => 4 \in 1..n
      /\ n >= 5 => 5 \in 1..n
      /\ n >= 6 => 6 \in 1..n
  BY <1>1
<1> HIDE DEF n
<1>5. evs[1].prev = "claim_not_started" /\ <<evs[1].prev, evs[1].next>> \in Transitions
  BY <1>2, <1>4
<1>6. n >= 2 => evs[2].prev = evs[1].next /\ <<evs[2].prev, evs[2].next>> \in Transitions
  BY <1>2, <1>4
<1>7. n >= 3 => evs[3].prev = evs[2].next /\ <<evs[3].prev, evs[3].next>> \in Transitions
  BY <1>2, <1>4
<1>8. n >= 4 => evs[4].prev = evs[3].next /\ <<evs[4].prev, evs[4].next>> \in Transitions
  BY <1>2, <1>4
<1>9. n >= 5 => evs[5].prev = evs[4].next /\ <<evs[5].prev, evs[5].next>> \in Transitions
  BY <1>2, <1>4
<1>10. n >= 6 => evs[6].prev = evs[5].next /\ <<evs[6].prev, evs[6].next>> \in Transitions
  BY <1>2, <1>4
<1>11. evs[1].next = "claim_created"
  BY <1>3, <1>5
<1>12. n >= 2 => evs[2].next \in {"invocation_starting"} \cup ExitStates
  BY <1>3, <1>6, <1>11
<1>13. n >= 3 => /\ evs[2].next = "invocation_starting"
                 /\ evs[3].next \in {"invocation_started"} \cup ExitStates
  BY <1>1, <1>3, <1>7, <1>12 DEF Terminal, ExitStates
<1>14. n >= 4 => /\ evs[3].next = "invocation_started"
                 /\ evs[4].next \in {"pr_opened_and_stopped"} \cup ExitStates
  BY <1>1, <1>3, <1>8, <1>13 DEF Terminal, ExitStates
<1>15. n >= 5 => /\ evs[4].next = "pr_opened_and_stopped"
                 /\ evs[5].next = "completed_pending_review"
  BY <1>1, <1>3, <1>9, <1>14 DEF Terminal, ExitStates
<1>16. ~ (n >= 6)
  BY <1>1, <1>3, <1>10, <1>15 DEF Terminal
<1> QED
  BY <1>1, <1>11, <1>12, <1>13, <1>14, <1>15, <1>16 DEF n

\* The event that a store appends to a legal chain is legal, if the move is one
\* of the table and the caller explains exactly what the move requires
\* (append_event builds every other field from the chain).  The review verdict
\* must name the pull request that was opened, which is left to its caller.
LEMMA LegalMovesExtend ==
  ASSUME NEW evs \in Seq(Event), ChainOK(evs), NEW next \in States,
         <<Latest(evs).next, next>> \in Transitions, next # "completed_pending_review",
         NEW p \in Prs \cup {None},
         p \in Prs <=> "pull_request_identity" \in Required(Latest(evs).next, next)
  PROVE  ChainOK(Append(evs, EventAfter(evs, next, Required(Latest(evs).next, next), p)))
<1> DEFINE n == Len(evs)
           last == evs[n]
           e == EventAfter(evs, next, Required(last.next, next), p)
           longer == Append(evs, e)
<1>1. n \in Nat /\ n > 0 /\ DOMAIN evs = 1..n /\ n \in 1..n /\ Latest(evs) = last
  BY DEF ChainOK, Latest
<1>2. last \in Event /\ last.seq = n - 1 /\ last.next \in States
  <2>1. last \in Event
    BY <1>1
  <2>2. \A i \in 1..n : evs[i].seq = i - 1
    BY <1>1 DEF ChainOK
  <2> QED
    BY <1>1, <2>1, <2>2 DEF Event
<1>3. /\ e.seq = n /\ e.prev = last.next /\ e.next = next /\ e.pr = p
      /\ e.fields = Required(last.next, next)
  BY <1>1, <1>2 DEF EventAfter
<1>4. last.next \notin Terminal /\ last.next # "claim_not_started"
  <2>1. \A q \in Terminal : <<q, next>> \notin Transitions
    BY ExitsDomain DEF Transitions, Working, Terminal
  <2> QED
    BY <1>1, <1>2, <2>1 DEF States, Working, Terminal
<1>5. EventOK(e)
  BY <1>1, <1>3, <1>4 DEF EventOK
<1>6. Follows(e, last)
  BY <1>2, <1>3, <1>4, <1>1 DEF Follows
<1>7. /\ Len(longer) = n + 1 /\ DOMAIN longer = 1..(n + 1) /\ longer[n + 1] = e
      /\ \A i \in 1..n : longer[i] = evs[i]
  BY <1>1
<1>8. \A i \in 1..n : EventOK(evs[i]) /\ evs[i].seq = i - 1
                      /\ (i > 1 => Follows(evs[i], evs[i - 1]))
  BY <1>1 DEF ChainOK
<1> HIDE DEF longer, e, last, n
<1>9. ASSUME NEW i \in 1..(n + 1)
      PROVE  EventOK(longer[i]) /\ longer[i].seq = i - 1
             /\ (i > 1 => Follows(longer[i], longer[i - 1]))
  <2>1. CASE i = n + 1
    <3>1. longer[i] = e /\ longer[i - 1] = last
      BY <1>1, <1>7, <2>1 DEF last
    <3> QED
      BY <1>1, <1>3, <1>5, <1>6, <2>1, <3>1
  <2>2. CASE i # n + 1
    <3>1. i \in 1..n /\ (i > 1 => i - 1 \in 1..n)
      BY <1>1, <2>2
    <3> QED
      BY <1>7, <1>8, <3>1
  <2> QED
    BY <2>1, <2>2
<1>10. ChainOK(longer)
  BY <1>1, <1>7, <1>9 DEF ChainOK
<1> QED
  BY <1>1, <1>10 DEF longer, e

\* Every chain the contract accepts derives a well-formed snapshot
\* (derive_codex_pilot_attempt_snapshot): the checks of the derived snapshot
\* that follow it in an append can refuse nothing more.
THEOREM ChainsDeriveSnapshots ==
  ASSUME NEW evs \in Seq(Event), ChainOK(evs)
  PROVE  Derive(evs) \in Snapshot /\ SnapshotOK(Derive(evs))
<1> DEFINE n == Len(evs)
<1>1. /\ n \in 1..5 /\ DOMAIN evs = 1..n
      /\ Latest(evs) = evs[n] /\ evs[n] \in Event /\ evs[n].seq = n - 1
  BY ChainShape DEF ChainOK, Latest
<1>2. /\ evs[1].next = "claim_created"
      /\ n >= 2 => evs[2].next \in {"invocation_starting"} \cup ExitStates
      /\ n >= 3 => evs[3].next \in {"invocation_started"} \cup ExitStates
      /\ n >= 4 => evs[4].next \in {"pr_opened_and_stopped"} \cup ExitStates
      /\ n >= 5 => /\ evs[4].next = "pr_opened_and_stopped"
                   /\ evs[5].next = "completed_pending_review"
  BY ChainShape
<1> HIDE DEF n
<1>3. ASSUME NEW i \in 1..n, evs[i].next = "pr_opened_and_stopped"
      PROVE  i = 4
  <2>1. i \in {1, 2, 3, 4, 5}
    BY <1>1
  <2> QED
    BY <1>1, <1>2, <1>3, <2>1 DEF ExitStates
<1>4. ASSUME NEW i \in 1..n, evs[i].next = "completed_pending_review"
      PROVE  i = 5
  <2>1. i \in {1, 2, 3, 4, 5}
    BY <1>1
  <2> QED
    BY <1>1, <1>2, <1>4, <2>1 DEF ExitStates
<1> DEFINE opened == {i \in DOMAIN evs : evs[i].next = "pr_opened_and_stopped"}
           hasPr == n >= 4 /\ evs[4].next = "pr_opened_and_stopped"
<1>5. opened = IF hasPr THEN {4} ELSE {}
  BY <1>1, <1>3
<1>6. OpenedPr(evs) = IF hasPr THEN evs[4].pr ELSE None
  <2>1. \A T : T = {4} => (CHOOSE i \in T : \A j \in T : j <= i) = 4
    OBVIOUS
  <2> QED
    BY <1>5, <2>1 DEF OpenedPr
<1>7. hasPr => evs[4].pr \in Prs
  <2>1. hasPr => EventOK(evs[4])
    BY <1>1 DEF ChainOK
  <2>2. \A p : "pull_request_identity" \in Required(p, "pr_opened_and_stopped")
    BY ExitsDomain DEF Required, ExitStates
  <2> QED
    BY <2>1, <2>2 DEF EventOK
<1>8. evs[n].next \in {"pr_opened_and_stopped", "completed_pending_review"} <=> hasPr
  BY <1>1, <1>2, <1>3, <1>4
<1>9. evs[n].next = "completed_pending_review" <=>
        \E i \in DOMAIN evs : evs[i].next = "completed_pending_review"
  BY <1>1, <1>4
<1>10. evs[n].seq \in StateSequences(evs[n].next)
  BY <1>1, <1>2 DEF StateSequences, ExitStates
<1> DEFINE s == Derive(evs)
<1>11. /\ s.seq = evs[n].seq /\ s.state = evs[n].next /\ s.pr = OpenedPr(evs)
       /\ s.terminal <=> evs[n].next \in Terminal
       /\ s.reviewed <=> \E i \in DOMAIN evs : evs[i].next = "completed_pending_review"
  BY <1>1 DEF Derive
<1>12. s \in Snapshot
  <2>1. /\ evs[n].seq \in Nat /\ evs[n].next \in States
        /\ OpenedPr(evs) \in Prs \cup {None}
    BY <1>1, <1>6, <1>7 DEF Event
  <2>2. (evs[n].next \in Terminal) \in BOOLEAN
    OBVIOUS
  <2>3. (\E i \in DOMAIN evs : evs[i].next = "completed_pending_review") \in BOOLEAN
    OBVIOUS
  <2> QED
    BY <1>1, <2>1, <2>2, <2>3 DEF Derive, Snapshot
<1>13. s.seq \in StateSequences(s.state) /\ (s.terminal <=> s.state \in Terminal)
  BY <1>10, <1>11
<1>14. s.pr \in Prs <=> s.state \in {"pr_opened_and_stopped", "completed_pending_review"}
  BY <1>6, <1>7, <1>8, <1>11, NoPrAssumption
<1>15. s.reviewed <=> s.state = "completed_pending_review"
  BY <1>9, <1>11
<1> QED
  BY <1>12, <1>13, <1>14, <1>15 DEF SnapshotOK
===============================================================================
