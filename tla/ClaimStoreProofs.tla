--------------------------- MODULE ClaimStoreProofs ---------------------------
(***************************************************************************)
(* ClaimStore keeps its inductive invariant IInv, whatever the clients,    *)
(* attempts and packages are; the safety properties follow from it.        *)
(***************************************************************************)
EXTENDS ClaimStore, AuditChainProofs

\* The event of a claim is a whole chain on its own
\* (compose_codex_pilot_initial_claim_bundle).
LEMMA FirstEventStartsChain ==
  FirstEvent \in Event /\ ChainOK(<<FirstEvent>>)
<1>1. Required("claim_not_started", "claim_created") = {}
  BY ExitsDomain DEF Required, ExitStates
<1>2. FirstEvent \in Event
  BY DEF FirstEvent, Event, States, Working
<1>3. EventOK(FirstEvent)
  BY <1>1, NoPrAssumption DEF EventOK, FirstEvent, Transitions
<1> DEFINE chain == <<FirstEvent>>
<1>4. Len(chain) = 1 /\ DOMAIN chain = {1} /\ chain[1] = FirstEvent
  OBVIOUS
<1>5. FirstEvent.seq = 0
  BY DEF FirstEvent
<1> HIDE DEF chain
<1>6. ChainOK(chain)
  BY <1>3, <1>4, <1>5 DEF ChainOK
<1> QED
  BY <1>2, <1>6 DEF chain

\* A transition requires known optional fields only.
LEMMA RequiredType ==
  ASSUME NEW p, NEW q
  PROVE  Required(p, q) \in SUBSET Fields
<1>1. \A x \in ExitStates : Exits[x] \in SUBSET Fields
  BY DEF Exits, ExitStates, Fields
<1> QED
  BY <1>1, ExitsDomain DEF Required, Fields

\* What the caller of an append is given to write is an event.
LEMMA EventAfterType ==
  ASSUME NEW evs \in Seq(Event), evs # <<>>, NEW next \in States,
         NEW fields \in SUBSET Fields, NEW p \in Prs \cup {None}
  PROVE  /\ EventAfter(evs, next, fields, p) \in Event
         /\ Append(evs, EventAfter(evs, next, fields, p)) \in Seq(Event)
<1>1. evs[Len(evs)] \in Event
  OBVIOUS
<1> QED
  BY <1>1 DEF EventAfter, Event

-----------------------------------------------------------------------------
(***************************************************************************)
(* What a step may touch.                                                  *)
(***************************************************************************)

\* The tables change only by the COMMIT of a staged transaction.
LEMMA TablesChange ==
  ASSUME NEW c \in Clients, Step(c)
  PROVE  UNCHANGED tables \/ (pc[c] = "staged" /\ Apply(c))
BY DEF Step, Open, OpenFails, Call, RefuseArguments, Unavailable, BeginImmediate,
       CreateStages, AppendRefused, AppendStages, Commit, CommitUncertain,
       CommitCutShort, Incomplete, BeginRead, EndRead, ReadFails, Crash, Stage,
       RollBack

\* A client's step leaves the sessions of the others alone.
LEMMA OtherSessions ==
  ASSUME TypeOK, NEW c \in Clients, Step(c), NEW d \in Clients, d # c
  PROVE  /\ pc'[d] = pc[d] /\ req'[d] = req[d] /\ staged'[d] = staged[d]
         /\ seen'[d] = seen[d] /\ res'[d] = res[d]
<1> USE DEF TypeOK
<1>1. CASE Open(c) \/ OpenFails(c) \/ Call(c) \/ RefuseArguments(c)
  BY <1>1 DEF Open, OpenFails, Call, RefuseArguments, session
<1>2. CASE Unavailable(c) \/ BeginImmediate(c) \/ CreateStages(c)
  BY <1>2 DEF Unavailable, BeginImmediate, CreateStages, Stage, RollBack, Answer
<1>3. CASE AppendRefused(c) \/ Incomplete(c)
  BY <1>3 DEF AppendRefused, Incomplete, RollBack, Answer
<1>4. CASE AppendStages(c)
  BY <1>4 DEF AppendStages, Stage, RollBack, Answer
<1>5. CASE Commit(c) \/ CommitUncertain(c)
  BY <1>5 DEF Commit, CommitUncertain, Answer
<1>6. CASE BeginRead(c) \/ EndRead(c) \/ ReadFails(c) \/ Crash(c)
  BY <1>6 DEF BeginRead, EndRead, ReadFails, Crash, Answer
<1> QED
  BY <1>1, <1>2, <1>3, <1>4, <1>5, <1>6 DEF Step

\* A transaction's insert is staged by its own client, on checked tables.
LEMMA StagingSteps ==
  ASSUME TypeOK, NEW c \in Clients, Step(c), pc'[c] = "staged"
  PROVE  CreateStages(c) \/ AppendStages(c) \/ UNCHANGED <<pc, req, staged, tables>>
<1> USE DEF TypeOK
<1>1. CASE Open(c) \/ OpenFails(c) \/ Call(c) \/ RefuseArguments(c)
  BY <1>1 DEF Open, OpenFails, Call, RefuseArguments, session
<1>2. CASE Unavailable(c) \/ BeginImmediate(c)
  BY <1>2 DEF Unavailable, BeginImmediate, Answer
<1>3. CASE AppendRefused(c) \/ Incomplete(c)
  BY <1>3 DEF AppendRefused, Incomplete, RollBack, Answer
<1>4. CASE Commit(c) \/ CommitUncertain(c)
  BY <1>4 DEF Commit, CommitUncertain, Answer
<1>5. CASE BeginRead(c) \/ EndRead(c) \/ ReadFails(c) \/ Crash(c)
  BY <1>5 DEF BeginRead, EndRead, ReadFails, Crash, Answer
<1> QED
  BY <1>1, <1>2, <1>3, <1>4, <1>5 DEF Step

-----------------------------------------------------------------------------
(***************************************************************************)
(* Locks.                                                                  *)
(***************************************************************************)

\* A call is a request, whose head is a sequence number and a state.
LEMMA CallIsRequest ==
  ASSUME TypeOK, NEW c \in Clients, Call(c)
  PROVE  /\ req'[c] \in Request
         /\ \A d \in Clients \ {c} : req'[d] = req[d]
<1>1. PICK op \in Ops, a \in Attempts, u \in Auths :
        \E h \in IF op = "append" THEN KnownHeads(a) ELSE {<<0, "claim_created">>} :
          req' = [req EXCEPT ![c] = [op |-> op, attempt |-> a, auth |-> u,
                                     seq |-> h[1], state |-> h[2]]]
  BY DEF Call
<1>2. PICK h \in IF op = "append" THEN KnownHeads(a) ELSE {<<0, "claim_created">>} :
        req' = [req EXCEPT ![c] = [op |-> op, attempt |-> a, auth |-> u,
                                   seq |-> h[1], state |-> h[2]]]
  BY <1>1
<1>3. events[a] \in Seq(Event)
  BY DEF TypeOK
<1>4. \A i \in DOMAIN events[a] : events[a][i] \in Event
  BY <1>3
<1>5. h[1] \in Nat /\ h[2] \in States
  BY <1>2, <1>4 DEF KnownHeads, Event, States, Working
<1> QED
  BY <1>2, <1>5 DEF TypeOK, Request

\* A step moves only its own client's locks, as its request moves.
LEMMA OwnLocks ==
  ASSUME TypeOK, LocksMatchRequests, NEW c \in Clients, Step(c)
  PROVE  /\ writer' = c <=> pc'[c] \in {"begun", "staged"}
         /\ c \in readers' <=> pc'[c] = "reading"
         /\ pc'[c] # "idle" => req'[c] # None
         /\ pc'[c] \in {"begun", "staged"} => req'[c].op \in Writes
         /\ pc'[c] = "reading" => req'[c].op \notin Writes
         /\ \A d \in Clients \ {c} :
              (writer' = d <=> writer = d) /\ (d \in readers' <=> d \in readers)
<1> USE StoreAssumption DEF TypeOK, LocksMatchRequests
<1>1. CASE Open(c) \/ OpenFails(c) \/ RefuseArguments(c)
  BY <1>1 DEF Open, OpenFails, RefuseArguments, session, locks
<1>2. CASE Call(c)
  <2>1. req'[c] # None
    BY <1>2, CallIsRequest
  <2> QED
    BY <1>2, <2>1 DEF Call, locks
<1>3. CASE Unavailable(c)
  BY <1>3 DEF Unavailable, Answer
<1>4. CASE BeginImmediate(c)
  BY <1>4 DEF BeginImmediate
<1>5. CASE CreateStages(c)
  BY <1>5 DEF CreateStages, Stage, RollBack, Answer, locks
<1>6. CASE AppendRefused(c) \/ Incomplete(c)
  BY <1>6 DEF AppendRefused, Incomplete, RollBack, Answer
<1>7. CASE AppendStages(c)
  BY <1>7 DEF AppendStages, Stage, RollBack, Answer, locks
<1>8. CASE Commit(c) \/ CommitUncertain(c)
  BY <1>8 DEF Commit, CommitUncertain, Answer
<1>9. CASE BeginRead(c)
  BY <1>9 DEF BeginRead
<1>10. CASE EndRead(c) \/ ReadFails(c)
  BY <1>10 DEF EndRead, ReadFails, Answer
<1>11. CASE Crash(c)
  BY <1>11 DEF Crash
<1> QED
  BY <1>1, <1>2, <1>3, <1>4, <1>5, <1>6, <1>7, <1>8, <1>9, <1>10, <1>11 DEF Step

\* So the locks keep matching the requests, those of the other clients too.
LEMMA LocksStep ==
  ASSUME TypeOK, LocksMatchRequests, NEW c \in Clients, Step(c)
  PROVE  LocksMatchRequests'
<1>1. \A d \in Clients \ {c} : pc'[d] = pc[d] /\ req'[d] = req[d]
  BY OtherSessions
<1> QED
  BY <1>1, OwnLocks DEF LocksMatchRequests

-----------------------------------------------------------------------------
(***************************************************************************)
(* Tables.                                                                 *)
(***************************************************************************)

\* A transaction's insert stays acceptable until its own COMMIT.
LEMMA StagedStep ==
  ASSUME IInv, NEW c \in Clients, Step(c)
  PROVE  StagedIsAccepted'
<1>1. SUFFICES ASSUME NEW d \in Clients, pc'[d] = "staged"
               PROVE  Acceptable(d)'
  BY DEF StagedIsAccepted
<1>2. ASSUME pc[d] = "staged", UNCHANGED tables,
             req'[d] = req[d], staged'[d] = staged[d]
      PROVE  Acceptable(d)'
  BY <1>2 DEF IInv, StagedIsAccepted, Acceptable, EventAccepted, tables
<1>3. CASE d # c
  <2>1. pc[d] = "staged" /\ req'[d] = req[d] /\ staged'[d] = staged[d]
    BY <1>1, <1>3, OtherSessions DEF IInv
  <2>2. pc[c] # "staged"
    BY <1>3, <2>1, StoreAssumption DEF IInv, LocksMatchRequests
  <2> QED
    BY <1>2, <2>1, <2>2, TablesChange
<1>4. CASE d = c /\ UNCHANGED <<pc, req, staged, tables>>
  BY <1>1, <1>2, <1>4
<1>5. CASE d = c /\ CreateStages(c)
  <2>1. /\ req[c].op = "create" /\ req' = req /\ UNCHANGED tables
        /\ Conflict(req[c].attempt, req[c].auth) = "none"
        /\ staged'[c] = FirstEvent
    BY <1>1, <1>5 DEF CreateStages, Stage, RollBack, Answer, IInv, TypeOK
  <2>2. \A k \in KeysOf(req[c].attempt, req[c].auth) : unique[k] = None
    BY <2>1 DEF Conflict, KeysOf
  <2> QED
    BY <1>5, <2>1, <2>2 DEF tables, Acceptable
<1>6. CASE d = c /\ AppendStages(c)
  <2>1. /\ req[c].op = "append" /\ req' = req /\ UNCHANGED tables
        /\ Refusal(req[c]) = "none"
        /\ EventAccepted(req[c].attempt, staged'[c])
    BY <1>1, <1>6 DEF AppendStages, Stage, RollBack, Answer, IInv, TypeOK
  <2>2. claims[req[c].attempt] = req[c].auth
    BY <2>1 DEF Refusal, UnitOK, InitialUnitOK
  <2> QED
    BY <1>6, <2>1, <2>2 DEF tables, Acceptable, EventAccepted
<1> QED
  BY <1>1, <1>3, <1>4, <1>5, <1>6, StagingSteps DEF IInv

TablesTyped ==
  /\ claims \in [Attempts -> Auths \cup {None}]
  /\ events \in [Attempts -> Seq(Event)]
  /\ initial \in [Attempts -> Snapshot \cup {None}]
  /\ current \in [Attempts -> Snapshot \cup {None}]
  /\ unique \in [Keys -> Attempts \cup {None}]

TablesInv ==
  TablesTyped /\ UniquenessMatchesClaims /\ NoPartialUnits /\ UnitsWhole

\* A committed claim finds its three keys free, so the attempt unclaimed.
LEMMA ClaimStep ==
  ASSUME TablesInv, NEW a \in Attempts, NEW u \in Auths,
         \A k \in KeysOf(a, u) : unique[k] = None,
         ApplyClaim(a, u, FirstEvent)
  PROVE  TablesInv'
<1> USE StoreAssumption
<1> DEFINE first == <<FirstEvent>>
<1>1. /\ first \in Seq(Event) /\ ChainOK(first) /\ Head(first) = FirstEvent
      /\ Derive(first) \in Snapshot
  <2>1. first \in Seq(Event) /\ Head(first) = FirstEvent
    BY FirstEventStartsChain
  <2>2. ChainOK(first)
    BY FirstEventStartsChain
  <2> HIDE DEF first
  <2> QED
    BY <2>1, <2>2, ChainsDeriveSnapshots
<1>2. <<Head(first)>> = first
  BY <1>1
<1> HIDE DEF first
<1>3. /\ KeysOf(a, u) \subseteq Keys
      /\ <<"attempt_id", a>> \in KeysOf(a, u)
  BY DEF KeysOf, Keys
<1>4. a \notin Committed
  <2>1. unique[<<"attempt_id", a>>] # a
    BY <1>3
  <2>2. <<"attempt_id", a>> \in KeysOf(a, claims[a])
    BY DEF KeysOf
  <2> QED
    BY <1>3, <2>1, <2>2 DEF TablesInv, UniquenessMatchesClaims
<1>5. /\ claims' = [claims EXCEPT ![a] = u]
      /\ events' = [events EXCEPT ![a] = first]
      /\ initial' = [initial EXCEPT ![a] = Derive(first)]
      /\ current' = [current EXCEPT ![a] = Derive(first)]
      /\ unique' = [k \in Keys |-> IF k \in KeysOf(a, u) THEN a ELSE unique[k]]
  BY DEF ApplyClaim, first
<1>6. TablesTyped'
  BY <1>1, <1>3, <1>5 DEF TablesTyped, TablesInv
<1>7. Committed' = Committed \cup {a}
  BY <1>5 DEF Committed, TablesInv, TablesTyped
<1>8. UniquenessMatchesClaims'
  <2> SUFFICES ASSUME NEW k \in Keys, NEW b \in Attempts
               PROVE  unique'[k] = b <=> b \in Committed' /\ k \in KeysOf(b, claims'[b])
    BY DEF UniquenessMatchesClaims, KeysOf
  <2>1. unique[k] = b <=> b \in Committed /\ k \in KeysOf(b, claims[b])
    BY DEF TablesInv, UniquenessMatchesClaims
  <2>2. claims'[b] = IF b = a THEN u ELSE claims[b]
    BY <1>5 DEF TablesInv, TablesTyped
  <2>3. unique'[k] = IF k \in KeysOf(a, u) THEN a ELSE unique[k]
    BY <1>5
  <2> QED
    BY <1>4, <1>7, <2>1, <2>2, <2>3
<1>9. NoPartialUnits'
  BY <1>5, <1>7 DEF NoPartialUnits, TablesInv, TablesTyped
<1>10. UnitsWhole'
  <2> SUFFICES ASSUME NEW b \in Committed'
               PROVE  /\ ChainOK(events'[b])
                      /\ initial'[b] = Derive(<<Head(events'[b])>>)
                      /\ current'[b] = Derive(events'[b])
    BY DEF UnitsWhole, ChainOK, EventOK, Follows, Derive, OpenedPr, Latest
  <2>1. CASE b = a
    BY <1>1, <1>2, <1>5, <2>1 DEF TablesInv, TablesTyped
  <2>2. CASE b # a
    BY <1>5, <1>7, <2>2 DEF TablesInv, TablesTyped, UnitsWhole, Committed
  <2> QED
    BY <2>1, <2>2
<1> QED
  BY <1>6, <1>8, <1>9, <1>10 DEF TablesInv

\* A committed append extends a whole unit by an event accepted on it.
LEMMA AppendStep ==
  ASSUME TablesInv, NEW a \in Attempts, NEW e \in Event,
         a \in Committed, EventAccepted(a, e), ApplyAppend(a, e)
  PROVE  TablesInv'
<1> DEFINE evs == Append(events[a], e)
<1>1. ChainOK(evs)
  BY DEF EventAccepted
<1>2. events[a] \in Seq(Event) /\ events[a] # <<>>
  <2>1. events[a] \in Seq(Event)
    BY DEF TablesInv, TablesTyped
  <2>2. Len(events[a]) > 0
    BY DEF TablesInv, UnitsWhole, ChainOK
  <2> QED
    BY <2>1, <2>2
<1>3. evs \in Seq(Event) /\ Head(evs) = Head(events[a])
  BY <1>2
<1>4. Derive(evs) \in Snapshot
  BY <1>1, <1>3, ChainsDeriveSnapshots
<1>5. /\ events' = [events EXCEPT ![a] = evs]
      /\ current' = [current EXCEPT ![a] = Derive(evs)]
      /\ UNCHANGED <<claims, initial, unique>>
  BY DEF ApplyAppend, TablesInv, TablesTyped
<1> HIDE DEF evs
<1>6. TablesTyped'
  BY <1>3, <1>4, <1>5 DEF TablesTyped, TablesInv
<1>7. UniquenessMatchesClaims' /\ Committed' = Committed
  BY <1>5 DEF TablesInv, UniquenessMatchesClaims, Committed, KeysOf
<1>8. NoPartialUnits'
  BY <1>5, <1>7 DEF NoPartialUnits, TablesInv, TablesTyped
<1>9. UnitsWhole'
  <2> SUFFICES ASSUME NEW b \in Committed'
               PROVE  /\ ChainOK(events'[b])
                      /\ initial'[b] = Derive(<<Head(events'[b])>>)
                      /\ current'[b] = Derive(events'[b])
    BY DEF UnitsWhole, ChainOK, EventOK, Follows, Derive, OpenedPr, Latest
  <2>1. CASE b = a
    BY <1>1, <1>3, <1>5, <1>7, <2>1 DEF TablesInv, TablesTyped, UnitsWhole, Committed
  <2>2. CASE b # a
    BY <1>5, <1>7, <2>2 DEF TablesInv, TablesTyped, UnitsWhole, Committed
  <2> QED
    BY <2>1, <2>2
<1> QED
  BY <1>6, <1>7, <1>8, <1>9 DEF TablesInv

\* COMMIT keeps the tables whole.
LEMMA ApplyStep ==
  ASSUME IInv, NEW c \in Clients, pc[c] = "staged", Apply(c)
  PROVE  TablesInv'
<1> DEFINE r == req[c]
<1>1. /\ r \in Request /\ r.op \in Writes
      /\ r.attempt \in Attempts /\ r.auth \in Auths /\ staged[c] \in Event
  BY DEF IInv, TypeOK, LocksMatchRequests, Request
<1>2. TablesInv /\ Acceptable(c)
  BY DEF IInv, TypeOK, TablesTyped, TablesInv, StagedIsAccepted
<1>3. CASE r.op = "create"
  <2>1. /\ ApplyClaim(r.attempt, r.auth, FirstEvent)
        /\ \A k \in KeysOf(r.attempt, r.auth) : unique[k] = None
    BY <1>2, <1>3 DEF Apply, Acceptable
  <2> QED
    BY <1>1, <1>2, <2>1, ClaimStep
<1>4. CASE r.op # "create"
  <2>1. /\ ApplyAppend(r.attempt, staged[c])
        /\ claims[r.attempt] = r.auth /\ EventAccepted(r.attempt, staged[c])
    BY <1>2, <1>4 DEF Apply, Acceptable
  <2>2. r.attempt \in Committed
    BY <1>1, <2>1, StoreAssumption DEF Committed
  <2> QED
    BY <1>1, <1>2, <2>1, <2>2, AppendStep
<1> QED
  BY <1>3, <1>4

\* So does every step.
LEMMA TablesStep ==
  ASSUME IInv, NEW c \in Clients, Step(c)
  PROVE  TablesInv'
<1>1. CASE UNCHANGED tables
  <2>1. TablesTyped'
    BY <1>1 DEF IInv, TypeOK, TablesTyped, tables
  <2>2. Committed' = Committed
    BY <1>1 DEF Committed, tables
  <2>3. UniquenessMatchesClaims' /\ NoPartialUnits'
    BY <1>1, <2>2 DEF IInv, UniquenessMatchesClaims, NoPartialUnits, KeysOf, tables
  <2>4. UnitsWhole'
    BY <1>1, <2>2 DEF IInv, UnitsWhole, tables
  <2> QED
    BY <2>1, <2>3, <2>4 DEF TablesInv
<1> QED
  BY <1>1, TablesChange, ApplyStep

-----------------------------------------------------------------------------
(***************************************************************************)
(* Readers.                                                                *)
(***************************************************************************)

\* A request starts reading, or is already.
LEMMA OnlyBeginReadReads ==
  ASSUME TypeOK, NEW c \in Clients, Step(c), pc'[c] = "reading", ~ BeginRead(c)
  PROVE  pc[c] = "reading" /\ seen'[c] = seen[c] /\ req'[c] = req[c]
<1> USE DEF TypeOK
<1>1. CASE Open(c) \/ OpenFails(c) \/ Call(c) \/ RefuseArguments(c)
  BY <1>1 DEF Open, OpenFails, Call, RefuseArguments, session
<1>2. CASE Unavailable(c) \/ BeginImmediate(c) \/ CreateStages(c)
  BY <1>2 DEF Unavailable, BeginImmediate, CreateStages, Stage, RollBack, Answer
<1>3. CASE AppendRefused(c) \/ AppendStages(c) \/ Incomplete(c)
  BY <1>3 DEF AppendRefused, AppendStages, Incomplete, Stage, RollBack, Answer
<1>4. CASE Commit(c) \/ CommitUncertain(c)
  BY <1>4 DEF Commit, CommitUncertain, Answer
<1>5. CASE EndRead(c) \/ ReadFails(c) \/ Crash(c)
  BY <1>5 DEF EndRead, ReadFails, Crash, Answer
<1> QED
  BY <1>1, <1>2, <1>3, <1>4, <1>5 DEF Step

\* What a reader fetched stays what is stored, for its SHARED lock keeps
\* every COMMIT waiting.
LEMMA SeenStep ==
  ASSUME IInv, NEW c \in Clients, Step(c)
  PROVE  SeenIsCurrent'
<1>1. SUFFICES ASSUME NEW d \in Clients, pc'[d] = "reading"
               PROVE  seen'[d] = events'[req'[d].attempt]
  BY DEF SeenIsCurrent
<1>2. CASE BeginRead(c) /\ d = c
  BY <1>2 DEF BeginRead, tables, IInv, TypeOK
<1>3. CASE ~ (BeginRead(c) /\ d = c)
  <2>1. pc[d] = "reading" /\ seen'[d] = seen[d] /\ req'[d] = req[d]
    <3>1. CASE d # c
      BY <1>1, <3>1, OtherSessions DEF IInv
    <3>2. CASE d = c
      BY <1>1, <1>3, <3>2, OnlyBeginReadReads DEF IInv
    <3> QED
      BY <3>1, <3>2
  <2>2. ~ Apply(c)
    BY <2>1 DEF Apply, IInv, LocksMatchRequests
  <2> QED
    BY <2>1, <2>2, TablesChange DEF IInv, SeenIsCurrent, tables
<1> QED
  BY <1>2, <1>3

-----------------------------------------------------------------------------
(***************************************************************************)
(* Types.                                                                  *)
(***************************************************************************)

LocksTyped ==
  /\ writer \in Clients \cup {None}
  /\ readers \in SUBSET Clients
  /\ hot \in BOOLEAN
  /\ opened \in SUBSET Clients

SessionsTyped ==
  /\ pc \in [Clients -> {"idle", "calling", "begun", "staged", "reading"}]
  /\ req \in [Clients -> Request \cup {None}]
  /\ staged \in [Clients -> Event]
  /\ seen \in [Clients -> Seq(Event)]
  /\ res \in [Clients -> Answers]

\* Ending a request keeps the types of the sessions.
LEMMA AnswerType ==
  ASSUME SessionsTyped, NEW c \in Clients, req[c] \in Request,
         NEW category \in Categories, NEW seq \in Nat, NEW state \in States,
         Answer(c, category, seq, state)
  PROVE  SessionsTyped'
<1>1. [category |-> category, attempt |-> req[c].attempt, auth |-> req[c].auth,
       seq |-> seq, state |-> state] \in Answers
  BY DEF Answers, Request
<1> QED
  BY <1>1, FirstEventStartsChain DEF Answer, SessionsTyped

\* The heads that answers report.
LEMMA HeadTypes ==
  /\ 0 \in Nat /\ "claim_created" \in States
  /\ {"claim_store_unavailable", "claim_durability_uncertain", "commit_incomplete",
      "event_invalid"} \subseteq Categories
  /\ \A s \in Snapshot : s.seq \in Nat /\ s.state \in States
  /\ \A e \in Event : e.seq \in Nat /\ e.next \in States
BY DEF States, Working, Snapshot, Event, Categories, AppendCategories

\* The locks keep their types.
LEMMA LocksTypedStep ==
  ASSUME IInv, NEW c \in Clients, Step(c)
  PROVE  LocksTyped'
<1> USE DEF LocksTyped, locks
<1>0. LocksTyped
  BY DEF IInv, TypeOK
<1>1. CASE Open(c) \/ OpenFails(c) \/ Call(c) \/ RefuseArguments(c)
  BY <1>0, <1>1 DEF Open, OpenFails, Call, RefuseArguments
<1>2. CASE Unavailable(c) \/ BeginImmediate(c) \/ CreateStages(c)
  BY <1>0, <1>2 DEF Unavailable, BeginImmediate, CreateStages, Stage, RollBack
<1>3. CASE AppendRefused(c) \/ AppendStages(c) \/ Incomplete(c)
  BY <1>0, <1>3 DEF AppendRefused, AppendStages, Incomplete, Stage, RollBack
<1>4. CASE Commit(c) \/ CommitUncertain(c)
  BY <1>0, <1>4 DEF Commit, CommitUncertain, CommitCutShort
<1>5. CASE BeginRead(c) \/ EndRead(c) \/ ReadFails(c)
  BY <1>0, <1>5 DEF BeginRead, EndRead, ReadFails
<1>6. CASE Crash(c)
  BY <1>0, <1>6 DEF Crash, CommitCutShort
<1> QED
  BY <1>1, <1>2, <1>3, <1>4, <1>5, <1>6 DEF Step

\* The sessions keep theirs: every request is one, every answer has a category
\* that its operation may give.
LEMMA SessionsTypedStep ==
  ASSUME IInv, NEW c \in Clients, Step(c)
  PROVE  SessionsTyped'
<1>0. SessionsTyped
  BY DEF IInv, TypeOK, SessionsTyped
<1>r. pc[c] # "idle" => req[c] \in Request
  BY <1>0 DEF IInv, LocksMatchRequests, SessionsTyped
<1>n. /\ \A category \in Categories : Bare(category) \in Answers
      /\ {"claim_store_unavailable", "none"} \subseteq Categories
      /\ NoAnswer \in Answers
  BY HeadTypes DEF NoAnswer, Bare, Answers, Categories, AppendCategories
<1>1. CASE Open(c)
  BY <1>0, <1>1 DEF Open, session, SessionsTyped
<1>2. CASE OpenFails(c)
  BY <1>0, <1>2, <1>n DEF OpenFails, SessionsTyped
<1>3. CASE Call(c)
  <2>1. req' \in [Clients -> Request \cup {None}]
    <3>1. PICK r : req' = [req EXCEPT ![c] = r]
      BY <1>3 DEF Call
    <3>2. r \in Request
      BY <1>0, <1>3, <3>1, CallIsRequest DEF IInv, SessionsTyped
    <3> QED
      BY <1>0, <3>1, <3>2 DEF SessionsTyped
  <2>2. /\ pc' \in [Clients -> {"idle", "calling", "begun", "staged", "reading"}]
        /\ res' \in [Clients -> Answers] /\ UNCHANGED <<staged, seen>>
    BY <1>0, <1>3, <1>n DEF Call, SessionsTyped
  <2> QED
    BY <1>0, <2>1, <2>2 DEF SessionsTyped
<1>4. CASE RefuseArguments(c)
  <2>1. \A op \in Ops : RefusedArguments(op) \subseteq Categories
    BY DEF RefusedArguments, Categories, AppendCategories
  <2>2. PICK category \in Categories : res' = [res EXCEPT ![c] = Bare(category)]
    BY <1>4, <2>1 DEF RefuseArguments
  <2>3. UNCHANGED <<pc, req, staged, seen>>
    BY <1>4 DEF RefuseArguments
  <2> QED
    BY <1>0, <1>n, <2>2, <2>3 DEF SessionsTyped
<1>5. CASE Unavailable(c)
  <2>1. Answer(c, "claim_store_unavailable", 0, "claim_created") /\ req[c] \in Request
    BY <1>5, <1>r DEF Unavailable
  <2> QED
    BY <1>0, <2>1, AnswerType, HeadTypes
<1>6. CASE BeginImmediate(c)
  BY <1>0, <1>6 DEF BeginImmediate, SessionsTyped
<1>7. CASE CreateStages(c)
  <2> DEFINE conflict == Conflict(req[c].attempt, req[c].auth)
  <2>1. req[c] \in Request /\ conflict \in Categories
    BY <1>7, <1>r DEF CreateStages, Conflict, Categories
  <2>2. CASE Stage(c, FirstEvent)
    BY <1>0, <2>2, FirstEventStartsChain DEF Stage, SessionsTyped
  <2>3. CASE Answer(c, conflict, 0, "claim_created")
    <3> HIDE DEF conflict
    <3> QED
      BY <1>0, <2>1, <2>3, AnswerType, HeadTypes
  <2> QED
    BY <1>7, <2>2, <2>3 DEF CreateStages, RollBack
<1>8. CASE AppendRefused(c)
  <2> DEFINE refusal == Refusal(req[c])
             a == req[c].attempt
             head == IF refusal \in {"stale_append_rejected", "terminal_append_rejected"}
                     THEN <<current[a].seq, current[a].state>>
                     ELSE <<0, "claim_created">>
  <2>1. req[c] \in Request /\ a \in Attempts /\ refusal \in Categories
    BY <1>8, <1>r DEF AppendRefused, Refusal, Request, Categories, AppendCategories
  <2>2. refusal \in {"stale_append_rejected", "terminal_append_rejected"} =>
          current[a] # None
    BY DEF Refusal, Present
  <2>3. current[a] \in Snapshot \cup {None}
    BY <2>1 DEF IInv, TypeOK
  <2>4. Answer(c, refusal, head[1], head[2])
    BY <1>8 DEF AppendRefused, RollBack
  <2>5. head[1] \in Nat /\ head[2] \in States
    BY <2>2, <2>3, HeadTypes
  <2> HIDE DEF refusal, head
  <2> QED
    BY <1>0, <2>1, <2>4, <2>5, AnswerType
<1>9. CASE AppendStages(c)
  <2> DEFINE a == req[c].attempt
  <2>1. req[c] \in Request /\ a \in Attempts
    BY <1>9, <1>r DEF AppendStages, Request
  <2>2. events[a] \in Seq(Event) /\ events[a] # <<>>
    BY <1>9, <2>1 DEF AppendStages, Refusal, Present, IInv, TypeOK
  <2>3. PICK next \in NextStates :
          \E fields \in {Required(req[c].state, next), {}, Fields} :
            \E pr \in IF "pull_request_identity" \in fields THEN Prs ELSE {None} :
              LET f == EventAfter(events[a], next, fields, pr)
              IN  IF EventAccepted(a, f) THEN Stage(c, f)
                  ELSE RollBack(c, "event_invalid", 0, "claim_created")
    BY <1>9 DEF AppendStages
  <2>4. PICK fields \in {Required(req[c].state, next), {}, Fields},
             pr \in Prs \cup {None} :
          LET f == EventAfter(events[a], next, fields, pr)
          IN  IF EventAccepted(a, f) THEN Stage(c, f)
              ELSE RollBack(c, "event_invalid", 0, "claim_created")
    BY <2>3
  <2> DEFINE e == EventAfter(events[a], next, fields, pr)
  <2>5. next \in States /\ fields \in SUBSET Fields
    BY <2>4, RequiredType, StoreAssumption
  <2>6. e \in Event
    BY <2>2, <2>5, EventAfterType
  <2>7. CASE Stage(c, e)
    <3> HIDE DEF e
    <3> QED
      BY <1>0, <2>6, <2>7 DEF Stage, SessionsTyped
  <2>8. CASE Answer(c, "event_invalid", 0, "claim_created")
    BY <1>0, <2>1, <2>8, AnswerType, HeadTypes
  <2> QED
    BY <2>4, <2>7, <2>8 DEF RollBack
<1>10. CASE Commit(c)
  <2> DEFINE category == IF req[c].op = "create" THEN "created" ELSE "appended"
  <2>1. /\ Answer(c, category, staged[c].seq, staged[c].next)
        /\ req[c] \in Request
    BY <1>10, <1>r DEF Commit
  <2>2. category \in Categories /\ staged[c].seq \in Nat /\ staged[c].next \in States
    BY <1>0, HeadTypes DEF SessionsTyped, Categories, AppendCategories
  <2> HIDE DEF category
  <2> QED
    BY <1>0, <2>1, <2>2, AnswerType
<1>11. CASE CommitUncertain(c)
  <2>1. Answer(c, "claim_durability_uncertain", 0, "claim_created") /\ req[c] \in Request
    BY <1>11, <1>r DEF CommitUncertain
  <2> QED
    BY <1>0, <2>1, AnswerType, HeadTypes
<1>12. CASE Incomplete(c)
  <2>1. Answer(c, "commit_incomplete", 0, "claim_created") /\ req[c] \in Request
    BY <1>12, <1>r DEF Incomplete, RollBack
  <2> QED
    BY <1>0, <2>1, AnswerType, HeadTypes
<1>13. CASE BeginRead(c)
  <2>1. req[c] \in Request /\ events[req[c].attempt] \in Seq(Event)
    BY <1>13, <1>r DEF BeginRead, Request, IInv, TypeOK
  <2> QED
    BY <1>0, <1>13, <2>1 DEF BeginRead, SessionsTyped
<1>14. CASE EndRead(c)
  <2> DEFINE category == ReadCategory(req[c], seen[c])
             found == IF category # "read_success" THEN <<0, "claim_created">>
                      ELSE IF req[c].op = "read_initial"
                           THEN <<seen[c][1].seq, seen[c][1].next>>
                      ELSE <<Latest(seen[c]).seq, Latest(seen[c]).next>>
  <2>1. /\ req[c] \in Request /\ req[c].op \in {"read", "read_initial"}
        /\ seen[c] = events[req[c].attempt] /\ seen[c] \in Seq(Event)
    BY <1>0, <1>14, <1>r
       DEF EndRead, IInv, LocksMatchRequests, SeenIsCurrent, Request, Ops, Writes,
           SessionsTyped
  <2>2. category \in Categories
    BY <2>1 DEF ReadCategory, Categories, ReadCategories
  <2>3. category = "read_success" => seen[c] # <<>>
    BY <2>1 DEF ReadCategory, UnitOK, InitialUnitOK
  <2>4. seen[c] # <<>> => seen[c][1] \in Event /\ Latest(seen[c]) \in Event
    BY <2>1 DEF Latest
  <2>5. found[1] \in Nat /\ found[2] \in States
    BY <2>3, <2>4, HeadTypes
  <2>6. Answer(c, category, found[1], found[2])
    BY <1>14 DEF EndRead
  <2> HIDE DEF category, found
  <2> QED
    BY <1>0, <2>1, <2>2, <2>5, <2>6, AnswerType
<1>15. CASE ReadFails(c)
  <2>1. Answer(c, "claim_store_unavailable", 0, "claim_created") /\ req[c] \in Request
    BY <1>15, <1>r DEF ReadFails
  <2> QED
    BY <1>0, <2>1, AnswerType, HeadTypes
<1>16. CASE Crash(c)
  BY <1>0, <1>16, FirstEventStartsChain DEF Crash, SessionsTyped
<1> QED
  BY <1>1, <1>2, <1>3, <1>4, <1>5, <1>6, <1>7, <1>8, <1>9, <1>10, <1>11, <1>12,
     <1>13, <1>14, <1>15, <1>16 DEF Step

-----------------------------------------------------------------------------
(***************************************************************************)
(* The invariant.                                                          *)
(***************************************************************************)

\* The empty store satisfies the inductive invariant.
LEMMA InitIInv == Init => IInv
<1> SUFFICES ASSUME Init PROVE IInv
  OBVIOUS
<1> USE DEF Init
<1>1. TypeOK
  <2>1. NoAnswer \in Answers /\ <<>> \in Seq(Event) /\ FirstEvent \in Event
    BY FirstEventStartsChain, HeadTypes DEF NoAnswer, Bare, Answers, Categories
  <2>2. TablesTyped /\ LocksTyped
    BY <2>1 DEF TablesTyped, LocksTyped
  <2>3. SessionsTyped
    BY <2>1 DEF SessionsTyped
  <2> QED
    BY <2>2, <2>3 DEF TypeOK, TablesTyped, LocksTyped, SessionsTyped
<1>2. LocksMatchRequests
  BY StoreAssumption DEF LocksMatchRequests
<1>3. Committed = {}
  BY DEF Committed
<1>4. UniquenessMatchesClaims /\ NoPartialUnits /\ UnitsWhole
  BY <1>3, StoreAssumption DEF UniquenessMatchesClaims, NoPartialUnits, UnitsWhole
<1>5. StagedIsAccepted /\ SeenIsCurrent
  BY DEF StagedIsAccepted, SeenIsCurrent
<1> QED
  BY <1>1, <1>2, <1>4, <1>5 DEF IInv

\* Every step of every client preserves it.
LEMMA NextIInv == IInv /\ [Next]_vars => IInv'
<1> SUFFICES ASSUME IInv, [Next]_vars PROVE IInv'
  OBVIOUS
<1>1. ASSUME NEW c \in Clients, Step(c)
      PROVE  IInv'
  <2>1. TablesInv' /\ LocksTyped' /\ SessionsTyped'
    BY <1>1, TablesStep, LocksTypedStep, SessionsTypedStep
  <2>2. TypeOK'
    BY <2>1 DEF TablesInv, TablesTyped, LocksTyped, SessionsTyped, TypeOK
  <2>3. LocksMatchRequests' /\ StagedIsAccepted' /\ SeenIsCurrent'
    BY <1>1, LocksStep, StagedStep, SeenStep DEF IInv
  <2> QED
    BY <2>1, <2>2, <2>3 DEF IInv, TablesInv
<1>2. CASE UNCHANGED vars
  <2> USE <1>2 DEF vars, tables, locks, session, IInv
  <2>1. TypeOK'
    BY DEF TypeOK
  <2>2. Committed' = Committed
    BY DEF Committed
  <2>3. LocksMatchRequests' /\ SeenIsCurrent'
    BY DEF LocksMatchRequests, SeenIsCurrent
  <2>4. UniquenessMatchesClaims' /\ NoPartialUnits' /\ UnitsWhole'
    BY <2>2 DEF UniquenessMatchesClaims, NoPartialUnits, UnitsWhole
  <2>5. StagedIsAccepted'
    BY DEF StagedIsAccepted, Acceptable, EventAccepted
  <2> QED
    BY <2>1, <2>3, <2>4, <2>5
<1> QED
  BY <1>1, <1>2 DEF Next

\* Whatever processes call the store, fail and crash, in whatever order, the
\* inductive invariant holds (the whole of SQLiteCodexPilotInitialClaimStore).
THEOREM IInvHolds == Spec => []IInv
<1>1. Init => IInv
  BY InitIInv
<1>2. IInv /\ [Next]_vars => IInv'
  BY NextIInv
<1> QED
  BY <1>1, <1>2, PTL DEF Spec

\* Every variable keeps its type: in particular each snapshot that a COMMIT
\* stores is one the schema can hold.
THEOREM TypeCorrect == Spec => []TypeOK
<1>1. IInv => TypeOK
  BY DEF IInv
<1> QED
  BY <1>1, IInvHolds, PTL

\* The uniqueness table always says exactly who holds which key
\* (create_initial_claim_commit).
THEOREM UniquenessIsExact == Spec => []UniquenessMatchesClaims
<1>1. IInv => UniquenessMatchesClaims
  BY DEF IInv
<1> QED
  BY <1>1, IInvHolds, PTL

\* No row of an uncommitted attempt is ever visible, however its claim ended
\* (create_initial_claim_commit).
THEOREM NothingPartialIsVisible == Spec => []NoPartialUnits
<1>1. IInv => NoPartialUnits
  BY DEF IInv
<1> QED
  BY <1>1, IInvHolds, PTL

\* For any number of clients, attempts and packages, an authorization is
\* consumed by at most one attempt: two that claimed it would both be what
\* its one row of the uniqueness table resolves to.
THEOREM AuthorizationConsumedOnce == Spec => []OneClaimPerAuthorization
<1>1. IInv => OneClaimPerAuthorization
  <2> SUFFICES ASSUME IInv, NEW a \in Committed, NEW b \in Committed,
                      AuthId[claims[a]] = AuthId[claims[b]]
               PROVE  a = b
    BY DEF OneClaimPerAuthorization
  <2> DEFINE k == <<"authorization_id", AuthId[claims[a]]>>
  <2>1. claims[a] \in Auths /\ claims[b] \in Auths
    BY DEF IInv, TypeOK, Committed
  <2>2. k \in Keys /\ k \in KeysOf(a, claims[a]) /\ k \in KeysOf(b, claims[b])
    BY <2>1, StoreAssumption DEF Keys, KeysOf
  <2>3. unique[k] = a /\ unique[k] = b
    BY <2>2 DEF IInv, UniquenessMatchesClaims, Committed
  <2> QED
    BY <2>3
<1> QED
  BY <1>1, IInvHolds, PTL

\* What is stored of a committed claim passes its validation.
LEMMA StoredUnitsAreWhole == IInv => StoredUnitsValidate
<1> SUFFICES ASSUME IInv, NEW a \in Committed
             PROVE  Present(a) /\ UnitOK(a, claims[a], events[a])
  BY DEF StoredUnitsValidate
<1> DEFINE evs == events[a]
           first == <<Head(evs)>>
<1>1. /\ evs \in Seq(Event) /\ ChainOK(evs)
      /\ initial[a] = Derive(first) /\ current[a] = Derive(evs)
  BY DEF IInv, TypeOK, UnitsWhole, Committed
<1>2. /\ evs # <<>> /\ first \in Seq(Event)
      /\ Len(first) = 1 /\ DOMAIN first = {1} /\ first[1] = evs[1]
  BY <1>1 DEF ChainOK
<1>3. ChainOK(first)
  <2>1. EventOK(evs[1]) /\ evs[1].seq = 0
    BY <1>1, <1>2 DEF ChainOK
  <2> HIDE DEF first
  <2> QED
    BY <1>2, <2>1 DEF ChainOK
<1> HIDE DEF evs, first
<1>4. Derive(first) \in Snapshot /\ Derive(evs) \in Snapshot /\ SnapshotOK(Derive(evs))
  BY <1>1, <1>2, <1>3, ChainsDeriveSnapshots
<1>5. \A k \in KeysOf(a, claims[a]) : unique[k] = a
  <2>1. claims[a] \in Auths /\ a \in Attempts
    BY DEF IInv, TypeOK, Committed
  <2>2. KeysOf(a, claims[a]) \subseteq Keys
    BY <2>1, StoreAssumption DEF KeysOf, Keys
  <2> QED
    BY <2>1, <2>2 DEF IInv, UniquenessMatchesClaims
<1>6. Present(a)
  BY <1>1, <1>2, <1>4, StoreAssumption DEF Present, Committed, evs
<1>7. UnitOK(a, claims[a], evs)
  BY <1>1, <1>2, <1>3, <1>4, <1>5 DEF UnitOK, InitialUnitOK, evs, first
<1> QED
  BY <1>6, <1>7 DEF evs

\* No claim is ever wedged, for any number of clients: every committed unit
\* passes the validation that each append and read repeats.
THEOREM StoredUnitsAlwaysValidate == Spec => []StoredUnitsValidate
BY StoredUnitsAreWhole, IInvHolds, PTL
===============================================================================
