-------------------------- MODULE ClaimStorePromises --------------------------
(***************************************************************************)
(* What the claim store promises its callers, for any clients, attempts    *)
(* and packages: it is a ledger (ClaimLedger), its definite refusals       *)
(* change nothing, its successes last, and the fingerprint of a package    *)
(* never decides a conflict alone.                                         *)
(***************************************************************************)
EXTENDS ClaimStoreProofs

-----------------------------------------------------------------------------
(***************************************************************************)
(* The ledger.                                                             *)
(***************************************************************************)

\* A claim whose keys are all free is new to the ledger: neither its attempt
\* nor its authorization id has been claimed.
LEMMA FreeKeysAreUnclaimed ==
  ASSUME TablesInv, NEW a \in Attempts, NEW u \in Auths,
         \A k \in KeysOf(a, u) : unique[k] = None
  PROVE  /\ a \notin Committed
         /\ \A b \in Committed : AuthId[claims[b]] # AuthId[u]
<1> USE StoreAssumption
<1>1. KeysOf(a, u) \subseteq Keys
  BY DEF KeysOf, Keys
<1>2. ASSUME NEW b \in Committed, NEW k \in KeysOf(a, u), k \in KeysOf(b, claims[b])
      PROVE  FALSE
  BY <1>1, <1>2 DEF TablesInv, UniquenessMatchesClaims, Committed
<1>3. \A b : /\ <<"attempt_id", b>> \in KeysOf(b, claims[b])
             /\ <<"authorization_id", AuthId[claims[b]]>> \in KeysOf(b, claims[b])
  BY DEF KeysOf
<1>4. /\ <<"attempt_id", a>> \in KeysOf(a, u)
      /\ <<"authorization_id", AuthId[u]>> \in KeysOf(a, u)
  BY DEF KeysOf
<1>5. a \notin Committed
  BY <1>2, <1>3, <1>4
<1>6. ASSUME NEW b \in Committed, AuthId[claims[b]] = AuthId[u]
      PROVE  FALSE
  BY <1>2, <1>3, <1>4, <1>6
<1> QED
  BY <1>5, <1>6

\* An accepted event is the one that the ledger builds from the log, the state
\* that is asked for and a pull request.
LEMMA AcceptedIsBuilt ==
  ASSUME NEW evs \in Seq(Event), evs # <<>>, NEW e \in Event,
         ChainOK(Append(evs, e))
  PROVE  /\ <<Latest(evs).next, e.next>> \in Transitions
         /\ e = EventAfter(evs, e.next, Required(Latest(evs).next, e.next), e.pr)
<1> DEFINE n == Len(evs)
           all == Append(evs, e)
<1>1. /\ n \in Nat \ {0}
      /\ n + 1 \in DOMAIN all /\ all[n + 1] = e
      /\ n \in DOMAIN all /\ all[n] = evs[n]
      /\ (n + 1) - 1 = n /\ n + 1 > 1
  OBVIOUS
<1>2. ChainOK(all)
  OBVIOUS
<1> HIDE DEF all
<1>3. EventOK(all[n + 1]) /\ Follows(all[n + 1], all[(n + 1) - 1])
  BY <1>1, <1>2 DEF ChainOK
<1>4. EventOK(e) /\ Follows(e, evs[n])
  BY <1>1, <1>3
<1> QED
  BY <1>4 DEF EventOK, Follows, Latest, EventAfter, Event

\* The ledger speaks of the store's states, events and chains.
LEMMA SameContract ==
  /\ Ledger!States = States /\ Ledger!Transitions = Transitions
  /\ \A p, q : Ledger!Required(p, q) = Required(p, q)
  /\ \A evs : Ledger!Latest(evs) = Latest(evs)
  /\ \A evs, next, fields, pr :
       Ledger!EventAfter(evs, next, fields, pr) = EventAfter(evs, next, fields, pr)
  /\ \A evs : Ledger!ChainOK(evs) <=> ChainOK(evs)
<1>1. Ledger!States = States /\ Ledger!Exits = Exits
  BY DEF Ledger!States, States, Ledger!Working, Working, Ledger!Terminal, Terminal,
         Ledger!Exits, Exits
<1>2. Ledger!Transitions = Transitions
  BY <1>1 DEF Ledger!Transitions, Transitions, Ledger!Working, Working
<1>3. \A p, q : Ledger!Required(p, q) = Required(p, q)
  BY <1>1 DEF Ledger!Required, Required
<1>4. \A evs, next, fields, pr :
        Ledger!EventAfter(evs, next, fields, pr) = EventAfter(evs, next, fields, pr)
  BY DEF Ledger!EventAfter, EventAfter
<1>5. Ledger!Terminal = Terminal
  BY DEF Ledger!Terminal, Terminal
<1>6. /\ \A e : Ledger!EventOK(e) <=> EventOK(e)
      /\ \A e, p : Ledger!Follows(e, p) <=> Follows(e, p)
  BY <1>2, <1>3, <1>5 DEF Ledger!EventOK, EventOK, Ledger!Follows, Follows
<1>7. \A evs : Ledger!ChainOK(evs) <=> ChainOK(evs)
  BY <1>6 DEF Ledger!ChainOK, ChainOK
<1> QED
  BY <1>1, <1>2, <1>3, <1>4, <1>7 DEF Ledger!Latest, Latest

\* A COMMIT is a step of the ledger.
LEMMA ApplyIsLedgerStep ==
  ASSUME IInv, NEW c \in Clients, pc[c] = "staged", Apply(c)
  PROVE  Ledger!LedgerNext
<1> DEFINE a == req[c].attempt
           u == req[c].auth
           e == staged[c]
<1>1. /\ req[c] \in Request /\ req[c].op \in Writes
      /\ a \in Attempts /\ u \in Auths /\ e \in Event
  BY DEF IInv, TypeOK, LocksMatchRequests, Request
<1>2. TablesInv /\ Acceptable(c)
  BY DEF IInv, TypeOK, TablesTyped, TablesInv, StagedIsAccepted
<1>3. Ledger!Claimed = Committed
  BY DEF Ledger!Claimed, Committed
<1>4. CASE req[c].op = "create"
  <2>1. /\ claims' = [claims EXCEPT ![a] = u]
        /\ events' = [events EXCEPT ![a] = <<FirstEvent>>]
        /\ \A k \in KeysOf(a, u) : unique[k] = None
    BY <1>2, <1>4 DEF Apply, ApplyClaim, Acceptable
  <2>2. a \notin Committed /\ \A b \in Committed : AuthId[claims[b]] # AuthId[u]
    BY <1>1, <1>2, <2>1, FreeKeysAreUnclaimed
  <2>3. Ledger!Claim(a, u)
    BY <1>3, <2>1, <2>2 DEF Ledger!Claim, Ledger!FirstEvent, FirstEvent
  <2> QED
    BY <1>1, <2>3 DEF Ledger!LedgerNext
<1>5. CASE req[c].op # "create"
  <2> DEFINE evs == events[a]
  <2>1. /\ claims' = claims
        /\ events' = [events EXCEPT ![a] = Append(@, e)]
        /\ claims[a] = u /\ ChainOK(Append(evs, e))
    BY <1>2, <1>5 DEF Apply, ApplyAppend, Acceptable, EventAccepted
  <2>2. a \in Committed
    BY <1>1, <2>1, StoreAssumption DEF Committed
  <2>3. evs \in Seq(Event) /\ evs # <<>>
    <3>1. evs \in Seq(Event)
      BY <1>1, <1>2 DEF TablesInv, TablesTyped
    <3>2. Len(evs) > 0
      BY <1>2, <2>2 DEF TablesInv, UnitsWhole, ChainOK
    <3> QED
      BY <3>1, <3>2
  <2>4. /\ <<Latest(evs).next, e.next>> \in Transitions
        /\ e = EventAfter(evs, e.next, Required(Latest(evs).next, e.next), e.pr)
    BY <1>1, <2>1, <2>3, AcceptedIsBuilt
  <2>5. events'[a] = Append(evs, e)
    BY <1>1, <1>2, <2>1 DEF TablesInv, TablesTyped
  <2>6. e.next \in States /\ e.pr \in Prs \cup {None}
    BY <1>1 DEF Event
  <2>7. /\ e.next \in Ledger!Successors(a)
        /\ Ledger!Extend(a, e.next, e.pr)
    BY <2>1, <2>4, <2>5, <2>6, SameContract DEF Ledger!Successors, Ledger!Extend
  <2> QED
    BY <1>3, <2>2, <2>6, <2>7 DEF Ledger!LedgerNext
<1> QED
  BY <1>4, <1>5

\* The store implements the ledger, whatever the locks, faults, crashes and
\* uncertain COMMITs do: each step changes the committed tables by one whole
\* legal claim or append, or not at all (create_initial_claim_commit,
\* append_lifecycle_event).
THEOREM ImplementsTheLedger == Spec => ImplementsLedger
<1>1. Init => Ledger!LedgerInit
  BY DEF Init, Ledger!LedgerInit
<1>2. IInv /\ [Next]_vars => [Ledger!LedgerNext]_(Ledger!ledgerVars)
  <2> SUFFICES ASSUME IInv, [Next]_vars
               PROVE  [Ledger!LedgerNext]_(Ledger!ledgerVars)
    OBVIOUS
  <2>1. CASE UNCHANGED tables
    BY <2>1 DEF tables, Ledger!ledgerVars
  <2>2. ASSUME NEW c \in Clients, Step(c)
        PROVE  UNCHANGED tables \/ Ledger!LedgerNext
    BY <2>2, TablesChange, ApplyIsLedgerStep
  <2>3. CASE UNCHANGED vars
    BY <2>1, <2>3 DEF vars
  <2> QED
    BY <2>1, <2>2, <2>3 DEF Next
<1> QED
  BY <1>1, <1>2, IInvHolds, PTL DEF Spec, ImplementsLedger, Ledger!LedgerSpec

-----------------------------------------------------------------------------
(***************************************************************************)
(* The answers.                                                            *)
(***************************************************************************)

\* No claim is ever refused for its fingerprint: a package whose fingerprint is
\* taken has its authorization id taken too, and the id is looked up first
\* (_conflict_category).
THEOREM FingerprintNeverDecides ==
  Spec => [](\A a \in Attempts, u \in Auths :
               Conflict(a, u) # "authorization_fingerprint_conflict")
<1>1. ASSUME IInv, NEW u \in Auths,
             unique[<<"authorization_fingerprint", u>>] # None
      PROVE  unique[<<"authorization_id", AuthId[u]>>] # None
  <2> DEFINE fp == <<"authorization_fingerprint", u>>
             id == <<"authorization_id", AuthId[u]>>
  <2>1. fp \in Keys /\ id \in Keys
    BY StoreAssumption DEF Keys
  <2>2. PICK b \in Attempts : unique[fp] = b
    BY <1>1, <2>1 DEF IInv, TypeOK
  <2>3. b \in Committed /\ fp \in KeysOf(b, claims[b])
    BY <1>1, <2>1, <2>2 DEF IInv, UniquenessMatchesClaims
  <2>4. claims[b] = u
    BY <2>3 DEF KeysOf
  <2>5. unique[id] = b
    BY <1>1, <2>1, <2>3, <2>4 DEF IInv, UniquenessMatchesClaims, KeysOf
  <2> QED
    BY <2>5, StoreAssumption
<1>2. IInv => \A a \in Attempts, u \in Auths :
                Conflict(a, u) # "authorization_fingerprint_conflict"
  BY <1>1 DEF Conflict
<1> QED
  BY <1>2, IInvHolds, PTL

\* The answers that say something of the tables (the invalid ones, of an
\* attempt).
Successes == {"created", "appended", "read_success"}
Invalid == {"committed_unit_invalid", "bundle_binding_mismatch", "history_mismatch"}

\* What a client is told, and what the step that tells it does.
LEMMA AnswersGiven ==
  ASSUME TypeOK, NEW c \in Clients, Step(c), res'[c] # res[c]
  PROVE  \/ Commit(c) \/ EndRead(c) \/ AppendRefused(c)
         \/ /\ res'[c].category \notin Successes
            /\ res'[c].attempt = None \/ res'[c].category \notin Invalid
            /\ UNCHANGED tables \/ res'[c].category = "claim_durability_uncertain"
<1> USE DEF TypeOK, Successes, Invalid
<1>1. CASE Open(c) \/ OpenFails(c) \/ Call(c)
  BY <1>1 DEF Open, OpenFails, Call, NoAnswer, Bare, session
<1>2. CASE RefuseArguments(c)
  <2>2. PICK op \in Ops : \E category \in RefusedArguments(op) :
          res' = [res EXCEPT ![c] = Bare(category)]
    BY <1>2 DEF RefuseArguments
  <2> PICK category \in RefusedArguments(op) :
          res' = [res EXCEPT ![c] = Bare(category)]
    BY <2>2
  <2>3. res'[c].category = category /\ res'[c].attempt = None
    BY DEF Bare
  <2>4. category \notin Successes
    BY DEF RefusedArguments
  <2> QED
    BY <1>2, <2>3, <2>4 DEF RefuseArguments
<1>3. CASE Unavailable(c) \/ BeginImmediate(c)
  BY <1>3 DEF Unavailable, BeginImmediate, Answer
<1>4. CASE CreateStages(c)
  BY <1>4 DEF CreateStages, Conflict, Stage, RollBack, Answer
<1>5. CASE AppendStages(c)
  BY <1>5 DEF AppendStages, Stage, RollBack, Answer
<1>6. CASE CommitUncertain(c)
  BY <1>6 DEF CommitUncertain, Answer
<1>7. CASE Incomplete(c)
  BY <1>7 DEF Incomplete, RollBack, Answer
<1>8. CASE BeginRead(c) \/ ReadFails(c) \/ Crash(c)
  BY <1>8 DEF BeginRead, ReadFails, Crash, Answer
<1> QED
  BY <1>1, <1>2, <1>3, <1>4, <1>5, <1>6, <1>7, <1>8 DEF Step

\* A caller that is told anything but success or "uncertain" may rely on it that
\* its request left no trace (_rollback_quietly,
\* SQLiteCodexPilotInitialClaimStore).
THEOREM FailuresChangeNothing == Spec => DefiniteFailuresChangeNothing
<1> DEFINE Definite ==
      \A c \in Clients :
        /\ res'[c] # res[c]
        /\ res'[c].category \notin
             {"created", "appended", "claim_durability_uncertain"}
        => UNCHANGED tables
<1>1. ASSUME IInv, [Next]_vars PROVE [Definite]_vars
  <2>1. ASSUME NEW d \in Clients, Step(d), NEW c \in Clients, res'[c] # res[c],
               res'[c].category \notin
                 {"created", "appended", "claim_durability_uncertain"}
        PROVE  UNCHANGED tables
    <3>1. TypeOK
      BY <1>1 DEF IInv
    <3>2. c = d
      BY <2>1, <3>1, OtherSessions
    <3>3. ~ Commit(c)
      BY <2>1, <3>1 DEF Commit, Answer, TypeOK
    <3>4. EndRead(c) \/ AppendRefused(c) => UNCHANGED tables
      BY DEF EndRead, AppendRefused, RollBack
    <3> QED
      BY <2>1, <3>1, <3>2, <3>3, <3>4, AnswersGiven
  <2> QED
    BY <1>1, <2>1 DEF Next
<1> QED
  BY <1>1, IInvHolds, PTL DEF Spec, DefiniteFailuresChangeNothing

\* What is claimed stays claimed by the same package, and its log only grows.
LEMMA TablesGrow ==
  ASSUME IInv, NEW c \in Clients, Step(c), NEW a \in Committed
  PROVE  /\ claims'[a] = claims[a]
         /\ \A i \in DOMAIN events[a] :
              i \in DOMAIN events'[a] /\ events'[a][i] = events[a][i]
<1>1. CASE UNCHANGED tables
  BY <1>1 DEF tables
<1>2. ASSUME pc[c] = "staged", Apply(c), req[c].op = "create"
      PROVE  a # req[c].attempt /\ claims'[a] = claims[a] /\ events'[a] = events[a]
  <2>1. req[c] \in Request /\ Acceptable(c) /\ TablesInv
    BY <1>2 DEF IInv, TypeOK, LocksMatchRequests, StagedIsAccepted, TablesInv,
                TablesTyped
  <2>2. req[c].attempt \notin Committed
    BY <1>2, <2>1, FreeKeysAreUnclaimed DEF Acceptable, Request
  <2> QED
    BY <1>2, <2>1, <2>2 DEF Apply, ApplyClaim, TablesInv, TablesTyped, Committed,
                            Request
<1>3. ASSUME pc[c] = "staged", Apply(c), req[c].op # "create"
      PROVE  /\ claims' = claims
             /\ events'[a] = IF a = req[c].attempt THEN Append(events[a], staged[c])
                             ELSE events[a]
  BY <1>3 DEF Apply, ApplyAppend, IInv, TypeOK, Committed
<1>4. events[a] \in Seq(Event) /\ staged[c] \in Event
  BY DEF IInv, TypeOK, Committed
<1>5. \A i \in DOMAIN events[a] :
        /\ i \in DOMAIN Append(events[a], staged[c])
        /\ Append(events[a], staged[c])[i] = events[a][i]
  BY <1>4
<1> QED
  BY <1>1, <1>2, <1>3, <1>5, TablesChange

\* A writer's lock, or a reader's, and what its request was checked against.
LEMMA RequestOf ==
  ASSUME IInv, NEW c \in Clients, pc[c] \in {"begun", "staged", "reading"}
  PROVE  /\ req[c] \in Request /\ req[c].op \in Ops
         /\ req[c].attempt \in Attempts /\ req[c].auth \in Auths
         /\ req[c].attempt # None /\ req[c].auth # None
<1>1. req[c] \in Request
  BY DEF IInv, TypeOK, LocksMatchRequests
<1> QED
  BY <1>1, StoreAssumption DEF Request

\* A committed unit is whole, event rows, snapshots and keys.
LEMMA UnitsValidate ==
  ASSUME IInv, NEW a \in Committed
  PROVE  /\ Present(a) /\ UnitOK(a, claims[a], events[a])
         /\ events[a] \in Seq(Event) /\ Len(events[a]) \in Nat \ {0}
         /\ \A i \in DOMAIN events[a] : events[a][i].seq = i - 1
         /\ unique[<<"attempt_id", a>>] = a
<1>1. Present(a) /\ UnitOK(a, claims[a], events[a])
  BY StoredUnitsAreWhole DEF StoredUnitsValidate
<1>2. events[a] \in Seq(Event) /\ ChainOK(events[a])
  BY DEF IInv, TypeOK, UnitsWhole, Committed
<1>3. unique[<<"attempt_id", a>>] = a
  BY <1>1 DEF UnitOK, InitialUnitOK, KeysOf
<1> QED
  BY <1>1, <1>2, <1>3 DEF ChainOK

\* What a client was told holds in the tables: a success of the package it
\* presented, at the place in the log that it names; an invalid unit is
\* another package's.
Told(c) ==
  LET r == res[c]
      a == r.attempt
  IN  /\ r.category \in Successes =>
           /\ a \in Attempts /\ r.auth \in Auths /\ claims[a] = r.auth
           /\ r.seq + 1 \in DOMAIN events[a]
           /\ events[a][r.seq + 1].seq = r.seq
           /\ events[a][r.seq + 1].next = r.state
      /\ r.category \in Invalid /\ a # None =>
           a \in Attempts /\ claims[a] \notin {r.auth, None}

\* A COMMIT that succeeds puts what it was asked for at the end of the log, and
\* says so.
LEMMA CommitTells ==
  ASSUME IInv, NEW c \in Clients, Commit(c)
  PROVE  LET a == req[c].attempt
             n == Len(events[a])
         IN  /\ res'[c].category \in {"created", "appended"}
             /\ res'[c].attempt = a /\ res'[c].auth = req[c].auth
             /\ res'[c].seq = n /\ res'[c].state = staged[c].next
             /\ claims'[a] = req[c].auth
             /\ n \in Nat /\ n + 1 \in DOMAIN events'[a]
             /\ events'[a][n + 1] = staged[c] /\ staged[c].seq = n
<1> DEFINE a == req[c].attempt
           u == req[c].auth
           e == staged[c]
           n == Len(events[a])
<1>1. /\ pc[c] = "staged" /\ Apply(c) /\ Acceptable(c)
      /\ a \in Attempts /\ u \in Auths /\ e \in Event
      /\ events[a] \in Seq(Event) /\ events \in [Attempts -> Seq(Event)]
      /\ claims \in [Attempts -> Auths \cup {None}]
      /\ n \in Nat
  BY RequestOf DEF Commit, IInv, TypeOK, StagedIsAccepted
<1>2. /\ res'[c].category \in {"created", "appended"}
      /\ res'[c].attempt = a /\ res'[c].auth = u
      /\ res'[c].seq = e.seq /\ res'[c].state = e.next
  BY DEF Commit, Answer, IInv, TypeOK
<1>3. CASE req[c].op = "create"
  <2>1. a \notin Committed
    BY <1>1, <1>3, FreeKeysAreUnclaimed
       DEF Acceptable, IInv, TypeOK, TablesInv, TablesTyped
  <2>2. events[a] = <<>> /\ n = 0
    BY <1>1, <2>1 DEF IInv, NoPartialUnits
  <2>3. claims'[a] = u /\ events'[a] = <<e>> /\ e.seq = 0
    BY <1>1, <1>3 DEF Apply, ApplyClaim, Acceptable, FirstEvent
  <2>4. DOMAIN <<e>> = {1} /\ <<e>>[1] = e
    OBVIOUS
  <2> QED
    BY <1>1, <1>2, <2>2, <2>3, <2>4
<1>4. CASE req[c].op # "create"
  <2>1. /\ claims'[a] = u /\ events'[a] = Append(events[a], e)
        /\ ChainOK(Append(events[a], e))
    BY <1>1, <1>4 DEF Apply, ApplyAppend, Acceptable, EventAccepted
  <2> DEFINE all == Append(events[a], e)
  <2>2. n + 1 \in DOMAIN all /\ all[n + 1] = e /\ (n + 1) - 1 = n
    BY <1>1
  <2>3. ChainOK(all)
    BY <2>1
  <2>4. e.seq = n
    <3> HIDE DEF all, n
    <3> QED
      BY <1>1, <2>2, <2>3 DEF ChainOK
  <2> QED
    BY <1>1, <1>2, <2>1, <2>2, <2>4
<1> QED
  BY <1>3, <1>4

\* A read reports what is stored, of one moment.
LEMMA ReadTells ==
  ASSUME IInv, NEW c \in Clients, EndRead(c)
  PROVE  Told(c)'
<1> DEFINE a == req[c].attempt
           u == req[c].auth
           evs == events[a]
           category == ReadCategory(req[c], seen[c])
<1>1. /\ a \in Attempts /\ u \in Auths /\ a # None /\ u # None
      /\ req[c].op \in {"read", "read_initial"}
      /\ seen[c] = evs /\ claims' = claims /\ events' = events
      /\ claims \in [Attempts -> Auths \cup {None}]
  BY RequestOf DEF EndRead, IInv, TypeOK, SeenIsCurrent, LocksMatchRequests, tables,
                   Ops, Writes
<1>2. /\ res'[c].category = category
      /\ res'[c].attempt = a /\ res'[c].auth = u
      /\ category = "read_success" /\ req[c].op = "read_initial" =>
           res'[c].seq = evs[1].seq /\ res'[c].state = evs[1].next
      /\ category = "read_success" /\ req[c].op = "read" =>
           res'[c].seq = Latest(evs).seq /\ res'[c].state = Latest(evs).next
  BY <1>1 DEF EndRead, Answer, IInv, TypeOK
<1>3. ASSUME a \in Committed
      PROVE  /\ UnitOK(a, claims[a], evs) /\ InitialUnitOK(a, claims[a], evs)
             /\ Len(evs) \in Nat \ {0} /\ DOMAIN evs = 1..Len(evs)
             /\ \A i \in DOMAIN evs : evs[i].seq = i - 1
  <2>1. /\ UnitOK(a, claims[a], evs)
        /\ evs \in Seq(Event) /\ Len(evs) \in Nat \ {0}
        /\ \A i \in DOMAIN evs : evs[i].seq = i - 1
    BY <1>3, UnitsValidate
  <2>2. InitialUnitOK(a, claims[a], evs)
    BY <2>1 DEF UnitOK
  <2>3. DOMAIN evs = 1..Len(evs)
    BY <2>1
  <2> QED
    BY <2>1, <2>2, <2>3
<1>4. unique[<<"attempt_id", a>>] # None => a \in Committed
  <2>1. <<"attempt_id", a>> \in Keys
    BY <1>1 DEF Keys
  <2>2. ASSUME NEW b \in Attempts, unique[<<"attempt_id", a>>] = b
        PROVE  b \in Committed /\ b = a
    <3>1. b \in Committed /\ <<"attempt_id", a>> \in KeysOf(b, claims[b])
      BY <2>1, <2>2 DEF IInv, UniquenessMatchesClaims
    <3> QED
      BY <3>1 DEF KeysOf
  <2>3. unique[<<"attempt_id", a>>] \in Attempts \cup {None}
    BY <2>1 DEF IInv, TypeOK
  <2> QED
    BY <2>2, <2>3
<1>5. /\ claims[a] # None => a \in Committed
      /\ Present(a) => a \in Committed
  BY <1>1 DEF Committed, Present
<1>6. CASE req[c].op = "read_initial"
  <2>1. category = IF unique[<<"attempt_id", a>>] = None THEN "missing_commit"
                   ELSE IF claims[a] # u THEN "bundle_binding_mismatch"
                   ELSE IF InitialUnitOK(a, u, evs) THEN "read_success"
                   ELSE "history_mismatch"
    BY <1>1, <1>6 DEF ReadCategory
  <2>2. category # "history_mismatch"
    BY <1>1, <1>3, <1>5, <2>1
  <2>3. CASE category = "read_success"
    BY <1>1, <1>2, <1>3, <1>5, <1>6, <2>1, <2>3 DEF Told, Successes, Invalid
  <2>4. CASE category = "bundle_binding_mismatch"
    BY <1>1, <1>2, <1>4, <2>1, <2>4 DEF Told, Successes, Invalid, Committed
  <2> QED
    BY <1>2, <2>1, <2>2, <2>3, <2>4 DEF Told, Successes, Invalid
<1>7. CASE req[c].op = "read"
  <2>1. category = IF ~Present(a) THEN "missing_commit"
                   ELSE IF UnitOK(a, u, evs) THEN "read_success"
                   ELSE "committed_unit_invalid"
    BY <1>1, <1>7 DEF ReadCategory
  <2>2. CASE category = "read_success"
    <3>1. claims[a] = u /\ a \in Committed
      BY <1>1, <1>5, <2>1, <2>2 DEF UnitOK, InitialUnitOK
    <3> QED
      BY <1>1, <1>2, <1>3, <1>7, <2>2, <3>1 DEF Told, Successes, Invalid, Latest
  <2>3. CASE category = "committed_unit_invalid"
    <3>1. a \in Committed /\ claims[a] # u
      BY <1>3, <1>5, <2>1, <2>3
    <3> QED
      BY <1>1, <1>2, <2>3, <3>1 DEF Told, Successes, Invalid, Committed
  <2> QED
    BY <1>2, <2>1, <2>2, <2>3 DEF Told, Successes, Invalid
<1> QED
  BY <1>1, <1>6, <1>7

\* An append refused for an invalid unit presented another package.
LEMMA RefusalTells ==
  ASSUME IInv, NEW c \in Clients, AppendRefused(c)
  PROVE  Told(c)'
<1> DEFINE a == req[c].attempt
           u == req[c].auth
<1>1. /\ a \in Attempts /\ u \in Auths /\ events' = events /\ claims' = claims
      /\ res'[c].category = Refusal(req[c])
      /\ res'[c].attempt = a /\ res'[c].auth = u
  BY RequestOf DEF AppendRefused, RollBack, Answer, IInv, TypeOK, tables
<1>2. Refusal(req[c]) \notin Successes
  BY DEF Refusal, Successes
<1>3. ASSUME Refusal(req[c]) \in Invalid
      PROVE  claims[a] \notin {u, None}
  <2>1. Present(a) /\ ~ UnitOK(a, u, events[a])
    BY <1>3 DEF Refusal, Invalid
  <2>2. a \in Committed /\ claims[a] # None
    BY <1>1, <2>1 DEF Present, Committed
  <2>3. UnitOK(a, claims[a], events[a])
    BY <2>2, UnitsValidate
  <2> QED
    BY <2>1, <2>2, <2>3
<1> QED
  BY <1>1, <1>2, <1>3 DEF Told

\* What was told stays true.
LEMMA ToldStays ==
  ASSUME IInv, NEW c \in Clients, Step(c), NEW d \in Clients, Told(d),
         res'[d] = res[d]
  PROVE  Told(d)'
<1>1. ASSUME res[d].category \in Successes
      PROVE  res[d].attempt \in Committed
  BY <1>1, StoreAssumption DEF Told, Committed
<1>2. ASSUME res[d].category \in Invalid, res[d].attempt # None
      PROVE  res[d].attempt \in Committed
  BY <1>2 DEF Told, Committed
<1> QED
  BY <1>1, <1>2, TablesGrow DEF Told

LEMMA ToldStep ==
  ASSUME IInv, \A d \in Clients : Told(d), NEW c \in Clients, Step(c),
         NEW d \in Clients
  PROVE  Told(d)'
<1>1. CASE res'[d] = res[d]
  BY <1>1, ToldStays
<1>2. CASE res'[d] # res[d]
  <2>1. d = c
    BY <1>2, OtherSessions DEF IInv
  <2>2. CASE Commit(c)
    <3>1. req[c].attempt \in Attempts /\ req[c].auth \in Auths
      BY <2>2, RequestOf DEF Commit
    <3>2. res'[c].category \notin Invalid
      BY <2>2, CommitTells DEF Invalid
    <3> DEFINE a == req[c].attempt
               n == Len(events[a])
    <3>3. /\ res'[c].attempt = a /\ res'[c].auth = req[c].auth
          /\ res'[c].seq = n /\ res'[c].state = staged[c].next
          /\ claims'[a] = req[c].auth /\ n + 1 \in DOMAIN events'[a]
          /\ events'[a][n + 1] = staged[c] /\ staged[c].seq = n
      BY <2>2, CommitTells
    <3> HIDE DEF a, n
    <3>4. Told(c)'
      BY <3>1, <3>2, <3>3 DEF Told, a
    <3> QED
      BY <2>1, <3>4
  <2>3. CASE EndRead(c) \/ AppendRefused(c)
    BY <2>1, <2>3, ReadTells, RefusalTells
  <2>4. CASE /\ res'[c].category \notin Successes
             /\ res'[c].attempt = None \/ res'[c].category \notin Invalid
    BY <2>1, <2>4 DEF Told
  <2> QED
    BY <1>2, <2>1, <2>2, <2>3, <2>4, AnswersGiven DEF IInv
<1> QED
  BY <1>1, <1>2

\* Every client was told what is in the tables.
LEMMA AllTold == Spec => [](\A c \in Clients : Told(c))
<1>1. Init => \A c \in Clients : Told(c)
  BY DEF Init, Told, NoAnswer, Bare, Successes, Invalid
<1>2. ASSUME IInv, \A c \in Clients : Told(c), [Next]_vars
      PROVE  (\A c \in Clients : Told(c))'
  <2>1. CASE Next
    BY <1>2, <2>1, ToldStep DEF Next
  <2>2. CASE UNCHANGED vars
    BY <1>2, <2>2 DEF vars, tables, session, Told
  <2> QED
    BY <1>2, <2>1, <2>2
<1> QED
  BY <1>1, <1>2, IInvHolds, PTL DEF Spec

\* The caller that was told that it claimed, appended or read something finds
\* it in the tables ever after, whatever crashes and uncertain COMMITs follow.
THEOREM SuccessesLast == Spec => []AnswersAreDurable
<1>1. (\A c \in Clients : Told(c)) => AnswersAreDurable
  <2> SUFFICES ASSUME NEW c \in Clients, Told(c), res[c].category \in Successes
               PROVE  /\ claims[res[c].attempt] = res[c].auth
                      /\ \E i \in DOMAIN events[res[c].attempt] :
                           /\ events[res[c].attempt][i].seq = res[c].seq
                           /\ events[res[c].attempt][i].next = res[c].state
    BY DEF AnswersAreDurable, Successes
  <2> QED
    BY DEF Told
<1> QED
  BY <1>1, AllTold, PTL

\* No package is told that its own claim is invalid: readers never see rows of
\* two moments (read_lifecycle_state, read_initial_claim_bundle).
THEOREM ForeignPackagesOnly == Spec => []OnlyForeignPackagesFindUnitsInvalid
<1>1. (\A c \in Clients : Told(c)) => OnlyForeignPackagesFindUnitsInvalid
  BY DEF Told, OnlyForeignPackagesFindUnitsInvalid, Invalid
<1> QED
  BY <1>1, AllTold, PTL

\* Of the callers that race to write one sequence number of a log, one at most
\* is told that it succeeded: the others find the log longer than they thought
\* (append_lifecycle_event, create_initial_claim_commit).
THEOREM OneWinnerPerSequence == Spec => []OneWinner
<1>1. Init => OneWinner
  BY DEF Init, OneWinner, NoAnswer, Bare
<1>2. ASSUME IInv, \A c \in Clients : Told(c), OneWinner, [Next]_vars
      PROVE  OneWinner'
  <2> DEFINE Won(d) == res[d].category \in {"created", "appended"}
  <2>1. ASSUME NEW e \in Clients, Step(e), NEW c \in Clients, NEW d \in Clients,
               c # d, Won(c)', Won(d)', res'[c].attempt = res'[d].attempt,
               res'[d] = res[d], res'[c] # res[c]
        PROVE  res'[c].seq # res'[d].seq
    <3>1. c = e
      BY <1>2, <2>1, OtherSessions DEF IInv
    <3>2. Commit(c)
      <4>1. ~ EndRead(c)
        <5>1. ASSUME EndRead(c) PROVE res'[c].category = ReadCategory(req[c], seen[c])
          BY <1>2, <5>1 DEF EndRead, Answer, IInv, TypeOK
        <5>2. ASSUME EndRead(c)
              PROVE  ReadCategory(req[c], seen[c]) \notin {"created", "appended"}
          <6>1. req[c].op \in {"read", "read_initial"}
            BY <1>2, <5>2, RequestOf DEF EndRead, IInv, LocksMatchRequests, Ops, Writes
          <6> QED
            BY <6>1 DEF ReadCategory
        <5> QED
          BY <2>1, <5>1, <5>2
      <4>2. ~ AppendRefused(c)
        BY <1>2, <2>1 DEF AppendRefused, Refusal, RollBack, Answer, IInv, TypeOK
      <4> QED
        BY <1>2, <2>1, <3>1, <4>1, <4>2, AnswersGiven DEF IInv, Successes
    <3>3. LET a == req[c].attempt
          IN  res'[c].attempt = a /\ res'[c].seq = Len(events[a])
      BY <1>2, <3>2, CommitTells
    <3>4. /\ res[d].attempt \in Attempts
          /\ res[d].seq + 1 \in DOMAIN events[res[d].attempt]
      BY <1>2, <2>1 DEF Told, Successes
    <3>5. events[res[d].attempt] \in Seq(Event)
      BY <1>2, <3>4 DEF IInv, TypeOK
    <3>6. res[d].seq < Len(events[res[d].attempt])
      <4>1. res[d].seq \in Nat
        BY <1>2 DEF IInv, TypeOK, Answers
      <4> QED
        BY <3>4, <3>5, <4>1
    <3>7. Len(events[res[d].attempt]) \in Nat
      BY <3>5
    <3> QED
      BY <1>2, <2>1, <3>3, <3>6, <3>7 DEF IInv, TypeOK, Answers
  <2>2. ASSUME NEW e \in Clients, Step(e), NEW c \in Clients, NEW d \in Clients,
               c # d, Won(c)', Won(d)', res'[c].attempt = res'[d].attempt
        PROVE  res'[c].seq # res'[d].seq
    <3>1. res'[c] = res[c] \/ res'[d] = res[d]
      BY <1>2, <2>2, OtherSessions DEF IInv
    <3>2. CASE res'[c] = res[c] /\ res'[d] = res[d]
      BY <1>2, <2>2, <3>2 DEF OneWinner
    <3> QED
      BY <2>1, <2>2, <3>1, <3>2
  <2>3. CASE Next
    BY <2>2, <2>3 DEF Next, OneWinner
  <2>4. CASE UNCHANGED vars
    BY <1>2, <2>4 DEF vars, session, OneWinner
  <2> QED
    BY <1>2, <2>3, <2>4
<1> QED
  BY <1>1, <1>2, IInvHolds, AllTold, PTL DEF Spec
===============================================================================
