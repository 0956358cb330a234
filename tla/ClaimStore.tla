------------------------------ MODULE ClaimStore ------------------------------
(***************************************************************************)
(* SQLiteCodexPilotInitialClaimStore (dev/codex_claim_store.py): the       *)
(* claim store's create, append and read operations over one SQLite file   *)
(* in rollback-journal mode, called by several processes.                  *)
(*                                                                         *)
(* A writer holds the RESERVED lock from BEGIN IMMEDIATE to the end of its *)
(* transaction; readers hold SHARED over their SELECTs, and a COMMIT waits *)
(* for them.  What a transaction inserts is invisible, and lost in a       *)
(* crash, until COMMIT, which applies all of it.  A COMMIT that reports an *)
(* error may or may not have applied; one that is cut short may leave a    *)
(* hot journal, which the next connection that may write rolls back and    *)
(* which a read-only connection, unable to do so, refuses.                 *)
(*                                                                         *)
(* Packages are compared by identity (the fingerprint is injective), and   *)
(* the event arguments of an append are drawn when its transaction first   *)
(* uses them.                                                              *)
(***************************************************************************)
EXTENDS AuditChain

CONSTANTS
  Clients,    \* processes that open the store
  Attempts,   \* attempt identities
  Auths,      \* authorization packages
  AuthIds,    \* authorization identities
  AuthId,     \* the identity each package carries
  NextStates  \* the lifecycle states that callers ask an append for

Ops == {"create", "append", "read", "read_initial"}

Writes == {"create", "append"}

\* An append names the head of the log its caller believes to be current.
Request ==
  [op : Ops, attempt : Attempts, auth : Auths, seq : Nat, state : States]

ASSUME StoreAssumption ==
  /\ AuthId \in [Auths -> AuthIds]
  /\ NextStates \subseteq States
  /\ None \notin Attempts \cup Auths \cup Clients \cup Snapshot \cup Request

-----------------------------------------------------------------------------
VARIABLES
  claims,    \* claims table: the package each attempt's claim record binds
  events,    \* initial and lifecycle event tables, in sequence order
  initial,   \* initial snapshot table
  current,   \* current snapshot table
  unique,    \* uniqueness table: the attempt each key resolves to
  writer,    \* the client holding RESERVED
  readers,   \* the clients holding SHARED
  hot,       \* a hot journal lies beside the database file
  opened,    \* the clients that hold a store object
  pc,        \* how far each client's request has got
  req,       \* the request
  staged,    \* the event row a client's open transaction inserts
  seen,      \* the event rows a reading client has fetched
  res        \* the last answer each client was given

tables == <<claims, events, initial, current, unique>>
locks == <<writer, readers, hot, opened>>
session == <<pc, req, staged, seen, res>>
vars == <<tables, locks, session>>

\* The primary keys of the uniqueness table, and the three of one claim.
Keys ==
  ({"attempt_id"} \X Attempts) \cup ({"authorization_id"} \X AuthIds)
    \cup ({"authorization_fingerprint"} \X Auths)

\* Variant: no row is kept for the authorization id.
KeysWithoutId(a, u) ==
  {<<"attempt_id", a>>, <<"authorization_fingerprint", u>>}

KeysOf(a, u) ==
  {<<"attempt_id", a>>, <<"authorization_id", AuthId[u]>>,
   <<"authorization_fingerprint", u>>}

AppendCategories ==
  {"appended", "attempt_id_invalid", "authorization_context_invalid",
   "missing_commit", "committed_unit_invalid", "stale_append_rejected",
   "terminal_append_rejected", "event_invalid", "claim_store_unavailable",
   "claim_durability_uncertain", "commit_incomplete"}

ReadCategories ==
  {"read_success", "attempt_id_invalid", "authorization_context_invalid",
   "missing_commit", "committed_unit_invalid", "claim_store_unavailable"}

\* ... with those of the claim ("none" before the first answer).
Categories ==
  AppendCategories \cup ReadCategories \cup
  {"none", "created", "attempt_id_conflict", "authorization_id_conflict",
   "authorization_fingerprint_conflict", "bundle_invalid",
   "bundle_binding_mismatch", "history_mismatch"}

Answers ==
  [category : Categories, attempt : Attempts \cup {None},
   auth : Auths \cup {None}, seq : Nat, state : States]

\* An answer that reports nothing but its category.
Bare(category) ==
  [category |-> category, attempt |-> None, auth |-> None, seq |-> 0,
   state |-> "claim_created"]

NoAnswer == Bare("none")

Init ==
  /\ claims = [a \in Attempts |-> None]
  /\ events = [a \in Attempts |-> <<>>]
  /\ initial = [a \in Attempts |-> None]
  /\ current = [a \in Attempts |-> None]
  /\ unique = [k \in Keys |-> None]
  /\ writer = None
  /\ readers = {}
  /\ hot = FALSE
  /\ opened = Clients
  /\ pc = [c \in Clients |-> "idle"]
  /\ req = [c \in Clients |-> None]
  /\ staged = [c \in Clients |-> FirstEvent]
  /\ seen = [c \in Clients |-> <<>>]
  /\ res = [c \in Clients |-> NoAnswer]

-----------------------------------------------------------------------------
(***************************************************************************)
(* What the code finds in the tables.                                      *)
(***************************************************************************)

\* The rows _load_lifecycle_unit needs are all there.
Present(a) ==
  /\ claims[a] # None
  /\ events[a] # <<>>
  /\ initial[a] # None
  /\ current[a] # None

\* The rows written by the claim validate against package u, the event rows
\* being evs.
InitialUnitOK(a, u, evs) ==
  /\ claims[a] = u
  /\ evs # <<>>
  /\ ChainOK(<<Head(evs)>>)
  /\ initial[a] = Derive(<<Head(evs)>>)
  /\ \A k \in KeysOf(a, u) : unique[k] = a

\* So does the whole unit.
UnitOK(a, u, evs) ==
  /\ InitialUnitOK(a, u, evs)
  /\ ChainOK(evs)
  /\ SnapshotOK(current[a])
  /\ current[a] = Derive(evs)

\* The first uniqueness key that is already taken, in order of precedence.
Conflict(a, u) ==
  IF unique[<<"attempt_id", a>>] # None THEN "attempt_id_conflict"
  ELSE IF unique[<<"authorization_id", AuthId[u]>>] # None
       THEN "authorization_id_conflict"
  ELSE IF unique[<<"authorization_fingerprint", u>>] # None
       THEN "authorization_fingerprint_conflict"
  ELSE "none"

\* Why an append is refused before its event is looked at.
Refusal(r) ==
  LET a == r.attempt IN
  IF ~Present(a) THEN "missing_commit"
  ELSE IF ~UnitOK(a, r.auth, events[a]) THEN "committed_unit_invalid"
  ELSE IF r.seq # current[a].seq \/ r.state # current[a].state
       THEN "stale_append_rejected"
  ELSE IF current[a].terminal THEN "terminal_append_rejected" ELSE "none"

\* Variant: the event is trusted.
EventTrusted(a, e) == e.next \in States

\* The event passes every check the append makes before it writes.
EventAccepted(a, e) ==
  LET evs == Append(events[a], e)
  IN  ChainOK(evs) /\ SnapshotOK(Derive(evs))

\* What a finished read reports.  The eight blockers that read_initial tells
\* apart in a unit of the right package are one here.
ReadCategory(r, evs) ==
  LET a == r.attempt IN
  CASE r.op = "read_initial" ->
         IF unique[<<"attempt_id", a>>] = None THEN "missing_commit"
         ELSE IF claims[a] # r.auth THEN "bundle_binding_mismatch"
         ELSE IF InitialUnitOK(a, r.auth, evs) THEN "read_success"
         ELSE "history_mismatch"
    [] r.op = "read" ->
         IF ~Present(a) THEN "missing_commit"
         ELSE IF UnitOK(a, r.auth, evs) THEN "read_success"
         ELSE "committed_unit_invalid"

-----------------------------------------------------------------------------
(***************************************************************************)
(* Requests and answers.                                                   *)
(***************************************************************************)

\* The request ends: the connection is closed and the caller is told.
Answer(c, category, seq, state) ==
  /\ res' = [res EXCEPT ![c] =
       [category |-> category, attempt |-> req[c].attempt, auth |-> req[c].auth,
        seq |-> seq, state |-> state]]
  /\ pc' = [pc EXCEPT ![c] = "idle"]
  /\ req' = [req EXCEPT ![c] = None]
  /\ staged' = [staged EXCEPT ![c] = FirstEvent]
  /\ seen' = [seen EXCEPT ![c] = <<>>]

\* A write request ends without COMMIT: ROLLBACK.
RollBack(c, category, seq, state) ==
  /\ Answer(c, category, seq, state)
  /\ writer' = None
  /\ UNCHANGED <<tables, readers, hot, opened>>

\* The heads a caller of an append may hold: one that was current at some time.
KnownHeads(a) ==
  {<<0, "claim_created">>} \cup
    {<<events[a][i].seq, events[a][i].next>> : i \in DOMAIN events[a]}

\* _initialize_database on the existing file: a new store object first checks
\* the schema over a read-only connection.
Open(c) ==
  /\ c \notin opened
  /\ ~hot
  /\ opened' = opened \cup {c}
  /\ UNCHANGED <<tables, writer, readers, hot, session>>

\* "claim store initialization failed", whatever the reason.
OpenFails(c) ==
  /\ c \notin opened
  /\ res' = [res EXCEPT ![c] = Bare("claim_store_unavailable")]
  /\ UNCHANGED <<tables, locks, pc, req, staged, seen>>

Call(c) ==
  /\ c \in opened
  /\ pc[c] = "idle"
  /\ \E op \in Ops, a \in Attempts, u \in Auths :
       \E h \in IF op = "append" THEN KnownHeads(a) ELSE {<<0, "claim_created">>} :
         req' = [req EXCEPT ![c] = [op |-> op, attempt |-> a, auth |-> u,
                                    seq |-> h[1], state |-> h[2]]]
  /\ pc' = [pc EXCEPT ![c] = "calling"]
  /\ res' = [res EXCEPT ![c] = NoAnswer]
  /\ UNCHANGED <<tables, locks, staged, seen>>

\* Arguments that do not validate are refused before the file is opened.
RefusedArguments(op) ==
  {"authorization_context_invalid"} \cup
    IF op = "create" THEN {"bundle_invalid", "bundle_binding_mismatch"}
    ELSE IF op = "append"
         THEN {"attempt_id_invalid", "stale_append_rejected", "event_invalid"}
    ELSE {"attempt_id_invalid"}

RefuseArguments(c) ==
  /\ c \in opened
  /\ pc[c] = "idle"
  /\ \E op \in Ops : \E category \in RefusedArguments(op) :
       res' = [res EXCEPT ![c] = Bare(category)]
  /\ UNCHANGED <<tables, locks, pc, req, staged, seen>>

\* Opening the file, its schema check or BEGIN fails, or another writer keeps
\* RESERVED for longer than the busy timeout.
Unavailable(c) ==
  /\ pc[c] = "calling"
  /\ Answer(c, "claim_store_unavailable", 0, "claim_created")
  /\ hot' = FALSE \/ UNCHANGED hot
  /\ hot' # hot => req[c].op \in Writes
  /\ UNCHANGED <<tables, writer, readers, opened>>

-----------------------------------------------------------------------------
(***************************************************************************)
(* Writing.                                                                *)
(***************************************************************************)

\* Variant: BEGIN DEFERRED, so two writers validate against the same rows.
BeginDeferred(c) ==
  /\ pc[c] = "calling"
  /\ req[c].op \in Writes
  /\ pc' = [pc EXCEPT ![c] = "begun"]
  /\ UNCHANGED <<tables, locks, req, staged, seen, res>>

BeginImmediate(c) ==
  /\ pc[c] = "calling"
  /\ req[c].op \in Writes
  /\ writer = None
  /\ writer' = c
  /\ hot' = FALSE
  /\ pc' = [pc EXCEPT ![c] = "begun"]
  /\ UNCHANGED <<tables, readers, opened, req, staged, seen, res>>

Stage(c, e) ==
  /\ staged' = [staged EXCEPT ![c] = e]
  /\ pc' = [pc EXCEPT ![c] = "staged"]
  /\ UNCHANGED <<tables, locks, req, seen, res>>

\* create_initial_claim_commit, inside its transaction.
CreateStages(c) ==
  /\ pc[c] = "begun"
  /\ req[c].op = "create"
  /\ LET conflict == Conflict(req[c].attempt, req[c].auth)
     IN  IF conflict = "none" THEN Stage(c, FirstEvent)
         ELSE RollBack(c, conflict, 0, "claim_created")

\* append_lifecycle_event, inside its transaction: refused by what is stored.
AppendRefused(c) ==
  /\ pc[c] = "begun"
  /\ req[c].op = "append"
  /\ LET refusal == Refusal(req[c])
         a == req[c].attempt
         current_head ==
           IF refusal \in {"stale_append_rejected", "terminal_append_rejected"}
           THEN <<current[a].seq, current[a].state>>
           ELSE <<0, "claim_created">>
     IN  /\ refusal # "none"
         /\ RollBack(c, refusal, current_head[1], current_head[2])

\* The event is built on the stored log, and inserted if it is accepted.
AppendStages(c) ==
  /\ pc[c] = "begun"
  /\ req[c].op = "append"
  /\ Refusal(req[c]) = "none"
  /\ LET a == req[c].attempt IN
     \E next \in NextStates :
       \E fields \in {Required(req[c].state, next), {}, Fields} :
         \E pr \in IF "pull_request_identity" \in fields THEN Prs ELSE {None} :
           LET e == EventAfter(events[a], next, fields, pr)
           IN  IF EventAccepted(a, e) THEN Stage(c, e)
               ELSE RollBack(c, "event_invalid", 0, "claim_created")

\* Variants: the fingerprint row or the snapshot update is forgotten.
ClaimWithoutFingerprint(a, u, e) ==
  /\ claims' = [claims EXCEPT ![a] = u]
  /\ events' = [events EXCEPT ![a] = <<e>>]
  /\ initial' = [initial EXCEPT ![a] = Derive(<<e>>)]
  /\ current' = [current EXCEPT ![a] = Derive(<<e>>)]
  /\ unique' = [unique EXCEPT ![<<"attempt_id", a>>] = a,
                              ![<<"authorization_id", AuthId[u]>>] = a]

AppendWithoutSnapshot(a, e) ==
  /\ events' = [events EXCEPT ![a] = Append(@, e)]
  /\ UNCHANGED <<claims, initial, current, unique>>

\* The inserts of a claim and of an append, as COMMIT makes them visible.
ApplyClaim(a, u, e) ==
  /\ claims' = [claims EXCEPT ![a] = u]
  /\ events' = [events EXCEPT ![a] = <<e>>]
  /\ initial' = [initial EXCEPT ![a] = Derive(<<e>>)]
  /\ current' = [current EXCEPT ![a] = Derive(<<e>>)]
  /\ unique' = [k \in Keys |-> IF k \in KeysOf(a, u) THEN a ELSE unique[k]]

ApplyAppend(a, e) ==
  /\ events' = [events EXCEPT ![a] = Append(@, e)]
  /\ current' = [current EXCEPT ![a] = Derive(Append(events[a], e))]
  /\ UNCHANGED <<claims, initial, unique>>

\* Variant: COMMIT does not wait for readers.
ApplyUnderReaders(c) ==
  IF req[c].op = "create"
  THEN ApplyClaim(req[c].attempt, req[c].auth, staged[c])
  ELSE ApplyAppend(req[c].attempt, staged[c])

\* COMMIT needs every reader gone.
Apply(c) ==
  /\ readers = {}
  /\ IF req[c].op = "create"
     THEN ApplyClaim(req[c].attempt, req[c].auth, staged[c])
     ELSE ApplyAppend(req[c].attempt, staged[c])

\* Variant: an error of COMMIT is swallowed.
CommitErrorIgnored(c) ==
  /\ pc[c] = "staged"
  /\ Apply(c) \/ UNCHANGED tables
  /\ Answer(c, IF req[c].op = "create" THEN "created" ELSE "appended",
            staged[c].seq, staged[c].next)
  /\ writer' = None
  /\ UNCHANGED <<readers, hot, opened>>

Commit(c) ==
  /\ pc[c] = "staged"
  /\ Apply(c)
  /\ Answer(c, IF req[c].op = "create" THEN "created" ELSE "appended",
            staged[c].seq, staged[c].next)
  /\ writer' = None
  /\ UNCHANGED <<readers, hot, opened>>

\* COMMIT is cut short before, while (its writes need every reader gone) or
\* after it applies.
CommitCutShort(c) ==
  \/ Apply(c) /\ UNCHANGED hot
  \/ UNCHANGED tables /\ hot' \in {hot, readers = {}}

\* COMMIT reports an error, a reader that outlasts the busy timeout included.
CommitUncertain(c) ==
  /\ pc[c] = "staged"
  /\ CommitCutShort(c)
  /\ Answer(c, "claim_durability_uncertain", 0, "claim_created")
  /\ writer' = None
  /\ UNCHANGED <<readers, opened>>

\* Variants: no ROLLBACK, so closing leaves the inserts made so far: all of
\* them, or the event row alone.
IncompleteCommits(c) ==
  /\ pc[c] = "staged"
  /\ Apply(c)
  /\ Answer(c, "commit_incomplete", 0, "claim_created")
  /\ writer' = None
  /\ UNCHANGED <<readers, hot, opened>>

IncompleteLeavesEvent(c) ==
  /\ pc[c] = "staged"
  /\ events' = [events EXCEPT ![req[c].attempt] = Append(@, staged[c])]
  /\ Answer(c, "commit_incomplete", 0, "claim_created")
  /\ writer' = None
  /\ UNCHANGED <<claims, initial, current, unique, readers, hot, opened>>

\* Any error between BEGIN and COMMIT.
Incomplete(c) ==
  /\ pc[c] \in {"begun", "staged"}
  /\ RollBack(c, "commit_incomplete", 0, "claim_created")

-----------------------------------------------------------------------------
(***************************************************************************)
(* Reading.                                                                *)
(***************************************************************************)

\* SHARED is taken with the first SELECT, which fetches the event rows.
BeginRead(c) ==
  /\ pc[c] = "calling"
  /\ req[c].op \notin Writes
  /\ ~hot
  /\ readers' = readers \cup {c}
  /\ seen' = [seen EXCEPT ![c] = events[req[c].attempt]]
  /\ pc' = [pc EXCEPT ![c] = "reading"]
  /\ UNCHANGED <<tables, writer, hot, opened, req, staged, res>>

\* The snapshots are fetched last, and the whole is validated.
EndRead(c) ==
  /\ pc[c] = "reading"
  /\ LET category == ReadCategory(req[c], seen[c])
         found == IF category # "read_success" THEN <<0, "claim_created">>
                  ELSE IF req[c].op = "read_initial"
                       THEN <<seen[c][1].seq, seen[c][1].next>>
                  ELSE <<Latest(seen[c]).seq, Latest(seen[c]).next>>
     IN  Answer(c, category, found[1], found[2])
  /\ readers' = readers \ {c}
  /\ UNCHANGED <<tables, writer, hot, opened>>

ReadFails(c) ==
  /\ pc[c] = "reading"
  /\ Answer(c, "claim_store_unavailable", 0, "claim_created")
  /\ readers' = readers \ {c}
  /\ UNCHANGED <<tables, writer, hot, opened>>

-----------------------------------------------------------------------------
\* The client dies in the middle of a request, and its locks go.
Crash(c) ==
  /\ pc[c] # "idle"
  /\ IF pc[c] = "staged" THEN CommitCutShort(c) ELSE UNCHANGED <<tables, hot>>
  /\ opened' = opened \ {c}
  /\ pc' = [pc EXCEPT ![c] = "idle"]
  /\ req' = [req EXCEPT ![c] = None]
  /\ staged' = [staged EXCEPT ![c] = FirstEvent]
  /\ seen' = [seen EXCEPT ![c] = <<>>]
  /\ writer' = IF writer = c THEN None ELSE writer
  /\ readers' = readers \ {c}
  /\ UNCHANGED res

Step(c) ==
  \/ Open(c) \/ OpenFails(c) \/ Call(c) \/ RefuseArguments(c) \/ Unavailable(c)
  \/ BeginImmediate(c) \/ CreateStages(c)
  \/ AppendRefused(c) \/ AppendStages(c)
  \/ Commit(c) \/ CommitUncertain(c) \/ Incomplete(c)
  \/ BeginRead(c) \/ EndRead(c) \/ ReadFails(c)
  \/ Crash(c)

Next == \E c \in Clients : Step(c)

Spec == Init /\ [][Next]_vars

-----------------------------------------------------------------------------
(***************************************************************************)
(* Properties.                                                             *)
(***************************************************************************)

\* Every variable has its type.
TypeOK ==
  /\ claims \in [Attempts -> Auths \cup {None}]
  /\ events \in [Attempts -> Seq(Event)]
  /\ initial \in [Attempts -> Snapshot \cup {None}]
  /\ current \in [Attempts -> Snapshot \cup {None}]
  /\ unique \in [Keys -> Attempts \cup {None}]
  /\ writer \in Clients \cup {None}
  /\ readers \in SUBSET Clients
  /\ hot \in BOOLEAN
  /\ opened \in SUBSET Clients
  /\ pc \in [Clients -> {"idle", "calling", "begun", "staged", "reading"}]
  /\ req \in [Clients -> Request \cup {None}]
  /\ staged \in [Clients -> Event]
  /\ seen \in [Clients -> Seq(Event)]
  /\ res \in [Clients -> Answers]

Committed == {a \in Attempts : claims[a] # None}

\* One authorization is consumed by at most one attempt, whichever processes
\* race for it and whatever their COMMITs report
\* (create_initial_claim_commit).
OneClaimPerAuthorization ==
  \A a, b \in Committed : AuthId[claims[a]] = AuthId[claims[b]] => a = b

\* The uniqueness table holds exactly the three keys of each claim, so a key
\* is taken if and only if some committed claim took it
\* (create_initial_claim_commit).
UniquenessMatchesClaims ==
  \A k \in Keys, a \in Attempts :
    unique[k] = a <=> a \in Committed /\ k \in KeysOf(a, claims[a])

\* No committed claim is ever wedged: at every moment all of its rows are
\* there and pass the validation that each append and read repeats, so the
\* owner's next append is judged on its merits
\* (_validated_lifecycle_unit).
StoredUnitsValidate ==
  \A a \in Committed : Present(a) /\ UnitOK(a, claims[a], events[a])

\* No row of an uncommitted attempt is visible (create_initial_claim_commit).
NoPartialUnits ==
  \A a \in Attempts \ Committed :
    events[a] = <<>> /\ initial[a] = None /\ current[a] = None

\* The caller that was told "created", "appended" or "read_success" finds
\* what it was told in the tables ever after, under its own package.
AnswersAreDurable ==
  \A c \in Clients :
    res[c].category \in {"created", "appended", "read_success"} =>
      /\ claims[res[c].attempt] = res[c].auth
      /\ \E i \in DOMAIN events[res[c].attempt] :
           /\ events[res[c].attempt][i].seq = res[c].seq
           /\ events[res[c].attempt][i].next = res[c].state

\* Of the callers that race to write the same sequence number of a log (the
\* claim itself is number 0) at most one is told that it succeeded.
OneWinner ==
  \A c, d \in Clients :
    /\ c # d
    /\ {res[c].category, res[d].category} \subseteq {"created", "appended"}
    /\ res[c].attempt = res[d].attempt
    => res[c].seq # res[d].seq

\* A committed unit is only ever called invalid to a caller that presents a
\* package other than the one that claimed it: no interleaving of a reader
\* with a COMMIT shows it rows of two different moments
\* (read_lifecycle_state, read_initial_claim_bundle, append_lifecycle_event).
OnlyForeignPackagesFindUnitsInvalid ==
  \A c \in Clients :
    /\ res[c].attempt # None
    /\ res[c].category \in
         {"committed_unit_invalid", "bundle_binding_mismatch", "history_mismatch"}
    => claims[res[c].attempt] \notin {res[c].auth, None}

\* A step that gives a caller any answer but success or "uncertain" leaves
\* every table as it was: a definite refusal or failure is definite.
DefiniteFailuresChangeNothing ==
  [][\A c \in Clients :
       /\ res'[c] # res[c]
       /\ res'[c].category \notin
            {"created", "appended", "claim_durability_uncertain"}
       => UNCHANGED tables]_vars

\* While nobody writes, what a writer that died left uncommitted keeps no reader
\* out (docs: "Readers must ignore temporary, staged, or uncommitted state").
ReadersIgnoreUncommitted ==
  \A c \in Clients :
    pc[c] = "calling" /\ req[c].op \notin Writes /\ writer = None =>
      ENABLED BeginRead(c)

\* The store implements the ledger: whatever the locks, faults and crashes
\* do, the committed tables move only by whole legal claims and appends.
Ledger == INSTANCE ClaimLedger WITH owner <- claims, log <- events

ImplementsLedger == Ledger!LedgerSpec

-----------------------------------------------------------------------------
(***************************************************************************)
(* The inductive invariant behind the properties.                          *)
(***************************************************************************)

\* Who holds which lock follows from how far each request has got.
LocksMatchRequests ==
  \A c \in Clients :
    /\ writer = c <=> pc[c] \in {"begun", "staged"}
    /\ c \in readers <=> pc[c] = "reading"
    /\ pc[c] # "idle" => req[c] # None
    /\ pc[c] \in {"begun", "staged"} => req[c].op \in Writes
    /\ pc[c] = "reading" => req[c].op \notin Writes

\* What a client's transaction inserts is acceptable to the tables as they are.
Acceptable(c) ==
  LET a == req[c].attempt
      u == req[c].auth
  IN  IF req[c].op = "create"
      THEN staged[c] = FirstEvent /\ \A k \in KeysOf(a, u) : unique[k] = None
      ELSE claims[a] = u /\ EventAccepted(a, staged[c])

\* What a transaction is about to commit was judged on the tables as they
\* still are.
StagedIsAccepted == \A c \in Clients : pc[c] = "staged" => Acceptable(c)

\* Nothing is committed under a reader.
SeenIsCurrent ==
  \A c \in Clients : pc[c] = "reading" => seen[c] = events[req[c].attempt]

\* What is stored of a claim is one whole unit.
UnitsWhole ==
  \A a \in Committed :
    /\ ChainOK(events[a])
    /\ initial[a] = Derive(<<Head(events[a])>>)
    /\ current[a] = Derive(events[a])

IInv ==
  /\ TypeOK
  /\ LocksMatchRequests
  /\ UniquenessMatchesClaims
  /\ NoPartialUnits
  /\ UnitsWhole
  /\ StagedIsAccepted
  /\ SeenIsCurrent

===============================================================================
