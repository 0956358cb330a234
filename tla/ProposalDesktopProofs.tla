------------------------- MODULE ProposalDesktopProofs -------------------------
(***************************************************************************)
(* The proposal desktop, for any windows, records, drafts and output       *)
(* files: an update never loses another one, what is edited is what is     *)
(* selected, an output is only removed by the build that made it, and a    *)
(* result that is shown is of the form that is shown.                      *)
(*                                                                         *)
(* The invariant has one part for each kind of state: the types, a         *)
(* window's selection, its call, its transaction, the builds and what is   *)
(* shown of them.                                                          *)
(***************************************************************************)
EXTENDS ProposalDesktop, TLAPS

Builders == Windows \cup Commands

CustomerTables == [Customers -> Values \cup {None}]
JobTables == [Jobs -> R!JobRows \cup {None}]

Edits == [customer : [id : Customers, original : Values \cup {None}] \cup {None},
          job : [id : Jobs, original : R!JobRows \cup {None}] \cup {None}]

CustomerWrites == {"create customer", "update customer"}
JobWrites == {"create job", "update job"}
Builds == {"validate", "generate"}

Calls ==
  [op : {"none", "load", "select", "open draft"} \cup CustomerWrites \cup JobWrites \cup Builds,
   at : {"idle", "look customers", "customers", "look jobs", "jobs", "look owner", "owner",
         "write", "writing", "work"},
   customer : Customers \cup {None}, job : Jobs \cup {None},
   makes : Values \cup R!JobRows \cup CustomerTables \cup {None},
   draft : Forms \cup {None}]

Works ==
  [at : B!Running \cup {"idle", "passed", "published", "failed"}, build : BOOLEAN,
   request : Requests \cup {None}, customer : Values \cup {None},
   job : R!JobRows \cup {None}]

RecordsTyped ==
  /\ rows \in R!Rows
  /\ journal \in R!Rows \cup {None}
  /\ tx \in [by : Windows \cup {Importer}, makes : R!Rows] \cup {None}

WindowsTyped ==
  /\ form \in [Windows -> Forms]
  /\ seen \in [Windows -> [customers : CustomerTables, jobs : JobTables]]
  /\ edit \in [Windows -> Edits]
  /\ call \in [Windows -> Calls]

ResultsTyped ==
  /\ valid \in [Windows -> Forms \cup {None}]
  /\ shown \in [Windows -> Requests \cup {None}]

BuildsTyped ==
  /\ files \in [OutputFiles -> Proposals \cup {None}]
  /\ created \in [Builders -> SUBSET OutputFiles]
  /\ work \in [Builders -> Works]

\* EditsAreOfTheSelection, of one window.
SelectionOK(w) ==
  /\ edit[w].customer # None =>
       /\ edit[w].customer.id = form[w].customer
       /\ edit[w].customer.original = seen[w].customers[form[w].customer]
  /\ edit[w].job # None =>
       /\ edit[w].job.id = form[w].job
       /\ edit[w].job.original = seen[w].jobs[form[w].job]
  /\ form[w].customer # None => seen[w].customers[form[w].customer] # None
  /\ form[w].job # None => Selectable(seen[w].jobs, form[w].job, form[w].customer)

NothingSelected(w) ==
  edit[w] = NoEdit /\ form[w].customer = None /\ form[w].job = None

\* Where a call that reads records is, its window selects nothing, and the call
\* knows what it is to select.
ReadingOK(w) ==
  /\ call[w].at \in {"look customers", "customers"} /\ call[w].op # "open draft" =>
       NothingSelected(w) /\ (call[w].op = "update customer" => call[w].customer \in Customers)
  /\ call[w].at \in {"look jobs", "jobs"} /\ call[w].op # "open draft" =>
       /\ NothingSelected(w)
       /\ call[w].customer \in Customers /\ seen[w].customers[call[w].customer] # None

\* A draft that is opened leaves the form as it is until its records are read.
DraftOK(w) ==
  call[w].op = "open draft" =>
    /\ call[w].at \in {"look customers", "customers", "look jobs", "jobs"}
    /\ call[w].draft \in Forms
    /\ call[w].draft.job # None => call[w].draft.customer # None
    /\ call[w].at \in {"look jobs", "jobs"} =>
         /\ call[w].draft.customer # None
         /\ call[w].makes \in CustomerTables
         /\ call[w].makes[call[w].draft.customer] # None

\* A call that writes knows the record, and its edit fields are of that record.
WritingOK(w) ==
  call[w].at \in {"look owner", "owner", "write", "writing"} =>
    /\ call[w].op \in CustomerWrites \cup JobWrites
    /\ call[w].op \in CustomerWrites =>
         call[w].customer \in Customers /\ call[w].makes \in Values
    /\ call[w].op \in JobWrites =>
         call[w].customer \in Customers /\ call[w].job \in Jobs /\ call[w].makes \in R!JobRows
    /\ call[w].op = "update customer" =>
         edit[w].customer # None /\ edit[w].customer.id = call[w].customer
    /\ call[w].op = "update job" =>
         edit[w].job # None /\ edit[w].job.id = call[w].job

WindowOK(w) == SelectionOK(w) /\ ReadingOK(w) /\ DraftOK(w) /\ WritingOK(w)

\* A transaction changes what its call says of rows that its call accepted.
TransactionOK(w) ==
  call[w].at = "writing" /\ R!Holds(w) =>
    tx.makes = Makes(w, journal) /\ MayWrite(w, journal)

\* The file holds what the journal restores or what the transaction makes.
FileOK == tx # None => journal \in R!Rows /\ rows \in {journal, tx.makes}

\* A builder's request, its records once they are composed, and the files that
\* are its own.
BuildOK(p) ==
  /\ work[p].at # "idle" => work[p].request \in Requests
  /\ work[p].at \in {"json", "docx", "verify", "passed", "published"} =>
       work[p].job # None /\ work[p].job.customer = work[p].request.customer
  /\ \A f \in created[p] : files[f] = B!Proposal(p)
  /\ created[p] = CASE work[p].at = "docx" -> {work[p].request.json}
                    [] work[p].at = "verify" -> {work[p].request.json, work[p].request.docx}
                    [] OTHER -> {}
  /\ work[p].at = "published" =>
       /\ files[work[p].request.json] = B!Proposal(p)
       /\ files[work[p].request.docx] = B!Proposal(p)

\* A window that validates or builds has a request that is of its form, and
\* what it has validated can be requested.
RequestOK(w) ==
  /\ call[w].op \in Builds <=> call[w].at = "work"
  /\ work[w].at # "idle" => call[w].op \in Builds
  /\ call[w].op \in Builds =>
       work[w].at # "idle" /\ work[w].request = Request(form[w])
  /\ valid[w] # None => Request(valid[w]) \in Requests

\* ResultIsOfTheForm, of one window; nothing is built in it any more.
ShownOK(w) ==
  shown[w] # None =>
    /\ call[w].op \notin Builds
    /\ shown[w] = Request(form[w])
    /\ files[shown[w].docx] \in Proposals
    /\ files[shown[w].json] = files[shown[w].docx]
    /\ files[shown[w].docx].by = w
    /\ files[shown[w].docx].request = shown[w]
    /\ files[shown[w].docx].job.customer = files[shown[w].docx].request.customer

Typed == RecordsTyped /\ WindowsTyped /\ ResultsTyped /\ BuildsTyped

DesktopInv ==
  /\ Typed
  /\ \A w \in Windows : WindowOK(w) /\ TransactionOK(w) /\ RequestOK(w) /\ ShownOK(w)
  /\ FileOK
  /\ \A p \in Builders : BuildOK(p)

-----------------------------------------------------------------------------
(***************************************************************************)
(* The steps of a window.                                                  *)
(***************************************************************************)

SeenRecords == [customers : CustomerTables, jobs : JobTables]

\* A step of the window w may change its fields; the others keep theirs.
Moves(w) ==
  /\ form' \in [Windows -> Forms]
  /\ seen' \in [Windows -> SeenRecords]
  /\ edit' \in [Windows -> Edits]
  /\ call' \in [Windows -> Calls]
  /\ \A u \in Windows \ {w} :
       /\ form'[u] = form[u] /\ seen'[u] = seen[u]
       /\ edit'[u] = edit[u] /\ call'[u] = call[u]

Becomes(w, f, s, e, k) ==
  /\ Moves(w)
  /\ form'[w] = f /\ seen'[w] = s /\ edit'[w] = e /\ call'[w] = k

\* What was validated or built is kept or not, but nothing new is.
ResultsKept ==
  /\ valid' \in [Windows -> Forms \cup {None}]
  /\ shown' \in [Windows -> Requests \cup {None}]
  /\ \A u \in Windows : valid'[u] \in {valid[u], None} /\ shown'[u] \in {shown[u], None}

LEMMA UnselectedForm ==
  ASSUME NEW f \in Forms
  PROVE  /\ Unselected(f) \in Forms
         /\ Unselected(f).customer = None /\ Unselected(f).job = None
         /\ [Unselected(f) EXCEPT !.chosen = ~f.chosen] \in Forms
         /\ [Unselected(f) EXCEPT !.chosen = ~f.chosen].customer = None
         /\ [Unselected(f) EXCEPT !.chosen = ~f.chosen].job = None
BY DEF Unselected, Forms

LEMMA Blanks ==
  /\ NoCall \in Calls /\ NoCall.op = "none" /\ NoCall.at = "idle"
  /\ NoEdit \in Edits /\ NoEdit.customer = None /\ NoEdit.job = None
  /\ NoRecords \in SeenRecords
BY DEF NoCall, Calls, NoEdit, Edits, NoRecords, SeenRecords, CustomerTables, JobTables,
   CustomerWrites, JobWrites, Builds

\* A window that selects nothing has nothing to be wrong about.
LEMMA NothingIsOK ==
  ASSUME NEW w \in Windows, NothingSelected(w)
  PROVE  SelectionOK(w)
BY Blanks DEF NothingSelected, SelectionOK

LEMMA NothingIsOKNext ==
  ASSUME NEW w \in Windows, NothingSelected(w)'
  PROVE  SelectionOK(w)'
BY Blanks DEF NothingSelected, SelectionOK

\* The beginning of load_customers.
LEMMA LoadMoves ==
  ASSUME Typed, NEW w \in Windows, NEW k \in Calls, BeginLoad(w, k)
  PROVE  /\ Becomes(w, Unselected(form[w]), NoRecords, NoEdit,
                    [k EXCEPT !.at = "look customers"])
         /\ ResultsKept /\ valid'[w] = None /\ shown'[w] = None
<1>1. Unselected(form[w]) \in Forms
  BY UnselectedForm DEF Typed, WindowsTyped
<1>2. [k EXCEPT !.at = "look customers"] \in Calls
  BY DEF Calls
<1>3. ResultsKept /\ valid'[w] = None /\ shown'[w] = None
  BY DEF Typed, ResultsTyped, ResultsKept, BeginLoad, FormBecomes, Invalidated
<1>4. form' \in [Windows -> Forms] /\ form'[w] = Unselected(form[w])
  BY <1>1 DEF Typed, WindowsTyped, BeginLoad, FormBecomes
<1>5. Becomes(w, Unselected(form[w]), NoRecords, NoEdit, [k EXCEPT !.at = "look customers"])
  BY <1>1, <1>2, <1>4, Blanks DEF Typed, WindowsTyped, SeenRecords, Becomes, Moves,
     BeginLoad, FormBecomes
<1> QED
  BY <1>3, <1>5

\* The beginning of select_customer.
LEMMA SelectMoves ==
  ASSUME Typed, NEW w \in Windows, NEW k \in Calls, NEW c \in Customers \cup {None},
         BeginSelect(w, c, k)
  PROVE  /\ Becomes(w, Unselected(form[w]), [seen[w] EXCEPT !.jobs = NoRecords.jobs], NoEdit,
                    IF c # None /\ seen[w].customers[c] # None
                    THEN [k EXCEPT !.at = "look jobs", !.customer = c] ELSE NoCall)
         /\ ResultsKept /\ valid'[w] = None /\ shown'[w] = None
<1>1. Unselected(form[w]) \in Forms
  BY UnselectedForm DEF Typed, WindowsTyped
<1>2. [k EXCEPT !.at = "look jobs", !.customer = c] \in Calls
  BY DEF Calls
<1>3. ResultsKept /\ valid'[w] = None /\ shown'[w] = None
  BY DEF Typed, ResultsTyped, ResultsKept, BeginSelect, FormBecomes, Invalidated
<1>4. form' \in [Windows -> Forms] /\ form'[w] = Unselected(form[w])
  BY <1>1 DEF Typed, WindowsTyped, BeginSelect, FormBecomes
<1>5. /\ seen' \in [Windows -> SeenRecords]
      /\ seen'[w] = [seen[w] EXCEPT !.jobs = NoRecords.jobs]
      /\ \A u \in Windows \ {w} : seen'[u] = seen[u]
  BY Blanks DEF Typed, WindowsTyped, SeenRecords, BeginSelect
<1>6. QED
  BY <1>1, <1>2, <1>3, <1>4, <1>5, Blanks DEF Typed, WindowsTyped, Becomes, Moves,
     BeginSelect, FormBecomes

LEMMA NothingNext ==
  ASSUME Typed, NEW w \in Windows, NEW s, NEW k,
         Becomes(w, Unselected(form[w]), s, NoEdit, k)
  PROVE  NothingSelected(w)'
<1>1. form[w] \in Forms
  BY DEF Typed, WindowsTyped
<1>2. Unselected(form[w]).customer = None /\ Unselected(form[w]).job = None
  BY <1>1, UnselectedForm
<1> QED
  BY <1>2 DEF Becomes, NothingSelected

\* A step that only moves the call on.
LEMMA CallMoves ==
  ASSUME Typed, NEW w \in Windows, NEW k \in Calls,
         call' = [call EXCEPT ![w] = k], UNCHANGED <<form, seen, edit>>
  PROVE  Becomes(w, form[w], seen[w], edit[w], k)
BY DEF Typed, WindowsTyped, SeenRecords, Becomes, Moves

LEMMA CallEnds ==
  ASSUME NEW w \in Windows, WindowOK(w), Becomes(w, form[w], seen[w], edit[w], NoCall)
  PROVE  WindowOK(w)'
BY Blanks DEF WindowOK, Becomes, SelectionOK, ReadingOK, DraftOK, WritingOK

LEMMA CallGoesOn ==
  ASSUME Typed, NEW w \in Windows,
         NEW where \in {"customers", "look jobs", "jobs", "owner", "write", "writing"},
         CallGoesTo(w, where), UNCHANGED <<form, seen, edit>>
  PROVE  /\ [call[w] EXCEPT !.at = where] \in Calls
         /\ Becomes(w, form[w], seen[w], edit[w], [call[w] EXCEPT !.at = where])
<1>1. [call[w] EXCEPT !.at = where] \in Calls
  BY DEF Typed, WindowsTyped, Calls
<1>2. call' = [call EXCEPT ![w] = [call[w] EXCEPT !.at = where]]
  BY DEF CallGoesTo
<1> QED
  BY <1>1, <1>2, CallMoves

-----------------------------------------------------------------------------
(* Reading records.                                                        *)

LEMMA LoadSteps ==
  ASSUME Typed, NEW w \in Windows, WindowOK(w), LoadCustomers(w)
  PROVE  Moves(w) /\ WindowOK(w)' /\ ResultsKept /\ shown'[w] = None
<1>1. [NoCall EXCEPT !.op = "load"] \in Calls
  BY Blanks DEF Calls
<1>2. /\ Becomes(w, Unselected(form[w]), NoRecords, NoEdit,
                 [[NoCall EXCEPT !.op = "load"] EXCEPT !.at = "look customers"])
      /\ ResultsKept /\ shown'[w] = None
  BY <1>1, LoadMoves DEF LoadCustomers
<1>3. call'[w].op = "load" /\ call'[w].at = "look customers"
  BY <1>2 DEF Becomes, NoCall
<1>4. NothingSelected(w)'
  BY <1>2, NothingNext
<1>5. WindowOK(w)'
  BY <1>3, <1>4, NothingIsOKNext DEF WindowOK, ReadingOK, DraftOK, WritingOK
<1> QED
  BY <1>2, <1>5 DEF Becomes

LEMMA LookSteps ==
  ASSUME Typed, NEW w \in Windows, WindowOK(w),
         LookForCustomers(w) \/ LookForJobs(w) \/ LookForOwner(w)
  PROVE  Moves(w) /\ WindowOK(w)' /\ ResultsKept /\ shown'[w] = shown[w]
<1>1. UNCHANGED <<form, seen, edit, valid, shown>>
  BY DEF LookForCustomers, LookForJobs, LookForOwner, Look, formVars
<1>2. ResultsKept /\ shown'[w] = shown[w]
  BY <1>1 DEF Typed, ResultsTyped, ResultsKept
<1>3. CASE Ends(w)
  <2>1. Becomes(w, form[w], seen[w], edit[w], NoCall)
    BY <1>1, <1>3, CallMoves, Blanks DEF Ends
  <2> QED
    BY <1>2, <2>1, CallEnds DEF Becomes
<1>4. ASSUME NEW there \in {"look customers", "look jobs", "look owner"},
             NEW where \in {"customers", "jobs", "owner"},
             <<there, where>> \in {<<"look customers", "customers">>, <<"look jobs", "jobs">>,
                                   <<"look owner", "owner">>},
             call[w].at = there, CallGoesTo(w, where)
      PROVE  Moves(w) /\ WindowOK(w)'
  <2>1. Becomes(w, form[w], seen[w], edit[w], [call[w] EXCEPT !.at = where])
    BY <1>1, <1>4, CallGoesOn
  <2>2. /\ call'[w].at = where
        /\ UNCHANGED <<call[w].op, call[w].customer, call[w].job, call[w].makes, call[w].draft>>
    BY <2>1 DEF Becomes, Typed, WindowsTyped, Calls
  <2>3. UNCHANGED <<form[w], seen[w], edit[w]>>
    BY <2>1 DEF Becomes
  <2>4. SelectionOK(w)' /\ ReadingOK(w)'
    BY <1>4, <2>2, <2>3 DEF WindowOK, SelectionOK, ReadingOK, NothingSelected
  <2>5. DraftOK(w)' /\ WritingOK(w)'
    BY <1>4, <2>2, <2>3 DEF WindowOK, DraftOK, WritingOK
  <2> QED
    BY <2>1, <2>4, <2>5 DEF Becomes, WindowOK
<1>5. \/ Ends(w)
      \/ call[w].at = "look customers" /\ CallGoesTo(w, "customers")
      \/ call[w].at = "look jobs" /\ CallGoesTo(w, "jobs")
      \/ call[w].at = "look owner" /\ CallGoesTo(w, "owner")
  BY DEF LookForCustomers, LookForJobs, LookForOwner, Look, InCall
<1> QED
  BY <1>2, <1>3, <1>4, <1>5

LEMMA CustomersSteps ==
  ASSUME Typed, NEW w \in Windows, WindowOK(w), CustomersAreRead(w)
  PROVE  Moves(w) /\ WindowOK(w)' /\ ResultsKept /\ shown'[w] = shown[w]
<1>1. /\ call[w].at = "customers" /\ call[w].op # "open draft"
      /\ UNCHANGED <<form, edit, valid, shown>>
      /\ seen' = [seen EXCEPT ![w].customers = rows.customer]
  BY DEF CustomersAreRead, InCall
<1>2. /\ seen' \in [Windows -> SeenRecords]
      /\ seen'[w].customers = rows.customer
      /\ \A u \in Windows \ {w} : seen'[u] = seen[u]
  BY <1>1 DEF Typed, WindowsTyped, SeenRecords, RecordsTyped, R!Rows, CustomerTables
<1>3. ResultsKept /\ shown'[w] = shown[w]
  BY <1>1 DEF Typed, ResultsTyped, ResultsKept
<1>4. NothingSelected(w) /\ NothingSelected(w)'
  BY <1>1 DEF WindowOK, ReadingOK, NothingSelected
<1>5. CASE Ends(w)
  <2>1. Moves(w) /\ call'[w] = NoCall
    BY <1>1, <1>2, <1>5, Blanks DEF Typed, WindowsTyped, Moves, Ends
  <2> QED
    BY <1>3, <1>4, <2>1, NothingIsOKNext, Blanks DEF WindowOK, ReadingOK, DraftOK, WritingOK
<1>6. CASE /\ call[w].op = "update customer" /\ rows.customer[call[w].customer] # None
           /\ CallGoesTo(w, "look jobs")
  <2>1. [call[w] EXCEPT !.at = "look jobs"] \in Calls
    BY DEF Typed, WindowsTyped, Calls
  <2>2. Moves(w) /\ call'[w] = [call[w] EXCEPT !.at = "look jobs"]
    BY <1>1, <1>2, <1>6, <2>1 DEF Typed, WindowsTyped, Moves, CallGoesTo
  <2>3. /\ call'[w].at = "look jobs" /\ call'[w].op = "update customer"
        /\ call'[w].customer = call[w].customer /\ call[w].customer \in Customers
    BY <1>1, <1>6, <2>2 DEF Typed, WindowsTyped, Calls, WindowOK, ReadingOK
  <2>4. WindowOK(w)'
    BY <1>2, <1>4, <1>6, <2>3, NothingIsOKNext DEF WindowOK, ReadingOK, DraftOK, WritingOK
  <2> QED
    BY <1>3, <2>2, <2>4
<1> QED
  BY <1>5, <1>6 DEF CustomersAreRead

LEMMA SelectSteps ==
  ASSUME Typed, NEW w \in Windows, WindowOK(w),
         NEW c \in Customers \cup {None}, SelectCustomer(w, c)
  PROVE  Moves(w) /\ WindowOK(w)' /\ ResultsKept /\ shown'[w] = None
<1>1. [NoCall EXCEPT !.op = "select"] \in Calls
  BY Blanks DEF Calls
<1>2. /\ Becomes(w, Unselected(form[w]), [seen[w] EXCEPT !.jobs = NoRecords.jobs], NoEdit,
                 IF c # None /\ seen[w].customers[c] # None
                 THEN [[NoCall EXCEPT !.op = "select"] EXCEPT !.at = "look jobs", !.customer = c]
                 ELSE NoCall)
      /\ ResultsKept /\ shown'[w] = None
  BY <1>1, SelectMoves DEF SelectCustomer
<1>3. NothingSelected(w)'
  BY <1>2, NothingNext
<1>4. \/ call'[w].op = "none" /\ call'[w].at = "idle"
      \/ /\ call'[w].op = "select" /\ call'[w].at = "look jobs" /\ call'[w].customer = c
         /\ c # None /\ seen[w].customers[c] # None
  BY <1>2, Blanks DEF Becomes, NoCall
<1>5. seen'[w].customers = seen[w].customers
  BY <1>2 DEF Becomes, Typed, WindowsTyped
<1>6. WindowOK(w)'
  BY <1>3, <1>4, <1>5, NothingIsOKNext DEF WindowOK, ReadingOK, DraftOK, WritingOK
<1> QED
  BY <1>2, <1>6 DEF Becomes

LEMMA JobsSteps ==
  ASSUME Typed, NEW w \in Windows, WindowOK(w), JobsAreRead(w)
  PROVE  Moves(w) /\ WindowOK(w)' /\ ResultsKept /\ shown'[w] = None
<1> DEFINE c == call[w].customer
           jobs == R!JobsForCustomer(rows, c)
           j == IF call[w].op = "update job" /\ Selectable(jobs, call[w].job, c)
                THEN call[w].job ELSE None
           e == [customer |-> [id |-> c, original |-> seen[w].customers[c]],
                 job |-> IF j = None THEN None ELSE [id |-> j, original |-> jobs[j]]]
<1>1. /\ call[w].at = "jobs" /\ call[w].op # "open draft"
      /\ seen' = [seen EXCEPT ![w].jobs = jobs]
      /\ FormBecomes(w, [form[w] EXCEPT !.customer = c, !.job = j])
      /\ edit' = [edit EXCEPT ![w] = e]
      /\ Ends(w)
  BY DEF JobsAreRead, InCall
<1>2. c \in Customers /\ seen[w].customers[c] # None
  BY <1>1 DEF WindowOK, ReadingOK, Typed, WindowsTyped, Calls
<1>3. jobs \in JobTables
  BY DEF R!JobsForCustomer, JobTables, Typed, RecordsTyped, R!Rows
<1>4. j \in Jobs \cup {None} /\ (j # None => Selectable(jobs, j, c))
  BY DEF Typed, WindowsTyped, Calls, Selectable
<1> HIDE DEF c, jobs, j
<1>5. e \in Edits
  <2>1. seen[w].customers[c] \in Values \cup {None}
    BY <1>2 DEF Typed, WindowsTyped, CustomerTables
  <2>2. j # None => jobs[j] \in R!JobRows \cup {None}
    BY <1>3, <1>4 DEF JobTables
  <2> QED
    BY <1>2, <1>4, <2>1, <2>2 DEF Edits
<1>6. [form[w] EXCEPT !.customer = c, !.job = j] \in Forms
  BY <1>2, <1>4 DEF Typed, WindowsTyped, Forms
<1> HIDE DEF e
<1>7. /\ form' \in [Windows -> Forms]
      /\ form'[w] = [form[w] EXCEPT !.customer = c, !.job = j]
      /\ \A u \in Windows \ {w} : form'[u] = form[u]
      /\ ResultsKept /\ shown'[w] = None
  BY <1>1, <1>6 DEF Typed, WindowsTyped, ResultsTyped, ResultsKept, FormBecomes, Invalidated
<1>8. /\ seen' \in [Windows -> SeenRecords]
      /\ seen'[w] = [seen[w] EXCEPT !.jobs = jobs]
      /\ \A u \in Windows \ {w} : seen'[u] = seen[u]
  BY <1>1, <1>3 DEF Typed, WindowsTyped, SeenRecords
<1>9. /\ edit' \in [Windows -> Edits] /\ edit'[w] = e
      /\ call' \in [Windows -> Calls] /\ call'[w] = NoCall
      /\ \A u \in Windows \ {w} : edit'[u] = edit[u] /\ call'[u] = call[u]
  BY <1>1, <1>5, Blanks DEF Typed, WindowsTyped, Ends
<1>10. /\ form'[w].customer = c /\ form'[w].job = j
       /\ seen'[w].customers = seen[w].customers /\ seen'[w].jobs = jobs
  BY <1>7, <1>8 DEF Typed, WindowsTyped, Forms
<1>11. SelectionOK(w)'
  BY <1>2, <1>4, <1>9, <1>10 DEF SelectionOK, e
<1>12. WindowOK(w)'
  BY <1>9, <1>11, Blanks DEF WindowOK, ReadingOK, DraftOK, WritingOK
<1> QED
  BY <1>7, <1>8, <1>9, <1>12 DEF Moves

LEMMA SelectJobSteps ==
  ASSUME Typed, NEW w \in Windows, WindowOK(w), NEW j \in Jobs \cup {None}, SelectJob(w, j)
  PROVE  Moves(w) /\ WindowOK(w)' /\ ResultsKept /\ shown'[w] = None
<1> DEFINE jobs == seen[w].jobs
           k == IF Selectable(jobs, j, form[w].customer) THEN j ELSE None
           e == IF k = None THEN None ELSE [id |-> k, original |-> jobs[k]]
<1>1. /\ call[w].at = "idle" /\ UNCHANGED <<seen, call>>
      /\ FormBecomes(w, [form[w] EXCEPT !.job = k])
      /\ edit' = [edit EXCEPT ![w].job = e]
  BY DEF SelectJob, Idle
<1>2. k \in Jobs \cup {None} /\ (k # None => Selectable(jobs, k, form[w].customer))
  OBVIOUS
<1>3. e \in [id : Jobs, original : R!JobRows \cup {None}] \cup {None}
  BY <1>2 DEF Typed, WindowsTyped, JobTables
<1>4. [form[w] EXCEPT !.job = k] \in Forms
  BY <1>2 DEF Typed, WindowsTyped, Forms
<1> HIDE DEF k, e
<1>5. /\ form' \in [Windows -> Forms]
      /\ form'[w] = [form[w] EXCEPT !.job = k]
      /\ \A u \in Windows \ {w} : form'[u] = form[u]
      /\ ResultsKept /\ shown'[w] = None
  BY <1>1, <1>4 DEF Typed, WindowsTyped, ResultsTyped, ResultsKept, FormBecomes, Invalidated
<1>6. /\ edit' \in [Windows -> Edits]
      /\ edit'[w] = [edit[w] EXCEPT !.job = e]
      /\ \A u \in Windows \ {w} : edit'[u] = edit[u]
  BY <1>1, <1>3 DEF Typed, WindowsTyped, Edits
<1>7. /\ form'[w].customer = form[w].customer /\ form'[w].job = k
      /\ edit'[w].customer = edit[w].customer /\ edit'[w].job = e
  BY <1>5, <1>6 DEF Typed, WindowsTyped, Forms, Edits
<1>8. SelectionOK(w)'
  BY <1>1, <1>2, <1>7 DEF SelectionOK, e, WindowOK
<1>9. WindowOK(w)'
  BY <1>1, <1>8 DEF WindowOK, ReadingOK, DraftOK, WritingOK
<1> QED
  BY <1>1, <1>5, <1>6, <1>9 DEF Moves, Typed, WindowsTyped, SeenRecords

-----------------------------------------------------------------------------
(* Writing records.                                                        *)

\* A call that writes begins, with the records that are edited.
LEMMA BeginningSteps ==
  ASSUME Typed, NEW w \in Windows, WindowOK(w),
         \/ \E c \in Customers, v \in Values : CreateCustomer(w, c, v)
         \/ \E v \in Values : UpdateCustomer(w, v)
         \/ \E j \in Jobs, v \in Values : CreateJob(w, j, v)
         \/ \E v \in Values : UpdateJob(w, v)
  PROVE  Moves(w) /\ WindowOK(w)' /\ ResultsKept /\ shown'[w] \in {shown[w], None}
<1>1. UNCHANGED <<form, seen, edit>>
  BY DEF CreateCustomer, UpdateCustomer, CreateJob, UpdateJob, formVars
<1>2. ResultsKept /\ shown'[w] \in {shown[w], None}
  BY DEF CreateCustomer, UpdateCustomer, CreateJob, UpdateJob, formVars, Invalidated,
     Typed, ResultsTyped, ResultsKept
<1>3. ASSUME NEW k \in Calls, call' = [call EXCEPT ![w] = k],
             k.op \in CustomerWrites \cup JobWrites,
             k.op \in CustomerWrites => k.at = "write" /\ k.customer \in Customers /\ k.makes \in Values,
             k.op \in JobWrites => k.at = "look owner" /\ k.customer \in Customers
                                   /\ k.job \in Jobs /\ k.makes \in R!JobRows,
             k.op = "update customer" =>
               edit[w].customer # None /\ edit[w].customer.id = k.customer,
             k.op = "update job" => edit[w].job # None /\ edit[w].job.id = k.job
      PROVE  Moves(w) /\ WindowOK(w)'
  <2>1. Becomes(w, form[w], seen[w], edit[w], k)
    BY <1>1, <1>3, CallMoves
  <2>2. call'[w] = k /\ UNCHANGED <<form[w], seen[w], edit[w]>>
    BY <2>1 DEF Becomes
  <2>3. SelectionOK(w)' /\ WritingOK(w)'
    BY <1>3, <2>2 DEF WindowOK, SelectionOK, WritingOK
  <2>4. ReadingOK(w)' /\ DraftOK(w)'
    BY <1>3, <2>2 DEF ReadingOK, DraftOK, CustomerWrites, JobWrites
  <2> QED
    BY <2>1, <2>3, <2>4 DEF Becomes, WindowOK
<1>4. ASSUME NEW op \in CustomerWrites, NEW c \in Customers, NEW v \in Values,
             call' = [call EXCEPT ![w] =
               [NoCall EXCEPT !.op = op, !.at = "write", !.customer = c, !.makes = v]],
             op = "update customer" => edit[w].customer # None /\ edit[w].customer.id = c
      PROVE  Moves(w) /\ WindowOK(w)'
  <2> DEFINE k == [NoCall EXCEPT !.op = op, !.at = "write", !.customer = c, !.makes = v]
  <2>1. k \in Calls
    BY Blanks DEF Calls, CustomerWrites
  <2>2. k.op = op /\ k.at = "write" /\ k.customer = c /\ k.makes = v
    BY DEF NoCall
  <2>3. op \notin JobWrites /\ op # "update job"
    BY DEF CustomerWrites, JobWrites
  <2> QED
    BY <1>3, <1>4, <2>1, <2>2, <2>3
<1>5. ASSUME NEW op \in JobWrites, NEW c \in Customers, NEW j \in Jobs, NEW v \in Values,
             call' = [call EXCEPT ![w] =
               [NoCall EXCEPT !.op = op, !.at = "look owner", !.customer = c, !.job = j,
                  !.makes = [customer |-> c, says |-> v]]],
             op = "update job" => edit[w].job # None /\ edit[w].job.id = j
      PROVE  Moves(w) /\ WindowOK(w)'
  <2> DEFINE k == [NoCall EXCEPT !.op = op, !.at = "look owner", !.customer = c, !.job = j,
                     !.makes = [customer |-> c, says |-> v]]
  <2>1. [customer |-> c, says |-> v] \in R!JobRows
    BY DEF R!JobRows
  <2>2. k \in Calls
    BY <2>1, Blanks DEF Calls, JobWrites
  <2>3. /\ k.op = op /\ k.at = "look owner" /\ k.customer = c /\ k.job = j
        /\ k.makes = [customer |-> c, says |-> v]
    BY DEF NoCall
  <2>4. op \notin CustomerWrites /\ op # "update customer"
    BY DEF CustomerWrites, JobWrites
  <2> QED
    BY <1>3, <1>5, <2>1, <2>2, <2>3, <2>4
<1>6. CASE \E c \in Customers, v \in Values : CreateCustomer(w, c, v)
  BY <1>2, <1>4, <1>6 DEF CreateCustomer, CustomerWrites
<1>7. CASE \E v \in Values : UpdateCustomer(w, v)
  BY <1>2, <1>4, <1>7 DEF UpdateCustomer, CustomerWrites, Typed, WindowsTyped, Forms
<1>8. CASE \E j \in Jobs, v \in Values : CreateJob(w, j, v)
  BY <1>2, <1>5, <1>8 DEF CreateJob, JobWrites, Typed, WindowsTyped, Forms
<1>9. CASE \E v \in Values : UpdateJob(w, v)
  <2>1. PICK v \in Values : UpdateJob(w, v)
    BY <1>9
  <2>2. /\ form[w].customer \in Customers /\ form[w].job \in Jobs
        /\ edit[w].job # None /\ edit[w].job.id = form[w].job
        /\ call' = [call EXCEPT ![w] =
             [NoCall EXCEPT !.op = "update job", !.at = "look owner",
                !.customer = form[w].customer, !.job = form[w].job,
                !.makes = [customer |-> form[w].customer, says |-> v]]]
    BY <2>1 DEF UpdateJob, Selectable, Typed, WindowsTyped, Forms
  <2> QED
    BY <1>2, <1>5, <2>2 DEF JobWrites
<1> QED
  BY <1>6, <1>7, <1>8, <1>9

\* A call that writes goes on with the same records.
LEMMA WriteMovesOn ==
  ASSUME Typed, NEW w \in Windows, WindowOK(w), NEW where \in {"write", "writing"},
         call[w].at \in {"owner", "write"},
         Becomes(w, form[w], seen[w], edit[w], [call[w] EXCEPT !.at = where])
  PROVE  Moves(w) /\ WindowOK(w)'
<1>1. /\ call'[w].at = where
      /\ UNCHANGED <<call[w].op, call[w].customer, call[w].job, call[w].makes>>
  BY DEF Becomes, Typed, WindowsTyped, Calls
<1>2. UNCHANGED <<form[w], seen[w], edit[w]>>
  BY DEF Becomes
<1>3. SelectionOK(w)' /\ WritingOK(w)'
  BY <1>1, <1>2 DEF WindowOK, SelectionOK, WritingOK
<1>4. ReadingOK(w)' /\ DraftOK(w)'
  BY <1>1 DEF ReadingOK, DraftOK, WindowOK, WritingOK, CustomerWrites, JobWrites
<1> QED
  BY <1>3, <1>4 DEF Becomes, WindowOK

LEMMA OwnerSteps ==
  ASSUME Typed, NEW w \in Windows, WindowOK(w), OwnerIsRead(w)
  PROVE  Moves(w) /\ WindowOK(w)' /\ ResultsKept /\ shown'[w] = shown[w]
<1>1. call[w].at = "owner" /\ UNCHANGED <<form, seen, edit, valid, shown>>
  BY DEF OwnerIsRead, InCall, formVars
<1>2. ResultsKept /\ shown'[w] = shown[w]
  BY <1>1 DEF Typed, ResultsTyped, ResultsKept
<1>3. CASE Ends(w)
  <2>1. Becomes(w, form[w], seen[w], edit[w], NoCall)
    BY <1>1, <1>3, CallMoves, Blanks DEF Ends
  <2> QED
    BY <1>2, <2>1, CallEnds DEF Becomes
<1>4. CASE CallGoesTo(w, "write")
  <2>1. Becomes(w, form[w], seen[w], edit[w], [call[w] EXCEPT !.at = "write"])
    BY <1>1, <1>4, CallGoesOn
  <2>2. Moves(w) /\ WindowOK(w)'
    BY <1>1, <2>1, WriteMovesOn
  <2> QED
    BY <1>2, <2>2
<1> QED
  BY <1>3, <1>4 DEF OwnerIsRead

\* The transaction begins, is refused, goes on or fails.
LEMMA TransactionSteps ==
  ASSUME Typed, NEW w \in Windows, WindowOK(w),
         BeginWrite(w) \/ WriteIsRefused(w) \/ FlushPages(w) \/ WriteFails(w)
  PROVE  Moves(w) /\ WindowOK(w)' /\ ResultsKept /\ shown'[w] = shown[w]
<1>1. UNCHANGED <<form, seen, edit, valid, shown>>
  BY DEF BeginWrite, WriteIsRefused, FlushPages, WriteFails, formVars
<1>2. ResultsKept /\ shown'[w] = shown[w]
  BY <1>1 DEF Typed, ResultsTyped, ResultsKept
<1>3. CASE Ends(w)
  <2>1. Becomes(w, form[w], seen[w], edit[w], NoCall)
    BY <1>1, <1>3, CallMoves, Blanks DEF Ends
  <2> QED
    BY <1>2, <2>1, CallEnds DEF Becomes
<1>4. CASE BeginWrite(w)
  <2>1. call[w].at = "write" /\ CallGoesTo(w, "writing")
    BY <1>4 DEF BeginWrite, InCall
  <2>2. Becomes(w, form[w], seen[w], edit[w], [call[w] EXCEPT !.at = "writing"])
    BY <1>1, <2>1, CallGoesOn
  <2>3. Moves(w) /\ WindowOK(w)'
    BY <2>1, <2>2, WriteMovesOn
  <2> QED
    BY <1>2, <2>3
<1>5. CASE UNCHANGED call
  <2>1. Moves(w)
    BY <1>1, <1>5 DEF Moves, Typed, WindowsTyped, SeenRecords
  <2>2. SelectionOK(w)' /\ ReadingOK(w)'
    BY <1>1, <1>5 DEF WindowOK, SelectionOK, ReadingOK, NothingSelected
  <2>3. DraftOK(w)' /\ WritingOK(w)'
    BY <1>1, <1>5 DEF WindowOK, DraftOK, WritingOK
  <2>4. WindowOK(w)'
    BY <2>2, <2>3 DEF WindowOK
  <2> QED
    BY <1>2, <2>1, <2>4
<1> QED
  BY <1>3, <1>4, <1>5 DEF WriteIsRefused, FlushPages, WriteFails

\* After the commit the records are read again.
LEMMA CommitSteps ==
  ASSUME Typed, NEW w \in Windows, WindowOK(w), CustomerIsWritten(w) \/ JobIsWritten(w)
  PROVE  Moves(w) /\ WindowOK(w)' /\ ResultsKept /\ shown'[w] = None
<1>1. call[w] \in Calls /\ call[w].at = "writing"
  BY DEF Typed, WindowsTyped, CustomerIsWritten, JobIsWritten, InCall
<1>2. CASE CustomerIsWritten(w)
  <2>1. /\ Becomes(w, Unselected(form[w]), NoRecords, NoEdit,
                   [call[w] EXCEPT !.at = "look customers"])
        /\ ResultsKept /\ shown'[w] = None
    BY <1>1, <1>2, LoadMoves DEF CustomerIsWritten
  <2>2. call[w].op \in CustomerWrites /\ call[w].customer \in Customers
    BY <1>1, <1>2 DEF CustomerIsWritten, CustomerWrites, WindowOK, WritingOK
  <2>3. /\ call'[w].at = "look customers" /\ call'[w].op = call[w].op
        /\ call'[w].customer = call[w].customer
    BY <1>1, <2>1 DEF Becomes, Calls
  <2>4. NothingSelected(w)'
    BY <2>1, NothingNext
  <2>5. WindowOK(w)'
    BY <2>2, <2>3, <2>4, NothingIsOKNext DEF WindowOK, ReadingOK, DraftOK, WritingOK,
       CustomerWrites
  <2> QED
    BY <2>1, <2>5 DEF Becomes
<1>3. CASE JobIsWritten(w)
  <2> DEFINE c == call[w].customer
  <2>1. call[w].op \in JobWrites /\ c \in Customers
    BY <1>1, <1>3 DEF JobIsWritten, JobWrites, WindowOK, WritingOK
  <2>2. /\ Becomes(w, Unselected(form[w]), [seen[w] EXCEPT !.jobs = NoRecords.jobs], NoEdit,
                   IF c # None /\ seen[w].customers[c] # None
                   THEN [call[w] EXCEPT !.at = "look jobs", !.customer = c] ELSE NoCall)
        /\ ResultsKept /\ shown'[w] = None
    BY <1>1, <1>3, <2>1, SelectMoves DEF JobIsWritten
  <2>3. \/ call'[w].op = "none" /\ call'[w].at = "idle"
        \/ /\ call'[w].op \in JobWrites /\ call'[w].at = "look jobs" /\ call'[w].customer = c
           /\ c # None /\ seen[w].customers[c] # None
    BY <1>1, <2>1, <2>2, Blanks DEF Becomes, Calls
  <2>4. NothingSelected(w)'
    BY <2>2, NothingNext
  <2>5. seen'[w].customers = seen[w].customers
    BY <2>2 DEF Becomes, Typed, WindowsTyped
  <2>6. WindowOK(w)'
    BY <2>1, <2>3, <2>4, <2>5, NothingIsOKNext DEF WindowOK, ReadingOK, DraftOK, WritingOK,
       JobWrites
  <2> QED
    BY <2>2, <2>6 DEF Becomes
<1> QED
  BY <1>2, <1>3

-----------------------------------------------------------------------------
(* Fields and drafts.                                                      *)

LEMMA ClearSteps ==
  ASSUME Typed, NEW w \in Windows, WindowOK(w),
         ChooseDatabase(w) \/ \E f \in Drafts : OpenBareDraft(w, f)
  PROVE  Moves(w) /\ WindowOK(w)' /\ ResultsKept /\ shown'[w] = None
<1>1. PICK f \in Forms : /\ f.customer = None /\ f.job = None
                         /\ FormBecomes(w, f)
  <2>1. form[w] \in Forms
    BY DEF Typed, WindowsTyped
  <2> QED
    BY <2>1, UnselectedForm, FormsAssumption DEF ChooseDatabase, OpenBareDraft
<1>2. /\ seen' = [seen EXCEPT ![w] = NoRecords] /\ edit' = [edit EXCEPT ![w] = NoEdit]
      /\ call' = call /\ call[w].at = "idle"
  BY DEF ChooseDatabase, OpenBareDraft, Idle
<1>3. /\ form' \in [Windows -> Forms] /\ form'[w] = f
      /\ \A u \in Windows \ {w} : form'[u] = form[u]
      /\ ResultsKept /\ shown'[w] = None
  BY <1>1 DEF Typed, WindowsTyped, ResultsTyped, ResultsKept, FormBecomes, Invalidated
<1>4. Moves(w) /\ edit'[w] = NoEdit
  BY <1>2, <1>3, Blanks DEF Moves, Typed, WindowsTyped, SeenRecords
<1>5. NothingSelected(w)'
  BY <1>1, <1>3, <1>4 DEF NothingSelected
<1>6. WindowOK(w)'
  BY <1>2, <1>5, NothingIsOKNext DEF WindowOK, ReadingOK, DraftOK, WritingOK
<1> QED
  BY <1>3, <1>4, <1>6

LEMMA FieldSteps ==
  ASSUME Typed, NEW w \in Windows, WindowOK(w),
         \/ \E d \in Details : SetDetails(w, d)
         \/ \E pair \in Pairs : SelectOutput(w, pair)
  PROVE  Moves(w) /\ WindowOK(w)' /\ ResultsKept /\ shown'[w] = None
<1>1. PICK f \in Forms : /\ f.customer = form[w].customer /\ f.job = form[w].job
                         /\ FormBecomes(w, f)
  <2>1. form[w] \in Forms
    BY DEF Typed, WindowsTyped
  <2>2. ASSUME NEW d \in Details
        PROVE  LET f == [form[w] EXCEPT !.details = d] IN
               f \in Forms /\ f.customer = form[w].customer /\ f.job = form[w].job
    BY <2>1 DEF Forms
  <2>3. ASSUME NEW pair \in Pairs
        PROVE  LET f == [form[w] EXCEPT !.out = pair] IN
               f \in Forms /\ f.customer = form[w].customer /\ f.job = form[w].job
    BY <2>1 DEF Forms
  <2> QED
    BY <2>2, <2>3 DEF SetDetails, SelectOutput
<1>2. UNCHANGED <<seen, edit, call>> /\ call[w].at = "idle"
  BY DEF SetDetails, SelectOutput, Idle
<1>3. /\ form' \in [Windows -> Forms] /\ form'[w] = f
      /\ \A u \in Windows \ {w} : form'[u] = form[u]
      /\ ResultsKept /\ shown'[w] = None
  BY <1>1 DEF Typed, WindowsTyped, ResultsTyped, ResultsKept, FormBecomes, Invalidated
<1>4. Moves(w)
  BY <1>2, <1>3 DEF Moves, Typed, WindowsTyped, SeenRecords
<1>5. SelectionOK(w)'
  BY <1>1, <1>2, <1>3 DEF WindowOK, SelectionOK
<1>6. WindowOK(w)'
  BY <1>2, <1>5 DEF WindowOK, ReadingOK, DraftOK, WritingOK
<1> QED
  BY <1>3, <1>4, <1>6

\* A draft is opened: the form changes when its records are read, and then they
\* are loaded.
LEMMA OpenSteps ==
  ASSUME Typed, NEW w \in Windows, WindowOK(w), NEW f \in Drafts, OpenDraft(w, f)
  PROVE  Moves(w) /\ WindowOK(w)' /\ ResultsKept /\ shown'[w] = shown[w]
<1> DEFINE k == [NoCall EXCEPT !.op = "open draft", !.at = "look customers", !.draft = f]
<1>1. /\ call[w].at = "idle" /\ UNCHANGED <<form, seen, edit, valid, shown>>
      /\ call' = [call EXCEPT ![w] = k]
      /\ f.job # None => f.customer # None
  BY DEF OpenDraft, Idle, formVars
<1>2. f \in Forms
  BY FormsAssumption
<1>3. k \in Calls
  BY <1>2, Blanks DEF Calls
<1>4. k.op = "open draft" /\ k.at = "look customers" /\ k.draft = f
  BY DEF NoCall
<1> HIDE DEF k
<1>5. Becomes(w, form[w], seen[w], edit[w], k)
  BY <1>1, <1>3, CallMoves
<1>6. call'[w] = k /\ UNCHANGED <<form[w], seen[w], edit[w]>>
  BY <1>5 DEF Becomes
<1>7. WindowOK(w)'
  BY <1>1, <1>2, <1>4, <1>6 DEF WindowOK, SelectionOK, ReadingOK, DraftOK, WritingOK
<1>8. ResultsKept /\ shown'[w] = shown[w]
  BY <1>1 DEF Typed, ResultsTyped, ResultsKept
<1> QED
  BY <1>5, <1>7, <1>8 DEF Becomes

LEMMA SwapInMoves ==
  ASSUME Typed, NEW w \in Windows, NEW customers \in CustomerTables, NEW jobs \in JobTables,
         call[w].draft \in Forms, SwapIn(w, customers, jobs),
         call[w].draft.customer # None => customers[call[w].draft.customer] # None,
         call[w].draft.job # None =>
           Selectable(jobs, call[w].draft.job, call[w].draft.customer)
  PROVE  Moves(w) /\ WindowOK(w)' /\ ResultsKept /\ shown'[w] = None
<1>1. /\ form' \in [Windows -> Forms] /\ form'[w] = call[w].draft
      /\ \A u \in Windows \ {w} : form'[u] = form[u]
      /\ ResultsKept /\ shown'[w] = None
  BY DEF Typed, WindowsTyped, ResultsTyped, ResultsKept, SwapIn, FormBecomes, Invalidated
<1>2. /\ seen' \in [Windows -> SeenRecords]
      /\ seen'[w].customers = customers /\ seen'[w].jobs = jobs
      /\ \A u \in Windows \ {w} : seen'[u] = seen[u]
  BY DEF Typed, WindowsTyped, SeenRecords, SwapIn
<1>3. /\ edit' \in [Windows -> Edits] /\ edit'[w] = NoEdit
      /\ call' \in [Windows -> Calls] /\ call'[w] = NoCall
      /\ \A u \in Windows \ {w} : edit'[u] = edit[u] /\ call'[u] = call[u]
  BY Blanks DEF Typed, WindowsTyped, SwapIn, Ends
<1>4. WindowOK(w)'
  BY <1>1, <1>2, <1>3, Blanks DEF WindowOK, SelectionOK, ReadingOK, DraftOK, WritingOK
<1> QED
  BY <1>1, <1>2, <1>3, <1>4 DEF Moves

LEMMA DraftSteps ==
  ASSUME Typed, NEW w \in Windows, WindowOK(w),
         DraftCustomersAreRead(w) \/ DraftJobsAreRead(w)
  PROVE  /\ Moves(w) /\ WindowOK(w)' /\ ResultsKept
         /\ shown'[w] = None \/ (shown'[w] = shown[w] /\ form'[w] = form[w])
<1> DEFINE c == call[w].draft.customer
           j == call[w].draft.job
           jobs == R!JobsForCustomer(rows, c)
<1>1. /\ call[w].op = "open draft" /\ call[w].draft \in Forms
      /\ j # None => c # None
  BY DEF DraftCustomersAreRead, DraftJobsAreRead, WindowOK, DraftOK
<1>2. /\ c \in Customers \cup {None} /\ j \in Jobs \cup {None}
      /\ rows.customer \in CustomerTables /\ jobs \in JobTables
      /\ NoRecords.jobs \in JobTables
  BY <1>1, Blanks DEF Forms, Typed, RecordsTyped, R!Rows, CustomerTables, JobTables,
     R!JobsForCustomer, SeenRecords
<1> HIDE DEF c, j, jobs
<1>3. ASSUME Ends(w), UNCHANGED formVars
      PROVE  /\ Moves(w) /\ WindowOK(w)' /\ ResultsKept
             /\ shown'[w] = shown[w] /\ form'[w] = form[w]
  <2>1. Becomes(w, form[w], seen[w], edit[w], NoCall)
    BY <1>3, CallMoves, Blanks DEF Ends, formVars
  <2> QED
    BY <1>3, <2>1, CallEnds DEF Becomes, formVars, Typed, ResultsTyped, ResultsKept
<1>4. CASE DraftCustomersAreRead(w)
  <2>1. CASE c = None /\ SwapIn(w, rows.customer, NoRecords.jobs)
    BY <1>1, <1>2, <2>1, SwapInMoves DEF c, j
  <2>2. CASE /\ c # None /\ rows.customer[c] # None /\ UNCHANGED formVars
             /\ call' = [call EXCEPT ![w].at = "look jobs", ![w].makes = rows.customer]
    <3> DEFINE k == [call[w] EXCEPT !.at = "look jobs", !.makes = rows.customer]
    <3>1. k \in Calls
      BY <1>2 DEF Typed, WindowsTyped, Calls
    <3>2. call' = [call EXCEPT ![w] = k]
      BY <2>2 DEF Typed, WindowsTyped, Calls
    <3>3. /\ k.at = "look jobs" /\ k.op = "open draft"
          /\ k.draft = call[w].draft /\ k.makes = rows.customer
      BY <1>1 DEF Typed, WindowsTyped, Calls
    <3> HIDE DEF k
    <3>4. Becomes(w, form[w], seen[w], edit[w], k)
      BY <2>2, <3>1, <3>2, CallMoves DEF formVars
    <3>5. call'[w] = k /\ UNCHANGED <<form[w], seen[w], edit[w]>>
      BY <3>4 DEF Becomes
    <3>6. WindowOK(w)'
      BY <1>1, <1>2, <2>2, <3>3, <3>5 DEF WindowOK, SelectionOK, ReadingOK, DraftOK,
         WritingOK, c, j
    <3> QED
      BY <2>2, <3>4, <3>6 DEF Becomes, formVars, Typed, ResultsTyped, ResultsKept
  <2> QED
    BY <1>3, <1>4, <2>1, <2>2 DEF DraftCustomersAreRead, c
<1>5. CASE DraftJobsAreRead(w)
  <2>1. call[w].makes \in CustomerTables /\ call[w].makes[c] # None
    BY <1>5 DEF DraftJobsAreRead, InCall, WindowOK, DraftOK, c
  <2>2. CASE (j = None \/ Selectable(jobs, j, c)) /\ SwapIn(w, call[w].makes, jobs)
    BY <1>1, <1>2, <2>1, <2>2, SwapInMoves DEF c, j
  <2> QED
    BY <1>3, <1>5, <2>2 DEF DraftJobsAreRead, c, j, jobs
<1> QED
  BY <1>4, <1>5

-----------------------------------------------------------------------------
(* Validating, generating, and the end of the window.                      *)

LEMMA ProposalSteps ==
  ASSUME Typed, NEW w \in Windows, WindowOK(w), ProposalStep(w)
  PROVE  Moves(w) /\ WindowOK(w)' /\ UNCHANGED <<form, seen, edit>>
<1>1. UNCHANGED <<form, seen, edit>>
  BY DEF ProposalStep, Validate, ValidateEnds, Generate, GenerateIsBlocked, GenerateEnds
<1>2. PICK k \in Calls :
        /\ call' = [call EXCEPT ![w] = k]
        /\ k = call[w] \/ k = NoCall \/ (k.at = "work" /\ k.op \in Builds)
  <2>1. call[w] \in Calls /\ [call EXCEPT ![w] = call[w]] = call
    BY DEF Typed, WindowsTyped
  <2>2. ASSUME NEW op \in Builds
        PROVE  LET k == [NoCall EXCEPT !.op = op, !.at = "work"] IN
               k \in Calls /\ k.at = "work" /\ k.op = op
    BY Blanks DEF Calls, NoCall
  <2>3. CASE Validate(w) \/ Generate(w)
    BY <2>2, <2>3 DEF Validate, Generate, Builds
  <2>4. CASE ValidateEnds(w) \/ GenerateEnds(w)
    BY <2>4, Blanks DEF ValidateEnds, GenerateEnds, Ends
  <2>5. CASE GenerateIsBlocked(w)
    BY <2>1, <2>5 DEF GenerateIsBlocked
  <2> QED
    BY <2>3, <2>4, <2>5 DEF ProposalStep
<1>3. Becomes(w, form[w], seen[w], edit[w], k)
  BY <1>1, <1>2, CallMoves
<1>4. WindowOK(w)'
  <2>1. call'[w] = k /\ UNCHANGED <<form[w], seen[w], edit[w]>>
    BY <1>3 DEF Becomes
  <2>2. SelectionOK(w)'
    BY <2>1 DEF WindowOK, SelectionOK
  <2> QED
    BY <1>2, <2>1, <2>2, Blanks DEF WindowOK, ReadingOK, NothingSelected, DraftOK, WritingOK,
       Builds
<1> QED
  BY <1>1, <1>3, <1>4 DEF Becomes

LEMMA DeathSteps ==
  ASSUME Typed, NEW w \in Windows, WindowOK(w), WindowDies(w)
  PROVE  Moves(w) /\ WindowOK(w)' /\ ResultsKept /\ shown'[w] = None /\ call'[w] = NoCall
<1>1. Unselected(form[w]) \in Forms
  BY UnselectedForm DEF Typed, WindowsTyped
<1>2. /\ form' \in [Windows -> Forms] /\ form'[w] = Unselected(form[w])
      /\ \A u \in Windows \ {w} : form'[u] = form[u]
      /\ ResultsKept /\ shown'[w] = None
  BY <1>1 DEF Typed, WindowsTyped, ResultsTyped, ResultsKept, WindowDies, FormBecomes,
     Invalidated
<1>3. Becomes(w, Unselected(form[w]), NoRecords, NoEdit, NoCall)
  BY <1>2, Blanks DEF Becomes, Moves, Typed, WindowsTyped, SeenRecords, WindowDies, Ends
<1>4. NothingSelected(w)'
  BY <1>3, NothingNext
<1>5. WindowOK(w)'
  BY <1>3, <1>4, NothingIsOKNext, Blanks DEF Becomes, WindowOK, ReadingOK, DraftOK, WritingOK
<1> QED
  BY <1>2, <1>3, <1>5 DEF Becomes

-----------------------------------------------------------------------------
(***************************************************************************)
(* Together: a window's selection and call, whoever steps.                 *)
(***************************************************************************)

RecordsSteps(w) == ReadStep(w) \/ WriteStep(w) \/ FieldStep(w)

WindowStep(w) == RecordsSteps(w) \/ ProposalStep(w) \/ WindowDies(w)

OtherStep ==
  \/ \E b \in Builders : RecordsAreRead(b) \/ BuildGoesOn(b)
  \/ \E p \in Commands :
       (\E f \in CommandForms : CommandStarts(p, Request(f))) \/ CommandDies(p)
  \/ ImportStep

LEMMA NextSteps == Next <=> (\E w \in Windows : WindowStep(w)) \/ OtherStep
BY DEF Next, WindowStep, RecordsSteps, OtherStep, Builders

LEMMA RecordsStepsMove ==
  ASSUME Typed, NEW w \in Windows, WindowOK(w), RecordsSteps(w)
  PROVE  Moves(w) /\ WindowOK(w)' /\ ResultsKept
<1>1. CASE ReadStep(w)
  BY <1>1, LoadSteps, LookSteps, CustomersSteps, SelectSteps, JobsSteps, SelectJobSteps
     DEF ReadStep
<1>2. CASE WriteStep(w)
  BY <1>2, BeginningSteps, LookSteps, OwnerSteps, TransactionSteps, CommitSteps DEF WriteStep
<1>3. CASE FieldStep(w)
  BY <1>3, ClearSteps, FieldSteps, OpenSteps, DraftSteps DEF FieldStep
<1> QED
  BY <1>1, <1>2, <1>3 DEF RecordsSteps

LEMMA WindowStepMoves ==
  ASSUME Typed, NEW w \in Windows, WindowOK(w), WindowStep(w)
  PROVE  Moves(w) /\ WindowOK(w)'
BY RecordsStepsMove, ProposalSteps, DeathSteps DEF WindowStep

\* The other processes do not touch a window's fields.
LEMMA OthersWait == OtherStep => UNCHANGED <<formVars, call>>
<1>1. ASSUME NEW b \in Builders, RecordsAreRead(b) \/ BuildGoesOn(b)
      PROVE  UNCHANGED <<formVars, call>>
  BY <1>1 DEF RecordsAreRead, BuildGoesOn
<1>2. ASSUME NEW p \in Commands,
             (\E f \in CommandForms : CommandStarts(p, Request(f))) \/ CommandDies(p)
      PROVE  UNCHANGED <<formVars, call>>
  BY <1>2 DEF CommandStarts, CommandDies
<1>3. ASSUME ImportStep PROVE UNCHANGED <<formVars, call>>
  BY <1>3 DEF ImportStep, ImportCustomer, ImportJob, Import, ImporterGoesOn, ImporterDies
<1> QED
  BY <1>1, <1>2, <1>3 DEF OtherStep

LEMMA WindowsKeepOK ==
  ASSUME Typed, \A u \in Windows : WindowOK(u), NEW w \in Windows, [Next]_vars
  PROVE  WindowsTyped' /\ WindowOK(w)'
<1>1. CASE UNCHANGED <<form, seen, edit, call>>
  <2>1. SelectionOK(w)' /\ ReadingOK(w)'
    BY <1>1 DEF WindowOK, SelectionOK, ReadingOK, NothingSelected
  <2>2. DraftOK(w)' /\ WritingOK(w)'
    BY <1>1 DEF WindowOK, DraftOK, WritingOK
  <2> QED
    BY <1>1, <2>1, <2>2 DEF Typed, WindowsTyped, WindowOK
<1>2. ASSUME NEW u \in Windows, WindowStep(u)
      PROVE  WindowsTyped' /\ WindowOK(w)'
  <2>1. Moves(u) /\ WindowOK(u)'
    BY <1>2, WindowStepMoves
  <2>2. CASE u # w
    <3>1. UNCHANGED <<form[w], seen[w], edit[w], call[w]>>
      BY <2>1, <2>2 DEF Moves
    <3>2. SelectionOK(w)' /\ ReadingOK(w)'
      BY <3>1 DEF WindowOK, SelectionOK, ReadingOK, NothingSelected
    <3>3. DraftOK(w)' /\ WritingOK(w)'
      BY <3>1 DEF WindowOK, DraftOK, WritingOK
    <3> QED
      BY <2>1, <3>2, <3>3 DEF WindowOK, Moves, WindowsTyped, SeenRecords
  <2> QED
    BY <2>1, <2>2 DEF Moves, WindowsTyped, SeenRecords
<1> QED
  BY <1>1, <1>2, NextSteps, OthersWait DEF vars, formVars

-----------------------------------------------------------------------------
(***************************************************************************)
(* The transactions.                                                       *)
(***************************************************************************)

Writers == Windows \cup {Importer}

\* What a writer p may do with the file.
RecordsMove(p) ==
  \/ UNCHANGED recordsVars
  \/ R!Refuse
  \/ \E m \in R!Rows : R!Begin(p, m)
  \/ R!Flush(p) \/ R!Commit(p) \/ R!RollBack(p) \/ R!WriterDies(p)

LEMMA RowsAreFound == ASSUME RecordsTyped PROVE R!Recovered \in R!Rows
BY DEF RecordsTyped, R!Recovered

\* What the two kinds of write make of the rows.
LEMMA RowsAreMade ==
  ASSUME NEW r \in R!Rows
  PROVE  /\ \A c \in Customers, v \in Values : R!WithCustomer(r, c, v) \in R!Rows
         /\ \A j \in Jobs, row \in R!JobRows : R!WithJob(r, j, row) \in R!Rows
BY DEF R!Rows, R!WithCustomer, R!WithJob

LEMMA RecordsMoveKeeps ==
  ASSUME RecordsTyped, FileOK, NEW p \in Writers, RecordsMove(p)
  PROVE  RecordsTyped' /\ FileOK'
<1>1. CASE UNCHANGED recordsVars
  BY <1>1 DEF RecordsTyped, FileOK, recordsVars
<1>2. CASE R!Refuse
  BY <1>2, RowsAreFound DEF RecordsTyped, FileOK, R!Refuse
<1>3. ASSUME NEW m \in R!Rows, R!Begin(p, m)
      PROVE  RecordsTyped' /\ FileOK'
  BY <1>3, RowsAreFound DEF RecordsTyped, FileOK, R!Begin, Writers
<1>4. CASE R!Flush(p) \/ R!Commit(p)
  BY <1>4 DEF RecordsTyped, FileOK, R!Flush, R!Commit, R!Holds
<1>5. CASE R!RollBack(p) \/ R!WriterDies(p)
  BY <1>5 DEF RecordsTyped, FileOK, R!RollBack, R!WriterDies, R!Holds
<1> QED
  BY <1>1, <1>2, <1>3, <1>4, <1>5 DEF RecordsMove

\* A transaction of another writer is left as it is.
LEMMA OthersTransaction ==
  ASSUME NEW p \in Writers, RecordsMove(p), NEW w \in Writers \ {p}, R!Holds(w)'
  PROVE  R!Holds(w) /\ UNCHANGED <<tx, journal>>
BY DEF RecordsMove, recordsVars, R!Refuse, R!Begin, R!Flush, R!Commit, R!RollBack,
   R!WriterDies, R!Holds

LEMMA CallMakesRows ==
  ASSUME RecordsTyped, NEW w \in Windows, WritingOK(w), call[w].at = "write"
  PROVE  Makes(w, R!Recovered) \in R!Rows
<1>1. R!Recovered \in R!Rows
  BY RowsAreFound
<1>2. CASE call[w].op \in CustomerWrites
  BY <1>1, <1>2, RowsAreMade DEF Makes, WritingOK, CustomerWrites
<1>3. CASE call[w].op \in JobWrites
  BY <1>1, <1>3, RowsAreMade DEF Makes, WritingOK, JobWrites
<1> QED
  BY <1>2, <1>3 DEF WritingOK

LEMMA WindowRecords ==
  ASSUME Typed, NEW w \in Windows, WindowOK(w), WindowStep(w)
  PROVE  RecordsMove(w)
<1>1. CASE BeginWrite(w)
  <2>1. Makes(w, R!Recovered) \in R!Rows
    BY <1>1, CallMakesRows DEF BeginWrite, InCall, Typed, WindowOK
  <2> QED
    BY <1>1, <2>1 DEF BeginWrite, RecordsMove
<1>2. CASE WriteIsRefused(w) \/ FlushPages(w) \/ WriteFails(w)
  BY <1>2 DEF WriteIsRefused, FlushPages, WriteFails, RecordsMove
<1>3. CASE CustomerIsWritten(w) \/ JobIsWritten(w) \/ WindowDies(w)
  BY <1>3 DEF CustomerIsWritten, JobIsWritten, WindowDies, RecordsMove
<1>4. CASE UNCHANGED recordsVars
  BY <1>4 DEF RecordsMove
<1>5. CASE ReadStep(w)
  BY <1>4, <1>5 DEF ReadStep, LoadCustomers, LookForCustomers, Look, CustomersAreRead,
     SelectCustomer, LookForJobs, JobsAreRead, SelectJob
<1>6. CASE WriteStep(w)
  <2>1. ASSUME \/ \E c \in Customers, v \in Values : CreateCustomer(w, c, v)
               \/ \E v \in Values : UpdateCustomer(w, v)
               \/ \E j \in Jobs, v \in Values : CreateJob(w, j, v)
               \/ \E v \in Values : UpdateJob(w, v)
               \/ LookForOwner(w) \/ OwnerIsRead(w)
        PROVE  UNCHANGED recordsVars
    BY <2>1 DEF CreateCustomer, UpdateCustomer, CreateJob, UpdateJob, LookForOwner, Look,
       OwnerIsRead
  <2> QED
    BY <1>1, <1>2, <1>3, <1>4, <1>6, <2>1 DEF WriteStep
<1>7. CASE FieldStep(w)
  BY <1>4, <1>7 DEF FieldStep, ChooseDatabase, SetDetails, SelectOutput, OpenDraft,
     OpenBareDraft, DraftCustomersAreRead, DraftJobsAreRead
<1>8. CASE ProposalStep(w)
  BY <1>4, <1>8 DEF ProposalStep, Validate, ValidateEnds, Generate, GenerateIsBlocked,
     GenerateEnds
<1> QED
  BY <1>3, <1>5, <1>6, <1>7, <1>8 DEF WindowStep, RecordsSteps

LEMMA OthersRecords ==
  ASSUME Typed, OtherStep
  PROVE  RecordsMove(Importer)
<1>1. R!Recovered \in R!Rows
  BY RowsAreFound DEF Typed
<1>2. CASE \E b \in Builders : RecordsAreRead(b) \/ BuildGoesOn(b)
  BY <1>2 DEF RecordsAreRead, BuildGoesOn, RecordsMove
<1>3. CASE \E p \in Commands :
       (\E f \in CommandForms : CommandStarts(p, Request(f))) \/ CommandDies(p)
  BY <1>3 DEF CommandStarts, CommandDies, RecordsMove
<1>4. CASE ImportStep
  <2>1. ASSUME NEW c \in Customers, NEW v \in Values, ImportCustomer(c, v)
        PROVE  RecordsMove(Importer)
    BY <1>1, <2>1, RowsAreMade DEF ImportCustomer, Import, RecordsMove
  <2>2. ASSUME NEW j \in Jobs, NEW row \in R!JobRows, ImportJob(j, row)
        PROVE  RecordsMove(Importer)
    BY <1>1, <2>2, RowsAreMade DEF ImportJob, Import, RecordsMove
  <2> QED
    BY <1>4, <2>1, <2>2 DEF ImportStep, ImporterGoesOn, ImporterDies, RecordsMove
<1> QED
  BY <1>2, <1>3, <1>4 DEF OtherStep

-----------------------------------------------------------------------------
(***************************************************************************)
(* What a call that reads or writes records becomes.                       *)
(***************************************************************************)

\* It is not a validation or a build, and it writes only in its transaction.
StaysWithRecords(w) ==
  /\ call'[w].op \notin Builds /\ call'[w].at # "work"
  /\ call'[w].at = "writing" => BeginWrite(w) \/ FlushPages(w)

\* What is shown stays with its form.
ShownKept(w) ==
  shown'[w] = None \/ (shown'[w] = shown[w] /\ form'[w] = form[w])

LEMMA NoCallStays ==
  ASSUME NEW w \in Windows, call'[w] = NoCall
  PROVE  StaysWithRecords(w)
BY Blanks DEF StaysWithRecords, Builds

LEMMA CallStays ==
  ASSUME Typed, NEW w \in Windows, call[w].op \notin Builds,
         NEW where \in {"customers", "look jobs", "jobs", "owner", "write"},
         CallGoesTo(w, where)
  PROVE  StaysWithRecords(w)
<1>1. call'[w] = [call[w] EXCEPT !.at = where]
  BY DEF Typed, WindowsTyped, CallGoesTo
<1>2. call'[w].op = call[w].op /\ call'[w].at = where
  BY <1>1 DEF Typed, WindowsTyped, Calls
<1> QED
  BY <1>2 DEF StaysWithRecords

LEMMA LookStays ==
  ASSUME Typed, NEW w \in Windows, call[w].op \notin Builds,
         LookForCustomers(w) \/ LookForJobs(w) \/ LookForOwner(w)
  PROVE  StaysWithRecords(w) /\ call[w].at # "work" /\ ShownKept(w)
<1>1. \/ Ends(w)
      \/ CallGoesTo(w, "customers") \/ CallGoesTo(w, "jobs") \/ CallGoesTo(w, "owner")
  BY DEF LookForCustomers, LookForJobs, LookForOwner, Look
<1>2. Ends(w) => call'[w] = NoCall
  BY DEF Ends, Typed, WindowsTyped
<1>3. StaysWithRecords(w)
  BY <1>1, <1>2, NoCallStays, CallStays
<1> QED
  BY <1>3 DEF LookForCustomers, LookForJobs, LookForOwner, Look, InCall, formVars, ShownKept

LEMMA ReadStays ==
  ASSUME Typed, NEW w \in Windows, WindowOK(w), call[w].op \notin Builds, ReadStep(w)
  PROVE  StaysWithRecords(w) /\ call[w].at # "work" /\ ShownKept(w)
<1>1. Ends(w) => call'[w] = NoCall
  BY DEF Ends, Typed, WindowsTyped
<1>2. CASE LoadCustomers(w)
  <2>1. call'[w] = [[NoCall EXCEPT !.op = "load"] EXCEPT !.at = "look customers"]
    BY <1>2 DEF LoadCustomers, BeginLoad, Typed, WindowsTyped
  <2>2. call'[w].op = "load" /\ call'[w].at = "look customers"
    BY <2>1 DEF NoCall
  <2> QED
    BY <1>2, <2>2, LoadSteps DEF StaysWithRecords, ShownKept, Builds, LoadCustomers, Idle
<1>3. CASE CustomersAreRead(w)
  <2>1. StaysWithRecords(w)
    BY <1>1, <1>3, NoCallStays, CallStays DEF CustomersAreRead
  <2> QED
    BY <1>3, <2>1 DEF CustomersAreRead, InCall, ShownKept
<1>4. ASSUME NEW c \in Customers \cup {None}, SelectCustomer(w, c)
      PROVE  StaysWithRecords(w) /\ call[w].at # "work" /\ ShownKept(w)
  <2>1. \/ call'[w] = NoCall
        \/ call'[w] = [[NoCall EXCEPT !.op = "select"] EXCEPT !.at = "look jobs", !.customer = c]
    BY <1>4 DEF SelectCustomer, BeginSelect, Typed, WindowsTyped
  <2>2. call'[w] = NoCall \/ (call'[w].op = "select" /\ call'[w].at = "look jobs")
    BY <2>1 DEF NoCall
  <2>3. StaysWithRecords(w)
    BY <2>2, NoCallStays DEF StaysWithRecords, Builds
  <2> QED
    BY <1>4, <2>3, SelectSteps DEF ShownKept, SelectCustomer, Idle
<1>5. CASE JobsAreRead(w)
  BY <1>1, <1>5, NoCallStays, JobsSteps DEF JobsAreRead, InCall, ShownKept
<1>6. ASSUME NEW j \in Jobs \cup {None}, SelectJob(w, j)
      PROVE  StaysWithRecords(w) /\ call[w].at # "work" /\ ShownKept(w)
  BY <1>6, SelectJobSteps DEF SelectJob, StaysWithRecords, ShownKept, Idle
<1> QED
  BY <1>2, <1>3, <1>4, <1>5, <1>6, LookStays DEF ReadStep

LEMMA BeginningStays ==
  ASSUME Typed, NEW w \in Windows, call[w].op \notin Builds,
         \/ \E c \in Customers, v \in Values : CreateCustomer(w, c, v)
         \/ \E v \in Values : UpdateCustomer(w, v)
         \/ \E j \in Jobs, v \in Values : CreateJob(w, j, v)
         \/ \E v \in Values : UpdateJob(w, v)
  PROVE  StaysWithRecords(w) /\ call[w].at # "work" /\ ShownKept(w)
<1>1. call'[w].op \in CustomerWrites \cup JobWrites /\ call'[w].at \in {"write", "look owner"}
  <2>1. ASSUME NEW c \in Customers, NEW v \in Values, CreateCustomer(w, c, v)
        PROVE  call'[w].op = "create customer" /\ call'[w].at = "write"
    BY <2>1 DEF CreateCustomer, NoCall, Typed, WindowsTyped
  <2>2. ASSUME NEW v \in Values, UpdateCustomer(w, v)
        PROVE  call'[w].op = "update customer" /\ call'[w].at = "write"
    BY <2>2 DEF UpdateCustomer, NoCall, Typed, WindowsTyped
  <2>3. ASSUME NEW j \in Jobs, NEW v \in Values, CreateJob(w, j, v)
        PROVE  call'[w].op = "create job" /\ call'[w].at = "look owner"
    BY <2>3 DEF CreateJob, NoCall, Typed, WindowsTyped
  <2>4. ASSUME NEW v \in Values, UpdateJob(w, v)
        PROVE  call'[w].op = "update job" /\ call'[w].at = "look owner"
    BY <2>4 DEF UpdateJob, NoCall, Typed, WindowsTyped
  <2> QED
    BY <2>1, <2>2, <2>3, <2>4 DEF CustomerWrites, JobWrites
<1>2. StaysWithRecords(w)
  BY <1>1 DEF StaysWithRecords, CustomerWrites, JobWrites, Builds
<1>3. ShownKept(w)
  BY DEF CreateCustomer, UpdateCustomer, CreateJob, UpdateJob, Invalidated, formVars,
     ShownKept, Typed, ResultsTyped
<1> QED
  BY <1>2, <1>3 DEF CreateCustomer, UpdateCustomer, CreateJob, UpdateJob, Idle

LEMMA WriteStays ==
  ASSUME Typed, NEW w \in Windows, WindowOK(w), call[w].op \notin Builds, WriteStep(w)
  PROVE  StaysWithRecords(w) /\ call[w].at # "work" /\ ShownKept(w)
<1>1. Ends(w) => call'[w] = NoCall
  BY DEF Ends, Typed, WindowsTyped
<1>2. CASE OwnerIsRead(w)
  <2>1. StaysWithRecords(w)
    BY <1>1, <1>2, NoCallStays, CallStays DEF OwnerIsRead
  <2> QED
    BY <1>2, <2>1 DEF OwnerIsRead, InCall, ShownKept, formVars
<1>3. CASE BeginWrite(w)
  <2>1. call'[w] = [call[w] EXCEPT !.at = "writing"]
    BY <1>3 DEF BeginWrite, CallGoesTo, Typed, WindowsTyped
  <2>2. call'[w].op = call[w].op /\ call'[w].at = "writing"
    BY <2>1 DEF Typed, WindowsTyped, Calls
  <2> QED
    BY <1>3, <2>2 DEF StaysWithRecords, ShownKept, BeginWrite, InCall, formVars
<1>4. CASE WriteIsRefused(w) \/ WriteFails(w)
  BY <1>1, <1>4, NoCallStays DEF WriteIsRefused, WriteFails, InCall, ShownKept, formVars
<1>5. CASE FlushPages(w)
  BY <1>5 DEF FlushPages, StaysWithRecords, InCall, ShownKept, formVars
<1>6. CASE CustomerIsWritten(w)
  <2>1. call'[w] = [call[w] EXCEPT !.at = "look customers"]
    BY <1>6 DEF CustomerIsWritten, BeginLoad, Typed, WindowsTyped
  <2>2. call'[w].op = call[w].op /\ call'[w].at = "look customers"
    BY <2>1 DEF Typed, WindowsTyped, Calls
  <2> QED
    BY <1>6, <2>2, CommitSteps DEF CustomerIsWritten, InCall, StaysWithRecords, ShownKept
<1>7. CASE JobIsWritten(w)
  <2>1. \/ call'[w] = NoCall
        \/ call'[w] = [call[w] EXCEPT !.at = "look jobs", !.customer = call[w].customer]
    BY <1>7 DEF JobIsWritten, BeginSelect, Typed, WindowsTyped
  <2>2. call'[w] = NoCall \/ (call'[w].op = call[w].op /\ call'[w].at = "look jobs")
    BY <2>1 DEF Typed, WindowsTyped, Calls
  <2>3. StaysWithRecords(w)
    BY <2>2, NoCallStays DEF StaysWithRecords
  <2> QED
    BY <1>7, <2>3, CommitSteps DEF JobIsWritten, InCall, ShownKept
<1> QED
  BY <1>2, <1>3, <1>4, <1>5, <1>6, <1>7, LookStays, BeginningStays DEF WriteStep

LEMMA FieldStays ==
  ASSUME Typed, NEW w \in Windows, WindowOK(w), call[w].op \notin Builds, FieldStep(w)
  PROVE  StaysWithRecords(w) /\ call[w].at # "work" /\ ShownKept(w)
<1>1. CASE ChooseDatabase(w) \/ \E f \in Drafts : OpenBareDraft(w, f)
  <2>1. call' = call /\ call[w].at = "idle"
    BY <1>1 DEF ChooseDatabase, OpenBareDraft, Idle
  <2> QED
    BY <1>1, <2>1, ClearSteps DEF StaysWithRecords, ShownKept
<1>2. CASE (\E d \in Details : SetDetails(w, d)) \/ \E pair \in Pairs : SelectOutput(w, pair)
  <2>1. call' = call /\ call[w].at = "idle"
    BY <1>2 DEF SetDetails, SelectOutput, Idle
  <2> QED
    BY <1>2, <2>1, FieldSteps DEF StaysWithRecords, ShownKept
<1>3. ASSUME NEW f \in Drafts, OpenDraft(w, f)
      PROVE  StaysWithRecords(w) /\ call[w].at # "work" /\ ShownKept(w)
  <2>1. call'[w].op = "open draft" /\ call'[w].at = "look customers"
    BY <1>3 DEF OpenDraft, NoCall, Typed, WindowsTyped
  <2> QED
    BY <1>3, <2>1 DEF OpenDraft, Idle, StaysWithRecords, ShownKept, Builds, formVars
<1>4. CASE DraftCustomersAreRead(w) \/ DraftJobsAreRead(w)
  <2>1. \/ call'[w] = NoCall
        \/ call'[w] = [call[w] EXCEPT !.at = "look jobs", !.makes = rows.customer]
    <3>1. CASE DraftCustomersAreRead(w)
      BY <1>4, <3>1 DEF DraftCustomersAreRead, SwapIn, Ends, Typed, WindowsTyped
    <3>2. CASE DraftJobsAreRead(w)
      BY <1>4, <3>2 DEF DraftJobsAreRead, SwapIn, Ends, Typed, WindowsTyped
    <3> QED
      BY <1>4, <3>1, <3>2
  <2>2. call'[w] = NoCall \/ (call'[w].op = call[w].op /\ call'[w].at = "look jobs")
    BY <2>1 DEF Typed, WindowsTyped, Calls
  <2>3. StaysWithRecords(w)
    BY <2>2, NoCallStays DEF StaysWithRecords
  <2> QED
    BY <1>4, <2>3, DraftSteps DEF DraftCustomersAreRead, DraftJobsAreRead, InCall, ShownKept
<1> QED
  BY <1>1, <1>2, <1>3, <1>4 DEF FieldStep

LEMMA RecordsStay ==
  ASSUME Typed, NEW w \in Windows, WindowOK(w), RequestOK(w), RecordsSteps(w)
  PROVE  StaysWithRecords(w) /\ call[w].at # "work" /\ call[w].op \notin Builds /\ ShownKept(w)
<1>1. CASE call[w].op \notin Builds
  BY <1>1, ReadStays, WriteStays, FieldStays DEF RecordsSteps
<1>2. CASE call[w].at = "work"
  BY <1>2 DEF RecordsSteps, ReadStep, LoadCustomers, LookForCustomers, Look,
     CustomersAreRead, SelectCustomer, LookForJobs, JobsAreRead, SelectJob, WriteStep,
     CreateCustomer, UpdateCustomer, CreateJob, UpdateJob, LookForOwner, OwnerIsRead,
     BeginWrite, WriteIsRefused, FlushPages, WriteFails, CustomerIsWritten, JobIsWritten,
     FieldStep, ChooseDatabase, SetDetails, SelectOutput, OpenDraft, OpenBareDraft,
     DraftCustomersAreRead, DraftJobsAreRead, Idle, InCall
<1> QED
  BY <1>1, <1>2 DEF RequestOK

-----------------------------------------------------------------------------
(***************************************************************************)
(* Together: the file and the transactions, whoever steps.                 *)
(***************************************************************************)

LEMMA RecordsKeepOK ==
  ASSUME Typed, FileOK, \A w \in Windows : WindowOK(w), [Next]_vars
  PROVE  RecordsTyped' /\ FileOK'
<1>1. PICK p \in Writers : RecordsMove(p)
  <2>1. CASE \E w \in Windows : WindowStep(w)
    BY <2>1, WindowRecords DEF Writers
  <2>2. CASE OtherStep
    BY <2>2, OthersRecords DEF Writers
  <2>3. CASE UNCHANGED vars
    <3>1. RecordsMove(Importer)
      BY <2>3 DEF RecordsMove, vars
    <3> QED
      BY <3>1 DEF Writers
  <2> QED
    BY <2>1, <2>2, <2>3, NextSteps
<1> QED
  BY <1>1, RecordsMoveKeeps DEF Typed

LEMMA TransactionsKeepOK ==
  ASSUME Typed, FileOK, \A u \in Windows : WindowOK(u) /\ RequestOK(u),
         NEW w \in Windows, TransactionOK(w), [Next]_vars
  PROVE  TransactionOK(w)'
<1>1. ASSUME UNCHANGED <<call[w], edit[w]>>, R!Holds(w)' => R!Holds(w) /\ UNCHANGED <<tx, journal>>
      PROVE  TransactionOK(w)'
  <2> SUFFICES ASSUME call'[w].at = "writing", R!Holds(w)'
               PROVE  tx'.makes = Makes(w, journal)' /\ MayWrite(w, journal)'
    BY DEF TransactionOK
  <2>1. call[w].at = "writing" /\ R!Holds(w) /\ UNCHANGED <<tx, journal>>
    BY <1>1
  <2>2. tx.makes = Makes(w, journal) /\ MayWrite(w, journal)
    BY <2>1 DEF TransactionOK
  <2> QED
    BY <1>1, <2>1, <2>2 DEF Makes, MayWrite
<1>2. CASE UNCHANGED vars
  BY <1>1, <1>2 DEF vars, recordsVars, formVars, R!Holds
<1>3. CASE OtherStep
  <2>1. RecordsMove(Importer) /\ Importer \in Writers /\ w \in Writers \ {Importer}
    BY <1>3, OthersRecords, ActorsAssumption DEF Writers
  <2>2. R!Holds(w)' => R!Holds(w) /\ UNCHANGED <<tx, journal>>
    BY <2>1, OthersTransaction
  <2>3. UNCHANGED <<call[w], edit[w]>>
    BY <1>3, OthersWait DEF formVars
  <2> QED
    BY <1>1, <2>2, <2>3
<1>4. ASSUME NEW u \in Windows, WindowStep(u), u # w
      PROVE  TransactionOK(w)'
  <2>1. RecordsMove(u) /\ u \in Writers /\ w \in Writers \ {u}
    BY <1>4, WindowRecords DEF Writers
  <2>2. R!Holds(w)' => R!Holds(w) /\ UNCHANGED <<tx, journal>>
    BY <2>1, OthersTransaction
  <2>3. UNCHANGED <<call[w], edit[w]>>
    BY <1>4, WindowStepMoves DEF Moves
  <2> QED
    BY <1>1, <2>2, <2>3
<1>5. CASE BeginWrite(w)
  <2>1. tx'.makes = Makes(w, R!Recovered) /\ journal' = R!Recovered /\ MayWrite(w, R!Recovered)
    BY <1>5 DEF BeginWrite, R!Begin
  <2>2. edit' = edit /\ call'[w] = [call[w] EXCEPT !.at = "writing"]
    BY <1>5 DEF BeginWrite, CallGoesTo, formVars, Typed, WindowsTyped
  <2>3. /\ call'[w].op = call[w].op /\ call'[w].customer = call[w].customer
        /\ call'[w].job = call[w].job /\ call'[w].makes = call[w].makes
    BY <2>2 DEF Typed, WindowsTyped, Calls
  <2>4. Makes(w, journal)' = Makes(w, R!Recovered)
    BY <2>1, <2>3 DEF Makes, R!WithCustomer, R!WithJob
  <2>5. MayWrite(w, journal)'
    BY <2>1, <2>2, <2>3 DEF MayWrite, R!MayCreateCustomer, R!MayCreateJob,
       R!MayUpdateCustomer, R!MayUpdateJob
  <2> QED
    BY <2>1, <2>4, <2>5 DEF TransactionOK
<1>6. CASE FlushPages(w)
  BY <1>1, <1>6 DEF FlushPages, R!Flush, formVars
<1>7. ASSUME call'[w].at # "writing" PROVE TransactionOK(w)'
  BY <1>7 DEF TransactionOK
<1>8. CASE RecordsSteps(w)
  BY <1>5, <1>6, <1>7, <1>8, RecordsStay DEF StaysWithRecords
<1>9. CASE ProposalStep(w)
  <2>1. CASE Validate(w) \/ Generate(w)
    <3>1. call'[w].at = "work"
      <4>1. PICK op \in Builds : call' = [call EXCEPT ![w] = [NoCall EXCEPT !.op = op, !.at = "work"]]
        BY <2>1 DEF Validate, Generate, Builds
      <4>2. call'[w] = [NoCall EXCEPT !.op = op, !.at = "work"]
        BY <4>1 DEF Typed, WindowsTyped
      <4> QED
        BY <4>2 DEF NoCall
    <3> QED
      BY <1>7, <3>1
  <2>2. CASE ValidateEnds(w) \/ GenerateEnds(w)
    BY <1>7, <2>2 DEF ValidateEnds, GenerateEnds, Ends, NoCall, Typed, WindowsTyped
  <2>3. CASE GenerateIsBlocked(w)
    BY <1>7, <2>3 DEF GenerateIsBlocked, Idle
  <2> QED
    BY <1>9, <2>1, <2>2, <2>3 DEF ProposalStep
<1>10. CASE WindowDies(w)
  BY <1>7, <1>10, DeathSteps, Blanks
<1> QED
  BY <1>2, <1>3, <1>4, <1>8, <1>9, <1>10, NextSteps DEF WindowStep

-----------------------------------------------------------------------------
(***************************************************************************)
(* The builds.                                                             *)
(***************************************************************************)

\* What a builder p may do with its work and the files.
BuildMove(p) ==
  \/ UNCHANGED buildVars
  \/ \E request \in Requests, build \in BOOLEAN : B!Start(p, request, build)
  \/ \E free \in BOOLEAN : B!LookForCustomer(p, free) \/ B!LookForJob(p, free)
  \/ \E row \in Values \cup {None} : B!ReadCustomer(p, row)
  \/ \E row \in R!JobRows \cup {None} : B!ReadJob(p, row)
  \/ B!BuildStep(p) \/ B!WorkReturns(p) \/ B!BuilderDies(p)

\* What it does to the files of anyone.
FilesKept(p) ==
  \A f \in OutputFiles :
    \/ files'[f] = files[f]
    \/ files[f] = None
    \/ f \in created[p] /\ files[f] = B!Proposal(p) /\ files'[f] = None

LEMMA ProposalTyped ==
  ASSUME BuildsTyped, NEW p \in Builders, work[p].request \in Requests
  PROVE  /\ B!Proposal(p) \in Proposals /\ B!Proposal(p) # None /\ B!Proposal(p).by = p
         /\ work[p].request.json \in OutputFiles /\ work[p].request.docx \in OutputFiles
<1>1. B!Proposal(p) \in Proposals /\ B!Proposal(p).by = p
  BY DEF BuildsTyped, Works, Builders, B!Proposal, Proposals
<1> QED
  BY <1>1, FormsAssumption DEF Requests

\* What a builder has created is its own, and there.
LEMMA CreatedIsThere ==
  ASSUME BuildsTyped, NEW p \in Builders, BuildOK(p), NEW f \in created[p]
  PROVE  /\ files[f] = B!Proposal(p) /\ files[f] # None /\ files[f].by = p
         /\ f \in OutputFiles
<1>1. work[p].at # "idle" /\ files[f] = B!Proposal(p)
  BY DEF BuildOK
<1> QED
  BY <1>1, ProposalTyped DEF BuildOK, BuildsTyped

\* The builder's own work.
OwnWorkOK(p) ==
  /\ work' \in [Builders -> Works]
  /\ created' \in [Builders -> SUBSET OutputFiles]
  /\ files' \in [OutputFiles -> Proposals \cup {None}]
  /\ \A q \in Builders \ {p} : work'[q] = work[q] /\ created'[q] = created[q]
  /\ BuildOK(p)'
  /\ FilesKept(p)

LEMMA StartMoves ==
  ASSUME BuildsTyped, NEW p \in Builders, BuildOK(p), NEW request \in Requests,
         NEW build \in BOOLEAN, B!Start(p, request, build)
  PROVE  OwnWorkOK(p)
<1>1. PICK at \in {"look for customer", "failed"} :
        work' = [work EXCEPT ![p] = [B!Resting EXCEPT !.build = build, !.request = request,
                                       !.at = at]]
  BY DEF B!Start
<1>2. [B!Resting EXCEPT !.build = build, !.request = request, !.at = at] \in Works
  BY DEF B!Resting, Works, B!Running
<1>3. /\ work' \in [Builders -> Works] /\ work'[p].at = at /\ work'[p].request = request
      /\ \A q \in Builders \ {p} : work'[q] = work[q]
  BY <1>1, <1>2 DEF BuildsTyped, B!Resting
<1>4. UNCHANGED <<files, created>> /\ created[p] = {}
  BY DEF B!Start, B!At, BuildOK
<1>5. BuildOK(p)'
  BY <1>3, <1>4 DEF BuildOK
<1> QED
  BY <1>3, <1>4, <1>5 DEF BuildsTyped, OwnWorkOK, FilesKept

LEMMA ReadMoves ==
  ASSUME BuildsTyped, NEW p \in Builders, BuildOK(p),
         \/ \E free \in BOOLEAN : B!LookForCustomer(p, free) \/ B!LookForJob(p, free)
         \/ \E row \in Values \cup {None} : B!ReadCustomer(p, row)
         \/ \E row \in R!JobRows \cup {None} : B!ReadJob(p, row)
  PROVE  OwnWorkOK(p) /\ work[p].at # "idle" /\ work'[p].at # "idle"
         /\ work'[p].request = work[p].request
<1>1. UNCHANGED <<files, created>> /\ created[p] = {} /\ work[p].at # "idle"
  BY DEF B!LookForCustomer, B!LookForJob, B!Look, B!ReadCustomer, B!ReadJob, B!At, BuildOK
<1>2. PICK k \in Works :
        /\ work' = [work EXCEPT ![p] = k]
        /\ k.request = work[p].request
        /\ k.at \in {"customer", "look for job", "job", "failed", "json", "passed"}
        /\ k.at \in {"json", "passed"} => k.job # None /\ k.job.customer = k.request.customer
  <2>1. ASSUME NEW at \in {"customer", "job", "failed"}, B!GoesOn(p, at)
        PROVE  LET k == [work[p] EXCEPT !.at = at] IN
               /\ k \in Works /\ work' = [work EXCEPT ![p] = k]
               /\ k.request = work[p].request /\ k.at = at
    BY <2>1 DEF BuildsTyped, Works, B!GoesOn, B!Running
  <2>2. CASE \E free \in BOOLEAN : B!LookForCustomer(p, free) \/ B!LookForJob(p, free)
    <3>1. \E at \in {"customer", "job", "failed"} : B!GoesOn(p, at)
      BY <2>2 DEF B!LookForCustomer, B!LookForJob, B!Look
    <3> QED
      BY <2>1, <3>1
  <2>3. ASSUME NEW row \in Values \cup {None}, B!ReadCustomer(p, row)
        PROVE  LET k == [work[p] EXCEPT !.customer = row,
                           !.at = IF row = None THEN "failed" ELSE "look for job"] IN
               /\ k \in Works /\ work' = [work EXCEPT ![p] = k]
               /\ k.request = work[p].request /\ k.at \in {"failed", "look for job"}
    BY <2>3 DEF BuildsTyped, Works, B!ReadCustomer, B!Running
  <2>4. ASSUME NEW row \in R!JobRows \cup {None}, B!ReadJob(p, row)
        PROVE  \E k \in Works :
               /\ work' = [work EXCEPT ![p] = k]
               /\ k.request = work[p].request /\ k.at \in {"failed", "json", "passed"}
               /\ k.at # "failed" => k.job # None /\ k.job.customer = k.request.customer
    <3>1. PICK at \in {"failed", "json", "passed"} :
            /\ work' = [work EXCEPT ![p].job = row, ![p].at = at]
            /\ at # "failed" => row # None /\ row.customer = work[p].request.customer
      BY <2>4 DEF B!ReadJob
    <3> DEFINE k == [work[p] EXCEPT !.job = row, !.at = at]
    <3>2. work[p] \in Works /\ work' = [work EXCEPT ![p] = k]
      BY <3>1 DEF BuildsTyped
    <3>3. k \in Works /\ k.request = work[p].request /\ k.at = at /\ k.job = row
      BY <3>2 DEF Works, B!Running
    <3> QED
      BY <3>1, <3>2, <3>3
  <2> QED
    BY <2>2, <2>3, <2>4
<1>3. /\ work' \in [Builders -> Works] /\ work'[p] = k
      /\ \A q \in Builders \ {p} : work'[q] = work[q]
  BY <1>2 DEF BuildsTyped
<1>4. BuildOK(p)'
  BY <1>1, <1>2, <1>3 DEF BuildOK
<1> QED
  BY <1>1, <1>2, <1>3, <1>4 DEF BuildsTyped, OwnWorkOK, FilesKept

LEMMA StepMoves ==
  ASSUME BuildsTyped, NEW p \in Builders, BuildOK(p), B!BuildStep(p)
  PROVE  OwnWorkOK(p) /\ work[p].at # "idle" /\ work'[p].at # "idle"
         /\ work'[p].request = work[p].request
<1> DEFINE request == work[p].request
<1>1. work[p].at \in B!Running /\ work[p].at # "idle" /\ work[p] \in Works
  BY DEF B!BuildStep, B!PublishJson, B!PublishDocx, B!Verify, B!WorkFails, B!At, B!Running,
     BuildsTyped
<1>2. /\ request \in Requests /\ B!Proposal(p) \in Proposals /\ B!Proposal(p) # None
      /\ request.json \in OutputFiles /\ request.docx \in OutputFiles
  BY <1>1, ProposalTyped DEF BuildOK
<1>3. ASSUME NEW at \in {"docx", "verify", "published", "failed"}, B!GoesOn(p, at)
      PROVE  /\ work' \in [Builders -> Works] /\ work'[p].at = at
             /\ work'[p].request = request /\ work'[p].job = work[p].job
             /\ B!Proposal(p)' = B!Proposal(p)
             /\ \A q \in Builders \ {p} : work'[q] = work[q]
  <2>1. [work[p] EXCEPT !.at = at] \in Works /\ work' = [work EXCEPT ![p] = [work[p] EXCEPT !.at = at]]
    BY <1>1, <1>3 DEF Works, B!Running, B!GoesOn
  <2>2. work' \in [Builders -> Works] /\ work'[p] = [work[p] EXCEPT !.at = at]
    BY <2>1 DEF BuildsTyped
  <2>3. /\ work'[p].at = at /\ work'[p].request = request /\ work'[p].job = work[p].job
        /\ work'[p].customer = work[p].customer
    BY <1>1, <2>2 DEF Works
  <2> QED
    BY <2>1, <2>2, <2>3 DEF BuildsTyped, B!Proposal
<1>4. ASSUME NEW f \in OutputFiles, B!Publish(p, f)
      PROVE  /\ files' \in [OutputFiles -> Proposals \cup {None}]
             /\ files[f] = None /\ files'[f] = B!Proposal(p)
             /\ \A g \in OutputFiles \ {f} : files'[g] = files[g]
             /\ created' \in [Builders -> SUBSET OutputFiles]
             /\ created'[p] = created[p] \cup {f}
             /\ \A q \in Builders \ {p} : created'[q] = created[q]
             /\ FilesKept(p)
  BY <1>2, <1>4 DEF B!Publish, BuildsTyped, FilesKept
<1>5. \A f \in created[p] : f \in OutputFiles /\ files[f] = B!Proposal(p) /\ files[f] # None
  BY CreatedIsThere
<1>6. CASE B!PublishJson(p)
  <2>1. work[p].at = "json" /\ B!Publish(p, request.json) /\ B!GoesOn(p, "docx")
    BY <1>6 DEF B!PublishJson, B!At
  <2>2. created'[p] = {request.json} /\ files'[request.json] = B!Proposal(p)
    BY <1>2, <1>4, <2>1 DEF BuildOK
  <2>3. work[p].job # None /\ work[p].job.customer = request.customer
    BY <2>1 DEF BuildOK
  <2>4. BuildOK(p)'
    BY <1>2, <1>3, <2>1, <2>2, <2>3 DEF BuildOK
  <2> QED
    BY <1>1, <1>2, <1>3, <1>4, <2>1, <2>4 DEF OwnWorkOK
<1>7. CASE B!PublishDocx(p)
  <2>1. work[p].at = "docx" /\ B!Publish(p, request.docx) /\ B!GoesOn(p, "verify")
    BY <1>7 DEF B!PublishDocx, B!At
  <2>2. created[p] = {request.json} /\ files[request.json] = B!Proposal(p)
    BY <2>1 DEF BuildOK
  <2>3. /\ created'[p] = {request.json, request.docx}
        /\ files'[request.json] = B!Proposal(p) /\ files'[request.docx] = B!Proposal(p)
    BY <1>2, <1>4, <2>1, <2>2
  <2>4. work[p].job # None /\ work[p].job.customer = request.customer
    BY <2>1 DEF BuildOK
  <2>5. BuildOK(p)'
    BY <1>2, <1>3, <2>1, <2>3, <2>4 DEF BuildOK
  <2> QED
    BY <1>1, <1>2, <1>3, <1>4, <2>1, <2>5 DEF OwnWorkOK
<1>8. CASE B!Verify(p)
  <2>1. /\ work[p].at = "verify" /\ B!GoesOn(p, "published") /\ files' = files
        /\ created' = [created EXCEPT ![p] = {}]
    BY <1>8 DEF B!Verify, B!At
  <2>2. files[request.json] = B!Proposal(p) /\ files[request.docx] = B!Proposal(p)
    BY <2>1 DEF BuildOK
  <2>3. work[p].job # None /\ work[p].job.customer = request.customer
    BY <2>1 DEF BuildOK
  <2>4. /\ created' \in [Builders -> SUBSET OutputFiles] /\ created'[p] = {}
        /\ \A q \in Builders \ {p} : created'[q] = created[q]
    BY <2>1 DEF BuildsTyped
  <2>5. BuildOK(p)'
    BY <1>2, <1>3, <2>1, <2>2, <2>3, <2>4 DEF BuildOK
  <2> QED
    BY <1>1, <1>3, <2>1, <2>4, <2>5 DEF OwnWorkOK, FilesKept, BuildsTyped
<1>9. CASE B!WorkFails(p)
  <2>1. /\ files' = [f \in OutputFiles |-> IF f \in created[p] THEN None ELSE files[f]]
        /\ created' = [created EXCEPT ![p] = {}] /\ B!GoesOn(p, "failed")
    BY <1>9 DEF B!WorkFails
  <2>2. /\ created' \in [Builders -> SUBSET OutputFiles] /\ created'[p] = {}
        /\ \A q \in Builders \ {p} : created'[q] = created[q]
    BY <2>1 DEF BuildsTyped
  <2>3. files' \in [OutputFiles -> Proposals \cup {None}] /\ FilesKept(p)
    BY <1>5, <2>1 DEF BuildsTyped, FilesKept
  <2>4. BuildOK(p)'
    BY <1>2, <1>3, <2>1, <2>2 DEF BuildOK
  <2> QED
    BY <1>1, <1>3, <2>1, <2>2, <2>3, <2>4 DEF OwnWorkOK
<1> QED
  BY <1>6, <1>7, <1>8, <1>9 DEF B!BuildStep

LEMMA EndMoves ==
  ASSUME BuildsTyped, NEW p \in Builders, BuildOK(p), B!WorkReturns(p) \/ B!BuilderDies(p)
  PROVE  OwnWorkOK(p) /\ work'[p].at = "idle" /\ files' = files
<1>1. B!Resting \in Works /\ B!Resting.at = "idle"
  BY DEF B!Resting, Works
<1>2. /\ work' \in [Builders -> Works] /\ work'[p] = B!Resting
      /\ \A q \in Builders \ {p} : work'[q] = work[q]
  BY <1>1 DEF BuildsTyped, B!WorkReturns, B!BuilderDies
<1>3. /\ created' \in [Builders -> SUBSET OutputFiles] /\ created'[p] = {}
      /\ \A q \in Builders \ {p} : created'[q] = created[q]
      /\ files' = files
  BY DEF BuildsTyped, B!WorkReturns, B!BuilderDies, BuildOK
<1>4. BuildOK(p)'
  BY <1>1, <1>2, <1>3 DEF BuildOK
<1> QED
  BY <1>1, <1>2, <1>3, <1>4 DEF OwnWorkOK, FilesKept, BuildsTyped

LEMMA BuildMoveIsOK ==
  ASSUME BuildsTyped, NEW p \in Builders, BuildOK(p), BuildMove(p)
  PROVE  OwnWorkOK(p)
<1>1. CASE UNCHANGED buildVars
  <2>1. BuildOK(p)'
    BY <1>1 DEF BuildOK, buildVars, B!Proposal
  <2> QED
    BY <1>1, <2>1 DEF BuildsTyped, OwnWorkOK, FilesKept, buildVars
<1> QED
  BY <1>1, StartMoves, ReadMoves, StepMoves, EndMoves DEF BuildMove

\* The files of another builder stay as they are.
LEMMA OthersFilesStay ==
  ASSUME NEW p \in Builders, FilesKept(p), NEW f \in OutputFiles, files[f] # None,
         files[f].by # p \/ created[p] = {}
  PROVE  files'[f] = files[f]
BY DEF FilesKept, B!Proposal

LEMMA OthersBuildOK ==
  ASSUME BuildsTyped, NEW p \in Builders, OwnWorkOK(p), NEW q \in Builders \ {p}, BuildOK(q)
  PROVE  BuildOK(q)'
<1>1. work'[q] = work[q] /\ created'[q] = created[q] /\ FilesKept(p) /\ B!Proposal(q)' = B!Proposal(q)
  BY DEF OwnWorkOK, B!Proposal
<1>2. \A f \in created[q] : files'[f] = B!Proposal(q)
  BY <1>1, CreatedIsThere, OthersFilesStay
<1>3. CASE work[q].at = "published"
  <2>1. /\ work[q].request.json \in OutputFiles /\ work[q].request.docx \in OutputFiles
        /\ B!Proposal(q) # None /\ B!Proposal(q).by = q
    BY <1>3, ProposalTyped DEF BuildOK
  <2>2. files[work[q].request.json] = B!Proposal(q) /\ files[work[q].request.docx] = B!Proposal(q)
    BY <1>3 DEF BuildOK
  <2>3. files'[work[q].request.json] = B!Proposal(q) /\ files'[work[q].request.docx] = B!Proposal(q)
    BY <1>1, <2>1, <2>2, OthersFilesStay
  <2> QED
    BY <1>1, <1>2, <2>3 DEF BuildOK
<1> QED
  BY <1>1, <1>2, <1>3 DEF BuildOK

LEMMA BuildsKeep ==
  ASSUME BuildsTyped, \A q \in Builders : BuildOK(q), NEW p \in Builders, BuildMove(p)
  PROVE  BuildsTyped' /\ (\A q \in Builders : BuildOK(q)') /\ FilesKept(p)
         /\ \A q \in Builders \ {p} : work'[q] = work[q]
<1>1. OwnWorkOK(p)
  BY BuildMoveIsOK
<1>2. ASSUME NEW q \in Builders PROVE BuildOK(q)'
  BY <1>1, OthersBuildOK DEF OwnWorkOK
<1> QED
  BY <1>1, <1>2 DEF OwnWorkOK, BuildsTyped

-----------------------------------------------------------------------------
(* Who builds.                                                             *)

LEMMA RecordsStepsDoNotBuild ==
  ASSUME NEW w \in Windows, RecordsSteps(w)
  PROVE  UNCHANGED buildVars
<1>1. CASE ReadStep(w)
  BY <1>1 DEF ReadStep, LoadCustomers, LookForCustomers, Look, CustomersAreRead,
     SelectCustomer, LookForJobs, JobsAreRead, SelectJob
<1>2. CASE WriteStep(w)
  BY <1>2 DEF WriteStep, CreateCustomer, UpdateCustomer, CreateJob, UpdateJob, LookForOwner,
     Look, OwnerIsRead, BeginWrite, WriteIsRefused, FlushPages, WriteFails,
     CustomerIsWritten, JobIsWritten
<1>3. CASE FieldStep(w)
  BY <1>3 DEF FieldStep, ChooseDatabase, SetDetails, SelectOutput, OpenDraft, OpenBareDraft,
     DraftCustomersAreRead, DraftJobsAreRead
<1> QED
  BY <1>1, <1>2, <1>3 DEF RecordsSteps

LEMMA RequestTyped ==
  ASSUME NEW f \in Forms, f.customer # None, f.job # None
  PROVE  Request(f) \in Requests
<1>1. f.customer \in Customers /\ f.job \in Jobs /\ f.details \in Details /\ f.out \in Pairs
  BY DEF Forms
<1>2. f.out.json \in OutputFiles /\ f.out.docx \in OutputFiles
  BY <1>1 DEF OutputFiles
<1> QED
  BY <1>1, <1>2 DEF Request, Requests

LEMMA CommandRequestTyped ==
  ASSUME NEW f \in CommandForms
  PROVE  Request(f) \in Requests
<1>1. f.customer \in Customers /\ f.job \in Jobs /\ f.details \in Details
  BY FormsAssumption
<1>2. f.out.json \in OutputFiles /\ f.out.docx \in OutputFiles
  BY DEF OutputFiles
<1> QED
  BY <1>1, <1>2 DEF Request, Requests

LEMMA ValidateRequest ==
  ASSUME Typed, NEW w \in Windows, Validate(w)
  PROVE  Request(form[w]) \in Requests
<1>1. form[w] \in Forms
  BY DEF Typed, WindowsTyped
<1> QED
  BY <1>1, RequestTyped DEF Validate, Selectable

LEMMA WindowBuilds ==
  ASSUME Typed, NEW w \in Windows, RequestOK(w), WindowStep(w)
  PROVE  BuildMove(w)
<1>1. CASE Validate(w)
  <2>1. Request(form[w]) \in Requests /\ B!Start(w, Request(form[w]), FALSE)
    BY <1>1, ValidateRequest DEF Validate
  <2> QED
    BY <2>1 DEF BuildMove
<1>2. CASE Generate(w)
  <2>1. Request(valid[w]) \in Requests /\ B!Start(w, Request(valid[w]), TRUE)
    BY <1>2 DEF Generate, RequestOK
  <2> QED
    BY <2>1 DEF BuildMove
<1>3. CASE ValidateEnds(w) \/ GenerateEnds(w) \/ WindowDies(w)
  BY <1>3 DEF ValidateEnds, GenerateEnds, WindowDies, BuildMove
<1>4. CASE GenerateIsBlocked(w)
  BY <1>4 DEF GenerateIsBlocked, BuildMove
<1>5. CASE RecordsSteps(w)
  BY <1>5, RecordsStepsDoNotBuild DEF BuildMove
<1> QED
  BY <1>1, <1>2, <1>3, <1>4, <1>5 DEF WindowStep, ProposalStep

\* The step of a builder that goes on with its work.
LEMMA BuilderSteps ==
  ASSUME Typed, NEW p \in Builders, BuildOK(p), RecordsAreRead(p) \/ BuildGoesOn(p)
  PROVE  /\ BuildMove(p) /\ work[p].at # "idle" /\ work'[p].at # "idle"
         /\ work'[p].request = work[p].request
<1>1. CASE BuildGoesOn(p)
  BY <1>1, StepMoves DEF BuildGoesOn, BuildMove, Typed
<1>2. CASE RecordsAreRead(p)
  <2> DEFINE request == work[p].request
  <2>1. CASE B!LookForCustomer(p, R!SidecarFree) \/ B!LookForJob(p, R!SidecarFree)
    <3>1. R!SidecarFree \in BOOLEAN
      BY DEF R!SidecarFree
    <3> QED
      BY <2>1, <3>1, ReadMoves DEF BuildMove, Typed
  <2>2. CASE B!At(p, "customer") /\ B!ReadCustomer(p, R!CustomerOf(rows, request.customer))
    <3>1. request \in Requests
      BY <2>2 DEF B!At, BuildOK
    <3>2. R!CustomerOf(rows, request.customer) \in Values \cup {None}
      BY <3>1 DEF Requests, R!CustomerOf, Typed, RecordsTyped, R!Rows
    <3> QED
      BY <2>2, <3>2, ReadMoves DEF BuildMove, Typed
  <2>3. CASE B!At(p, "job") /\ B!ReadJob(p, R!JobOf(rows, request.job))
    <3>1. request \in Requests
      BY <2>3 DEF B!At, BuildOK
    <3>2. R!JobOf(rows, request.job) \in R!JobRows \cup {None}
      BY <3>1 DEF Requests, R!JobOf, Typed, RecordsTyped, R!Rows
    <3> QED
      BY <2>3, <3>2, ReadMoves DEF BuildMove, Typed
  <2> QED
    BY <1>2, <2>1, <2>2, <2>3 DEF RecordsAreRead
<1> QED
  BY <1>1, <1>2

LEMMA CommandSteps ==
  ASSUME NEW p \in Commands,
         (\E f \in CommandForms : CommandStarts(p, Request(f))) \/ CommandDies(p)
  PROVE  BuildMove(p)
<1>1. ASSUME NEW f \in CommandForms, CommandStarts(p, Request(f)) PROVE BuildMove(p)
  <2>1. Request(f) \in Requests /\ B!Start(p, Request(f), TRUE)
    BY <1>1, CommandRequestTyped DEF CommandStarts
  <2> QED
    BY <2>1 DEF BuildMove
<1> QED
  BY <1>1 DEF CommandDies, BuildMove

LEMMA ImportDoesNotBuild == ImportStep => UNCHANGED buildVars
BY DEF ImportStep, ImportCustomer, ImportJob, Import, ImporterGoesOn, ImporterDies

\* Every step is the step of at most one builder.
LEMMA NextBuilds ==
  ASSUME Typed, \A p \in Builders : BuildOK(p), \A w \in Windows : RequestOK(w), [Next]_vars
  PROVE  UNCHANGED buildVars \/ \E p \in Builders : BuildMove(p)
<1>1. CASE \E w \in Windows : WindowStep(w)
  BY <1>1, WindowBuilds DEF Builders
<1>2. CASE OtherStep
  BY <1>2, BuilderSteps, CommandSteps, ImportDoesNotBuild DEF OtherStep, Builders
<1>3. CASE UNCHANGED vars
  BY <1>3 DEF vars
<1> QED
  BY <1>1, <1>2, <1>3, NextSteps

LEMMA BuildsKeepOK ==
  ASSUME Typed, \A p \in Builders : BuildOK(p), \A w \in Windows : RequestOK(w), [Next]_vars
  PROVE  BuildsTyped' /\ \A p \in Builders : BuildOK(p)'
<1>1. CASE UNCHANGED buildVars
  BY <1>1 DEF buildVars, Typed, BuildsTyped, BuildOK, B!Proposal
<1> QED
  BY <1>1, NextBuilds, BuildsKeep DEF Typed

-----------------------------------------------------------------------------
(***************************************************************************)
(* What a window has validated and what it shows.                          *)
(***************************************************************************)

\* What a step of the window p does to another window, or one of a builder that
\* is not a window to any.
LEMMA ResultsStay ==
  ASSUME Typed, NEW w \in Windows, RequestOK(w), ShownOK(w),
         NEW p \in Builders, FilesKept(p), p # w \/ created[p] = {},
         UNCHANGED work[w], ShownKept(w), valid'[w] \in {valid[w], None},
         \/ UNCHANGED <<call[w], form[w]>>
         \/ /\ call[w].op \notin Builds /\ call'[w].op \notin Builds /\ call'[w].at # "work"
  PROVE  RequestOK(w)' /\ ShownOK(w)'
<1>1. RequestOK(w)'
  BY DEF RequestOK, Request
<1>2. ASSUME shown'[w] # None
      PROVE  ShownOK(w)'
  <2>1. shown'[w] = shown[w] /\ form'[w] = form[w] /\ shown[w] # None
    BY <1>2 DEF ShownKept
  <2>2. /\ call[w].op \notin Builds /\ shown[w] = Request(form[w])
        /\ files[shown[w].docx] \in Proposals
        /\ files[shown[w].json] = files[shown[w].docx]
        /\ files[shown[w].docx].by = w
        /\ files[shown[w].docx].request = shown[w]
        /\ files[shown[w].docx].job.customer = files[shown[w].docx].request.customer
    BY <2>1 DEF ShownOK
  <2>3. shown[w].docx \in OutputFiles /\ shown[w].json \in OutputFiles
    BY <2>1 DEF Typed, ResultsTyped, Requests
  <2>4. files[shown[w].docx] # None
    BY <2>2, FormsAssumption
  <2>5. files'[shown[w].docx] = files[shown[w].docx]
    BY <2>2, <2>3, <2>4, OthersFilesStay
  <2>6. files'[shown[w].json] = files[shown[w].json]
    BY <2>2, <2>3, <2>4, OthersFilesStay
  <2>7. call'[w].op \notin Builds
    BY <2>2
  <2> QED
    BY <2>1, <2>2, <2>5, <2>6, <2>7 DEF ShownOK, Request
<1> QED
  BY <1>1, <1>2 DEF ShownOK

\* A step that validates or generates.
LEMMA ProposalResults ==
  ASSUME Typed, NEW w \in Windows, BuildOK(w), RequestOK(w), ShownOK(w), ProposalStep(w)
  PROVE  /\ RequestOK(w)' /\ ShownOK(w)'
         /\ valid' \in [Windows -> Forms \cup {None}]
         /\ shown' \in [Windows -> Requests \cup {None}]
         /\ \A u \in Windows \ {w} : valid'[u] = valid[u] /\ shown'[u] = shown[u]
<1>1. /\ form' = form /\ form[w] \in Forms /\ w \in Builders
      /\ call \in [Windows -> Calls] /\ work \in [Builders -> Works] /\ BuildsTyped
  BY DEF Typed, WindowsTyped, BuildsTyped, Builders, ProposalStep, Validate, ValidateEnds,
     Generate, GenerateIsBlocked, GenerateEnds
<1>2. /\ Invalidated(w) =>
           /\ valid' \in [Windows -> Forms \cup {None}] /\ shown' \in [Windows -> Requests \cup {None}]
           /\ valid'[w] = None /\ shown'[w] = None
           /\ \A u \in Windows \ {w} : valid'[u] = valid[u] /\ shown'[u] = shown[u]
  BY DEF Invalidated, Typed, ResultsTyped
<1>3. ASSUME NEW op \in Builds, call' = [call EXCEPT ![w] = [NoCall EXCEPT !.op = op, !.at = "work"]]
      PROVE  call'[w].op = op /\ call'[w].at = "work"
  <2>1. call'[w] = [NoCall EXCEPT !.op = op, !.at = "work"]
    BY <1>1, <1>3
  <2> QED
    BY <2>1 DEF NoCall
<1>4. ASSUME NEW request, NEW build, B!Start(w, request, build)
      PROVE  work'[w].at # "idle" /\ work'[w].request = request
  <2>1. PICK at \in {"look for customer", "failed"} :
          work' = [work EXCEPT ![w] = [B!Resting EXCEPT !.build = build, !.request = request,
                                         !.at = at]]
    BY <1>4 DEF B!Start
  <2>2. work'[w] = [B!Resting EXCEPT !.build = build, !.request = request, !.at = at]
    BY <1>1, <2>1
  <2> QED
    BY <2>2 DEF B!Resting
<1>5. ASSUME B!WorkReturns(w), Ends(w)
      PROVE  work'[w].at = "idle" /\ call'[w] = NoCall /\ files' = files
  BY <1>1, <1>5, EndMoves DEF Ends
<1>6. CASE Validate(w)
  <2>1. /\ B!Start(w, Request(form[w]), FALSE) /\ Invalidated(w)
        /\ call' = [call EXCEPT ![w] = [NoCall EXCEPT !.op = "validate", !.at = "work"]]
    BY <1>6 DEF Validate
  <2>2. call'[w].op = "validate" /\ call'[w].at = "work"
    BY <1>3, <2>1 DEF Builds
  <2>3. work'[w].at # "idle" /\ work'[w].request = Request(form[w])
    BY <1>4, <2>1
  <2> QED
    BY <1>1, <1>2, <2>1, <2>2, <2>3 DEF RequestOK, ShownOK, Builds
<1>7. CASE Generate(w)
  <2>1. /\ B!Start(w, Request(valid[w]), TRUE) /\ valid[w] = form[w] /\ valid' = valid
        /\ shown' = [shown EXCEPT ![w] = None]
        /\ call' = [call EXCEPT ![w] = [NoCall EXCEPT !.op = "generate", !.at = "work"]]
    BY <1>7 DEF Generate
  <2>2. call'[w].op = "generate" /\ call'[w].at = "work"
    BY <1>3, <2>1 DEF Builds
  <2>3. work'[w].at # "idle" /\ work'[w].request = Request(form[w])
    BY <1>4, <2>1
  <2>4. /\ shown' \in [Windows -> Requests \cup {None}] /\ shown'[w] = None
        /\ \A u \in Windows \ {w} : shown'[u] = shown[u]
    BY <2>1 DEF Typed, ResultsTyped
  <2>5. valid' \in [Windows -> Forms \cup {None}] /\ (valid[w] # None => Request(valid[w]) \in Requests)
    BY <2>1 DEF Typed, ResultsTyped, RequestOK
  <2>6. RequestOK(w)'
    BY <1>1, <2>1, <2>2, <2>3, <2>5 DEF RequestOK, Builds, Request
  <2> QED
    BY <2>1, <2>4, <2>5, <2>6 DEF ShownOK
<1>8. CASE ValidateEnds(w)
  <2>1. /\ call[w].op = "validate" /\ B!WorkReturns(w) /\ Ends(w) /\ shown' = shown
        /\ valid' = valid \/ valid' = [valid EXCEPT ![w] = form[w]]
    BY <1>8 DEF ValidateEnds
  <2>2. work'[w].at = "idle" /\ call'[w] = NoCall
    BY <1>5, <2>1
  <2>3. Request(form[w]) \in Requests /\ shown[w] = None
    BY <2>1 DEF RequestOK, ShownOK, BuildOK, Builds
  <2>4. /\ valid' \in [Windows -> Forms \cup {None}] /\ valid'[w] \in {valid[w], form[w]}
        /\ \A u \in Windows \ {w} : valid'[u] = valid[u]
    BY <1>1, <2>1 DEF Typed, ResultsTyped
  <2>5. valid'[w] # None => Request(valid'[w]) \in Requests
    BY <2>3, <2>4 DEF RequestOK
  <2>6. RequestOK(w)'
    BY <2>2, <2>5, Blanks DEF RequestOK, Builds, Request
  <2> QED
    BY <2>1, <2>3, <2>4, <2>6 DEF Typed, ResultsTyped, ShownOK
<1>9. CASE GenerateIsBlocked(w)
  <2>1. /\ Invalidated(w) /\ call' = call /\ work' = work
    BY <1>9 DEF GenerateIsBlocked, buildVars
  <2> QED
    BY <1>1, <1>2, <2>1 DEF RequestOK, ShownOK
<1>10. CASE GenerateEnds(w)
  <2>1. /\ call[w].op = "generate" /\ B!WorkReturns(w) /\ Ends(w) /\ valid' = valid
        /\ shown' = IF work[w].at = "published"
                    THEN [shown EXCEPT ![w] = work[w].request] ELSE shown
    BY <1>10 DEF GenerateEnds
  <2>2. work'[w].at = "idle" /\ call'[w] = NoCall /\ files' = files
    BY <1>5, <2>1
  <2>3. /\ work[w].request = Request(form[w]) /\ work[w].request \in Requests
        /\ work[w].at # "idle"
    BY <2>1 DEF RequestOK, BuildOK, Builds
  <2>4. /\ shown' \in [Windows -> Requests \cup {None}]
        /\ \A u \in Windows \ {w} : shown'[u] = shown[u]
    BY <2>1, <2>3 DEF Typed, ResultsTyped
  <2>5. RequestOK(w)'
    BY <2>1, <2>2, Blanks DEF RequestOK, Builds, Request
  <2>6. CASE work[w].at = "published"
    <3>1. shown'[w] = work[w].request
      BY <2>1, <2>6 DEF Typed, ResultsTyped
    <3>2. /\ files[work[w].request.json] = B!Proposal(w)
          /\ files[work[w].request.docx] = B!Proposal(w)
          /\ work[w].job.customer = work[w].request.customer
      BY <2>6 DEF BuildOK
    <3>3. /\ B!Proposal(w) \in Proposals /\ B!Proposal(w).by = w
          /\ B!Proposal(w).request = work[w].request /\ B!Proposal(w).job = work[w].job
      BY <1>1, <2>3, ProposalTyped DEF B!Proposal
    <3>4. call'[w].op \notin Builds
      BY <2>2, Blanks DEF Builds
    <3>5. ShownOK(w)'
      BY <1>1, <2>2, <2>3, <3>1, <3>2, <3>3, <3>4 DEF ShownOK, Request
    <3> QED
      BY <2>1, <2>4, <2>5, <3>5 DEF Typed, ResultsTyped
  <2>7. CASE work[w].at # "published"
    <3>1. shown[w] = None
      BY <2>1 DEF ShownOK, Builds
    <3> QED
      BY <2>1, <2>4, <2>5, <2>7, <3>1 DEF Typed, ResultsTyped, ShownOK
  <2> QED
    BY <2>6, <2>7
<1> QED
  BY <1>6, <1>7, <1>8, <1>9, <1>10 DEF ProposalStep

\* All windows, when one of them steps.
LEMMA WindowResults ==
  ASSUME DesktopInv, NEW p \in Windows, WindowStep(p), NEW w \in Windows
  PROVE  ResultsTyped' /\ RequestOK(w)' /\ ShownOK(w)'
<1> USE DEF DesktopInv
<1>1. /\ BuildMove(p) /\ p \in Builders /\ FilesKept(p) /\ BuildsTyped
      /\ \A q \in Builders \ {p} : work'[q] = work[q]
  BY WindowBuilds, BuildsKeep DEF Builders, Typed
<1>2. Moves(p)
  BY WindowStepMoves
<1>3. ResultsTyped' /\ \A u \in Windows \ {p} :
        valid'[u] \in {valid[u], None} /\ shown'[u] \in {shown[u], None}
  BY <1>1, RecordsStepsMove, DeathSteps, ProposalResults DEF WindowStep, ResultsKept, ResultsTyped
<1>4. CASE w # p
  <2>1. UNCHANGED <<call[w], form[w], work[w]>>
    BY <1>1, <1>2, <1>4 DEF Moves, Builders
  <2>2. ShownKept(w) /\ valid'[w] \in {valid[w], None}
    BY <1>3, <1>4, <2>1 DEF ShownKept
  <2> QED
    BY <1>1, <1>3, <1>4, <2>1, <2>2, ResultsStay
<1>5. CASE RecordsSteps(p) /\ w = p
  <2>1. StaysWithRecords(p) /\ call[p].at # "work" /\ call[p].op \notin Builds /\ ShownKept(p)
    BY <1>5, RecordsStay
  <2>2. work' = work /\ created[p] = {} /\ valid'[p] \in {valid[p], None}
    BY <1>1, <1>5, <2>1, RecordsStepsDoNotBuild, RecordsStepsMove
       DEF buildVars, BuildOK, RequestOK, ResultsKept
  <2>3. call'[p].op \notin Builds /\ call'[p].at # "work"
    BY <2>1 DEF StaysWithRecords
  <2> QED
    BY <1>1, <1>3, <1>5, <2>1, <2>2, <2>3, ResultsStay
<1>6. CASE ProposalStep(p) /\ w = p
  BY <1>1, <1>3, <1>6, ProposalResults
<1>7. CASE WindowDies(p) /\ w = p
  <2>1. ResultsKept /\ shown'[p] = None /\ call'[p] = NoCall
    BY <1>7, DeathSteps
  <2>2. valid'[p] \in {valid[p], None} /\ work'[p].at = "idle"
    BY <1>1, <1>7, <2>1, EndMoves DEF ResultsKept, WindowDies
  <2>3. RequestOK(p)' /\ ShownOK(p)'
    BY <2>1, <2>2, Blanks DEF RequestOK, ShownOK, Builds, Request
  <2> QED
    BY <1>3, <1>7, <2>3
<1> QED
  BY <1>4, <1>5, <1>6, <1>7 DEF WindowStep

\* And when another process does, or a window goes on with its build.
LEMMA OthersResults ==
  ASSUME DesktopInv, OtherStep, NEW w \in Windows
  PROVE  RequestOK(w)' /\ ShownOK(w)'
<1> USE DEF DesktopInv
<1>1. /\ UNCHANGED <<call[w], form[w], valid[w], shown[w]>> /\ ShownKept(w)
      /\ w \in Builders /\ BuildsTyped
  BY OthersWait DEF formVars, ShownKept, Builders, Typed
<1>2. ASSUME NEW p \in Builders, BuildMove(p), p # w
      PROVE  RequestOK(w)' /\ ShownOK(w)'
  <2>1. FilesKept(p) /\ work'[w] = work[w]
    BY <1>1, <1>2, BuildsKeep
  <2> QED
    BY <1>1, <1>2, <2>1, ResultsStay
<1>3. CASE RecordsAreRead(w) \/ BuildGoesOn(w)
  <2>1. /\ work[w].at # "idle" /\ work'[w].at # "idle"
        /\ work'[w].request = work[w].request
    BY <1>1, <1>3, BuilderSteps
  <2>2. call[w].op \in Builds /\ shown[w] = None
    BY <2>1 DEF RequestOK, ShownOK
  <2> QED
    BY <1>1, <2>1, <2>2 DEF RequestOK, ShownOK, Request
<1>4. ASSUME NEW p \in Builders, RecordsAreRead(p) \/ BuildGoesOn(p)
      PROVE  RequestOK(w)' /\ ShownOK(w)'
  BY <1>2, <1>3, <1>4, BuilderSteps
<1>5. ASSUME NEW p \in Commands,
             (\E f \in CommandForms : CommandStarts(p, Request(f))) \/ CommandDies(p)
      PROVE  RequestOK(w)' /\ ShownOK(w)'
  BY <1>2, <1>5, CommandSteps, ActorsAssumption DEF Builders
<1>6. CASE ImportStep
  BY <1>1, <1>6, ImportDoesNotBuild DEF RequestOK, ShownOK, Request, buildVars
<1> QED
  BY <1>4, <1>5, <1>6 DEF OtherStep

-----------------------------------------------------------------------------
(***************************************************************************)
(* The invariant, and what it says of the properties.                      *)
(***************************************************************************)

LEMMA DesktopInvInit == Init => DesktopInv
<1> SUFFICES ASSUME Init PROVE DesktopInv
  OBVIOUS
<1> USE DEF Init
<1>1. ASSUME NEW w \in Windows
      PROVE  form[w] \in Forms /\ form[w].customer = None /\ form[w].job = None
  <2>1. PICK f \in Forms : form[w] = Unselected(f)
    BY DEF NewForms
  <2> QED
    BY <2>1, UnselectedForm
<1>2. RecordsTyped /\ FileOK
  BY FirstRowsAssumption DEF RecordsTyped, FileOK, R!RecordsInit
<1>3. WindowsTyped /\ ResultsTyped
  BY <1>1, Blanks DEF WindowsTyped, ResultsTyped, SeenRecords, NewForms
<1>4. B!Resting \in Works
  BY DEF B!Resting, Works
<1>5. BuildsTyped
  BY <1>4 DEF BuildsTyped, B!BuildInit, Builders
<1>6. ASSUME NEW w \in Windows
      PROVE  WindowOK(w) /\ TransactionOK(w) /\ RequestOK(w) /\ ShownOK(w)
  <2>1. call[w] = NoCall /\ valid[w] = None /\ shown[w] = None /\ NothingSelected(w)
    BY <1>1 DEF NothingSelected
  <2>2. work[w].at = "idle"
    BY DEF B!BuildInit, B!Resting, Builders
  <2>3. SelectionOK(w)
    BY <2>1, NothingIsOK
  <2> QED
    BY <2>1, <2>2, <2>3, Blanks DEF WindowOK, ReadingOK, DraftOK, WritingOK, TransactionOK,
       RequestOK, ShownOK, Builds
<1>7. ASSUME NEW p \in Builders PROVE BuildOK(p)
  BY DEF BuildOK, B!BuildInit, B!Resting, Builders
<1> QED
  BY <1>2, <1>3, <1>5, <1>6, <1>7 DEF DesktopInv, Typed

LEMMA DesktopInvNext == DesktopInv /\ [Next]_vars => DesktopInv'
<1> SUFFICES ASSUME DesktopInv, [Next]_vars PROVE DesktopInv'
  OBVIOUS
<1>1. /\ Typed /\ FileOK /\ \A p \in Builders : BuildOK(p)
      /\ \A w \in Windows : WindowOK(w) /\ TransactionOK(w) /\ RequestOK(w) /\ ShownOK(w)
  BY DEF DesktopInv
<1>2. RecordsTyped' /\ FileOK'
  BY <1>1, RecordsKeepOK
<1>3. BuildsTyped' /\ \A p \in Builders : BuildOK(p)'
  BY <1>1, BuildsKeepOK
<1>4. WindowsTyped' /\ ResultsTyped'
  <2>1. CASE Windows = {}
    <3>1. UNCHANGED <<formVars, call>>
      BY <2>1, NextSteps, OthersWait DEF vars
    <3> QED
      BY <1>1, <3>1 DEF Typed, WindowsTyped, ResultsTyped, formVars
  <2>2. ASSUME NEW w \in Windows PROVE WindowsTyped'
    BY <1>1, <2>2, WindowsKeepOK
  <2>3. ASSUME NEW w \in Windows, WindowStep(w) PROVE ResultsTyped'
    BY <2>3, WindowResults
  <2>4. ASSUME UNCHANGED formVars PROVE ResultsTyped'
    <3>1. valid' = valid /\ shown' = shown
      BY <2>4 DEF formVars
    <3> QED
      BY <1>1, <3>1 DEF Typed, ResultsTyped
  <2> QED
    BY <2>1, <2>2, <2>3, <2>4, NextSteps, OthersWait DEF vars
<1>5. ASSUME NEW w \in Windows PROVE WindowOK(w)' /\ TransactionOK(w)'
  BY <1>1, <1>5, WindowsKeepOK, TransactionsKeepOK
<1>6. ASSUME NEW w \in Windows PROVE RequestOK(w)' /\ ShownOK(w)'
  <2>1. CASE UNCHANGED vars
    <3>1. UNCHANGED <<work, files, form, valid, shown, call>>
      BY <2>1 DEF vars, buildVars, formVars
    <3> QED
      BY <1>1, <3>1 DEF RequestOK, ShownOK, Request
  <2> QED
    BY <2>1, WindowResults, OthersResults, NextSteps
<1> QED
  BY <1>2, <1>3, <1>4, <1>5, <1>6 DEF DesktopInv, Typed

LEMMA DesktopInvHolds == Spec => []DesktopInv
BY DesktopInvInit, DesktopInvNext, PTL DEF Spec

-----------------------------------------------------------------------------
(* The edit fields belong to what is selected, and what is selected is     *)
(* loaded, in every window at every moment.                                *)
THEOREM EditsBelongToTheSelection == Spec => []EditsAreOfTheSelection
<1>1. DesktopInv => EditsAreOfTheSelection
  BY DEF DesktopInv, WindowOK, SelectionOK, EditsAreOfTheSelection
<1> QED
  BY <1>1, DesktopInvHolds, PTL

(* What a window shows as generated is what its fields say, published in   *)
(* two whole files of this window from records that belong together.       *)
THEOREM ResultsAreOfTheForm == Spec => []ResultIsOfTheForm
<1>1. DesktopInv => ResultIsOfTheForm
  BY FormsAssumption DEF DesktopInv, ShownOK, ResultIsOfTheForm
<1> QED
  BY <1>1, DesktopInvHolds, PTL

LEMMA WritesReplaceWhatWasShown ==
  ASSUME DesktopInv, NEW w \in Windows, FlushPages(w)
  PROVE  /\ rows = journal /\ rows \in R!Rows /\ rows' = Makes(w, rows) /\ MayWrite(w, rows)
         /\ WritingOK(w) /\ call[w].at = "writing" /\ edit[w] \in Edits
<1>1. call[w].at = "writing" /\ R!Holds(w) /\ rows # tx.makes /\ rows' = tx.makes
  BY DEF FlushPages, InCall, R!Flush
<1>2. rows = journal /\ rows \in R!Rows
  BY <1>1 DEF DesktopInv, FileOK, R!Holds, Typed, RecordsTyped
<1>3. tx.makes = Makes(w, journal) /\ MayWrite(w, journal)
  BY <1>1 DEF DesktopInv, TransactionOK
<1>4. edit[w] \in Edits
  BY DEF DesktopInv, Typed, WindowsTyped
<1> QED
  BY <1>1, <1>2, <1>3, <1>4 DEF DesktopInv, WindowOK

(* An update replaces only the record that its edit fields show, as they   *)
(* showed it, whatever other windows and the importer wrote meanwhile.     *)
THEOREM NoUpdateIsLost == Spec => NoLostUpdate
<1>1. ASSUME DesktopInv, NEW w \in Windows, call[w].op = "update customer", FlushPages(w),
             NEW c \in Customers, rows'.customer[c] # rows.customer[c]
      PROVE  edit[w].customer = [id |-> c, original |-> rows.customer[c]]
  <2>1. /\ rows \in R!Rows /\ rows' = Makes(w, rows) /\ MayWrite(w, rows)
        /\ WritingOK(w) /\ call[w].at = "writing" /\ edit[w] \in Edits
    BY <1>1, WritesReplaceWhatWasShown
  <2>2. call[w].customer \in Customers /\ rows' = R!WithCustomer(rows, call[w].customer, call[w].makes)
    BY <1>1, <2>1 DEF Makes, WritingOK, CustomerWrites
  <2>3. call[w].customer = c
    BY <1>1, <2>1, <2>2 DEF R!WithCustomer, R!Rows
  <2>4. rows.customer[c] = edit[w].customer.original
    BY <1>1, <2>1, <2>3 DEF MayWrite, R!MayUpdateCustomer
  <2>5. edit[w].customer # None /\ edit[w].customer.id = c
    BY <1>1, <2>1, <2>3 DEF WritingOK
  <2>6. edit[w].customer \in [id : Customers, original : Values \cup {None}]
    BY <2>1, <2>5 DEF Edits
  <2> QED
    BY <2>4, <2>5, <2>6
<1>2. ASSUME DesktopInv, NEW w \in Windows, call[w].op = "update job", FlushPages(w),
             NEW j \in Jobs, rows'.job[j] # rows.job[j]
      PROVE  edit[w].job = [id |-> j, original |-> rows.job[j]]
  <2>1. /\ rows \in R!Rows /\ rows' = Makes(w, rows) /\ MayWrite(w, rows)
        /\ WritingOK(w) /\ call[w].at = "writing" /\ edit[w] \in Edits
    BY <1>2, WritesReplaceWhatWasShown
  <2>2. call[w].job \in Jobs /\ rows' = R!WithJob(rows, call[w].job, call[w].makes)
    BY <1>2, <2>1 DEF Makes, WritingOK, JobWrites
  <2>3. call[w].job = j
    BY <1>2, <2>1, <2>2 DEF R!WithJob, R!Rows
  <2>4. rows.job[j] = edit[w].job.original
    BY <1>2, <2>1, <2>3 DEF MayWrite, R!MayUpdateJob
  <2>5. edit[w].job # None /\ edit[w].job.id = j
    BY <1>2, <2>1, <2>3 DEF WritingOK
  <2>6. edit[w].job \in [id : Jobs, original : R!JobRows \cup {None}]
    BY <2>1, <2>5 DEF Edits
  <2> QED
    BY <2>4, <2>5, <2>6
<1>3. DesktopInv => \A w \in Windows :
        /\ call[w].op = "update customer" /\ FlushPages(w) =>
             \A c \in Customers : rows'.customer[c] # rows.customer[c] =>
               edit[w].customer = [id |-> c, original |-> rows.customer[c]]
        /\ call[w].op = "update job" /\ FlushPages(w) =>
             \A j \in Jobs : rows'.job[j] # rows.job[j] =>
               edit[w].job = [id |-> j, original |-> rows.job[j]]
  BY <1>1, <1>2
<1> QED
  BY <1>3, DesktopInvHolds, PTL DEF NoLostUpdate

(* An output file is removed only by the build that created it, before it  *)
(* has answered, and never replaced.                                       *)
THEOREM OutputsStay == Spec => OutputsAreKept
<1>1. ASSUME DesktopInv, [Next]_vars, NEW f \in OutputFiles,
             files[f] # None, files'[f] # files[f]
      PROVE  LET w == files[f].by IN
             f \in created[w] /\ files'[f] = None /\ files[f] = B!Proposal(w)
  <2>1. /\ Typed /\ \A p \in Builders : BuildOK(p)
        /\ \A w \in Windows : RequestOK(w)
    BY <1>1 DEF DesktopInv
  <2>2. PICK p \in Builders : BuildMove(p)
    BY <1>1, <2>1, NextBuilds DEF buildVars
  <2>3. FilesKept(p)
    BY <2>1, <2>2, BuildsKeep DEF Typed
  <2>4. f \in created[p] /\ files[f] = B!Proposal(p) /\ files'[f] = None
    BY <1>1, <2>3 DEF FilesKept
  <2>5. files[f].by = p
    BY <2>4 DEF B!Proposal
  <2> QED
    BY <2>4, <2>5
<1>2. DesktopInv /\ [Next]_vars => \A f \in OutputFiles :
        files[f] # None /\ files'[f] # files[f] =>
          LET w == files[f].by IN
          /\ f \in created[w]
          /\ files'[f] = None
          /\ files[f] = B!Proposal(w)
  BY <1>1
<1> QED
  BY <1>2, DesktopInvHolds, PTL DEF OutputsAreKept, Spec
===============================================================================
