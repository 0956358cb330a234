--------------------------- MODULE ProposalDesktop ---------------------------
(***************************************************************************)
(* The proposal desktop (proposal_desktop.py): windows, each a process of  *)
(* its own with one thread, that share a records file, a folder for the    *)
(* proposals and a draft, among each other and with the commands of        *)
(* cli.py: `records import', which upserts records, and `records proposal  *)
(* build', which builds one proposal.                                      *)
(*                                                                         *)
(* A handler of a window is a call: it changes the form at once, and is    *)
(* interrupted by the other processes wherever it reads or writes a file.  *)
(* The records are RecordsStore's, the validation and the build of a       *)
(* proposal are ProposalBuild's.  All text fields and scope items that do  *)
(* not select a record or a file are `details'.  A draft is created in a   *)
(* file that must not exist and never changes after that, so the drafts    *)
(* that can be opened are given; a partial one is not parsed.              *)
(***************************************************************************)
EXTENDS Integers, FiniteSets

CONSTANTS
  Windows,
  Importer,  \* the command that imports records
  Commands,  \* the commands that build a proposal
  Customers, Jobs, Values, FirstRows, Details,
  CommandForms, \* the requests that the commands make, as forms
  Drafts,    \* the forms that are saved as drafts
  Pairs,     \* the pairs of output files that are chosen in a window
  None,
  Budgets    \* bounds on the transactions, the deaths and the commands

VARIABLES
  rows, journal, tx,
  files, created, work,
  form,   \* state: what the fields of each window select
  seen,   \* _customers and _jobs: the records that a window has loaded
  edit,   \* the records that its edit fields were filled from
  valid,  \* _validated_request and _validated_snapshot
  shown,  \* _build_result
  call,   \* the handler that runs in each window
  budget  \* what is left of the bounds

OutputFiles ==
  LET pairs == Pairs \cup {f.out : f \in CommandForms} IN
  {pair.json : pair \in pairs} \cup {pair.docx : pair \in pairs}

R == INSTANCE RecordsStore WITH Writers <- Windows \cup {Importer}, Absent <- None

B == INSTANCE ProposalBuild WITH Builders <- Windows \cup Commands, 
                                 Files <- OutputFiles, Missing <- None

ASSUME FirstRowsAssumption == FirstRows \subseteq R!Rows

(* Each of them is a process of its own.                                   *)
ASSUME ActorsAssumption ==
  Importer \notin Windows /\ Windows \cap Commands = {}

recordsVars == <<rows, journal, tx>>
buildVars == <<files, created, work>>
formVars == <<form, seen, edit, valid, shown>>
vars == <<recordsVars, buildVars, formVars, call, budget>>

NoRecords == [customers |-> [c \in Customers |-> None],
              jobs |-> [j \in Jobs |-> None]]

NoEdit == [customer |-> None, job |-> None]

NoCall == [op |-> "none", at |-> "idle", customer |-> None, job |-> None,
           makes |-> None, draft |-> None]

(* A form: whether it names the records file, and what it selects.         *)
Forms == [chosen : BOOLEAN, customer : Customers \cup {None},
          job : Jobs \cup {None}, details : Details, out : Pairs]

Unselected(f) == [f EXCEPT !.customer = None, !.job = None]

(* What is built, and what is known of it when it is published.            *)
Requests == [customer : Customers, job : Jobs, details : Details,
             json : OutputFiles, docx : OutputFiles]

Proposals == [by : Windows \cup Commands, request : Requests,
              customer : Values \cup {None}, job : R!JobRows \cup {None}]

ASSUME FormsAssumption ==
  /\ Drafts \subseteq Forms
  /\ \A f \in CommandForms :
       f.customer \in Customers /\ f.job \in Jobs /\ f.details \in Details
  /\ None \notin Proposals

(* A new window has the paths of the workspace preferences.                *)
NewForms == {Unselected(f) : f \in Forms}

Init ==
  /\ R!RecordsInit
  /\ B!BuildInit
  /\ form \in [Windows -> NewForms]
  /\ seen = [w \in Windows |-> NoRecords]
  /\ edit = [w \in Windows |-> NoEdit]
  /\ valid = [w \in Windows |-> None]
  /\ shown = [w \in Windows |-> None]
  /\ call = [w \in Windows |-> NoCall]
  /\ budget \in Budgets

Spends(what) ==
  /\ budget[what] > 0
  /\ budget' = [budget EXCEPT ![what] = @ - 1]

-----------------------------------------------------------------------------
(* Parts of the handlers.                                                  *)

Idle(w) == call[w].at = "idle"

InCall(w, where) == call[w].at = where

CallGoesTo(w, where) == call' = [call EXCEPT ![w].at = where]

Ends(w) == call' = [call EXCEPT ![w] = NoCall]

(* _invalidate_validation.                                                 *)
Invalidated(w) ==
  /\ valid' = [valid EXCEPT ![w] = None]
  /\ shown' = [shown EXCEPT ![w] = None]

(* The fields change to f; nothing that was validated or built is kept.    *)
FormBecomes(w, f) ==
  /\ form' = [form EXCEPT ![w] = f]
  /\ Invalidated(w)

(* The start of load_customers.                                            *)
BeginLoad(w, newCall) ==
  /\ seen' = [seen EXCEPT ![w] = NoRecords]
  /\ edit' = [edit EXCEPT ![w] = NoEdit]
  /\ FormBecomes(w, Unselected(form[w]))
  /\ call' = [call EXCEPT ![w] = [newCall EXCEPT !.at = "look customers"]]

(* Plausible bug: the job's edit fields keep the record.                   *)
BeginSelectKeepingJob(w, c, newCall) ==
  /\ seen' = [seen EXCEPT ![w].jobs = NoRecords.jobs]
  /\ edit' = [edit EXCEPT ![w].customer = None]
  /\ FormBecomes(w, Unselected(form[w]))
  /\ call' = [call EXCEPT ![w] =
       IF c # None /\ seen[w].customers[c] # None
       THEN [newCall EXCEPT !.at = "look jobs", !.customer = c] ELSE NoCall]

(* The start of select_customer; one that is not loaded is refused.        *)
BeginSelect(w, c, newCall) ==
  /\ seen' = [seen EXCEPT ![w].jobs = NoRecords.jobs]
  /\ edit' = [edit EXCEPT ![w] = NoEdit]
  /\ FormBecomes(w, Unselected(form[w]))
  /\ call' = [call EXCEPT ![w] =
       IF c # None /\ seen[w].customers[c] # None
       THEN [newCall EXCEPT !.at = "look jobs", !.customer = c] ELSE NoCall]

(* The look of a read-only repository for sidecar files.                   *)
Look(w, what, found) ==
  /\ InCall(w, what)
  /\ IF (form[w].chosen \/ call[w].op = "open draft") /\ R!SidecarFree
     THEN CallGoesTo(w, found) ELSE Ends(w)
  /\ UNCHANGED <<recordsVars, buildVars, formVars, budget>>

-----------------------------------------------------------------------------
(* Reading records.                                                        *)

LoadCustomers(w) ==
  /\ Idle(w)
  /\ BeginLoad(w, [NoCall EXCEPT !.op = "load"])
  /\ UNCHANGED <<recordsVars, buildVars, budget>>

LookForCustomers(w) == Look(w, "look customers", "customers")

(* list_customers; after an update the customer is selected again.         *)
CustomersAreRead(w) ==
  /\ InCall(w, "customers")
  /\ call[w].op # "open draft"
  /\ seen' = [seen EXCEPT ![w].customers = rows.customer]
  /\ IF call[w].op = "update customer" /\ rows.customer[call[w].customer] # None
     THEN CallGoesTo(w, "look jobs") ELSE Ends(w)
  /\ UNCHANGED <<recordsVars, buildVars, form, edit, valid, shown, budget>>

SelectCustomer(w, c) ==
  /\ Idle(w)
  /\ BeginSelect(w, c, [NoCall EXCEPT !.op = "select"])
  /\ UNCHANGED <<recordsVars, buildVars, budget>>

LookForJobs(w) == Look(w, "look jobs", "jobs")

(* select_job: the job is one of those that are loaded.                    *)
Selectable(jobs, j, c) == j # None /\ jobs[j] # None /\ jobs[j].customer = c

(* list_jobs_for_customer, the end of select_customer, and after an update *)
(* of a job select_job.                                                    *)
JobsAreRead(w) ==
  LET c == call[w].customer
      jobs == R!JobsForCustomer(rows, c)
      j == IF call[w].op = "update job" /\ Selectable(jobs, call[w].job, c)
           THEN call[w].job ELSE None IN
  /\ InCall(w, "jobs")
  /\ call[w].op # "open draft"
  /\ seen' = [seen EXCEPT ![w].jobs = jobs]
  /\ FormBecomes(w, [form[w] EXCEPT !.customer = c, !.job = j])
  /\ edit' = [edit EXCEPT ![w] =
       [customer |-> [id |-> c, original |-> seen[w].customers[c]],
        job |-> IF j = None THEN None ELSE [id |-> j, original |-> jobs[j]]]]
  /\ Ends(w)
  /\ UNCHANGED <<recordsVars, buildVars, budget>>

SelectJob(w, j) ==
  LET jobs == seen[w].jobs
      k == IF Selectable(jobs, j, form[w].customer) THEN j ELSE None IN
  /\ Idle(w)
  /\ FormBecomes(w, [form[w] EXCEPT !.job = k])
  /\ edit' = [edit EXCEPT ![w].job =
                IF k = None THEN None ELSE [id |-> k, original |-> jobs[k]]]
  /\ UNCHANGED <<recordsVars, buildVars, seen, call, budget>>

-----------------------------------------------------------------------------
(* Writing records.                                                        *)

CreateCustomer(w, c, v) ==
  /\ Idle(w)
  /\ form[w].chosen
  /\ call' = [call EXCEPT ![w] =
       [NoCall EXCEPT !.op = "create customer", !.at = "write",
          !.customer = c, !.makes = v]]
  /\ UNCHANGED <<recordsVars, buildVars, formVars, budget>>

(* What was validated before is not kept, whatever becomes of the update.  *)
UpdateCustomer(w, v) ==
  LET c == form[w].customer IN
  /\ Idle(w)
  /\ form[w].chosen
  /\ c # None
  /\ edit[w].customer # None
  /\ edit[w].customer.id = c
  /\ seen[w].customers[c] # None
  /\ v # edit[w].customer.original
  /\ Invalidated(w)
  /\ call' = [call EXCEPT ![w] =
       [NoCall EXCEPT !.op = "update customer", !.at = "write",
          !.customer = c, !.makes = v]]
  /\ UNCHANGED <<recordsVars, buildVars, form, seen, edit, budget>>

CreateJob(w, j, v) ==
  LET c == form[w].customer IN
  /\ Idle(w)
  /\ form[w].chosen
  /\ c # None
  /\ seen[w].customers[c] # None
  /\ call' = [call EXCEPT ![w] =
       [NoCall EXCEPT !.op = "create job", !.at = "look owner",
          !.customer = c, !.job = j,
          !.makes = [customer |-> c, says |-> v]]]
  /\ UNCHANGED <<recordsVars, buildVars, formVars, budget>>

UpdateJob(w, v) ==
  LET c == form[w].customer
      j == form[w].job IN
  /\ Idle(w)
  /\ form[w].chosen
  /\ edit[w].job # None
  /\ c # None /\ seen[w].customers[c] # None
  /\ Selectable(seen[w].jobs, j, c)
  /\ edit[w].job.id = j /\ edit[w].job.original.customer = c
  /\ v # edit[w].job.original.says
  /\ Invalidated(w)
  /\ call' = [call EXCEPT ![w] =
       [NoCall EXCEPT !.op = "update job", !.at = "look owner",
          !.customer = c, !.job = j,
          !.makes = [customer |-> c, says |-> v]]]
  /\ UNCHANGED <<recordsVars, buildVars, form, seen, edit, budget>>

LookForOwner(w) == Look(w, "look owner", "owner")

(* The customer of the job must still be there.                            *)
OwnerIsRead(w) ==
  /\ InCall(w, "owner")
  /\ IF rows.customer[call[w].customer] # None
     THEN CallGoesTo(w, "write") ELSE Ends(w)
  /\ UNCHANGED <<recordsVars, buildVars, formVars, budget>>

(* The rows that the transaction of a call makes of r.                     *)
Makes(w, r) ==
  IF call[w].op \in {"create customer", "update customer"}
  THEN R!WithCustomer(r, call[w].customer, call[w].makes)
  ELSE R!WithJob(r, call[w].job, call[w].makes)

(* Plausible bug: a row is updated if only it is there.                    *)
MayWriteIfThere(w, r) ==
  CASE call[w].op = "create customer" -> R!MayCreateCustomer(r, call[w].customer)
    [] call[w].op = "create job" -> R!MayCreateJob(r, call[w].job)
    [] call[w].op = "update customer" -> r.customer[call[w].customer] # None
    [] call[w].op = "update job" -> r.job[call[w].job] # None

(* Whether the transaction of a call accepts the rows that it finds.       *)
MayWrite(w, r) ==
  CASE call[w].op = "create customer" -> R!MayCreateCustomer(r, call[w].customer)
    [] call[w].op = "create job" -> R!MayCreateJob(r, call[w].job)
    [] call[w].op = "update customer" ->
         R!MayUpdateCustomer(r, call[w].customer, edit[w].customer.original)
    [] call[w].op = "update job" ->
         R!MayUpdateJob(r, call[w].job, edit[w].job.original)

BeginWrite(w) ==
  /\ InCall(w, "write")
  /\ MayWrite(w, R!Recovered)
  /\ R!Begin(w, Makes(w, R!Recovered))
  /\ CallGoesTo(w, "writing")
  /\ Spends("writes")
  /\ UNCHANGED <<buildVars, formVars>>

(* A conflict, a record that is missing or exists: the form stays.         *)
WriteIsRefused(w) ==
  /\ InCall(w, "write")
  /\ \/ ~MayWrite(w, R!Recovered) /\ R!Refuse
     \/ R!Busy(w) /\ UNCHANGED recordsVars
  /\ Ends(w)
  /\ UNCHANGED <<buildVars, formVars, budget>>

FlushPages(w) ==
  /\ InCall(w, "writing")
  /\ R!Flush(w)
  /\ UNCHANGED <<buildVars, formVars, call, budget>>

WriteFails(w) ==
  /\ InCall(w, "writing")
  /\ R!RollBack(w)
  /\ Ends(w)
  /\ UNCHANGED <<buildVars, formVars, budget>>

(* The commit of a customer, after which the customers are loaded again.   *)
CustomerIsWritten(w) ==
  /\ InCall(w, "writing")
  /\ call[w].op \in {"create customer", "update customer"}
  /\ R!Commit(w)
  /\ BeginLoad(w, call[w])
  /\ UNCHANGED <<buildVars, budget>>

(* The commit of a job, after which its customer is selected again.        *)
JobIsWritten(w) ==
  /\ InCall(w, "writing")
  /\ call[w].op \in {"create job", "update job"}
  /\ R!Commit(w)
  /\ BeginSelect(w, call[w].customer, call[w])
  /\ UNCHANGED <<buildVars, budget>>

(* save_customer and save_job upsert one record in a transaction.          *)
Import(r) ==
  /\ r # R!Recovered
  /\ R!Begin(Importer, r)
  /\ Spends("writes")
  /\ UNCHANGED <<buildVars, formVars, call>>

ImportCustomer(c, v) == Import(R!WithCustomer(R!Recovered, c, v))

ImportJob(j, row) == Import(R!WithJob(R!Recovered, j, row))

ImporterGoesOn ==
  /\ R!Flush(Importer) \/ R!Commit(Importer) \/ R!RollBack(Importer)
  /\ UNCHANGED <<buildVars, formVars, call, budget>>

ImporterDies ==
  /\ R!Holds(Importer)
  /\ Spends("deaths")
  /\ R!WriterDies(Importer)
  /\ UNCHANGED <<buildVars, formVars, call>>

-----------------------------------------------------------------------------
(* Fields and drafts.                                                      *)

(* set_text_field with the database path: what was loaded is dropped.      *)
ChooseDatabase(w) ==
  /\ Idle(w)
  /\ FormBecomes(w, [Unselected(form[w]) EXCEPT !.chosen = ~form[w].chosen])
  /\ seen' = [seen EXCEPT ![w] = NoRecords]
  /\ edit' = [edit EXCEPT ![w] = NoEdit]
  /\ UNCHANGED <<recordsVars, buildVars, call, budget>>

(* Any other text field, a scope item, or the starting-at mark.            *)
SetDetails(w, d) ==
  /\ Idle(w)
  /\ d # form[w].details
  /\ FormBecomes(w, [form[w] EXCEPT !.details = d])
  /\ UNCHANGED <<recordsVars, buildVars, seen, edit, call, budget>>

(* propose_output_paths, select_docx_output_path, or typing a path; only   *)
(* the dialog refuses a file that exists.                                  *)
SelectOutput(w, pair) ==
  /\ Idle(w)
  /\ FormBecomes(w, [form[w] EXCEPT !.out = pair])
  /\ UNCHANGED <<recordsVars, buildVars, seen, edit, call, budget>>

(* The draft is parsed; with a records file its records are read first.  A *)
(* job without a customer is refused.                                      *)
OpenDraft(w, f) ==
  /\ Idle(w)
  /\ f.chosen
  /\ f.job # None => f.customer # None
  /\ call' = [call EXCEPT ![w] =
       [NoCall EXCEPT !.op = "open draft", !.at = "look customers", !.draft = f]]
  /\ UNCHANGED <<recordsVars, buildVars, formVars, budget>>

(* A draft without a records file selects nothing, or is refused.          *)
OpenBareDraft(w, f) ==
  /\ Idle(w)
  /\ ~f.chosen
  /\ f.customer = None /\ f.job = None
  /\ FormBecomes(w, f)
  /\ seen' = [seen EXCEPT ![w] = NoRecords]
  /\ edit' = [edit EXCEPT ![w] = NoEdit]
  /\ UNCHANGED <<recordsVars, buildVars, call, budget>>

(* The form changes only when the records of the draft are resolved; the   *)
(* records that it selects are not taken into the edit fields.             *)
SwapIn(w, customers, jobs) ==
  /\ FormBecomes(w, call[w].draft)
  /\ seen' = [seen EXCEPT ![w] = [customers |-> customers, jobs |-> jobs]]
  /\ edit' = [edit EXCEPT ![w] = NoEdit]
  /\ Ends(w)

DraftCustomersAreRead(w) ==
  LET c == call[w].draft.customer IN
  /\ InCall(w, "customers")
  /\ call[w].op = "open draft"
  /\ \/ /\ c = None
        /\ SwapIn(w, rows.customer, NoRecords.jobs)
     \/ /\ c # None
        /\ IF rows.customer[c] # None
           THEN call' = [call EXCEPT ![w].at = "look jobs", ![w].makes = rows.customer]
           ELSE Ends(w)
        /\ UNCHANGED formVars
  /\ UNCHANGED <<recordsVars, buildVars, budget>>

DraftJobsAreRead(w) ==
  LET c == call[w].draft.customer
      j == call[w].draft.job
      jobs == R!JobsForCustomer(rows, c) IN
  /\ InCall(w, "jobs")
  /\ call[w].op = "open draft"
  /\ IF j = None \/ Selectable(jobs, j, c)
     THEN SwapIn(w, call[w].makes, jobs)
     ELSE Ends(w) /\ UNCHANGED formVars
  /\ UNCHANGED <<recordsVars, buildVars, budget>>

-----------------------------------------------------------------------------
(* Validating and generating.                                              *)

Request(f) ==
  [customer |-> f.customer, job |-> f.job, details |-> f.details,
   json |-> f.out.json, docx |-> f.out.docx]

(* create_request takes the records that are loaded.                       *)
Validate(w) ==
  LET f == form[w] IN
  /\ Idle(w)
  /\ f.chosen
  /\ f.customer # None /\ seen[w].customers[f.customer] # None
  /\ Selectable(seen[w].jobs, f.job, f.customer)
  /\ Invalidated(w)
  /\ B!Start(w, Request(f), FALSE)
  /\ call' = [call EXCEPT ![w] = [NoCall EXCEPT !.op = "validate", !.at = "work"]]
  /\ UNCHANGED <<recordsVars, form, seen, edit, budget>>

(* The paths may resolve to other places than before.                      *)
ValidateEnds(w) ==
  /\ call[w].op = "validate"
  /\ valid' \in {valid} \cup
       (IF work[w].at = "passed" THEN {[valid EXCEPT ![w] = form[w]]} ELSE {})
  /\ B!WorkReturns(w)
  /\ Ends(w)
  /\ UNCHANGED <<recordsVars, form, seen, edit, shown, budget>>

(* The build is of the request that was validated, while it is the form's. *)
Generate(w) ==
  /\ Idle(w)
  /\ valid[w] # None
  /\ valid[w] = form[w]
  /\ shown' = [shown EXCEPT ![w] = None]
  /\ B!Start(w, Request(valid[w]), TRUE)
  /\ call' = [call EXCEPT ![w] = [NoCall EXCEPT !.op = "generate", !.at = "work"]]
  /\ UNCHANGED <<recordsVars, form, seen, edit, valid, budget>>

(* A path resolves to another place than when it was validated.            *)
GenerateIsBlocked(w) ==
  /\ Idle(w)
  /\ valid[w] # None
  /\ Invalidated(w)
  /\ UNCHANGED <<recordsVars, buildVars, form, seen, edit, call, budget>>

GenerateEnds(w) ==
  /\ call[w].op = "generate"
  /\ shown' = IF work[w].at = "published"
              THEN [shown EXCEPT ![w] = work[w].request] ELSE shown
  /\ B!WorkReturns(w)
  /\ Ends(w)
  /\ UNCHANGED <<recordsVars, form, seen, edit, valid, budget>>

(* The reads of a validation or a build.                                   *)
RecordsAreRead(w) ==
  LET request == work[w].request IN
  /\ \/ B!LookForCustomer(w, R!SidecarFree)
     \/ B!LookForJob(w, R!SidecarFree)
     \/ B!At(w, "customer") /\ B!ReadCustomer(w, R!CustomerOf(rows, request.customer))
     \/ B!At(w, "job") /\ B!ReadJob(w, R!JobOf(rows, request.job))
  /\ UNCHANGED <<recordsVars, formVars, call, budget>>

BuildGoesOn(w) ==
  /\ B!BuildStep(w)
  /\ UNCHANGED <<recordsVars, formVars, call, budget>>

(* build_record_proposal: the request is that of the arguments.            *)
CommandStarts(p, request) ==
  /\ Spends("commands")
  /\ B!Start(p, request, TRUE)
  /\ UNCHANGED <<recordsVars, formVars, call>>

CommandDies(p) ==
  /\ work[p].at \in B!Running
  /\ Spends("deaths")
  /\ B!BuilderDies(p)
  /\ UNCHANGED <<recordsVars, formVars, call>>

(* A window dies, and another one is opened in its place.                  *)
WindowDies(w) ==
  /\ Spends("deaths")
  /\ R!WriterDies(w)
  /\ B!BuilderDies(w)
  /\ FormBecomes(w, Unselected(form[w]))
  /\ seen' = [seen EXCEPT ![w] = NoRecords]
  /\ edit' = [edit EXCEPT ![w] = NoEdit]
  /\ Ends(w)

-----------------------------------------------------------------------------
ReadStep(w) ==
  \/ LoadCustomers(w)
  \/ LookForCustomers(w)
  \/ CustomersAreRead(w)
  \/ \E c \in Customers \cup {None} : SelectCustomer(w, c)
  \/ LookForJobs(w)
  \/ JobsAreRead(w)
  \/ \E j \in Jobs \cup {None} : SelectJob(w, j)

WriteStep(w) ==
  \/ \E c \in Customers, v \in Values : CreateCustomer(w, c, v)
  \/ \E v \in Values : UpdateCustomer(w, v)
  \/ \E j \in Jobs, v \in Values : CreateJob(w, j, v)
  \/ \E v \in Values : UpdateJob(w, v)
  \/ LookForOwner(w)
  \/ OwnerIsRead(w)
  \/ BeginWrite(w)
  \/ WriteIsRefused(w)
  \/ FlushPages(w)
  \/ WriteFails(w)
  \/ CustomerIsWritten(w)
  \/ JobIsWritten(w)

FieldStep(w) ==
  \/ ChooseDatabase(w)
  \/ \E d \in Details : SetDetails(w, d)
  \/ \E pair \in Pairs : SelectOutput(w, pair)
  \/ \E f \in Drafts : OpenDraft(w, f) \/ OpenBareDraft(w, f)
  \/ DraftCustomersAreRead(w)
  \/ DraftJobsAreRead(w)

ProposalStep(w) ==
  \/ Validate(w)
  \/ ValidateEnds(w)
  \/ Generate(w)
  \/ GenerateIsBlocked(w)
  \/ GenerateEnds(w)

ImportStep ==
  \/ \E c \in Customers, v \in Values : ImportCustomer(c, v)
  \/ \E j \in Jobs, row \in R!JobRows : ImportJob(j, row)
  \/ ImporterGoesOn
  \/ ImporterDies

Next ==
  \/ \E w \in Windows :
       ReadStep(w) \/ WriteStep(w) \/ FieldStep(w) \/ ProposalStep(w) \/ WindowDies(w)
  \/ \E b \in Windows \cup Commands : RecordsAreRead(b) \/ BuildGoesOn(b)
  \/ \E p \in Commands :
       (\E f \in CommandForms : CommandStarts(p, Request(f))) \/ CommandDies(p)
  \/ ImportStep

Spec == Init /\ [][Next]_vars

-----------------------------------------------------------------------------
(* Properties.                                                             *)

(* A window's update replaces only the row that its edit fields were       *)
(* filled from, whatever other windows and the importer wrote to it after  *)
(* that, and even if it was read while it was not committed                *)
(* (sqlite.py:199): so no update by a window loses anybody's change.  An   *)
(* import is not spoken of: it replaces the rows it has without looking.   *)
NoLostUpdate ==
  [][\A w \in Windows :
       /\ call[w].op = "update customer" /\ FlushPages(w) =>
            \A c \in Customers : rows'.customer[c] # rows.customer[c] =>
              edit[w].customer = [id |-> c, original |-> rows.customer[c]]
       /\ call[w].op = "update job" /\ FlushPages(w) =>
            \A j \in Jobs : rows'.job[j] # rows.job[j] =>
              edit[w].job = [id |-> j, original |-> rows.job[j]]]_vars

(* What the window shows as generated is the form that it shows: both      *)
(* files are there, come from this window's build of exactly these fields, *)
(* from the same records, and the job was the customer's, however the      *)
(* records moved after the validation (proposal_desktop.py:974).           *)
ResultIsOfTheForm ==
  \A w \in Windows : shown[w] # None =>
    LET made == files[shown[w].docx] IN
    /\ shown[w] = Request(form[w])
    /\ made # None
    /\ files[shown[w].json] = made
    /\ made.by = w
    /\ made.request = shown[w]
    /\ made.job.customer = made.request.customer

(* The edit fields belong to what is selected, and what is selected is     *)
(* loaded: an update can never store what was typed for one record in      *)
(* another one, and the checks of a changed identity never fire.           *)
EditsAreOfTheSelection ==
  \A w \in Windows :
    /\ edit[w].customer # None =>
         /\ edit[w].customer.id = form[w].customer
         /\ edit[w].customer.original = seen[w].customers[form[w].customer]
    /\ edit[w].job # None =>
         /\ edit[w].job.id = form[w].job
         /\ edit[w].job.original = seen[w].jobs[form[w].job]
    /\ form[w].customer # None => seen[w].customers[form[w].customer] # None
    /\ form[w].job # None =>
         Selectable(seen[w].jobs, form[w].job, form[w].customer)

(* A step touches an output file that exists only to remove what the same  *)
(* build created before it failed: the file of another window, of an       *)
(* earlier build or of a window that died is never replaced or removed.    *)
OutputsAreKept ==
  [][\A f \in OutputFiles : files[f] # None /\ files'[f] # files[f] =>
       LET w == files[f].by IN
       /\ f \in created[w]
       /\ files'[f] = None
       /\ files[f] = B!Proposal(w)]_vars
=============================================================================
