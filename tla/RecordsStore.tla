---------------------------- MODULE RecordsStore -----------------------------
(***************************************************************************)
(* The customers and jobs of an office in one SQLite file                  *)
(* (records/sqlite.py), used by several processes at once.                 *)
(*                                                                         *)
(* A write opens the file for writing, which rolls back what a dead writer *)
(* left, runs one transaction under SQLite's lock, and closes.  A read-    *)
(* only repository opens the file as immutable: it looks for sidecar files *)
(* first and then takes no lock, so a writer may begin in between and the  *)
(* reader sees pages that are not committed.                               *)
(*                                                                         *)
(* A customer's persisted fields are one value, and so are those of a job  *)
(* besides the customer that it is for.                                    *)
(***************************************************************************)
EXTENDS FiniteSets

CONSTANTS
  Writers,   \* processes that open the file
  Customers,
  Jobs,
  Values,    \* what the fields of a record say
  FirstRows, \* what the file may hold at first
  Absent     \* no row, no journal, no writer

VARIABLES
  rows,      \* the rows that the pages of the file hold
  journal,   \* the rows that the rollback journal restores
  tx         \* the transaction that holds the lock, with the rows it makes

recordsVars == <<rows, journal, tx>>

JobRows == [customer : Customers, says : Values]

Rows == [customer : [Customers -> Values \cup {Absent}],
         job : [Jobs -> JobRows \cup {Absent}]]

RecordsInit ==
  /\ rows \in FirstRows
  /\ journal = Absent
  /\ tx = Absent

-----------------------------------------------------------------------------
(* What the two repositories read and make of the rows r.                  *)

CustomerOf(r, c) == r.customer[c]

JobOf(r, j) == r.job[j]

JobsForCustomer(r, c) ==
  [j \in Jobs |-> IF r.job[j] # Absent /\ r.job[j].customer = c
                  THEN r.job[j] ELSE Absent]

WithCustomer(r, c, v) == [r EXCEPT !.customer[c] = v]

WithJob(r, j, row) == [r EXCEPT !.job[j] = row]

(* create_customer and create_job: the insert fails on a primary key.      *)
MayCreateCustomer(r, c) == r.customer[c] = Absent

MayCreateJob(r, j) == r.job[j] = Absent

(* update_customer and update_job: the row is there and its persisted      *)
(* values are those that the caller was shown.                             *)
MayUpdateCustomer(r, c, original) ==
  /\ r.customer[c] # Absent
  /\ r.customer[c] = original

MayUpdateJob(r, j, original) ==
  /\ r.job[j] # Absent
  /\ r.job[j] = original

-----------------------------------------------------------------------------
(* Transactions.                                                           *)

(* What a process that opens the file for writing finds in it.             *)
Recovered == IF tx = Absent /\ journal # Absent THEN journal ELSE rows

(* BEGIN IMMEDIATE, or the BEGIN of an insert, the checks, and the first   *)
(* changed page, whose original goes to the journal.                       *)
Begin(p, makes) ==
  /\ tx = Absent
  /\ rows' = Recovered
  /\ journal' = Recovered
  /\ tx' = [by |-> p, makes |-> makes]

(* The checks under the lock fail: the transaction ends without a change.  *)
Refuse ==
  /\ tx = Absent
  /\ rows' = Recovered
  /\ journal' = Absent
  /\ UNCHANGED tx

(* Another transaction holds the lock until the timeout.                   *)
Busy(p) ==
  /\ tx # Absent
  /\ tx.by # p

Holds(p) == tx # Absent /\ tx.by = p

(* COMMIT writes the changed pages, and deletes the journal after that.    *)
Flush(p) ==
  /\ Holds(p)
  /\ rows # tx.makes
  /\ rows' = tx.makes
  /\ UNCHANGED <<journal, tx>>

Commit(p) ==
  /\ Holds(p)
  /\ rows = tx.makes
  /\ journal' = Absent
  /\ tx' = Absent
  /\ UNCHANGED rows

(* A statement or the COMMIT fails.                                        *)
RollBack(p) ==
  /\ Holds(p)
  /\ rows' = journal
  /\ journal' = Absent
  /\ tx' = Absent

(* The process dies: its lock goes, its journal stays.                     *)
WriterDies(p) ==
  /\ tx' = IF Holds(p) THEN Absent ELSE tx
  /\ UNCHANGED <<rows, journal>>

(* _require_sidecar_free_immutable_read.                                   *)
SidecarFree == journal = Absent
=============================================================================
