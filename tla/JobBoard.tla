------------------------------ MODULE JobBoard ------------------------------
(***************************************************************************)
(* The job listings: the JOBSAPPS table, the handlers by which an employer *)
(* posts, edits and removes a job and a moderator approves, rejects or     *)
(* removes one, and the transaction that removes an employer together with *)
(* its jobs (internal/handlers/{job,admin}.go over                         *)
(* internal/repository/{job,company}.go).                                  *)
(*                                                                         *)
(* The pool has one connection (SetMaxOpenConns(1)).  A statement outside  *)
(* a transaction takes it for that statement only; a transaction holds it  *)
(* from Begin to Commit or Rollback, and meanwhile every other statement   *)
(* waits.  What a transaction has written is in tx until it commits.       *)
(***************************************************************************)
EXTENDS Integers, FiniteSets

CONSTANTS
  Columns,       \* the columns an edit may change
  Texts,         \* what a column may hold
  Omitted,       \* a column that a PUT leaves out
  Requests,      \* slots for requests in flight at once
  Nobody,        \* the connection is free
  MaxEmployers,  \* bound: INSERTs into CLIENTS
  MaxJobs        \* bound: INSERTs into JOBSAPPS

ASSUME AbsentValues ==
  /\ Omitted \notin Texts
  /\ Nobody \notin Requests
ASSUME Bounds ==
  /\ MaxEmployers \in Nat
  /\ MaxJobs \in Nat

EmployerId == 1 .. MaxEmployers
JobId      == 1 .. MaxJobs
NoId       == 0

Status == {"pending", "approved", "rejected"}
Text   == [Columns -> Texts \cup {Omitted}]

(***************************************************************************)
(* A row of JOBSAPPS.  client_id is NOT NULL, so a job id without an owner *)
(* has no row.  born is a history field: which INSERT made the row.        *)
(***************************************************************************)
Job == [owner  : EmployerId \cup {NoId},
        text   : Text,
        status : Status,
        born   : JobId \cup {NoId}]

NoJob == [owner |-> NoId, text |-> [c \in Columns |-> Omitted],
          status |-> "pending", born |-> NoId]

Pc == {"idle", "edit.write", "delete.jobs", "delete.client", "delete.commit"}

(* A request in flight: the employer and the job it is about, and the job  *)
(* row an edit has read and merged with its body.                          *)
Request == [pc  : Pc,
            emp : EmployerId \cup {NoId},
            job : JobId \cup {NoId},
            row : Job]

Idle == [pc |-> "idle", emp |-> NoId, job |-> NoId, row |-> NoJob]

VARIABLES
  employers,  \* ids of the rows of CLIENTS
  lastEmp,    \* the largest id CLIENTS ever gave
  jobs,       \* the JOBSAPPS table
  lastJob,    \* the largest id JOBSAPPS ever gave
  births,     \* history: how many jobs were inserted
  conn,       \* whose transaction holds the connection
  tx,         \* the tables as that transaction sees them
  req,        \* the requests in flight
  postedBy,   \* history: who posted the n-th job
  removed     \* history: which jobs somebody deleted as such

vars == <<employers, lastEmp, jobs, lastJob, births, conn, tx, req, postedBy,
          removed>>

Committed == [employers |-> employers, jobs |-> jobs]

(* no transaction is open: nothing is staged *)
NoTx == [employers |-> {}, jobs |-> [j \in JobId |-> NoJob]]

Posted == {j \in JobId : jobs[j].owner # NoId}

Init ==
  /\ employers = {}
  /\ lastEmp = 0
  /\ jobs = [j \in JobId |-> NoJob]
  /\ lastJob = 0
  /\ births = 0
  /\ conn = Nobody
  /\ tx = NoTx
  /\ req = [r \in Requests |-> Idle]
  /\ postedBy = [n \in JobId |-> NoId]
  /\ removed = {}

-----------------------------------------------------------------------------
(***************************************************************************)
(* Plausible mistakes, for the mutation runs: each stands in for the       *)
(* operator its name begins with.  Next uses none.                         *)
(***************************************************************************)

(* PRAGMA foreign_keys left OFF, SQLite's default *)
OwnerExists_NoForeignKeys(e) == TRUE

(* INTEGER PRIMARY KEY without AUTOINCREMENT *)
NextJob_NoAutoincrement ==
  CHOOSE n \in 1 .. MaxJobs + 1 :
    /\ \A j \in Posted : j < n
    /\ n = 1 \/ n - 1 \in Posted

(* an UPDATE of the whole row, status included *)
JobUpdate_WholeRow(q) ==
  [j \in JobId |->
     IF j = q.job /\ jobs[j].owner = q.emp THEN q.row ELSE jobs[j]]

(* DELETE FROM JOBSAPPS run on the pool, outside the transaction's view *)
TxDeleteJobs_Autocommit(r) ==
  /\ conn = r
  /\ req[r].pc = "delete.jobs"
  /\ jobs' = [j \in JobId |->
       IF jobs[j].owner = req[r].emp THEN NoJob ELSE jobs[j]]
  /\ tx' = [tx EXCEPT !.jobs = jobs']
  /\ req' = [req EXCEPT ![r].pc = "delete.client"]
  /\ UNCHANGED <<employers, lastEmp, lastJob, births, conn, postedBy, removed>>

(* DELETE FROM CLIENTS through the pool: it waits for a free connection *)
TxDeleteClient_ThroughPool(r) ==
  /\ conn = Nobody
  /\ req[r].pc = "delete.client"
  /\ req' = [req EXCEPT ![r].pc = "delete.commit"]
  /\ UNCHANGED <<employers, lastEmp, jobs, lastJob, births, conn, tx, postedBy,
                 removed>>

-----------------------------------------------------------------------------
(***************************************************************************)
(* Statements.                                                             *)
(***************************************************************************)

(* FOREIGN KEY (client_id) REFERENCES CLIENTS(id), with foreign_keys=ON *)
OwnerExists(e) == e \in employers

NextJob == lastJob + 1

(* the columns a PUT leaves out keep what the lookup found *)
Merge(row, patch) ==
  [row EXCEPT !.text = [c \in Columns |->
     IF patch[c] = Omitted THEN row.text[c] ELSE patch[c]]]

(* JobRepo.Update: every text column, WHERE id = ? AND client_id = ? *)
JobUpdate(q) ==
  [j \in JobId |->
     IF j = q.job /\ jobs[j].owner = q.emp
     THEN [jobs[j] EXCEPT !.text = q.row.text]
     ELSE jobs[j]]

Free == conn = Nobody

Fill(r, pc, e, j, row) ==
  /\ req[r] = Idle
  /\ req' = [req EXCEPT ![r] = [pc |-> pc, emp |-> e, job |-> j, row |-> row]]

-----------------------------------------------------------------------------
(***************************************************************************)
(* Employers come and go (see Accounts for how they come).                 *)
(***************************************************************************)

EmployerCreated ==
  /\ Free
  /\ lastEmp < MaxEmployers
  /\ lastEmp' = lastEmp + 1
  /\ employers' = employers \cup {lastEmp + 1}
  /\ UNCHANGED <<jobs, lastJob, births, conn, tx, req, postedBy, removed>>

(* ClientRepo.Delete: Begin.  The id need not exist. *)
TxBegin(r, e) ==
  /\ Free
  /\ Fill(r, "delete.jobs", e, NoId, NoJob)
  /\ conn' = r
  /\ tx' = Committed
  /\ UNCHANGED <<employers, lastEmp, jobs, lastJob, births, postedBy, removed>>

TxDeleteJobs(r) ==
  /\ conn = r
  /\ req[r].pc = "delete.jobs"
  /\ tx' = [tx EXCEPT !.jobs = [j \in JobId |->
       IF tx.jobs[j].owner = req[r].emp THEN NoJob ELSE tx.jobs[j]]]
  /\ req' = [req EXCEPT ![r].pc = "delete.client"]
  /\ UNCHANGED <<employers, lastEmp, jobs, lastJob, births, conn, postedBy,
                 removed>>

(* refused by the foreign key if a job of the employer is left *)
TxDeleteClient(r) ==
  /\ conn = r
  /\ req[r].pc = "delete.client"
  /\ \A j \in JobId : tx.jobs[j].owner # req[r].emp
  /\ tx' = [tx EXCEPT !.employers = @ \ {req[r].emp}]
  /\ req' = [req EXCEPT ![r].pc = "delete.commit"]
  /\ UNCHANGED <<employers, lastEmp, jobs, lastJob, births, conn, postedBy,
                 removed>>

TxCommit(r) ==
  /\ conn = r
  /\ req[r].pc = "delete.commit"
  /\ employers' = tx.employers
  /\ jobs' = tx.jobs
  /\ conn' = Nobody
  /\ tx' = NoTx
  /\ req' = [req EXCEPT ![r] = Idle]
  /\ UNCHANGED <<lastEmp, lastJob, births, postedBy, removed>>

(* a statement of the transaction fails: the deferred Rollback runs *)
TxRollback(r) ==
  /\ conn = r
  /\ conn' = Nobody
  /\ tx' = NoTx
  /\ req' = [req EXCEPT ![r] = Idle]
  /\ UNCHANGED <<employers, lastEmp, jobs, lastJob, births, postedBy, removed>>

-----------------------------------------------------------------------------
(***************************************************************************)
(* An employer's jobs.  The id of the employer comes from its JWT, which   *)
(* nobody revokes: e may have been deleted meanwhile.                      *)
(***************************************************************************)

(* JobHandler.Create *)
CreateJob(e, text) ==
  /\ Free
  /\ OwnerExists(e)
  /\ births < MaxJobs
  /\ jobs' = [jobs EXCEPT ![NextJob] =
       [owner |-> e, text |-> text, status |-> "pending",
        born |-> births + 1]]
  /\ lastJob' = NextJob
  /\ births' = births + 1
  /\ postedBy' = [postedBy EXCEPT ![births + 1] = e]
  /\ UNCHANGED <<employers, lastEmp, conn, tx, req, removed>>

(* JobHandler.Update reads the job, then writes all of its text columns *)
EditLookup(r, e, j, patch) ==
  /\ Free
  /\ j \in Posted
  /\ jobs[j].owner = e
  /\ Fill(r, "edit.write", e, j, Merge(jobs[j], patch))
  /\ UNCHANGED <<employers, lastEmp, jobs, lastJob, births, conn, tx, postedBy,
                 removed>>

EditWrite(r) ==
  /\ Free
  /\ req[r].pc = "edit.write"
  /\ jobs' = JobUpdate(req[r])
  /\ req' = [req EXCEPT ![r] = Idle]
  /\ UNCHANGED <<employers, lastEmp, lastJob, births, conn, tx, postedBy,
                 removed>>

(* its body does not validate, or the UPDATE fails *)
EditFails(r) ==
  /\ req[r].pc = "edit.write"
  /\ req' = [req EXCEPT ![r] = Idle]
  /\ UNCHANGED <<employers, lastEmp, jobs, lastJob, births, conn, tx, postedBy,
                 removed>>

Remove(j) ==
  /\ Free
  /\ j \in Posted
  /\ jobs' = [jobs EXCEPT ![j] = NoJob]
  /\ removed' = removed \cup {jobs[j].born}
  /\ UNCHANGED <<employers, lastEmp, lastJob, births, conn, tx, req, postedBy>>

(* JobHandler.Delete *)
DeleteJob(e, j) == jobs[j].owner = e /\ Remove(j)

-----------------------------------------------------------------------------
(***************************************************************************)
(* Moderation.                                                             *)
(***************************************************************************)

(* AdminHandler.UpdateStatus: from any status, never back to pending *)
SetStatus(j, s) ==
  /\ Free
  /\ j \in Posted
  /\ s \in {"approved", "rejected"}
  /\ jobs' = [jobs EXCEPT ![j].status = s]
  /\ UNCHANGED <<employers, lastEmp, lastJob, births, conn, tx, req, postedBy,
                 removed>>

(* AdminHandler.DeleteJob: no ownership check *)
DeleteAdmin(j) == Remove(j)

(* The process dies: requests and the open transaction go, SQLite recovers *)
(* the committed tables.                                                   *)
Crash ==
  /\ \E r \in Requests : req[r] # Idle
  /\ req' = [r \in Requests |-> Idle]
  /\ conn' = Nobody
  /\ tx' = NoTx
  /\ UNCHANGED <<employers, lastEmp, jobs, lastJob, births, postedBy, removed>>

-----------------------------------------------------------------------------
TxStep(r) ==
  \/ TxDeleteJobs(r)
  \/ TxDeleteClient(r)
  \/ TxCommit(r)

Handles(r) ==
  \/ \E e \in EmployerId :
       \/ TxBegin(r, e)
       \/ \E j \in JobId, patch \in Text : EditLookup(r, e, j, patch)
  \/ TxStep(r)
  \/ TxRollback(r)
  \/ EditWrite(r)
  \/ EditFails(r)

AtOnce ==
  \/ EmployerCreated
  \/ \E e \in EmployerId :
       \/ \E text \in [Columns -> Texts] : CreateJob(e, text)
       \/ \E j \in JobId : DeleteJob(e, j)
  \/ \E j \in JobId :
       \/ \E s \in Status : SetStatus(j, s)
       \/ DeleteAdmin(j)

Next ==
  \/ \E r \in Requests : Handles(r)
  \/ AtOnce
  \/ Crash

Spec == Init /\ [][Next]_vars

(***************************************************************************)
(* Fairness.  A goroutine that can run its next statement runs it (weak).  *)
(* A statement outside a transaction waits in database/sql for the         *)
(* connection; a freed connection goes to one of those waiting, so a       *)
(* waiter that is again and again eligible is served (strong).             *)
(***************************************************************************)
FairSpec ==
  /\ Spec
  /\ \A r \in Requests : WF_vars(TxStep(r)) /\ SF_vars(EditWrite(r))

-----------------------------------------------------------------------------
(***************************************************************************)
(* Correctness.                                                            *)
(***************************************************************************)

(* Every variable has its type; the text of a job is complete: an edit     *)
(* that leaves a column out does not blank it.                             *)
TypeOK ==
  /\ employers \subseteq EmployerId
  /\ lastEmp \in 0 .. MaxEmployers
  /\ jobs \in [JobId -> Job]
  /\ \A j \in Posted : jobs[j].text \in [Columns -> Texts]
  /\ lastJob \in 0 .. MaxJobs
  /\ births \in 0 .. MaxJobs
  /\ conn \in Requests \cup {Nobody}
  /\ tx \in [employers : SUBSET EmployerId, jobs : [JobId -> Job]]
  /\ req \in [Requests -> Request]
  /\ postedBy \in [JobId -> EmployerId \cup {NoId}]
  /\ removed \subseteq JobId

(* A job belongs to an employer that exists, although a JWT outlives its   *)
(* employer and may post while, or after, the employer is deleted.         *)
NoOrphans == \A j \in Posted : jobs[j].owner \in employers

(* Deleting an employer takes all of its jobs or none: a job that was      *)
(* posted is there until somebody deletes that job, or its employer is     *)
(* gone, whatever fails or crashes between the transaction's statements.   *)
DeleteIsAtomic ==
  \A n \in 1 .. births :
    \/ n \in removed
    \/ postedBy[n] \notin employers
    \/ \E j \in Posted : jobs[j].born = n

(* An edit writes to the job it read, or to none: the id it holds across   *)
(* its two statements never comes to mean a job posted later.              *)
EditIdentity ==
  \A r \in Requests :
    req[r].pc = "edit.write" /\ req[r].job \in Posted
      => jobs[req[r].job].born = req[r].row.born

(* The moderator's decision sticks: an edit that read the job before the   *)
(* decision and writes after it does not undo it.                          *)
ModerationSticks ==
  [][\A j \in Posted :
       jobs'[j].owner # NoId /\ jobs'[j].status # jobs[j].status
         => \E s \in Status : SetStatus(j, s)]_vars

(* An edit is answered in the end: no transaction keeps the connection for *)
(* ever, and none waits for a connection it holds itself.                  *)
EditsEnd ==
  \A r \in Requests : req[r].pc = "edit.write" ~> req[r].pc # "edit.write"

-----------------------------------------------------------------------------
(***************************************************************************)
(* Refinement.  The promise shows each row without its history field.      *)
(***************************************************************************)
Shown(row) ==
  [owner |-> row.owner, text |-> row.text, status |-> row.status]

Promise ==
  INSTANCE Listings WITH
    FullText <- [Columns -> Texts],
    NoJob <- Shown(NoJob),
    joined <- 1 .. lastEmp,
    jobs <- [j \in JobId |-> Shown(jobs[j])],
    used <- 1 .. lastJob

(* The board keeps its promise: through stale edits, open transactions,    *)
(* rollbacks and crashes, every change a reader can see is one step of     *)
(* Listings; in particular an employer leaves together with all its jobs.  *)
KeepsPromise == Promise!Spec

-----------------------------------------------------------------------------
(***************************************************************************)
(* The inductive invariant.                                                *)
(***************************************************************************)

(* an edit holds a complete text, and a job it found with its owner *)
EditInv ==
  \A r \in Requests :
    req[r].pc = "edit.write" =>
      /\ req[r].row.text \in [Columns -> Texts]
      /\ req[r].emp # NoId
      /\ req[r].row.born = req[r].job
      /\ req[r].job \in 1 .. lastJob

(* ids only grow, so an id names one insertion *)
IdInv ==
  /\ births = lastJob
  /\ employers \subseteq 1 .. lastEmp
  /\ \A j \in Posted :
       j <= lastJob /\ jobs[j].born = j /\ jobs[j].owner = postedBy[j]
  /\ \A j \in JobId \ Posted : jobs[j] = NoJob
  /\ \A n \in 1 .. lastJob : postedBy[n] \in 1 .. lastEmp

(* the tables as a delete of employer e sees them, by how far it is *)
Staged(pc, e) ==
  [employers |-> IF pc = "delete.commit" THEN employers \ {e} ELSE employers,
   jobs |-> [j \in JobId |->
     IF pc # "delete.jobs" /\ jobs[j].owner = e THEN NoJob ELSE jobs[j]]]

(* exactly the deletes hold the connection, and nobody else wrote since *)
TxInv ==
  \A r \in Requests :
    /\ conn = r <=> req[r].pc \in {"delete.jobs", "delete.client", "delete.commit"}
    /\ conn = r => tx = Staged(req[r].pc, req[r].emp) /\ req[r].emp # NoId

(* a job is there under its own number, unless it or its owner was deleted *)
KeptInv ==
  \A n \in 1 .. lastJob :
    n \in removed \/ postedBy[n] \notin employers \/ jobs[n].owner # NoId

IInv == TypeOK /\ NoOrphans /\ EditInv /\ IdInv /\ TxInv /\ KeptInv
=============================================================================
