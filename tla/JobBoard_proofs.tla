--------------------------- MODULE JobBoard_proofs ---------------------------
(***************************************************************************)
(* Proofs about JobBoard, for every number of requests, columns, texts,    *)
(* employers and jobs.  IInv is the inductive invariant: TxInv says what   *)
(* an open transaction has staged, and that nobody else wrote since it     *)
(* began; that is what makes its commit a single step of Listings.         *)
(***************************************************************************)
EXTENDS JobBoard, TLAPS

LEMMA Ids ==
  /\ NoId \notin EmployerId
  /\ NoId \notin JobId
  /\ MaxJobs \in Nat
  /\ MaxEmployers \in Nat
BY Bounds DEF NoId, EmployerId, JobId

LEMMA Absent == NoJob \in Job /\ Idle \in Request /\ NoJob.owner = NoId
BY DEF NoJob, Job, Idle, Request, Pc, Text, Status

LEMMA InitOK == Init => IInv
<1> SUFFICES ASSUME Init PROVE IInv
  OBVIOUS
<1> USE Ids, Absent, AbsentValues
<1> USE DEF Init, Posted
<1>1. TypeOK
  BY DEF TypeOK, NoTx, JobId, NoJob, Idle
<1>2. NoOrphans
  BY DEF NoOrphans
<1>3. EditInv
  BY DEF EditInv, Idle
<1>4. IdInv
  BY DEF IdInv
<1>5. TxInv
  BY DEF TxInv, Idle
<1>6. KeptInv
  BY DEF KeptInv
<1> QED BY <1>1, <1>2, <1>3, <1>4, <1>5, <1>6 DEF IInv

LEMMA EmployerCreatedKeeps ==
  ASSUME IInv, EmployerCreated
  PROVE  IInv'
<1> USE Ids, Absent, AbsentValues
<1> USE DEF IInv, EmployerCreated, Free
<1>1. TypeOK'
  BY DEF TypeOK, Posted, Job, Request, Pc, Text, Status, NoJob, EmployerId,
     JobId, NoId
<1>2. NoOrphans'
  BY DEF TypeOK, NoOrphans, IdInv, TxInv, Staged, Posted, NoJob, NoId
<1>3. EditInv'
  BY DEF TypeOK, EditInv, IdInv, Posted, Text
<1>4. IdInv'
  BY DEF TypeOK, IdInv, TxInv, Staged, Posted, NoJob, JobId, EmployerId, NoId
<1>5. TxInv'
  BY DEF TypeOK, TxInv, Staged, Posted, Request, Pc
<1>6. KeptInv'
  BY DEF TypeOK, NoOrphans, IdInv, TxInv, Staged, KeptInv, Posted, NoJob,
     JobId, EmployerId, NoId
<1> QED BY <1>1, <1>2, <1>3, <1>4, <1>5, <1>6


LEMMA TxBeginKeeps ==
  ASSUME IInv, NEW r \in Requests, NEW e \in EmployerId, TxBegin(r, e)
  PROVE  IInv'
<1> USE Ids, Absent, AbsentValues
<1> USE DEF IInv, TxBegin, Free, Fill, Committed, Idle
<1>1. TypeOK'
  <2>1. req' \in [Requests -> Request]
    BY DEF TypeOK, Request, Pc
  <2>2. tx' \in [employers : SUBSET EmployerId, jobs : [JobId -> Job]]
    BY DEF TypeOK
  <2> QED BY <2>1, <2>2 DEF TypeOK, Posted
<1>2. NoOrphans'
  BY DEF TypeOK, NoOrphans, IdInv, TxInv, Staged, Posted, NoJob, NoId
<1>3. EditInv'
  BY DEF TypeOK, EditInv, IdInv, Posted, Text
<1>4. IdInv'
  BY DEF TypeOK, IdInv, TxInv, Staged, Posted, NoJob, JobId, EmployerId, NoId
<1>5. TxInv'
  BY DEF TypeOK, TxInv, Staged, Posted, Request, Pc
<1>6. KeptInv'
  BY DEF TypeOK, NoOrphans, IdInv, TxInv, Staged, KeptInv, Posted, NoJob,
     JobId, EmployerId, NoId
<1> QED BY <1>1, <1>2, <1>3, <1>4, <1>5, <1>6


LEMMA TxDeleteJobsKeeps ==
  ASSUME IInv, NEW r \in Requests, TxDeleteJobs(r)
  PROVE  IInv'
<1> USE Ids, Absent, AbsentValues
<1> USE DEF IInv, TxDeleteJobs
<1>1. TypeOK'
  <2>1. req' \in [Requests -> Request]
    <3>1. req' = [req EXCEPT ![r].pc = "delete.client"]
      OBVIOUS
    <3> QED BY ONLY <3>1, TypeOK DEF TypeOK, Request, Pc
  <2>2. tx' \in [employers : SUBSET EmployerId, jobs : [JobId -> Job]]
    BY DEF TypeOK
  <2> QED BY <2>1, <2>2 DEF TypeOK, Posted
<1>2. NoOrphans'
  BY DEF TypeOK, NoOrphans, IdInv, TxInv, Staged, Posted, NoJob, NoId
<1>3. EditInv'
  BY DEF TypeOK, EditInv, IdInv, Posted, Text
<1>4. IdInv'
  BY DEF TypeOK, IdInv, TxInv, Staged, Posted, NoJob, JobId, EmployerId, NoId
<1>5. TxInv'
  <2>1. tx = Staged("delete.jobs", req[r].emp) /\ req[r].emp # NoId
    BY DEF TxInv
  <2>2. tx' = Staged("delete.client", req[r].emp)
    BY <2>1 DEF Staged
  <2>3. /\ req'[r].pc = "delete.client"
        /\ req'[r].emp = req[r].emp
        /\ \A q \in Requests \ {r} : req'[q] = req[q]
    BY DEF TypeOK, Request
  <2>4. conn = r /\ conn' = conn /\ employers' = employers /\ jobs' = jobs
    OBVIOUS
  <2>5. tx' = Staged(req[r].pc, req[r].emp)'
    BY ONLY <2>2, <2>3, <2>4, Zenon DEF Staged
  <2>6. \A q \in Requests \ {r} :
          conn # q /\ req[q].pc \notin {"delete.jobs", "delete.client", "delete.commit"}
    BY <2>4 DEF TxInv
  <2>7. req[r].emp # NoId /\ conn = r /\ r # Nobody
    BY <2>1, <2>4, AbsentValues DEF TxInv
  <2> QED BY ONLY <2>3, <2>4, <2>5, <2>6, <2>7 DEF TxInv
<1>6. KeptInv'
  BY DEF TypeOK, NoOrphans, IdInv, TxInv, Staged, KeptInv, Posted, NoJob,
     JobId, EmployerId, NoId
<1> QED BY <1>1, <1>2, <1>3, <1>4, <1>5, <1>6


LEMMA TxDeleteClientKeeps ==
  ASSUME IInv, NEW r \in Requests, TxDeleteClient(r)
  PROVE  IInv'
<1> USE Ids, Absent, AbsentValues
<1> USE DEF IInv, TxDeleteClient
<1>1. TypeOK'
  <2>1. req' \in [Requests -> Request]
    <3>1. req' = [req EXCEPT ![r].pc = "delete.commit"]
      OBVIOUS
    <3> QED BY ONLY <3>1, TypeOK DEF TypeOK, Request, Pc
  <2>2. tx' \in [employers : SUBSET EmployerId, jobs : [JobId -> Job]]
    BY DEF TypeOK
  <2> QED BY <2>1, <2>2 DEF TypeOK, Posted
<1>2. NoOrphans'
  BY DEF TypeOK, NoOrphans, IdInv, TxInv, Staged, Posted, NoJob, NoId
<1>3. EditInv'
  BY DEF TypeOK, EditInv, IdInv, Posted, Text
<1>4. IdInv'
  BY DEF TypeOK, IdInv, TxInv, Staged, Posted, NoJob, JobId, EmployerId, NoId
<1>5. TxInv'
  <2>1. tx = Staged("delete.client", req[r].emp) /\ req[r].emp # NoId
    BY DEF TxInv
  <2>2. tx' = Staged("delete.commit", req[r].emp)
    BY <2>1 DEF Staged
  <2>3. /\ req'[r].pc = "delete.commit"
        /\ req'[r].emp = req[r].emp
        /\ \A q \in Requests \ {r} : req'[q] = req[q]
    BY DEF TypeOK, Request
  <2>4. conn = r /\ conn' = conn /\ employers' = employers /\ jobs' = jobs
    OBVIOUS
  <2>5. tx' = Staged(req[r].pc, req[r].emp)'
    BY ONLY <2>2, <2>3, <2>4, Zenon DEF Staged
  <2>6. \A q \in Requests \ {r} :
          conn # q /\ req[q].pc \notin {"delete.jobs", "delete.client", "delete.commit"}
    BY <2>4 DEF TxInv
  <2>7. req[r].emp # NoId /\ conn = r /\ r # Nobody
    BY <2>1, <2>4, AbsentValues DEF TxInv
  <2> QED BY ONLY <2>3, <2>4, <2>5, <2>6, <2>7 DEF TxInv
<1>6. KeptInv'
  BY DEF TypeOK, NoOrphans, IdInv, TxInv, Staged, KeptInv, Posted, NoJob,
     JobId, EmployerId, NoId
<1> QED BY <1>1, <1>2, <1>3, <1>4, <1>5, <1>6


LEMMA TxCommitKeeps ==
  ASSUME IInv, NEW r \in Requests, TxCommit(r)
  PROVE  IInv'
<1> USE Ids, Absent, AbsentValues
<1> DEFINE e == req[r].emp
<1>0. /\ employers' = employers \ {e}
      /\ jobs' = [j \in JobId |->
           IF jobs[j].owner = e THEN NoJob ELSE jobs[j]]
      /\ e # NoId
  BY DEF IInv, TxCommit, TxInv, Staged
<1> HIDE DEF e
<1> USE DEF IInv, TxCommit, Idle, NoTx
<1>1. TypeOK'
  <2>1. req' \in [Requests -> Request]
    BY DEF TypeOK, Request, Pc
  <2>2. tx' \in [employers : SUBSET EmployerId, jobs : [JobId -> Job]]
    BY DEF TypeOK
  <2>3. jobs' \in [JobId -> Job]
    BY <1>0 DEF TypeOK
  <2>4. \A k \in Posted' : jobs'[k].text \in [Columns -> Texts]
    BY <1>0 DEF TypeOK, Posted, NoJob
  <2>5. employers' \subseteq EmployerId
    BY <1>0 DEF TypeOK
  <2> QED BY <2>1, <2>2, <2>3, <2>4, <2>5 DEF TypeOK, Posted
<1>2. NoOrphans'
  BY <1>0 DEF TypeOK, NoOrphans, Posted, NoJob
<1>3. EditInv'
  BY DEF TypeOK, EditInv, IdInv, Posted, Text
<1>4. IdInv'
  <2>1. /\ births = lastJob
        /\ employers' \subseteq 1 .. lastEmp
        /\ \A n \in 1 .. lastJob : postedBy[n] \in 1 .. lastEmp
    BY <1>0 DEF IdInv
  <2>2. \A j \in JobId : jobs'[j] = jobs[j] \/ jobs'[j] = NoJob
    BY <1>0
  <2>3. \A j \in Posted' : j \in Posted /\ jobs'[j] = jobs[j]
    BY <2>2 DEF Posted
  <2>4. \A j \in JobId \ Posted' : jobs'[j] = NoJob
    BY <2>2 DEF Posted, IdInv
  <2> QED BY <2>1, <2>3, <2>4 DEF IdInv
<1>5. TxInv'
  BY DEF TypeOK, TxInv, Staged, Posted, Request, Pc
<1>6. KeptInv'
  BY <1>0 DEF TypeOK, NoOrphans, IdInv, KeptInv, Posted, NoJob, JobId
<1> QED BY <1>1, <1>2, <1>3, <1>4, <1>5, <1>6


LEMMA TxRollbackKeeps ==
  ASSUME IInv, NEW r \in Requests, TxRollback(r)
  PROVE  IInv'
<1> USE Ids, Absent, AbsentValues
<1> USE DEF IInv, TxRollback, Idle, NoTx
<1>1. TypeOK'
  BY DEF TypeOK, Posted, Job, Request, Pc, Text, Status, NoJob, EmployerId,
     JobId, NoId
<1>2. NoOrphans'
  BY DEF TypeOK, NoOrphans, IdInv, TxInv, Staged, Posted, NoJob, NoId
<1>3. EditInv'
  BY DEF TypeOK, EditInv, IdInv, Posted, Text
<1>4. IdInv'
  BY DEF TypeOK, IdInv, TxInv, Staged, Posted, NoJob, JobId, EmployerId, NoId
<1>5. TxInv'
  BY DEF TypeOK, TxInv, Staged, Posted, Request, Pc
<1>6. KeptInv'
  BY DEF TypeOK, NoOrphans, IdInv, TxInv, Staged, KeptInv, Posted, NoJob,
     JobId, EmployerId, NoId
<1> QED BY <1>1, <1>2, <1>3, <1>4, <1>5, <1>6


LEMMA CreateJobKeeps ==
  ASSUME IInv, NEW e \in EmployerId, NEW text \in [Columns -> Texts], CreateJob(e, text)
  PROVE  IInv'
<1> USE Ids, Absent, AbsentValues
<1> USE DEF IInv, CreateJob, Free, OwnerExists, NextJob
<1>1. TypeOK'
  <2>1. births + 1 \in JobId /\ lastJob + 1 \in JobId
    BY DEF TypeOK, IdInv, JobId
  <2>2. jobs' \in [JobId -> Job]
    BY <2>1 DEF TypeOK, Job, Status, Text
  <2>3. \A k \in Posted' : jobs'[k].text \in [Columns -> Texts]
    BY DEF TypeOK, Posted
  <2>4. postedBy' \in [JobId -> EmployerId \cup {NoId}]
    BY DEF TypeOK
  <2>5. lastJob' \in 0 .. MaxJobs /\ births' \in 0 .. MaxJobs
    BY DEF TypeOK, IdInv
  <2> QED BY <2>1, <2>2, <2>3, <2>4, <2>5 DEF TypeOK, Posted
<1>2. NoOrphans'
  BY DEF TypeOK, NoOrphans, IdInv, TxInv, Staged, Posted, NoJob, NoId
<1>3. EditInv'
  BY DEF TypeOK, EditInv, IdInv, Posted, Text
<1>4. IdInv'
  BY DEF TypeOK, IdInv, TxInv, Staged, Posted, NoJob, JobId, EmployerId, NoId
<1>5. TxInv'
  BY DEF TypeOK, TxInv, Staged, Posted, Request, Pc
<1>6. KeptInv'
  BY DEF TypeOK, NoOrphans, IdInv, TxInv, Staged, KeptInv, Posted, NoJob,
     JobId, EmployerId, NoId
<1> QED BY <1>1, <1>2, <1>3, <1>4, <1>5, <1>6


LEMMA EditLookupKeeps ==
  ASSUME IInv, NEW r \in Requests, NEW e \in EmployerId, NEW j \in JobId, NEW patch \in Text, EditLookup(r, e, j, patch)
  PROVE  IInv'
<1> USE Ids, Absent, AbsentValues
<1> USE DEF IInv, EditLookup, Free, Fill, Merge, Idle
<1>1. TypeOK'
  <2>1. Merge(jobs[j], patch) \in Job
    <3>1. jobs[j] \in Job
      BY DEF TypeOK
    <3>2. jobs[j].text \in Text
      BY <3>1 DEF Job
    <3>3. Merge(jobs[j], patch).text \in Text
      BY <3>1, <3>2 DEF Job, Text
    <3> QED BY <3>1, <3>3 DEF Job
  <2>2. req' \in [Requests -> Request]
    BY <2>1 DEF TypeOK, Request, Pc
  <2> QED BY <2>1, <2>2 DEF TypeOK, Posted
<1>2. NoOrphans'
  BY DEF TypeOK, NoOrphans, IdInv, TxInv, Staged, Posted, NoJob, NoId
<1>3. EditInv'
  <2>1. Merge(jobs[j], patch).text \in [Columns -> Texts]
    BY DEF TypeOK, Text, Posted, Job
  <2>2. /\ Merge(jobs[j], patch).born = j
        /\ j \in 1 .. lastJob
        /\ e # NoId
    BY DEF TypeOK, IdInv, Posted, Job, JobId, EmployerId
  <2> QED BY <2>1, <2>2 DEF TypeOK, EditInv
<1>4. IdInv'
  BY DEF TypeOK, IdInv, TxInv, Staged, Posted, NoJob, JobId, EmployerId, NoId
<1>5. TxInv'
  BY DEF TypeOK, TxInv, Staged, Posted, Request, Pc
<1>6. KeptInv'
  BY DEF TypeOK, NoOrphans, IdInv, TxInv, Staged, KeptInv, Posted, NoJob,
     JobId, EmployerId, NoId
<1> QED BY <1>1, <1>2, <1>3, <1>4, <1>5, <1>6


LEMMA EditWriteKeeps ==
  ASSUME IInv, NEW r \in Requests, EditWrite(r)
  PROVE  IInv'
<1> USE Ids, Absent, AbsentValues
<1> USE DEF IInv, EditWrite, Free, JobUpdate, Idle
<1>1. TypeOK'
  <2>1. req' \in [Requests -> Request]
    BY DEF TypeOK
  <2>2. jobs' \in [JobId -> Job]
    <3>1. req[r].row \in Job
      BY DEF TypeOK, Request
    <3>2. \A j \in JobId : [jobs[j] EXCEPT !.text = req[r].row.text] \in Job
      BY <3>1 DEF TypeOK, Job
    <3> QED BY <3>2 DEF TypeOK
  <2>3. \A k \in Posted' : jobs'[k].text \in [Columns -> Texts]
    BY DEF TypeOK, EditInv, Posted, Job, Request
  <2> QED BY <2>1, <2>2, <2>3 DEF TypeOK, Posted
<1>2. NoOrphans'
  BY DEF TypeOK, NoOrphans, IdInv, TxInv, Staged, Posted, NoJob, NoId
<1>3. EditInv'
  BY DEF TypeOK, EditInv, IdInv, Posted, Text
<1>4. IdInv'
  <2>1. \A j \in JobId :
          jobs'[j].owner = jobs[j].owner /\ jobs'[j].born = jobs[j].born
    BY DEF TypeOK, Job
  <2>2. \A j \in JobId \ Posted : jobs'[j] = jobs[j]
    BY DEF TypeOK, EditInv, Posted
  <2> QED BY <2>1, <2>2 DEF TypeOK, IdInv, Posted
<1>5. TxInv'
  BY DEF TypeOK, TxInv, Staged, Posted, Request, Pc
<1>6. KeptInv'
  BY DEF TypeOK, NoOrphans, IdInv, TxInv, Staged, KeptInv, Posted, NoJob,
     JobId, EmployerId, NoId
<1> QED BY <1>1, <1>2, <1>3, <1>4, <1>5, <1>6


LEMMA EditFailsKeeps ==
  ASSUME IInv, NEW r \in Requests, EditFails(r)
  PROVE  IInv'
<1> USE Ids, Absent, AbsentValues
<1> USE DEF IInv, EditFails, Idle
<1>1. TypeOK'
  BY DEF TypeOK, Posted, Job, Request, Pc, Text, Status, NoJob, EmployerId,
     JobId, NoId
<1>2. NoOrphans'
  BY DEF TypeOK, NoOrphans, IdInv, TxInv, Staged, Posted, NoJob, NoId
<1>3. EditInv'
  BY DEF TypeOK, EditInv, IdInv, Posted, Text
<1>4. IdInv'
  BY DEF TypeOK, IdInv, TxInv, Staged, Posted, NoJob, JobId, EmployerId, NoId
<1>5. TxInv'
  BY DEF TypeOK, TxInv, Staged, Posted, Request, Pc
<1>6. KeptInv'
  BY DEF TypeOK, NoOrphans, IdInv, TxInv, Staged, KeptInv, Posted, NoJob,
     JobId, EmployerId, NoId
<1> QED BY <1>1, <1>2, <1>3, <1>4, <1>5, <1>6


LEMMA RemoveKeeps ==
  ASSUME IInv, NEW j \in JobId, Remove(j)
  PROVE  IInv'
<1> USE Ids, Absent, AbsentValues
<1> USE DEF IInv, Remove, Free
<1>1. TypeOK'
  <2>1. jobs[j].born \in JobId
    BY DEF IdInv, Posted
  <2>2. jobs' \in [JobId -> Job]
    BY DEF TypeOK
  <2>3. \A k \in Posted' : jobs'[k].text \in [Columns -> Texts]
    BY DEF TypeOK, Posted, NoJob
  <2> QED BY <2>1, <2>2, <2>3 DEF TypeOK, Posted
<1>2. NoOrphans'
  BY DEF TypeOK, NoOrphans, IdInv, TxInv, Staged, Posted, NoJob, NoId
<1>3. EditInv'
  BY DEF TypeOK, EditInv, IdInv, Posted, Text
<1>4. IdInv'
  BY DEF TypeOK, IdInv, TxInv, Staged, Posted, NoJob, JobId, EmployerId, NoId
<1>5. TxInv'
  BY DEF TypeOK, TxInv, Staged, Posted, Request, Pc
<1>6. KeptInv'
  BY DEF TypeOK, NoOrphans, IdInv, TxInv, Staged, KeptInv, Posted, NoJob,
     JobId, EmployerId, NoId
<1> QED BY <1>1, <1>2, <1>3, <1>4, <1>5, <1>6


LEMMA SetStatusKeeps ==
  ASSUME IInv, NEW j \in JobId, NEW s \in Status, SetStatus(j, s)
  PROVE  IInv'
<1> USE Ids, Absent, AbsentValues
<1> USE DEF IInv, SetStatus, Free
<1>1. TypeOK'
  <2>1. jobs[j] \in Job
    BY DEF TypeOK
  <2>2. [jobs[j] EXCEPT !.status = s] \in Job
    BY <2>1 DEF Job
  <2>3. jobs' = [jobs EXCEPT ![j] = [jobs[j] EXCEPT !.status = s]]
    BY <2>1 DEF TypeOK, Job
  <2>4. jobs' \in [JobId -> Job]
    BY <2>2, <2>3 DEF TypeOK
  <2>5. \A k \in JobId : /\ jobs'[k].text = jobs[k].text
                         /\ jobs'[k].owner = jobs[k].owner
    BY <2>1, <2>3 DEF TypeOK, Job
  <2> QED BY <2>4, <2>5 DEF TypeOK, Posted
<1>2. NoOrphans'
  BY DEF TypeOK, NoOrphans, IdInv, TxInv, Staged, Posted, NoJob, NoId
<1>3. EditInv'
  BY DEF TypeOK, EditInv, IdInv, Posted, Text
<1>4. IdInv'
  BY DEF TypeOK, IdInv, TxInv, Staged, Posted, NoJob, JobId, EmployerId, NoId
<1>5. TxInv'
  BY DEF TypeOK, TxInv, Staged, Posted, Request, Pc
<1>6. KeptInv'
  BY DEF TypeOK, NoOrphans, IdInv, TxInv, Staged, KeptInv, Posted, NoJob,
     JobId, EmployerId, NoId
<1> QED BY <1>1, <1>2, <1>3, <1>4, <1>5, <1>6


LEMMA CrashKeeps ==
  ASSUME IInv, Crash
  PROVE  IInv'
<1> USE Ids, Absent, AbsentValues
<1> USE DEF IInv, Crash, Idle, NoTx
<1>1. TypeOK'
  BY DEF TypeOK, Posted, Job, Request, Pc, Text, Status, NoJob, EmployerId,
     JobId, NoId
<1>2. NoOrphans'
  BY DEF TypeOK, NoOrphans, IdInv, TxInv, Staged, Posted, NoJob, NoId
<1>3. EditInv'
  BY DEF TypeOK, EditInv, IdInv, Posted, Text
<1>4. IdInv'
  BY DEF TypeOK, IdInv, TxInv, Staged, Posted, NoJob, JobId, EmployerId, NoId
<1>5. TxInv'
  BY DEF TypeOK, TxInv, Staged, Posted, Request, Pc
<1>6. KeptInv'
  BY DEF TypeOK, NoOrphans, IdInv, TxInv, Staged, KeptInv, Posted, NoJob,
     JobId, EmployerId, NoId
<1> QED BY <1>1, <1>2, <1>3, <1>4, <1>5, <1>6

LEMMA StutterKeeps == ASSUME IInv, UNCHANGED vars PROVE IInv'
BY DEF IInv, vars, TypeOK, NoOrphans, EditInv, IdInv, TxInv, Staged, KeptInv,
       Posted

LEMMA StepKeeps == ASSUME IInv, [Next]_vars PROVE IInv'
<1>1. ASSUME NEW r \in Requests, Handles(r) PROVE IInv'
  BY <1>1, TxBeginKeeps, TxDeleteJobsKeeps, TxDeleteClientKeeps, TxCommitKeeps,
     TxRollbackKeeps, EditLookupKeeps, EditWriteKeeps, EditFailsKeeps
     DEF Handles, TxStep
<1>2. CASE AtOnce
  BY <1>2, EmployerCreatedKeeps, CreateJobKeeps, RemoveKeeps, SetStatusKeeps
     DEF AtOnce, DeleteJob, DeleteAdmin
<1> QED BY <1>1, <1>2, CrashKeeps, StutterKeeps DEF Next

(* IInv holds throughout, whatever the interleaving of deletes, edits,     *)
(* posts, decisions and crashes.                                           *)
THEOREM Inductive == Spec => []IInv
BY InitOK, StepKeeps, PTL DEF Spec

-----------------------------------------------------------------------------
(***************************************************************************)
(* What follows from it.                                                   *)
(***************************************************************************)

(* Every variable has its type and no edit blanks a column.                *)
THEOREM TypeCorrect == Spec => []TypeOK
<1>1. IInv => TypeOK
  BY DEF IInv
<1> QED BY <1>1, Inductive, PTL

(* Every job belongs to an employer that exists.                           *)
THEOREM JobsHaveOwners == Spec => []NoOrphans
<1>1. IInv => NoOrphans
  BY DEF IInv
<1> QED BY <1>1, Inductive, PTL

(* An employer's deletion takes all of its jobs or none.                   *)
THEOREM DeletesAreAtomic == Spec => []DeleteIsAtomic
<1>1. IInv => DeleteIsAtomic
  BY Ids DEF IInv, TypeOK, IdInv, KeptInv, DeleteIsAtomic, Posted, JobId
<1> QED BY <1>1, Inductive, PTL

(* An edit writes to the job it read, or to none.                          *)
THEOREM EditsHitTheirJob == Spec => []EditIdentity
<1>1. IInv => EditIdentity
  BY DEF IInv, IdInv, EditInv, EditIdentity
<1> QED BY <1>1, Inductive, PTL

(* Only a moderator's decision changes the status of a job.                *)
THEOREM DecisionsStand == Spec => ModerationSticks
<1> DEFINE Changed(j) == jobs'[j].owner # NoId /\ jobs'[j].status # jobs[j].status
<1> DEFINE Stands == \A j \in Posted : Changed(j) => \E s \in Status : SetStatus(j, s)
<1>1. ASSUME IInv, Next, NEW j \in Posted, Changed(j)
      PROVE  \E s \in Status : SetStatus(j, s)
  <2> USE DEF IInv
  <2>1. ASSUME NEW r \in Requests, Handles(r) PROVE FALSE
    <3>1. \A k \in JobId : jobs'[k] = jobs[k] \/ jobs'[k] = NoJob
                             \/ jobs'[k].status = jobs[k].status
      <4>1. CASE TxCommit(r)
        <5>1. tx = Staged("delete.commit", req[r].emp) /\ jobs' = tx.jobs
          BY <1>1, <4>1 DEF TxCommit, TxInv
        <5> QED BY ONLY <5>1 DEF Staged
      <4>2. CASE EditWrite(r)
        BY <4>2 DEF EditWrite, JobUpdate, TypeOK, Job
      <4>3. CASE jobs' = jobs
        BY <4>3
      <4> QED
        BY <2>1, <4>1, <4>2, <4>3 DEF Handles, TxBegin, TxStep, TxDeleteJobs,
           TxDeleteClient, TxRollback, EditLookup, EditFails
    <3> QED BY <1>1, <3>1, Absent DEF Posted
  <2>2. CASE AtOnce
    <3>1. ASSUME NEW k \in JobId, Remove(k) PROVE FALSE
      BY <1>1, <3>1, Absent DEF Remove, TypeOK, Posted
    <3>2. ASSUME NEW e \in EmployerId, NEW text \in [Columns -> Texts],
                 CreateJob(e, text)
          PROVE  FALSE
      BY <1>1, <3>2 DEF CreateJob, NextJob, IdInv, TypeOK, Posted
    <3>3. ASSUME NEW k \in JobId, NEW s \in Status, SetStatus(k, s)
          PROVE  SetStatus(j, s)
      BY <1>1, <3>3 DEF SetStatus, TypeOK, Posted
    <3> QED BY <1>1, <2>2, <3>1, <3>2, <3>3
            DEF AtOnce, EmployerCreated, DeleteJob, DeleteAdmin
  <2> QED BY <1>1, <2>1, <2>2 DEF Next, Crash
<1>2. IInv /\ [Next]_vars => [Stands]_vars
  BY <1>1
<1> QED BY <1>2, Inductive, PTL DEF Spec, ModerationSticks

-----------------------------------------------------------------------------
(***************************************************************************)
(* Refinement: every step is a step of Listings, or changes nothing there. *)
(***************************************************************************)

LEMMA PromiseInit == Init => Promise!Init
BY DEF Init, Promise!Init

LEMMA PromiseSame ==
  ASSUME UNCHANGED <<employers, lastEmp, jobs, lastJob>>
  PROVE  UNCHANGED Promise!vars
BY DEF Promise!vars

LEMMA PromiseStep == ASSUME IInv, [Next]_vars PROVE [Promise!Next]_(Promise!vars)
<1> USE Ids, Absent
<1> USE DEF IInv
<1> DEFINE Board == [j \in JobId |-> Shown(jobs[j])]
<1>1. CASE EmployerCreated
  <2>1. lastEmp + 1 \in EmployerId
    BY <1>1 DEF EmployerCreated, TypeOK, EmployerId
  <2>2. /\ 1 .. lastEmp + 1 = (1 .. lastEmp) \cup {lastEmp + 1}
        /\ lastEmp + 1 \notin 1 .. lastEmp
    BY DEF TypeOK
  <2>3. Promise!Join(lastEmp + 1)
    BY <1>1, <2>2 DEF EmployerCreated, Promise!Join
  <2> QED BY <2>1, <2>3 DEF Promise!Next
<1>2. ASSUME NEW r \in Requests, TxCommit(r) PROVE Promise!Next
  <2> DEFINE e == req[r].emp
  <2>1. /\ employers' = employers \ {e}
        /\ jobs' = [j \in JobId |->
             IF jobs[j].owner = e THEN NoJob ELSE jobs[j]]
        /\ e \in EmployerId
        /\ lastEmp' = lastEmp /\ lastJob' = lastJob
    BY <1>2 DEF TxCommit, TxInv, Staged, TypeOK, Request
  <2>2. Promise!Leave(e)
    BY <2>1 DEF Promise!Leave, Shown
  <2> QED BY <2>1, <2>2 DEF Promise!Next
<1>3. ASSUME NEW e \in EmployerId, NEW text \in [Columns -> Texts],
             CreateJob(e, text)
      PROVE  Promise!Next
  <2>1. lastJob + 1 \in JobId /\ lastJob + 1 \notin 1 .. lastJob
    BY <1>3 DEF CreateJob, IdInv, TypeOK, JobId
  <2>2. 1 .. lastJob + 1 = (1 .. lastJob) \cup {lastJob + 1}
    <3>1. lastJob \in Nat
      BY DEF TypeOK
    <3> QED BY ONLY <3>1
  <2>3. [k \in JobId |-> Shown(jobs'[k])] =
          [Board EXCEPT ![lastJob + 1] =
             [owner |-> e, text |-> text, status |-> "pending"]]
    BY <1>3, <2>1 DEF CreateJob, NextJob, Shown, TypeOK
  <2>4. Promise!Post(e, lastJob + 1, text)
    BY <1>3, <2>1, <2>2, <2>3 DEF CreateJob, OwnerExists, NextJob, Promise!Post
  <2> QED BY <2>1, <2>4 DEF Promise!Next
<1>4. ASSUME NEW r \in Requests, EditWrite(r) PROVE [Promise!Next]_(Promise!vars)
  <2> DEFINE q == req[r]
  <2>1. q.job \in JobId /\ q.row.text \in [Columns -> Texts] /\ q.emp # NoId
    BY <1>4 DEF EditWrite, EditInv, TypeOK, JobId
  <2>2. CASE jobs[q.job].owner = q.emp
    <3>1. Promise!Edit(q.job, q.row.text)
      BY <1>4, <2>1, <2>2
         DEF EditWrite, JobUpdate, Promise!Edit, Shown, TypeOK, Job
    <3>2. q.job \in Promise!Listed
      BY <2>1, <2>2 DEF Promise!Listed, Shown
    <3> QED BY <2>1, <3>1, <3>2 DEF Promise!Next
  <2>3. CASE jobs[q.job].owner # q.emp
    <3>1. jobs' = jobs
      BY <1>4, <2>3 DEF EditWrite, JobUpdate, TypeOK
    <3> QED BY <1>4, <3>1, PromiseSame DEF EditWrite
  <2> QED BY <2>2, <2>3
<1>5. ASSUME NEW j \in JobId, Remove(j) PROVE Promise!Next
  <2>1. Promise!Remove(j)
    BY <1>5 DEF Remove, Promise!Remove, TypeOK, Shown
  <2>2. j \in Promise!Listed
    BY <1>5 DEF Remove, Posted, Promise!Listed, Shown
  <2> QED BY <2>1, <2>2 DEF Promise!Next
<1>6. ASSUME NEW j \in JobId, NEW s \in Status, SetStatus(j, s)
      PROVE  Promise!Next
  <2>1. Promise!Decide(j, s)
    BY <1>6 DEF SetStatus, Promise!Decide, TypeOK, Job, Shown
  <2>2. j \in Promise!Listed
    BY <1>6 DEF SetStatus, Posted, Promise!Listed, Shown
  <2> QED BY <1>6, <2>1, <2>2 DEF Promise!Next, SetStatus
<1>7. ASSUME NEW r \in Requests, Handles(r) PROVE [Promise!Next]_(Promise!vars)
  BY <1>7, <1>2, <1>4, PromiseSame
     DEF Handles, TxStep, TxBegin, TxDeleteJobs, TxDeleteClient, TxRollback,
         EditLookup, EditFails
<1>8. CASE AtOnce
  BY <1>8, <1>1, <1>3, <1>5, <1>6 DEF AtOnce, DeleteJob, DeleteAdmin
<1>9. CASE Crash \/ UNCHANGED vars
  BY <1>9, PromiseSame DEF Crash, vars
<1> QED BY <1>7, <1>8, <1>9 DEF Next

(* The job board implements Listings.                                      *)
THEOREM Refines == Spec => KeepsPromise
BY PromiseInit, PromiseStep, Inductive, PTL DEF Spec, KeepsPromise, Promise!Spec

=============================================================================
