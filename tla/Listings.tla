------------------------------ MODULE Listings ------------------------------
(***************************************************************************)
(* What the job board promises to whoever reads it (GET /jobs/public, the  *)
(* employers' and the moderators' lists): every change is one step, jobs   *)
(* leave with their employer, an edit never touches the moderator's        *)
(* decision, and an id, once given, means that job for ever.  JobBoard is  *)
(* shown to implement this.                                                *)
(***************************************************************************)
CONSTANTS
  EmployerId,  \* ids of employers
  JobId,       \* ids of jobs
  FullText,    \* the texts a listing can have
  NoJob        \* what is listed under an id that means no job

VARIABLES
  employers,  \* the employers there are
  joined,     \* the employers there ever were
  jobs,       \* what is listed under each id: owner, text and status
  used        \* the job ids ever given

vars == <<employers, joined, jobs, used>>

Listed == {j \in JobId : jobs[j] # NoJob}

Init ==
  /\ employers = {}
  /\ joined = {}
  /\ jobs = [j \in JobId |-> NoJob]
  /\ used = {}

Join(e) ==
  /\ e \notin joined
  /\ joined' = joined \cup {e}
  /\ employers' = employers \cup {e}
  /\ UNCHANGED <<jobs, used>>

(* Only an employer that exists posts, under an id never given before. *)
Post(e, j, text) ==
  /\ e \in employers
  /\ j \notin used
  /\ used' = used \cup {j}
  /\ jobs' = [jobs EXCEPT ![j] =
       [owner |-> e, text |-> text, status |-> "pending"]]
  /\ UNCHANGED <<employers, joined>>

Edit(j, text) ==
  /\ jobs' = [jobs EXCEPT ![j].text = text]
  /\ UNCHANGED <<employers, joined, used>>

Decide(j, s) ==
  /\ jobs' = [jobs EXCEPT ![j].status = s]
  /\ UNCHANGED <<employers, joined, used>>

Remove(j) ==
  /\ jobs' = [jobs EXCEPT ![j] = NoJob]
  /\ UNCHANGED <<employers, joined, used>>

(* An employer leaves with all of its jobs, in one step. *)
Leave(e) ==
  /\ employers' = employers \ {e}
  /\ jobs' = [j \in JobId |-> IF jobs[j].owner = e THEN NoJob ELSE jobs[j]]
  /\ UNCHANGED <<joined, used>>

Next ==
  \/ \E e \in EmployerId :
       \/ Join(e)
       \/ Leave(e)
       \/ \E j \in JobId, text \in FullText : Post(e, j, text)
  \/ \E j \in Listed :
       \/ \E text \in FullText : Edit(j, text)
       \/ \E s \in {"approved", "rejected"} : Decide(j, s)
       \/ Remove(j)

Spec == Init /\ [][Next]_vars
=============================================================================
