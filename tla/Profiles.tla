------------------------------- MODULE Profiles -------------------------------
(***************************************************************************)
(* The company profiles and the public page made of them: who edits the    *)
(* profile columns of CLIENTS (UpdateMe in internal/handlers/company.go,   *)
(* UpdateEmployer in admin.go, both over ClientRepo.Update), and the       *)
(* directory of employers (ListPublicEmployers), which asks for a          *)
(* verified account, a name, and an approved job.                          *)
(*                                                                         *)
(* An edit names some columns, writes only these in one UPDATE, and then   *)
(* reads the row again to answer with it.  Other edits, and the deletion   *)
(* of the account, may come in between.  An id is never used twice         *)
(* (Accounts, HandleIdentity) and an account goes with its jobs in one     *)
(* step (JobBoard, KeepsPromise).                                          *)
(***************************************************************************)
EXTENDS Functions

CONSTANTS
  Clients,   \* ids of CLIENTS
  Jobs,      \* ids of JOBSAPPS
  Texts,     \* what a column may say, Blank apart
  Blank,     \* an empty column; company_name only has it in old rows
  Requests   \* slots for edits in flight at once

ASSUME BlankIsNoText == Blank \notin Texts

Column  == {"company_name", "company_bio"}
Profile == [Column -> Texts \cup {Blank}]
None    == << >>

(* what an edit names *)
Edit == UNION {[S -> Texts \cup {Blank}] : S \in SUBSET Column}

VARIABLES
  clients,   \* the profile of each row; None without a row
  verified,  \* the ids with verified = 1
  jobs,      \* each job's owner and status; None without a row
  gone,      \* ids used and deleted
  req        \* edits in flight, and the last answer of each slot

profilesVars == <<clients, verified, jobs, gone, req>>

Live   == {c \in Clients : clients[c] # None}
Posted == {j \in Jobs : jobs[j] # None}
Idle   == [op |-> "idle"]

(* A database from before the profiles has rows without a name. *)
ProfilesInit ==
  /\ clients \in [Clients -> {None, [c \in Column |-> Blank]}]
  /\ verified \in SUBSET Live
  /\ jobs = [j \in Jobs |-> None]
  /\ gone = {}
  /\ req = [r \in Requests |-> Idle]

-----------------------------------------------------------------------------
(***************************************************************************)
(* Plausible mistakes, for the mutation runs.                              *)
(***************************************************************************)

(* the loop over the sets forgets the name when the bio is there *)
Updated_OneColumn(p, e) ==
  [c \in Column |-> IF c \in DOMAIN e /\ (c = "company_bio" \/ "company_bio" \notin DOMAIN e)
                    THEN e[c] ELSE p[c]]

(* an edit may empty the name *)
Valid_EmptyName(e) == TRUE

-----------------------------------------------------------------------------
(* UpdateMe and UpdateEmployer refuse a name that is blank; the other      *)
(* columns may be emptied *)
Valid(e) == "company_name" \in DOMAIN e => e["company_name"] # Blank

(* the UPDATE that ClientRepo.Update puts together *)
Updated(p, e) == [c \in Column |-> IF c \in DOMAIN e THEN e[c] ELSE p[c]]

(* ClientRepo.Update as r runs it: no row is no error, and no column is no *)
(* statement.  r waits to read its row, and every edit that does remembers *)
(* (history) what its columns have said since. *)
RunUpdate(r, id, e) ==
  /\ clients' = IF id \in Live
                THEN [clients EXCEPT ![id] = Updated(@, e)] ELSE clients
  /\ req' = [q \in Requests |->
       IF q = r
       THEN [op |-> "read", id |-> id, edit |-> e, seen |-> [c \in DOMAIN e |-> {e[c]}]]
       ELSE IF req[q].op = "read" /\ req[q].id = id
       THEN [req[q] EXCEPT !.seen = [c \in DOMAIN @ |->
              IF c \in DOMAIN e THEN @[c] \cup {e[c]} ELSE @[c]]]
       ELSE req[q]]

(* Signup and CreateEmployer want a name; Signup drops the rest of the     *)
(* profile it has checked *)
Signup(id, name) ==
  /\ id \notin Live \cup gone
  /\ clients' = [clients EXCEPT ![id] = Updated([c \in Column |-> Blank],
                                                [c \in {"company_name"} |-> name])]
  /\ UNCHANGED <<verified, jobs, gone, req>>

CreateEmployer(id, p) ==
  /\ id \notin Live \cup gone
  /\ p["company_name"] # Blank
  /\ clients' = [clients EXCEPT ![id] = p]
  /\ verified' = verified \cup {id}
  /\ UNCHANGED <<jobs, gone, req>>

(* by a JWT, whose account may be gone *)
UpdateMe(r, id, e) ==
  /\ req[r].op \in {"idle", "done"}
  /\ id \in Live \cup gone
  /\ Valid(e)
  /\ RunUpdate(r, id, e)
  /\ UNCHANGED <<verified, jobs, gone>>

UpdateEmployerLookup(r, id, e) ==
  /\ req[r].op \in {"idle", "done"}
  /\ Valid(e)
  /\ id \in Live
  /\ req' = [req EXCEPT ![r] = [op |-> "write", id |-> id, edit |-> e]]
  /\ UNCHANGED <<clients, verified, jobs, gone>>

UpdateEmployerWrite(r) ==
  /\ req[r].op = "write"
  /\ RunUpdate(r, req[r].id, req[r].edit)
  /\ UNCHANGED <<verified, jobs, gone>>

(* the database refuses the UPDATE: "update failed" and nothing is written *)
UpdateFails(r) ==
  /\ req[r].op = "write"
  /\ req' = [req EXCEPT ![r] = Idle]
  /\ UNCHANGED <<clients, verified, jobs, gone>>

(* the second half of both: FindByID, whose error is ignored; the answer   *)
(* is null then, as it is when the account has gone *)
ReadBack(r) ==
  /\ req[r].op = "read"
  /\ \E reply \in {clients[req[r].id], None} :
       req' = [req EXCEPT ![r] = [op |-> "done", id |-> @.id, edit |-> @.edit,
                                  seen |-> @.seen, reply |-> reply]]
  /\ UNCHANGED <<clients, verified, jobs, gone>>

(* SetVerified, and VerifyEmployer with either value *)
SetVerified(id, value) ==
  /\ id \in Live
  /\ verified' = IF value THEN verified \cup {id} ELSE verified \ {id}
  /\ UNCHANGED <<clients, jobs, gone, req>>

DeleteEmployer(id) ==
  /\ id \in Live
  /\ clients' = [clients EXCEPT ![id] = None]
  /\ verified' = verified \ {id}
  /\ jobs' = [j \in Jobs |-> IF j \in Posted /\ jobs[j].owner = id THEN None ELSE jobs[j]]
  /\ gone' = gone \cup {id}
  /\ UNCHANGED req

CreateJob(j, id) ==
  /\ j \notin Posted /\ id \in Live
  /\ jobs' = [jobs EXCEPT ![j] = [owner |-> id, status |-> "pending"]]
  /\ UNCHANGED <<clients, verified, gone, req>>

UpdateStatus(j, status) ==
  /\ j \in Posted
  /\ jobs' = [jobs EXCEPT ![j].status = status]
  /\ UNCHANGED <<clients, verified, gone, req>>

DeleteJob(j) ==
  /\ j \in Posted
  /\ jobs' = [jobs EXCEPT ![j] = None]
  /\ UNCHANGED <<clients, verified, gone, req>>

ProfilesNext ==
  \/ \E id \in Clients :
       \/ \E name \in Texts : Signup(id, name)
       \/ \E p \in Profile : CreateEmployer(id, p)
       \/ \E value \in BOOLEAN : SetVerified(id, value)
       \/ DeleteEmployer(id)
       \/ \E r \in Requests, e \in Edit :
            UpdateMe(r, id, e) \/ UpdateEmployerLookup(r, id, e)
       \/ \E j \in Jobs : CreateJob(j, id)
  \/ \E r \in Requests : UpdateEmployerWrite(r) \/ UpdateFails(r) \/ ReadBack(r)
  \/ \E j \in Jobs :
       \/ \E status \in {"approved", "rejected"} : UpdateStatus(j, status)
       \/ DeleteJob(j)

ProfilesSpec == ProfilesInit /\ [][ProfilesNext]_profilesVars

-----------------------------------------------------------------------------
(***************************************************************************)
(* The public directory.                                                   *)
(***************************************************************************)

Approved == {j \in Posted : jobs[j].status = "approved"}

(* ListPublicEmployers *)
Listed == {c \in Live : /\ c \in verified
                        /\ clients[c]["company_name"] # Blank
                        /\ \E j \in Approved : jobs[j].owner = c}

-----------------------------------------------------------------------------
(***************************************************************************)
(* Correctness.                                                            *)
(***************************************************************************)

(* a slot: an edit that waits to write or to read, or an answer *)
EditOK(q) ==
  \/ q = Idle
  \/ /\ q.id \in Clients /\ q.edit \in Edit
     /\ \/ q = [op |-> "write", id |-> q.id, edit |-> q.edit]
        \/ /\ q.seen \in [DOMAIN q.edit -> SUBSET (Texts \cup {Blank})]
           /\ \/ q = [op |-> "read", id |-> q.id, edit |-> q.edit, seen |-> q.seen]
              \/ /\ q = [op |-> "done", id |-> q.id, edit |-> q.edit,
                         seen |-> q.seen, reply |-> q.reply]
                 /\ q.reply \in Profile \cup {None}

TypeOK ==
  /\ clients \in [Clients -> Profile \cup {None}]
  /\ verified \in SUBSET Live
  /\ jobs \in [Jobs -> [owner : Clients, status : {"pending", "approved", "rejected"}]
                         \cup {None}]
  /\ gone \in SUBSET (Clients \ Live)
  /\ req = [r \in Requests |-> req[r]] /\ \A r \in Requests : EditOK(req[r])

(* A profile an edit answers with is one it made: each column it named     *)
(* says what it wrote, or what a later edit of the same column wrote;      *)
(* edits of other columns, by the employer and by admins at once, disturb  *)
(* nothing, and no edit answers with a row that is none of its doing.      *)
AnswersItsEdit ==
  \A r \in Requests : req[r].op = "done" /\ req[r].reply # None =>
    \A c \in DOMAIN req[r].edit : req[r].reply[c] \in req[r].seen[c]

(* Who is in the directory stays there until an admin withdraws the        *)
(* verification, its last approved job goes, or it is deleted: no edit of  *)
(* a profile takes an employer out (company_name != '' in the query, and   *)
(* four handlers that refuse a blank name). *)
StaysListed ==
  [][\A c \in Listed :
       c \in verified' /\ (\E j \in Approved' : jobs'[j].owner = c) => c \in Listed']_profilesVars

-----------------------------------------------------------------------------
(***************************************************************************)
(* The inductive invariant.                                                *)
(***************************************************************************)

(* an edit is of a row that is there or was; what it will write is valid,  *)
(* and what it will read it has seen *)
EditsInv ==
  \A r \in Requests :
    /\ req[r] # Idle => req[r].id \in Live \cup gone
    /\ req[r].op = "write" => Valid(req[r].edit)
    /\ req[r].op = "read" /\ req[r].id \in Live =>
         \A c \in DOMAIN req[r].edit : clients[req[r].id][c] \in req[r].seen[c]

ProfilesIInv ==
  /\ TypeOK
  /\ EditsInv
  /\ AnswersItsEdit
=============================================================================
