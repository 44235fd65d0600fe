-------------------------------- MODULE Admins --------------------------------
(***************************************************************************)
(* The administrators' accounts: the ADMINS table, the handlers that use   *)
(* it (internal/handlers/admin.go over internal/repository/admin.go), and  *)
(* the seed-admin command, a second process that writes the same table     *)
(* (cmd/server/main.go).                                                   *)
(*                                                                         *)
(* An address may be spelled in several ways (case, blanks around it).     *)
(* UNIQUE and WHERE compare the text as it is, so one person is one row,   *)
(* and is found again, only because everything that writes or looks up an  *)
(* address normalises it first, in two files.                              *)
(*                                                                         *)
(* A role has a default in four places: CreateAdmin takes moderator, the   *)
(* repository, the column and Login take super_admin.                      *)
(***************************************************************************)
EXTENDS Integers

CONSTANTS
  People,      \* whose address it is
  Passwords,   \* passwords
  Requests,    \* slots for requests in flight at once
  MaxAdmins    \* bound: INSERTs into ADMINS

ASSUME Bounds == MaxAdmins \in Nat

AdminId == 1 .. MaxAdmins
NoId    == 0
Role    == {"super_admin", "moderator"}

(* an address as it is typed; plain is lower case without blanks *)
Address == [person : People, plain : BOOLEAN]

(* A row, and what is known of its making (history): the role that was     *)
(* asked for, "seed" for the command, and the admin who asked.             *)
Row == [email : Address, password : Passwords, role : Role,
        asked : Role \cup {"none", "seed"}, creator : AdminId \cup {NoId}]

VARIABLES
  admins,    \* ADMINS, by id
  sessions,  \* JWTs issued: an id and the role at the login
  req,       \* requests in flight
  had        \* history: the passwords each admin has had

vars == <<admins, sessions, req, had>>

Live == DOMAIN admins
Idle == [op |-> "idle"]

(***************************************************************************)
(* A login that found its row; a change of password that did.              *)
(***************************************************************************)
Request ==
  {Idle}
  \cup [op : {"login"}, id : AdminId, role : Role]
  \cup [op : {"change"}, id : AdminId, given : Passwords, new : Passwords]

Init ==
  /\ admins = << >>
  /\ sessions = {}
  /\ req = [r \in Requests |-> Idle]
  /\ had = [i \in AdminId |-> {}]

-----------------------------------------------------------------------------
(***************************************************************************)
(* Plausible mistakes, for the mutation runs.                              *)
(***************************************************************************)

(* runSeed stores the address as it was typed *)
SeedAddress_AsTyped(a) == a

(* CreateAdmin leaves the default to the repository *)
AskedRole_None(role) == role

(* the answer of CompareHashAndPassword is dropped *)
Matches_Anything(id, password) == id \in Live

-----------------------------------------------------------------------------
(* NormalizeEmail, and what runSeed does instead of calling it: ToLower of *)
(* TrimSpace, both *)
NormalizeEmail(a) == [a EXCEPT !.plain = TRUE]
SeedAddress(a)    == [a EXCEPT !.plain = TRUE]

(* the handler's default for a role that is not named, and the             *)
(* repository's *)
AskedRole(role)  == IF role = "none" THEN "moderator" ELSE role
StoredRole(role) == IF role = "none" THEN "super_admin" ELSE role

(* UNIQUE *)
Taken(a) == \E i \in Live : admins[i].email = a

(* bcrypt.CompareHashAndPassword *)
Matches(id, password) == id \in Live /\ admins[id].password = password

(* INSERT INTO ADMINS; nothing deletes an admin, so AUTOINCREMENT counts   *)
(* the rows *)
Insert(a, password, role, asked, creator) ==
  \E id \in AdminId \ Live :
    /\ \A i \in AdminId : i < id => i \in Live
    /\ ~Taken(a)
    /\ admins' = [i \in Live \cup {id} |->
         IF i = id THEN [email |-> a, password |-> password, role |-> role,
                         asked |-> asked, creator |-> creator]
         ELSE admins[i]]
    /\ had' = [had EXCEPT ![id] = {password}]

UpdatePassword(id, password) ==
  /\ admins' = [admins EXCEPT ![id].password = password]
  /\ had' = [had EXCEPT ![id] = @ \cup {password}]

(* the command: its INSERT names no role, the column's default is it *)
Seed(a, password) ==
  /\ Insert(SeedAddress(a), password, "super_admin", "seed", NoId)
  /\ UNCHANGED <<sessions, req>>

(* one statement; the route admits super admins only, by their JWT *)
CreateAdmin(s, a, password, role) ==
  /\ s \in sessions /\ s.role = "super_admin"
  /\ Insert(NormalizeEmail(a), password, StoredRole(AskedRole(role)), role, s.id)
  /\ UNCHANGED <<sessions, req>>

LoginLookup(r, a, password) ==
  /\ req[r] = Idle
  /\ \E id \in Live :
       /\ admins[id].email = NormalizeEmail(a)
       /\ Matches(id, password)
       /\ req' = [req EXCEPT ![r] =
            [op |-> "login", id |-> id, role |-> admins[id].role]]
  /\ UNCHANGED <<admins, sessions, had>>

LoginIssue(r) ==
  /\ req[r].op = "login"
  /\ sessions' = sessions \cup {[id |-> req[r].id, role |-> req[r].role]}
  /\ req' = [req EXCEPT ![r] = Idle]
  /\ UNCHANGED <<admins, had>>

ChangeLookup(r, s, given, new) ==
  /\ req[r] = Idle
  /\ s \in sessions
  /\ Matches(s.id, given)
  /\ req' = [req EXCEPT ![r] =
       [op |-> "change", id |-> s.id, given |-> given, new |-> new]]
  /\ UNCHANGED <<admins, sessions, had>>

(* by id, whatever the password is by now *)
ChangeWrite(r) ==
  /\ req[r].op = "change"
  /\ UpdatePassword(req[r].id, req[r].new)
  /\ req' = [req EXCEPT ![r] = Idle]
  /\ UNCHANGED sessions

(* an error before the next statement *)
Fails(r) ==
  /\ req[r] # Idle
  /\ req' = [req EXCEPT ![r] = Idle]
  /\ UNCHANGED <<admins, sessions, had>>

Crash ==
  /\ req' = [r \in Requests |-> Idle]
  /\ UNCHANGED <<admins, sessions, had>>

Next ==
  \/ \E a \in Address, password \in Passwords : Seed(a, password)
  \/ \E s \in sessions, a \in Address, password \in Passwords,
        role \in Role \cup {"none"} : CreateAdmin(s, a, password, role)
  \/ \E r \in Requests :
       \/ \E a \in Address, password \in Passwords : LoginLookup(r, a, password)
       \/ LoginIssue(r)
       \/ \E s \in sessions, given, new \in Passwords : ChangeLookup(r, s, given, new)
       \/ ChangeWrite(r)
       \/ Fails(r)
  \/ Crash

Spec == Init /\ [][Next]_vars

-----------------------------------------------------------------------------
(***************************************************************************)
(* Correctness.                                                            *)
(***************************************************************************)

TypeOK ==
  /\ Live \in SUBSET AdminId
  /\ admins \in [Live -> Row]
  /\ sessions \in SUBSET [id : AdminId, role : Role]
  /\ req \in [Requests -> Request]
  /\ had \in [AdminId -> SUBSET Passwords]

(* A person has one admin account, however its address was spelled to the  *)
(* command and to CreateAdmin, and a login finds it under every spelling   *)
(* (NormalizeEmail in admin.go, ToLower and TrimSpace in main.go, UNIQUE). *)
OneAccountEach ==
  /\ \A i, j \in Live : admins[i].email.person = admins[j].email.person => i = j
  /\ \A i \in Live, a \in Address :
       a.person = admins[i].email.person => admins[i].email = NormalizeEmail(a)

(* Nobody becomes a super admin by a default: each was seeded, or a super  *)
(* admin asked for that role by name.  (Of the four defaults the mildest   *)
(* comes first.)                                                           *)
NoEscalation ==
  \A i \in Live :
    /\ admins[i].role = "super_admin" => admins[i].asked \in {"seed", "super_admin"}
    /\ admins[i].asked # "seed" =>
         admins[i].creator \in Live /\ admins[admins[i].creator].role = "super_admin"

(* A password changes only at the hand of somebody logged in as this admin *)
(* who knew one it has had, through whatever requests were in flight       *)
(* (ChangePassword).                                                       *)
OwnPasswordOnly ==
  [][\A i \in Live :
       admins'[i].password # admins[i].password =>
         \E r \in Requests : /\ req[r].op = "change" /\ req[r].id = i
                             /\ req[r].given \in had[i]]_vars

-----------------------------------------------------------------------------
(***************************************************************************)
(* The inductive invariant.                                                *)
(***************************************************************************)

(* ids count the rows, and stored addresses are normalised *)
RowsInv ==
  /\ \A i \in Live, j \in AdminId : j < i => j \in Live
  /\ \A i \in Live : admins[i].email.plain

(* a JWT, and a login on its way to one, name a row and its role: no       *)
(* statement changes a role *)
ClaimsInv ==
  /\ \A s \in sessions : s.id \in Live /\ s.role = admins[s.id].role
  /\ \A r \in Requests : req[r].op = "login" =>
       req[r].id \in Live /\ req[r].role = admins[req[r].id].role

(* a change of password was asked for with a password of its account *)
ChangesInv ==
  /\ \A i \in Live : admins[i].password \in had[i]
  /\ \A r \in Requests : req[r].op = "change" =>
       req[r].id \in Live /\ req[r].given \in had[req[r].id]

IInv ==
  /\ TypeOK
  /\ RowsInv
  /\ ClaimsInv
  /\ ChangesInv
  /\ OneAccountEach
  /\ NoEscalation
=============================================================================
