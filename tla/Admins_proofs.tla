---------------------------- MODULE Admins_proofs ----------------------------
(***************************************************************************)
(* Proofs about Admins, for any number of people, passwords, requests and  *)
(* accounts.                                                               *)
(***************************************************************************)
EXTENDS Admins, TLAPS

-----------------------------------------------------------------------------
(***************************************************************************)
(* The two writes.                                                         *)
(***************************************************************************)

(* What an INSERT of a normalised address makes of the invariant. *)
LEMMA InsertStep ==
  ASSUME IInv,
         NEW a \in Address, a.plain,
         NEW password \in Passwords, NEW role \in Role,
         NEW asked \in Role \cup {"none", "seed"}, NEW creator \in AdminId \cup {NoId},
         role = "super_admin" => asked \in {"seed", "super_admin"},
         asked # "seed" => creator \in Live /\ admins[creator].role = "super_admin",
         Insert(a, password, role, asked, creator),
         UNCHANGED <<sessions, req>>
  PROVE  /\ IInv'
         /\ \A i \in Live : admins'[i] = admins[i]
<1> PICK id \in AdminId \ Live :
      /\ \A i \in AdminId : i < id => i \in Live
      /\ ~Taken(a)
      /\ admins' = [i \in Live \cup {id} |->
           IF i = id THEN [email |-> a, password |-> password, role |-> role,
                           asked |-> asked, creator |-> creator]
           ELSE admins[i]]
      /\ had' = [had EXCEPT ![id] = {password}]
  BY DEF Insert
<1> USE DEF IInv
<1>1. Live' = Live \cup {id}
  BY DEF Live
<1>2. /\ admins'[id].email = a /\ admins'[id].role = role
      /\ admins'[id].asked = asked /\ admins'[id].creator = creator
      /\ admins'[id].password = password
      /\ \A i \in Live : i # id /\ admins'[i] = admins[i] /\ had'[i] = had[i]
      /\ had'[id] = {password}
  BY DEF TypeOK
<1>3. TypeOK'
  <2>1. [email |-> a, password |-> password, role |-> role,
         asked |-> asked, creator |-> creator] \in Row
    BY DEF Row
  <2>2. admins' \in [Live' -> Row]
    BY <1>1, <2>1 DEF TypeOK
  <2>3. Live' \in SUBSET AdminId
    BY <1>1 DEF TypeOK
  <2>4. had' \in [AdminId -> SUBSET Passwords]
    BY DEF TypeOK
  <2> QED BY <2>2, <2>3, <2>4 DEF TypeOK
<1>4. RowsInv'
  <2>1. ASSUME NEW i \in Live', NEW j \in AdminId, j < i PROVE j \in Live'
    BY <1>1, <2>1 DEF RowsInv
  <2>2. ASSUME NEW i \in Live' PROVE admins'[i].email.plain
    BY <1>1, <1>2, <2>2 DEF RowsInv
  <2> QED BY <2>1, <2>2 DEF RowsInv
<1>5. ClaimsInv'
  BY <1>1, <1>2 DEF ClaimsInv
<1>6. ChangesInv'
  BY <1>1, <1>2 DEF ChangesInv, TypeOK
<1>7. OneAccountEach'
  <2>1. ASSUME NEW i \in Live, admins[i].email.person = a.person PROVE FALSE
    <3>1. a \in Address /\ NormalizeEmail(a) = a
      BY DEF NormalizeEmail, Address
    <3>2. admins[i].email = a
      BY <2>1, <3>1 DEF OneAccountEach
    <3> QED BY <3>2 DEF Taken
  <2>2. ASSUME NEW i \in Live', NEW j \in Live',
               admins'[i].email.person = admins'[j].email.person
        PROVE  i = j
    BY <1>1, <1>2, <2>1, <2>2 DEF OneAccountEach
  <2>3. ASSUME NEW i \in Live', NEW b \in Address, b.person = admins'[i].email.person
        PROVE  admins'[i].email = NormalizeEmail(b)
    <3>1. CASE i = id
      <4>1. a.person = b.person
        BY <1>2, <2>3, <3>1
      <4>2. a = NormalizeEmail(b)
        BY <4>1 DEF NormalizeEmail, Address
      <4> QED BY <1>2, <3>1, <4>2
    <3>2. CASE i # id
      BY <1>1, <1>2, <2>3, <3>2 DEF OneAccountEach
    <3> QED BY <3>1, <3>2
  <2> QED BY <2>2, <2>3 DEF OneAccountEach
<1>8. NoEscalation'
  BY <1>1, <1>2 DEF NoEscalation
<1> QED BY <1>2, <1>3, <1>4, <1>5, <1>6, <1>7, <1>8

(* What a new password makes of it: the row is the same but for it. *)
LEMMA PasswordStep ==
  ASSUME IInv, NEW r \in Requests, ChangeWrite(r)
  PROVE  /\ IInv'
         /\ \A i \in Live : admins'[i].password # admins[i].password =>
              req[r].op = "change" /\ req[r].id = i /\ req[r].given \in had[i]
<1> USE DEF IInv
<1> PICK id, new : id = req[r].id /\ new = req[r].new
  OBVIOUS
<1>1. req[r] \in Request /\ req[r].op = "change"
  BY DEF TypeOK, ChangeWrite
<1>2. id \in Live /\ id \in AdminId /\ new \in Passwords /\ req[r].given \in had[id]
  BY <1>1 DEF ChangesInv, Request, Idle
<1>3. /\ admins' = [admins EXCEPT ![id].password = new]
      /\ had' = [had EXCEPT ![id] = @ \cup {new}]
      /\ req' = [req EXCEPT ![r] = Idle]
      /\ sessions' = sessions
  BY DEF ChangeWrite, UpdatePassword
<1>4. Live' = Live
  BY <1>3 DEF Live
<1>5. \A i \in Live :
        /\ admins'[i] \in Row
        /\ admins'[i].email = admins[i].email /\ admins'[i].role = admins[i].role
        /\ admins'[i].asked = admins[i].asked /\ admins'[i].creator = admins[i].creator
        /\ admins'[i].password = IF i = id THEN new ELSE admins[i].password
        /\ had'[i] = IF i = id THEN had[i] \cup {new} ELSE had[i]
  <2> TAKE i \in Live
  <2>1. admins[i] \in Row
    BY DEF TypeOK
  <2>2. CASE i = id
    <3>1. admins'[i] = [admins[i] EXCEPT !.password = new]
      BY <1>3, <2>2 DEF TypeOK
    <3>2. admins'[i] \in Row
      BY <1>2, <2>1, <3>1 DEF Row
    <3>3. had'[i] = had[i] \cup {new}
      BY <1>2, <1>3, <2>2 DEF TypeOK
    <3> QED BY <2>1, <2>2, <3>1, <3>2, <3>3 DEF Row
  <2>3. CASE i # id
    <3>1. admins'[i] = admins[i]
      BY <1>3, <2>3 DEF TypeOK
    <3>2. had'[i] = had[i]
      BY <1>3, <2>3 DEF TypeOK
    <3> QED BY <2>1, <2>3, <3>1, <3>2
  <2> QED BY <2>2, <2>3
<1>6. \A q \in Requests : req'[q] = IF q = r THEN Idle ELSE req[q]
  BY <1>3 DEF TypeOK
<1>7. TypeOK'
  <2>1. admins' \in [Live' -> Row]
    BY <1>3, <1>4, <1>5 DEF TypeOK
  <2>2. had' \in [AdminId -> SUBSET Passwords]
    BY <1>2, <1>3 DEF TypeOK
  <2>3. req' \in [Requests -> Request]
    BY <1>3 DEF TypeOK, Request
  <2> QED BY <1>3, <1>4, <2>1, <2>2, <2>3 DEF TypeOK
<1>8. RowsInv'
  BY <1>4, <1>5 DEF RowsInv
<1>9. ClaimsInv'
  BY <1>3, <1>4, <1>5, <1>6 DEF ClaimsInv, Idle
<1>10. ChangesInv'
  <2>1. ASSUME NEW i \in Live' PROVE admins'[i].password \in had'[i]
    BY <1>4, <1>5, <2>1 DEF ChangesInv
  <2>2. ASSUME NEW q \in Requests, req'[q].op = "change"
        PROVE  req'[q].id \in Live' /\ req'[q].given \in had'[req'[q].id]
    <3>1. q # r /\ req'[q] = req[q]
      BY <1>6, <2>2 DEF Idle
    <3> PICK k : k = req[q].id
      OBVIOUS
    <3>2. k \in Live /\ req[q].given \in had[k]
      BY <2>2, <3>1 DEF ChangesInv
    <3>3. req[q].given \in had'[k]
      BY <1>5, <3>2
    <3> QED BY <1>4, <3>1, <3>2, <3>3
  <2> QED BY <2>1, <2>2 DEF ChangesInv
<1>11. OneAccountEach'
  <2>1. \A i \in Live' : i \in Live /\ admins'[i].email = admins[i].email
    BY <1>4, <1>5
  <2> QED BY <2>1 DEF OneAccountEach
<1>12. NoEscalation'
  <2>1. ASSUME NEW i \in Live' PROVE i \in Live /\ i \in Live'
    BY <1>4, <2>1
  <2>2. ASSUME NEW i \in Live', admins'[i].role = "super_admin"
        PROVE  admins'[i].asked \in {"seed", "super_admin"}
    BY <1>5, <2>1, <2>2 DEF NoEscalation
  <2>3. ASSUME NEW i \in Live', admins'[i].asked # "seed"
        PROVE  /\ admins'[i].creator \in Live'
               /\ admins'[admins'[i].creator].role = "super_admin"
    <3> PICK c : c = admins[i].creator
      OBVIOUS
    <3>1. c \in Live /\ admins[c].role = "super_admin"
      BY <1>5, <2>1, <2>3 DEF NoEscalation
    <3>2. admins'[i].creator = c /\ admins'[c].role = admins[c].role
      BY <1>5, <2>1, <3>1
    <3> QED BY <1>4, <3>1, <3>2
  <2> QED BY <2>2, <2>3 DEF NoEscalation
<1> QED BY <1>1, <1>2, <1>5, <1>7, <1>8, <1>9, <1>10, <1>11, <1>12

-----------------------------------------------------------------------------
(***************************************************************************)
(* The statements that only read.                                          *)
(***************************************************************************)

LEMMA ReadStep ==
  ASSUME IInv, UNCHANGED <<admins, had>>,
         \/ \E r \in Requests :
              \/ \E a \in Address, password \in Passwords : LoginLookup(r, a, password)
              \/ LoginIssue(r)
              \/ \E s \in sessions, given \in Passwords, new \in Passwords :
                   ChangeLookup(r, s, given, new)
              \/ Fails(r)
         \/ Crash
  PROVE  IInv'
<1> USE DEF IInv
<1>0. Live' = Live
  BY DEF Live
<1>1. TypeOK' /\ ClaimsInv' /\ ChangesInv'
  <2>1. ASSUME NEW r \in Requests, NEW a \in Address, NEW password \in Passwords,
               LoginLookup(r, a, password)
        PROVE  TypeOK' /\ ClaimsInv' /\ ChangesInv'
    <3> PICK id \in Live : req' = [req EXCEPT ![r] =
                             [op |-> "login", id |-> id, role |-> admins[id].role]]
      BY <2>1 DEF LoginLookup
    <3>1. id \in AdminId /\ admins[id].role \in Role
      BY DEF TypeOK, Row
    <3>2. TypeOK'
      BY <1>0, <2>1, <3>1 DEF TypeOK, Request, LoginLookup
    <3>3. ClaimsInv' /\ ChangesInv'
      BY <1>0, <2>1 DEF TypeOK, ClaimsInv, ChangesInv, LoginLookup
    <3> QED BY <3>2, <3>3
  <2>2. ASSUME NEW r \in Requests, LoginIssue(r)
        PROVE  TypeOK' /\ ClaimsInv' /\ ChangesInv'
    <3>1. req[r] \in Request /\ req[r].op = "login"
      BY <2>2 DEF TypeOK, LoginIssue
    <3>2. [id |-> req[r].id, role |-> req[r].role] \in [id : AdminId, role : Role]
      BY <3>1 DEF Request, Idle
    <3>3. TypeOK'
      BY <1>0, <2>2, <3>2 DEF TypeOK, Request, LoginIssue
    <3>4. ClaimsInv' /\ ChangesInv'
      BY <1>0, <2>2, <3>1 DEF TypeOK, ClaimsInv, ChangesInv, LoginIssue, Idle
    <3> QED BY <3>3, <3>4
  <2>3. ASSUME NEW r \in Requests, NEW s \in sessions,
               NEW given \in Passwords, NEW new \in Passwords,
               ChangeLookup(r, s, given, new)
        PROVE  TypeOK' /\ ClaimsInv' /\ ChangesInv'
    <3>1. s.id \in Live /\ s.id \in AdminId /\ given \in had[s.id]
      BY <2>3 DEF ChangeLookup, Matches, TypeOK, ChangesInv
    <3>2. TypeOK'
      BY <1>0, <2>3, <3>1 DEF TypeOK, Request, ChangeLookup
    <3>3. ClaimsInv' /\ ChangesInv'
      BY <1>0, <2>3, <3>1 DEF TypeOK, ClaimsInv, ChangesInv, ChangeLookup
    <3> QED BY <3>2, <3>3
  <2>4. ASSUME NEW r \in Requests, Fails(r)
        PROVE  TypeOK' /\ ClaimsInv' /\ ChangesInv'
    BY <1>0, <2>4 DEF TypeOK, ClaimsInv, ChangesInv, Fails, Request, Idle
  <2>5. CASE Crash
    BY <1>0, <2>5 DEF TypeOK, ClaimsInv, ChangesInv, Crash, Request, Idle
  <2> QED BY <2>1, <2>2, <2>3, <2>4, <2>5
<1>2. RowsInv' /\ OneAccountEach' /\ NoEscalation'
  BY <1>0 DEF RowsInv, OneAccountEach, NoEscalation
<1> QED BY <1>1, <1>2

-----------------------------------------------------------------------------
(***************************************************************************)
(* The inductive invariant.                                                *)
(***************************************************************************)

THEOREM Initially == Init => IInv
<1> SUFFICES ASSUME Init PROVE IInv
  OBVIOUS
<1>1. Live = {}
  BY DEF Init, Live
<1>2. TypeOK
  BY <1>1 DEF Init, TypeOK, Live, Request
<1>3. RowsInv /\ ClaimsInv /\ ChangesInv /\ OneAccountEach /\ NoEscalation
  BY <1>1
     DEF Init, RowsInv, ClaimsInv, ChangesInv, OneAccountEach, NoEscalation,
     Idle
<1> QED BY <1>2, <1>3 DEF IInv

(* A row of the command, and one a super admin asked for. *)
LEMMA SeedStep ==
  ASSUME IInv, NEW a \in Address, NEW password \in Passwords, Seed(a, password)
  PROVE  IInv' /\ \A i \in Live : admins'[i] = admins[i]
<1>1. SeedAddress(a) \in Address /\ SeedAddress(a).plain
  BY DEF SeedAddress, Address
<1> QED BY <1>1, InsertStep DEF Seed, Role

LEMMA CreateStep ==
  ASSUME IInv, NEW s \in sessions, NEW a \in Address, NEW password \in Passwords,
         NEW role \in Role \cup {"none"}, CreateAdmin(s, a, password, role)
  PROVE  IInv' /\ \A i \in Live : admins'[i] = admins[i]
<1>1. NormalizeEmail(a) \in Address /\ NormalizeEmail(a).plain
  BY DEF NormalizeEmail, Address
<1>2. s.id \in Live /\ s.id \in AdminId /\ admins[s.id].role = "super_admin"
  BY DEF CreateAdmin, IInv, ClaimsInv, TypeOK
<1>3. /\ StoredRole(AskedRole(role)) \in Role
      /\ StoredRole(AskedRole(role)) = "super_admin" => role = "super_admin"
  BY DEF StoredRole, AskedRole, Role
<1>4. role # "seed"
  BY DEF Role
<1> QED BY <1>1, <1>2, <1>3, <1>4, InsertStep DEF CreateAdmin

THEOREM Step == IInv /\ [Next]_vars => IInv'
<1> SUFFICES ASSUME IInv, [Next]_vars PROVE IInv'
  OBVIOUS
<1>1. ASSUME NEW a \in Address, NEW password \in Passwords, Seed(a, password)
      PROVE  IInv'
  BY <1>1, SeedStep
<1>2. ASSUME NEW s \in sessions, NEW a \in Address, NEW password \in Passwords,
             NEW role \in Role \cup {"none"}, CreateAdmin(s, a, password, role)
      PROVE  IInv'
  BY <1>2, CreateStep
<1>3. ASSUME NEW r \in Requests, ChangeWrite(r) PROVE IInv'
  BY <1>3, PasswordStep
<1>4. ASSUME NEW r \in Requests,
             \/ \E a \in Address, password \in Passwords : LoginLookup(r, a, password)
             \/ LoginIssue(r)
             \/ \E s \in sessions, given, new \in Passwords : ChangeLookup(r, s, given, new)
             \/ Fails(r)
      PROVE  IInv'
  BY <1>4, ReadStep DEF LoginLookup, LoginIssue, ChangeLookup, Fails
<1>5. CASE Crash
  BY <1>5, ReadStep DEF Crash
<1>6. CASE UNCHANGED vars
  BY <1>6 DEF vars, IInv, TypeOK, Live, RowsInv, ClaimsInv, ChangesInv,
              OneAccountEach, NoEscalation
<1> QED BY <1>1, <1>2, <1>3, <1>4, <1>5, <1>6 DEF Next

-----------------------------------------------------------------------------
(***************************************************************************)
(* The properties.                                                         *)
(***************************************************************************)

(* The inductive invariant holds in every reachable state. *)
THEOREM Inductive == Spec => []IInv
BY Initially, Step, PTL DEF Spec

(* A person has one account, found under every spelling of its address     *)
(* (NormalizeEmail, runSeed). *)
THEOREM OnePerPerson == Spec => []OneAccountEach
<1>1. IInv => OneAccountEach
  BY DEF IInv
<1> QED BY <1>1, Inductive, PTL

(* A super admin was seeded, or a super admin asked for one by name        *)
(* (CreateAdmin and AdminRepo.Create). *)
THEOREM RolesAreGiven == Spec => []NoEscalation
<1>1. IInv => NoEscalation
  BY DEF IInv
<1> QED BY <1>1, Inductive, PTL

(* Only who is logged in as an admin, and knew a password of this admin,   *)
(* changes its password (ChangePassword). *)
THEOREM PasswordsAreOwn == Spec => OwnPasswordOnly
<1>1. ASSUME IInv, [Next]_vars, NEW i \in Live,
             admins'[i].password # admins[i].password
      PROVE  \E r \in Requests : /\ req[r].op = "change" /\ req[r].id = i
                                 /\ req[r].given \in had[i]
  <2>1. ASSUME NEW a \in Address, NEW password \in Passwords, Seed(a, password)
        PROVE  FALSE
    BY <1>1, <2>1, SeedStep
  <2>2. ASSUME NEW s \in sessions, NEW a \in Address, NEW password \in Passwords,
               NEW role \in Role \cup {"none"}, CreateAdmin(s, a, password, role)
        PROVE  FALSE
    BY <1>1, <2>2, CreateStep
  <2>3. ASSUME NEW r \in Requests, ChangeWrite(r)
        PROVE  req[r].op = "change" /\ req[r].id = i /\ req[r].given \in had[i]
    BY <1>1, <2>3, PasswordStep
  <2>4. ASSUME NEW r \in Requests,
               \/ \E a \in Address, password \in Passwords : LoginLookup(r, a, password)
               \/ LoginIssue(r)
               \/ \E s \in sessions, given, new \in Passwords : ChangeLookup(r, s, given, new)
               \/ Fails(r)
        PROVE  FALSE
    BY <1>1, <2>4 DEF LoginLookup, LoginIssue, ChangeLookup, Fails
  <2>5. CASE Crash \/ UNCHANGED vars
    BY <1>1, <2>5 DEF Crash, vars
  <2> QED BY <1>1, <2>1, <2>2, <2>3, <2>4, <2>5 DEF Next
<1>2. IInv /\ [Next]_vars =>
        [\A i \in Live : admins'[i].password # admins[i].password =>
           \E r \in Requests : /\ req[r].op = "change" /\ req[r].id = i
                               /\ req[r].given \in had[i]]_vars
  BY <1>1
<1> QED BY <1>2, Inductive, PTL DEF Spec, OwnPasswordOnly
=============================================================================
