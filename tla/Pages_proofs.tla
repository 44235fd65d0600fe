---------------------------- MODULE Pages_proofs ----------------------------
(***************************************************************************)
(* Proofs about what the pages of the site show and send back: the         *)
(* employers' profiles and their listings (Profiles), for every number of  *)
(* employers, edits and names, and texts, ids and mails of every length    *)
(* (Texts), for every limit, base and word size.                           *)
(***************************************************************************)
EXTENDS Profiles, Texts, FiniteSetTheorems, FunctionTheorems,
        SequenceTheorems, WellFoundedInduction, TLAPS

-----------------------------------------------------------------------------
(***************************************************************************)
(* Profiles: rows and edits.                                               *)
(***************************************************************************)

LEMMA ProfileIsSome ==
  ASSUME NEW p \in Profile
  PROVE  p # None
<1>1. DOMAIN p = Column /\ "company_name" \in Column
  BY DEF Profile, Column
<1>2. DOMAIN None = {}
  BY DEF None
<1> QED BY <1>1, <1>2

LEMMA EditFacts ==
  ASSUME NEW e \in Edit
  PROVE  /\ DOMAIN e \subseteq Column
         /\ e \in [DOMAIN e -> Texts \cup {Blank}]
         /\ \A p \in Profile : Updated(p, e) \in Profile
<1>1. PICK S \in SUBSET Column : e \in [S -> Texts \cup {Blank}]
  BY DEF Edit
<1>2. DOMAIN e = S
  BY <1>1
<1>3. ASSUME NEW p \in Profile PROVE Updated(p, e) \in Profile
  BY <1>1, <1>2 DEF Updated, Profile
<1> QED BY <1>1, <1>2, <1>3

(* a new row's profile *)
LEMMA NewProfile ==
  ASSUME NEW name \in Texts
  PROVE  Updated([c \in Column |-> Blank], [c \in {"company_name"} |-> name]) \in Profile
<1>1. [c \in {"company_name"} |-> name] \in Edit
  <2>1. /\ [c \in {"company_name"} |-> name] \in [{"company_name"} -> Texts \cup {Blank}]
        /\ {"company_name"} \in SUBSET Column
    BY DEF Column
  <2> QED BY <2>1 DEF Edit
<1>2. [c \in Column |-> Blank] \in Profile
  BY DEF Profile
<1> QED BY <1>1, <1>2, EditFacts

LEMMA EditOps ==
  ASSUME NEW q, EditOK(q)
  PROVE  /\ q.op \in {"idle", "write", "read", "done"}
         /\ q.op = "idle" <=> q = Idle
         /\ q.op # "idle" => q.id \in Clients /\ q.edit \in Edit
         /\ q.op = "write" => q = [op |-> "write", id |-> q.id, edit |-> q.edit]
         /\ q.op \in {"read", "done"} => q.seen \in [DOMAIN q.edit -> SUBSET (Texts \cup {Blank})]
         /\ q.op = "read" => q = [op |-> "read", id |-> q.id, edit |-> q.edit, seen |-> q.seen]
<1>1. CASE q = Idle
  BY <1>1 DEF Idle
<1>2. CASE q = [op |-> "write", id |-> q.id, edit |-> q.edit]
  <2>1. q.op = "write" /\ q # Idle
    BY <1>2 DEF Idle
  <2> QED BY <1>2, <2>1 DEF EditOK
<1>3. CASE q = [op |-> "read", id |-> q.id, edit |-> q.edit, seen |-> q.seen]
  <2>1. q.op = "read" /\ q # Idle
    BY <1>3 DEF Idle
  <2> QED BY <1>3, <2>1 DEF EditOK
<1>4. CASE q = [op |-> "done", id |-> q.id, edit |-> q.edit, seen |-> q.seen, reply |-> q.reply]
  <2>1. q.op = "done" /\ q # Idle
    BY <1>4 DEF Idle
  <2> QED BY <1>4, <2>1 DEF EditOK
<1> QED BY <1>1, <1>2, <1>3, <1>4 DEF EditOK

-----------------------------------------------------------------------------
(***************************************************************************)
(* Profiles: the inductive invariant.                                      *)
(***************************************************************************)

(* A fresh file, or one with rows of an older program, is a good start. *)
THEOREM ProfilesInitially == ProfilesInit => ProfilesIInv
<1> SUFFICES ASSUME ProfilesInit PROVE ProfilesIInv
  OBVIOUS
<1>1. clients \in [Clients -> Profile \cup {None}]
  <2>1. [c \in Column |-> Blank] \in Profile
    BY DEF Profile
  <2> QED BY <2>1 DEF ProfilesInit
<1>2. jobs \in [Jobs -> {None}]
  BY DEF ProfilesInit
<1>3. req = [r \in Requests |-> req[r]] /\ \A r \in Requests : req[r] = Idle
  BY DEF ProfilesInit
<1>4. TypeOK
  <2>1. verified \in SUBSET Live /\ gone = {}
    BY DEF ProfilesInit
  <2> QED BY <1>1, <1>2, <1>3, <2>1 DEF TypeOK, EditOK
<1>5. EditsInv /\ AnswersItsEdit
  BY <1>3 DEF EditsInv, AnswersItsEdit, Idle
<1> QED BY <1>4, <1>5 DEF ProfilesIInv

(* what the rows are, of the type invariant *)
RowsOK ==
  /\ clients \in [Clients -> Profile \cup {None}]
  /\ verified \in SUBSET Live
  /\ jobs \in [Jobs -> [owner : Clients, status : {"pending", "approved", "rejected"}]
                         \cup {None}]
  /\ gone \in SUBSET (Clients \ Live)

(* A step that leaves the edits alone and brings no deleted row back.      *)
LEMMA RowStep ==
  ASSUME ProfilesIInv, req' = req, RowsOK', Live \cup gone \subseteq (Live \cup gone)',
         \A c \in Live' : c \notin gone /\ (c \in Live => clients'[c] = clients[c])
  PROVE  ProfilesIInv'
<1> USE DEF ProfilesIInv
<1>1. TypeOK'
  BY DEF TypeOK, RowsOK
<1>2. EditsInv'
  <2> SUFFICES ASSUME NEW r \in Requests
               PROVE  /\ req[r] # Idle => req[r].id \in (Live \cup gone)'
                      /\ req[r].op = "write" => Valid(req[r].edit)
                      /\ req[r].op = "read" /\ req[r].id \in Live' =>
                           \A c \in DOMAIN req[r].edit :
                             clients'[req[r].id][c] \in req[r].seen[c]
    BY DEF EditsInv, Valid
  <2>1. ASSUME req[r].op = "read", req[r].id \in Live'
        PROVE  req[r].id \in Live /\ clients'[req[r].id] = clients[req[r].id]
    BY <2>1 DEF EditsInv, Idle
  <2> QED BY <2>1 DEF EditsInv
<1>3. AnswersItsEdit'
  BY DEF AnswersItsEdit
<1> QED BY <1>1, <1>2, <1>3

(* A new account. *)
LEMMA NewRowStep ==
  ASSUME ProfilesIInv, NEW i \in Clients, NEW p \in Profile,
         i \notin Live \cup gone, clients' = [clients EXCEPT ![i] = p],
         verified' \in SUBSET (verified \cup {i}), UNCHANGED <<jobs, gone, req>>
  PROVE  ProfilesIInv'
<1>1. RowsOK
  BY DEF ProfilesIInv, TypeOK, RowsOK
<1>2. Live' = Live \cup {i}
  BY <1>1, ProfileIsSome DEF RowsOK, Live
<1>3. \A c \in Live : clients'[c] = clients[c]
  BY <1>1 DEF RowsOK, Live
<1>4. RowsOK'
  BY <1>1, <1>2 DEF RowsOK
<1>5. \A c \in Live' : c \notin gone
  BY <1>1, <1>2 DEF RowsOK
<1> QED BY <1>2, <1>3, <1>4, <1>5, RowStep

LEMMA DeleteEmployerStep ==
  ASSUME ProfilesIInv, NEW i \in Clients, DeleteEmployer(i)
  PROVE  ProfilesIInv'
<1>1. RowsOK
  BY DEF ProfilesIInv, TypeOK, RowsOK
<1>2. Live' = Live \ {i}
  BY <1>1 DEF DeleteEmployer, RowsOK, Live
<1>3. \A c \in Live' : clients'[c] = clients[c]
  BY <1>1, <1>2 DEF DeleteEmployer, RowsOK, Live
<1>4. RowsOK'
  BY <1>1, <1>2 DEF RowsOK, DeleteEmployer
<1>5. \A c \in Live' : c \notin gone
  BY <1>1, <1>2 DEF RowsOK
<1>6. req' = req /\ Live \cup gone \subseteq (Live \cup gone)'
  BY <1>2 DEF DeleteEmployer
<1> QED BY <1>2, <1>3, <1>4, <1>5, <1>6, RowStep

(* The jobs and the verification. *)
LEMMA OtherRowsStep ==
  ASSUME ProfilesIInv, UNCHANGED <<clients, gone, req>>,
         \/ \E i \in Clients, value \in BOOLEAN : SetVerified(i, value)
         \/ \E i \in Clients, j \in Jobs : CreateJob(j, i)
         \/ \E j \in Jobs, status \in {"approved", "rejected"} : UpdateStatus(j, status)
         \/ \E j \in Jobs : DeleteJob(j)
  PROVE  ProfilesIInv'
<1>1. RowsOK
  BY DEF ProfilesIInv, TypeOK, RowsOK
<1>2. Live' = Live
  BY DEF Live
<1>3. verified' \in SUBSET Live
  BY <1>1 DEF RowsOK, SetVerified, CreateJob, UpdateStatus, DeleteJob
<1>4. jobs' \in [Jobs -> [owner : Clients, status : {"pending", "approved", "rejected"}]
                          \cup {None}]
  BY <1>1 DEF RowsOK, Posted, SetVerified, CreateJob, UpdateStatus, DeleteJob
<1>5. RowsOK' /\ \A c \in Live' : c \notin gone
  BY <1>1, <1>2, <1>3, <1>4 DEF RowsOK
<1> QED BY <1>2, <1>4, <1>5, RowStep

-----------------------------------------------------------------------------
(***************************************************************************)
(* Profiles: the edits.                                                    *)
(***************************************************************************)

(* A slot changes and the rows do not. *)
LEMMA SlotStep ==
  ASSUME ProfilesIInv, NEW r \in Requests, NEW q, EditOK(q),
         req' = [req EXCEPT ![r] = q], UNCHANGED <<clients, verified, jobs, gone>>,
         q # Idle => q.id \in Live \cup gone,
         q.op = "write" => Valid(q.edit),
         q.op # "read",
         q.op = "done" /\ q.reply # None =>
           \A c \in DOMAIN q.edit : q.reply[c] \in q.seen[c]
  PROVE  ProfilesIInv'
<1>1. Live' = Live
  BY DEF Live
<1>2. /\ req' = [x \in Requests |-> req'[x]] /\ req'[r] = q
      /\ \A x \in Requests : x # r => req'[x] = req[x]
  BY DEF ProfilesIInv, TypeOK
<1>3. TypeOK'
  BY <1>1, <1>2 DEF ProfilesIInv, TypeOK
<1>4. EditsInv'
  BY <1>1, <1>2 DEF ProfilesIInv, EditsInv
<1>5. AnswersItsEdit'
  BY <1>2 DEF ProfilesIInv, AnswersItsEdit
<1> QED BY <1>3, <1>4, <1>5 DEF ProfilesIInv

LEMMA LookupStep ==
  ASSUME ProfilesIInv, NEW r \in Requests, NEW i \in Clients, NEW e \in Edit,
         UpdateEmployerLookup(r, i, e)
  PROVE  ProfilesIInv'
<1> DEFINE q == [op |-> "write", id |-> i, edit |-> e]
<1>1. EditOK(q) /\ q # Idle /\ q.op = "write" /\ q.id = i /\ q.edit = e
  BY DEF EditOK, Idle
<1>2. /\ req' = [req EXCEPT ![r] = q] /\ UNCHANGED <<clients, verified, jobs, gone>>
      /\ Valid(e) /\ i \in Live
  BY DEF UpdateEmployerLookup
<1> HIDE DEF q
<1> QED BY <1>1, <1>2, SlotStep

LEMMA FailStep ==
  ASSUME ProfilesIInv, NEW r \in Requests, UpdateFails(r)
  PROVE  ProfilesIInv'
<1>1. EditOK(Idle) /\ Idle.op = "idle"
  BY DEF EditOK, Idle
<1> QED BY <1>1, SlotStep DEF UpdateFails

LEMMA ReadBackStep ==
  ASSUME ProfilesIInv, NEW r \in Requests, ReadBack(r)
  PROVE  ProfilesIInv'
<1> DEFINE q == req[r]
<1>1. PICK reply \in {clients[q.id], None} :
        req' = [req EXCEPT ![r] = [op |-> "done", id |-> q.id, edit |-> q.edit,
                                   seen |-> q.seen, reply |-> reply]]
  BY DEF ReadBack
<1> DEFINE a == [op |-> "done", id |-> q.id, edit |-> q.edit, seen |-> q.seen, reply |-> reply]
<1>2. EditOK(q) /\ q.op = "read" /\ UNCHANGED <<clients, verified, jobs, gone>>
  BY DEF ProfilesIInv, TypeOK, ReadBack
<1>3. /\ q.id \in Clients /\ q.edit \in Edit /\ q # Idle
      /\ q.seen \in [DOMAIN q.edit -> SUBSET (Texts \cup {Blank})]
  BY <1>2, EditOps
<1>4. reply \in Profile \cup {None} /\ (reply # None => q.id \in Live /\ reply = clients[q.id])
  BY <1>3 DEF ProfilesIInv, TypeOK, Live
<1>5. reply # None => \A c \in DOMAIN q.edit : reply[c] \in q.seen[c]
  BY <1>2, <1>4 DEF ProfilesIInv, EditsInv
<1>6. q.id \in Live \cup gone
  BY <1>3 DEF ProfilesIInv, EditsInv
<1>7. /\ EditOK(a) /\ a.op = "done" /\ a.id = q.id /\ a.edit = q.edit
      /\ a.seen = q.seen /\ a.reply = reply
  BY <1>3, <1>4 DEF EditOK
<1> HIDE DEF a
<1>8. req' = [req EXCEPT ![r] = a]
  BY <1>1 DEF a
<1> QED BY <1>2, <1>5, <1>6, <1>7, <1>8, SlotStep

(* The UPDATE itself: the row has what the edit wrote, and every edit that *)
(* waits to read the row has seen it. *)
LEMMA UpdateRows ==
  ASSUME ProfilesIInv, NEW r \in Requests, NEW i \in Clients, NEW e \in Edit,
         RunUpdate(r, i, e), UNCHANGED <<verified, jobs, gone>>
  PROVE  /\ RowsOK' /\ Live' = Live
         /\ \A k \in Live : clients'[k] = IF k = i THEN Updated(clients[i], e) ELSE clients[k]
<1>1. RowsOK
  BY DEF ProfilesIInv, TypeOK, RowsOK
<1>3. CASE i \in Live
  <2>1. clients' = [clients EXCEPT ![i] = Updated(clients[i], e)]
    BY <1>3 DEF RunUpdate
  <2>2. Updated(clients[i], e) \in Profile
    BY <1>1, <1>3, EditFacts DEF RowsOK, Live
  <2>3. Live' = Live
    BY <1>1, <1>3, <2>1, <2>2, ProfileIsSome DEF RowsOK, Live
  <2>4. RowsOK'
    BY <1>1, <2>1, <2>2, <2>3 DEF RowsOK
  <2> QED BY <1>1, <2>1, <2>3, <2>4 DEF RowsOK, Live
<1>4. CASE i \notin Live
  <2>1. clients' = clients
    BY <1>4 DEF RunUpdate
  <2>2. Live' = Live
    BY <2>1 DEF Live
  <2> QED BY <1>1, <1>4, <2>1, <2>2 DEF RowsOK
<1> QED BY <1>3, <1>4

LEMMA UpdateStep ==
  ASSUME ProfilesIInv, NEW r \in Requests, NEW i \in Clients, NEW e \in Edit,
         i \in Live \cup gone,
         RunUpdate(r, i, e), UNCHANGED <<verified, jobs, gone>>
  PROVE  ProfilesIInv'
<1> DEFINE Reads(x) == req[x].op = "read" /\ req[x].id = i
           mine == [op |-> "read", id |-> i, edit |-> e, seen |-> [c \in DOMAIN e |-> {e[c]}]]
           More(x) == [c \in DOMAIN req[x].seen |->
                         IF c \in DOMAIN e THEN req[x].seen[c] \cup {e[c]}
                         ELSE req[x].seen[c]]
           Saw(x) == [req[x] EXCEPT !.seen = More(x)]
<1>1. /\ RowsOK' /\ Live' = Live
      /\ \A k \in Live : clients'[k] = IF k = i THEN Updated(clients[i], e) ELSE clients[k]
  BY UpdateRows
<1>2. req' = [x \in Requests |-> IF x = r THEN mine ELSE IF Reads(x) THEN Saw(x) ELSE req[x]]
  BY DEF RunUpdate
<1>3. DOMAIN e \subseteq Column /\ e \in [DOMAIN e -> Texts \cup {Blank}]
  BY EditFacts
<1>4. /\ EditOK(mine) /\ mine # Idle /\ mine.op = "read" /\ mine.id = i /\ mine.edit = e
      /\ \A c \in DOMAIN e : mine.seen[c] = {e[c]}
  <2>1. mine.seen \in [DOMAIN e -> SUBSET (Texts \cup {Blank})]
    BY <1>3
  <2>2. mine # Idle
    BY DEF Idle
  <2> QED BY <2>1, <2>2 DEF EditOK
<1>5. ASSUME NEW x \in Requests, Reads(x)
      PROVE  /\ EditOK(Saw(x)) /\ Saw(x) # Idle /\ Saw(x).op = "read" /\ Saw(x).id = i
             /\ Saw(x).edit = req[x].edit /\ req[x].edit \in Edit
             /\ \A c \in DOMAIN req[x].edit :
                  Saw(x).seen[c] = IF c \in DOMAIN e THEN req[x].seen[c] \cup {e[c]}
                                   ELSE req[x].seen[c]
  <2>1. EditOK(req[x])
    BY DEF ProfilesIInv, TypeOK
  <2>2. /\ req[x].edit \in Edit
        /\ req[x].seen \in [DOMAIN req[x].edit -> SUBSET (Texts \cup {Blank})]
        /\ req[x] = [op |-> "read", id |-> i, edit |-> req[x].edit, seen |-> req[x].seen]
    BY <1>5, <2>1, EditOps
  <2>3. More(x) \in [DOMAIN req[x].edit -> SUBSET (Texts \cup {Blank})]
    BY <1>3, <2>2
  <2>4. Saw(x) = [op |-> "read", id |-> i, edit |-> req[x].edit, seen |-> More(x)]
    <3> HIDE DEF More
    <3>1. ASSUME NEW d, NEW s, NEW m
          PROVE  [[op |-> "read", id |-> i, edit |-> d, seen |-> s] EXCEPT !.seen = m]
                   = [op |-> "read", id |-> i, edit |-> d, seen |-> m]
      OBVIOUS
    <3> QED BY <2>2, <3>1
  <2>5. Saw(x) # Idle
    BY <2>4 DEF Idle
  <2> HIDE DEF Saw
  <2>6. EditOK(Saw(x))
    BY <2>2, <2>3, <2>4, <2>5 DEF EditOK
  <2> QED BY <2>2, <2>3, <2>4, <2>5, <2>6
<1> HIDE DEF mine, Saw
<1>6. /\ req' = [x \in Requests |-> req'[x]]
      /\ req'[r] = mine
      /\ \A x \in Requests : x # r => req'[x] = IF Reads(x) THEN Saw(x) ELSE req[x]
  BY <1>2
<1>7. TypeOK'
  BY <1>1, <1>4, <1>5, <1>6 DEF ProfilesIInv, TypeOK, RowsOK
<1>8. EditsInv'
  <2> SUFFICES ASSUME NEW x \in Requests
               PROVE  /\ req'[x] # Idle => req'[x].id \in Live \cup gone
                      /\ req'[x].op = "write" => Valid(req'[x].edit)
                      /\ req'[x].op = "read" /\ req'[x].id \in Live =>
                           \A c \in DOMAIN req'[x].edit :
                             clients'[req'[x].id][c] \in req'[x].seen[c]
    BY <1>1 DEF EditsInv, Valid
  <2>1. i \in Live => \A c \in Column :
          clients'[i][c] = IF c \in DOMAIN e THEN e[c] ELSE clients[i][c]
    BY <1>1 DEF Updated
  <2>2. CASE x = r
    BY <1>3, <1>4, <1>6, <2>1, <2>2
  <2>3. CASE x # r /\ Reads(x)
    <3>1. DOMAIN req[x].edit \subseteq Column
      BY <1>5, <2>3, EditFacts
    <3>2. i \in Live => \A c \in DOMAIN req[x].edit : clients[i][c] \in req[x].seen[c]
      BY <2>3 DEF ProfilesIInv, EditsInv
    <3>3. /\ req'[x] = Saw(x) /\ Saw(x).op = "read" /\ Saw(x).id = i
          /\ Saw(x).edit = req[x].edit /\ Saw(x) # Idle
      BY <1>5, <1>6, <2>3
    <3>4. i \in Live => \A c \in DOMAIN req[x].edit : clients'[i][c] \in Saw(x).seen[c]
      <4> SUFFICES ASSUME i \in Live, NEW c \in DOMAIN req[x].edit
                   PROVE  clients'[i][c] \in Saw(x).seen[c]
        OBVIOUS
      <4>1. Saw(x).seen[c] = IF c \in DOMAIN e THEN req[x].seen[c] \cup {e[c]}
                             ELSE req[x].seen[c]
        BY <1>5, <2>3
      <4>2. clients'[i][c] = IF c \in DOMAIN e THEN e[c] ELSE clients[i][c]
        BY <2>1, <3>1
      <4> QED BY <3>2, <4>1, <4>2
    <3> QED BY <3>3, <3>4
  <2>4. CASE x # r /\ ~Reads(x)
    <3>1. req'[x] = req[x]
      BY <1>6, <2>4
    <3>2. ASSUME req[x].op = "read", req[x].id \in Live
          PROVE  \A c \in DOMAIN req[x].edit : clients'[req[x].id][c] \in req[x].seen[c]
      <4>1. clients'[req[x].id] = clients[req[x].id]
        BY <1>1, <2>4, <3>2
      <4> QED BY <3>2, <4>1 DEF ProfilesIInv, EditsInv
    <3>3. /\ req[x] # Idle => req[x].id \in Live \cup gone
          /\ req[x].op = "write" => Valid(req[x].edit)
      BY DEF ProfilesIInv, EditsInv
    <3> QED BY <3>1, <3>2, <3>3
  <2> QED BY <2>2, <2>3, <2>4
<1>9. AnswersItsEdit'
  BY <1>4, <1>5, <1>6 DEF ProfilesIInv, AnswersItsEdit
<1> QED BY <1>7, <1>8, <1>9 DEF ProfilesIInv

LEMMA WriteStep ==
  ASSUME ProfilesIInv, NEW r \in Requests, UpdateEmployerWrite(r)
  PROVE  /\ req[r].id \in Clients /\ req[r].edit \in Edit /\ Valid(req[r].edit)
         /\ ProfilesIInv'
<1>1. req[r].op = "write" /\ EditOK(req[r])
  BY DEF ProfilesIInv, TypeOK, UpdateEmployerWrite
<1>2. req[r].id \in Clients /\ req[r].edit \in Edit /\ req[r] # Idle
  BY <1>1, EditOps
<1>3. req[r].id \in Live \cup gone /\ Valid(req[r].edit)
  BY <1>1, <1>2 DEF ProfilesIInv, EditsInv
<1> QED BY <1>2, <1>3, UpdateStep DEF UpdateEmployerWrite

(* No handler, decision or failure breaks the invariant of Profiles. *)
THEOREM ProfilesStep ==
  ProfilesIInv /\ [ProfilesNext]_profilesVars => ProfilesIInv'
<1> SUFFICES ASSUME ProfilesIInv, [ProfilesNext]_profilesVars PROVE ProfilesIInv'
  OBVIOUS
<1>1. ASSUME NEW i \in Clients, NEW name \in Texts, Signup(i, name) PROVE ProfilesIInv'
  BY <1>1, NewProfile, NewRowStep DEF Signup
<1>2. ASSUME NEW i \in Clients, NEW p \in Profile, CreateEmployer(i, p) PROVE ProfilesIInv'
  BY <1>2, NewRowStep DEF CreateEmployer
<1>3. ASSUME NEW i \in Clients, NEW value \in BOOLEAN, SetVerified(i, value)
      PROVE  ProfilesIInv'
  BY <1>3, OtherRowsStep DEF SetVerified
<1>4. ASSUME NEW i \in Clients, DeleteEmployer(i) PROVE ProfilesIInv'
  BY <1>4, DeleteEmployerStep
<1>5. ASSUME NEW i \in Clients, NEW r \in Requests, NEW e \in Edit, UpdateMe(r, i, e)
      PROVE  ProfilesIInv'
  BY <1>5, UpdateStep DEF UpdateMe
<1>6. ASSUME NEW i \in Clients, NEW r \in Requests, NEW e \in Edit,
             UpdateEmployerLookup(r, i, e)
      PROVE  ProfilesIInv'
  BY <1>6, LookupStep
<1>7. ASSUME NEW i \in Clients, NEW j \in Jobs, CreateJob(j, i) PROVE ProfilesIInv'
  BY <1>7, OtherRowsStep DEF CreateJob
<1>8. ASSUME NEW r \in Requests,
             UpdateEmployerWrite(r) \/ UpdateFails(r) \/ ReadBack(r)
      PROVE  ProfilesIInv'
  BY <1>8, WriteStep, FailStep, ReadBackStep
<1>9. ASSUME NEW j \in Jobs, NEW status \in {"approved", "rejected"}, UpdateStatus(j, status)
      PROVE  ProfilesIInv'
  BY <1>9, OtherRowsStep DEF UpdateStatus
<1>10. ASSUME NEW j \in Jobs, DeleteJob(j) PROVE ProfilesIInv'
  BY <1>10, OtherRowsStep DEF DeleteJob
<1>11. CASE UNCHANGED profilesVars
  <2>1. /\ req' = req /\ clients' = clients /\ verified' = verified /\ jobs' = jobs
        /\ gone' = gone
    BY <1>11 DEF profilesVars
  <2>2. Live' = Live /\ RowsOK
    BY <2>1 DEF Live, ProfilesIInv, TypeOK, RowsOK
  <2>3. RowsOK' /\ \A c \in Live' : c \notin gone
    BY <2>1, <2>2 DEF RowsOK
  <2> QED BY <2>1, <2>2, <2>3, RowStep
<1> QED
  BY <1>1, <1>2, <1>3, <1>4, <1>5, <1>6, <1>7, <1>8, <1>9, <1>10, <1>11
     DEF ProfilesNext

-----------------------------------------------------------------------------
(***************************************************************************)
(* Profiles: the properties.                                               *)
(***************************************************************************)

(* The inductive invariant of Profiles holds in every reachable state. *)
THEOREM ProfilesInductive == ProfilesSpec => []ProfilesIInv
BY ProfilesInitially, ProfilesStep, PTL DEF ProfilesSpec

(* Whatever edits, deletions and failures interleave, a row has a whole    *)
(* profile, and a verification and a deleted id never meet. *)
THEOREM ProfilesTypes == ProfilesSpec => []TypeOK
<1>1. ProfilesIInv => TypeOK
  BY DEF ProfilesIInv
<1> QED BY <1>1, ProfilesInductive, PTL

(* An edit answers with a profile in which each column it named says what  *)
(* it wrote, or what a later edit of that column wrote (UpdateMe,          *)
(* company.go; UpdateEmployer, admin.go). *)
THEOREM EditsAreAnswered == ProfilesSpec => []AnswersItsEdit
<1>1. ProfilesIInv => AnswersItsEdit
  BY DEF ProfilesIInv
<1> QED BY <1>1, ProfilesInductive, PTL

(* An edit never empties a name, so that it takes nobody out of the        *)
(* directory. *)
LEMMA NamesStay ==
  ASSUME ProfilesIInv, [ProfilesNext]_profilesVars, NEW c \in Live, c \in Live',
         clients[c]["company_name"] # Blank
  PROVE  clients'[c]["company_name"] # Blank
<1>0. clients \in [Clients -> Profile \cup {None}] /\ c \in Clients /\ "company_name" \in Column
  BY DEF ProfilesIInv, TypeOK, Live, Column
<1>1. ASSUME NEW r \in Requests, NEW i \in Clients, NEW e \in Edit, Valid(e),
             RunUpdate(r, i, e), UNCHANGED <<verified, jobs, gone>>
      PROVE  clients'[c]["company_name"] # Blank
  <2>1. clients'[c] = IF c = i THEN Updated(clients[i], e) ELSE clients[c]
    BY <1>1, UpdateRows
  <2> QED BY <1>0, <1>1, <2>1 DEF Updated, Valid
<1>2. ASSUME NEW i \in Clients, NEW name \in Texts, Signup(i, name)
      PROVE  clients'[c] = clients[c]
  BY <1>0, <1>2 DEF Signup
<1>3. ASSUME NEW i \in Clients, NEW p \in Profile, CreateEmployer(i, p)
      PROVE  clients'[c] = clients[c]
  BY <1>0, <1>3 DEF CreateEmployer
<1>4. ASSUME NEW i \in Clients, DeleteEmployer(i) PROVE clients'[c] = clients[c]
  BY <1>0, <1>4 DEF DeleteEmployer, Live
<1>5. ASSUME NEW r \in Requests, NEW i \in Clients, NEW e \in Edit, UpdateMe(r, i, e)
      PROVE  clients'[c]["company_name"] # Blank
  BY <1>1, <1>5 DEF UpdateMe
<1>6. ASSUME NEW r \in Requests, UpdateEmployerWrite(r)
      PROVE  clients'[c]["company_name"] # Blank
  BY <1>1, <1>6, WriteStep DEF UpdateEmployerWrite
<1>7. CASE clients' = clients
  BY <1>7
<1>8. ASSUME NEW i \in Clients, NEW r \in Requests, NEW e \in Edit,
             UpdateEmployerLookup(r, i, e)
      PROVE  clients' = clients
  BY <1>8 DEF UpdateEmployerLookup
<1>9. ASSUME NEW i \in Clients, NEW value \in BOOLEAN, SetVerified(i, value)
      PROVE  clients' = clients
  BY <1>9 DEF SetVerified
<1>10. ASSUME NEW j \in Jobs,
              \/ \E i \in Clients : CreateJob(j, i)
              \/ \E status \in {"approved", "rejected"} : UpdateStatus(j, status)
              \/ DeleteJob(j)
       PROVE  clients' = clients
  BY <1>10 DEF CreateJob, UpdateStatus, DeleteJob
<1>11. ASSUME NEW r \in Requests, UpdateFails(r) \/ ReadBack(r) PROVE clients' = clients
  BY <1>11 DEF UpdateFails, ReadBack
<1>12. CASE UNCHANGED profilesVars
  BY <1>12 DEF profilesVars
<1> QED
  BY <1>2, <1>3, <1>4, <1>5, <1>6, <1>7, <1>8, <1>9, <1>10, <1>11, <1>12
     DEF ProfilesNext

(* No edit takes an employer out of the directory: who is listed stays     *)
(* until the verification is withdrawn or no approved job is left          *)
(* (company_name != '' in ListPublicEmployers, company.go). *)
THEOREM ListedStay == ProfilesSpec => StaysListed
<1>1. ASSUME ProfilesIInv, ProfilesIInv', [ProfilesNext]_profilesVars, NEW c \in Listed,
             c \in verified', \E j \in Approved' : jobs'[j].owner = c
      PROVE  c \in Listed'
  <2>1. c \in Live /\ clients[c]["company_name"] # Blank
    BY <1>1 DEF Listed
  <2>2. c \in Live'
    BY <1>1 DEF ProfilesIInv, TypeOK
  <2>3. clients'[c]["company_name"] # Blank
    BY <1>1, <2>1, <2>2, NamesStay
  <2> QED BY <1>1, <2>2, <2>3 DEF Listed
<1>2. ProfilesIInv /\ ProfilesIInv' /\ [ProfilesNext]_profilesVars =>
        [\A c \in Listed :
           c \in verified' /\ (\E j \in Approved' : jobs'[j].owner = c)
             => c \in Listed']_profilesVars
  BY <1>1
<1> QED BY <1>2, ProfilesInductive, PTL DEF ProfilesSpec, StaysListed

-----------------------------------------------------------------------------
(***************************************************************************)
(* Induction over the natural numbers, as far as sets go: what the library *)
(* states for predicates, for the set of the numbers that have one.        *)
(***************************************************************************)

Below == {p \in Nat \X Nat : p[1] < p[2]}

LEMMA BelowIsWellFounded == IsWellFoundedOn(Below, Nat)
<1>1. OpToRel(<, Nat) = Below
  BY DEF OpToRel, Below
<1> QED BY <1>1, NatLessThanWellFounded

LEMMA Least ==
  ASSUME NEW S \in SUBSET Nat, S # {}
  PROVE  \E m \in S : \A n \in S : m <= n
<1>1. PICK m \in S : \A n \in S : ~(<<n, m>> \in Below)
  BY BelowIsWellFounded, WFMin
<1>2. ASSUME NEW n \in S PROVE m <= n
  <2>1. <<n, m>> \notin Below /\ n \in Nat /\ m \in Nat
    BY <1>1
  <2>2. ~(n < m)
    BY <2>1 DEF Below
  <2> QED BY <2>1, <2>2
<1> QED BY <1>2

LEMMA Greatest ==
  ASSUME NEW bound \in Nat, NEW S \in SUBSET (0 .. bound), S # {}
  PROVE  \E m \in S : \A n \in S : n <= m
<1> DEFINE T == {bound - n : n \in S}
<1>1. T \in SUBSET Nat /\ T # {}
  <2>1. \A n \in S : bound - n \in Nat
    OBVIOUS
  <2> QED BY <2>1
<1>2. PICK k \in T : \A n \in T : k <= n
  BY <1>1, Least
<1>3. PICK m \in S : k = bound - m
  BY <1>2
<1>4. ASSUME NEW n \in S PROVE n <= m
  <2>1. bound - n \in T
    OBVIOUS
  <2>2. bound - m <= bound - n
    BY <1>2, <1>3, <2>1
  <2> QED BY <2>2
<1> QED BY <1>4

LEMMA Induction ==
  ASSUME NEW G \in SUBSET Nat, 0 \in G, \A n \in G : n + 1 \in G
  PROVE  G = Nat
<1>1. SUFFICES ASSUME Nat \ G # {} PROVE FALSE
  OBVIOUS
<1>2. PICK m \in Nat \ G : \A n \in Nat \ G : m <= n
  BY <1>1, Least
<1>3. m # 0 /\ m - 1 \in Nat
  BY <1>2
<1>4. m - 1 \in G
  BY <1>2, <1>3
<1> QED BY <1>2, <1>3, <1>4

(* By characters, a text is built from the empty one. *)
LEMMA SeqInduction ==
  ASSUME NEW S, NEW G \in SUBSET Seq(S), << >> \in G,
         \A s \in G, c \in S : Append(s, c) \in G
  PROVE  G = Seq(S)
<1> DEFINE N == {n \in Nat : \A s \in Seq(S) : Len(s) = n => s \in G}
<1>1. 0 \in N
  BY EmptySeq
<1>2. ASSUME NEW n \in N PROVE n + 1 \in N
  <2> SUFFICES ASSUME NEW s \in Seq(S), Len(s) = n + 1 PROVE s \in G
    OBVIOUS
  <2>1. s # << >>
    BY EmptySeq
  <2>2. PICK front \in Seq(S), c \in S : s = Append(front, c)
    BY <2>1, SequenceEmptyOrAppend
  <2>3. Len(front) = n
    BY <2>2, AppendProperties
  <2> QED BY <2>2, <2>3
<1>3. N = Nat
  <2> HIDE DEF N
  <2>1. N \in SUBSET Nat
    BY DEF N
  <2> QED BY <1>1, <1>2, <2>1, Induction
<1>4. ASSUME NEW s \in Seq(S) PROVE s \in G
  <2>1. Len(s) \in N
    BY <1>3
  <2> QED BY <2>1
<1> QED BY <1>4

-----------------------------------------------------------------------------
(***************************************************************************)
(* Texts: loops.                                                           *)
(***************************************************************************)

(* what a loop has after each turn *)
IsRun(g, A, a, turn, s) ==
  /\ g \in [0 .. Len(s) -> A] /\ g[0] = a
  /\ \A n \in 1 .. Len(s) : g[n] = turn[<<g[n - 1], s[n]>>]

(* what is as the loop would have it, as far as its states are in A *)
Follows(f, A, a, turn, s) ==
  /\ f[0] = a
  /\ \A n \in 1 .. Len(s) : f[n - 1] \in A => f[n] = turn[<<f[n - 1], s[n]>>]

(* Two loops that begin alike have the same as long as they do. *)
Begins(s, t) == Len(s) <= Len(t) /\ \A n \in 1 .. Len(s) : s[n] = t[n]

LEMMA RunExists ==
  ASSUME NEW A, NEW a \in A, NEW S, NEW turn \in [A \X S -> A], NEW s \in Seq(S)
  PROVE  \E g : IsRun(g, A, a, turn, s)
<1> DEFINE Runs(g, n) == /\ g \in [0 .. n -> A] /\ g[0] = a
                         /\ \A m \in 1 .. n : g[m] = turn[<<g[m - 1], s[m]>>]
           G == {n \in Nat : n <= Len(s) => \E g : Runs(g, n)}
<1>1. 0 \in G
  <2>1. Runs([m \in 0 .. 0 |-> a], 0)
    OBVIOUS
  <2> QED BY <2>1
<1>2. ASSUME NEW n \in G PROVE n + 1 \in G
  <2> SUFFICES ASSUME n + 1 <= Len(s) PROVE \E g : Runs(g, n + 1)
    OBVIOUS
  <2>1. PICK g : Runs(g, n)
    OBVIOUS
  <2>2. g[n] \in A /\ s[n + 1] \in S
    BY <2>1
  <2> DEFINE h == [m \in 0 .. n + 1 |-> IF m <= n THEN g[m] ELSE turn[<<g[n], s[n + 1]>>]]
  <2>3. h \in [0 .. n + 1 -> A]
    BY <2>1, <2>2
  <2>4. h[0] = a
    BY <2>1
  <2>5. ASSUME NEW m \in 1 .. n + 1 PROVE h[m] = turn[<<h[m - 1], s[m]>>]
    <3>1. CASE m <= n
      <4>1. /\ m \in 1 .. n /\ m \in 0 .. n + 1 /\ m - 1 \in 0 .. n + 1 /\ m - 1 <= n
        BY <3>1
      <4>2. h[m] = g[m] /\ h[m - 1] = g[m - 1]
        BY <3>1, <4>1
      <4> QED BY <2>1, <4>1, <4>2
    <3>2. CASE m = n + 1
      <4>1. m \in 0 .. n + 1 /\ n \in 0 .. n + 1 /\ ~(m <= n) /\ m - 1 = n
        BY <3>2
      <4>2. h[m] = turn[<<g[n], s[n + 1]>>] /\ h[n] = g[n]
        BY <4>1
      <4> QED BY <3>2, <4>1, <4>2
    <3> QED BY <3>1, <3>2
  <2> QED BY <2>3, <2>4, <2>5
<1>3. G = Nat
  <2> HIDE DEF G
  <2>1. G \in SUBSET Nat
    BY DEF G
  <2> QED BY <1>1, <1>2, <2>1, Induction
<1> QED BY <1>3 DEF IsRun

LEMMA RunIsUnique ==
  ASSUME NEW S, NEW s \in Seq(S), NEW t \in Seq(S), NEW A, NEW a, NEW turn,
         Begins(s, t), NEW g, IsRun(g, A, a, turn, s), NEW f, Follows(f, A, a, turn, t)
  PROVE  f[Len(s)] = g[Len(s)]
<1> DEFINE G == {n \in Nat : n <= Len(s) => f[n] = g[n]}
<1>0. Len(s) <= Len(t) /\ \A n \in 1 .. Len(s) : s[n] = t[n]
  BY DEF Begins
<1>1. 0 \in G
  BY DEF IsRun, Follows
<1>2. ASSUME NEW n \in G PROVE n + 1 \in G
  <2> SUFFICES ASSUME n + 1 <= Len(s) PROVE f[n + 1] = g[n + 1]
    OBVIOUS
  <2>1. f[n] = g[n] /\ g[n] \in A
    BY DEF IsRun
  <2>2. n + 1 \in 1 .. Len(s) /\ n + 1 \in 1 .. Len(t) /\ (n + 1) - 1 = n
    BY <1>0
  <2>3. f[n + 1] = turn[<<f[n], t[n + 1]>>] /\ g[n + 1] = turn[<<g[n], s[n + 1]>>]
    BY <2>1, <2>2 DEF IsRun, Follows
  <2> QED BY <1>0, <2>1, <2>2, <2>3
<1>3. G = Nat
  <2> HIDE DEF G
  <2>1. G \in SUBSET Nat
    BY DEF G
  <2> QED BY <1>1, <1>2, <2>1, Induction
<1> QED BY <1>3

(* Loop ends as a run does. *)
EndsRun(end, A, a, turn, s) == \E g : IsRun(g, A, a, turn, s) /\ end = g[Len(s)]

LEMMA LoopIsRun ==
  ASSUME NEW A, NEW a \in A, NEW S, NEW turn \in [A \X S -> A], NEW s \in Seq(S)
  PROVE  EndsRun(Loop(turn, a, s), A, a, turn, s)
<1> DEFINE IsLoop(f) ==
             f = [n \in 0 .. Len(s) |-> IF n = 0 THEN a ELSE turn[<<f[n - 1], s[n]>>]]
<1>1. PICK g : IsRun(g, A, a, turn, s)
  BY RunExists
<1>2. IsLoop(g)
  BY <1>1 DEF IsRun
<1>3. Loop(turn, a, s) = (CHOOSE f : IsLoop(f))[Len(s)]
  BY DEF Loop
<1>4. PICK f : f = CHOOSE k : IsLoop(k)
  OBVIOUS
<1>5. IsLoop(f)
  BY <1>2, <1>4
<1>6. Follows(f, A, a, turn, s)
  <2>1. \A n \in 0 .. Len(s) : f[n] = IF n = 0 THEN a ELSE turn[<<f[n - 1], s[n]>>]
    BY <1>5, Zenon
  <2>2. /\ 0 \in 0 .. Len(s)
        /\ \A n \in 1 .. Len(s) : n \in 0 .. Len(s) /\ n # 0
    OBVIOUS
  <2>3. f[0] = a /\ \A n \in 1 .. Len(s) : f[n] = turn[<<f[n - 1], s[n]>>]
    BY <2>1, <2>2, Zenon
  <2> QED BY <2>3, Zenon DEF Follows
<1>7. Begins(s, s)
  BY DEF Begins
<1>8. f[Len(s)] = g[Len(s)]
  BY <1>1, <1>6, <1>7, RunIsUnique
<1> QED BY <1>1, <1>3, <1>4, <1>8 DEF EndsRun

(* The loop, one character at a time. *)
Stepwise(A, a, turn, S) ==
  /\ Loop(turn, a, << >>) = a
  /\ \A s \in Seq(S) : Loop(turn, a, s) \in A
  /\ \A s \in Seq(S), c \in S :
       Loop(turn, a, Append(s, c)) = turn[<<Loop(turn, a, s), c>>]

LEMMA LoopStep ==
  ASSUME NEW A, NEW a \in A, NEW S, NEW turn \in [A \X S -> A]
  PROVE  Stepwise(A, a, turn, S)
<1>1. Loop(turn, a, << >>) = a
  <2>1. << >> \in Seq(S) /\ Len(<< >>) = 0
    OBVIOUS
  <2>2. EndsRun(Loop(turn, a, << >>), A, a, turn, << >>)
    BY <2>1, LoopIsRun, Zenon
  <2> QED BY <2>1, <2>2 DEF EndsRun, IsRun
<1>2. ASSUME NEW s \in Seq(S) PROVE Loop(turn, a, s) \in A
  <2>1. EndsRun(Loop(turn, a, s), A, a, turn, s)
    BY LoopIsRun, Zenon
  <2>2. Len(s) \in 0 .. Len(s)
    OBVIOUS
  <2> QED BY <2>1, <2>2 DEF EndsRun, IsRun
<1>3. ASSUME NEW s \in Seq(S), NEW c \in S
      PROVE  Loop(turn, a, Append(s, c)) = turn[<<Loop(turn, a, s), c>>]
  <2> DEFINE t == Append(s, c)
  <2>1. /\ t \in Seq(S) /\ Len(t) = Len(s) + 1 /\ t[Len(s) + 1] = c
        /\ \A n \in 1 .. Len(s) : s[n] = t[n]
    BY AppendProperties
  <2> HIDE DEF t
  <2>a. EndsRun(Loop(turn, a, t), A, a, turn, t) /\ EndsRun(Loop(turn, a, s), A, a, turn, s)
    BY <2>1, LoopIsRun, Zenon
  <2>2. PICK f : IsRun(f, A, a, turn, t) /\ Loop(turn, a, t) = f[Len(t)]
    BY <2>a DEF EndsRun
  <2>3. PICK g : IsRun(g, A, a, turn, s) /\ Loop(turn, a, s) = g[Len(s)]
    BY <2>a DEF EndsRun
  <2>4. Follows(f, A, a, turn, t) /\ Begins(s, t)
    BY <2>1, <2>2 DEF IsRun, Follows, Begins
  <2>5. f[Len(s)] = g[Len(s)]
    BY <2>1, <2>3, <2>4, RunIsUnique
  <2>6. f[Len(s) + 1] = turn[<<f[Len(s)], t[Len(s) + 1]>>]
    <3>1. Len(s) + 1 \in 1 .. Len(t) /\ (Len(s) + 1) - 1 = Len(s)
      BY <2>1
    <3> QED BY <2>2, <3>1 DEF IsRun
  <2>7. Loop(turn, a, t) = turn[<<Loop(turn, a, s), c>>]
    BY <2>1, <2>2, <2>3, <2>5, <2>6
  <2> QED BY <2>7 DEF t
<1> QED BY <1>1, <1>2, <1>3 DEF Stepwise

-----------------------------------------------------------------------------
(***************************************************************************)
(* Texts: what is left between the white space.                            *)
(***************************************************************************)

LEMMA SolidEnds ==
  ASSUME NEW t \in Seq(Char), Solid(t) # {}
  PROVE  /\ Min(Solid(t)) \in Solid(t) /\ Max(Solid(t)) \in Solid(t)
         /\ \A i \in Solid(t) : Min(Solid(t)) <= i /\ i <= Max(Solid(t))
         /\ Solid(t) \subseteq 1 .. Len(t)
<1>1. Solid(t) \subseteq 1 .. Len(t) /\ Len(t) \in Nat
  BY DEF Solid
<1>2. \E m \in Solid(t) : \A n \in Solid(t) : m <= n
  BY <1>1, Least
<1>3. \E m \in Solid(t) : \A n \in Solid(t) : n <= m
  <2>1. Solid(t) \in SUBSET (0 .. Len(t))
    BY <1>1
  <2> QED BY <1>1, <2>1, Greatest
<1>4. Min(Solid(t)) \in Solid(t) /\ \A i \in Solid(t) : Min(Solid(t)) <= i
  BY <1>2 DEF Min
<1>5. Max(Solid(t)) \in Solid(t) /\ \A i \in Solid(t) : i <= Max(Solid(t))
  <2>1. \E m \in Solid(t) : \A n \in Solid(t) : m >= n
    BY <1>1, <1>3
  <2> QED BY <1>1, <2>1 DEF Max
<1> QED BY <1>1, <1>4, <1>5

(* TrimSpace of what TrimSpace has returned changes nothing. *)
LEMMA TrimTwice ==
  ASSUME NEW t \in Seq(Char)
  PROVE  Trim(t) \in Seq(Char) /\ Trim(Trim(t)) = Trim(t)
<1>1. CASE Solid(t) = {}
  <2>1. Trim(t) = << >>
    BY <1>1 DEF Trim
  <2>2. Solid(<< >>) = {}
    BY DEF Solid
  <2>3. Trim(<< >>) = << >> /\ << >> \in Seq(Char)
    BY <2>2 DEF Trim
  <2> QED BY <2>1, <2>3
<1>2. CASE Solid(t) # {}
  <2> DEFINE lo == Min(Solid(t))
             hi == Max(Solid(t))
             u == SubSeq(t, lo, hi)
  <2>1. /\ lo \in 1 .. Len(t) /\ hi \in 1 .. Len(t) /\ lo <= hi
        /\ t[lo] # "space" /\ t[hi] # "space"
    BY <1>2, SolidEnds DEF Solid
  <2> HIDE DEF lo, hi
  <2>2. /\ u \in Seq(Char) /\ Len(u) = hi - lo + 1
        /\ \A i \in 1 .. hi - lo + 1 : u[i] = t[lo + i - 1]
    BY <2>1, SubSeqProperties
  <2>3. Trim(t) = u
    BY <1>2 DEF Trim, lo, hi
  <2> HIDE DEF u
  <2>4. 1 \in Solid(u) /\ Len(u) \in Solid(u)
    BY <2>1, <2>2 DEF Solid
  <2>5. Min(Solid(u)) = 1 /\ Max(Solid(u)) = Len(u)
    BY <2>2, <2>4, SolidEnds
  <2>6. Trim(u) = u
    BY <2>2, <2>4, <2>5, SubSeqFull DEF Trim
  <2> QED BY <2>2, <2>3, <2>6
<1> QED BY <1>1, <1>2

(* What is validated and trimmed is valid, and trimmed. *)
LEMMA TrimmedIsValid ==
  ASSUME NEW t \in Seq(Char), Validate(t)
  PROVE  Validate(Trim(t))
BY TrimTwice DEF Validate

(* What len of a text can be: nothing for an empty text, else a number. *)
LEMMA BytesFacts ==
  /\ Bytes(<< >>) = 0
  /\ \A t \in Seq(Char) : Bytes(t) \in Nat
<1>1. Bytes(<< >>) = 0
  <2>1. {i \in DOMAIN << >> : << >>[i] = "wide"} = {} /\ Len(<< >>) = 0
    OBVIOUS
  <2> QED BY <2>1, FS_EmptySet DEF Bytes
<1>2. ASSUME NEW t \in Seq(Char) PROVE Bytes(t) \in Nat
  <2> DEFINE wide == {i \in DOMAIN t : t[i] = "wide"}
  <2>1. Len(t) \in Nat /\ wide \subseteq 1 .. Len(t)
    OBVIOUS
  <2>2. IsFiniteSet(wide)
    BY <2>1, FS_Interval, FS_Subset
  <2>3. Cardinality(wide) \in Nat
    BY <2>2, FS_CardinalityType
  <2> QED BY <2>1, <2>3 DEF Bytes
<1> QED BY <1>1, <1>2

LEMMA TextsAreSequences == Text \subseteq Seq(Char)
<1>1. \A m \in Nat : [1 .. m -> Char] \subseteq Seq(Char)
  OBVIOUS
<1> QED BY <1>1, Sizes DEF Text, BoundedSeq, SeqOf

(* No job, no digits and no mail are a good start. *)
THEOREM TextsInitially == Init => IInv
<1>1. << >> \in Seq(IdChar) /\ << >> \in Seq(Mark)
  OBVIOUS
<1> QED BY <1>1 DEF Init, IInv, JobInv, NoJob

LEMMA JobCreateStep ==
  ASSUME IInv, NEW title \in Text, NEW location \in Text, NEW category \in Category,
         Create(title, location, category)
  PROVE  IInv'
<1>1. title \in Seq(Char) /\ location \in Seq(Char)
  BY TextsAreSequences
<1>2. /\ job' = [title |-> Trim(title), location |-> Trim(location), category |-> category]
      /\ Validate(title) /\ Validate(location) /\ category \in Categories
      /\ id' = id /\ mail' = mail
  BY DEF Create, Created, ValidateCategory
<1>3. /\ Trim(title) \in Seq(Char) /\ Trim(Trim(title)) = Trim(title)
      /\ Trim(location) \in Seq(Char) /\ Validate(Trim(title)) /\ Validate(Trim(location))
  BY <1>1, <1>2, TrimTwice, TrimmedIsValid
<1>5. Bytes(Trim(location)) <= MaxBody
  BY <1>2, <1>3, BytesFacts, Sizes DEF Validate
<1>4. JobInv'
  BY <1>2, <1>3, <1>5 DEF JobInv
<1> QED BY <1>2, <1>4 DEF IInv

LEMMA JobUpdateStep ==
  ASSUME IInv, NEW title \in Text, NEW location \in Text, NEW category \in Category,
         Update(title, location, category)
  PROVE  IInv'
<1>1. title \in Seq(Char) /\ location \in Seq(Char)
  BY TextsAreSequences
<1>2. /\ job.title \in Seq(Char) /\ Trim(job.title) = job.title /\ Validate(job.title)
      /\ job.location \in Seq(Char) /\ Validate(job.location)
      /\ Bytes(job.location) <= MaxBody /\ job.category \in Categories
  BY DEF IInv, JobInv, Update
<1>3. Accepts(title, location, category) /\ job' = Edited(job, title, location, category)
      /\ id' = id /\ mail' = mail
  BY DEF Update
<1>4. /\ job'.title \in Seq(Char) /\ Trim(job'.title) = job'.title /\ Validate(job'.title)
  <2>1. job'.title = IF title = << >> THEN job.title ELSE Trim(title)
    BY <1>3 DEF Edited
  <2>2. title # << >> => /\ Trim(title) \in Seq(Char) /\ Trim(Trim(title)) = Trim(title)
                         /\ Validate(Trim(title))
    BY <1>1, <1>3, TrimTwice, TrimmedIsValid DEF Accepts
  <2> QED BY <1>2, <2>1, <2>2
<1>5. /\ job'.location \in Seq(Char) /\ Validate(job'.location)
      /\ Bytes(job'.location) <= MaxBody
  <2>1. job'.location = IF location = << >> THEN job.location ELSE location
    BY <1>3 DEF Edited
  <2>2. Bytes(location) <= MaxBody
    <3>1. Bytes(title) \in Nat /\ Bytes(location) \in Nat /\ MaxBody \in Nat
      BY <1>1, BytesFacts, Sizes
    <3>2. Bytes(title) + Bytes(location) <= MaxBody
      BY <1>3 DEF Accepts, Fits
    <3> DEFINE a == Bytes(title)
               b == Bytes(location)
    <3> HIDE DEF a, b
    <3>3. a \in Nat /\ b \in Nat /\ MaxBody \in Nat /\ a + b <= MaxBody
      BY <3>1, <3>2 DEF a, b
    <3>4. b <= MaxBody
      BY <3>3
    <3> QED BY <3>4 DEF b
  <2> QED BY <1>1, <1>2, <1>3, <2>1, <2>2 DEF Accepts
<1>6. job'.category \in Categories
  BY <1>2, <1>3 DEF Edited, Accepts, ValidateCategory
<1>7. JobInv'
  BY <1>4, <1>5, <1>6 DEF JobInv
<1>8. job' = [title |-> job'.title, location |-> job'.location, category |-> job'.category]
  BY <1>3 DEF Edited
<1> QED BY <1>3, <1>7, <1>8 DEF IInv

(* Create and Update keep a stored job valid (JobHandler, job.go). *)
THEOREM TextsStep == IInv /\ [Next]_vars => IInv'
<1> SUFFICES ASSUME IInv, [Next]_vars PROVE IInv'
  OBVIOUS
<1>1. ASSUME NEW title \in Text, NEW location \in Text, NEW category \in Category,
             Create(title, location, category) \/ Update(title, location, category)
      PROVE  IInv'
  BY <1>1, JobCreateStep, JobUpdateStep
<1>2. ASSUME NEW c \in IdChar, Digit(c) PROVE IInv'
  <2>1. id' \in Seq(IdChar) /\ job' = job /\ mail' = mail
    BY <1>2 DEF Digit, IInv
  <2> QED BY <2>1 DEF IInv, JobInv
<1>3. ASSUME NEW c \in Mark, Write(c) PROVE IInv'
  <2>1. mail' \in Seq(Mark) /\ job' = job /\ id' = id
    BY <1>3 DEF Write, IInv
  <2> QED BY <2>1 DEF IInv, JobInv
<1>4. CASE UNCHANGED vars
  BY <1>4 DEF vars, IInv, JobInv
<1> QED BY <1>1, <1>2, <1>3, <1>4 DEF Next

(* The inductive invariant of Texts holds in every reachable state. *)
THEOREM TextsInductive == Spec => []IInv
BY TextsInitially, TextsStep, PTL DEF Spec

(* One column alone fits into a body. *)
LEMMA OneColumnFits ==
  ASSUME IInv, job # NoJob, NEW S \in SUBSET {"title", "location", "category"},
         Cardinality(S) = 1
  PROVE  Fits(Form(S).title, Form(S).location)
<1>1. PICK c : S = {c}
  <2>1. IsFiniteSet({"title"})
    BY FS_Singleton
  <2>2. IsFiniteSet({"title"} \cup {"location"})
    BY <2>1, FS_AddElement
  <2>3. IsFiniteSet(({"title"} \cup {"location"}) \cup {"category"})
    BY <2>2, FS_AddElement
  <2>4. IsFiniteSet({"title", "location", "category"})
    <3>1. {"title", "location", "category"} = ({"title"} \cup {"location"}) \cup {"category"}
      OBVIOUS
    <3> QED BY <2>3, <3>1
  <2>5. IsFiniteSet(S)
    BY <2>4, FS_Subset
  <2> QED BY <2>5, FS_Singleton
<1>2. /\ Form(S).title = IF "title" \in S THEN job.title ELSE << >>
      /\ Form(S).location = IF "location" \in S THEN job.location ELSE << >>
  BY DEF Form
<1>3. Bytes(job.title) <= MaxBody /\ Bytes(job.location) <= MaxBody
  BY BytesFacts, Sizes DEF IInv, JobInv, Validate
<1>4. Bytes(job.title) \in Nat /\ Bytes(job.location) \in Nat /\ Bytes(<< >>) = 0
  BY BytesFacts DEF IInv, JobInv
<1>5. \/ Form(S).title = << >> /\ Form(S).location \in {<< >>, job.location}
      \/ Form(S).title = job.title /\ Form(S).location = << >>
  BY <1>1, <1>2
<1> QED BY <1>3, <1>4, <1>5, Sizes DEF Fits

(* An edit form that returns one column as it was shown, or any columns    *)
(* that fit into a body, is accepted and changes nothing, for every limit  *)
(* and every text (JobHandler.Create and JobHandler.Update, job.go;        *)
(* Validate*, security.go). *)
THEOREM FormsRoundTrip == Spec => []ShownCanBeSent
<1>1. ASSUME IInv, job # NoJob, NEW S \in SUBSET {"title", "location", "category"},
             Fits(Form(S).title, Form(S).location)
      PROVE  /\ Accepts(Form(S).title, Form(S).location, Form(S).category)
             /\ Edited(job, Form(S).title, Form(S).location, Form(S).category) = job
  <2> DEFINE t == Form(S).title
             l == Form(S).location
             k == Form(S).category
  <2>1. /\ Trim(job.title) = job.title /\ Validate(job.title)
        /\ Validate(job.location) /\ job.category \in Categories
        /\ job = [title |-> job.title, location |-> job.location, category |-> job.category]
    BY <1>1 DEF IInv, JobInv
  <2>2. t \in {<< >>, job.title} /\ l \in {<< >>, job.location} /\ k \in {"", job.category}
    BY DEF Form
  <2>3. Fits(t, l)
    BY <1>1
  <2> HIDE DEF t, l, k
  <2>4. Accepts(t, l, k)
    BY <2>1, <2>2, <2>3 DEF Accepts, ValidateCategory
  <2>5. /\ (IF t = << >> THEN job.title ELSE Trim(t)) = job.title
        /\ (IF l = << >> THEN job.location ELSE l) = job.location
        /\ (IF k = "" THEN job.category ELSE k) = job.category
    BY <2>1, <2>2
  <2>6. Edited(job, t, l, k) = job
    BY <2>1, <2>5 DEF Edited
  <2> QED BY <2>4, <2>6 DEF t, l, k
<1>2. IInv => ShownCanBeSent
  BY <1>1, OneColumnFits DEF ShownCanBeSent
<1> QED BY <1>2, TextsInductive, PTL

-----------------------------------------------------------------------------
(***************************************************************************)
(* Texts: the two ways to read an id.                                      *)
(***************************************************************************)

(* int64 wraps around: a multiple of Word is lost, and the rest is small.  *)
LEMMA WrapFacts ==
  ASSUME NEW n \in Int
  PROVE  /\ Wrap(n) \in Int
         /\ -(Word \div 2) <= Wrap(n) /\ Wrap(n) < Word \div 2
         /\ \E k \in Int : Wrap(n) = n - k * Word
<1>1. Word \in Nat /\ Word > 0 /\ Word % 2 = 0
  BY Sizes
<1> DEFINE h == Word \div 2
<1>2. h \in Int /\ Word = 2 * h
  BY <1>1
<1>3. /\ (n + h) % Word \in 0 .. Word - 1
      /\ (n + h) \div Word \in Int
      /\ n + h = Word * ((n + h) \div Word) + ((n + h) % Word)
  BY <1>1, <1>2
<1>4. Wrap(n) = ((n + h) % Word) - h
  BY DEF Wrap
<1> HIDE DEF h
<1>5. Wrap(n) = n - ((n + h) \div Word) * Word
  BY <1>1, <1>2, <1>3, <1>4
<1> QED BY <1>1, <1>2, <1>3, <1>4, <1>5 DEF h

(* parseInt64's loop, and the number the digits stand for *)
LEMMA DigitLoops ==
  /\ Turns(<< >>) = [ok |-> TRUE, id |-> 0] /\ Value(<< >>) = 0
  /\ \A s \in Seq(IdChar) : Turns(s) \in [ok : BOOLEAN, id : Int] /\ Value(s) \in Int
  /\ \A s \in Seq(IdChar), c \in IdChar :
       /\ Turns(Append(s, c)) = Turn(Turns(s), c)
       /\ Value(Append(s, c)) = Value(s) * Base + c
<1> DEFINE A == [ok : BOOLEAN, id : Int]
           turn == [p \in A \X IdChar |-> Turn(p[1], p[2])]
           place == [p \in Int \X IdChar |-> p[1] * Base + p[2]]
<1>1. turn \in [A \X IdChar -> A]
  <2>1. ASSUME NEW x \in A, NEW c \in IdChar PROVE Turn(x, c) \in A
    <3>1. Shift(x.id, c) \in Int
      <4>1. x.id \in Int /\ c \in Int /\ Base \in Int
        BY Sizes DEF IdChar
      <4> QED BY <4>1 DEF Shift
    <3>2. Wrap(Shift(x.id, c)) \in Int
      BY <3>1, WrapFacts
    <3> QED BY <3>2 DEF Turn, Refused
  <2> QED BY <2>1
<1>2. place \in [Int \X IdChar -> Int]
  <2>1. ASSUME NEW n \in Int, NEW c \in IdChar PROVE n * Base + c \in Int
    <3>1. c \in Int /\ Base \in Int
      BY Sizes DEF IdChar
    <3> QED BY <3>1
  <2> QED BY <2>1
<1>3. /\ Stepwise(A, [ok |-> TRUE, id |-> 0], turn, IdChar)
      /\ Stepwise(Int, 0, place, IdChar)
  <2>1. [ok |-> TRUE, id |-> 0] \in A /\ 0 \in Int
    OBVIOUS
  <2> HIDE DEF A, turn, place
  <2> QED BY <1>1, <1>2, <2>1, LoopStep
<1>4. /\ \A s : Turns(s) = Loop(turn, [ok |-> TRUE, id |-> 0], s)
      /\ \A s : Value(s) = Loop(place, 0, s)
  BY DEF Turns, Value
<1>5. /\ \A x \in A, c \in IdChar : turn[<<x, c>>] = Turn(x, c)
      /\ \A x \in Int, c \in IdChar : place[<<x, c>>] = x * Base + c
  OBVIOUS
<1> HIDE DEF turn, place, A
<1>6. \A s \in Seq(IdChar) : Turns(s) \in A /\ Value(s) \in Int
  BY <1>3, <1>4 DEF Stepwise
<1> QED BY <1>3, <1>4, <1>5, <1>6 DEF Stepwise, A

(* what parseInt64 has after some turns, x, when the digits so far stand   *)
(* for v: the same number, but for multiples of Word *)
Congruent(x, v) ==
  /\ -(Word \div 2) <= x /\ x < Word \div 2
  /\ \E k \in Int : x = v - k * Word

LEMMA TurnFacts ==
  ASSUME NEW x \in Int, NEW v \in Int, NEW c \in IdChar, Congruent(x, v)
  PROVE  Wrap(Shift(x, c)) \in Int /\ Congruent(Wrap(Shift(x, c)), v * Base + c)
<1>1. Word \in Nat /\ Base \in Nat /\ c \in Int
  BY Sizes DEF IdChar
<1>2. PICK k \in Int : x = v - k * Word
  BY DEF Congruent
<1>3. Shift(x, c) \in Int /\ Shift(x, c) = x * Base + c
  BY <1>1 DEF Shift
<1>4. PICK m \in Int : Wrap(Shift(x, c)) = Shift(x, c) - m * Word
  BY <1>3, WrapFacts
<1>5. x * Base = v * Base - (k * Base) * Word
  BY <1>1, <1>2
<1>6. Wrap(Shift(x, c)) = (v * Base + c) - (k * Base + m) * Word
  <2>1. Wrap(Shift(x, c)) = (v * Base + c) - (k * Base) * Word - m * Word
    BY <1>1, <1>3, <1>4, <1>5
  <2>2. (k * Base + m) * Word = (k * Base) * Word + m * Word
    BY <1>1
  <2> QED BY <1>1, <2>1, <2>2
<1>7. k * Base + m \in Int
  BY <1>1
<1> QED BY <1>3, <1>6, <1>7, WrapFacts DEF Congruent

(* After every digit, parseInt64 has what the digits stand for, but for    *)
(* multiples of Word, unless one of them was none. *)
AllDigits(s) == \A i \in 1 .. Len(s) : s[i] < Base

Agrees(s) ==
  /\ Value(s) \in Nat
  /\ Turns(s).ok <=> AllDigits(s)
  /\ Turns(s).ok => Congruent(Turns(s).id, Value(s))

LEMMA LoopsAgree ==
  ASSUME NEW s \in Seq(IdChar)
  PROVE  Agrees(s)
<1> DEFINE G == {t \in Seq(IdChar) : Agrees(t)}
<1>0. Word \in Nat /\ Word > 1 /\ Word % 2 = 0 /\ Base \in Nat
  BY Sizes
<1>1. << >> \in G
  <2>1. 0 = 0 - 0 * Word /\ -(Word \div 2) <= 0 /\ 0 < Word \div 2
    BY <1>0
  <2>2. Congruent(0, 0)
    BY <2>1 DEF Congruent
  <2>3. AllDigits(<< >>)
    BY DEF AllDigits
  <2>4. Turns(<< >>).ok /\ Turns(<< >>).id = 0 /\ Value(<< >>) = 0
    BY DigitLoops
  <2> QED BY <2>2, <2>3, <2>4, EmptySeq DEF Agrees
<1>2. ASSUME NEW t \in G, NEW c \in IdChar PROVE Append(t, c) \in G
  <2> DEFINE u == Append(t, c)
             x == Turns(t)
             v == Value(t)
  <2>1. /\ t \in Seq(IdChar) /\ u \in Seq(IdChar) /\ Agrees(t)
        /\ x \in [ok : BOOLEAN, id : Int] /\ v \in Nat
        /\ Turns(u) = Turn(x, c) /\ Value(u) = v * Base + c
    BY DigitLoops DEF Agrees
  <2>2. AllDigits(u) <=> AllDigits(t) /\ c < Base
    <3>1. /\ Len(u) = Len(t) + 1 /\ u[Len(t) + 1] = c
          /\ \A i \in 1 .. Len(t) : u[i] = t[i]
      BY <2>1, AppendProperties
    <3> HIDE DEF u
    <3>2. Len(t) \in Nat
      BY <2>1
    <3> QED BY <3>1, <3>2 DEF AllDigits
  <2> HIDE DEF u, x, v
  <2>3. Value(u) \in Nat
    <3>1. v * Base \in Nat /\ c \in Nat
      BY <1>0, <2>1 DEF IdChar
    <3> QED BY <2>1, <3>1
  <2>4. CASE ~x.ok \/ c >= Base
    <3>1. Turns(u) = [ok |-> FALSE, id |-> 0]
      BY <2>1, <2>4 DEF Turn, Refused
    <3>2. ~Turns(u).ok
      BY <3>1
    <3>3. c >= Base => ~(c < Base)
      BY <1>0 DEF IdChar
    <3> QED BY <2>1, <2>2, <2>3, <2>4, <3>2, <3>3 DEF Agrees, x, u
  <2>5. CASE x.ok /\ ~(c >= Base)
    <3>1. Turns(u).ok /\ Turns(u).id = Wrap(Shift(x.id, c))
      BY <2>1, <2>5 DEF Turn
    <3>2. Congruent(x.id, v) /\ x.id \in Int /\ v \in Int
      BY <2>1, <2>5 DEF Agrees, x, v
    <3>3. Congruent(Wrap(Shift(x.id, c)), Value(u))
      BY <2>1, <3>2, TurnFacts
    <3>4. c < Base
      BY <1>0, <2>5 DEF IdChar
    <3> QED BY <2>1, <2>2, <2>3, <2>5, <3>1, <3>3, <3>4 DEF Agrees, x, u
  <2> QED BY <2>4, <2>5
<1>3. G = Seq(IdChar)
  <2> HIDE DEF G
  <2>1. G \in SUBSET Seq(IdChar)
    BY DEF G
  <2> QED BY <1>1, <1>2, <2>1, SeqInduction
<1> QED BY <1>3

(* A number that fits is not changed. *)
LEMMA CongruentFacts ==
  ASSUME NEW x \in Int, NEW v \in Nat, Congruent(x, v), v < Word \div 2
  PROVE  x = v
<1>1. Word \in Nat /\ Word > 1 /\ Word % 2 = 0
  BY Sizes
<1>2. PICK k \in Int : x = v - k * Word
  BY DEF Congruent
<1>3. -(Word \div 2) <= x /\ x < Word \div 2
  BY DEF Congruent
<1>4. Word = 2 * (Word \div 2) /\ Word \div 2 \in Nat
  BY <1>1
<1>5. -Word < k * Word /\ k * Word < Word
  BY <1>1, <1>2, <1>3, <1>4
<1>6. k = 0
  BY <1>1, <1>5
<1> QED BY <1>1, <1>2, <1>6

LEMMA WrapKeeps ==
  ASSUME NEW v \in Nat
  PROVE  Wrap(v) = v <=> v < Word \div 2
<1>1. Congruent(Wrap(v), v) /\ Wrap(v) \in Int
  BY WrapFacts DEF Congruent
<1>2. v < Word \div 2 => Wrap(v) = v
  BY <1>1, CongruentFacts
<1> QED BY <1>1, <1>2 DEF Congruent

(* The two ways to read an id agree as far as ParsersAgree says, for every *)
(* text, every base and every word (parseInt64, job.go; strconv.ParseInt,  *)
(* admin.go). *)
THEOREM IdsAreReadAlike == Spec => []ParsersAgree
<1>1. ASSUME IInv PROVE ParsersAgree
  <2>1. id \in Seq(IdChar)
    BY <1>1 DEF IInv
  <2>2. CASE id = << >>
    BY <2>2 DEF ParsersAgree, ParseInt, ParseInt64, Refused, Numeral, Signed
  <2>3. CASE id # << >>
    <3> DEFINE x == ParseInt64(id)
               y == ParseInt(id)
               v == Value(id)
    <3>1. x = Turns(id)
      BY <2>3 DEF ParseInt64
    <3>2. /\ v \in Nat /\ x \in [ok : BOOLEAN, id : Int]
          /\ x.ok <=> Numeral(id)
          /\ x.ok => Congruent(x.id, v)
      <4>1. Numeral(id) <=> AllDigits(id)
        BY <2>1, <2>3 DEF Numeral, AllDigits
      <4> QED BY <2>1, <3>1, <4>1, LoopsAgree, DigitLoops DEF Agrees
    <3>3. Numeral(id) => ~Signed(id)
      <4>1. 1 \in DOMAIN id /\ Head(id) = id[1] /\ Base \in Nat
        BY <2>1, <2>3, Sizes
      <4>2. Numeral(id) => ~(Head(id) >= Base)
        BY <2>1, <4>1 DEF Numeral, IdChar
      <4> QED BY <4>1, <4>2 DEF Signed, Plus, Minus
    <3>4. ~Signed(id) =>
            y = IF Numeral(id) /\ v < Word \div 2 THEN [ok |-> TRUE, id |-> v] ELSE Refused
      <4>1. Wrap(v) = v <=> v < Word \div 2
        BY <3>2, WrapKeeps
      <4> QED BY <4>1 DEF ParseInt, Meant
    <3> HIDE DEF x, y, v
    <3>5. Numeral(id) /\ v < Word \div 2 => x = [ok |-> TRUE, id |-> v] /\ y = x
      BY <3>2, <3>3, <3>4, CongruentFacts
    <3>6. x.ok /\ y.ok => Numeral(id) /\ v < Word \div 2
      BY <3>2, <3>3, <3>4 DEF Refused
    <3>7. ~Signed(id) /\ ~(v >= Word \div 2) => x.ok = y.ok
      <4>1. ~(v >= Word \div 2) => v < Word \div 2
        BY <3>2, Sizes
      <4>2. ~Numeral(id) /\ ~Signed(id) => ~x.ok /\ ~y.ok /\ x.ok \in BOOLEAN
        BY <3>2, <3>4 DEF Refused
      <4>3. ~Numeral(id) /\ ~Signed(id) => y.ok = FALSE /\ x.ok = FALSE
        BY <3>2, <3>4 DEF Refused
      <4> QED BY <3>5, <4>1, <4>3
    <3> QED BY <3>5, <3>6, <3>7 DEF ParsersAgree, x, y, v
  <2> QED BY <2>2, <2>3
<1> QED BY <1>1, TextsInductive, PTL

-----------------------------------------------------------------------------
(***************************************************************************)
(* Texts: a mail and its paragraphs.                                       *)
(***************************************************************************)

LEMMA MarkFacts ==
  /\ "<" \in Mark /\ "&" \in Mark /\ Newline \in Mark
  /\ "&" \in Special /\ Newline \notin Special /\ Special \subseteq Mark
  /\ \A d \in Special : /\ Entity[d] \in Mark \ Special /\ Entity[d] # Newline
                        /\ \A e \in Special : Entity[e] = Entity[d] => e = d
BY DEF Mark, Newline, Special, Entity

(* the escaper *)
LEMMA EscapeLoop ==
  /\ Escape(<< >>) = << >>
  /\ \A s \in Seq(Mark) : Escape(s) \in Seq(Mark)
  /\ \A s \in Seq(Mark), c \in Mark : Escape(Append(s, c)) = Escaped(Escape(s), c)
<1> DEFINE turn == [p \in Seq(Mark) \X Mark |-> Escaped(p[1], p[2])]
<1>1. turn \in [Seq(Mark) \X Mark -> Seq(Mark)]
  <2>1. ASSUME NEW x \in Seq(Mark), NEW c \in Mark PROVE Escaped(x, c) \in Seq(Mark)
    <3>1. ASSUME c \in Special PROVE x \o <<"&", Entity[c]>> \in Seq(Mark)
      <4>1. "&" \in Mark /\ Entity[c] \in Mark
        BY <3>1, MarkFacts
      <4>2. <<"&", Entity[c]>> \in Seq(Mark)
        BY <4>1
      <4> QED BY <4>2
    <3> QED BY <3>1 DEF Escaped
  <2> QED BY <2>1
<1>2. Stepwise(Seq(Mark), << >>, turn, Mark)
  <2>1. << >> \in Seq(Mark)
    OBVIOUS
  <2> HIDE DEF turn
  <2> QED BY <1>1, <2>1, LoopStep
<1>3. /\ \A s : Escape(s) = Loop(turn, << >>, s)
      /\ \A x \in Seq(Mark), c \in Mark : turn[<<x, c>>] = Escaped(x, c)
  BY DEF Escape
<1> HIDE DEF turn
<1> QED BY <1>2, <1>3 DEF Stepwise

(* the splitter *)
SplitState == [cur : Seq(Mark), out : Seq(Seq(Mark))]

LEMMA SplitsLoop ==
  /\ Splits(<< >>) = [cur |-> << >>, out |-> << >>]
  /\ \A s \in Seq(Mark) : Splits(s) \in SplitState
  /\ \A s \in Seq(Mark), c \in Mark : Splits(Append(s, c)) = Split(Splits(s), c)
<1> DEFINE turn == [p \in SplitState \X Mark |-> Split(p[1], p[2])]
           a == [cur |-> << >>, out |-> << >>]
<1>1. turn \in [SplitState \X Mark -> SplitState]
  <2>1. ASSUME NEW x \in SplitState, NEW c \in Mark PROVE Split(x, c) \in SplitState
    <3>1. x.cur # << >> => Front(x.cur) \in Seq(Mark)
      BY DEF Front, SplitState
    <3>2. /\ Append(x.cur, c) \in Seq(Mark)
          /\ x.cur # << >> => Append(x.out, Front(x.cur)) \in Seq(Seq(Mark))
      BY <3>1 DEF SplitState
    <3> QED BY <3>2 DEF Split, SplitState
  <2> QED BY <2>1
<1>2. Stepwise(SplitState, a, turn, Mark)
  <2>1. a \in SplitState
    BY DEF SplitState
  <2> HIDE DEF turn, a
  <2> QED BY <1>1, <2>1, LoopStep
<1>3. \A s : Splits(s) = Loop(turn, a, s)
  BY DEF Splits, SplitState
<1>4. \A x \in SplitState, c \in Mark : turn[<<x, c>>] = Split(x, c)
  OBVIOUS
<1> HIDE DEF turn
<1> QED BY <1>2, <1>3, <1>4 DEF Stepwise

(* the reader of a paragraph *)
SeenState == [text : Seq(Mark), amp : BOOLEAN]

LEMMA SeenLoop ==
  /\ Seen(<< >>) = [text |-> << >>, amp |-> FALSE]
  /\ \A s \in Seq(Mark) : Seen(s) \in SeenState /\ Shown(s) \in Seq(Mark)
  /\ \A s \in Seq(Mark), c \in Mark : Seen(Append(s, c)) = See(Seen(s), c)
<1> DEFINE turn == [p \in SeenState \X Mark |-> See(p[1], p[2])]
           a == [text |-> << >>, amp |-> FALSE]
<1>0. \A x \in SeenState : Said(x) \in Seq(Mark)
  BY MarkFacts, AppendProperties DEF Said, SeenState
<1>1. turn \in [SeenState \X Mark -> SeenState]
  <2>1. ASSUME NEW x \in SeenState, NEW c \in Mark PROVE See(x, c) \in SeenState
    <3>1. Said(x) \in Seq(Mark) /\ Solidly(Said(x), c) \in Seq(Mark)
      BY <1>0 DEF Solidly
    <3>2. ASSUME \E d \in Special : Entity[d] = c
          PROVE  Append(x.text, Meaning(c)) \in Seq(Mark)
      <4>1. Meaning(c) \in Special
        BY <3>2 DEF Meaning
      <4> QED BY <4>1, MarkFacts, AppendProperties DEF SeenState
    <3> QED BY <3>1, <3>2 DEF See, SeenState
  <2> QED BY <2>1
<1>2. Stepwise(SeenState, a, turn, Mark)
  <2>1. a \in SeenState
    BY DEF SeenState
  <2> HIDE DEF turn, a
  <2> QED BY <1>1, <2>1, LoopStep
<1>3. \A s : Seen(s) = Loop(turn, a, s)
  BY DEF Seen, SeenState
<1>4. \A x \in SeenState, c \in Mark : turn[<<x, c>>] = See(x, c)
  OBVIOUS
<1> HIDE DEF turn
<1>5. \A s \in Seq(Mark) : Seen(s) \in SeenState
  BY <1>2, <1>3 DEF Stepwise
<1>6. \A s \in Seq(Mark) : Shown(s) \in Seq(Mark)
  BY <1>0, <1>5 DEF Shown
<1> QED BY <1>2, <1>3, <1>4, <1>5, <1>6 DEF Stepwise

(* what is read in a text, and in one paragraph after the other *)
LEMMA ReadLoops ==
  /\ Words(<< >>) = << >> /\ ReadAll(<< >>) = << >>
  /\ \A s \in Seq(Mark) : Words(s) \in Seq(Mark)
  /\ \A s \in Seq(Mark), c \in Mark : Words(Append(s, c)) = Solidly(Words(s), c)
  /\ \A o \in Seq(Seq(Mark)) : ReadAll(o) \in Seq(Mark)
  /\ \A o \in Seq(Seq(Mark)), p \in Seq(Mark) :
       ReadAll(Append(o, p)) = ReadAll(o) \o Shown(p)
<1> DEFINE word == [p \in Seq(Mark) \X Mark |-> Solidly(p[1], p[2])]
           read == [p \in Seq(Mark) \X Seq(Mark) |-> p[1] \o Shown(p[2])]
<1>1. word \in [Seq(Mark) \X Mark -> Seq(Mark)]
  BY DEF Solidly
<1>2. read \in [Seq(Mark) \X Seq(Mark) -> Seq(Mark)]
  BY SeenLoop
<1>3. Stepwise(Seq(Mark), << >>, word, Mark) /\ Stepwise(Seq(Mark), << >>, read, Seq(Mark))
  <2>1. << >> \in Seq(Mark)
    OBVIOUS
  <2> HIDE DEF word, read
  <2> QED BY <1>1, <1>2, <2>1, LoopStep
<1>4. /\ \A s : Words(s) = Loop(word, << >>, s) /\ ReadAll(s) = Loop(read, << >>, s)
      /\ \A x \in Seq(Mark), c \in Mark : word[<<x, c>>] = Solidly(x, c)
      /\ \A x \in Seq(Mark), p \in Seq(Mark) : read[<<x, p>>] = x \o Shown(p)
  BY DEF Words, ReadAll
<1> HIDE DEF word, read
<1> QED BY <1>3, <1>4 DEF Stepwise

(* What the splitter has put out, out, and what it still holds, cur, say   *)
(* what has been read, w: nothing in cur waits for its other half, and its *)
(* last new line may be dropped unseen. *)
Held(cur, out, w) ==
  /\ ReadAll(out) \o Seen(cur).text = w
  /\ ~Seen(cur).amp
  /\ cur # << >> /\ Last(cur) = Newline => Seen(Front(cur)) = Seen(cur)
  /\ NoBlankLine(cur)
  /\ \A k \in DOMAIN out : NoBlankLine(out[k])

Says(e, w) == e \in SplitState /\ Held(e.cur, e.out, w)

LEMMA LastOfAppend ==
  ASSUME NEW S, NEW s \in Seq(S), NEW c \in S
  PROVE  Append(s, c) # << >> /\ Last(Append(s, c)) = c /\ Front(Append(s, c)) = s
<1>1. Append(s, c) # << >> /\ Len(Append(s, c)) = Len(s) + 1 /\ Append(s, c)[Len(s) + 1] = c
  BY AppendProperties
<1>2. SubSeq(Append(s, c), 1, Len(s)) = s
  OBVIOUS
<1> QED BY <1>1, <1>2 DEF Last, Front

LEMMA ConcatAppend ==
  ASSUME NEW s \in Seq(Mark), NEW t \in Seq(Mark), NEW c \in Mark
  PROVE  s \o Append(t, c) = Append(s \o t, c)
<1>1. Append(t, c) \in Seq(Mark) /\ s \o t \in Seq(Mark)
  OBVIOUS
<1>2. s \o Append(t, c) \in Seq(Mark) /\ Append(s \o t, c) \in Seq(Mark)
  BY <1>1
<1>3. Len(s \o Append(t, c)) = Len(Append(s \o t, c))
  BY <1>1
<1>4. \A i \in 1 .. Len(s \o Append(t, c)) : (s \o Append(t, c))[i] = Append(s \o t, c)[i]
  BY <1>1
<1> QED BY <1>2, <1>3, <1>4, SeqEqual

LEMMA NoBlankLineAppend ==
  ASSUME NEW s \in Seq(Mark), NEW c \in Mark, NoBlankLine(s),
         s # << >> /\ Last(s) = Newline => c # Newline
  PROVE  NoBlankLine(Append(s, c))
<1> DEFINE t == Append(s, c)
<1>1. /\ Len(t) = Len(s) + 1 /\ t[Len(s) + 1] = c
      /\ \A i \in 1 .. Len(s) : t[i] = s[i]
  BY AppendProperties
<1>2. ASSUME NEW i \in 1 .. Len(t) - 1 PROVE t[i] # Newline \/ t[i + 1] # Newline
  <2>1. CASE i = Len(s)
    BY <1>1, <2>1 DEF Last
  <2>2. CASE i # Len(s)
    <3>1. i \in 1 .. Len(s) - 1 /\ i \in 1 .. Len(s) /\ i + 1 \in 1 .. Len(s)
      BY <1>1, <2>2
    <3>2. t[i] = s[i] /\ t[i + 1] = s[i + 1]
      BY <1>1, <3>1
    <3> QED BY <3>1, <3>2 DEF NoBlankLine
  <2> QED BY <2>1, <2>2
<1> QED BY <1>2 DEF NoBlankLine

LEMMA NoBlankLineFront ==
  ASSUME NEW s \in Seq(Mark), s # << >>, NoBlankLine(s)
  PROVE  Front(s) \in Seq(Mark) /\ NoBlankLine(Front(s))
<1>1. PICK f \in Seq(Mark), c \in Mark : s = Append(f, c)
  BY SequenceEmptyOrAppend
<1>2. Front(s) = f /\ Len(s) = Len(f) + 1 /\ \A i \in 1 .. Len(f) : s[i] = f[i]
  BY <1>1, LastOfAppend, AppendProperties
<1>3. ASSUME NEW i \in 1 .. Len(f) - 1 PROVE f[i] # Newline \/ f[i + 1] # Newline
  <2>1. i \in 1 .. Len(s) - 1 /\ i \in 1 .. Len(f) /\ i + 1 \in 1 .. Len(f)
    BY <1>2
  <2>2. s[i] = f[i] /\ s[i + 1] = f[i + 1]
    BY <1>2, <2>1
  <2> QED BY <2>1, <2>2 DEF NoBlankLine
<1> QED BY <1>1, <1>2, <1>3 DEF NoBlankLine

LEMMA SaysIs ==
  ASSUME NEW d \in Seq(Mark), NEW o \in Seq(Seq(Mark)), NEW w, Held(d, o, w)
  PROVE  Says([cur |-> d, out |-> o], w)
<1> DEFINE e == [cur |-> d, out |-> o]
<1>1. e \in SplitState /\ e.cur = d /\ e.out = o
  BY DEF SplitState
<1> HIDE DEF e
<1>2. Says(e, w)
  BY <1>1 DEF Says
<1> QED BY <1>2 DEF e

(* A character that is not special is put out as it is. *)
LEMMA PlainSays ==
  ASSUME NEW e, NEW w, Says(e, w), NEW c \in Mark \ Special,
         ~(c = Newline /\ e.cur # << >> /\ Last(e.cur) = Newline)
  PROVE  Says(Split(e, c), Solidly(w, c))
<1> DEFINE d == Append(e.cur, c)
           seen == Seen(e.cur)
<1>1. /\ e.cur \in Seq(Mark) /\ e.out \in Seq(Seq(Mark)) /\ d \in Seq(Mark)
      /\ seen \in SeenState /\ ~seen.amp /\ seen.text \in Seq(Mark)
      /\ ReadAll(e.out) \in Seq(Mark)
  <2>1. e.cur \in Seq(Mark) /\ e.out \in Seq(Seq(Mark)) /\ ~seen.amp
    BY DEF Says, Held, SplitState
  <2>2. d \in Seq(Mark)
    BY <2>1, AppendProperties
  <2>3. seen \in SeenState /\ ReadAll(e.out) \in Seq(Mark)
    BY <2>1, SeenLoop, ReadLoops
  <2> QED BY <2>1, <2>2, <2>3 DEF SeenState
<1>2. Split(e, c) = [cur |-> d, out |-> e.out]
  BY DEF Split
<1>3. Seen(d) = [text |-> Solidly(seen.text, c), amp |-> FALSE]
  <2>1. Seen(d) = See(seen, c)
    BY <1>1, SeenLoop
  <2>2. c # "&"
    BY MarkFacts
  <2> HIDE DEF d, seen
  <2> QED BY <1>1, <2>1, <2>2 DEF See, Said
<1>4. ReadAll(e.out) \o Solidly(seen.text, c) = Solidly(w, c)
  <2>1. w = ReadAll(e.out) \o seen.text
    BY DEF Says, Held
  <2> HIDE DEF seen
  <2>2. ReadAll(e.out) \o Append(seen.text, c) = Append(ReadAll(e.out) \o seen.text, c)
    BY <1>1, ConcatAppend
  <2> QED BY <2>1, <2>2 DEF Solidly
<1>5. d # << >> /\ Last(d) = c /\ Front(d) = e.cur
  BY <1>1, LastOfAppend
<1>6. c = Newline => Seen(d) = seen
  <2> HIDE DEF d, seen
  <2> QED BY <1>1, <1>3 DEF Solidly, SeenState
<1>7. NoBlankLine(d)
  BY <1>1, NoBlankLineAppend DEF Says, Held
<1> HIDE DEF d
<1>8. \A k \in DOMAIN e.out : NoBlankLine(e.out[k])
  BY DEF Says, Held
<1>9. Held(d, e.out, Solidly(w, c))
  BY <1>1, <1>3, <1>4, <1>5, <1>6, <1>7, <1>8 DEF Held
<1>10. Says([cur |-> d, out |-> e.out], Solidly(w, c))
  BY <1>1, <1>9, SaysIs, Zenon
<1> QED BY <1>2, <1>10

(* A special character is put out as two, between which nothing is split,  *)
(* and read as itself. *)
LEMMA SpecialSays ==
  ASSUME NEW e, NEW w, Says(e, w), NEW c \in Special
  PROVE  Says(Split(Split(e, "&"), Entity[c]), Solidly(w, c))
<1> DEFINE b == Entity[c]
           d == Append(e.cur, "&")
           f == Append(d, b)
           seen == Seen(e.cur)
<1>1. /\ "&" \in Mark /\ "&" # Newline /\ b \in Mark /\ b \notin Special /\ b # Newline
      /\ "&" \in Special /\ c # Newline /\ c \in Mark
      /\ \A x \in Special : Entity[x] = b => x = c
      /\ \A x \in Special : Entity[x] # "&"
  BY MarkFacts
<1>2. /\ e.cur \in Seq(Mark) /\ e.out \in Seq(Seq(Mark)) /\ d \in Seq(Mark) /\ f \in Seq(Mark)
      /\ seen \in SeenState /\ ~seen.amp /\ seen.text \in Seq(Mark)
      /\ ReadAll(e.out) \in Seq(Mark)
  <2>1. e.cur \in Seq(Mark) /\ e.out \in Seq(Seq(Mark)) /\ ~seen.amp
    BY DEF Says, Held, SplitState
  <2>2. d \in Seq(Mark)
    BY <1>1, <2>1, AppendProperties
  <2>3. f \in Seq(Mark)
    BY <1>1, <2>2, AppendProperties
  <2>4. seen \in SeenState /\ ReadAll(e.out) \in Seq(Mark)
    BY <2>1, SeenLoop, ReadLoops
  <2> QED BY <2>1, <2>2, <2>3, <2>4 DEF SeenState
<1>3. Split(Split(e, "&"), b) = [cur |-> f, out |-> e.out]
  BY <1>1 DEF Split
<1>4. Seen(d) = [text |-> seen.text, amp |-> TRUE]
  <2>1. Seen(d) = See(seen, "&")
    BY <1>1, <1>2, SeenLoop
  <2> HIDE DEF d, seen
  <2> QED BY <1>1, <1>2, <2>1 DEF See, Said
<1>5. Seen(f) = [text |-> Append(seen.text, c), amp |-> FALSE]
  <2>1. Seen(f) = See(Seen(d), b)
    BY <1>1, <1>2, SeenLoop
  <2>2. Meaning(b) = c
    BY <1>1 DEF Meaning
  <2> HIDE DEF d, f, seen, b
  <2>3. \E x \in Special : Entity[x] = b
    BY DEF b
  <2> QED BY <1>4, <2>1, <2>2, <2>3 DEF See
<1>6. ReadAll(e.out) \o Append(seen.text, c) = Solidly(w, c)
  <2>1. w = ReadAll(e.out) \o seen.text
    BY DEF Says, Held
  <2> HIDE DEF seen
  <2>2. ReadAll(e.out) \o Append(seen.text, c) = Append(ReadAll(e.out) \o seen.text, c)
    BY <1>1, <1>2, ConcatAppend
  <2> QED BY <1>1, <2>1, <2>2 DEF Solidly
<1>7. Last(f) = b
  BY <1>1, <1>2, LastOfAppend
<1>8. NoBlankLine(f)
  <2>1. NoBlankLine(d)
    BY <1>1, <1>2, NoBlankLineAppend DEF Says, Held
  <2> HIDE DEF d, b
  <2> QED BY <1>1, <1>2, <2>1, NoBlankLineAppend
<1> HIDE DEF d, f, b
<1>9. \A k \in DOMAIN e.out : NoBlankLine(e.out[k])
  BY DEF Says, Held
<1>10. Held(f, e.out, Solidly(w, c))
  <2>1. Seen(f).text = Append(seen.text, c) /\ ~Seen(f).amp
    BY <1>5
  <2>2. Last(f) # Newline
    BY <1>1, <1>7
  <2> HIDE DEF seen
  <2> QED BY <1>6, <1>8, <1>9, <2>1, <2>2 DEF Held
<1>11. Says([cur |-> f, out |-> e.out], Solidly(w, c))
  BY <1>2, <1>10, SaysIs, Zenon
<1> QED BY <1>3, <1>11 DEF b

(* A second new line ends a paragraph; nothing that is seen is lost. *)
LEMMA BreakSays ==
  ASSUME NEW e, NEW w, Says(e, w), e.cur # << >>, Last(e.cur) = Newline
  PROVE  Says(Split(e, Newline), w)
<1> DEFINE p == Front(e.cur)
           o == Append(e.out, p)
<1>1. /\ e.cur \in Seq(Mark) /\ e.out \in Seq(Seq(Mark)) /\ NoBlankLine(e.cur)
      /\ \A k \in DOMAIN e.out : NoBlankLine(e.out[k])
  BY DEF Says, Held, SplitState
<1>2. p \in Seq(Mark) /\ NoBlankLine(p)
  BY <1>1, NoBlankLineFront
<1> HIDE DEF p
<1>3. Split(e, Newline) = [cur |-> << >>, out |-> o]
  BY DEF Split, p
<1>4. /\ o \in Seq(Seq(Mark)) /\ Len(o) = Len(e.out) + 1 /\ o[Len(e.out) + 1] = p
      /\ \A k \in 1 .. Len(e.out) : o[k] = e.out[k]
  BY <1>1, <1>2, AppendProperties
<1>5. ReadAll(o) \in Seq(Mark) /\ ReadAll(o) = w
  <2>1. ReadAll(o) = ReadAll(e.out) \o Shown(p)
    BY <1>1, <1>2, ReadLoops
  <2>2. Shown(p) = Seen(e.cur).text
    BY DEF Says, Held, Shown, Said, p
  <2>3. ReadAll(o) \in Seq(Mark)
    BY <1>4, ReadLoops
  <2> QED BY <2>1, <2>2, <2>3 DEF Says, Held
<1>6. Seen(<< >>) = [text |-> << >>, amp |-> FALSE]
  BY SeenLoop
<1>7. NoBlankLine(<< >>)
  BY DEF NoBlankLine
<1>8. \A k \in DOMAIN o : NoBlankLine(o[k])
  <2> TAKE k \in DOMAIN o
  <2>1. k \in 1 .. Len(o) /\ DOMAIN e.out = 1 .. Len(e.out) /\ Len(e.out) \in Nat
    BY <1>1, <1>4
  <2>2. k \in 1 .. Len(e.out) \/ k = Len(e.out) + 1
    BY <1>4, <2>1
  <2> QED BY <1>1, <1>2, <1>4, <2>1, <2>2
<1> HIDE DEF o
<1>9. ReadAll(o) \o << >> = w /\ << >> \in Seq(Mark)
  BY <1>5
<1>10. Held(<< >>, o, w)
  <2>1. Seen(<< >>).text = << >> /\ ~Seen(<< >>).amp
    BY <1>6
  <2> QED BY <1>5, <1>7, <1>8, <1>9, <2>1 DEF Held
<1>11. Says([cur |-> << >>, out |-> o], w)
  BY <1>4, <1>9, <1>10, SaysIs, Zenon
<1> QED BY <1>3, <1>11

(* Escaping first and splitting then, one character of the mail at a time. *)
LEMMA SplitOfEscape ==
  ASSUME NEW s \in Seq(Mark), NEW c \in Mark
  PROVE  Splits(Escape(Append(s, c)))
           = IF c \in Special THEN Split(Split(Splits(Escape(s)), "&"), Entity[c])
             ELSE Split(Splits(Escape(s)), c)
<1> DEFINE t == Escape(s)
<1>1. t \in Seq(Mark) /\ Escape(Append(s, c)) = Escaped(t, c)
  BY EscapeLoop
<1> HIDE DEF t
<1>2. CASE c \in Special
  <2>1. "&" \in Mark /\ Entity[c] \in Mark
    BY <1>2, MarkFacts
  <2>2. t \o <<"&", Entity[c]>> = Append(Append(t, "&"), Entity[c])
    BY <1>1, <2>1
  <2>3. Append(t, "&") \in Seq(Mark)
    BY <1>1, <2>1, AppendProperties
  <2>4. Splits(Append(Append(t, "&"), Entity[c])) = Split(Split(Splits(t), "&"), Entity[c])
    BY <1>1, <2>1, <2>3, SplitsLoop
  <2> QED BY <1>1, <1>2, <2>2, <2>4 DEF Escaped, t
<1>3. CASE c \notin Special
  BY <1>1, <1>3, SplitsLoop DEF Escaped, t
<1> QED BY <1>2, <1>3

LEMMA EveryMailSays ==
  ASSUME NEW s \in Seq(Mark)
  PROVE  Says(Splits(Escape(s)), Words(s))
<1> DEFINE G == {t \in Seq(Mark) : Says(Splits(Escape(t)), Words(t))}
<1>1. << >> \in G
  <2>1. /\ Splits(Escape(<< >>)) = [cur |-> << >>, out |-> << >>] /\ Words(<< >>) = << >>
        /\ ReadAll(<< >>) = << >> /\ Seen(<< >>) = [text |-> << >>, amp |-> FALSE]
    BY EscapeLoop, SplitsLoop, ReadLoops, SeenLoop
  <2>2. NoBlankLine(<< >>) /\ [cur |-> << >>, out |-> << >>] \in SplitState
    BY EmptySeq DEF NoBlankLine, SplitState
  <2>3. Says([cur |-> << >>, out |-> << >>], << >>)
    BY <2>1, <2>2 DEF Says, Held
  <2> QED BY <2>1, <2>3, EmptySeq
<1>2. ASSUME NEW t \in G, NEW c \in Mark PROVE Append(t, c) \in G
  <2> DEFINE e == Splits(Escape(t))
             w == Words(t)
  <2>1. t \in Seq(Mark) /\ Append(t, c) \in Seq(Mark) /\ Says(e, w)
    BY AppendProperties
  <2>2. Words(Append(t, c)) = Solidly(w, c)
    BY <2>1, ReadLoops
  <2>3. Splits(Escape(Append(t, c)))
          = IF c \in Special THEN Split(Split(e, "&"), Entity[c]) ELSE Split(e, c)
    BY <2>1, SplitOfEscape
  <2> HIDE DEF e, w
  <2>4. CASE c \in Special
    BY <2>1, <2>2, <2>3, <2>4, SpecialSays
  <2>5. CASE c = Newline /\ e.cur # << >> /\ Last(e.cur) = Newline
    <3>1. c \notin Special /\ Solidly(w, c) = w
      BY <2>5, MarkFacts DEF Solidly
    <3>2. Says(Split(e, c), w)
      BY <2>1, <2>5, BreakSays
    <3> QED BY <2>1, <2>2, <2>3, <3>1, <3>2
  <2>6. CASE c \notin Special /\ ~(c = Newline /\ e.cur # << >> /\ Last(e.cur) = Newline)
    BY <2>1, <2>2, <2>3, <2>6, PlainSays
  <2> QED BY <2>4, <2>5, <2>6
<1>3. G = Seq(Mark)
  <2> HIDE DEF G
  <2>1. G \in SUBSET Seq(Mark)
    BY DEF G
  <2> QED BY <1>1, <1>2, <2>1, SeqInduction
<1> QED BY <1>3

(* The HTML of a mail says what its text says, for mails of every length    *)
(* (renderHTML and splitParagraphs, sender.go). *)
THEOREM HtmlIsFaithful == Spec => []HtmlSaysTheText
<1>1. ASSUME IInv PROVE HtmlSaysTheText
  <2> DEFINE e == Splits(Escape(mail))
  <2>1. Says(e, Words(mail))
    BY <1>1, EveryMailSays DEF IInv
  <2> HIDE DEF e
  <2>2. /\ e.cur \in Seq(Mark) /\ e.out \in Seq(Seq(Mark))
        /\ ReadAll(e.out) \in Seq(Mark)
    BY <2>1, ReadLoops DEF Says, Held, SplitState
  <2>3. Paragraphs(mail) = IF e.cur = << >> THEN e.out ELSE Append(e.out, e.cur)
    BY DEF Paragraphs, SplitParagraphs, e
  <2>4. CASE e.cur = << >>
    <3>1. Seen(e.cur).text = << >>
      BY <2>4, SeenLoop
    <3>2. ReadAll(e.out) \o << >> = ReadAll(e.out)
      BY <2>2
    <3>3. ReadAll(Paragraphs(mail)) = Words(mail)
      BY <2>1, <2>3, <2>4, <3>1, <3>2 DEF Says, Held
    <3> QED BY <2>1, <2>3, <2>4, <3>3 DEF HtmlSaysTheText, Says, Held
  <2>5. CASE e.cur # << >>
    <3> DEFINE o == Append(e.out, e.cur)
    <3>1. /\ Len(o) = Len(e.out) + 1 /\ o[Len(e.out) + 1] = e.cur
          /\ \A k \in 1 .. Len(e.out) : o[k] = e.out[k]
          /\ o \in Seq(Seq(Mark)) /\ ReadAll(o) = ReadAll(e.out) \o Shown(e.cur)
      <4>1. ReadAll(o) = ReadAll(e.out) \o Shown(e.cur)
        BY <2>2, ReadLoops
      <4> QED BY <2>2, <4>1, AppendProperties
    <3>2. Shown(e.cur) = Seen(e.cur).text
      BY <2>1 DEF Says, Held, Shown, Said
    <3> HIDE DEF o
    <3>3. \A k \in DOMAIN o : NoBlankLine(o[k])
      <4> TAKE k \in DOMAIN o
      <4>1. k \in 1 .. Len(o) /\ DOMAIN e.out = 1 .. Len(e.out) /\ Len(e.out) \in Nat
        BY <2>2, <3>1
      <4>2. k \in 1 .. Len(e.out) \/ k = Len(e.out) + 1
        BY <3>1, <4>1
      <4> QED BY <2>1, <3>1, <4>1, <4>2 DEF Says, Held
    <3> QED BY <2>1, <2>3, <2>5, <3>1, <3>2, <3>3 DEF HtmlSaysTheText, Says, Held, o
  <2> QED BY <2>4, <2>5
<1> QED BY <1>1, TextsInductive, PTL
=============================================================================
