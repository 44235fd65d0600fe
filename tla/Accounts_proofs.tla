--------------------------- MODULE Accounts_proofs ---------------------------
(***************************************************************************)
(* Proofs about Accounts, for every set of addresses, passwords and        *)
(* requests and every bound.  The inductive invariant IInv is established  *)
(* in three layers: the types and what a slot holds (TypeInv), the         *)
(* identity of ids (IdInv) and addresses (EmailUnique), and the tokens     *)
(* (TokenInv), each layer using the ones below it.                         *)
(* The last section shows that Accounts implements Memberships, with IInv  *)
(* to say what a stale lookup can still be worth.                          *)
(***************************************************************************)
EXTENDS Accounts, TLAPS

-----------------------------------------------------------------------------
(***************************************************************************)
(* First layer: types.                                                     *)
(***************************************************************************)

LEMMA TypeInit == Init => TypeInv
  BY AbsentValues, Bounds
     DEF Init, TypeInv, TypeOK, SlotOK, Row, NoRow, Request, Idle, Pc, Live,
         ClientId, Token, NoId, NoToken, Mail, Session

(* An arrival fills an idle slot with a well-formed request. *)
LEMMA BeginOK ==
  ASSUME TypeInv, NEW r \in Requests, NEW pc \in Pc \ {"idle"},
         NEW id \in ClientId \cup {NoId}, NEW token \in Token \cup {NoToken},
         NEW email \in Emails \cup {NoEmail},
         NEW password \in Passwords \cup {NoPassword},
         Begin(r, pc, id, token, email, password)
  PROVE  req' \in [Requests -> Request]
  <1>1. (IF id = NoId THEN NoId ELSE clients[id].born) \in ClientId \cup {NoId}
    BY DEF TypeInv, TypeOK, Row
  <1>. QED
    BY <1>1 DEF TypeInv, TypeOK, Begin, Request

(* An arrival that fills the slot as SlotOK asks keeps the layer. *)
LEMMA ArrivalTypes ==
  ASSUME TypeInv, NEW r \in Requests, NEW pc \in Pc \ {"idle"},
         NEW id \in ClientId \cup {NoId}, NEW token \in Token \cup {NoToken},
         NEW email \in Emails \cup {NoEmail},
         NEW password \in Passwords \cup {NoPassword},
         Begin(r, pc, id, token, email, password),
         lastToken' \in 0 .. MaxTokens,
         UNCHANGED <<clients, lastId, births, mail, sessions, storedAt, spent>>,
         SlotOK([pc |-> pc, id |-> id,
                 born |-> IF id = NoId THEN NoId ELSE clients[id].born,
                 token |-> token, email |-> email, password |-> password])
  PROVE  TypeInv'
  <1>1. req' \in [Requests -> Request]
    BY BeginOK
  <1>2. \A q \in Requests : SlotOK(req'[q])
    BY DEF TypeInv, TypeOK, Begin
  <1>. QED
    BY <1>1, <1>2 DEF TypeInv, TypeOK, Live, SlotOK

(* A handler that moves on or finishes, the tables being well typed. *)
LEMMA ProgressTypes ==
  ASSUME TypeInv, NEW r \in Requests,
         \/ Finish(r)
         \/ /\ req[r].pc = "signup.insert"
            /\ Continue(r, "signup.mail")
         \/ /\ req[r].pc = "forgot.store"
            /\ Continue(r, "forgot.mail"),
         clients' \in [ClientId -> Row],
         \A i \in Live' : Complete(clients'[i]),
         lastId' \in 0 .. MaxClients,
         births' = lastId',
         lastToken' = lastToken,
         mail' \subseteq Mail,
         sessions' = sessions,
         storedAt' \in [Token -> Emails \cup {NoEmail}],
         spent' \subseteq Token
  PROVE  TypeInv'
  <1>1. req' \in [Requests -> Request]
    BY DEF TypeInv, TypeOK, Finish, Continue, Request, Idle, Pc, NoId, NoToken
  <1>2. \A q \in Requests : SlotOK(req'[q])
    BY DEF TypeInv, TypeOK, Finish, Continue, SlotOK, Idle, Request
  <1>. QED
    BY <1>1, <1>2 DEF TypeInv, TypeOK, SlotOK

(* A statement outside a slot that leaves every row well typed. *)
LEMMA RowTypes ==
  ASSUME TypeInv,
         clients' \in [ClientId -> Row],
         \A i \in Live' : Complete(clients'[i]),
         UNCHANGED <<lastId, births, lastToken, mail, sessions, req, storedAt,
                     spent>>
  PROVE  TypeInv'
  BY DEF TypeInv, TypeOK, SlotOK

(* What each UPDATE leaves alone: the row's identity, a row that is not     *)
(* there, and every column it does not name.                               *)
LEMMA SetVerifiedKeeps ==
  ASSUME clients \in [ClientId -> Row], NEW q, NEW i \in ClientId
  PROVE  /\ SetVerified(q)[i].email = clients[i].email
         /\ SetVerified(q)[i].password = clients[i].password
         /\ SetVerified(q)[i].born = clients[i].born
         /\ i \notin Live => SetVerified(q)[i] = clients[i]
  <1>1. clients[i] \in Row
    OBVIOUS
  <1>. QED
    BY <1>1 DEF SetVerified, Row

LEMMA SetResetTokenKeeps ==
  ASSUME clients \in [ClientId -> Row], NEW q, NEW i \in ClientId
  PROVE  /\ SetResetToken(q)[i].email = clients[i].email
         /\ SetResetToken(q)[i].password = clients[i].password
         /\ SetResetToken(q)[i].born = clients[i].born
         /\ q.email # NoEmail /\ i \notin Live =>
              SetResetToken(q)[i] = clients[i]
  <1>1. clients[i] \in Row
    OBVIOUS
  <1>. QED
    BY <1>1 DEF SetResetToken, Row, Live

LEMMA UpdatePasswordKeeps ==
  ASSUME clients \in [ClientId -> Row], NEW q, NEW i \in ClientId
  PROVE  /\ UpdatePassword(q)[i].email = clients[i].email
         /\ UpdatePassword(q)[i].password \in {clients[i].password, q.password}
         /\ UpdatePassword(q)[i].born = clients[i].born
         /\ i \notin Live => UpdatePassword(q)[i] = clients[i]
  <1>1. clients[i] \in Row
    OBVIOUS
  <1>. QED
    BY <1>1 DEF UpdatePassword, Row

LEMMA UpdateKeeps ==
  ASSUME clients \in [ClientId -> Row], NEW q, NEW i \in ClientId
  PROVE  /\ Update(q)[i].email = NoEmail <=> i \notin Live
         /\ clients[i].password # NoPassword =>
              Update(q)[i].password # NoPassword
         /\ Update(q)[i].born = clients[i].born
         /\ Update(q)[i].vtoken = clients[i].vtoken
         /\ Update(q)[i].rtoken = clients[i].rtoken
         /\ i \notin Live => Update(q)[i] = clients[i]
  <1>1. clients[i] \in Row
    OBVIOUS
  <1>. QED
    BY <1>1 DEF Update, Row, Live

(* The rows that exist are complete after one of them.                     *)
LEMMA StillComplete ==
  ASSUME clients \in [ClientId -> Row],
         \A i \in Live : Complete(clients[i]),
         \A i \in ClientId :
           /\ clients'[i].email # NoEmail => i \in Live
           /\ clients[i].password # NoPassword =>
                clients'[i].password # NoPassword
           /\ clients'[i].born = clients[i].born
  PROVE  \A i \in Live' : Complete(clients'[i])
  BY DEF Live, Complete

LEMMA TypeStep == TypeInv /\ [Next]_vars => TypeInv'
  <1>. SUFFICES ASSUME TypeInv, [Next]_vars PROVE TypeInv'
    OBVIOUS
  <1>. USE AbsentValues, Bounds DEF ClientId, Token, NoId, NoToken
  <1>1. ASSUME NEW r \in Requests, Arrives(r) PROVE TypeInv'
    <2>. USE DEF Pc, SlotOK
    <2>1. ASSUME NEW e \in Emails, NEW p \in Passwords, SignupLookup(r, e, p)
          PROVE  TypeInv'
      <3>1. lastToken' \in 0 .. MaxTokens /\ FreshToken \in Token
        BY <2>1 DEF SignupLookup, DrawToken, FreshToken, TypeInv, TypeOK
      <3>. QED
        BY <2>1, <3>1, ArrivalTypes DEF SignupLookup
    <2>2. ASSUME NEW e \in Emails, NEW p \in Passwords, CreateLookup(r, e, p)
          PROVE  TypeInv'
      BY <2>2, ArrivalTypes DEF CreateLookup, TypeInv, TypeOK
    <2>3. ASSUME NEW e \in Emails, ForgotLookup(r, e) PROVE TypeInv'
      <3>1. lastToken' \in 0 .. MaxTokens /\ FreshToken \in Token
        BY <2>3 DEF ForgotLookup, DrawToken, FreshToken, TypeInv, TypeOK
      <3>. QED
        BY <2>3, <3>1, ArrivalTypes DEF ForgotLookup
    <2>4. ASSUME NEW t \in Token, NEW i \in ClientId, VerifyLookup(r, t, i)
          PROVE  TypeInv'
      BY <2>4, ArrivalTypes DEF VerifyLookup, TypeInv, TypeOK
    <2>5. ASSUME NEW t \in Token, NEW i \in ClientId, NEW p \in Passwords,
                 ResetLookup(r, t, i, p)
          PROVE  TypeInv'
      BY <2>5, ArrivalTypes DEF ResetLookup, TypeInv, TypeOK
    <2>6. ASSUME NEW i \in ClientId, NEW e \in Emails \cup {NoEmail},
                 NEW p \in Passwords \cup {NoPassword},
                 UpdateLookup(r, i, e, p)
          PROVE  TypeInv'
      BY <2>6, ArrivalTypes DEF UpdateLookup, TypeInv, TypeOK
    <2>. QED
      BY <1>1, <2>1, <2>2, <2>3, <2>4, <2>5, <2>6 DEF Arrives
  <1>2. ASSUME NEW r \in Requests, Proceeds(r) PROVE TypeInv'
    <2>0. /\ req[r] \in Request
          /\ SlotOK(req[r])
          /\ clients \in [ClientId -> Row]
          /\ \A i \in Live : Complete(clients[i])
      BY DEF TypeInv, TypeOK
    <2>1. CASE SignupInsert(r)
      <3>1. NewRow(req[r], FALSE) \in Row
        BY <2>0, <2>1 DEF SignupInsert, Insert, NewRow, Row, Request, TypeInv,
                          TypeOK
      <3>2. NextId \in ClientId
        BY <2>1 DEF SignupInsert, Insert, NextId, TypeInv, TypeOK
      <3>3. clients' \in [ClientId -> Row]
        BY <2>0, <2>1, <3>1, <3>2 DEF SignupInsert, Insert
      <3>4. \A i \in Live' : Complete(clients'[i])
        BY <2>0, <2>1, <3>2 DEF SignupInsert, Insert, NewRow, Live,
                               SlotOK, Complete, TypeInv, TypeOK
      <3>5. storedAt' \in [Token -> Emails \cup {NoEmail}]
        BY <2>0, <2>1 DEF SignupInsert, Request, TypeInv, TypeOK
      <3>6. lastId' \in 0 .. MaxClients /\ births' = lastId'
        BY <2>1, <3>2 DEF SignupInsert, Insert, NextId, TypeInv, TypeOK
      <3>. QED
        BY <2>1, <3>3, <3>4, <3>5, <3>6, ProgressTypes
           DEF SignupInsert, TypeInv, TypeOK
    <2>2. CASE SignupMail(r)
      <3>1. mail' \subseteq Mail
        BY <2>0, <2>2 DEF SignupMail, SendMail, Mail, Request, SlotOK, TypeInv,
                          TypeOK
      <3>. QED
        BY <2>2, <3>1, ProgressTypes DEF SignupMail, TypeInv, TypeOK, Live
    <2>3. CASE CreateInsert(r)
      <3>1. NewRow(req[r], TRUE) \in Row
        BY <2>0, <2>3 DEF CreateInsert, Insert, NewRow, Row, Request, TypeInv,
                          TypeOK
      <3>2. NextId \in ClientId
        BY <2>3 DEF CreateInsert, Insert, NextId, TypeInv, TypeOK
      <3>3. clients' \in [ClientId -> Row]
        BY <2>0, <2>3, <3>1, <3>2 DEF CreateInsert, Insert
      <3>4. \A i \in Live' : Complete(clients'[i])
        BY <2>0, <2>3, <3>2 DEF CreateInsert, Insert, NewRow, Live,
                               SlotOK, Complete, TypeInv, TypeOK
      <3>6. lastId' \in 0 .. MaxClients /\ births' = lastId'
        BY <2>3, <3>2 DEF CreateInsert, Insert, NextId, TypeInv, TypeOK
      <3>. QED
        BY <2>3, <3>3, <3>4, <3>6, ProgressTypes
           DEF CreateInsert, TypeInv, TypeOK
    <2>4. CASE VerifySet(r)
      <3>1. clients' \in [ClientId -> Row]
        <4>. SUFFICES ASSUME NEW i \in ClientId PROVE clients'[i] \in Row
          BY <2>4 DEF VerifySet, SetVerified
        <4>1. clients[i] \in Row
          BY <2>0
        <4>. QED
          BY <2>4, <4>1 DEF VerifySet, SetVerified, Row
      <3>2. \A i \in Live' : Complete(clients'[i])
        <4>1. clients' = SetVerified(req[r])
          BY <2>4 DEF VerifySet
        <4>. QED
          BY <2>0, <2>4, <4>1, SetVerifiedKeeps, StillComplete DEF Live
      <3>3. spent' \subseteq Token
        BY <2>0, <2>4 DEF VerifySet, SlotOK, Request, TypeInv, TypeOK
      <3>. QED
        BY <2>4, <3>1, <3>2, <3>3, ProgressTypes DEF VerifySet, TypeInv, TypeOK
    <2>5. CASE ForgotStore(r)
      <3>1. clients' \in [ClientId -> Row]
        <4>. SUFFICES ASSUME NEW i \in ClientId PROVE clients'[i] \in Row
          BY <2>5 DEF ForgotStore, SetResetToken
        <4>1. clients[i] \in Row
          BY <2>0
        <4>. QED
          BY <2>0, <2>5, <4>1 DEF ForgotStore, SetResetToken, Row, Request
      <3>2. \A i \in Live' : Complete(clients'[i])
        <4>1. clients' = SetResetToken(req[r])
          BY <2>5 DEF ForgotStore
        <4>. QED
          BY <2>0, <2>5, <4>1, SetResetTokenKeeps, StillComplete DEF Live
      <3>3. storedAt' \in [Token -> Emails \cup {NoEmail}]
        <4>. DEFINE stored == {i \in Live : clients'[i].rtoken = req[r].token}
        <4>1. stored # {} =>
                clients'[CHOOSE i \in stored : TRUE].email
                  \in Emails \cup {NoEmail}
          BY <3>1 DEF Live, Row
        <4>. QED
          BY <4>1, <2>5 DEF ForgotStore, TypeInv, TypeOK
      <3>. QED
        BY <2>5, <3>1, <3>2, <3>3, ProgressTypes
           DEF ForgotStore, TypeInv, TypeOK
    <2>6. CASE ForgotMail(r)
      <3>1. mail' \subseteq Mail
        BY <2>0, <2>6 DEF ForgotMail, SendMail, Mail, Request, SlotOK, TypeInv,
                          TypeOK
      <3>. QED
        BY <2>6, <3>1, ProgressTypes DEF ForgotMail, TypeInv, TypeOK, Live
    <2>7. CASE ResetWrite(r)
      <3>0. req[r].password # NoPassword
        BY <2>0, <2>7 DEF ResetWrite, SlotOK
      <3>1. clients' \in [ClientId -> Row]
        <4>. SUFFICES ASSUME NEW i \in ClientId PROVE clients'[i] \in Row
          BY <2>7 DEF ResetWrite, UpdatePassword
        <4>1. clients[i] \in Row
          BY <2>0
        <4>2. [clients[i] EXCEPT !.password = req[r].password,
                 !.rtoken = NoToken, !.rexpired = FALSE] \in Row
          BY <2>0, <4>1 DEF Row, Request
        <4>. QED
          BY <2>7, <4>1, <4>2 DEF ResetWrite, UpdatePassword
      <3>2. \A i \in Live' : Complete(clients'[i])
        <4>1. clients' = UpdatePassword(req[r])
          BY <2>7 DEF ResetWrite
        <4>. QED
          BY <2>0, <2>7, <3>0, <4>1, UpdatePasswordKeeps, StillComplete DEF Live
      <3>3. spent' \subseteq Token
        BY <2>0, <2>7 DEF ResetWrite, SlotOK, Request, TypeInv, TypeOK
      <3>. QED
        BY <2>7, <3>1, <3>2, <3>3, ProgressTypes DEF ResetWrite, TypeInv, TypeOK
    <2>8. CASE UpdateWrite(r)
      <3>1. clients' \in [ClientId -> Row]
        <4>. SUFFICES ASSUME NEW i \in ClientId PROVE clients'[i] \in Row
          BY <2>8 DEF UpdateWrite, Update
        <4>1. clients[i] \in Row
          BY <2>0
        <4>2. \A e \in Emails \cup {NoEmail}, p \in Passwords \cup {NoPassword} :
                [clients[i] EXCEPT !.email = e, !.password = p] \in Row
          BY <4>1 DEF Row
        <4>3. /\ (IF req[r].email = NoEmail THEN clients[i].email
                  ELSE req[r].email) \in Emails \cup {NoEmail}
              /\ (IF req[r].password = NoPassword THEN clients[i].password
                  ELSE req[r].password) \in Passwords \cup {NoPassword}
          BY <2>0, <4>1 DEF Row, Request
        <4>. QED
          BY <2>8, <4>1, <4>2, <4>3 DEF UpdateWrite, Update
      <3>2. \A i \in Live' : Complete(clients'[i])
        <4>1. clients' = Update(req[r])
          BY <2>8 DEF UpdateWrite
        <4>. QED
          BY <2>0, <2>8, <4>1, UpdateKeeps, StillComplete DEF Live
      <3>. QED
        BY <2>8, <3>1, <3>2, ProgressTypes DEF UpdateWrite, TypeInv, TypeOK
    <2>9. CASE Fails(r)
      BY <2>9, ProgressTypes DEF Fails, TypeInv, TypeOK, Live
    <2>. QED
      BY <1>2, <2>1, <2>2, <2>3, <2>4, <2>5, <2>6, <2>7, <2>8, <2>9
         DEF Proceeds
  <1>3. ASSUME NEW i \in ClientId, AtOnce(i) \/ TokenExpires(i) PROVE TypeInv'
    <2>1. ASSUME NEW p \in Passwords, Login(i, p) PROVE TypeInv'
      <3>1. clients[i].born \in ClientId
        BY <2>1 DEF Login, Live, Complete, TypeInv, TypeOK, Row
      <3>. QED
        BY <2>1, <3>1 DEF Login, TypeInv, TypeOK, Live, Session, SlotOK
    <2>2. CASE DeleteEmployer(i)
      <3>1. NoRow \in Row
        BY DEF NoRow, Row
      <3>2. clients' \in [ClientId -> Row]
        BY <2>2, <3>1 DEF DeleteEmployer, TypeInv, TypeOK
      <3>3. \A j \in Live' : Complete(clients'[j])
        BY <2>2 DEF DeleteEmployer, TypeInv, TypeOK, Live, NoRow
      <3>. QED
        BY <2>2, <3>2, <3>3, RowTypes DEF DeleteEmployer
    <2>3. ASSUME NEW b \in BOOLEAN, VerifyEmployer(i, b) PROVE TypeInv'
      <3>. DEFINE kept == [clients[i] EXCEPT !.verified = b]
                  cleared == [clients[i] EXCEPT !.verified = b,
                                !.vtoken = NoToken, !.vexpired = FALSE]
      <3>0. clients[i] \in Row
        BY DEF TypeInv, TypeOK
      <3>1. kept \in Row /\ cleared \in Row
        BY <3>0 DEF Row
      <3>2. clients' = [clients EXCEPT ![i] = kept]
              \/ clients' = [clients EXCEPT ![i] = cleared]
        BY <2>3 DEF VerifyEmployer, TypeInv, TypeOK
      <3>3. clients' \in [ClientId -> Row]
        BY <3>1, <3>2 DEF TypeInv, TypeOK
      <3>4. /\ kept.email = clients[i].email /\ cleared.email = clients[i].email
            /\ Complete(clients[i]) => Complete(kept) /\ Complete(cleared)
        BY DEF TypeInv, TypeOK, Row, Complete
      <3>5. \A j \in Live' : Complete(clients'[j])
        BY <3>2, <3>4 DEF TypeInv, TypeOK, Live
      <3>. QED
        BY <2>3, <3>3, <3>5, RowTypes DEF VerifyEmployer
    <2>4. CASE TokenExpires(i)
      <3>. DEFINE old == [clients[i] EXCEPT !.vexpired = TRUE]
                  older == [clients[i] EXCEPT !.rexpired = TRUE]
      <3>1. old \in Row /\ older \in Row
        BY DEF TypeInv, TypeOK, Row
      <3>2. clients' = [clients EXCEPT ![i] = old]
              \/ clients' = [clients EXCEPT ![i] = older]
        BY <2>4 DEF TokenExpires, TypeInv, TypeOK
      <3>3. clients' \in [ClientId -> Row]
        BY <3>1, <3>2 DEF TypeInv, TypeOK
      <3>4. \A j \in Live' : Complete(clients'[j])
        <4>1. /\ old.email = clients[i].email /\ older.email = clients[i].email
              /\ Complete(clients[i]) => Complete(old) /\ Complete(older)
          BY DEF TypeInv, TypeOK, Row, Complete
        <4>. QED
          BY <3>2, <4>1 DEF TypeInv, TypeOK, Live
      <3>. QED
        BY <2>4, <3>3, <3>4, RowTypes DEF TokenExpires
    <2>. QED
      BY <1>3, <2>1, <2>2, <2>3, <2>4 DEF AtOnce
  <1>4. CASE Crash
    BY <1>4 DEF Crash, TypeInv, TypeOK, Live, SlotOK, Idle, Request, Pc
  <1>5. CASE UNCHANGED vars
    BY <1>5 DEF vars, TypeInv, TypeOK, Live
  <1>. QED
    BY <1>1, <1>2, <1>3, <1>4, <1>5 DEF Next

(* Every reachable state is well typed, and every account in it has a      *)
(* password: no interleaving of the handlers' statements leaves a row half *)
(* written.                                                                *)
THEOREM TypeCorrect == Spec => []TypeOK
  <1>1. TypeInv => TypeOK
    BY DEF TypeInv
  <1>. QED
    BY <1>1, TypeInit, TypeStep, PTL DEF Spec

-----------------------------------------------------------------------------
(***************************************************************************)
(* Second layer: ids and addresses.                                        *)
(***************************************************************************)

(* Only the two INSERTs make an account; every other step keeps or drops   *)
(* the accounts there are.                                                 *)
LEMMA RowsStep ==
  ASSUME TypeInv, [Next]_vars
  PROVE  \/ \E r \in Requests : SignupInsert(r) \/ CreateInsert(r)
         \/ /\ lastId' = lastId
            /\ \A i \in Live' : i \in Live /\ clients'[i].born = clients[i].born
  <1>. DEFINE Kept ==
         /\ lastId' = lastId
         /\ \A i \in Live' : i \in Live /\ clients'[i].born = clients[i].born
  <1>. SUFFICES ASSUME ~(\E r \in Requests : SignupInsert(r) \/ CreateInsert(r))
                PROVE  Kept
    OBVIOUS
  <1>0. /\ clients \in [ClientId -> Row]
        /\ \A r \in Requests : req[r] \in Request
    BY DEF TypeInv, TypeOK
  <1>1. ASSUME UNCHANGED <<clients, lastId>> PROVE Kept
    BY <1>1 DEF Live
  <1>2. ASSUME NEW r \in Requests, Arrives(r) PROVE Kept
    BY <1>1, <1>2
       DEF Arrives, SignupLookup, CreateLookup, ForgotLookup, VerifyLookup,
           ResetLookup, UpdateLookup
  <1>3. ASSUME NEW r \in Requests, Proceeds(r) PROVE Kept
    <2>1. CASE SignupMail(r) \/ ForgotMail(r) \/ Fails(r)
      BY <1>1, <2>1 DEF SignupMail, ForgotMail, Fails
    <2>2. CASE VerifySet(r)
      BY <1>0, <2>2 DEF VerifySet, SetVerified, Live, Row
    <2>3. CASE ForgotStore(r)
      BY <1>0, <2>3 DEF ForgotStore, SetResetToken, Live, Row
    <2>4. CASE ResetWrite(r)
      BY <1>0, <2>4 DEF ResetWrite, UpdatePassword, Live, Row
    <2>5. CASE UpdateWrite(r)
      BY <1>0, <2>5 DEF UpdateWrite, Update, Live, Row
    <2>. QED
      BY <1>3, <2>1, <2>2, <2>3, <2>4, <2>5 DEF Proceeds
  <1>4. ASSUME NEW i \in ClientId, AtOnce(i) \/ TokenExpires(i) PROVE Kept
    <2>1. ASSUME NEW p \in Passwords, Login(i, p) PROVE Kept
      BY <1>1, <2>1 DEF Login
    <2>2. CASE DeleteEmployer(i)
      BY <1>0, <2>2 DEF DeleteEmployer, Live, NoRow
    <2>3. ASSUME NEW b \in BOOLEAN, VerifyEmployer(i, b) PROVE Kept
      BY <1>0, <2>3 DEF VerifyEmployer, Live, Row
    <2>4. CASE TokenExpires(i)
      BY <1>0, <2>4 DEF TokenExpires, Live, Row
    <2>. QED
      BY <1>4, <2>1, <2>2, <2>3, <2>4 DEF AtOnce
  <1>5. CASE Crash \/ UNCHANGED vars
    BY <1>1, <1>5 DEF Crash, vars
  <1>. QED
    BY <1>2, <1>3, <1>4, <1>5 DEF Next

LEMMA EmptyInit == Init => EmptyInv
  BY DEF Init, EmptyInv

LEMMA EmptyStep == TypeInv /\ EmptyInv /\ [Next]_vars => EmptyInv'
  <1>. SUFFICES ASSUME TypeInv, EmptyInv, [Next]_vars PROVE EmptyInv'
    OBVIOUS
  <1>0. /\ clients \in [ClientId -> Row]
        /\ \A r \in Requests : req[r] \in Request
    BY DEF TypeInv, TypeOK
  <1>1. ASSUME UNCHANGED clients PROVE EmptyInv'
    BY <1>1 DEF EmptyInv, Live
  <1>2. ASSUME NEW r \in Requests, Arrives(r) PROVE EmptyInv'
    BY <1>1, <1>2
       DEF Arrives, SignupLookup, CreateLookup, ForgotLookup, VerifyLookup,
           ResetLookup, UpdateLookup
  <1>3. ASSUME NEW r \in Requests, Proceeds(r) PROVE EmptyInv'
    <2>1. CASE SignupInsert(r) \/ CreateInsert(r)
      <3>1. req[r].email # NoEmail
        BY <2>1 DEF SignupInsert, CreateInsert, TypeInv, SlotOK
      <3>. QED
        BY <1>0, <2>1, <3>1
           DEF SignupInsert, CreateInsert, Insert, NewRow, EmptyInv, Live
    <2>2. CASE SignupMail(r) \/ ForgotMail(r) \/ Fails(r)
      BY <1>1, <2>2 DEF SignupMail, ForgotMail, Fails
    <2>3. CASE VerifySet(r)
      <3>1. clients' = SetVerified(req[r])
        BY <2>3 DEF VerifySet
      <3>. QED
        BY <1>0, <3>1, SetVerifiedKeeps DEF EmptyInv, Live
    <2>4. CASE ForgotStore(r)
      <3>1. req[r].email # NoEmail
        BY <2>4 DEF ForgotStore, TypeInv, SlotOK
      <3>. QED
        <4>1. clients' = SetResetToken(req[r])
          BY <2>4 DEF ForgotStore
        <4>. QED
          BY <1>0, <3>1, <4>1, SetResetTokenKeeps DEF EmptyInv, Live
    <2>5. CASE ResetWrite(r)
      <3>1. clients' = UpdatePassword(req[r])
        BY <2>5 DEF ResetWrite
      <3>. QED
        BY <1>0, <3>1, UpdatePasswordKeeps DEF EmptyInv, Live
    <2>6. CASE UpdateWrite(r)
      <3>1. clients' = Update(req[r])
        BY <2>6 DEF UpdateWrite
      <3>. QED
        BY <1>0, <3>1, UpdateKeeps DEF EmptyInv, Live
    <2>. QED
      BY <1>3, <2>1, <2>2, <2>3, <2>4, <2>5, <2>6 DEF Proceeds
  <1>4. ASSUME NEW i \in ClientId, AtOnce(i) \/ TokenExpires(i) PROVE EmptyInv'
    <2>1. ASSUME NEW p \in Passwords, Login(i, p) PROVE EmptyInv'
      BY <1>1, <2>1 DEF Login
    <2>2. CASE DeleteEmployer(i)
      BY <1>0, <2>2 DEF DeleteEmployer, EmptyInv, Live
    <2>3. ASSUME NEW b \in BOOLEAN, VerifyEmployer(i, b) PROVE EmptyInv'
      BY <1>0, <2>3 DEF VerifyEmployer, EmptyInv, Live, Row
    <2>4. CASE TokenExpires(i)
      BY <1>0, <2>4 DEF TokenExpires, EmptyInv, Live, Row
    <2>. QED
      BY <1>4, <2>1, <2>2, <2>3, <2>4 DEF AtOnce
  <1>5. CASE Crash \/ UNCHANGED vars
    BY <1>1, <1>5 DEF Crash, vars
  <1>. QED
    BY <1>2, <1>3, <1>4, <1>5 DEF Next

LEMMA IdInit == Init => IdInv
  BY DEF Init, IdInv, Live, NoRow, Idle, NoId

LEMMA IdStep == TypeInv /\ IdInv /\ [Next]_vars => IdInv'
  <1>. SUFFICES ASSUME TypeInv, IdInv, [Next]_vars PROVE IdInv'
    OBVIOUS
  <1>. USE DEF NoId
  <1>0. /\ clients \in [ClientId -> Row]
        /\ req \in [Requests -> Request]
        /\ lastId \in Nat
        /\ births = lastId
    BY DEF TypeInv, TypeOK
  <1>1. \A i \in Live' : clients'[i].born = i /\ i <= lastId'
    <2>1. ASSUME NEW r \in Requests, SignupInsert(r) \/ CreateInsert(r)
          PROVE  \A i \in Live' : clients'[i].born = i /\ i <= lastId'
      <3>1. /\ \/ clients' = [clients EXCEPT ![NextId] = NewRow(req[r], FALSE)]
               \/ clients' = [clients EXCEPT ![NextId] = NewRow(req[r], TRUE)]
            /\ lastId' = NextId
        BY <2>1 DEF SignupInsert, CreateInsert, Insert
      <3>. SUFFICES ASSUME NEW i \in Live'
                    PROVE  clients'[i].born = i /\ i <= lastId'
        OBVIOUS
      <3>2. i \in ClientId /\ i \in Int
        BY DEF Live, ClientId
      <3>3. CASE i = NextId
        BY <1>0, <3>1, <3>2, <3>3 DEF NewRow, NextId
      <3>4. CASE i # NextId
        <4>1. clients'[i] = clients[i]
          BY <1>0, <3>1, <3>2, <3>4
        <4>2. i \in Live
          BY <3>2, <4>1 DEF Live
        <4>. QED
          BY <1>0, <3>1, <3>2, <4>1, <4>2 DEF IdInv, NextId
      <3>. QED
        BY <3>3, <3>4
    <2>2. ASSUME lastId' = lastId,
                 \A i \in Live' : i \in Live /\ clients'[i].born = clients[i].born
          PROVE  \A i \in Live' : clients'[i].born = i /\ i <= lastId'
      BY <2>2 DEF IdInv
    <2>. QED
      BY <2>1, <2>2, RowsStep
  <1>2. \A s \in sessions' : s.born = s.id
    <2>1. ASSUME NEW i \in ClientId, NEW p \in Passwords, Login(i, p)
          PROVE  \A s \in sessions' : s.born = s.id
      BY <2>1 DEF Login, IdInv
    <2>2. CASE UNCHANGED sessions
      BY <2>2 DEF IdInv
    <2>3. ASSUME NEW r \in Requests, Arrives(r) PROVE UNCHANGED sessions
      BY <2>3
         DEF Arrives, SignupLookup, CreateLookup, ForgotLookup, VerifyLookup,
             ResetLookup, UpdateLookup
    <2>4. ASSUME NEW r \in Requests, Proceeds(r) PROVE UNCHANGED sessions
      BY <2>4
         DEF Proceeds, SignupInsert, SignupMail, CreateInsert, VerifySet,
             ForgotStore, ForgotMail, ResetWrite, UpdateWrite, Fails
    <2>5. ASSUME NEW i \in ClientId, AtOnce(i) \/ TokenExpires(i)
          PROVE  \A s \in sessions' : s.born = s.id
      BY <2>1, <2>2, <2>5
         DEF AtOnce, DeleteEmployer, VerifyEmployer, TokenExpires
    <2>6. CASE Crash \/ UNCHANGED vars
      BY <2>2, <2>6 DEF Crash, vars
    <2>. QED
      BY <2>2, <2>3, <2>4, <2>5, <2>6 DEF Next
  <1>3. \A r \in Requests : req'[r].born = req'[r].id
    <2>1. ASSUME NEW r \in Requests, Finish(r)
          PROVE  \A q \in Requests : req'[q].born = req'[q].id
      BY <1>0, <2>1 DEF Finish, Idle, IdInv
    <2>2. ASSUME NEW r \in Requests, NEW pc, Continue(r, pc)
          PROVE  \A q \in Requests : req'[q].born = req'[q].id
      BY <1>0, <2>2 DEF Continue, IdInv, Request
    <2>3. ASSUME NEW r \in Requests, NEW pc, NEW id \in Live \cup {NoId},
                 NEW t, NEW e, NEW p, Begin(r, pc, id, t, e, p)
          PROVE  \A q \in Requests : req'[q].born = req'[q].id
      BY <1>0, <2>3 DEF Begin, IdInv
    <2>4. CASE UNCHANGED req
      BY <2>4 DEF IdInv
    <2>5. ASSUME NEW r \in Requests, Arrives(r)
          PROVE  \A q \in Requests : req'[q].born = req'[q].id
      BY <2>3, <2>5
         DEF Arrives, SignupLookup, CreateLookup, ForgotLookup, VerifyLookup,
             ResetLookup, UpdateLookup
    <2>6. ASSUME NEW r \in Requests, Proceeds(r)
          PROVE  \A q \in Requests : req'[q].born = req'[q].id
      BY <2>1, <2>2, <2>6
         DEF Proceeds, SignupInsert, SignupMail, CreateInsert, VerifySet,
             ForgotStore, ForgotMail, ResetWrite, UpdateWrite, Fails
    <2>7. ASSUME NEW i \in ClientId, AtOnce(i) \/ TokenExpires(i)
          PROVE  \A q \in Requests : req'[q].born = req'[q].id
      BY <2>4, <2>7
         DEF AtOnce, Login, DeleteEmployer, VerifyEmployer, TokenExpires
    <2>8. CASE Crash
      BY <2>8 DEF Crash, Idle
    <2>. QED
      BY <2>4, <2>5, <2>6, <2>7, <2>8 DEF Next, vars
  <1>. QED
    BY <1>1, <1>2, <1>3 DEF IdInv

LEMMA EmailInit == Init => EmailUnique
  BY DEF Init, EmailUnique, Live, NoRow

LEMMA EmailStep == TypeInv /\ EmailUnique /\ [Next]_vars => EmailUnique'
  <1>. SUFFICES ASSUME TypeInv, EmailUnique, [Next]_vars PROVE EmailUnique'
    OBVIOUS
  <1>0. /\ clients \in [ClientId -> Row]
        /\ req \in [Requests -> Request]
    BY DEF TypeInv, TypeOK
  <1>1. ASSUME \A i \in Live' : i \in Live /\ clients'[i].email = clients[i].email
        PROVE  EmailUnique'
    BY <1>1 DEF EmailUnique
  <1>2. ASSUME UNCHANGED clients PROVE EmailUnique'
    BY <1>1, <1>2 DEF Live
  <1>3. ASSUME NEW r \in Requests, Arrives(r) PROVE EmailUnique'
    BY <1>2, <1>3
       DEF Arrives, SignupLookup, CreateLookup, ForgotLookup, VerifyLookup,
           ResetLookup, UpdateLookup
  <1>4. ASSUME NEW r \in Requests, Proceeds(r) PROVE EmailUnique'
    <2>1. CASE SignupInsert(r) \/ CreateInsert(r)
      <3>. DEFINE e == req[r].email
      <3>1. /\ clients'[NextId].email = e \/ NextId \notin ClientId
            /\ \A i \in ClientId \ {NextId} : clients'[i] = clients[i]
        BY <1>0, <2>1 DEF SignupInsert, CreateInsert, Insert, NewRow
      <3>2. EmailFree(NextId, e)
        BY <2>1 DEF SignupInsert, CreateInsert, Insert
      <3>. QED
        BY <3>1, <3>2 DEF EmailUnique, EmailFree, Live
    <2>2. CASE SignupMail(r) \/ ForgotMail(r) \/ Fails(r)
      BY <1>2, <2>2 DEF SignupMail, ForgotMail, Fails
    <2>3. CASE VerifySet(r)
      BY <1>0, <1>1, <2>3 DEF VerifySet, SetVerified, Live, Row
    <2>4. CASE ForgotStore(r)
      BY <1>0, <1>1, <2>4 DEF ForgotStore, SetResetToken, Live, Row
    <2>5. CASE ResetWrite(r)
      BY <1>0, <1>1, <2>5 DEF ResetWrite, UpdatePassword, Live, Row
    <2>6. CASE UpdateWrite(r)
      <3>. DEFINE k == req[r].id
                  e == req[r].email
      <3>1. \A i \in ClientId :
              /\ i # k => clients'[i].email = clients[i].email
              /\ i = k => clients'[i].email \in {clients[i].email, e}
              /\ e = NoEmail => clients'[i].email = clients[i].email
              /\ clients'[i].email # NoEmail => clients[i].email # NoEmail
        BY <1>0, <2>6 DEF UpdateWrite, Update, Live, Row
      <3>2. k \in Live /\ e # NoEmail => EmailFree(k, e)
        BY <2>6 DEF UpdateWrite
      <3>. QED
        BY <3>1, <3>2 DEF EmailUnique, EmailFree, Live
    <2>. QED
      BY <1>4, <2>1, <2>2, <2>3, <2>4, <2>5, <2>6 DEF Proceeds
  <1>5. ASSUME NEW i \in ClientId, AtOnce(i) \/ TokenExpires(i)
        PROVE  EmailUnique'
    <2>1. ASSUME NEW p \in Passwords, Login(i, p) PROVE EmailUnique'
      BY <1>2, <2>1 DEF Login
    <2>2. CASE DeleteEmployer(i)
      BY <1>0, <1>1, <2>2 DEF DeleteEmployer, Live, NoRow
    <2>3. ASSUME NEW b \in BOOLEAN, VerifyEmployer(i, b) PROVE EmailUnique'
      BY <1>0, <1>1, <2>3 DEF VerifyEmployer, Live, Row
    <2>4. CASE TokenExpires(i)
      BY <1>0, <1>1, <2>4 DEF TokenExpires, Live, Row
    <2>. QED
      BY <1>5, <2>1, <2>2, <2>3, <2>4 DEF AtOnce
  <1>6. CASE Crash \/ UNCHANGED vars
    BY <1>2, <1>6 DEF Crash, vars
  <1>. QED
    BY <1>3, <1>4, <1>5, <1>6 DEF Next

(* The check-then-write handlers never leave two accounts with one         *)
(* address: the UNIQUE constraint decides at the write.                    *)
THEOREM EmailsUnique == Spec => []EmailUnique
  <1>. QED
    BY TypeInit, TypeStep, EmailInit, EmailStep, PTL DEF Spec

(* A JWT, or a handler in flight, never comes to mean another account than *)
(* the one it was issued for: AUTOINCREMENT never gives an id again.       *)
THEOREM HandlesKeepIdentity == Spec => []HandleIdentity
  <1>1. TypeInv /\ IdInv => HandleIdentity
    BY DEF IdInv, HandleIdentity
  <1>. QED
    BY <1>1, TypeInit, TypeStep, IdInit, IdStep, PTL DEF Spec

(* No write in flight and no later INSERT brings a deleted account back.   *)
THEOREM DeletedForGood == Spec => DeletedStaysDeleted
  <1>1. ASSUME TypeInv, [Next]_vars
        PROVE  \A i \in ClientId : i \notin Live /\ i <= lastId => i \notin Live'
    <2>1. ASSUME NEW r \in Requests, SignupInsert(r) \/ CreateInsert(r),
                 NEW i \in ClientId, i \notin Live, i <= lastId
          PROVE  i \notin Live'
      <3>1. i # NextId
        BY <1>1, <2>1, Bounds DEF NextId, TypeInv, TypeOK, ClientId
      <3>. QED
        BY <1>1, <2>1, <3>1
           DEF SignupInsert, CreateInsert, Insert, Live, TypeInv, TypeOK
    <2>. QED
      BY <1>1, <2>1, RowsStep
  <1>. QED
    BY <1>1, TypeInit, TypeStep, PTL DEF Spec, DeletedStaysDeleted

-----------------------------------------------------------------------------
(***************************************************************************)
(* Third layer: tokens.  Most steps only take tokens out of rows or drop   *)
(* requests; the few that draw, store, find, mail or spend one follow.     *)
(***************************************************************************)

RowsShrink ==
  \A i \in ClientId :
    /\ clients'[i].vtoken \in {clients[i].vtoken, NoToken}
    /\ clients'[i].rtoken \in {clients[i].rtoken, NoToken}

SlotsShrink == \A r \in Requests : req'[r] \in {req[r], Idle}

(* a token that becomes spent is out of every row and drawn for nobody *)
SpendsOK ==
  \A t \in spent' : \/ t \in spent
                    \/ /\ t <= lastToken
                       /\ ~Stored(t)'
                       /\ \A r \in Requests : Pending(r)' => req'[r].token # t

LEMMA TokenTypes ==
  ASSUME TypeInv
  PROVE  /\ lastToken \in Nat
         /\ \A i \in ClientId : /\ clients[i] \in Row
                                /\ clients[i].vtoken \in Nat
                                /\ clients[i].rtoken \in Nat
         /\ \A r \in Requests : /\ req[r] \in Request
                                /\ req[r].token \in Nat
                                /\ req[r].token = NoToken \/ req[r].token \in Token
                                /\ SlotOK(req[r])
         /\ \A t \in spent : t \in Token
         /\ \A m \in mail : m.token \in Token
         /\ \A t \in Token : t \in Nat /\ t # NoToken
  BY Bounds DEF TypeInv, TypeOK, Row, Request, Mail, Token, NoToken

LEMMA Shrink ==
  ASSUME TypeInv, TokenInv, RowsShrink, SlotsShrink, SpendsOK,
         UNCHANGED <<lastToken, mail, storedAt>>
  PROVE  TokenInv'
  <1>0. /\ Idle.pc = "idle" /\ Idle.token = NoToken
        /\ \A r \in Requests : Pending(r)' => req'[r] = req[r] /\ Pending(r)
        /\ \A r \in Requests : Pending(r) => req[r].token \in Token
    BY TokenTypes DEF Idle, SlotsShrink, Pending, SlotOK
  <1>1. \A t \in Token : Stored(t)' => Stored(t)
    BY TokenTypes DEF RowsShrink, Stored
  <1>2. DrawnInv'
    <2>1. \A i \in ClientId : clients'[i].vtoken <= lastToken
                             /\ clients'[i].rtoken <= lastToken
      BY TokenTypes DEF RowsShrink, TokenInv, DrawnInv, NoToken
    <2>2. \A r \in Requests : req'[r].token <= lastToken
      BY <1>0, TokenTypes DEF SlotsShrink, TokenInv, DrawnInv, NoToken
    <2>3. \A t \in spent' : t <= lastToken
      BY DEF SpendsOK, TokenInv, DrawnInv
    <2>. QED
      BY <2>1, <2>2, <2>3 DEF TokenInv, DrawnInv
  <1>3. PendingInv'
    <2>. SUFFICES ASSUME NEW r \in Requests, Pending(r)'
                  PROVE  /\ ~Stored(req[r].token)'
                         /\ req[r].token \notin spent'
                         /\ storedAt[req[r].token] = NoEmail
                         /\ \A m \in mail : m.token # req[r].token
                         /\ \A r2 \in Requests \ {r} :
                              req'[r2].token # req[r].token
      BY <1>0 DEF PendingInv, Stored
    <2>1. /\ req'[r] = req[r] /\ Pending(r) /\ req[r].token \in Token
      BY <1>0
    <2>2. ~Stored(req[r].token)'
      BY <1>1, <2>1 DEF TokenInv, PendingInv
    <2>3. req[r].token \notin spent'
      BY <2>1 DEF SpendsOK, TokenInv, PendingInv
    <2>4. ASSUME NEW r2 \in Requests \ {r} PROVE req'[r2].token # req[r].token
      BY <1>0, <2>1, TokenTypes DEF SlotsShrink, TokenInv, PendingInv
    <2>. QED
      BY <2>1, <2>2, <2>3, <2>4 DEF TokenInv, PendingInv
  <1>4. ColumnInv'
    BY TokenTypes DEF RowsShrink, TokenInv, ColumnInv
  <1>5. FoundInv'
    <2>. SUFFICES ASSUME NEW r \in Requests, NEW i \in ClientId, req'[r] # Idle
                  PROVE  FoundInv!(r, i)'
      BY <1>0 DEF FoundInv
    <2>1. req'[r] = req[r]
      BY DEF SlotsShrink
    <2>2. req[r].pc \in {"verify.set", "reset.write"} => req[r].token # NoToken
      BY TokenTypes DEF SlotOK
    <2>. QED
      BY <2>1, <2>2 DEF RowsShrink, TokenInv, FoundInv
  <1>6. MailingInv'
    BY <1>0 DEF SlotsShrink, TokenInv, MailingInv
  <1>7. SpentInv'
    BY <1>1, TokenTypes DEF SpendsOK, TokenInv, SpentInv
  <1>8. MailMatchesStore'
    BY DEF TokenInv, MailMatchesStore
  <1>. QED
    BY <1>2, <1>3, <1>4, <1>5, <1>6, <1>7, <1>8 DEF TokenInv

(* SignupLookup and ForgotLookup: the fresh token is nowhere yet. *)
LEMMA DrawStep ==
  ASSUME TypeInv, TokenInv, NEW r \in Requests, DrawToken,
         req[r] = Idle,
         req' = [req EXCEPT ![r] = req'[r]],
         req'[r].pc \in {"signup.insert", "forgot.store"},
         req'[r].token = FreshToken,
         UNCHANGED <<clients, mail, storedAt, spent>>
  PROVE  TokenInv'
  <1>. DEFINE new == FreshToken
  <1>0. /\ lastToken' = new /\ lastToken < new /\ new \in Token
        /\ \A q \in Requests \ {r} : req'[q] = req[q]
    BY TokenTypes, Bounds
       DEF DrawToken, FreshToken, TypeInv, TypeOK, Token
  <1>1. DrawnInv'
    <2>1. \A u \in Nat : u <= lastToken => u <= lastToken'
      BY <1>0, TokenTypes DEF FreshToken
    <2>. QED
      BY <1>0, <2>1, TokenTypes DEF TokenInv, DrawnInv, FreshToken
  <1>2. PendingInv'
    <2>1. /\ ~Stored(new)
          /\ new \notin spent
          /\ storedAt[new] = NoEmail
          /\ \A m \in mail : m.token # new
          /\ \A q \in Requests : req[q].token # new
      BY <1>0, TokenTypes DEF TokenInv, DrawnInv, Stored, FreshToken
    <2>. QED
      BY <1>0, <2>1 DEF TokenInv, PendingInv, Pending, Stored
  <1>3. FoundInv' /\ MailingInv'
    BY <1>0 DEF TokenInv, FoundInv, MailingInv
  <1>. QED
    BY <1>1, <1>2, <1>3
       DEF TokenInv, ColumnInv, SpentInv, MailMatchesStore, Stored

(* The other lookups: the slot's token is absent, or one found in a row    *)
(* after it arrived by mail, hence in no pending request's hands.          *)
LEMMA FindStep ==
  ASSUME TypeInv, TokenInv, NEW r \in Requests,
         req[r] = Idle,
         req' = [req EXCEPT ![r] = req'[r]],
         req'[r].pc \in {"create.insert", "update.write", "verify.set",
                         "reset.write"},
         req'[r].token = NoToken \/ Received(req'[r].token),
         req'[r].pc \in {"verify.set", "reset.write"} =>
           req'[r].id \in ClientId /\ req'[r].token \in Token,
         req'[r].pc = "verify.set" =>
           clients[req'[r].id].vtoken = req'[r].token,
         req'[r].pc = "reset.write" =>
           clients[req'[r].id].rtoken = req'[r].token,
         UNCHANGED <<clients, lastToken, mail, storedAt, spent>>
  PROVE  TokenInv'
  <1>. DEFINE t == req'[r].token
  <1>0. \A q \in Requests \ {r} : req'[q] = req[q]
    BY DEF TypeInv, TypeOK
  <1>1. t <= lastToken
    BY TokenTypes DEF Received, TokenInv, DrawnInv, NoToken
  <1>2. DrawnInv'
    BY <1>0, <1>1 DEF TokenInv, DrawnInv
  <1>3. PendingInv'
    <2>1. \A q \in Requests : Pending(q) => req[q].token # t
      BY TokenTypes DEF Received, TokenInv, PendingInv, Pending, SlotOK
    <2>. QED
      BY <1>0, <2>1 DEF TokenInv, PendingInv, Pending, Stored
  <1>4. FoundInv'
    <2>1. ASSUME NEW i \in ClientId
          PROVE  /\ req'[r].pc = "verify.set" =>
                      /\ clients[i].rtoken # t
                      /\ clients[i].vtoken = t => i = req'[r].id
                 /\ req'[r].pc = "reset.write" =>
                      /\ clients[i].vtoken # t
                      /\ clients[i].rtoken = t => i = req'[r].id
      BY TokenTypes DEF TokenInv, ColumnInv
    <2>. QED
      BY <1>0, <2>1 DEF TokenInv, FoundInv
  <1>5. MailingInv'
    BY <1>0 DEF TokenInv, MailingInv
  <1>. QED
    BY <1>2, <1>3, <1>4, <1>5
       DEF TokenInv, ColumnInv, SpentInv, MailMatchesStore, Stored

(* SignupInsert and ForgotStore: the pending token t enters at most one    *)
(* column of one row, whose address is the request's.                      *)
LEMMA StoreStep ==
  ASSUME TypeInv, TokenInv, NEW r \in Requests, Pending(r),
         NEW at \in Emails \cup {NoEmail}, at \in {NoEmail, req[r].email},
         NEW k \in ClientId \cup {NoId},
         \A i \in ClientId \ {k} : clients'[i] = clients[i],
         k \in ClientId =>
           \/ /\ clients'[k].vtoken = req[r].token
              /\ clients'[k].rtoken = NoToken
           \/ /\ clients'[k].vtoken = clients[k].vtoken
              /\ clients'[k].rtoken = req[r].token,
         storedAt' = [storedAt EXCEPT ![req[r].token] = at],
         \E pc \in {"signup.mail", "forgot.mail"} : Continue(r, pc),
         UNCHANGED <<lastToken, mail, spent>>
  PROVE  TokenInv'
  <1>. DEFINE t == req[r].token
  <1>0. /\ t \in Token /\ t # NoToken /\ t <= lastToken
        /\ \A q \in Requests \ {r} : req'[q] = req[q] /\ req[q].token # t
        /\ req'[r].pc \in {"signup.mail", "forgot.mail"}
        /\ req'[r].token = t /\ req'[r].email = req[r].email
        /\ ~Stored(t) /\ t \notin spent /\ \A m \in mail : m.token # t
    BY TokenTypes
       DEF TypeInv, TypeOK, Request, Continue, Pending, SlotOK, TokenInv,
           PendingInv, DrawnInv
  <1>1. /\ storedAt'[t] = at
        /\ \A u \in Token \ {t} : storedAt'[u] = storedAt[u]
    BY <1>0 DEF TypeInv, TypeOK
  <1>2. DrawnInv'
    BY <1>0, <1>1, TokenTypes DEF TokenInv, DrawnInv, NoToken
  <1>3. \A u \in Token \ {t} : Stored(u)' => Stored(u)
    BY TokenTypes DEF Stored, NoToken
  <1>4. PendingInv'
    BY <1>0, <1>1, <1>3, TokenTypes
       DEF TokenInv, PendingInv, Pending, SlotOK
  <1>5. ColumnInv'
    <2>1. \A i \in ClientId : clients[i].vtoken # t /\ clients[i].rtoken # t
      BY <1>0 DEF Stored
    <2>. QED
      BY <1>0, <2>1 DEF TokenInv, ColumnInv
  <1>6. FoundInv'
    BY <1>0, TokenTypes DEF TokenInv, FoundInv, SlotOK
  <1>7. MailingInv'
    <2>1. ASSUME NEW q \in Requests \ {r},
                 req'[q].pc \in {"signup.mail", "forgot.mail"}
          PROVE  storedAt'[req'[q].token] \in {NoEmail, req'[q].email}
      <3>1. req[q].token \in Token \ {t}
        BY <1>0, <2>1, TokenTypes DEF SlotOK
      <3>. QED
        BY <1>0, <1>1, <2>1, <3>1 DEF TokenInv, MailingInv
    <2>. QED
      BY <1>0, <1>1, <2>1 DEF MailingInv
  <1>8. SpentInv'
    BY <1>0, <1>3, TokenTypes DEF TokenInv, SpentInv
  <1>9. MailMatchesStore'
    BY <1>0, <1>1 DEF TokenInv, MailMatchesStore, TypeInv, TypeOK, Mail
  <1>. QED
    BY <1>2, <1>4, <1>5, <1>6, <1>7, <1>8, <1>9 DEF TokenInv

(* SignupMail and ForgotMail *)
LEMMA MailStep ==
  ASSUME TypeInv, TokenInv, NEW r \in Requests,
         req[r].pc \in {"signup.mail", "forgot.mail"},
         SendMail(req[r]), Finish(r),
         UNCHANGED <<clients, lastToken, storedAt, spent>>
  PROVE  TokenInv'
  <1>. DEFINE t == req[r].token
  <1>0. /\ t \in Token /\ t <= lastToken
        /\ req'[r] = Idle
        /\ \A q \in Requests \ {r} : req'[q] = req[q]
        /\ \A m \in mail' : m \in mail \/ m = [to |-> req[r].email, token |-> t]
        /\ Idle.pc = "idle" /\ Idle.token = NoToken
    BY TokenTypes
       DEF TypeInv, TypeOK, SendMail, Finish, SlotOK, TokenInv, DrawnInv, Idle
  <1>1. DrawnInv'
    BY <1>0, TokenTypes DEF TokenInv, DrawnInv, NoToken
  <1>2. PendingInv'
    <2>1. ASSUME NEW q \in Requests, Pending(q)'
          PROVE  q # r /\ req'[q] = req[q] /\ Pending(q) /\ req[q].token # t
                 /\ req[q].token # NoToken
      BY <1>0, <2>1, TokenTypes DEF Pending, TokenInv, PendingInv, SlotOK
    <2>. QED
      BY <1>0, <2>1 DEF TokenInv, PendingInv, Stored
  <1>3. FoundInv' /\ MailingInv'
    BY <1>0 DEF TokenInv, FoundInv, MailingInv
  <1>4. MailMatchesStore'
    BY <1>0 DEF TokenInv, MailMatchesStore, MailingInv
  <1>. QED
    BY <1>1, <1>2, <1>3, <1>4 DEF TokenInv, ColumnInv, SpentInv, Stored

LEMMA TokenInit == Init => TokenInv
  BY DEF Init, TokenInv, DrawnInv, PendingInv, ColumnInv, FoundInv, MailingInv,
         SpentInv, MailMatchesStore, Stored, Pending, NoRow, Idle, Token, NoToken

LEMMA ArrivesStep ==
  ASSUME TypeInv, TokenInv, NEW r \in Requests, Arrives(r)
  PROVE  TokenInv'
  <1>. USE DEF NoId, Pc
  <1>0. req \in [Requests -> Request]
    BY DEF TypeInv, TypeOK
  <1>1. ASSUME NEW e \in Emails, NEW p \in Passwords, SignupLookup(r, e, p)
        PROVE  TokenInv'
    BY <1>0, <1>1, DrawStep DEF SignupLookup, Begin
  <1>2. ASSUME NEW e \in Emails, NEW p \in Passwords, CreateLookup(r, e, p)
        PROVE  TokenInv'
    BY <1>0, <1>2, FindStep DEF CreateLookup, Begin
  <1>3. ASSUME NEW e \in Emails, ForgotLookup(r, e) PROVE TokenInv'
    BY <1>0, <1>3, DrawStep DEF ForgotLookup, Begin
  <1>4. ASSUME NEW t \in Token, NEW i \in ClientId, VerifyLookup(r, t, i)
        PROVE  TokenInv'
    BY <1>0, <1>4, FindStep DEF VerifyLookup, Begin
  <1>5. ASSUME NEW t \in Token, NEW i \in ClientId, NEW p \in Passwords,
               ResetLookup(r, t, i, p)
        PROVE  TokenInv'
    BY <1>0, <1>5, FindStep DEF ResetLookup, Begin
  <1>6. ASSUME NEW i \in ClientId, NEW e \in Emails \cup {NoEmail},
               NEW p \in Passwords \cup {NoPassword}, UpdateLookup(r, i, e, p)
        PROVE  TokenInv'
    BY <1>0, <1>6, FindStep DEF UpdateLookup, Begin
  <1>. QED
    BY <1>1, <1>2, <1>3, <1>4, <1>5, <1>6 DEF Arrives

LEMMA ProceedsStep ==
  ASSUME TypeInv, EmptyInv, EmailUnique, TokenInv, NEW r \in Requests,
         Proceeds(r)
  PROVE  TokenInv'
  <1>0. /\ clients \in [ClientId -> Row]
        /\ req \in [Requests -> Request]
        /\ Finish(r) => SlotsShrink
        /\ UNCHANGED spent => SpendsOK
    BY DEF TypeInv, TypeOK, Finish, SlotsShrink, SpendsOK
  <1>1. CASE SignupInsert(r)
    <2>1. /\ NextId \in ClientId
          /\ clients'[NextId].vtoken = req[r].token
          /\ clients'[NextId].rtoken = NoToken
          /\ \A i \in ClientId \ {NextId} : clients'[i] = clients[i]
      BY <1>0, <1>1, Bounds
         DEF SignupInsert, Insert, NewRow, NextId, ClientId, TypeInv, TypeOK
    <2>. QED
      BY <1>0, <1>1, <2>1, StoreStep DEF SignupInsert, Insert, Pending, Request
  <1>2. CASE SignupMail(r) \/ ForgotMail(r)
    BY <1>2, MailStep DEF SignupMail, ForgotMail
  <1>3. CASE CreateInsert(r)
    <2>1. RowsShrink
      BY <1>0, <1>3, TokenTypes
         DEF CreateInsert, Insert, NewRow, RowsShrink, SlotOK
    <2>. QED
      BY <1>0, <1>3, <2>1, Shrink DEF CreateInsert, Insert
  <1>4. CASE VerifySet(r)
    <2>. PICK t \in Token : t = req[r].token
      BY <1>4, TokenTypes DEF VerifySet, SlotOK
    <2>1. RowsShrink
      BY <1>0, <1>4 DEF VerifySet, SetVerified, RowsShrink, Row
    <2>2. ~Stored(t)'
      <3>. SUFFICES ASSUME NEW i \in ClientId
                    PROVE  clients'[i].vtoken # t /\ clients'[i].rtoken # t
        BY DEF Stored
      <3>1. t # NoToken
        BY TokenTypes
      <3>2. CASE i \in Live
        BY <1>0, <1>4, <3>1, <3>2
           DEF VerifySet, SetVerified, TokenInv, FoundInv, Row
      <3>3. CASE i \notin Live
        <4>1. clients'[i] = NoRow
          BY <1>4, <3>3 DEF VerifySet, SetVerified, EmptyInv
        <4>. QED
          BY <3>1, <4>1 DEF NoRow
      <3>. QED
        BY <3>2, <3>3
    <2>3. \A q \in Requests : Pending(q)' => req'[q].token # t
      BY <1>0, <1>4
         DEF VerifySet, Finish, Idle, Pending, TokenInv, PendingInv
    <2>4. SpendsOK
      BY <1>4, <2>2, <2>3 DEF VerifySet, SpendsOK, TokenInv, DrawnInv
    <2>. QED
      BY <1>0, <1>4, <2>1, <2>4, Shrink DEF VerifySet
  <1>5. CASE ForgotStore(r)
    <2>. PICK t \in Token, e \in Emails : t = req[r].token /\ e = req[r].email
      BY <1>0, <1>5, TokenTypes DEF ForgotStore, SlotOK, Request
    <2>. DEFINE stored == {i \in Live : clients'[i].rtoken = t}
    <2>0. \A i \in ClientId : clients[i].rtoken # t /\ clients[i].vtoken # t
      BY <1>5 DEF ForgotStore, Pending, TokenInv, PendingInv, Stored
    <2>1. \A i \in ClientId :
            /\ clients[i].email # e => clients'[i] = clients[i]
            /\ clients[i].email = e => /\ clients'[i].vtoken = clients[i].vtoken
                                       /\ clients'[i].rtoken = t
                                       /\ clients'[i].email = e
      BY <1>0, <1>5 DEF ForgotStore, SetResetToken, Row
    <2>2. \A i \in stored : clients'[i].email = e
      BY <2>0, <2>1 DEF Live
    <2>3. PICK at \in {NoEmail, e} :
            storedAt' = [storedAt EXCEPT ![req[r].token] = at]
      <3>1. CASE stored = {}
        BY <1>5, <3>1 DEF ForgotStore
      <3>2. CASE stored # {}
        <4>1. (CHOOSE i \in stored : TRUE) \in stored
          BY <3>2
        <4>2. clients'[CHOOSE i \in stored : TRUE].email = e
          BY <2>2, <4>1
        <4>. QED
          BY <1>5, <3>2, <4>2 DEF ForgotStore
      <3>. QED
        BY <3>1, <3>2
    <2>4. CASE \E k \in ClientId : clients[k].email = e
      <3>1. PICK k \in ClientId : clients[k].email = e
        BY <2>4
      <3>2. \A i \in ClientId \ {k} : clients[i].email # e
        BY <3>1, AbsentValues DEF EmailUnique, Live
      <3>. QED
        BY <1>5, <2>1, <2>3, <3>1, <3>2, StoreStep DEF ForgotStore, Pending
    <2>5. CASE \A k \in ClientId : clients[k].email # e
      BY <1>5, <2>1, <2>3, <2>5, StoreStep
         DEF ForgotStore, Pending, ClientId, NoId
    <2>. QED
      BY <2>4, <2>5
  <1>6. CASE ResetWrite(r)
    <2>. PICK t \in Token : t = req[r].token
      BY <1>6, TokenTypes DEF ResetWrite, SlotOK
    <2>1. RowsShrink
      BY <1>0, <1>6 DEF ResetWrite, UpdatePassword, RowsShrink, Row
    <2>2. ~Stored(t)'
      <3>. SUFFICES ASSUME NEW i \in ClientId
                    PROVE  clients'[i].vtoken # t /\ clients'[i].rtoken # t
        BY DEF Stored
      <3>1. t # NoToken
        BY TokenTypes
      <3>2. CASE i \in Live
        BY <1>0, <1>6, <3>1, <3>2
           DEF ResetWrite, UpdatePassword, TokenInv, FoundInv, Row
      <3>3. CASE i \notin Live
        <4>1. clients'[i] = NoRow
          BY <1>6, <3>3 DEF ResetWrite, UpdatePassword, EmptyInv
        <4>. QED
          BY <3>1, <4>1 DEF NoRow
      <3>. QED
        BY <3>2, <3>3
    <2>3. \A q \in Requests : Pending(q)' => req'[q].token # t
      BY <1>0, <1>6
         DEF ResetWrite, Finish, Idle, Pending, TokenInv, PendingInv
    <2>4. SpendsOK
      BY <1>6, <2>2, <2>3 DEF ResetWrite, SpendsOK, TokenInv, DrawnInv
    <2>. QED
      BY <1>0, <1>6, <2>1, <2>4, Shrink DEF ResetWrite
  <1>7. CASE UpdateWrite(r)
    <2>1. RowsShrink
      <3>1. clients' = Update(req[r])
        BY <1>7 DEF UpdateWrite
      <3>. QED
        BY <1>0, <3>1, UpdateKeeps DEF RowsShrink
    <2>. QED
      BY <1>0, <1>7, <2>1, Shrink DEF UpdateWrite
  <1>8. CASE Fails(r)
    BY <1>0, <1>8, Shrink DEF Fails, RowsShrink
  <1>. QED
    BY <1>1, <1>2, <1>3, <1>4, <1>5, <1>6, <1>7, <1>8 DEF Proceeds

LEMMA TokenStep ==
  TypeInv /\ EmptyInv /\ EmailUnique /\ TokenInv /\ [Next]_vars => TokenInv'
  <1>. SUFFICES ASSUME TypeInv, EmptyInv, EmailUnique, TokenInv, [Next]_vars
                PROVE  TokenInv'
    OBVIOUS
  <1>0. /\ clients \in [ClientId -> Row]
        /\ UNCHANGED req => SlotsShrink
        /\ UNCHANGED spent => SpendsOK
        /\ UNCHANGED clients => RowsShrink
    BY DEF TypeInv, TypeOK, SlotsShrink, SpendsOK, RowsShrink
  <1>1. ASSUME NEW r \in Requests, Arrives(r) \/ Proceeds(r) PROVE TokenInv'
    BY <1>1, ArrivesStep, ProceedsStep
  <1>2. ASSUME NEW i \in ClientId, AtOnce(i) \/ TokenExpires(i)
        PROVE  TokenInv'
    <2>1. ASSUME NEW p \in Passwords, Login(i, p) PROVE TokenInv'
      BY <1>0, <2>1, Shrink DEF Login
    <2>2. CASE DeleteEmployer(i)
      <3>1. RowsShrink
        BY <1>0, <2>2 DEF DeleteEmployer, RowsShrink, NoRow
      <3>. QED
        BY <1>0, <2>2, <3>1, Shrink DEF DeleteEmployer
    <2>3. ASSUME NEW b \in BOOLEAN, VerifyEmployer(i, b) PROVE TokenInv'
      <3>1. RowsShrink
        BY <1>0, <2>3 DEF VerifyEmployer, RowsShrink, Row
      <3>. QED
        BY <1>0, <2>3, <3>1, Shrink DEF VerifyEmployer
    <2>4. CASE TokenExpires(i)
      <3>1. RowsShrink
        BY <1>0, <2>4 DEF TokenExpires, RowsShrink, Row
      <3>. QED
        BY <1>0, <2>4, <3>1, Shrink DEF TokenExpires
    <2>. QED
      BY <1>2, <2>1, <2>2, <2>3, <2>4 DEF AtOnce
  <1>3. CASE Crash
    <2>1. SlotsShrink
      BY <1>3 DEF Crash, SlotsShrink
    <2>. QED
      BY <1>0, <1>3, <2>1, Shrink DEF Crash
  <1>4. CASE UNCHANGED vars
    BY <1>0, <1>4, Shrink DEF vars
  <1>. QED
    BY <1>1, <1>2, <1>3, <1>4 DEF Next

-----------------------------------------------------------------------------
(* The inductive invariant: all three layers hold in every reachable state. *)
THEOREM Inductive == Spec => []IInv
  <1>1. Init => IInv
    BY TypeInit, EmptyInit, IdInit, EmailInit, TokenInit DEF IInv
  <1>2. IInv /\ [Next]_vars => IInv'
    BY TypeStep, EmptyStep, IdStep, EmailStep, TokenStep DEF IInv
  <1>. QED
    BY <1>1, <1>2, PTL DEF Spec

(* A token that a verification or a reset has finished with is in no row,  *)
(* and never will be again.                                                *)
THEOREM SpentForGood == Spec => []SpentTokenGone
  <1>1. IInv => SpentTokenGone
    BY DEF IInv, TokenInv, SpentInv, SpentTokenGone, Stored, Live
  <1>. QED
    BY <1>1, Inductive, PTL

(* A token goes by mail to the address of the account it was stored for.   *)
THEOREM MailGoesToOwner == Spec => []MailMatchesStore
  <1>1. IInv => MailMatchesStore
    BY DEF IInv, TokenInv
  <1>. QED
    BY <1>1, Inductive, PTL

-----------------------------------------------------------------------------
(***************************************************************************)
(* Accounts implements Memberships.                                        *)
(***************************************************************************)
Table  == [i \in ClientId |-> AsAccount(clients[i])]
Issued == {t \in Token : storedAt[t] # NoEmail}
Claims == {AsClaim(req[r]) : r \in Acting}

LEMMA Members ==
  ASSUME TypeInv, EmptyInv
  PROVE  /\ Promise!Members = Live
         /\ \A i \in ClientId : \A e : Promise!Free(i, e) <=> EmailFree(i, e)
<1>1. ASSUME NEW i \in ClientId
      PROVE  AsAccount(clients[i]) # Promise!NoAccount <=> i \in Live
  <2>1. CASE i \in Live
    <3>1. AsAccount(clients[i]).email # Promise!NoAccount.email
      BY <2>1 DEF Live, AsAccount, Promise!NoAccount, Promise!Account
    <3> QED BY <2>1, <3>1
  <2>2. CASE i \notin Live
    <3>1. clients[i] = NoRow
      BY <2>2 DEF EmptyInv
    <3>2. Lapsed(NoRow) = {}
      BY DEF Lapsed, NoRow
    <3>3. AsAccount(NoRow) = Promise!NoAccount
      BY <3>2 DEF NoRow, AsAccount, Promise!NoAccount, Promise!Account
    <3> QED BY <2>2, <3>1, <3>3
  <2> QED BY <2>1, <2>2
<1>2. Promise!Members = Live
  BY <1>1 DEF Promise!Members, Live
<1>3. \A j \in ClientId : AsAccount(clients[j]).email = clients[j].email
  BY DEF AsAccount
<1>4. \A i \in ClientId : \A e : Promise!Free(i, e) <=> EmailFree(i, e)
  BY <1>2, <1>3 DEF Promise!Free, EmailFree, Live
<1> QED BY <1>2, <1>4

(* A statement that writes one row changes one account. *)
LEMMA TableStep ==
  ASSUME NEW i \in ClientId, NEW row,
         clients' = [k \in ClientId |-> IF k = i THEN row ELSE clients[k]]
  PROVE  Table' = [Table EXCEPT ![i] = AsAccount(row)]
BY DEF Table

(* What a step of a handler does to the claims. *)
LEMMA ClaimsStep ==
  ASSUME NEW r \in Requests, NEW q, req \in [Requests -> Request],
         req' = [req EXCEPT ![r] = q]
  PROVE  /\ q.pc \notin {"verify.set", "reset.write"} => Claims' \subseteq Claims
         /\ r \notin Acting /\ q.pc \notin {"verify.set", "reset.write"}
              => Claims' = Claims
         /\ r \notin Acting /\ q.pc \in {"verify.set", "reset.write"}
              => Claims' = Claims \cup {AsClaim(q)}
<1>1. /\ req'[r] = q
      /\ \A x \in Requests \ {r} : req'[x] = req[x]
  OBVIOUS
<1>2. CASE q.pc \notin {"verify.set", "reset.write"}
  <2>1. Acting' = Acting \ {r}
    BY <1>1, <1>2 DEF Acting
  <2>2. Claims' = {AsClaim(req[x]) : x \in Acting \ {r}}
    BY <1>1, <2>1 DEF Claims, Acting
  <2> QED BY <1>2, <2>2 DEF Claims
<1>3. CASE q.pc \in {"verify.set", "reset.write"} /\ r \notin Acting
  <2>1. Acting' = Acting \cup {r}
    BY <1>1, <1>3 DEF Acting
  <2>2. Claims' = {AsClaim(req[x]) : x \in Acting} \cup {AsClaim(q)}
    BY <1>1, <1>3, <2>1 DEF Claims, Acting
  <2> QED BY <1>3, <2>2 DEF Claims
<1> QED BY <1>2, <1>3

LEMMA LapsedFacts ==
  ASSUME NEW row \in Row, NEW new \in Row
  PROVE  /\ new.vexpired = row.vexpired /\ new.rexpired = row.rexpired
              => Lapsed(new) = Lapsed(row)
         /\ ~new.vexpired /\ new.rexpired = row.rexpired
              => Lapsed(new) = Lapsed(row) \ {"verify"}
         /\ ~new.rexpired /\ new.vexpired = row.vexpired
              => Lapsed(new) = Lapsed(row) \ {"reset"}
         /\ new.vexpired /\ new.rexpired = row.rexpired
              => Lapsed(new) = Lapsed(row) \cup {"verify"}
         /\ new.rexpired /\ new.vexpired = row.vexpired
              => Lapsed(new) = Lapsed(row) \cup {"reset"}
BY DEF Lapsed, Row

(* What a new version of a row is to Memberships, by the columns that      *)
(* changed. *)
LEMMA RowUpdates ==
  ASSUME NEW row \in Row, NEW n \in Row
  PROVE  LET SameLogin    == n.email = row.email /\ n.password = row.password
             SameStanding == n.verified = row.verified
             SameVerify   == n.vtoken = row.vtoken /\ n.vexpired = row.vexpired
             SameReset    == n.rtoken = row.rtoken /\ n.rexpired = row.rexpired
         IN /\ SameStanding /\ SameVerify /\ SameReset
                 => AsAccount(n) = Promise!WithLogin(AsAccount(row), n.email, n.password)
            /\ SameLogin /\ SameVerify /\ SameReset
                 => AsAccount(n) = Promise!WithStanding(AsAccount(row), n.verified)
            /\ SameLogin /\ SameReset /\ n.vtoken = NoToken /\ ~n.vexpired
                 => AsAccount(n) = Promise!Settled(AsAccount(row), n.verified)
            /\ n.email = row.email /\ SameStanding /\ SameVerify
               /\ n.rtoken = NoToken /\ ~n.rexpired
                 => AsAccount(n) = Promise!WithPassword(AsAccount(row), n.password)
            /\ SameLogin /\ SameStanding /\ SameVerify /\ ~n.rexpired
                 => AsAccount(n) = Promise!WithReset(AsAccount(row), n.rtoken)
            /\ SameLogin /\ SameStanding /\ SameReset
               /\ n.vtoken = row.vtoken /\ n.vexpired
                 => AsAccount(n) = Promise!WithLapse(AsAccount(row), "verify")
            /\ SameLogin /\ SameStanding /\ SameVerify
               /\ n.rtoken = row.rtoken /\ n.rexpired
                 => AsAccount(n) = Promise!WithLapse(AsAccount(row), "reset")
BY LapsedFacts
   DEF AsAccount, Promise!WithLogin, Promise!WithStanding, Promise!Settled,
       Promise!WithPassword, Promise!WithReset, Promise!WithLapse, Promise!Account

LEMMA PromiseInit == Init => Promise!Init
<1> SUFFICES ASSUME Init PROVE Promise!Init
  OBVIOUS
<1>1. \A i \in ClientId : AsAccount(clients[i]) = Promise!NoAccount
  BY DEF Init, NoRow, AsAccount, Lapsed, Promise!NoAccount, Promise!Account
<1>2. Acting = {} /\ 1 .. lastId = {}
  BY DEF Init, Acting, Idle
<1> QED BY <1>1, <1>2 DEF Promise!Init, Init

(* Neither the accounts nor the links change, and no claim is made. *)
LEMMA DropStep ==
  ASSUME UNCHANGED <<clients, lastId, storedAt>>, Claims' \subseteq Claims
  PROVE  Promise!Next
<1>1. Promise!Drop
  BY DEF Promise!Drop, Claims
<1> QED BY <1>1 DEF Promise!Next

LEMMA JoinStep ==
  ASSUME IInv, NEW r \in Requests, SignupInsert(r) PROVE Promise!Next
<1> DEFINE q == req[r]
<1>1. /\ TypeInv /\ EmptyInv /\ q \in Request /\ SlotOK(q) /\ q.pc = "signup.insert"
  BY DEF IInv, TypeInv, TypeOK, SignupInsert
<1>2. q.email \in Emails /\ q.password \in Passwords /\ q.token \in Token
  BY <1>1 DEF SlotOK, Request
<1>3. /\ NextId \in ClientId /\ NextId \notin 1 .. lastId
      /\ 1 .. lastId' = (1 .. lastId) \cup {NextId}
  <2>1. /\ lastId \in Nat /\ births = lastId /\ births < MaxClients
        /\ MaxClients \in Nat /\ lastId' = NextId /\ NextId = lastId + 1
    BY <1>1, Bounds DEF TypeInv, TypeOK, SignupInsert, Insert, NextId
  <2>2. 1 .. lastId + 1 = (1 .. lastId) \cup {lastId + 1}
    BY ONLY <2>1
  <2> QED BY <2>1, <2>2 DEF ClientId
<1>4. storedAt[q.token] = NoEmail
  BY <1>1 DEF IInv, TokenInv, PendingInv, Pending
<1>5. Issued' = Issued \cup {q.token}
  BY <1>1, <1>2, AbsentValues DEF SignupInsert, Issued, TypeInv, TypeOK
<1>6. Table' = [Table EXCEPT ![NextId] =
                  Promise!Account(q.email, q.password, FALSE, q.token, NoToken, {})]
  <2>1. clients' = [k \in ClientId |->
                      IF k = NextId THEN NewRow(q, FALSE) ELSE clients[k]]
    BY <1>1, <1>3 DEF SignupInsert, Insert, TypeInv, TypeOK
  <2>2. AsAccount(NewRow(q, FALSE))
          = Promise!Account(q.email, q.password, FALSE, q.token, NoToken, {})
    BY DEF AsAccount, Lapsed, NewRow, Promise!Account
  <2> QED BY <1>3, <2>1, <2>2, TableStep
<1>7. Claims' = Claims
  <2>1. r \notin Acting /\ req' = [req EXCEPT ![r] = [q EXCEPT !.pc = "signup.mail"]]
    BY <1>1 DEF SignupInsert, Continue, Acting
  <2>2. [q EXCEPT !.pc = "signup.mail"].pc = "signup.mail" /\ req \in [Requests -> Request]
    BY <1>1 DEF Request, TypeInv, TypeOK
  <2> QED BY <2>1, <2>2, ClaimsStep
<1>8. Promise!Free(NextId, q.email)
  BY <1>1, <1>3, Members DEF SignupInsert, Insert
<1>9. PICK t \in Token : t = q.token
  BY <1>2
<1>10. Promise!Join(NextId, q.email, q.password, t)
  BY <1>3, <1>4, <1>5, <1>6, <1>7, <1>8, <1>9
     DEF Promise!Join, Table, Issued, Claims
<1> QED BY <1>2, <1>3, <1>10 DEF Promise!Next

LEMMA AdmitStep ==
  ASSUME IInv, NEW r \in Requests, CreateInsert(r) PROVE Promise!Next
<1> DEFINE q == req[r]
<1>1. /\ TypeInv /\ EmptyInv /\ q \in Request /\ SlotOK(q) /\ q.pc = "create.insert"
  BY DEF IInv, TypeInv, TypeOK, CreateInsert
<1>2. q.email \in Emails /\ q.password \in Passwords /\ q.token = NoToken
  BY <1>1 DEF SlotOK, Request
<1>3. /\ NextId \in ClientId /\ NextId \notin 1 .. lastId
      /\ 1 .. lastId' = (1 .. lastId) \cup {NextId}
  <2>1. /\ lastId \in Nat /\ births = lastId /\ births < MaxClients
        /\ MaxClients \in Nat /\ lastId' = NextId /\ NextId = lastId + 1
    BY <1>1, Bounds DEF TypeInv, TypeOK, CreateInsert, Insert, NextId
  <2>2. 1 .. lastId + 1 = (1 .. lastId) \cup {lastId + 1}
    BY ONLY <2>1
  <2> QED BY <2>1, <2>2 DEF ClientId
<1>4. Table' = [Table EXCEPT ![NextId] =
                  Promise!Account(q.email, q.password, TRUE, NoToken, NoToken, {})]
  <2>1. clients' = [k \in ClientId |->
                      IF k = NextId THEN NewRow(q, TRUE) ELSE clients[k]]
    BY <1>1, <1>3 DEF CreateInsert, Insert, TypeInv, TypeOK
  <2>2. AsAccount(NewRow(q, TRUE))
          = Promise!Account(q.email, q.password, TRUE, NoToken, NoToken, {})
    BY <1>2 DEF AsAccount, Lapsed, NewRow, Promise!Account
  <2> QED BY <1>3, <2>1, <2>2, TableStep
<1>5. Claims' = Claims
  <2>1. r \notin Acting /\ req' = [req EXCEPT ![r] = Idle] /\ Idle.pc = "idle"
    BY <1>1 DEF CreateInsert, Finish, Acting, Idle
  <2> QED BY <1>1, <2>1, ClaimsStep DEF TypeInv, TypeOK
<1>6. Promise!Free(NextId, q.email)
  BY <1>1, <1>3, Members DEF CreateInsert, Insert
<1>7. Promise!Admit(NextId, q.email, q.password)
  BY <1>3, <1>4, <1>5, <1>6 DEF Promise!Admit, Table, Claims, CreateInsert
<1> QED BY <1>2, <1>3, <1>7 DEF Promise!Next


(* A handler finds a good link and makes a claim of it. *)
LEMMA ClaimStep ==
  ASSUME IInv, NEW r \in Requests, NEW t \in Token, NEW i \in ClientId,
         \/ VerifyLookup(r, t, i)
         \/ \E p \in Passwords : ResetLookup(r, t, i, p)
  PROVE  Promise!Next
<1>1. TypeInv /\ EmptyInv /\ req \in [Requests -> Request] /\ i \in Live
  BY DEF IInv, TypeInv, TypeOK, VerifyLookup, ResetLookup
<1>2. i \in Promise!Members
  BY <1>1, Members
<1>3. UNCHANGED <<clients, lastId, storedAt>>
  BY DEF VerifyLookup, ResetLookup
<1>4. ASSUME NEW pc, NEW p, Begin(r, pc, i, t, NoEmail, p),
             pc \in {"verify.set", "reset.write"}
      PROVE  Claims' = Claims \cup
               {[of |-> i, token |-> t,
                 kind |-> IF pc = "verify.set" THEN "verify" ELSE "reset"]}
  <2> DEFINE q == [pc |-> pc, id |-> i,
                   born |-> IF i = NoId THEN NoId ELSE clients[i].born,
                   token |-> t, email |-> NoEmail, password |-> p]
  <2>1. req' = [req EXCEPT ![r] = q] /\ q.pc = pc /\ r \notin Acting
    BY <1>4 DEF Begin, Acting, Idle
  <2>2. AsClaim(q) = [of |-> i, token |-> t,
               kind |-> IF pc = "verify.set" THEN "verify" ELSE "reset"]
    BY DEF AsClaim
  <2> HIDE DEF q
  <2> QED BY <1>1, <1>4, <2>1, <2>2, ClaimsStep
<1>5. CASE VerifyLookup(r, t, i)
  <2>1. Claims' = Claims \cup {[of |-> i, token |-> t, kind |-> "verify"]}
    BY <1>4, <1>5 DEF VerifyLookup
  <2>2. Promise!Claim(i, "verify")
    BY <1>3, <1>5, <2>1
       DEF Promise!Claim, VerifyLookup, AsAccount, Lapsed, Claims, Token, NoToken
  <2> QED BY <1>2, <2>2 DEF Promise!Next, Promise!Kind
<1>6. CASE \E p \in Passwords : ResetLookup(r, t, i, p)
  <2>1. Claims' = Claims \cup {[of |-> i, token |-> t, kind |-> "reset"]}
    <3>1. PICK p \in Passwords : ResetLookup(r, t, i, p)
      BY <1>6
    <3>2. Begin(r, "reset.write", i, t, NoEmail, p)
      BY <3>1 DEF ResetLookup
    <3> QED BY <1>4, <3>2
  <2>2. Promise!Claim(i, "reset")
    BY <1>3, <1>6, <2>1
       DEF Promise!Claim, ResetLookup, AsAccount, Lapsed, Claims, Token, NoToken
  <2> QED BY <1>2, <2>2 DEF Promise!Next, Promise!Kind
<1> QED BY <1>5, <1>6

(* A handler that acts on its claim ends with the link closed for good. *)
LEMMA ActStep ==
  ASSUME IInv, IInv', NEW r \in Requests, VerifySet(r) \/ ResetWrite(r)
  PROVE  Promise!Next
<1> DEFINE q == req[r]
           c == AsClaim(q)
<1>1. /\ TypeInv /\ EmptyInv /\ q \in Request /\ SlotOK(q)
      /\ clients \in [ClientId -> Row] /\ req \in [Requests -> Request]
  BY DEF IInv, TypeInv, TypeOK
<1>2. c \in Claims
  BY DEF Claims, Acting, VerifySet, ResetWrite
<1>3. Claims' \subseteq Claims
  <2>1. req' = [req EXCEPT ![r] = Idle] /\ Idle.pc = "idle"
    BY DEF VerifySet, ResetWrite, Finish, Idle
  <2> QED BY <1>1, <2>1, ClaimsStep
<1>4. \A i \in ClientId, k \in Promise!Kind : Table'[i][k] # c.token
  <2>1. q.token \in spent' /\ SpentInv'
    BY DEF VerifySet, ResetWrite, IInv, TokenInv
  <2>2. \A i \in ClientId :
          clients'[i].vtoken # q.token /\ clients'[i].rtoken # q.token
    BY <2>1 DEF SpentInv, Stored
  <2> QED BY <2>2 DEF Table, AsAccount, Promise!Kind, AsClaim
<1>5. Promise!Members = Live /\ UNCHANGED <<lastId, storedAt>> /\ c.of = q.id
  BY <1>1, Members DEF VerifySet, ResetWrite, AsClaim
<1>6. CASE VerifySet(r)
  <2>1. Table' = IF q.id \in Live
                 THEN [Table EXCEPT ![q.id] = Promise!Settled(Table[q.id], TRUE)]
                 ELSE Table
    <3>1. CASE q.id \in Live
      <4> DEFINE row == [clients[q.id] EXCEPT !.verified = TRUE, !.vtoken = NoToken,
                                              !.vexpired = FALSE]
      <4>1. clients' = [k \in ClientId |-> IF k = q.id THEN row ELSE clients[k]]
        BY <1>1, <1>6, <3>1 DEF VerifySet, SetVerified
      <4>2. q.id \in ClientId /\ clients[q.id] \in Row
        BY <1>1, <3>1 DEF Live
      <4>3. AsAccount(row) = Promise!Settled(AsAccount(clients[q.id]), TRUE)
        <5>1. /\ row \in Row /\ row.verified /\ row.vtoken = NoToken /\ ~row.vexpired
              /\ row.email = clients[q.id].email /\ row.password = clients[q.id].password
              /\ row.rtoken = clients[q.id].rtoken /\ row.rexpired = clients[q.id].rexpired
          BY <4>2 DEF Row, NoToken
        <5> HIDE DEF row
        <5> QED BY <4>2, <5>1, RowUpdates
      <4> HIDE DEF row
      <4>4. Table' = [Table EXCEPT ![q.id] = AsAccount(row)]
        BY <4>1, <4>2, TableStep
      <4> QED BY <3>1, <4>2, <4>3, <4>4 DEF Table
    <3>2. CASE q.id \notin Live
      <4>1. clients' = clients
        BY <1>1, <1>6, <3>2 DEF VerifySet, SetVerified
      <4> QED BY <3>2, <4>1 DEF Table
    <3> QED BY <3>1, <3>2
  <2>2. c.kind = "verify"
    BY <1>6 DEF VerifySet, AsClaim
  <2>3. Promise!Confirm(c)
    BY <1>3, <1>4, <1>5, <2>1, <2>2 DEF Promise!Confirm, Table, Claims
  <2> QED BY <1>2, <2>3 DEF Promise!Next, Claims
<1>7. CASE ResetWrite(r)
  <2>1. Table' = IF q.id \in Live
                 THEN [Table EXCEPT ![q.id] =
                        Promise!WithPassword(Table[q.id], q.password)]
                 ELSE Table
    <3>1. CASE q.id \in Live
      <4> DEFINE row == [clients[q.id] EXCEPT !.password = q.password,
                                              !.rtoken = NoToken, !.rexpired = FALSE]
      <4>1. clients' = [k \in ClientId |-> IF k = q.id THEN row ELSE clients[k]]
        BY <1>1, <1>7, <3>1 DEF ResetWrite, UpdatePassword
      <4>2. q.id \in ClientId /\ clients[q.id] \in Row
        BY <1>1, <3>1 DEF Live
      <4>3. AsAccount(row) = Promise!WithPassword(AsAccount(clients[q.id]), q.password)
        <5>1. /\ row \in Row /\ row.password = q.password
              /\ row.rtoken = NoToken /\ ~row.rexpired
              /\ row.email = clients[q.id].email /\ row.verified = clients[q.id].verified
              /\ row.vtoken = clients[q.id].vtoken /\ row.vexpired = clients[q.id].vexpired
          BY <1>1, <4>2 DEF Row, NoToken, Request
        <5> HIDE DEF row
        <5> QED BY <4>2, <5>1, RowUpdates
      <4> HIDE DEF row
      <4>4. Table' = [Table EXCEPT ![q.id] = AsAccount(row)]
        BY <4>1, <4>2, TableStep
      <4> QED BY <3>1, <4>2, <4>3, <4>4 DEF Table
    <3>2. CASE q.id \notin Live
      <4>1. clients' = clients
        BY <1>1, <1>7, <3>2 DEF ResetWrite, UpdatePassword
      <4> QED BY <3>2, <4>1 DEF Table
    <3> QED BY <3>1, <3>2
  <2>2. c.kind = "reset" /\ q.password \in Passwords
    BY <1>1, <1>7 DEF ResetWrite, AsClaim, SlotOK, Request
  <2>3. Promise!Reset(c, q.password)
    BY <1>3, <1>4, <1>5, <2>1, <2>2 DEF Promise!Reset, Table, Claims
  <2> QED BY <1>2, <2>2, <2>3 DEF Promise!Next, Claims
<1> QED BY <1>6, <1>7


(* ForgotPassword finds its row again by address: the link goes to whoever *)
(* has the address by now, and to nobody if nobody has. *)
LEMMA AskStep ==
  ASSUME IInv, NEW r \in Requests, ForgotStore(r) PROVE Promise!Next
<1> DEFINE q == req[r]
<1>1. /\ TypeInv /\ EmptyInv /\ EmailUnique /\ q \in Request /\ SlotOK(q)
      /\ clients \in [ClientId -> Row] /\ req \in [Requests -> Request]
      /\ storedAt \in [Token -> Emails \cup {NoEmail}]
      /\ q.pc = "forgot.store" /\ clients' = SetResetToken(q)
  BY DEF IInv, TypeInv, TypeOK, ForgotStore
<1>2. q.email \in Emails /\ q.token \in Token
  BY <1>1 DEF SlotOK, Request
<1>3. /\ storedAt[q.token] = NoEmail
      /\ \A i \in ClientId : clients[i].rtoken # q.token
  BY <1>1 DEF IInv, TokenInv, PendingInv, Pending, Stored
<1>4. Claims' = Claims
  <2>1. r \notin Acting /\ req' = [req EXCEPT ![r] = [q EXCEPT !.pc = "forgot.mail"]]
    BY <1>1 DEF ForgotStore, Continue, Acting
  <2>2. [q EXCEPT !.pc = "forgot.mail"].pc = "forgot.mail"
    BY <1>1 DEF Request
  <2> QED BY <1>1, <2>1, <2>2, ClaimsStep
<1> DEFINE stored == {i \in Live : clients'[i].rtoken = q.token}
<1>5. storedAt' = [storedAt EXCEPT ![q.token] =
        IF stored = {} THEN NoEmail ELSE clients'[CHOOSE i \in stored : TRUE].email]
  BY DEF ForgotStore
<1>6. stored = {i \in Live : clients[i].email = q.email}
  <2>1. ASSUME NEW i \in Live
        PROVE  clients'[i].rtoken = q.token <=> clients[i].email = q.email
    <3>1. clients[i] \in Row /\ i \in ClientId
      BY <1>1 DEF Live
    <3> QED BY <1>1, <1>3, <3>1 DEF SetResetToken, Row
  <2> QED BY <2>1
<1>7. CASE stored = {}
  <2>1. clients' = clients
    <3>1. \A i \in ClientId : clients[i].email # q.email
      BY <1>2, <1>6, <1>7, AbsentValues DEF Live
    <3> QED BY <1>1, <3>1 DEF SetResetToken
  <2>2. storedAt' = storedAt
    BY <1>1, <1>3, <1>5, <1>7
  <2> QED BY <1>4, <2>1, <2>2, DropStep DEF ForgotStore
<1>8. CASE stored # {}
  <2>1. PICK i : i = CHOOSE j \in stored : TRUE
    OBVIOUS
  <2>2. i \in Live /\ i \in ClientId /\ clients[i].email = q.email /\ clients[i] \in Row
    BY <1>1, <1>6, <1>8, <2>1 DEF Live
  <2> DEFINE row == [clients[i] EXCEPT !.rtoken = q.token, !.rexpired = FALSE]
  <2>3. clients' = [k \in ClientId |-> IF k = i THEN row ELSE clients[k]]
    <3>1. ASSUME NEW k \in ClientId PROVE clients[k].email = q.email <=> k = i
      BY <1>1, <1>2, <2>2, AbsentValues DEF EmailUnique, Live
    <3> QED BY <1>1, <3>1 DEF SetResetToken
  <2>4. Issued' = Issued \cup {q.token}
    <3>1. clients'[i].email = q.email
      BY <2>2, <2>3 DEF Row
    <3>2. storedAt' = [storedAt EXCEPT ![q.token] = q.email]
      BY <1>5, <1>8, <2>1, <3>1
    <3> QED BY <1>1, <1>2, <3>2, AbsentValues DEF Issued
  <2>5. AsAccount(row) = Promise!WithReset(AsAccount(clients[i]), q.token)
    <3>1. /\ row \in Row /\ row.rtoken = q.token /\ ~row.rexpired
          /\ row.email = clients[i].email /\ row.password = clients[i].password
          /\ row.verified = clients[i].verified
          /\ row.vtoken = clients[i].vtoken /\ row.vexpired = clients[i].vexpired
      BY <1>2, <2>2 DEF Row
    <3> HIDE DEF row
    <3> QED BY <2>2, <3>1, RowUpdates
  <2> HIDE DEF row
  <2>6. Table' = [Table EXCEPT ![i] = Promise!WithReset(Table[i], q.token)]
    <3>1. Table' = [Table EXCEPT ![i] = AsAccount(row)]
      BY <2>2, <2>3, TableStep
    <3> QED BY <2>2, <2>5, <3>1 DEF Table
  <2>7. PICK t \in Token : t = q.token
    BY <1>2
  <2>8. i \in Promise!Members
    BY <1>1, <2>2, Members
  <2>9. Promise!AskReset(i, t)
    BY <1>3, <1>4, <2>4, <2>6, <2>7
       DEF Promise!AskReset, Table, Issued, Claims, ForgotStore
  <2> QED BY <2>8, <2>9 DEF Promise!Next
<1> QED BY <1>7, <1>8

LEMMA ChangeStep ==
  ASSUME IInv, NEW r \in Requests, UpdateWrite(r) PROVE Promise!Next
<1> DEFINE q == req[r]
           i == q.id
<1>1. /\ TypeInv /\ EmptyInv /\ q \in Request
      /\ clients \in [ClientId -> Row] /\ req \in [Requests -> Request]
      /\ clients' = Update(q) /\ UNCHANGED <<lastId, storedAt>>
  BY DEF IInv, TypeInv, TypeOK, UpdateWrite
<1>2. Claims' = Claims
  <2>1. r \notin Acting /\ req' = [req EXCEPT ![r] = Idle] /\ Idle.pc = "idle"
    BY DEF UpdateWrite, Finish, Acting, Idle
  <2> QED BY <1>1, <2>1, ClaimsStep
<1>3. CASE i \notin Live
  <2>1. clients' = clients
    BY <1>1, <1>3 DEF Update
  <2> QED BY <1>1, <1>2, <2>1, DropStep
<1>4. CASE i \in Live
  <2> DEFINE e == IF q.email = NoEmail THEN clients[i].email ELSE q.email
             p == IF q.password = NoPassword THEN clients[i].password ELSE q.password
             row == [clients[i] EXCEPT !.email = e, !.password = p]
  <2>1. /\ i \in ClientId /\ clients[i] \in Row
        /\ e \in Emails \cup {NoEmail} /\ p \in Passwords \cup {NoPassword}
    BY <1>1, <1>4 DEF Live, Row, Request
  <2>2. clients' = [k \in ClientId |-> IF k = i THEN row ELSE clients[k]]
    BY <1>1, <1>4 DEF Update
  <2>3. AsAccount(row) = Promise!WithLogin(AsAccount(clients[i]), e, p)
    <3>1. /\ row \in Row /\ row.email = e /\ row.password = p
          /\ row.verified = clients[i].verified
          /\ row.vtoken = clients[i].vtoken /\ row.vexpired = clients[i].vexpired
          /\ row.rtoken = clients[i].rtoken /\ row.rexpired = clients[i].rexpired
      BY <2>1 DEF Row
    <3> HIDE DEF row
    <3> QED BY <2>1, <3>1, RowUpdates
  <2>9. AsAccount(clients[i]).email = clients[i].email
        /\ AsAccount(clients[i]).password = clients[i].password
    BY DEF AsAccount
  <2> HIDE DEF row
  <2>4. Table' = [Table EXCEPT ![i] = AsAccount(row)]
    BY <2>1, <2>2, TableStep
  <2>5. q.email = NoEmail \/ Promise!Free(i, q.email)
    BY <1>1, <1>4, <2>1, Members DEF UpdateWrite
  <2>6. Promise!Change(i, q.email, q.password)
    BY <1>1, <1>2, <2>1, <2>3, <2>4, <2>5, <2>9
       DEF Promise!Change, Table, Claims
  <2>7. i \in Promise!Members /\ q.email \in Emails \cup {NoEmail}
        /\ q.password \in Passwords \cup {NoPassword}
    BY <1>1, <1>4, Members DEF Request
  <2> QED BY <2>6, <2>7 DEF Promise!Next
<1> QED BY <1>3, <1>4

(* The handlers with one statement, and time. *)
LEMMA OneStep ==
  ASSUME IInv, NEW i \in ClientId,
         \/ DeleteEmployer(i)
         \/ \E b \in BOOLEAN : VerifyEmployer(i, b)
         \/ TokenExpires(i)
  PROVE  Promise!Next
<1>1. /\ TypeInv /\ EmptyInv /\ clients \in [ClientId -> Row]
      /\ UNCHANGED <<lastId, storedAt, req>> /\ i \in Live
  BY DEF IInv, TypeInv, TypeOK, DeleteEmployer, VerifyEmployer, TokenExpires
<1>2. /\ i \in Promise!Members /\ clients[i] \in Row
      /\ Claims' = Claims /\ Issued' = Issued
  BY <1>1, Members DEF Claims, Acting, Issued
<1>3. ASSUME NEW row, clients' = [clients EXCEPT ![i] = row]
      PROVE  Table' = [Table EXCEPT ![i] = AsAccount(row)]
  <2>1. clients' = [k \in ClientId |-> IF k = i THEN row ELSE clients[k]]
    BY <1>1, <1>3
  <2> QED BY <2>1, TableStep
<1>4. CASE DeleteEmployer(i)
  <2>1. Table' = [Table EXCEPT ![i] = AsAccount(NoRow)]
    BY <1>3, <1>4 DEF DeleteEmployer
  <2>2. AsAccount(NoRow) = Promise!NoAccount
    BY DEF AsAccount, Lapsed, NoRow, Promise!NoAccount, Promise!Account
  <2>3. Promise!Leave(i)
    BY <1>1, <1>2, <2>1, <2>2 DEF Promise!Leave, Table, Claims
  <2> QED BY <1>2, <2>3 DEF Promise!Next
<1>5. ASSUME NEW b \in BOOLEAN, VerifyEmployer(i, b) PROVE Promise!Next
  <2>1. CASE clients' = [clients EXCEPT ![i] = [@ EXCEPT !.verified = b]]
    <3> DEFINE row == [clients[i] EXCEPT !.verified = b]
    <3>0. Table' = [Table EXCEPT ![i] = AsAccount(row)]
      BY <1>1, <1>3, <2>1
    <3>1. /\ row \in Row
          /\ row.email = clients[i].email /\ row.password = clients[i].password
          /\ row.verified = b
          /\ row.vtoken = clients[i].vtoken /\ row.vexpired = clients[i].vexpired
          /\ row.rtoken = clients[i].rtoken /\ row.rexpired = clients[i].rexpired
      BY <1>2, <1>5 DEF Row, NoToken
    <3> HIDE DEF row
    <3>2. AsAccount(row) = Promise!WithStanding(AsAccount(clients[i]), b)
      BY <1>2, <3>1, RowUpdates
    <3>3. Promise!Decide(i, b)
      BY <1>1, <1>2, <3>0, <3>2 DEF Promise!Decide, Table, Claims
    <3> QED BY <1>2, <3>3 DEF Promise!Next
  <2>2. CASE clients' = [clients EXCEPT ![i] =
               [@ EXCEPT !.verified = b, !.vtoken = NoToken, !.vexpired = FALSE]]
    <3> DEFINE row == [clients[i] EXCEPT !.verified = b, !.vtoken = NoToken, !.vexpired = FALSE]
    <3>0. Table' = [Table EXCEPT ![i] = AsAccount(row)]
      BY <1>1, <1>3, <2>2
    <3>1. /\ row \in Row
          /\ row.email = clients[i].email /\ row.password = clients[i].password
          /\ row.verified = b /\ row.vtoken = NoToken /\ ~row.vexpired
          /\ row.rtoken = clients[i].rtoken /\ row.rexpired = clients[i].rexpired
      BY <1>2, <1>5 DEF Row, NoToken
    <3> HIDE DEF row
    <3>2. AsAccount(row) = Promise!Settled(AsAccount(clients[i]), b)
      BY <1>2, <3>1, RowUpdates
    <3>3. Promise!Decide(i, b)
      BY <1>1, <1>2, <3>0, <3>2 DEF Promise!Decide, Table, Claims
    <3> QED BY <1>2, <3>3 DEF Promise!Next
  <2>3. \/ clients' = [clients EXCEPT ![i] = [@ EXCEPT !.verified = b]]
        \/ clients' = [clients EXCEPT ![i] =
             [@ EXCEPT !.verified = b, !.vtoken = NoToken, !.vexpired = FALSE]]
    BY <1>1, <1>2, <1>5 DEF VerifyEmployer, Row
  <2> QED BY <2>1, <2>2, <2>3
<1>6. CASE TokenExpires(i)
  <2>1. CASE /\ clients[i].vtoken # NoToken
             /\ clients' = [clients EXCEPT ![i] = [@ EXCEPT !.vexpired = TRUE]]
    <3> DEFINE row == [clients[i] EXCEPT !.vexpired = TRUE]
    <3>0. Table' = [Table EXCEPT ![i] = AsAccount(row)]
      BY <1>1, <1>3, <2>1
    <3>1. /\ row \in Row
          /\ row.email = clients[i].email /\ row.password = clients[i].password
          /\ row.verified = clients[i].verified
          /\ row.vtoken = clients[i].vtoken /\ row.vexpired
          /\ row.rtoken = clients[i].rtoken /\ row.rexpired = clients[i].rexpired
      BY <1>2 DEF Row, NoToken
    <3> HIDE DEF row
    <3>2. AsAccount(row) = Promise!WithLapse(AsAccount(clients[i]), "verify")
      BY <1>2, <3>1, RowUpdates
    <3>3. Promise!Lapse(i, "verify")
      BY <1>1, <1>2, <2>1, <3>0, <3>2
         DEF Promise!Lapse, Table, Claims, AsAccount
    <3> QED BY <1>2, <3>3 DEF Promise!Next, Promise!Kind
  <2>2. CASE /\ clients[i].rtoken # NoToken
             /\ clients' = [clients EXCEPT ![i] = [@ EXCEPT !.rexpired = TRUE]]
    <3> DEFINE row == [clients[i] EXCEPT !.rexpired = TRUE]
    <3>0. Table' = [Table EXCEPT ![i] = AsAccount(row)]
      BY <1>1, <1>3, <2>2
    <3>1. /\ row \in Row
          /\ row.email = clients[i].email /\ row.password = clients[i].password
          /\ row.verified = clients[i].verified
          /\ row.vtoken = clients[i].vtoken /\ row.vexpired = clients[i].vexpired
          /\ row.rtoken = clients[i].rtoken /\ row.rexpired
      BY <1>2 DEF Row, NoToken
    <3> HIDE DEF row
    <3>2. AsAccount(row) = Promise!WithLapse(AsAccount(clients[i]), "reset")
      BY <1>2, <3>1, RowUpdates
    <3>3. Promise!Lapse(i, "reset")
      BY <1>1, <1>2, <2>2, <3>0, <3>2
         DEF Promise!Lapse, Table, Claims, AsAccount
    <3> QED BY <1>2, <3>3 DEF Promise!Next, Promise!Kind
  <2> QED BY <1>1, <1>2, <1>6, <2>1, <2>2 DEF TokenExpires, Row
<1> QED BY <1>4, <1>5, <1>6

LEMMA PromiseStep ==
  ASSUME IInv, IInv', [Next]_vars PROVE [Promise!Next]_(Promise!vars)
<1>1. req \in [Requests -> Request]
  BY DEF IInv, TypeInv, TypeOK
<1>2. ASSUME UNCHANGED <<clients, lastId, storedAt>>, NEW r \in Requests, NEW q,
             req' = [req EXCEPT ![r] = q], q.pc \notin {"verify.set", "reset.write"}
      PROVE  Promise!Next
  BY <1>1, <1>2, ClaimsStep, DropStep
<1>3. ASSUME UNCHANGED <<clients, lastId, storedAt>>, NEW r \in Requests, NEW pc,
             NEW i, NEW t, NEW e, NEW p, Begin(r, pc, i, t, e, p),
             pc \notin {"verify.set", "reset.write"}
      PROVE  Promise!Next
  <2> DEFINE q == [pc |-> pc, id |-> i,
                   born |-> IF i = NoId THEN NoId ELSE clients[i].born,
                   token |-> t, email |-> e, password |-> p]
  <2>1. req' = [req EXCEPT ![r] = q] /\ q.pc = pc
    BY <1>3 DEF Begin
  <2> HIDE DEF q
  <2> QED BY <1>2, <1>3, <2>1
<1>4. ASSUME UNCHANGED <<clients, lastId, storedAt>>, NEW r \in Requests, Finish(r)
      PROVE  Promise!Next
  BY <1>2, <1>4 DEF Finish, Idle
<1>5. ASSUME NEW r \in Requests, Arrives(r) PROVE Promise!Next
  <2>1. ASSUME NEW e \in Emails, NEW p \in Passwords,
               SignupLookup(r, e, p) \/ CreateLookup(r, e, p)
        PROVE  Promise!Next
    BY <1>3, <2>1 DEF SignupLookup, CreateLookup
  <2>2. ASSUME NEW e \in Emails, ForgotLookup(r, e) PROVE Promise!Next
    BY <1>3, <2>2 DEF ForgotLookup
  <2>3. ASSUME NEW i \in ClientId, NEW e \in Emails \cup {NoEmail},
               NEW p \in Passwords \cup {NoPassword}, UpdateLookup(r, i, e, p)
        PROVE  Promise!Next
    BY <1>3, <2>3 DEF UpdateLookup
  <2> QED BY <1>5, <2>1, <2>2, <2>3, ClaimStep DEF Arrives
<1>6. ASSUME NEW r \in Requests, Proceeds(r) PROVE Promise!Next
  <2>1. CASE SignupMail(r) \/ ForgotMail(r) \/ Fails(r)
    BY <1>4, <2>1 DEF SignupMail, ForgotMail, Fails
  <2> QED BY <1>6, <2>1, JoinStep, AdmitStep, ActStep, AskStep,
             ChangeStep DEF Proceeds
<1>7. ASSUME NEW i \in ClientId, AtOnce(i) \/ TokenExpires(i) PROVE Promise!Next
  <2>1. ASSUME NEW p \in Passwords, Login(i, p) PROVE Promise!Next
    <3>1. UNCHANGED <<clients, lastId, storedAt, req>>
      BY <2>1 DEF Login
    <3>2. Claims' = Claims
      BY <3>1 DEF Claims, Acting
    <3> QED BY <3>1, <3>2, DropStep
  <2> QED BY <1>7, <2>1, OneStep DEF AtOnce
<1>8. CASE Crash
  <2>1. Acting' = {}
    BY <1>8 DEF Crash, Acting, Idle
  <2>2. Claims' \subseteq Claims
    BY <2>1 DEF Claims
  <2> QED BY <1>8, <2>2, DropStep DEF Crash
<1>9. CASE UNCHANGED vars
  BY <1>9 DEF vars, Promise!vars, Acting
<1> QED BY <1>5, <1>6, <1>7, <1>8, <1>9 DEF Next

(* The handlers implement Memberships, for any number of requests,         *)
(* accounts, addresses and tokens: looking first and writing later is as   *)
(* good as one step (company.go, verify.go, admin.go).                     *)
THEOREM Refines == Spec => KeepsPromise
BY PromiseInit, PromiseStep, Inductive, PTL DEF Spec, KeepsPromise, Promise!Spec

=============================================================================
