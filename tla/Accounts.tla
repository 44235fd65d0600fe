------------------------------ MODULE Accounts ------------------------------
(***************************************************************************)
(* The employer accounts of the job board: the CLIENTS table and the       *)
(* handlers that register, verify, reset, administer and remove accounts   *)
(* (internal/handlers/{company,verify,admin}.go over                       *)
(* internal/repository/company.go).                                        *)
(*                                                                         *)
(* The HTTP server runs each request on a goroutine of its own and no      *)
(* handler holds a transaction across its statements, so the statements of *)
(* concurrent requests interleave.  A handler is therefore split where it  *)
(* calls the database or the mail service: an action runs one statement    *)
(* and the pure code after it, and what the handler captured (an id, an    *)
(* address, a token) waits in its request slot for the next one.  A        *)
(* handler that returns early without writing changes nothing modelled     *)
(* here: it is a stuttering step and has no action.                        *)
(***************************************************************************)
EXTENDS Integers, FiniteSets

CONSTANTS
  Emails,      \* normalised addresses
  NoEmail,     \* an absent address
  Passwords,   \* passwords that pass ValidatePassword
  NoPassword,  \* an absent password
  Requests,    \* slots for requests in flight at once
  MaxClients,  \* bound: INSERTs into CLIENTS
  MaxTokens,   \* bound: calls of generateTokenHex
  MaxSessions  \* bound: JWTs watched at once

ASSUME AbsentValues ==
  /\ NoEmail \notin Emails
  /\ NoPassword \notin Passwords
ASSUME Bounds ==
  /\ MaxClients \in Nat
  /\ MaxTokens \in Nat
  /\ MaxSessions \in Nat

ClientId == 1 .. MaxClients
NoId     == 0
Token    == 1 .. MaxTokens
NoToken  == 0

(***************************************************************************)
(* A row of CLIENTS, without the columns of the company profile.  c_email  *)
(* is NOT NULL, so an id whose address is absent has no row.  born is a    *)
(* history field: which INSERT made the row, so that two accounts that got *)
(* the same id would still differ.                                         *)
(***************************************************************************)
Row == [email    : Emails \cup {NoEmail},
        password : Passwords \cup {NoPassword},
        verified : BOOLEAN,
        vtoken   : Token \cup {NoToken},
        vexpired : BOOLEAN,
        rtoken   : Token \cup {NoToken},
        rexpired : BOOLEAN,
        born     : ClientId \cup {NoId}]

NoRow == [email |-> NoEmail, password |-> NoPassword, verified |-> FALSE,
          vtoken |-> NoToken, vexpired |-> FALSE,
          rtoken |-> NoToken, rexpired |-> FALSE, born |-> NoId]

(***************************************************************************)
(* What a handler in flight has captured.  pc names the statement it runs  *)
(* next; born is a history field beside id.                                *)
(***************************************************************************)
Pc == {"idle", "signup.insert", "signup.mail", "create.insert",
       "verify.set", "forgot.store", "forgot.mail", "reset.write",
       "update.write"}

Request == [pc       : Pc,
            id       : ClientId \cup {NoId},
            born     : ClientId \cup {NoId},
            token    : Token \cup {NoToken},
            email    : Emails \cup {NoEmail},
            password : Passwords \cup {NoPassword}]

Idle == [pc |-> "idle", id |-> NoId, born |-> NoId, token |-> NoToken,
         email |-> NoEmail, password |-> NoPassword]

Mail    == [to : Emails, token : Token]
Session == [id : ClientId, born : ClientId]

VARIABLES
  clients,    \* the CLIENTS table
  lastId,     \* its row of sqlite_sequence: the largest id ever given
  births,     \* history: how many INSERTs succeeded
  lastToken,  \* tokens drawn so far: a fresh random token is the next one
  mail,       \* mails delivered; a recipient may use one at any time, twice
  sessions,   \* client JWTs issued, those past their 72 h included
  req,        \* the requests in flight
  storedAt,   \* history: address of the row a token was stored in
  spent       \* history: tokens a verification or reset finished with

vars == <<clients, lastId, births, lastToken, mail, sessions, req,
          storedAt, spent>>

Live == {i \in ClientId : clients[i].email # NoEmail}

Init ==
  /\ clients = [i \in ClientId |-> NoRow]
  /\ lastId = 0
  /\ births = 0
  /\ lastToken = 0
  /\ mail = {}
  /\ sessions = {}
  /\ req = [r \in Requests |-> Idle]
  /\ storedAt = [t \in Token |-> NoEmail]
  /\ spent = {}

-----------------------------------------------------------------------------
(***************************************************************************)
(* Plausible mistakes in the statements below, for the mutation runs: each *)
(* stands in for the operator its name begins with.  Next uses none.       *)
(***************************************************************************)

(* c_email without UNIQUE *)
EmailFree_NoUnique(i, e) == TRUE

(* INTEGER PRIMARY KEY without AUTOINCREMENT: one above the largest rowid *)
NextId_NoAutoincrement ==
  CHOOSE n \in 1 .. MaxClients + 1 :
    /\ \A i \in Live : i < n
    /\ n = 1 \/ n - 1 \in Live

(* SetResetToken without its WHERE *)
SetResetToken_EveryRow(q) ==
  [i \in ClientId |->
     IF i \in Live
     THEN [clients[i] EXCEPT !.rtoken = q.token, !.rexpired = FALSE]
     ELSE clients[i]]

(* UpdatePassword that does not clear reset_token_hash *)
UpdatePassword_KeepToken(q) ==
  [i \in ClientId |->
     IF i = q.id /\ i \in Live
     THEN [clients[i] EXCEPT !.password = q.password]
     ELSE clients[i]]

(* Update as INSERT OR REPLACE *)
Update_Upsert(q) ==
  [i \in ClientId |->
     IF i = q.id
     THEN [clients[i] EXCEPT
             !.email = IF q.email = NoEmail THEN @ ELSE q.email,
             !.password = IF q.password = NoPassword THEN @ ELSE q.password]
     ELSE clients[i]]

-----------------------------------------------------------------------------
(***************************************************************************)
(* The statements of ClientRepo.  q is the request that runs one.          *)
(***************************************************************************)

Registered(e) == \E i \in Live : clients[i].email = e

(* c_email UNIQUE, for a statement that writes address e into row i *)
EmailFree(i, e) == \A j \in Live \ {i} : clients[j].email # e

(* AUTOINCREMENT: an id is never given twice, even after a DELETE *)
NextId == lastId + 1

NewRow(q, isVerified) ==
  [email |-> q.email, password |-> q.password, verified |-> isVerified,
   vtoken |-> q.token, vexpired |-> FALSE,
   rtoken |-> NoToken, rexpired |-> FALSE, born |-> births + 1]

(* Create and CreateByAdmin; the latter has drawn no token *)
Insert(q, isVerified) ==
  /\ births < MaxClients
  /\ EmailFree(NextId, q.email)
  /\ clients' = [clients EXCEPT ![NextId] = NewRow(q, isVerified)]
  /\ lastId' = NextId
  /\ births' = births + 1

SetVerified(q) ==
  [i \in ClientId |->
     IF i = q.id /\ i \in Live
     THEN [clients[i] EXCEPT !.verified = TRUE, !.vtoken = NoToken,
                              !.vexpired = FALSE]
     ELSE clients[i]]

SetResetToken(q) ==
  [i \in ClientId |->
     IF clients[i].email = q.email
     THEN [clients[i] EXCEPT !.rtoken = q.token, !.rexpired = FALSE]
     ELSE clients[i]]

UpdatePassword(q) ==
  [i \in ClientId |->
     IF i = q.id /\ i \in Live
     THEN [clients[i] EXCEPT !.password = q.password, !.rtoken = NoToken,
                              !.rexpired = FALSE]
     ELSE clients[i]]

(* only the columns the caller supplied *)
Update(q) ==
  [i \in ClientId |->
     IF i = q.id /\ i \in Live
     THEN [clients[i] EXCEPT
             !.email = IF q.email = NoEmail THEN @ ELSE q.email,
             !.password = IF q.password = NoPassword THEN @ ELSE q.password]
     ELSE clients[i]]

-----------------------------------------------------------------------------
(***************************************************************************)
(* The life of a request slot.                                             *)
(***************************************************************************)

Begin(r, pc, id, token, email, password) ==
  /\ req[r] = Idle
  /\ req' = [req EXCEPT ![r] =
       [pc |-> pc, id |-> id,
        born |-> IF id = NoId THEN NoId ELSE clients[id].born,
        token |-> token, email |-> email, password |-> password]]

Continue(r, pc) == req' = [req EXCEPT ![r].pc = pc]

Finish(r) == req' = [req EXCEPT ![r] = Idle]

(* generateTokenHex: 32 random bytes, so never one drawn before *)
DrawToken ==
  /\ lastToken < MaxTokens
  /\ lastToken' = lastToken + 1

FreshToken == lastToken + 1

(* Sender.Send with its error discarded: the mail arrives or it is lost *)
SendMail(q) ==
  \/ mail' = mail \cup {[to |-> q.email, token |-> q.token]}
  \/ UNCHANGED mail

Received(t) == \E m \in mail : m.token = t

-----------------------------------------------------------------------------
(***************************************************************************)
(* CompanyHandler.Signup                                                   *)
(***************************************************************************)

(* The lookup's error is ignored, so a lookup that fails goes on as if the *)
(* address were free: the step has no guard on Registered.                 *)
SignupLookup(r, e, p) ==
  /\ DrawToken
  /\ Begin(r, "signup.insert", NoId, FreshToken, e, p)
  /\ UNCHANGED <<clients, lastId, births, mail, sessions, storedAt,
                 spent>>

SignupInsert(r) ==
  /\ req[r].pc = "signup.insert"
  /\ Insert(req[r], FALSE)
  /\ storedAt' = [storedAt EXCEPT ![req[r].token] = req[r].email]
  /\ Continue(r, "signup.mail")
  /\ UNCHANGED <<lastToken, mail, sessions, spent>>

SignupMail(r) ==
  /\ req[r].pc = "signup.mail"
  /\ SendMail(req[r])
  /\ Finish(r)
  /\ UNCHANGED <<clients, lastId, births, lastToken, sessions,
                 storedAt, spent>>

(***************************************************************************)
(* AdminHandler.CreateEmployer: verified from the start, no mail.  It      *)
(* ignores the lookup's error too.                                         *)
(***************************************************************************)

CreateLookup(r, e, p) ==
  /\ Begin(r, "create.insert", NoId, NoToken, e, p)
  /\ UNCHANGED <<clients, lastId, births, lastToken, mail, sessions,
                 storedAt, spent>>

CreateInsert(r) ==
  /\ req[r].pc = "create.insert"
  /\ Insert(req[r], TRUE)
  /\ Finish(r)
  /\ UNCHANGED <<lastToken, mail, sessions, storedAt, spent>>

(***************************************************************************)
(* VerifyHandler.VerifyEmail                                               *)
(***************************************************************************)

(* a mistake, for the mutation runs: the expiry is not looked at *)
VerifyLookup_NoExpiry(r, t, i) ==
  /\ Received(t)
  /\ i \in Live
  /\ clients[i].vtoken = t
  /\ Begin(r, "verify.set", i, t, NoEmail, NoPassword)
  /\ UNCHANGED <<clients, lastId, births, lastToken, mail, sessions,
                 storedAt, spent>>

VerifyLookup(r, t, i) ==
  /\ Received(t)
  /\ i \in Live
  /\ clients[i].vtoken = t
  /\ ~clients[i].vexpired
  /\ Begin(r, "verify.set", i, t, NoEmail, NoPassword)
  /\ UNCHANGED <<clients, lastId, births, lastToken, mail, sessions,
                 storedAt, spent>>

(* the handler reports success even when the row is gone *)
VerifySet(r) ==
  /\ req[r].pc = "verify.set"
  /\ clients' = SetVerified(req[r])
  /\ spent' = spent \cup {req[r].token}
  /\ Finish(r)
  /\ UNCHANGED <<lastId, births, lastToken, mail, sessions,
                 storedAt>>

(***************************************************************************)
(* VerifyHandler.ForgotPassword                                            *)
(***************************************************************************)

ForgotLookup(r, e) ==
  /\ Registered(e)
  /\ DrawToken
  /\ Begin(r, "forgot.store", NoId, FreshToken, e, NoPassword)
  /\ UNCHANGED <<clients, lastId, births, mail, sessions, storedAt,
                 spent>>

(* The row is found again by address, not by the id the lookup returned: by
   now that address may belong to nobody or to another account. *)
ForgotStore(r) ==
  /\ req[r].pc = "forgot.store"
  /\ clients' = SetResetToken(req[r])
  /\ storedAt' = [storedAt EXCEPT ![req[r].token] =
       LET stored == {i \in Live : clients'[i].rtoken = req[r].token}
       IN IF stored = {} THEN NoEmail
          ELSE clients'[CHOOSE i \in stored : TRUE].email]
  /\ Continue(r, "forgot.mail")
  /\ UNCHANGED <<lastId, births, lastToken, mail, sessions, spent>>

ForgotMail(r) ==
  /\ req[r].pc = "forgot.mail"
  /\ SendMail(req[r])
  /\ Finish(r)
  /\ UNCHANGED <<clients, lastId, births, lastToken, sessions,
                 storedAt, spent>>

(***************************************************************************)
(* VerifyHandler.ResetPassword                                             *)
(***************************************************************************)

ResetLookup(r, t, i, p) ==
  /\ Received(t)
  /\ i \in Live
  /\ clients[i].rtoken = t
  /\ ~clients[i].rexpired
  /\ Begin(r, "reset.write", i, t, NoEmail, p)
  /\ UNCHANGED <<clients, lastId, births, lastToken, mail, sessions,
                 storedAt, spent>>

(* by id and unconditional: the token is not looked at again *)
ResetWrite(r) ==
  /\ req[r].pc = "reset.write"
  /\ clients' = UpdatePassword(req[r])
  /\ spent' = spent \cup {req[r].token}
  /\ Finish(r)
  /\ UNCHANGED <<lastId, births, lastToken, mail, sessions,
                 storedAt>>

(***************************************************************************)
(* AdminHandler.UpdateEmployer, as far as it reaches c_email and           *)
(* c_password; either may be absent.                                       *)
(***************************************************************************)

UpdateLookup(r, i, e, p) ==
  /\ i \in Live
  /\ e # NoEmail \/ p # NoPassword
  /\ Begin(r, "update.write", i, NoToken, e, p)
  /\ UNCHANGED <<clients, lastId, births, lastToken, mail, sessions,
                 storedAt, spent>>

UpdateWrite(r) ==
  /\ req[r].pc = "update.write"
  /\ \/ req[r].id \notin Live
     \/ req[r].email = NoEmail
     \/ EmailFree(req[r].id, req[r].email)
  /\ clients' = Update(req[r])
  /\ Finish(r)
  /\ UNCHANGED <<lastId, births, lastToken, mail, sessions,
                 storedAt, spent>>

(***************************************************************************)
(* Handlers with one statement.                                            *)
(***************************************************************************)

(* CompanyHandler.Login *)
Login(i, p) ==
  /\ i \in Live
  /\ clients[i].verified
  /\ clients[i].password = p
  /\ Cardinality(sessions) < MaxSessions
  /\ sessions' = sessions \cup {[id |-> i, born |-> clients[i].born]}
  /\ UNCHANGED <<clients, lastId, births, lastToken, mail, req,
                 storedAt, spent>>

(* AdminHandler.DeleteEmployer: Delete is a transaction *)
DeleteEmployer(i) ==
  /\ i \in Live
  /\ clients' = [clients EXCEPT ![i] = NoRow]
  /\ UNCHANGED <<lastId, births, lastToken, mail, sessions, req,
                 storedAt, spent>>

(* AdminHandler.VerifyEmployer calls ClientRepo.Verify, which the repository
   does not contain: it sets verified, and may or may not clear the token. *)
VerifyEmployer(i, isVerified) ==
  /\ i \in Live
  /\ \/ clients' = [clients EXCEPT ![i].verified = isVerified]
     \/ clients' = [clients EXCEPT ![i].verified = isVerified,
                                   ![i].vtoken = NoToken,
                                   ![i].vexpired = FALSE]
  /\ UNCHANGED <<lastId, births, lastToken, mail, sessions, req,
                 storedAt, spent>>

-----------------------------------------------------------------------------
(***************************************************************************)
(* Time, failures and crashes.                                             *)
(***************************************************************************)

(* verify_token_expiry (24 h) or reset_token_expiry (1 h) passes *)
TokenExpires(i) ==
  /\ i \in Live
  /\ \/ /\ clients[i].vtoken # NoToken
        /\ clients' = [clients EXCEPT ![i].vexpired = TRUE]
     \/ /\ clients[i].rtoken # NoToken
        /\ clients' = [clients EXCEPT ![i].rexpired = TRUE]
  /\ UNCHANGED <<lastId, births, lastToken, mail, sessions, req, storedAt,
                 spent>>

(* The next statement of r fails (UNIQUE, SQLITE_BUSY, I/O), or bcrypt before
   it does: the handler answers 500 and leaves what it wrote before. *)
Fails(r) ==
  /\ req[r].pc \in {"signup.insert", "create.insert", "verify.set",
                    "forgot.store", "reset.write", "update.write"}
  /\ Finish(r)
  /\ UNCHANGED <<clients, lastId, births, lastToken, mail, sessions,
                 storedAt, spent>>

(* The process dies, or shutdown gives up on its requests: the committed
   rows, the mails and the JWTs survive, the requests do not. *)
Crash ==
  /\ \E r \in Requests : req[r] # Idle
  /\ req' = [r \in Requests |-> Idle]
  /\ UNCHANGED <<clients, lastId, births, lastToken, mail, sessions,
                 storedAt, spent>>

-----------------------------------------------------------------------------
Arrives(r) ==
  \/ \E e \in Emails, p \in Passwords :
       \/ SignupLookup(r, e, p)
       \/ CreateLookup(r, e, p)
  \/ \E e \in Emails : ForgotLookup(r, e)
  \/ \E t \in Token, i \in ClientId :
       \/ VerifyLookup(r, t, i)
       \/ \E p \in Passwords : ResetLookup(r, t, i, p)
  \/ \E i \in ClientId, e \in Emails \cup {NoEmail},
        p \in Passwords \cup {NoPassword} : UpdateLookup(r, i, e, p)

Proceeds(r) ==
  \/ SignupInsert(r)
  \/ SignupMail(r)
  \/ CreateInsert(r)
  \/ VerifySet(r)
  \/ ForgotStore(r)
  \/ ForgotMail(r)
  \/ ResetWrite(r)
  \/ UpdateWrite(r)
  \/ Fails(r)

AtOnce(i) ==
  \/ \E p \in Passwords : Login(i, p)
  \/ DeleteEmployer(i)
  \/ \E b \in BOOLEAN : VerifyEmployer(i, b)

Next ==
  \/ \E r \in Requests : Arrives(r) \/ Proceeds(r)
  \/ \E i \in ClientId : AtOnce(i) \/ TokenExpires(i)
  \/ Crash

Spec == Init /\ [][Next]_vars

-----------------------------------------------------------------------------
(***************************************************************************)
(* Correctness.                                                            *)
(***************************************************************************)

Complete(row) == row.password # NoPassword /\ row.born # NoId

(* Every variable has its type, and a row that exists is complete: no      *)
(* statement leaves an account without a password (NOT NULL).              *)
TypeOK ==
  /\ clients \in [ClientId -> Row]
  /\ \A i \in Live : Complete(clients[i])
  /\ lastId \in 0 .. MaxClients
  /\ births \in 0 .. MaxClients
  /\ lastToken \in 0 .. MaxTokens
  /\ mail \subseteq Mail
  /\ sessions \subseteq Session
  /\ req \in [Requests -> Request]
  /\ storedAt \in [Token -> Emails \cup {NoEmail}]
  /\ spent \subseteq Token

(* No two accounts share an address, although Signup, CreateEmployer and   *)
(* UpdateEmployer each check first and write later, and two of them ignore *)
(* the error of the check.                                                 *)
EmailUnique ==
  \A i, j \in Live : clients[i].email = clients[j].email => i = j

(* An id outlives its row: JWTs carry it for 72 hours and handlers carry   *)
(* it across statements.  Whatever id they hold still names the account it *)
(* was read from, or no account at all, never one created later.           *)
HandleIdentity ==
  /\ \A s \in sessions :
       s.id \in Live => clients[s.id].born = s.born
  /\ \A r \in Requests :
       req[r].id \in Live => clients[req[r].id].born = req[r].born

(* Once VerifyEmail or ResetPassword has reported success, the token it    *)
(* was given opens nothing any more: it is in no column of any row,        *)
(* whatever was in flight beside it, and it never comes back.              *)
SpentTokenGone ==
  \A i \in Live, t \in spent : t \notin {clients[i].vtoken, clients[i].rtoken}

(* A token is mailed to the address of the account it was stored for, even *)
(* when an admin changes the address, or deletes the account and somebody  *)
(* registers it again, between ForgotPassword's lookup and its write.      *)
MailMatchesStore ==
  \A m \in mail : storedAt[m.token] \in {NoEmail, m.to}

(* A deleted account stays deleted: a write that was in flight when the    *)
(* row went, or an INSERT that comes later, never brings its id back.      *)
DeletedStaysDeleted ==
  [][\A i \in ClientId : i \notin Live /\ i <= lastId => i \notin Live']_vars

(***************************************************************************)
(* The accounts as Memberships describes them: the table without its       *)
(* history field, and the links that a handler has found good and is about *)
(* to act on.                                                              *)
(***************************************************************************)
Lapsed(row) ==
  {k \in {"verify", "reset"} :
     IF k = "verify" THEN row.vexpired ELSE row.rexpired}

AsAccount(row) ==
  [email |-> row.email, password |-> row.password, verified |-> row.verified,
   verify |-> row.vtoken, reset |-> row.rtoken, lapsed |-> Lapsed(row)]

Acting == {r \in Requests : req[r].pc \in {"verify.set", "reset.write"}}

AsClaim(q) ==
  [of |-> q.id, token |-> q.token,
   kind |-> IF q.pc = "verify.set" THEN "verify" ELSE "reset"]

Promise ==
  INSTANCE Memberships WITH
    AccountId <- ClientId,
    accounts <- [i \in ClientId |-> AsAccount(clients[i])],
    given <- 1 .. lastId,
    issued <- {t \in Token : storedAt[t] # NoEmail},
    claims <- {AsClaim(req[r]) : r \in Acting}

(* The handlers look first and write later, and others write in between;   *)
(* all the same every change of an account is one that Memberships allows: *)
(* in particular a password changes by an admin's hand or for a link that  *)
(* was good when it was opened and was made for that account, and a link   *)
(* that was used, replaced or cleared never works again.                   *)
KeepsPromise == Promise!Spec

(***************************************************************************)
(* Claims of the program's replies, which the code does not keep.          *)
(***************************************************************************)

(* "Password reset successfully. You can now log in." (verify.go): after a *)
(* reset that found its account, Login does not refuse it as unverified.   *)
ResetEnablesLogin ==
  [][\A r \in Requests :
       ResetWrite(r) /\ req[r].id \in Live => clients'[req[r].id].verified]_vars

-----------------------------------------------------------------------------
(***************************************************************************)
(* The inductive invariant, in the parts the proofs establish in turn.     *)
(***************************************************************************)

(* what a request slot holds when its handler is about to run pc *)
SlotOK(q) ==
  /\ q.pc = "idle" => q = Idle
  /\ q.pc \in {"signup.insert", "create.insert", "reset.write"}
       => q.password # NoPassword
  /\ q.pc \in {"signup.insert", "signup.mail", "create.insert", "forgot.store",
               "forgot.mail"} => q.email # NoEmail /\ q.id = NoId
  /\ q.pc \in {"signup.insert", "signup.mail", "verify.set", "forgot.store",
               "forgot.mail", "reset.write"} => q.token # NoToken
  /\ q.pc \in {"create.insert", "update.write"} => q.token = NoToken

TypeInv ==
  /\ TypeOK
  /\ births = lastId
  /\ \A r \in Requests : SlotOK(req[r])

(* an id without a row holds nothing *)
EmptyInv == \A i \in ClientId \ Live : clients[i] = NoRow

(* born is the id itself, wherever the pair is kept *)
IdInv ==
  /\ \A i \in Live : clients[i].born = i /\ i <= lastId
  /\ \A s \in sessions : s.born = s.id
  /\ \A r \in Requests : req[r].born = req[r].id

Stored(t) == \E i \in ClientId : t \in {clients[i].vtoken, clients[i].rtoken}

(* drawn by a handler that has yet to store it *)
Pending(r) == req[r].pc \in {"signup.insert", "forgot.store"}

(* nothing beyond the last token drawn is in use *)
DrawnInv ==
  /\ \A i \in ClientId : clients[i].vtoken <= lastToken
                        /\ clients[i].rtoken <= lastToken
  /\ \A r \in Requests : req[r].token <= lastToken
  /\ \A t \in spent : t <= lastToken
  /\ \A m \in mail : m.token <= lastToken
  /\ \A t \in Token : storedAt[t] # NoEmail => t <= lastToken

(* a token that is still pending is known to its handler alone *)
PendingInv ==
  \A r \in Requests : Pending(r) =>
    /\ ~Stored(req[r].token)
    /\ req[r].token \notin spent
    /\ storedAt[req[r].token] = NoEmail
    /\ \A m \in mail : m.token # req[r].token
    /\ \A r2 \in Requests \ {r} : req[r2].token # req[r].token

(* a stored token is in one column of one row *)
ColumnInv ==
  \A i, j \in ClientId :
    /\ clients[i].vtoken # NoToken => clients[i].vtoken # clients[j].rtoken
    /\ i # j /\ clients[i].vtoken # NoToken
         => clients[i].vtoken # clients[j].vtoken
    /\ i # j /\ clients[i].rtoken # NoToken
         => clients[i].rtoken # clients[j].rtoken

(* a handler that found a token can only find it in the row it captured *)
FoundInv ==
  \A r \in Requests, i \in ClientId :
    /\ req[r].pc = "verify.set" =>
         /\ clients[i].rtoken # req[r].token
         /\ clients[i].vtoken = req[r].token => i = req[r].id
    /\ req[r].pc = "reset.write" =>
         /\ clients[i].vtoken # req[r].token
         /\ clients[i].rtoken = req[r].token => i = req[r].id

(* a handler about to mail a token stored it at the address it will use *)
MailingInv ==
  \A r \in Requests :
    req[r].pc \in {"signup.mail", "forgot.mail"}
      => storedAt[req[r].token] \in {NoEmail, req[r].email}

SpentInv == \A t \in spent : ~Stored(t)

TokenInv ==
  /\ DrawnInv
  /\ PendingInv
  /\ ColumnInv
  /\ FoundInv
  /\ MailingInv
  /\ SpentInv
  /\ MailMatchesStore

IInv ==
  /\ TypeInv
  /\ EmptyInv
  /\ IdInv
  /\ EmailUnique
  /\ TokenInv
=============================================================================
