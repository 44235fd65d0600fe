---------------------------- MODULE Memberships ----------------------------
(***************************************************************************)
(* What the employer accounts promise to the people behind them: every     *)
(* change is one step, whatever statements of other handlers run between   *)
(* a handler's own; an id, once given, means that account for ever; an     *)
(* address belongs to one account; a link in a mail belongs to one account *)
(* and one purpose, is made once, and may be claimed while it is open; and *)
(* a password changes by an admin's hand or for a claim on that very       *)
(* account.  Accounts is shown to implement this.                          *)
(***************************************************************************)
CONSTANTS
  AccountId,   \* ids of accounts
  Emails,      \* addresses
  NoEmail,     \* an absent address
  Passwords,   \* passwords
  NoPassword,  \* an absent password
  Token,       \* what makes a link unguessable
  NoToken      \* an absent one

VARIABLES
  accounts,  \* what there is under each id
  given,     \* the ids ever given
  issued,    \* the tokens ever put into a link
  claims     \* links that were opened and wait to be acted on

vars == <<accounts, given, issued, claims>>

Kind == {"verify", "reset"}

(* An account, with its two links and the kinds of those that lapsed. *)
Account(email, password, verified, verify, reset, lapsed) ==
  [email |-> email, password |-> password, verified |-> verified,
   verify |-> verify, reset |-> reset, lapsed |-> lapsed]

NoAccount == Account(NoEmail, NoPassword, FALSE, NoToken, NoToken, {})

WithReset(a, t) ==
  Account(a.email, a.password, a.verified, a.verify, t, a.lapsed \ {"reset"})

WithLapse(a, k) ==
  Account(a.email, a.password, a.verified, a.verify, a.reset, a.lapsed \cup {k})

WithPassword(a, p) ==
  Account(a.email, p, a.verified, a.verify, NoToken, a.lapsed \ {"reset"})

WithStanding(a, b) ==
  Account(a.email, a.password, b, a.verify, a.reset, a.lapsed)

Settled(a, b) ==
  Account(a.email, a.password, b, NoToken, a.reset, a.lapsed \ {"verify"})

WithLogin(a, e, p) ==
  Account(e, p, a.verified, a.verify, a.reset, a.lapsed)

Members == {i \in AccountId : accounts[i] # NoAccount}

Free(i, e) == \A j \in Members \ {i} : accounts[j].email # e

Init ==
  /\ accounts = [i \in AccountId |-> NoAccount]
  /\ given = {}
  /\ issued = {}
  /\ claims = {}

(* A new account, with a link to verify its address. *)
Join(i, e, p, t) ==
  /\ i \notin given
  /\ t \notin issued
  /\ Free(i, e)
  /\ accounts' = [accounts EXCEPT ![i] = Account(e, p, FALSE, t, NoToken, {})]
  /\ given' = given \cup {i}
  /\ issued' = issued \cup {t}
  /\ UNCHANGED claims

(* A new account that an admin vouches for. *)
Admit(i, e, p) ==
  /\ i \notin given
  /\ Free(i, e)
  /\ accounts' = [accounts EXCEPT ![i] = Account(e, p, TRUE, NoToken, NoToken, {})]
  /\ given' = given \cup {i}
  /\ UNCHANGED <<issued, claims>>

(* A link to choose a new password; an earlier one stops working. *)
AskReset(i, t) ==
  /\ UNCHANGED <<given, claims>>
  /\ t \notin issued
  /\ accounts' = [accounts EXCEPT ![i] = WithReset(@, t)]
  /\ issued' = issued \cup {t}

Lapse(i, k) ==
  /\ UNCHANGED <<given, issued, claims>>
  /\ accounts[i][k] # NoToken
  /\ accounts' = [accounts EXCEPT ![i] = WithLapse(@, k)]

(* A link is opened while it is good. *)
Claim(i, k) ==
  /\ UNCHANGED <<accounts, given, issued>>
  /\ accounts[i][k] # NoToken
  /\ k \notin accounts[i].lapsed
  /\ claims' = claims \cup {[of |-> i, kind |-> k,
                             token |-> accounts[i][k]]}

(* A claim may be dropped, or be there twice and outlive its first use. *)
Drop ==
  /\ claims' \subseteq claims
  /\ UNCHANGED <<accounts, given, issued>>

(* Acting on a claim closes the link; if the account is gone, nothing comes
   of it. *)
Confirm(c) ==
  /\ claims' \subseteq claims
  /\ UNCHANGED <<given, issued>>
  /\ c.kind = "verify"
  /\ accounts' = IF c.of \in Members
                 THEN [accounts EXCEPT ![c.of] = Settled(@, TRUE)]
                 ELSE accounts
  /\ \A i \in AccountId, k \in Kind : accounts'[i][k] # c.token

Reset(c, p) ==
  /\ claims' \subseteq claims
  /\ UNCHANGED <<given, issued>>
  /\ c.kind = "reset"
  /\ accounts' = IF c.of \in Members
                 THEN [accounts EXCEPT ![c.of] = WithPassword(@, p)]
                 ELSE accounts
  /\ \A i \in AccountId, k \in Kind : accounts'[i][k] # c.token

(* An admin changes the address, the password or both. *)
Change(i, e, p) ==
  /\ UNCHANGED <<given, issued, claims>>
  /\ e = NoEmail \/ Free(i, e)
  /\ accounts' = [accounts EXCEPT ![i] =
       WithLogin(@, IF e = NoEmail THEN @.email ELSE e,
                    IF p = NoPassword THEN @.password ELSE p)]

(* An admin verifies an account or takes that back; its link may go. *)
Decide(i, isVerified) ==
  /\ UNCHANGED <<given, issued, claims>>
  /\ \/ accounts' = [accounts EXCEPT ![i] = WithStanding(@, isVerified)]
     \/ accounts' = [accounts EXCEPT ![i] = Settled(@, isVerified)]

Leave(i) ==
  /\ UNCHANGED <<given, issued, claims>>
  /\ accounts' = [accounts EXCEPT ![i] = NoAccount]

Next ==
  \/ Drop
  \/ \E c \in claims : Confirm(c) \/ \E p \in Passwords : Reset(c, p)
  \/ \E i \in Members :
       \/ \E k \in Kind : Claim(i, k) \/ Lapse(i, k)
       \/ Leave(i)
       \/ \E isVerified \in BOOLEAN : Decide(i, isVerified)
       \/ \E e \in Emails \cup {NoEmail}, p \in Passwords \cup {NoPassword} :
            Change(i, e, p)
       \/ \E t \in Token : AskReset(i, t)
  \/ \E i \in AccountId, e \in Emails, p \in Passwords :
       Admit(i, e, p) \/ \E t \in Token : Join(i, e, p, t)

Spec == Init /\ [][Next]_vars
=============================================================================
