--------------------------- MODULE Sessions_proofs ---------------------------
(***************************************************************************)
(* Theorems of Sessions.  The invariant IInv is shown inductive in three   *)
(* layers: the types; the accounts and the clock, which touch no request   *)
(* and no browser; the requests and their answers.                         *)
(***************************************************************************)
EXTENDS Sessions, TLAPS

USE DEF Who, Csrf, NoCsrf, Role, NoRole, Route, Act

-----------------------------------------------------------------------------
(* Types. *)

LEMMA IdleType == Idle \in Slot
  BY Tables DEF Idle, Slot, NoToken

LEMMA NoTokenIsNoJWT == NoToken \notin JWT
  BY Tables DEF NoToken, JWT

LEMMA InitType == Init => TypeOK
  BY IdleType, Quantities DEF Init, TypeOK, EmptyJar, Jar, NoToken

LEMMA TokenCookieType ==
  ASSUME TypeOK, NEW b \in Browsers
  PROVE  /\ TokenCookie(b) \in JWT \cup {NoToken}
         /\ CsrfCookie(b) \in Csrf \cup {NoCsrf}
  BY DEF TypeOK, TokenCookie, CsrfCookie, Jar

LEMMA RoleType ==
  ASSUME IInv, NEW w \in Who, standing[w] # "absent"
  PROVE  RoleOf(w) \in Role
  BY Tables DEF IInv, TypeOK, TokenInv, RoleOf

(* what a login in flight and an answer carry *)
LEMMA LookedShape ==
  ASSUME IInv, NEW r \in Requests, req[r].phase = "looked"
  PROVE  /\ req[r].token \in JWT
         /\ req[r].who \in Who
         /\ req[r].token.who = req[r].who
         /\ req[r].browser \in Browsers
         /\ req[r].csrf = NoCsrf
  <1>1. req[r] \in Slot /\ Holds(req[r])
    BY DEF IInv, TypeOK, ReqInv
  <1>2. req[r].token \in JWT
    BY <1>1 DEF Holds, Slot
  <1> QED
    BY <1>1, <1>2 DEF Holds, JWT

LEMMA AnswerShape ==
  ASSUME IInv, NEW r \in Requests, req[r].phase = "answered"
  PROVE  /\ req[r].browser \in Browsers
         /\ req[r].kind = "login" => req[r].token \in JWT
         /\ req[r].kind \in {"login", "csrf"} => req[r].csrf \in Csrf
         /\ req[r].kind = "logout" => req[r].csrf = NoCsrf
  <1>1. req[r] \in Slot /\ Holds(req[r])
    BY DEF IInv, TypeOK, ReqInv
  <1> QED
    BY <1>1 DEF Holds, Slot

(* the one slot an action writes, as a whole record *)
LEMMA IssuedSlot ==
  ASSUME IInv, NEW r \in Requests, LoginIssue(r)
  PROVE  /\ drawn + 1 \in Csrf
         /\ req' = [req EXCEPT ![r] =
              [req[r] EXCEPT !.phase = "answered", !.csrf = drawn + 1,
                 !.token = [who |-> req[r].who, role |-> req[r].token.role,
                            exp |-> now + TokenLife]]]
         /\ req'[r] \in Slot
  <1>1. req \in [Requests -> Slot] /\ req[r] \in Slot /\ now \in Nat
        /\ drawn \in 0 .. MaxDrawn
    BY DEF IInv, TypeOK
  <1>2. req[r].token \in JWT /\ req[r].token.who = req[r].who
    BY LookedShape DEF LoginIssue
  <1>3. drawn + 1 \in Csrf
    BY <1>1, Quantities DEF LoginIssue, DrawCsrf
  <1>4. [req[r].token EXCEPT !.exp = now + TokenLife]
         = [who |-> req[r].who, role |-> req[r].token.role,
            exp |-> now + TokenLife]
    BY <1>2 DEF JWT
  <1>5. req' = [req EXCEPT ![r] =
              [req[r] EXCEPT !.phase = "answered", !.csrf = drawn + 1,
                 !.token = [req[r].token EXCEPT !.exp = now + TokenLife]]]
    BY <1>1, <1>2 DEF LoginIssue, Slot, JWT
  <1>6. [who |-> req[r].who, role |-> req[r].token.role,
         exp |-> now + TokenLife] \in JWT
    BY <1>1, <1>2, Quantities DEF JWT
  <1> QED
    BY <1>1, <1>3, <1>4, <1>5, <1>6 DEF Slot

LEMMA NextType ==
  ASSUME IInv, [Next]_vars
  PROVE  TypeOK'
<1> USE Quantities, Tables DEF accounts, client
<1> TypeOK
  BY DEF IInv
<1> SUFFICES ASSUME Next PROVE TypeOK'
  BY DEF vars, TypeOK
<1>1. ASSUME NEW w \in Employers, NEW as \in {"unverified", "verified"},
             AddEmployer(w, as)
      PROVE  TypeOK'
  BY <1>1 DEF AddEmployer, TypeOK
<1>2. ASSUME NEW w \in Employers, Verify(w) PROVE TypeOK'
  BY <1>2 DEF Verify, TypeOK
<1>3. ASSUME NEW w \in Employers, NEW to \in {"unverified", "deleted"},
             LoseStanding(w, to)
      PROVE  TypeOK'
  BY <1>3 DEF LoseStanding, TypeOK
<1>4. ASSUME NEW w \in Admins, NEW as \in {"moderator", "super_admin"},
             AddAdmin(w, as)
      PROVE  TypeOK'
  BY <1>4 DEF AddAdmin, TypeOK
<1>5. ASSUME NEW r \in Requests, NEW b \in Browsers, NEW w \in Who,
             LoginLookup(r, b, w)
      PROVE  TypeOK'
  <2>1. RoleOf(w) \in Role
    BY <1>5, RoleType DEF LoginLookup, MayLogIn
  <2>2. [who |-> w, role |-> RoleOf(w), exp |-> 0] \in JWT
    BY <2>1 DEF JWT
  <2>3. req'[r] \in Slot
    BY <1>5, <2>2 DEF LoginLookup, TypeOK, Slot, Idle, NoToken
  <2> QED
    BY <1>5, <2>3 DEF LoginLookup, TypeOK
<1>6. ASSUME NEW r \in Requests, NEW b \in Browsers, FetchCsrf(r, b)
      PROVE  TypeOK'
  <2>1. req'[r] \in Slot /\ drawn + 1 \in Csrf
    <3>1. drawn + 1 \in Csrf
      BY <1>6 DEF FetchCsrf, DrawCsrf, TypeOK
    <3>2. req'[r] = [Idle EXCEPT !.phase = "answered", !.kind = "csrf",
                                 !.browser = b, !.csrf = drawn + 1]
      BY <1>6 DEF FetchCsrf, TypeOK
    <3> QED
      BY <3>1, <3>2, IdleType DEF Slot
  <2> QED
    BY <1>6, <2>1 DEF FetchCsrf, DrawCsrf, TypeOK
<1>7. ASSUME NEW r \in Requests, NEW b \in Browsers,
             NEW header \in seen[b] \cup {NoCsrf},
             NEW bearer \in held \cup {NoToken},
             Send(r, b, header, bearer)
      PROVE  TypeOK'
  BY <1>7, IdleType, TokenCookieType DEF Send, TypeOK, Slot, Idle
<1>8. ASSUME NEW r \in Requests, LoginIssue(r) PROVE TypeOK'
  <2>1. drawn + 1 \in Csrf /\ req' \in [Requests -> Slot]
    BY <1>8, IssuedSlot DEF TypeOK
  <2>2. req[r].who \in Who
    BY <1>8, LookedShape DEF LoginIssue
  <2>3. loginOf' \in [Csrf -> Who \cup {NoOne}] /\ drawn' \in 0 .. MaxDrawn
    BY <1>8, <2>1, <2>2 DEF LoginIssue, DrawCsrf, TypeOK
  <2> QED
    BY <1>8, <2>1, <2>3 DEF LoginIssue, TypeOK
<1>9. ASSUME NEW r \in Requests,
             LoginRefused(r) \/ Answer(r) \/ LoseAnswer(r)
      PROVE  TypeOK'
  BY <1>9, IdleType DEF LoginRefused, Answer, LoseAnswer, TypeOK
<1>10. ASSUME NEW r \in Requests, Logout(r) PROVE TypeOK'
  BY <1>10, IdleType DEF Logout, TypeOK, Slot, Idle
<1>11. ASSUME NEW r \in Requests, DeliverLogin(r) PROVE TypeOK'
  <2> DEFINE q == req[r]
  <2>1. q.browser \in Browsers /\ q.token \in JWT /\ q.csrf \in Csrf
    BY <1>11, AnswerShape DEF DeliverLogin
  <2>2. SetAuthCookie(jar[q.browser], q) \in Jar
    BY <2>1 DEF SetAuthCookie, Jar, TypeOK
  <2> QED
    BY <1>11, <2>1, <2>2, IdleType DEF DeliverLogin, TypeOK
<1>12. ASSUME NEW r \in Requests, DeliverCsrf(r) PROVE TypeOK'
  <2> DEFINE q == req[r]
  <2>1. q.browser \in Browsers /\ q.csrf \in Csrf
    BY <1>12, AnswerShape DEF DeliverCsrf
  <2>2. jar[q.browser] \in Jar /\ now \in Nat
    BY <2>1 DEF TypeOK
  <2>3. SetCSRFCookie(jar[q.browser], q) \in Jar
    <3>1. now + CsrfLife \in Nat
      BY <2>2
    <3> HIDE DEF q
    <3> QED
      BY <2>1, <2>2, <3>1 DEF SetCSRFCookie, Jar
  <2> QED
    BY <1>12, <2>1, <2>3, IdleType DEF DeliverCsrf, TypeOK
<1>13. ASSUME NEW r \in Requests, DeliverLogout(r) PROVE TypeOK'
  <2> DEFINE q == req[r]
  <2>1. q.browser \in Browsers
    BY <1>13, AnswerShape DEF DeliverLogout
  <2>2. jar[q.browser] \in Jar
    BY <2>1 DEF TypeOK
  <2>3. ClearAuthCookie(jar[q.browser]) \in Jar
    BY <2>2 DEF ClearAuthCookie, Jar
  <2> QED
    BY <1>13, <2>1, <2>3, IdleType DEF DeliverLogout, TypeOK
<1>14. CASE Tick
  BY <1>14 DEF Tick, TypeOK
<1> QED
  BY <1>1, <1>2, <1>3, <1>4, <1>5, <1>6, <1>7, <1>8, <1>9, <1>10, <1>11,
     <1>12, <1>13, <1>14 DEF Next

-----------------------------------------------------------------------------
(***************************************************************************)
(* The accounts and the clock.                                             *)
(***************************************************************************)

LEMMA InitInv == Init => IInv
<1> SUFFICES ASSUME Init PROVE IInv
  OBVIOUS
<1> USE DEF Init
<1>1. TypeOK
  BY InitType
<1>2. TokenInv
  BY Tables DEF TokenInv, Fine, EmptyJar, Idle
<1>3. ReqInv
  BY DEF ReqInv, Holds, Idle
<1>4. ValueInv
  BY DEF ValueInv, Idle
<1>5. PairInv
  BY DEF PairInv, Paired, EmptyJar, Idle
<1>6. JarInv
  BY DEF JarInv, EmptyJar
<1> QED
  BY <1>1, <1>2, <1>3, <1>4, <1>5, <1>6 DEF IInv

(* what an account loses of its standing it keeps in lastGood *)
Monotone ==
  /\ \A w \in Who : lastGood'[w] <= now'
  /\ \A w \in Admins : standing'[w] # "absent" => role'[w] # NoRole
  /\ \A w \in Who : standing[w] # "absent" =>
       /\ standing'[w] # "absent"
       /\ RoleOf(w)' = RoleOf(w)
       /\ GoodUntil(w) <= GoodUntil(w)'
  /\ now <= now'

LEMMA AccountsMonotone ==
  ASSUME IInv, TypeOK',
         \/ \E w \in Employers :
              \/ \E as \in {"unverified", "verified"} : AddEmployer(w, as)
              \/ Verify(w)
              \/ \E to \in {"unverified", "deleted"} : LoseStanding(w, to)
         \/ \E w \in Admins, as \in {"moderator", "super_admin"} :
              AddAdmin(w, as)
  PROVE  Monotone
<1> TypeOK /\ TokenInv
  BY DEF IInv
<1> USE Tables DEF Monotone, RoleOf, GoodUntil, MayLogIn, TypeOK, TokenInv
<1>1. ASSUME NEW w \in Employers, NEW as \in {"unverified", "verified"},
             AddEmployer(w, as)
      PROVE  Monotone
  <2>1. /\ w \in Who /\ standing[w] = "absent" /\ now' = now /\ lastGood' = lastGood
        /\ \A x \in Who \ {w} : standing'[x] = standing[x]
        /\ \A x \in Admins \ {w} : role'[x] = role[x]
        /\ w \in Admins => role'[w] # NoRole
    BY <1>1 DEF AddEmployer
  <2>2. \A x \in Who : lastGood'[x] <= now'
    BY <2>1
  <2>3. \A x \in Admins : standing'[x] # "absent" => role'[x] # NoRole
    BY <2>1
  <2>4. ASSUME NEW x \in Who, standing[x] # "absent"
        PROVE  /\ standing'[x] # "absent"
               /\ RoleOf(x)' = RoleOf(x)
               /\ GoodUntil(x) <= GoodUntil(x)'
    <3>1. x # w /\ standing'[x] = standing[x]
      BY <2>1, <2>4
    <3>2. RoleOf(x)' = RoleOf(x)
      BY <2>1, <3>1
    <3>3. GoodUntil(x)' = GoodUntil(x) /\ GoodUntil(x) \in Nat
      BY <2>1, <3>1
    <3> QED
      BY <2>4, <3>1, <3>2, <3>3
  <2> QED
    BY <2>1, <2>2, <2>3, <2>4
<1>2. ASSUME NEW w \in Employers, Verify(w) PROVE Monotone
  BY <1>2 DEF Verify
<1>3. ASSUME NEW w \in Employers, NEW to \in {"unverified", "deleted"},
             LoseStanding(w, to)
      PROVE  Monotone
  BY <1>3 DEF LoseStanding
<1>4. ASSUME NEW w \in Admins, NEW as \in {"moderator", "super_admin"},
             AddAdmin(w, as)
      PROVE  Monotone
  <2>1. /\ w \in Who /\ standing[w] = "absent" /\ now' = now /\ lastGood' = lastGood
        /\ \A x \in Who \ {w} : standing'[x] = standing[x]
        /\ \A x \in Admins \ {w} : role'[x] = role[x]
        /\ w \in Admins => role'[w] # NoRole
    <3>1. /\ w \in Who /\ standing[w] = "absent"
          /\ standing' = [standing EXCEPT ![w] = "verified"]
          /\ role' = [role EXCEPT ![w] = as]
          /\ now' = now /\ lastGood' = lastGood
      BY <1>4 DEF AddAdmin, Who
    <3>2. as # NoRole
      BY DEF NoRole
    <3>3. /\ standing \in [Who -> {"absent", "unverified", "verified", "deleted"}]
          /\ role \in [Admins -> (Role \ {"client"}) \cup {NoRole}]
      BY DEF TypeOK
    <3> QED
      BY <3>1, <3>2, <3>3
  <2>2. \A x \in Who : lastGood'[x] <= now'
    BY <2>1
  <2>3. \A x \in Admins : standing'[x] # "absent" => role'[x] # NoRole
    BY <2>1
  <2>4. ASSUME NEW x \in Who, standing[x] # "absent"
        PROVE  /\ standing'[x] # "absent"
               /\ RoleOf(x)' = RoleOf(x)
               /\ GoodUntil(x) <= GoodUntil(x)'
    <3>1. x # w /\ standing'[x] = standing[x]
      BY <2>1, <2>4
    <3>2. RoleOf(x)' = RoleOf(x)
      BY <2>1, <3>1
    <3>3. GoodUntil(x)' = GoodUntil(x) /\ GoodUntil(x) \in Nat
      BY <2>1, <3>1
    <3> QED
      BY <2>4, <3>1, <3>2, <3>3
  <2> QED
    BY <2>1, <2>2, <2>3, <2>4
<1> HIDE DEF Monotone
<1> QED
  BY <1>1, <1>2, <1>3, <1>4

LEMMA TickMonotone ==
  ASSUME IInv, TypeOK', Tick
  PROVE  Monotone
  BY DEF IInv, Tick, Monotone, TypeOK, TokenInv, RoleOf, GoodUntil, MayLogIn,
         accounts

LEMMA FineStays ==
  ASSUME TypeOK, TypeOK', Monotone, NEW t \in JWT \cup {NoToken}, Fine(t)
  PROVE  Fine(t)'
<1>1. CASE t = NoToken
  BY <1>1 DEF Fine
<1>2. CASE t # NoToken
  <2>1. t.who \in Who /\ t.exp \in Nat
    BY <1>2 DEF JWT
  <2>2. GoodUntil(t.who) \in Nat /\ GoodUntil(t.who)' \in Nat
        /\ now \in Nat /\ now' \in Nat
    BY <2>1 DEF GoodUntil, TypeOK
  <2> QED
    BY <1>2, <2>1, <2>2, Quantities DEF Fine, Monotone
<1> QED
  BY <1>1, <1>2

(* A step of the accounts or the clock keeps the invariant. *)
LEMMA QuietStep ==
  ASSUME IInv, TypeOK', Monotone,
         UNCHANGED <<jar, seen, held, arrived, req, drawn, loginOf>>,
         \A r \in Requests :
           req[r].phase = "looked" => now' <= req[r].since + MaxDelay
  PROVE  IInv'
<1> TypeOK
  BY DEF IInv
<1>1. TokenInv'
  <2>1. \A t \in held : t \in JWT \cup {NoToken} /\ Fine(t)
    BY DEF IInv, TypeOK, TokenInv
  <2>2. \A b \in Browsers :
          jar[b].token \in JWT \cup {NoToken} /\ Fine(jar[b].token)
    BY DEF IInv, TypeOK, TokenInv, Jar
  <2>3. \A r \in Requests :
          /\ req[r].token \in JWT \cup {NoToken} /\ Fine(req[r].token)
          /\ req[r].bearer \in JWT \cup {NoToken} /\ Fine(req[r].bearer)
    BY DEF IInv, TypeOK, TokenInv, Slot
  <2>4. \A t \in JWT \cup {NoToken} : Fine(t) => Fine(t)'
    BY FineStays
  <2>5. /\ \A t \in held' : Fine(t)'
        /\ \A b \in Browsers : Fine(jar[b].token)'
        /\ \A r \in Requests : Fine(req[r].token)' /\ Fine(req[r].bearer)'
    BY <2>1, <2>2, <2>3, <2>4 DEF Fine, RoleOf, GoodUntil, MayLogIn
  <2> QED
    BY <2>5 DEF TokenInv, Monotone
<1>2. ReqInv'
  <2> SUFFICES ASSUME NEW r \in Requests PROVE Holds(req[r])'
    BY DEF ReqInv
  <2>1. Holds(req[r]) /\ req[r] \in Slot /\ now \in Nat /\ now' \in Nat
    BY DEF IInv, ReqInv, TypeOK
  <2>2. CASE req[r].phase = "looked"
    <3>1. req[r].who \in Who /\ standing[req[r].who] # "absent"
      BY <2>2, LookedShape DEF IInv, TokenInv, Fine, Holds, ReqInv
    <3>2. GoodUntil(req[r].who) <= GoodUntil(req[r].who)'
      BY <3>1 DEF Monotone
    <3>3. GoodUntil(req[r].who) \in Nat /\ GoodUntil(req[r].who)' \in Nat
      BY <3>1 DEF GoodUntil, TypeOK
    <3>4. req[r].since <= GoodUntil(req[r].who)'
      BY <2>1, <2>2, <3>2, <3>3 DEF Holds, Slot
    <3> QED
      BY <2>1, <2>2, <3>4 DEF Holds, GoodUntil, MayLogIn
  <2>3. CASE req[r].phase # "looked"
    BY <2>1, <2>3 DEF Holds, Monotone, Slot
  <2> QED
    BY <2>2, <2>3
<1>3. ValueInv'
  BY DEF IInv, ValueInv
<1>4. PairInv'
  BY DEF IInv, PairInv, Paired
<1>5. JarInv'
  <2> SUFFICES ASSUME NEW b \in Browsers, jar[b].csrf # NoCsrf
               PROVE  arrived[jar[b].csrf] <= now'
    BY DEF IInv, JarInv
  <2>1. arrived[jar[b].csrf] \in Nat /\ now \in Nat /\ now' \in Nat
    BY DEF TypeOK, Jar
  <2> QED
    BY <2>1 DEF IInv, JarInv, Monotone
<1> QED
  BY <1>1, <1>2, <1>3, <1>4, <1>5 DEF IInv

-----------------------------------------------------------------------------
(***************************************************************************)
(* The requests: a step that writes one slot, and may draw a value.        *)
(***************************************************************************)

(* q is what slot r becomes *)
NewSlot(r, q) ==
  /\ q \in Slot
  /\ req' = [req EXCEPT ![r] = q]
  /\ UNCHANGED <<now, standing, role, lastGood, jar, seen, held, arrived>>
  /\ drawn <= drawn'
  /\ \A v \in Csrf : v <= drawn => loginOf'[v] = loginOf[v]
  /\ \A v \in Csrf : v > drawn' => loginOf'[v] = NoOne
  /\ Fine(q.token) /\ Fine(q.bearer)
  /\ Holds(q)
  /\ q.csrf <= drawn'
  /\ q.phase = "answered" /\ q.csrf # NoCsrf => q.csrf > drawn
  /\ q.csrf # NoCsrf /\ q.token # NoToken =>
       loginOf'[q.csrf] \in {NoOne, q.token.who}
  /\ q.phase = "answered" /\ q.kind = "login"
       => loginOf'[q.csrf] = q.token.who
  /\ q.phase = "answered" /\ q.kind = "csrf" => loginOf'[q.csrf] = NoOne

LEMMA SlotStep ==
  ASSUME IInv, TypeOK', NEW r \in Requests, NEW q, NewSlot(r, q)
  PROVE  IInv'
<1> TypeOK /\ drawn \in Nat /\ drawn' \in Nat
  BY Quantities DEF IInv, TypeOK
<1> USE DEF NewSlot
<1>0. /\ req'[r] = q
      /\ \A s \in Requests \ {r} : req'[s] = req[s]
  BY DEF TypeOK
<1>1. TokenInv'
  <2>1. \A t : Fine(t)' <=> Fine(t)
    BY DEF Fine, RoleOf, GoodUntil, MayLogIn
  <2>2. \A s \in Requests : Fine(req'[s].token) /\ Fine(req'[s].bearer)
    BY <1>0 DEF IInv, TokenInv
  <2>3. \A s \in Requests : Fine(req[s].token)' /\ Fine(req[s].bearer)'
    BY <2>2 DEF Fine, RoleOf, GoodUntil, MayLogIn
  <2>4. \A t \in held' : Fine(t)'
    BY <2>1 DEF IInv, TokenInv
  <2>5. \A b \in Browsers : Fine(jar[b].token)'
    BY DEF IInv, TokenInv, Fine, RoleOf, GoodUntil, MayLogIn
  <2> QED
    BY <2>3, <2>4, <2>5 DEF IInv, TokenInv
<1>2. ReqInv'
  <2> SUFFICES ASSUME NEW s \in Requests PROVE Holds(req[s])'
    BY DEF ReqInv
  <2>1. Holds(req'[s])
    BY <1>0 DEF IInv, ReqInv
  <2> QED
    BY <2>1 DEF Holds, GoodUntil, MayLogIn
<1>3. ValueInv'
  <2>1. \A b \in Browsers : \A v \in seen[b] : v <= drawn'
    BY DEF IInv, ValueInv, TypeOK
  <2>2. \A s \in Requests : req'[s].csrf <= drawn'
    <3> SUFFICES ASSUME NEW s \in Requests PROVE req'[s].csrf <= drawn'
      OBVIOUS
    <3>1. req[s].csrf \in Nat /\ req[s].csrf <= drawn
      BY DEF IInv, ValueInv, TypeOK, Slot
    <3> QED
      BY <1>0, <3>1
  <2>3. ASSUME NEW s \in Requests, req'[s].phase = "answered"
        PROVE  /\ \A b \in Browsers : req'[s].csrf \notin seen[b]
               /\ \A u \in Requests \ {s} :
                    req'[u].phase = "answered" /\ req'[u].csrf # NoCsrf
                      => req'[u].csrf # req'[s].csrf
    <3>1. \A b \in Browsers : \A v \in seen[b] : v \in Nat /\ v > 0 /\ v <= drawn
      BY DEF IInv, ValueInv, TypeOK
    <3>2. \A u \in Requests : req[u].csrf \in Nat /\ req[u].csrf <= drawn
      BY DEF IInv, ValueInv, TypeOK, Slot
    <3>3. q.csrf \in Nat
      BY DEF Slot
    <3>4. CASE s = r
      BY <1>0, <2>3, <3>1, <3>2, <3>3, <3>4
    <3>5. CASE s # r
      <4>1. req'[s] = req[s]
        BY <1>0, <3>5
      <4>2. \A b \in Browsers : req[s].csrf \notin seen[b]
        BY <2>3, <4>1 DEF IInv, ValueInv
      <4>3. ASSUME NEW u \in Requests \ {s}, req'[u].phase = "answered",
                   req'[u].csrf # NoCsrf
            PROVE  req'[u].csrf # req'[s].csrf
        <5>1. CASE u = r
          BY <1>0, <3>2, <3>3, <4>1, <4>3, <5>1
        <5>2. CASE u # r
          BY <1>0, <2>3, <4>1, <4>3, <5>2 DEF IInv, ValueInv
        <5> QED
          BY <5>1, <5>2
      <4> QED
        BY <4>1, <4>2, <4>3
    <3> QED
      BY <3>4, <3>5
  <2> QED
    BY <2>1, <2>2, <2>3 DEF ValueInv
<1>4. PairInv'
  <2>1. ASSUME NEW b \in Browsers PROVE Paired(jar[b].token, jar[b].csrf)'
    <3>1. jar[b].csrf # NoCsrf => jar[b].csrf \in Csrf /\ jar[b].csrf <= drawn
      BY DEF IInv, JarInv, ValueInv, TypeOK, Jar
    <3>2. Paired(jar[b].token, jar[b].csrf)
      BY DEF IInv, PairInv
    <3> QED
      BY <3>1, <3>2 DEF Paired
  <2>2. ASSUME NEW s \in Requests
        PROVE  /\ req'[s].csrf # NoCsrf /\ req'[s].token # NoToken =>
                    loginOf'[req'[s].csrf] \in {NoOne, req'[s].token.who}
               /\ req'[s].phase = "answered" /\ req'[s].kind = "login"
                    => loginOf'[req'[s].csrf] = req'[s].token.who
               /\ req'[s].phase = "answered" /\ req'[s].kind = "csrf"
                    => loginOf'[req'[s].csrf] = NoOne
    <3>1. CASE s = r
      BY <1>0, <3>1
    <3>2. CASE s # r
      <4>1. req'[s] = req[s]
        BY <1>0, <3>2
      <4>2. req[s].csrf # NoCsrf => req[s].csrf \in Csrf /\ req[s].csrf <= drawn
        BY DEF IInv, ValueInv, TypeOK, Slot
      <4>3. req[s].csrf # NoCsrf => loginOf'[req[s].csrf] = loginOf[req[s].csrf]
        BY <4>2
      <4>4. req[s].phase = "answered" /\ req[s].kind \in {"login", "csrf"}
              => req[s].csrf # NoCsrf
        BY DEF IInv, ReqInv, Holds
      <4> QED
        BY <4>1, <4>3, <4>4 DEF IInv, PairInv, Paired
    <3> QED
      BY <3>1, <3>2
  <2> QED
    BY <2>1, <2>2 DEF PairInv, Paired
<1>5. JarInv'
  BY DEF IInv, JarInv
<1> QED
  BY <1>1, <1>2, <1>3, <1>4, <1>5 DEF IInv

(* Idle is always in order, and so is an answer without cookies *)
LEMMA EndSlot ==
  ASSUME IInv, NEW r \in Requests, NEW q,
         \/ q = Idle
         \/ /\ req[r].browser \in Browsers
            /\ q = [Idle EXCEPT !.phase = "answered", !.kind = "logout",
                                !.browser = req[r].browser],
         req' = [req EXCEPT ![r] = q],
         UNCHANGED <<now, drawn, loginOf>>,
         UNCHANGED accounts, UNCHANGED client
  PROVE  NewSlot(r, q)
<1>0. drawn \in Nat /\ (\A v \in Csrf : v > drawn => loginOf[v] = NoOne)
  BY Quantities DEF IInv, TypeOK, ValueInv
<1>1. CASE q = Idle
  <2>1. q \in Slot
    BY <1>1, IdleType
  <2>2. /\ q.phase = "idle" /\ q.csrf = NoCsrf /\ q.token = NoToken
        /\ q.bearer = NoToken
    BY <1>1 DEF Idle
  <2> QED
    BY <1>1, <2>1, <1>0, <2>2 DEF NewSlot, Holds, Fine, accounts, client
<1>2. CASE /\ req[r].browser \in Browsers
           /\ q = [Idle EXCEPT !.phase = "answered", !.kind = "logout",
                               !.browser = req[r].browser]
  <2>1. q \in Slot
    BY <1>2, IdleType DEF Slot
  <2>2. /\ q.phase = "answered" /\ q.kind = "logout" /\ q.csrf = NoCsrf
        /\ q.token = NoToken /\ q.bearer = NoToken /\ q.browser \in Browsers
    BY <1>2 DEF Idle
  <2> QED
    BY <2>1, <1>0, <2>2 DEF NewSlot, Holds, Fine, accounts, client
<1> QED
  BY <1>1, <1>2

LEMMA LoginLookupInv ==
  ASSUME IInv, TypeOK', NEW r \in Requests, NEW b \in Browsers, NEW w \in Who,
         LoginLookup(r, b, w)
  PROVE  IInv'
<1> DEFINE t == [who |-> w, role |-> RoleOf(w), exp |-> 0]
<1> DEFINE q == [Idle EXCEPT !.phase = "looked", !.kind = "login",
                   !.browser = b, !.who = w, !.since = now, !.token = t]
<1>1. /\ req' = [req EXCEPT ![r] = q]
      /\ UNCHANGED <<now, drawn, loginOf>>
      /\ UNCHANGED accounts /\ UNCHANGED client
      /\ MayLogIn(w)
  BY DEF LoginLookup
<1>2. now \in Nat /\ drawn \in Nat /\ TypeOK
      /\ (\A v \in Csrf : v > drawn => loginOf[v] = NoOne)
  <2>1. TypeOK
    BY DEF IInv
  <2>2. now \in Nat /\ drawn \in 0 .. MaxDrawn
    BY <2>1 DEF TypeOK
  <2>3. \A v \in Csrf : v > drawn => loginOf[v] = NoOne
    BY DEF IInv, ValueInv
  <2> QED
    BY <2>1, <2>2, <2>3
<1>3. t \in JWT
  BY <1>1, RoleType DEF MayLogIn, JWT
<1>4. t # NoToken
  BY <1>3, NoTokenIsNoJWT
<1>5. GoodUntil(w) = now /\ standing[w] # "absent"
  BY <1>1 DEF GoodUntil, MayLogIn
<1>6. Fine(t)
  BY <1>2, <1>5, Quantities DEF Fine
<1> HIDE DEF t
<1>7. /\ q.phase = "looked" /\ q.kind = "login" /\ q.browser = b /\ q.who = w
      /\ q.since = now /\ q.token = t /\ q.bearer = NoToken /\ q.csrf = NoCsrf
  BY DEF Idle
<1>8. q \in Slot
  BY <1>2, <1>3, IdleType DEF Slot
<1>9. t.who = w
  BY DEF t
<1> HIDE DEF q
<1>10. Holds(q)
  BY <1>2, <1>4, <1>5, <1>7, <1>9, Quantities DEF Holds
<1>11. Fine(q.token) /\ Fine(q.bearer)
  BY <1>6, <1>7 DEF Fine
<1>12. NewSlot(r, q)
  BY <1>1, <1>2, <1>7, <1>8, <1>10, <1>11 DEF NewSlot, accounts, client
<1> QED
  BY <1>12, SlotStep

LEMMA LoginIssueInv ==
  ASSUME IInv, TypeOK', NEW r \in Requests, LoginIssue(r)
  PROVE  IInv'
<1> DEFINE t == [who |-> req[r].who, role |-> req[r].token.role,
                 exp |-> now + TokenLife]
<1> DEFINE q == [req[r] EXCEPT !.phase = "answered", !.csrf = drawn + 1,
                               !.token = t]
<1>1. /\ req' = [req EXCEPT ![r] = q] /\ req'[r] \in Slot
      /\ drawn + 1 \in Csrf /\ drawn' = drawn + 1
      /\ loginOf' = [loginOf EXCEPT ![drawn + 1] = req[r].who]
      /\ UNCHANGED now /\ UNCHANGED accounts /\ UNCHANGED client
  BY IssuedSlot DEF LoginIssue, DrawCsrf
<1>2. /\ TypeOK /\ req[r] \in Slot /\ Holds(req[r]) /\ Fine(req[r].token)
      /\ Fine(req[r].bearer) /\ req[r].phase = "looked" /\ drawn \in Nat
      /\ now \in Nat
      /\ (\A v \in Csrf : v > drawn => loginOf[v] = NoOne)
  <2>1. TypeOK /\ Holds(req[r])
    BY DEF IInv, ReqInv
  <2>2. Fine(req[r].token) /\ Fine(req[r].bearer)
    BY DEF IInv, TokenInv
  <2>3. \A v \in Csrf : v > drawn => loginOf[v] = NoOne
    BY DEF IInv, ValueInv
  <2>4. req[r] \in Slot /\ now \in Nat /\ drawn \in 0 .. MaxDrawn
    BY <2>1 DEF TypeOK
  <2>5. drawn \in Nat
    BY <2>4
  <2>6. req[r].phase = "looked"
    BY DEF LoginIssue
  <2> QED
    BY <2>1, <2>2, <2>3, <2>4, <2>5, <2>6
<1>3. /\ req[r].token \in JWT /\ req[r].who \in Who
      /\ req[r].token.who = req[r].who /\ req[r].browser \in Browsers
  BY <1>2, LookedShape
<1>4. t \in JWT /\ t # NoToken
  BY <1>2, <1>3, Quantities, NoTokenIsNoJWT DEF JWT
<1>5. GoodUntil(req[r].who) \in Nat
  BY <1>2, <1>3 DEF GoodUntil, TypeOK
<1>6. Fine(t)
  <2>1. /\ standing[req[r].who] # "absent"
        /\ req[r].token.role = RoleOf(req[r].who)
    BY <1>2, <1>3, NoTokenIsNoJWT DEF Fine
  <2>2. now <= GoodUntil(req[r].who) + MaxDelay
    BY <1>2, <1>5, Quantities DEF Holds, Slot
  <2> QED
    BY <1>2, <1>5, <2>1, <2>2, Quantities DEF Fine
<1>7. /\ q.phase = "answered" /\ q.kind = "login" /\ q.token = t
      /\ q.csrf = drawn + 1 /\ q.browser = req[r].browser
      /\ q.bearer = req[r].bearer /\ t.who = req[r].who
  BY <1>2 DEF Slot, Holds
<1>8. q \in Slot
  BY <1>1, <1>2 DEF TypeOK
<1> HIDE DEF q, t
<1>9. Holds(q)
  BY <1>1, <1>2, <1>3, <1>4, <1>7 DEF Holds
<1>10. /\ loginOf'[drawn + 1] = t.who
       /\ \A v \in Csrf : v <= drawn => loginOf'[v] = loginOf[v]
       /\ \A v \in Csrf : v > drawn' => loginOf'[v] = NoOne
  <2>1. \A v \in Csrf : v \in Int
    BY DEF Csrf
  <2>2. /\ loginOf'[drawn + 1] = req[r].who
        /\ \A v \in Csrf \ {drawn + 1} : loginOf'[v] = loginOf[v]
    BY <1>1, <1>2 DEF TypeOK
  <2>3. \A v \in Csrf : v <= drawn \/ v > drawn + 1 => v # drawn + 1
    BY <1>2, <2>1
  <2>4. \A v \in Csrf : v > drawn + 1 => v > drawn
    BY <1>2, <2>1
  <2> QED
    BY <1>1, <1>2, <1>7, <2>2, <2>3, <2>4
<1>11. NewSlot(r, q)
  BY <1>1, <1>2, <1>6, <1>7, <1>8, <1>9, <1>10 DEF NewSlot, accounts, client
<1> QED
  BY <1>11, SlotStep

LEMMA FetchCsrfInv ==
  ASSUME IInv, TypeOK', NEW r \in Requests, NEW b \in Browsers, FetchCsrf(r, b)
  PROVE  IInv'
<1> DEFINE q == [Idle EXCEPT !.phase = "answered", !.kind = "csrf",
                             !.browser = b, !.csrf = drawn + 1]
<1>1. /\ req' = [req EXCEPT ![r] = q] /\ drawn < MaxDrawn
      /\ drawn' = drawn + 1
      /\ UNCHANGED <<now, loginOf>> /\ UNCHANGED accounts /\ UNCHANGED client
  BY DEF FetchCsrf, DrawCsrf
<1>2. drawn \in Nat /\ (\A v \in Csrf : v > drawn => loginOf[v] = NoOne)
  BY Quantities DEF IInv, TypeOK, ValueInv
<1>3. drawn + 1 \in Csrf
  BY <1>1, <1>2, Quantities
<1>4. /\ q.phase = "answered" /\ q.kind = "csrf" /\ q.token = NoToken
      /\ q.csrf = drawn + 1 /\ q.browser = b /\ q.bearer = NoToken
  BY DEF Idle
<1>5. q \in Slot
  BY <1>3, IdleType DEF Slot
<1> HIDE DEF q
<1>6. Holds(q) /\ Fine(q.token) /\ Fine(q.bearer)
  BY <1>2, <1>4 DEF Holds, Fine
<1>7. NewSlot(r, q)
  BY <1>1, <1>2, <1>3, <1>4, <1>5, <1>6 DEF NewSlot, accounts, client
<1> QED
  BY <1>7, SlotStep

LEMMA SendInv ==
  ASSUME IInv, TypeOK', NEW r \in Requests, NEW b \in Browsers,
         NEW header \in seen[b] \cup {NoCsrf},
         NEW bearer \in held \cup {NoToken},
         Send(r, b, header, bearer)
  PROVE  IInv'
<1> DEFINE q == [Idle EXCEPT !.phase = "sent", !.browser = b, !.since = now,
                   !.token = TokenCookie(b), !.csrf = CsrfCookie(b),
                   !.header = header, !.bearer = bearer]
<1>1. /\ req' = [req EXCEPT ![r] = q] /\ UNCHANGED <<now, drawn, loginOf>>
      /\ UNCHANGED accounts /\ UNCHANGED client
  BY DEF Send
<1>2. /\ TypeOK /\ drawn \in Nat /\ now \in Nat
      /\ (\A v \in Csrf : v > drawn => loginOf[v] = NoOne)
  BY Quantities DEF IInv, TypeOK, ValueInv
<1>3. /\ q.phase = "sent" /\ q.kind = "none" /\ q.token = TokenCookie(b)
      /\ q.csrf = CsrfCookie(b) /\ q.browser = b /\ q.bearer = bearer
      /\ q.since = now
  BY DEF Idle
<1>4. /\ header \in Csrf \cup {NoCsrf} /\ bearer \in JWT \cup {NoToken}
      /\ TokenCookie(b) \in JWT \cup {NoToken}
      /\ CsrfCookie(b) \in Csrf \cup {NoCsrf}
  BY <1>2, TokenCookieType DEF TypeOK
<1>5. q \in Slot
  BY <1>2, <1>4, IdleType DEF Slot
<1> HIDE DEF q
<1>6. Fine(TokenCookie(b)) /\ Fine(bearer)
  BY DEF IInv, TokenInv, Fine, TokenCookie
<1>7. CsrfCookie(b) # NoCsrf =>
        /\ CsrfCookie(b) = jar[b].csrf
        /\ CsrfCookie(b) \in seen[b]
        /\ arrived[CsrfCookie(b)] <= now
        /\ now < arrived[CsrfCookie(b)] + CsrfLife
  BY DEF IInv, JarInv, CsrfCookie
<1>8. Holds(q)
  BY <1>2, <1>3, <1>7 DEF Holds
<1>9. TokenCookie(b) # NoToken => TokenCookie(b) = jar[b].token
  BY DEF TokenCookie
<1>10. CsrfCookie(b) # NoCsrf /\ TokenCookie(b) # NoToken =>
         loginOf[CsrfCookie(b)] \in {NoOne, TokenCookie(b).who}
  BY <1>7, <1>9 DEF IInv, PairInv, Paired
<1>11. CsrfCookie(b) <= drawn
  BY <1>2, <1>7 DEF IInv, ValueInv
<1>12. NewSlot(r, q)
  BY <1>1, <1>2, <1>3, <1>5, <1>6, <1>8, <1>10, <1>11
  DEF NewSlot, accounts, client
<1> QED
  BY <1>12, SlotStep

-----------------------------------------------------------------------------
(***************************************************************************)
(* The browser: a step that takes an answer into a jar.                    *)
(***************************************************************************)

(* j is what the jar of the browser of slot r becomes *)
NewJar(r, j) ==
  LET q == req[r] IN
  /\ q.phase = "answered"
  /\ jar' = [jar EXCEPT ![q.browser] = j]
  /\ req' = [req EXCEPT ![r] = Idle]
  /\ UNCHANGED <<now, standing, role, lastGood, drawn, loginOf>>
  /\ \A b \in Browsers :
       seen'[b] = IF b = q.browser THEN seen[b] \cup ({q.csrf} \ {NoCsrf})
                                   ELSE seen[b]
  /\ \A v \in Csrf : arrived'[v] = IF v = q.csrf THEN now ELSE arrived[v]
  /\ \A t \in held' : t \in held \/ t = q.token
  /\ Fine(j.token)
  /\ Paired(j.token, j.csrf)
  /\ j.token # NoToken => j.token.exp <= j.tokenEnd
  /\ j.csrf # NoCsrf =>
       \/ j.csrf = q.csrf /\ j.csrfEnd = now + CsrfLife
       \/ j.csrf = jar[q.browser].csrf /\ j.csrfEnd = jar[q.browser].csrfEnd

LEMMA JarStep ==
  ASSUME IInv, TypeOK', NEW r \in Requests, NEW j, NewJar(r, j)
  PROVE  IInv'
<1> DEFINE q == req[r]
<1> USE DEF NewJar
<1>0. /\ TypeOK /\ q.browser \in Browsers /\ q \in Slot
      /\ q.phase = "answered" /\ now \in Nat
  BY AnswerShape DEF IInv, TypeOK
<1>1. /\ req'[r] = Idle
      /\ \A s \in Requests \ {r} : req'[s] = req[s]
      /\ jar'[q.browser] = j
      /\ \A b \in Browsers \ {q.browser} : jar'[b] = jar[b]
  BY <1>0 DEF TypeOK
<1>2. \A b \in Browsers : q.csrf \notin seen[b]
  BY <1>0 DEF IInv, ValueInv
<1>3. \A b \in Browsers : \A v \in seen[b] :
        v \in Csrf /\ v # q.csrf /\ arrived'[v] = arrived[v] /\ v \in seen'[b]
  BY <1>0, <1>2 DEF TypeOK
<1>4. TokenInv'
  <2>1. \A t \in held' : Fine(t)
    BY <1>0 DEF IInv, TokenInv
  <2>2. \A b \in Browsers : Fine(jar'[b].token)
    BY <1>0, <1>1 DEF IInv, TokenInv
  <2>3. \A s \in Requests : Fine(req'[s].token) /\ Fine(req'[s].bearer)
    BY <1>1 DEF IInv, TokenInv, Idle, Fine
  <2>4. \A t \in held' : Fine(t)'
    BY <2>1 DEF Fine, RoleOf, GoodUntil, MayLogIn
  <2>5. \A b \in Browsers : Fine(jar[b].token)'
    BY <2>2 DEF Fine, RoleOf, GoodUntil, MayLogIn
  <2>6. \A s \in Requests : Fine(req[s].token)' /\ Fine(req[s].bearer)'
    BY <2>3 DEF Fine, RoleOf, GoodUntil, MayLogIn
  <2> QED
    BY <2>4, <2>5, <2>6 DEF IInv, TokenInv
<1>5. ReqInv'
  <2> SUFFICES ASSUME NEW s \in Requests PROVE Holds(req[s])'
    BY DEF ReqInv
  <2>1. CASE s = r
    BY <1>1, <2>1 DEF Holds, Idle
  <2>2. CASE s # r
    <3>1. Holds(req[s]) /\ req'[s] = req[s]
      BY <1>1, <2>2 DEF IInv, ReqInv
    <3>2. req[s].phase = "sent" /\ req[s].csrf # NoCsrf =>
            /\ req[s].csrf \in seen'[req[s].browser]
            /\ arrived'[req[s].csrf] = arrived[req[s].csrf]
      BY <1>3, <3>1 DEF Holds
    <3> QED
      BY <3>1, <3>2 DEF Holds, GoodUntil, MayLogIn
  <2> QED
    BY <2>1, <2>2
<1>6. ValueInv'
  <2>1. ASSUME NEW b \in Browsers, NEW v \in seen'[b] PROVE v <= drawn
    <3>1. q.csrf <= drawn /\ (v \in seen[b] => v <= drawn)
      BY DEF IInv, ValueInv
    <3>2. seen'[b] \subseteq seen[b] \cup {q.csrf}
      OBVIOUS
    <3> QED
      BY <2>1, <3>1, <3>2
  <2>2. \A s \in Requests : req'[s].csrf <= drawn
    BY <1>1, Quantities DEF IInv, ValueInv, Idle, TypeOK
  <2>3. ASSUME NEW s \in Requests, req'[s].phase = "answered"
        PROVE  /\ \A b \in Browsers : req'[s].csrf \notin seen'[b]
               /\ \A u \in Requests \ {s} :
                    req'[u].phase = "answered" /\ req'[u].csrf # NoCsrf
                      => req'[u].csrf # req'[s].csrf
    <3>1. s # r /\ req'[s] = req[s] /\ req[s].phase = "answered"
      BY <1>1, <2>3 DEF Idle
    <3>2. \A b \in Browsers : req[s].csrf \notin seen[b]
      BY <3>1 DEF IInv, ValueInv
    <3>3. q.csrf # NoCsrf => q.csrf # req[s].csrf
      BY <1>0, <3>1 DEF IInv, ValueInv
    <3>4. ASSUME NEW b \in Browsers PROVE req'[s].csrf \notin seen'[b]
      <4>1. seen'[b] \subseteq seen[b] \cup ({q.csrf} \ {NoCsrf})
        OBVIOUS
      <4> QED
        BY <3>1, <3>2, <3>3, <4>1
    <3>5. ASSUME NEW u \in Requests \ {s}, req'[u].phase = "answered",
                 req'[u].csrf # NoCsrf
          PROVE  req'[u].csrf # req'[s].csrf
      <4>1. u # r /\ req'[u] = req[u]
        BY <1>1, <3>5 DEF Idle
      <4> QED
        BY <3>1, <3>5, <4>1 DEF IInv, ValueInv
    <3> QED
      BY <3>4, <3>5
  <2> QED
    BY <2>1, <2>2, <2>3 DEF IInv, ValueInv
<1>7. PairInv'
  <2>1. \A b \in Browsers : Paired(jar'[b].token, jar'[b].csrf)
    BY <1>1 DEF IInv, PairInv
  <2>2. ASSUME NEW s \in Requests
        PROVE  /\ Paired(req'[s].token, req'[s].csrf)
               /\ req'[s].phase = "answered" /\ req'[s].kind = "login"
                    => loginOf[req'[s].csrf] = req'[s].token.who
               /\ req'[s].phase = "answered" /\ req'[s].kind = "csrf"
                    => loginOf[req'[s].csrf] = NoOne
    BY <1>1 DEF IInv, PairInv, Paired, Idle
  <2> QED
    BY <2>1, <2>2 DEF PairInv, Paired
<1>8. JarInv'
  <2> SUFFICES ASSUME NEW b \in Browsers
               PROVE  /\ jar'[b].token # NoToken
                           => jar'[b].token.exp <= jar'[b].tokenEnd
                      /\ jar'[b].csrf # NoCsrf =>
                           /\ jar'[b].csrf \in seen'[b]
                           /\ arrived'[jar'[b].csrf] <= now
                           /\ jar'[b].csrfEnd
                                = arrived'[jar'[b].csrf] + CsrfLife
    BY DEF JarInv
  <2>1. /\ jar[b].token # NoToken => jar[b].token.exp <= jar[b].tokenEnd
        /\ jar[b].csrf # NoCsrf =>
             /\ jar[b].csrf \in seen[b]
             /\ arrived[jar[b].csrf] <= now
             /\ jar[b].csrfEnd = arrived[jar[b].csrf] + CsrfLife
    BY DEF IInv, JarInv
  <2>2. CASE b # q.browser
    BY <1>1, <1>3, <2>1, <2>2
  <2>3. CASE b = q.browser
    <3>1. jar'[b] = j
      BY <1>1, <2>3
    <3>2. CASE j.csrf = q.csrf /\ j.csrfEnd = now + CsrfLife /\ j.csrf # NoCsrf
      <4>1. q.csrf \in Csrf /\ arrived'[q.csrf] = now /\ q.csrf \in seen'[b]
        BY <1>0, <2>3, <3>2 DEF Slot
      <4> QED
        BY <1>0, <3>1, <3>2, <4>1
    <3>3. CASE j.csrf = jar[b].csrf /\ j.csrfEnd = jar[b].csrfEnd
      BY <1>3, <2>1, <3>1, <3>3
    <3>4. CASE j.csrf = NoCsrf
      BY <3>1, <3>4
    <3> QED
      BY <2>3, <3>2, <3>3, <3>4
  <2> QED
    BY <2>2, <2>3
<1> QED
  BY <1>4, <1>5, <1>6, <1>7, <1>8 DEF IInv

LEMMA DeliverInv ==
  ASSUME IInv, TypeOK', NEW r \in Requests,
         DeliverLogin(r) \/ DeliverCsrf(r) \/ DeliverLogout(r)
  PROVE  IInv'
<1> DEFINE q == req[r]
<1> DEFINE b == q.browser
<1>0. /\ TypeOK /\ b \in Browsers /\ q.phase = "answered" /\ now \in Nat
      /\ q.kind = "login" => q.token \in JWT
      /\ q.kind \in {"login", "csrf"} => q.csrf \in Csrf
      /\ q.kind = "logout" => q.csrf = NoCsrf
      /\ jar[b] \in Jar /\ Fine(jar[b].token) /\ Fine(q.token)
      /\ jar[b].token # NoToken => jar[b].token.exp <= jar[b].tokenEnd
      /\ Paired(jar[b].token, jar[b].csrf)
      /\ q.kind = "login" => loginOf[q.csrf] = q.token.who
      /\ q.kind = "csrf" => loginOf[q.csrf] = NoOne
  BY AnswerShape DEF IInv, TypeOK, TokenInv, JarInv, PairInv, DeliverLogin,
     DeliverCsrf, DeliverLogout
<1>1. CASE DeliverLogin(r)
  <2> DEFINE j == SetAuthCookie(jar[b], q)
  <2>1. /\ j.token = q.token /\ j.csrf = q.csrf
        /\ j.tokenEnd = now + TokenLife /\ j.csrfEnd = now + CsrfLife
    BY DEF SetAuthCookie
  <2>2. q.kind = "login" /\ q.csrf # NoCsrf
    BY <1>0, <1>1 DEF DeliverLogin
  <2>3. /\ Fine(j.token) /\ Paired(j.token, j.csrf)
        /\ j.token # NoToken => j.token.exp <= j.tokenEnd
    BY <1>0, <2>1, <2>2 DEF Paired, Fine
  <2>4. /\ jar' = [jar EXCEPT ![b] = j]
        /\ \A c \in Browsers :
             seen'[c] = IF c = b THEN seen[c] \cup ({q.csrf} \ {NoCsrf})
                                 ELSE seen[c]
        /\ \A v \in Csrf : arrived'[v] = IF v = q.csrf THEN now ELSE arrived[v]
    <3>1. jar' = [jar EXCEPT ![b] = j]
      BY <1>1 DEF DeliverLogin
    <3>2. ASSUME NEW c \in Browsers
          PROVE  seen'[c] = IF c = b THEN seen[c] \cup ({q.csrf} \ {NoCsrf})
                                     ELSE seen[c]
      <4>1. seen'[c] = IF c = b THEN seen[c] \cup {q.csrf} ELSE seen[c]
        BY <1>0, <1>1 DEF DeliverLogin, TypeOK
      <4>2. {q.csrf} \ {NoCsrf} = {q.csrf}
        BY <2>2
      <4> QED
        BY <4>1, <4>2
    <3>3. \A v \in Csrf :
            arrived'[v] = IF v = q.csrf THEN now ELSE arrived[v]
      BY <1>0, <1>1 DEF DeliverLogin, TypeOK
    <3> QED
      BY <3>1, <3>2, <3>3
  <2> HIDE DEF j
  <2>5. NewJar(r, j)
    BY <1>0, <1>1, <2>1, <2>3, <2>4 DEF NewJar, DeliverLogin, accounts
  <2> QED
    BY <2>5, JarStep
<1>2. CASE DeliverCsrf(r)
  <2> DEFINE j == SetCSRFCookie(jar[b], q)
  <2>1. /\ j.token = jar[b].token /\ j.csrf = q.csrf
        /\ j.tokenEnd = jar[b].tokenEnd /\ j.csrfEnd = now + CsrfLife
    BY <1>0 DEF SetCSRFCookie, Jar
  <2>2. q.kind = "csrf" /\ q.csrf # NoCsrf
    BY <1>0, <1>2 DEF DeliverCsrf
  <2>3. /\ Fine(j.token) /\ Paired(j.token, j.csrf)
        /\ j.token # NoToken => j.token.exp <= j.tokenEnd
    BY <1>0, <2>1, <2>2 DEF Paired
  <2>4. /\ jar' = [jar EXCEPT ![b] = j]
        /\ \A c \in Browsers :
             seen'[c] = IF c = b THEN seen[c] \cup ({q.csrf} \ {NoCsrf})
                                 ELSE seen[c]
        /\ \A v \in Csrf : arrived'[v] = IF v = q.csrf THEN now ELSE arrived[v]
    <3>1. jar' = [jar EXCEPT ![b] = j]
      BY <1>2 DEF DeliverCsrf
    <3>2. ASSUME NEW c \in Browsers
          PROVE  seen'[c] = IF c = b THEN seen[c] \cup ({q.csrf} \ {NoCsrf})
                                     ELSE seen[c]
      <4>1. seen'[c] = IF c = b THEN seen[c] \cup {q.csrf} ELSE seen[c]
        BY <1>0, <1>2 DEF DeliverCsrf, TypeOK
      <4>2. {q.csrf} \ {NoCsrf} = {q.csrf}
        BY <2>2
      <4> QED
        BY <4>1, <4>2
    <3>3. \A v \in Csrf :
            arrived'[v] = IF v = q.csrf THEN now ELSE arrived[v]
      BY <1>0, <1>2 DEF DeliverCsrf, TypeOK
    <3> QED
      BY <3>1, <3>2, <3>3
  <2> HIDE DEF j
  <2>5. NewJar(r, j)
    BY <1>0, <1>2, <2>1, <2>3, <2>4 DEF NewJar, DeliverCsrf, accounts
  <2> QED
    BY <2>5, JarStep
<1>3. CASE DeliverLogout(r)
  <2> DEFINE j == ClearAuthCookie(jar[b])
  <2>1. /\ j.token = NoToken /\ j.csrf = jar[b].csrf
        /\ j.csrfEnd = jar[b].csrfEnd
    BY <1>0 DEF ClearAuthCookie, Jar
  <2>2. q.csrf = NoCsrf
    BY <1>0, <1>3 DEF DeliverLogout
  <2>3. /\ Fine(j.token) /\ Paired(j.token, j.csrf)
        /\ j.token # NoToken => j.token.exp <= j.tokenEnd
    BY <2>1 DEF Paired, Fine
  <2>4. /\ jar' = [jar EXCEPT ![b] = j]
        /\ \A c \in Browsers :
             seen'[c] = IF c = b THEN seen[c] \cup ({q.csrf} \ {NoCsrf})
                                 ELSE seen[c]
        /\ \A v \in Csrf : arrived'[v] = IF v = q.csrf THEN now ELSE arrived[v]
    BY <1>0, <1>3, <2>2 DEF DeliverLogout, TypeOK
  <2> HIDE DEF j
  <2>5. NewJar(r, j)
    BY <1>0, <1>3, <2>1, <2>3, <2>4 DEF NewJar, DeliverLogout, accounts
  <2> QED
    BY <2>5, JarStep
<1> QED
  BY <1>1, <1>2, <1>3

-----------------------------------------------------------------------------
(***************************************************************************)
(* The theorems.                                                           *)
(***************************************************************************)

LEMMA StepInv == IInv /\ [Next]_vars => IInv'
<1> SUFFICES ASSUME IInv, [Next]_vars PROVE IInv'
  OBVIOUS
<1>0. TypeOK'
  BY NextType
<1>1. CASE UNCHANGED vars
  <2>1. UNCHANGED <<now, standing, role, jar, seen, held, drawn, req,
                    lastGood, loginOf, arrived>>
    BY <1>1 DEF vars
  <2>3. TokenInv'
    BY <2>1 DEF IInv, TokenInv, Fine, GoodUntil, MayLogIn, RoleOf
  <2>4. ReqInv'
    BY <2>1 DEF IInv, ReqInv, Holds, GoodUntil, MayLogIn
  <2>5. ValueInv'
    BY <2>1 DEF IInv, ValueInv
  <2>6. PairInv'
    BY <2>1 DEF IInv, PairInv, Paired
  <2>7. JarInv'
    BY <2>1 DEF IInv, JarInv
  <2> QED
    BY <1>0, <2>3, <2>4, <2>5, <2>6, <2>7 DEF IInv
<1>2. CASE \/ \E w \in Employers :
                \/ \E as \in {"unverified", "verified"} : AddEmployer(w, as)
                \/ Verify(w)
                \/ \E to \in {"unverified", "deleted"} : LoseStanding(w, to)
           \/ \E w \in Admins, as \in {"moderator", "super_admin"} :
                AddAdmin(w, as)
  <2>1. Monotone
    BY <1>0, <1>2, AccountsMonotone
  <2>2. UNCHANGED <<jar, seen, held, arrived, req, drawn, loginOf>>
        /\ now' = now
    BY <1>2 DEF AddEmployer, AddAdmin, Verify, LoseStanding, client
  <2>3. \A r \in Requests :
          req[r].phase = "looked" => now' <= req[r].since + MaxDelay
    BY <2>2 DEF IInv, ReqInv, Holds
  <2> QED
    BY <1>0, <2>1, <2>2, <2>3, QuietStep
<1>3. CASE Tick
  <2>1. Monotone
    BY <1>0, <1>3, TickMonotone
  <2>2. UNCHANGED <<jar, seen, held, arrived, req, drawn, loginOf>>
    BY <1>3 DEF Tick, client
  <2>3. ASSUME NEW r \in Requests, req[r].phase = "looked"
        PROVE  now' <= req[r].since + MaxDelay
    <3>1. now \in Nat /\ req[r].since \in Nat
      BY DEF IInv, TypeOK, Slot
    <3> QED
      BY <1>3, <2>3, <3>1, Quantities DEF Tick
  <2> QED
    BY <1>0, <2>1, <2>2, <2>3, QuietStep
<1>4. ASSUME NEW r \in Requests,
             \/ LoginRefused(r) \/ Answer(r) \/ LoseAnswer(r) \/ Logout(r)
      PROVE  IInv'
  <2>1. CASE LoginRefused(r) \/ Answer(r) \/ LoseAnswer(r)
    <3>1. NewSlot(r, Idle)
      BY <2>1, EndSlot DEF LoginRefused, Answer, LoseAnswer
    <3> QED
      BY <1>0, <3>1, SlotStep
  <2>2. CASE Logout(r)
    <3> DEFINE q == [Idle EXCEPT !.phase = "answered", !.kind = "logout",
                                 !.browser = req[r].browser]
    <3>1. req[r].browser \in Browsers
      BY <2>2 DEF Logout, Passes, IInv, ReqInv, Holds
    <3>2. NewSlot(r, q)
      BY <2>2, <3>1, EndSlot DEF Logout
    <3> QED
      BY <1>0, <3>2, SlotStep
  <2> QED
    BY <1>4, <2>1, <2>2
<1> QED
  BY <1>0, <1>1, <1>2, <1>3, <1>4, LoginLookupInv, LoginIssueInv,
     FetchCsrfInv, SendInv, DeliverInv DEF Next

(* The inductive invariant holds in every reachable state. *)
THEOREM Inductive == Spec => []IInv
  BY InitInv, StepInv, PTL DEF Spec

(* Every variable keeps its type. *)
THEOREM TypeCorrect == Spec => []TypeOK
<1>1. IInv => TypeOK
  BY DEF IInv
<1> QED
  BY <1>1, Inductive, PTL

LEMMA PresentedFine ==
  ASSUME IInv, NEW r \in Requests, Presented(req[r]) # NoToken
  PROVE  Presented(req[r]) \in JWT /\ Fine(Presented(req[r]))
  BY DEF IInv, TypeOK, TokenInv, Presented, Slot

(* Nobody is let in for longer than a token's life, and a login, after the *)
(* account was last in order. *)
THEOREM AccessEnds == Spec => []StaleAccessBounded
<1>1. IInv => StaleAccessBounded
  <2> SUFFICES ASSUME IInv, NEW r \in Requests, NEW route \in Route,
                      NEW act \in Act, Passes(req[r], route, act)
               PROVE  now < GoodUntil(Presented(req[r]).who)
                            + TokenLife + MaxDelay
    BY DEF StaleAccessBounded
  <2> DEFINE t == Presented(req[r])
  <2>1. t # NoToken /\ now < t.exp
    BY DEF Passes, Good
  <2>2. t \in JWT /\ Fine(t)
    BY <2>1, PresentedFine
  <2> HIDE DEF t
  <2>3. t.exp \in Nat /\ now \in Nat /\ GoodUntil(t.who) \in Nat
    BY <2>2 DEF JWT, GoodUntil, IInv, TypeOK
  <2>4. now < GoodUntil(t.who) + TokenLife + MaxDelay
    BY <2>1, <2>2, <2>3, Quantities DEF Fine
  <2> QED
    BY <2>4 DEF t
<1> QED
  BY <1>1, Inductive, PTL

(* A page writes as whoever logged in when it got its CSRF value. *)
THEOREM WritesStayPaired == Spec => []WritesAsLoggedIn
<1>1. IInv => WritesAsLoggedIn
  <2> SUFFICES ASSUME IInv, NEW r \in Requests, NEW route \in Route,
                      Passes(req[r], route, "write"),
                      req[r].bearer = NoToken,
                      loginOf[req[r].header] # NoOne
               PROVE  req[r].token.who = loginOf[req[r].header]
    BY DEF WritesAsLoggedIn
  <2>1. req[r].csrf # NoCsrf /\ req[r].header = req[r].csrf
        /\ req[r].token # NoToken
    BY DEF Passes, CSRFPasses, Good, Presented
  <2> QED
    BY <2>1 DEF IInv, PairInv, Paired
<1> QED
  BY <1>1, Inductive, PTL

(* Whoever is let through has, in the table, the role the route asks for. *)
THEOREM RolesHold == Spec => []RightfulActor
<1>1. IInv => RightfulActor
  <2> SUFFICES ASSUME IInv, NEW r \in Requests, NEW act \in Act
               PROVE  LET w == Presented(req[r]).who IN
                      /\ Passes(req[r], "client", act) => w \in Employers
                      /\ Passes(req[r], "admin", act) =>
                           w \in Admins /\ role[w] # NoRole
                      /\ Passes(req[r], "super", act) =>
                           w \in Admins /\ role[w] = "super_admin"
    BY DEF RightfulActor
  <2> DEFINE t == Presented(req[r])
  <2>1. CASE t = NoToken
    BY <2>1 DEF Passes, Good
  <2>2. CASE t # NoToken
    <3>1. t \in JWT /\ t.role = RoleOf(t.who) /\ t.who \in Who
      BY <2>2, PresentedFine DEF Fine, JWT
    <3>2. /\ Allowed("client") = {"client"}
          /\ Allowed("admin") = {"moderator", "super_admin"}
          /\ Allowed("super") = {"super_admin"}
      BY DEF Allowed
    <3>3. \A w \in Admins : RoleOf(w) = role[w] /\ role[w] # "client"
      BY Tables DEF RoleOf, IInv, TypeOK, TokenInv
    <3> QED
      BY <3>1, <3>2, <3>3 DEF Passes, RoleOf
  <2> QED
    BY <2>1, <2>2
<1> QED
  BY <1>1, Inductive, PTL

(* No browser drops the cookie of a token that is still good. *)
THEOREM NobodyLoggedOutEarly == Spec => []CookieCoversToken
<1>1. IInv => CookieCoversToken
  <2> SUFFICES ASSUME IInv, NEW b \in Browsers, Good(jar[b].token)
               PROVE  TokenCookie(b) = jar[b].token
    BY DEF CookieCoversToken
  <2>1. jar[b].token # NoToken /\ now < jar[b].token.exp
    BY DEF Good
  <2>2. jar[b].token.exp <= jar[b].tokenEnd
    BY <2>1 DEF IInv, JarInv
  <2>3. now \in Nat /\ jar[b].token.exp \in Nat /\ jar[b].tokenEnd \in Nat
    BY <2>1 DEF IInv, TypeOK, Jar, JWT
  <2> QED
    BY <2>1, <2>2, <2>3 DEF TokenCookie
<1> QED
  BY <1>1, Inductive, PTL

(* A page writes only within the life of the CSRF value it last received. *)
THEOREM WritesAreFresh == Spec => []LapsedPageOnlyReads
<1>1. IInv => LapsedPageOnlyReads
  BY DEF LapsedPageOnlyReads, IInv, ReqInv, Holds, Passes, CSRFPasses
<1> QED
  BY <1>1, Inductive, PTL

=============================================================================
