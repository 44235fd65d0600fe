------------------------------ MODULE Sessions -------------------------------
(***************************************************************************)
(* Who a request acts for: the JWT, the cookie it travels in, the CSRF     *)
(* cookie beside it, and the checks of every guarded route                 *)
(* (internal/middleware/{auth,csrf}.go, the Login and Logout handlers, and *)
(* GET /api/auth/csrf in cmd/server/main.go).                              *)
(*                                                                         *)
(* The server keeps no session.  What it knows of one is in the browser: a *)
(* JWT that names an account, good for TokenLife, in the cookie "token",   *)
(* and a random value in the cookie "csrf", kept for CsrfLife, which a     *)
(* writing request must repeat in a header.  A login sets both cookies in  *)
(* one response; GET /api/auth/csrf sets the second alone.  Employers and  *)
(* admins use the same two cookies.                                        *)
(*                                                                         *)
(* A request carries the cookies its browser had when it was sent, and is  *)
(* checked later; a response changes the browser's cookies when it arrives *)
(* and may be lost or overtaken.  A login looks the account up, compares   *)
(* the password, and issues the JWT later.  MaxDelay bounds that gap and   *)
(* nothing else: the network may take as long as it likes.                 *)
(***************************************************************************)
EXTENDS Integers

CONSTANTS
  Employers,  \* rows of CLIENTS
  Admins,     \* rows of ADMINS
  NoOne,      \* nobody
  Browsers,   \* cookie jars
  NoBrowser,  \* none of them
  Requests,   \* requests between sending and answer
  TokenLife,  \* 72 h: a JWT, and MaxAge of the cookie it is in
  CsrfLife,   \* 24 h: MaxAge of the CSRF cookie
  MaxDelay,   \* a login's gap between its lookup and its JWT
  MaxDrawn,   \* bound: calls of GenerateCSRFToken
  Horizon     \* bound: the ticks TLC looks at

Who == Employers \cup Admins

ASSUME Tables ==
  /\ Employers \cap Admins = {}
  /\ NoOne \notin Who
  /\ NoBrowser \notin Browsers
ASSUME Quantities ==
  /\ TokenLife \in Nat \ {0} /\ CsrfLife \in Nat \ {0}
  /\ MaxDelay \in Nat /\ MaxDrawn \in Nat /\ Horizon \in Nat

Csrf   == 1 .. MaxDrawn
NoCsrf == 0

(* the claims role and admin_role in one *)
Role   == {"client", "moderator", "super_admin"}
NoRole == "none"

JWT     == [who : Who, role : Role, exp : Nat]
NoToken == [who |-> NoOne, role |-> NoRole, exp |-> 0]

(* what a browser keeps: each cookie and when it drops it *)
Jar == [token : JWT \cup {NoToken}, tokenEnd : Nat,
        csrf : Csrf \cup {NoCsrf}, csrfEnd : Nat]
EmptyJar == [token |-> NoToken, tokenEnd |-> 0,
             csrf |-> NoCsrf, csrfEnd |-> 0]

(* the routes, by the middleware that guards them: ClientAuth, AdminAuth   *)
(* (with or without ModeratorOrAbove, which admits the same), and          *)
(* AdminAuth with SuperAdminOnly                                           *)
Route == {"client", "admin", "super"}
Act   == {"read", "write"}

(***************************************************************************)
(* A request.  looked: a login past its lookup; sent: a request to a       *)
(* guarded route, with the cookies, Bearer token and header it carries (its*)
(* method and path are chosen when it is checked, where they first matter);*)
(* answered: a response with its Set-Cookie headers, of the handler kind.  *)
(***************************************************************************)
Slot == [phase   : {"idle", "looked", "sent", "answered"},
         kind    : {"none", "login", "csrf", "logout"},
         browser : Browsers \cup {NoBrowser},
         who     : Who \cup {NoOne},
         token   : JWT \cup {NoToken},
         bearer  : JWT \cup {NoToken},
         csrf    : Csrf \cup {NoCsrf},
         header  : Csrf \cup {NoCsrf},
         since   : Nat]

Idle == [phase |-> "idle", kind |-> "none", browser |-> NoBrowser,
         who |-> NoOne, token |-> NoToken,
         bearer |-> NoToken, csrf |-> NoCsrf, header |-> NoCsrf, since |-> 0]

VARIABLES
  now,       \* the clock
  standing,  \* each account: absent, unverified, verified or deleted
  role,      \* ADMINS.admin_role
  jar,       \* each browser's cookies
  seen,      \* the CSRF values the pages of a browser may still hold
  held,      \* JWTs that reached a client, which may send one as Bearer
  drawn,     \* CSRF values drawn so far: a fresh one is the next
  req,       \* the requests
  lastGood,  \* history: when an account was last verified, if it is not now
  loginOf,   \* history: whose login a CSRF value came with
  arrived    \* history: when a CSRF value reached its browser

vars == <<now, standing, role, jar, seen, held, drawn, req,
          lastGood, loginOf, arrived>>

accounts == <<standing, role, lastGood>>
client   == <<jar, seen, held, arrived>>

Init ==
  /\ now = 0
  /\ standing = [w \in Who |-> "absent"]
  /\ role = [w \in Admins |-> NoRole]
  /\ jar = [b \in Browsers |-> EmptyJar]
  /\ seen = [b \in Browsers |-> {}]
  /\ held = {}
  /\ drawn = 0
  /\ req = [r \in Requests |-> Idle]
  /\ lastGood = [w \in Who |-> 0]
  /\ loginOf = [v \in Csrf |-> NoOne]
  /\ arrived = [v \in Csrf |-> 0]

-----------------------------------------------------------------------------
(***************************************************************************)
(* Plausible mistakes, for the mutation runs: each stands in for the       *)
(* operator its name begins with.  Next uses none.                         *)
(***************************************************************************)

(* a token without an exp claim *)
Good_NoExpiry(t) == t # NoToken

(* SetAuthCookie that sets a CSRF cookie only where there is none *)
SetAuthCookie_KeepCsrf(j, q) ==
  [token |-> q.token, tokenEnd |-> now + TokenLife,
   csrf |-> IF j.csrf = NoCsrf THEN q.csrf ELSE j.csrf,
   csrfEnd |-> now + CsrfLife]

(* SetCSRFCookie with the MaxAge of the auth cookie *)
SetCSRFCookie_LongLived(j, q) ==
  [j EXCEPT !.csrf = q.csrf, !.csrfEnd = now + TokenLife]

(* a login that forgets which role the account has *)
RoleOf_Default(w) == IF w \in Employers THEN "client" ELSE "super_admin"

-----------------------------------------------------------------------------
(***************************************************************************)
(* The accounts, as far as a login looks at them.  Accounts has the rest.  *)
(***************************************************************************)

RoleOf(w) == IF w \in Employers THEN "client" ELSE role[w]

(* what Login needs of the row; an admin is in order once it exists *)
MayLogIn(w) == standing[w] = "verified"

(* Signup, or CreateEmployer, which verifies at once *)
AddEmployer(w, as) ==
  /\ standing[w] = "absent"
  /\ standing' = [standing EXCEPT ![w] = as]
  /\ UNCHANGED <<now, role, lastGood, drawn, req, loginOf>>
  /\ UNCHANGED client

(* CreateAdmin and seed-admin; nothing changes a role afterwards *)
AddAdmin(w, as) ==
  /\ standing[w] = "absent"
  /\ standing' = [standing EXCEPT ![w] = "verified"]
  /\ role' = [role EXCEPT ![w] = as]
  /\ UNCHANGED <<now, lastGood, drawn, req, loginOf>>
  /\ UNCHANGED client

(* VerifyEmail, or an admin's VerifyEmployer with verified=true *)
Verify(w) ==
  /\ standing[w] = "unverified"
  /\ standing' = [standing EXCEPT ![w] = "verified"]
  /\ UNCHANGED <<now, role, lastGood, drawn, req, loginOf>>
  /\ UNCHANGED client

(* VerifyEmployer with verified=false, or DeleteEmployer *)
LoseStanding(w, to) ==
  /\ standing[w] \in {"unverified", "verified"}
  /\ standing' = [standing EXCEPT ![w] = to]
  /\ lastGood' = IF standing[w] = "verified"
                 THEN [lastGood EXCEPT ![w] = now] ELSE lastGood
  /\ UNCHANGED <<now, role, drawn, req, loginOf>>
  /\ UNCHANGED client

-----------------------------------------------------------------------------
(***************************************************************************)
(* Login, in the two steps of both handlers, and GET /api/auth/csrf.       *)
(***************************************************************************)

DrawCsrf ==
  /\ drawn < MaxDrawn
  /\ drawn' = drawn + 1

(* FindByEmail, the verified check, and the password's comparison begins;  *)
(* the row's role is read here *)
LoginLookup(r, b, w) ==
  /\ req[r] = Idle
  /\ MayLogIn(w)
  /\ req' = [req EXCEPT ![r] =
       [Idle EXCEPT !.phase = "looked", !.kind = "login", !.browser = b,
                    !.who = w, !.since = now,
                    !.token = [who |-> w, role |-> RoleOf(w), exp |-> 0]]]
  /\ UNCHANGED <<now, drawn, loginOf>>
  /\ UNCHANGED accounts
  /\ UNCHANGED client

(* GenerateToken and SetAuthCookie *)
LoginIssue(r) ==
  /\ req[r].phase = "looked"
  /\ DrawCsrf
  /\ req' = [req EXCEPT ![r].phase = "answered",
                        ![r].token.exp = now + TokenLife,
                        ![r].csrf = drawn + 1]
  /\ loginOf' = [loginOf EXCEPT ![drawn + 1] = req[r].who]
  /\ UNCHANGED now
  /\ UNCHANGED accounts
  /\ UNCHANGED client

(* the password is wrong, or the client has gone *)
LoginRefused(r) ==
  /\ req[r].phase = "looked"
  /\ req' = [req EXCEPT ![r] = Idle]
  /\ UNCHANGED <<now, drawn, loginOf>>
  /\ UNCHANGED accounts
  /\ UNCHANGED client

(* GET /api/auth/csrf, which asks for no session *)
FetchCsrf(r, b) ==
  /\ req[r] = Idle
  /\ DrawCsrf
  /\ req' = [req EXCEPT ![r] =
       [Idle EXCEPT !.phase = "answered", !.kind = "csrf", !.browser = b,
                    !.csrf = drawn + 1]]
  /\ UNCHANGED <<now, loginOf>>
  /\ UNCHANGED accounts
  /\ UNCHANGED client

-----------------------------------------------------------------------------
(***************************************************************************)
(* A request to a guarded route, and the middleware in front of it.        *)
(***************************************************************************)

(* a browser sends a cookie until it expires *)
TokenCookie(b) == IF now < jar[b].tokenEnd THEN jar[b].token ELSE NoToken
CsrfCookie(b)  == IF now < jar[b].csrfEnd THEN jar[b].csrf ELSE NoCsrf

Send(r, b, header, bearer) ==
  /\ req[r] = Idle
  /\ header \in seen[b] \cup {NoCsrf}
  /\ bearer \in held \cup {NoToken}
  /\ req' = [req EXCEPT ![r] =
       [Idle EXCEPT !.phase = "sent", !.browser = b, !.since = now,
                    !.token = TokenCookie(b), !.csrf = CsrfCookie(b),
                    !.header = header, !.bearer = bearer]]
  /\ UNCHANGED <<now, drawn, loginOf>>
  /\ UNCHANGED accounts
  /\ UNCHANGED client

(* CSRFMiddleware; logout is a POST like any other *)
CSRFPasses(q, act) ==
  \/ act = "read"
  \/ q.csrf # NoCsrf /\ q.header = q.csrf

(* the Authorization header before the cookie, even when it has expired *)
Presented(q) == IF q.bearer # NoToken THEN q.bearer ELSE q.token

(* jwt.Parse: there is a token, and its exp is to come *)
Good(t) == t # NoToken /\ now < t.exp

(* requireAuth and AdminRoleAtLeast: the claims a route asks for *)
Allowed(route) ==
  CASE route = "client" -> {"client"}
    [] route = "admin"  -> {"moderator", "super_admin"}
    [] route = "super"  -> {"super_admin"}

Passes(q, route, act) ==
  /\ q.phase = "sent"
  /\ CSRFPasses(q, act)
  /\ Good(Presented(q))
  /\ Presented(q).role \in Allowed(route)

(* A handler other than logout's: what it does is not about the session.   *)
(* The same for 401 and 403, which set no cookie.                          *)
Answer(r) ==
  /\ req[r].phase = "sent"
  /\ req' = [req EXCEPT ![r] = Idle]
  /\ UNCHANGED <<now, drawn, loginOf>>
  /\ UNCHANGED accounts
  /\ UNCHANGED client

(* Logout, of either handler *)
Logout(r) ==
  /\ \E route \in {"client", "admin"} : Passes(req[r], route, "write")
  /\ req' = [req EXCEPT ![r] =
       [Idle EXCEPT !.phase = "answered", !.kind = "logout",
                    !.browser = req[r].browser]]
  /\ UNCHANGED <<now, drawn, loginOf>>
  /\ UNCHANGED accounts
  /\ UNCHANGED client

-----------------------------------------------------------------------------
(***************************************************************************)
(* The browser takes an answer: the Set-Cookie headers of q change jar j.  *)
(***************************************************************************)

SetAuthCookie(j, q) ==
  [token |-> q.token, tokenEnd |-> now + TokenLife,
   csrf |-> q.csrf, csrfEnd |-> now + CsrfLife]

SetCSRFCookie(j, q) == [j EXCEPT !.csrf = q.csrf, !.csrfEnd = now + CsrfLife]

(* the CSRF cookie stays *)
ClearAuthCookie(j) == [j EXCEPT !.token = NoToken, !.tokenEnd = 0]

DeliverLogin(r) ==
  LET q == req[r] IN
  /\ q.phase = "answered" /\ q.kind = "login"
  /\ jar' = [jar EXCEPT ![q.browser] = SetAuthCookie(@, q)]
  /\ seen' = [seen EXCEPT ![q.browser] = @ \cup {q.csrf}]
  /\ held' = held \cup {q.token}
  /\ arrived' = [arrived EXCEPT ![q.csrf] = now]
  /\ req' = [req EXCEPT ![r] = Idle]
  /\ UNCHANGED <<now, drawn, loginOf>>
  /\ UNCHANGED accounts

DeliverCsrf(r) ==
  LET q == req[r] IN
  /\ q.phase = "answered" /\ q.kind = "csrf"
  /\ jar' = [jar EXCEPT ![q.browser] = SetCSRFCookie(@, q)]
  /\ seen' = [seen EXCEPT ![q.browser] = @ \cup {q.csrf}]
  /\ arrived' = [arrived EXCEPT ![q.csrf] = now]
  /\ req' = [req EXCEPT ![r] = Idle]
  /\ UNCHANGED <<now, held, drawn, loginOf>>
  /\ UNCHANGED accounts

DeliverLogout(r) ==
  LET q == req[r] IN
  /\ q.phase = "answered" /\ q.kind = "logout"
  /\ jar' = [jar EXCEPT ![q.browser] = ClearAuthCookie(@)]
  /\ req' = [req EXCEPT ![r] = Idle]
  /\ UNCHANGED <<now, seen, held, drawn, loginOf, arrived>>
  /\ UNCHANGED accounts

(* the answer never arrives *)
LoseAnswer(r) ==
  /\ req[r].phase = "answered"
  /\ req' = [req EXCEPT ![r] = Idle]
  /\ UNCHANGED <<now, drawn, loginOf>>
  /\ UNCHANGED accounts
  /\ UNCHANGED client

Tick ==
  /\ now < Horizon
  /\ \A r \in Requests : req[r].phase = "looked" => now < req[r].since + MaxDelay
  /\ now' = now + 1
  /\ UNCHANGED <<drawn, req, loginOf>>
  /\ UNCHANGED accounts
  /\ UNCHANGED client

Next ==
  \/ \E w \in Employers :
       \/ \E as \in {"unverified", "verified"} : AddEmployer(w, as)
       \/ Verify(w)
       \/ \E to \in {"unverified", "deleted"} : LoseStanding(w, to)
  \/ \E w \in Admins, as \in {"moderator", "super_admin"} : AddAdmin(w, as)
  \/ \E r \in Requests :
       \/ \E b \in Browsers :
            \/ \E w \in Who : LoginLookup(r, b, w)
            \/ FetchCsrf(r, b)
            \/ \E header \in seen[b] \cup {NoCsrf},
                  bearer \in held \cup {NoToken} : Send(r, b, header, bearer)
       \/ LoginIssue(r)
       \/ LoginRefused(r)
       \/ Answer(r)
       \/ Logout(r)
       \/ DeliverLogin(r)
       \/ DeliverCsrf(r)
       \/ DeliverLogout(r)
       \/ LoseAnswer(r)
  \/ Tick

Spec == Init /\ [][Next]_vars

-----------------------------------------------------------------------------
(***************************************************************************)
(* Correctness.                                                            *)
(***************************************************************************)

TypeOK ==
  /\ now \in Nat
  /\ standing \in [Who -> {"absent", "unverified", "verified", "deleted"}]
  /\ role \in [Admins -> (Role \ {"client"}) \cup {NoRole}]
  /\ jar \in [Browsers -> Jar]
  /\ seen \in [Browsers -> SUBSET Csrf]
  /\ held \subseteq JWT
  /\ drawn \in 0 .. MaxDrawn
  /\ req \in [Requests -> Slot]
  /\ lastGood \in [Who -> Nat]
  /\ loginOf \in [Csrf -> Who \cup {NoOne}]
  /\ arrived \in [Csrf -> Nat]

(* the last time w's account was in order *)
GoodUntil(w) == IF MayLogIn(w) THEN now ELSE lastGood[w]

(* A JWT is never looked up again, so an account that was unverified or    *)
(* deleted is still let in, but no longer than TokenLife and the length of *)
(* a login after it was last in order, however logins and decisions        *)
(* interleave (requireAuth; exp in GenerateToken).                         *)
StaleAccessBounded ==
  \A r \in Requests, route \in Route, act \in Act :
    Passes(req[r], route, act) =>
      now < GoodUntil(Presented(req[r]).who) + TokenLife + MaxDelay

(* A page that repeats the CSRF value of a login writes as whoever logged  *)
(* in then, or not at all: a later login in the same browser, of another   *)
(* employer or of an admin, cannot make the page act for somebody else,    *)
(* whatever order the answers arrive in (SetAuthCookie sets both cookies). *)
WritesAsLoggedIn ==
  \A r \in Requests, route \in Route :
    LET q == req[r] IN
    /\ Passes(q, route, "write")
    /\ q.bearer = NoToken
    /\ loginOf[q.header] # NoOne
    => q.token.who = loginOf[q.header]

(* A request that is let through acts for an account of the kind its route *)
(* is for, and with no more than the role that account has in the table:   *)
(* the claim in the token has not gone stale (requireAuth,                 *)
(* AdminRoleAtLeast).                                                      *)
RightfulActor ==
  \A r \in Requests, act \in Act :
    LET w == Presented(req[r]).who IN
    /\ Passes(req[r], "client", act) => w \in Employers
    /\ Passes(req[r], "admin", act)  => w \in Admins /\ role[w] # NoRole
    /\ Passes(req[r], "super", act)  => w \in Admins /\ role[w] = "super_admin"

(* The browser keeps the cookie for as long as the JWT in it is good:      *)
(* nobody is logged out early, however late the login's answer came        *)
(* (MaxAge "72h, matching JWT expiry").                                    *)
CookieCoversToken ==
  \A b \in Browsers : Good(jar[b].token) => TokenCookie(b) = jar[b].token

(* A page that got no answer with a CSRF cookie for CsrfLife can read but  *)
(* not write, although its session lasts longer: whatever is let through   *)
(* repeats a value its browser received within CsrfLife of sending it      *)
(* (SetCSRFCookie, CSRFMiddleware).                                        *)
LapsedPageOnlyReads ==
  \A r \in Requests, route \in Route :
    LET q == req[r] IN
    Passes(q, route, "write") =>
      /\ q.header \in seen[q.browser]
      /\ arrived[q.header] <= q.since
      /\ q.since < arrived[q.header] + CsrfLife

-----------------------------------------------------------------------------
(***************************************************************************)
(* The inductive invariant.                                                *)
(***************************************************************************)

(* what is true of every JWT, wherever it is: its role is the table's, and *)
(* it ends in time *)
Fine(t) ==
  t # NoToken =>
    /\ standing[t.who] # "absent"
    /\ t.role = RoleOf(t.who)
    /\ t.exp <= now + TokenLife
    /\ t.exp <= GoodUntil(t.who) + TokenLife + MaxDelay

TokenInv ==
  /\ \A w \in Who : lastGood[w] <= now
  /\ \A w \in Admins : standing[w] # "absent" => role[w] # NoRole
  /\ \A t \in held : Fine(t)
  /\ \A b \in Browsers : Fine(jar[b].token)
  /\ \A r \in Requests : Fine(req[r].token) /\ Fine(req[r].bearer)

(* what a request of each phase holds *)
Holds(q) ==
  /\ q.phase = "idle" => q = Idle
  /\ q.phase = "looked" =>
       /\ q.kind = "login" /\ q.browser \in Browsers /\ q.csrf = NoCsrf
       /\ q.token # NoToken /\ q.token.who = q.who
       /\ q.since <= GoodUntil(q.who) /\ now <= q.since + MaxDelay
  /\ q.phase = "sent" =>
       /\ q.browser \in Browsers /\ q.kind = "none" /\ q.since <= now
       /\ q.csrf # NoCsrf =>
            /\ q.csrf \in seen[q.browser]
            /\ arrived[q.csrf] <= q.since
            /\ q.since < arrived[q.csrf] + CsrfLife
  /\ q.phase = "answered" =>
       /\ q.browser \in Browsers
       /\ q.kind \in {"login", "csrf", "logout"}
       /\ (q.csrf = NoCsrf) <=> (q.kind = "logout")
       /\ q.kind = "login" => q.token # NoToken

ReqInv == \A r \in Requests : Holds(req[r])

(* a value that was not drawn is nowhere; one on its way reaches one       *)
(* browser once *)
ValueInv ==
  /\ \A v \in Csrf : v > drawn => loginOf[v] = NoOne
  /\ \A b \in Browsers : \A v \in seen[b] : v <= drawn
  /\ \A r \in Requests : req[r].csrf <= drawn
  /\ \A r \in Requests :
       req[r].phase = "answered" =>
         /\ \A b \in Browsers : req[r].csrf \notin seen[b]
         /\ \A s \in Requests \ {r} :
              req[s].phase = "answered" /\ req[s].csrf # NoCsrf
                => req[s].csrf # req[r].csrf

(* a token and a CSRF value of a login are of the same login *)
Paired(token, csrf) ==
  csrf # NoCsrf /\ token # NoToken =>
    loginOf[csrf] \in {NoOne, token.who}

PairInv ==
  /\ \A b \in Browsers : Paired(jar[b].token, jar[b].csrf)
  /\ \A r \in Requests :
       /\ Paired(req[r].token, req[r].csrf)
       /\ req[r].phase = "answered" /\ req[r].kind = "login"
            => loginOf[req[r].csrf] = req[r].token.who
       /\ req[r].phase = "answered" /\ req[r].kind = "csrf"
            => loginOf[req[r].csrf] = NoOne

(* a cookie's lifetime began when it arrived *)
JarInv ==
  \A b \in Browsers :
    /\ jar[b].token # NoToken => jar[b].token.exp <= jar[b].tokenEnd
    /\ jar[b].csrf # NoCsrf =>
         /\ jar[b].csrf \in seen[b]
         /\ arrived[jar[b].csrf] <= now
         /\ jar[b].csrfEnd = arrived[jar[b].csrf] + CsrfLife

IInv == TypeOK /\ TokenInv /\ ReqInv /\ ValueInv /\ PairInv /\ JarInv
=============================================================================
