------------------------------- MODULE Gateway -------------------------------
(***************************************************************************)
(* The way of a request from the socket to its handler: the middleware in  *)
(* front of every route, the table of routes, and what stands before each  *)
(* (cmd/server/main.go; internal/middleware/{security,csrf,auth,ratelimit} *)
(* .go).                                                                   *)
(*                                                                         *)
(* A request runs one middleware after the other; each passes it on or     *)
(* answers it.  Only the limiters are shared: five, each used by many      *)
(* routes.  All requests here come from one address, so a limiter is one   *)
(* bucket (RateLimiter has the rest of it).                                *)
(*                                                                         *)
(* NewStorageClient may fail and still return a client that is not nil: an *)
(* interface around a nil *LocalClient or *R2Client.  main registers the   *)
(* upload routes for it, and their handlers dereference it.                *)
(***************************************************************************)
EXTENDS Integers, Sequences

CONSTANTS
  Slots,        \* slots for requests on their way
  Stores,       \* outcomes of NewStorageClient to look at
  Burst         \* tokens of a full bucket

Method  == {"GET", "POST", "PUT", "PATCH", "DELETE", "OPTIONS"}
Limiter == {"auth", "adminAuth", "passwordReset", "public", "write"}
Cred    == {"none", "client", "moderator", "super_admin"}

(* what NewStorageClient returns: a client, or a nil pointer in its place *)
Store == {"cloudinary", "r2", "local", "nil r2", "nil local"}

ASSUME Environment == Stores \subseteq Store /\ Burst \in Nat

(***************************************************************************)
(* The table of routes.                                                    *)
(***************************************************************************)

(* the routes of a set, behind the same middleware *)
Behind(chain, routes) ==
  {[method |-> e[1], path |-> e[2], chain |-> chain] : e \in routes}

-----------------------------------------------------------------------------
(***************************************************************************)
(* Plausible mistakes, for the mutation runs: each stands in for the       *)
(* operator its name begins with.  GatewayNext uses none.                  *)
(***************************************************************************)

(* the job routes with their limiter before r.Use(ClientAuth) *)
JobRoutes_LimitFirst ==
  Behind(<<"write", "ClientAuth">>,
    {<<"GET", "/api/jobs">>, <<"POST", "/api/jobs">>,
     <<"PUT", "/api/jobs/id">>, <<"DELETE", "/api/jobs/id">>})
  \cup Behind(<<"ClientAuth">>, {<<"GET", "/api/jobs/id">>})

(* publicAuthPaths as a prefix *)
PublicAuthPaths_Prefix ==
  {"/api/auth/signup", "/api/auth/login", "/api/auth/forgot-password",
   "/api/auth/reset-password", "/api/admin/login", "/api/auth/me",
   "/api/auth/logout", "/api/auth/upload-url", "/api/auth/local-upload"}

(* the super-admin group without its second middleware *)
SuperAdminRoutes_NoRole ==
  Behind(<<"AdminAuth">>,
    {<<"GET", "/api/admin/employers">>, <<"GET", "/api/admin/employers/id">>,
     <<"GET", "/api/admin/admins">>})
  \cup Behind(<<"AdminAuth", "write">>,
    {<<"POST", "/api/admin/employers">>,
     <<"PATCH", "/api/admin/employers/id">>,
     <<"DELETE", "/api/admin/employers/id">>,
     <<"POST", "/api/admin/admins">>})

-----------------------------------------------------------------------------
(* csrf.go: a write to these is let through without a CSRF cookie *)
PublicAuthPaths ==
  {"/api/auth/signup", "/api/auth/login", "/api/auth/forgot-password",
   "/api/auth/reset-password", "/api/admin/login"}

AuthRoutes ==
  Behind(<<"auth">>,
    {<<"POST", "/api/auth/signup">>, <<"POST", "/api/auth/login">>,
     <<"GET", "/api/auth/verify">>, <<"GET", "/api/auth/csrf">>})
  \cup Behind(<<"passwordReset">>,
    {<<"POST", "/api/auth/forgot-password">>,
     <<"POST", "/api/auth/reset-password">>})

JobRoutes ==
  Behind(<<"ClientAuth", "write">>,
    {<<"GET", "/api/jobs">>, <<"POST", "/api/jobs">>,
     <<"PUT", "/api/jobs/id">>, <<"DELETE", "/api/jobs/id">>})
  \cup Behind(<<"ClientAuth">>, {<<"GET", "/api/jobs/id">>})

ProfileRoutes ==
  Behind(<<"ClientAuth">>,
    {<<"GET", "/api/auth/me">>, <<"PATCH", "/api/auth/me">>,
     <<"POST", "/api/auth/logout">>})

(* store != nil holds of a nil pointer too, and so does the assertion that *)
(* the client is a *LocalClient *)
UploadRoutes(store) ==
  Behind(<<"ClientAuth", "write">>, {<<"POST", "/api/auth/upload-url">>})
  \cup Behind(<<"AdminAuth", "write">>, {<<"POST", "/api/admin/cloudinary-upload">>})
  \cup IF store \notin {"local", "nil local"} THEN {}
       ELSE Behind(<<"ClientAuth", "write">>,
              {<<"POST", "/api/auth/local-upload">>, <<"PUT", "/api/auth/local-upload">>})
            \cup Behind(<<"AdminAuth", "write">>,
              {<<"POST", "/api/admin/upload">>, <<"PUT", "/api/admin/upload">>})
            \cup Behind(<<>>, {<<"GET", "/uploads/*">>})

ModeratorRoutes ==
  Behind(<<"AdminAuth">>,
    {<<"GET", "/api/admin/me">>, <<"PATCH", "/api/admin/me/password">>,
     <<"POST", "/api/admin/logout">>})
  \cup Behind(<<"AdminAuth", "ModeratorOrAbove">>,
    {<<"GET", "/api/admin/jobs">>, <<"GET", "/api/admin/employers/pending">>})
  \cup Behind(<<"AdminAuth", "ModeratorOrAbove", "write">>,
    {<<"PUT", "/api/admin/jobs/id/status">>, <<"DELETE", "/api/admin/jobs/id">>,
     <<"PUT", "/api/admin/employers/id/verify">>})

SuperAdminRoutes ==
  Behind(<<"AdminAuth", "SuperAdminOnly">>,
    {<<"GET", "/api/admin/employers">>, <<"GET", "/api/admin/employers/id">>,
     <<"GET", "/api/admin/admins">>})
  \cup Behind(<<"AdminAuth", "SuperAdminOnly", "write">>,
    {<<"POST", "/api/admin/employers">>,
     <<"PATCH", "/api/admin/employers/id">>,
     <<"DELETE", "/api/admin/employers/id">>,
     <<"POST", "/api/admin/admins">>})

PublicRoutes ==
  Behind(<<>>, {<<"GET", "/health">>})
  \cup Behind(<<"adminAuth">>, {<<"POST", "/api/admin/login">>})
  \cup Behind(<<"public">>,
    {<<"GET", "/api/public/jobs">>, <<"GET", "/api/public/employers">>})

Routes(store) ==
  PublicRoutes \cup AuthRoutes \cup JobRoutes \cup ProfileRoutes
    \cup UploadRoutes(store) \cup ModeratorRoutes \cup SuperAdminRoutes

Path  == {e.path : e \in Routes("local")}
Chain == {e.chain : e \in Routes("local")}

(* a group's Use runs before the group looks for a route in itself; a 405 *)
(* for a known path is not told from the 404 *)
Unrouted(path) ==
  IF path \in {"/api/jobs", "/api/jobs/id", "/api/auth/me"}
  THEN <<"ClientAuth", "404">> ELSE <<"404">>

-----------------------------------------------------------------------------
VARIABLES
  store,   \* what NewStorageClient returned
  bucket,  \* each limiter's tokens for the address
  req      \* the requests

gatewayVars == <<store, bucket, req>>

(* what stands between a request and its answer; every way ends in a Final *)
Final == {"route", "handler", "404"}
Guard == {"ClientAuth", "AdminAuth", "ModeratorOrAbove", "SuperAdminOnly"}
Stage == {"CORS", "CSRF"} \cup Guard \cup Limiter \cup Final

(* A request: what it brings (csrf: a cookie and a header that agree), what*)
(* is still before it, what it cost, and the response's status.            *)
Request ==
  [method : Method, path : Path, cred : Cred, csrf : BOOLEAN,
   todo   : Seq(Stage),
   paid   : SUBSET Limiter,
   status : {"pending", "204", "401", "403", "404", "429", "200", "500"}]

NoRequest == [status |-> "none"]

GatewayInit ==
  /\ store \in Stores
  /\ bucket = [l \in Limiter |-> Burst]
  /\ req = [r \in Slots |-> NoRequest]

Pending(r) == req[r].status = "pending"
At(r, stage) == Pending(r) /\ Head(req[r].todo) = stage

Respond(r, status) == req' = [req EXCEPT ![r].status = status]
PassOn(r)          == req' = [req EXCEPT ![r].todo = Tail(@)]

(* chi runs Logger, Recoverer, CORS, SecurityHeaders and CSRFMiddleware,   *)
(* in this order, before it looks for a route; the first two and the fourth*)
(* answer nothing themselves *)
Arrive(r, method, path, cred, csrf) ==
  /\ req[r] = NoRequest
  /\ req' = [req EXCEPT ![r] =
       [method |-> method, path |-> path, cred |-> cred, csrf |-> csrf,
        todo |-> <<"CORS", "CSRF", "route">>, paid |-> {},
        status |-> "pending"]]
  /\ UNCHANGED <<store, bucket>>

(* The headers CORS sets are left out; a preflight ends here. *)
CORS(r) ==
  /\ At(r, "CORS")
  /\ IF req[r].method = "OPTIONS" THEN Respond(r, "204") ELSE PassOn(r)
  /\ UNCHANGED <<store, bucket>>

CSRFPasses(q) ==
  q.method \in {"GET", "OPTIONS"} \/ q.path \in PublicAuthPaths \/ q.csrf

CSRFMiddleware(r) ==
  /\ At(r, "CSRF")
  /\ IF CSRFPasses(req[r]) THEN PassOn(r) ELSE Respond(r, "403")
  /\ UNCHANGED <<store, bucket>>

Route(r) ==
  LET matching == {e \in Routes(store) :
                     e.method = req[r].method /\ e.path = req[r].path}
      found == \E e \in matching : req' =
                 [req EXCEPT ![r].todo = Append(e.chain, "handler")]
  IN
  /\ At(r, "route")
  /\ IF matching # {} THEN found
     ELSE req' = [req EXCEPT ![r].todo = Unrouted(req[r].path)]
  /\ UNCHANGED <<store, bucket>>

(* requireAuth: no token is a 401, one of the other kind a 403; and        *)
(* AdminRoleAtLeast *)
Admits(stage) ==
  CASE stage = "ClientAuth"       -> {"client"}
    [] stage = "AdminAuth"        -> {"moderator", "super_admin"}
    [] stage = "ModeratorOrAbove" -> {"moderator", "super_admin"}
    [] stage = "SuperAdminOnly"   -> {"super_admin"}

Authorize(r, stage) ==
  /\ At(r, stage)
  /\ CASE req[r].cred = "none"          -> Respond(r, "401")
       [] req[r].cred \in Admits(stage) -> PassOn(r)
       [] OTHER                         -> Respond(r, "403")
  /\ UNCHANGED <<store, bucket>>

(* Burst tokens, and a request that finds none *)
RateLimit(r, l) ==
  /\ At(r, l)
  /\ IF bucket[l] > 0
     THEN /\ req' = [req EXCEPT ![r].todo = Tail(@), ![r].paid = @ \cup {l}]
          /\ bucket' = [bucket EXCEPT ![l] = @ - 1]
     ELSE Respond(r, "429") /\ UNCHANGED bucket
  /\ UNCHANGED <<store>>

NotFound(r) ==
  /\ At(r, "404")
  /\ Respond(r, "404")
  /\ UNCHANGED <<store, bucket>>

(* the handlers that use the client main got from NewStorageClient; the    *)
(* admins' Cloudinary upload makes one of its own and checks it *)
UsesStore(path) ==
  path \in {"/api/auth/upload-url", "/api/auth/local-upload",
            "/api/admin/upload", "/uploads/*"}

(* a nil pointer panics, and Recoverer answers *)
Handle(r) ==
  /\ At(r, "handler")
  /\ Respond(r, IF UsesStore(req[r].path) /\ store \in {"nil r2", "nil local"}
                THEN "500" ELSE "200")
  /\ UNCHANGED <<store, bucket>>

(* the client has its response *)
Answered(r) ==
  /\ req[r] # NoRequest /\ ~Pending(r)
  /\ req' = [req EXCEPT ![r] = NoRequest]
  /\ UNCHANGED <<store, bucket>>

Refill(l) ==
  /\ bucket[l] < Burst
  /\ bucket' = [bucket EXCEPT ![l] = @ + 1]
  /\ UNCHANGED <<store, req>>

GatewayNext ==
  \/ \E r \in Slots :
       \/ \E method \in Method, path \in Path, cred \in Cred, csrf \in BOOLEAN :
            Arrive(r, method, path, cred, csrf)
       \/ CORS(r)
       \/ CSRFMiddleware(r)
       \/ Route(r)
       \/ \E stage \in Guard : Authorize(r, stage)
       \/ \E l \in Limiter : RateLimit(r, l)
       \/ NotFound(r)
       \/ Handle(r)
       \/ Answered(r)
  \/ \E l \in Limiter : Refill(l)

GatewaySpec == GatewayInit /\ [][GatewayNext]_gatewayVars

-----------------------------------------------------------------------------
(***************************************************************************)
(* Correctness.                                                            *)
(***************************************************************************)

GatewayTypeOK ==
  /\ store \in Store
  /\ bucket \in [Limiter -> 0 .. Burst]
  /\ req \in [Slots -> Request \cup {NoRequest}]

Served(q) == q.status \in {"200", "500"}

(* README.md, API Endpoints: who may call what.  The routes it does not    *)
(* list are taken by the group their path is in. *)
ReadmeSuperAdmin ==
  {"/api/admin/employers", "/api/admin/employers/id", "/api/admin/admins"}
ReadmeAdmin ==
  {"/api/admin/me", "/api/admin/me/password", "/api/admin/logout",
   "/api/admin/jobs", "/api/admin/jobs/id/status", "/api/admin/jobs/id",
   "/api/admin/employers/pending", "/api/admin/employers/id/verify",
   "/api/admin/upload", "/api/admin/cloudinary-upload"}
ReadmeClient ==
  {"/api/auth/me", "/api/auth/logout", "/api/jobs", "/api/jobs/id",
   "/api/auth/upload-url", "/api/auth/local-upload"}

(* A handler serves whom the README says: employers their own routes, any  *)
(* admin the moderation, super admins the accounts, and everybody the rest *)
(* (the nesting of Route, Group, Use and With in main).                    *)
ServedAsDocumented ==
  \A r \in Slots :
    Served(req[r]) =>
      /\ req[r].path \in ReadmeSuperAdmin => req[r].cred = "super_admin"
      /\ req[r].path \in ReadmeAdmin => req[r].cred \in {"moderator", "super_admin"}
      /\ req[r].path \in ReadmeClient => req[r].cred = "client"

(* A handler that acts for a session and changes something is reached with *)
(* a CSRF token only: what CSRFMiddleware exempts by path and what it      *)
(* exempts by method are routes without a session, or reads.               *)
SessionWritesGuarded ==
  \A r \in Slots :
    /\ Served(req[r])
    /\ req[r].path \in ReadmeSuperAdmin \cup ReadmeAdmin \cup ReadmeClient
    => req[r].method = "GET" \/ req[r].csrf

(* Only a request that reaches its handler costs a token: a preflight, a   *)
(* forged write, an unknown path and a caller without the right role       *)
(* cannot use up what others behind the same address may still do (the     *)
(* limiter is the last middleware of its chain). *)
RefusalIsFree ==
  \A r \in Slots :
    req[r].status \in {"204", "401", "403", "404", "429"} => req[r].paid = {}

-----------------------------------------------------------------------------
(***************************************************************************)
(* The inductive invariant.                                                *)
(***************************************************************************)

(* a way to a handler or to an answer: one Final, at its end, and nothing  *)
(* between the limiter and the handler *)
WayOK(todo) ==
  /\ Len(todo) > 0
  /\ \A i \in 1 .. Len(todo) :
       /\ todo[i] \in Final <=> i = Len(todo)
       /\ todo[i] \in Limiter => i + 1 = Len(todo) /\ todo[Len(todo)] = "handler"

Ahead(q) == {q.todo[i] : i \in 1 .. Len(q.todo)}

(* q has the role stage asks for, or stage is still before it *)
Guarded(q, stage) == stage \in Ahead(q) \/ q.cred \in Admits(stage)

(* the global middleware is before q, or has let it pass *)
Screened(q) ==
  /\ "CORS" \in Ahead(q) => q.todo = <<"CORS", "CSRF", "route">>
  /\ "CSRF" \in Ahead(q) \/ CSRFPasses(q)
  /\ "CORS" \in Ahead(q) \/ q.method # "OPTIONS"

(* what the README promises of q's path is kept by what is before q *)
Kept(q) ==
  \/ Ahead(q) \cap {"route", "404"} # {}
  \/ /\ q.path \in ReadmeSuperAdmin => Guarded(q, "SuperAdminOnly")
     /\ q.path \in ReadmeAdmin => Guarded(q, "AdminAuth")
     /\ q.path \in ReadmeClient => Guarded(q, "ClientAuth")

OnItsWay(q) == WayOK(q.todo) /\ Screened(q) /\ Kept(q)

(* only a request with nothing but its handler before it has paid *)
PaidInv ==
  \A r \in Slots : req[r] # NoRequest /\ req[r].paid # {} =>
    req[r].todo = <<"handler">> /\ req[r].status \in {"pending", "200", "500"}

WayInv == \A r \in Slots : Pending(r) => OnItsWay(req[r])

GatewayIInv ==
  /\ GatewayTypeOK
  /\ WayInv
  /\ PaidInv
  /\ ServedAsDocumented
  /\ SessionWritesGuarded
  /\ RefusalIsFree
=============================================================================
