# A verification development of WireHireBackEnd

WireHireBackEnd is the Go back end of a job board: employers register, verify
their address and post jobs; moderators approve or reject them; the public
reads what was approved. It is one process over one SQLite file. This directory
models it in TLA+, checks the models with TLC on small instances, and
proves the properties that matter for every value of the constants with TLAPS.

    tlc -workers 2 -config MCAccounts.cfg MCAccounts      # one run
    tlapm Accounts_proofs.tla                             # one proof module

`PROJECT.json` lists the runs, the mutants, the source lines behind every
definition, the findings, the hazards and the theorems.

## 1. Inventory

| Part | Source | State it keeps | Operations | Hard parts | Modelled in |
|---|---|---|---|---|---|
| Employer accounts | `repository/company.go`, `handlers/{company,verify,admin}.go` | `CLIENTS` rows: address, password hash, verified, two token hashes with expiry, profile | signup, verify, forgot, reset, login, profile edits, admin create/update/verify/delete | every handler is several statements without a transaction; tokens are in flight in mails; ids are in JWTs for 72 h | `Accounts`, `Memberships`, `Profiles` |
| Job listings | `repository/job.go`, `handlers/{job,admin}.go` | `JOBSAPPS` rows: owner, text, status | create, edit (read, merge, write), delete, moderate, delete with the employer | stale edits; the one transaction of the program, over a pool of one connection; JWTs of deleted employers | `JobBoard`, `Listings` |
| Rate limiting | `middleware/ratelimit.go` | map from address to token bucket and last-seen time, under a mutex | `get`, `Allow`, the collector | `Allow` leaves the mutex before it uses the bucket; buckets are thrown away | `RateLimiter`, `TokenBucket`; routes in `Gateway` |
| Sessions | `middleware/{auth,csrf}.go` | none on the server: JWT (72 h) and CSRF cookie (24 h) in the browser | issue, check, clear; role checks | nothing can be revoked; two lifetimes; one cookie name for employers and admins; answers overtake each other | `Sessions` |
| Admin accounts | `repository/admin.go`, `handlers/admin.go`, `runSeed` | `ADMINS` rows | login, create, change password, `seed-admin` as a second process | check-then-write; two processes on one file; four defaults for a role | `Admins` |
| Uploads | `handlers/upload.go`, `storage/*` | files or objects, URLs issued | issue a URL, upload, serve | partial files; retries of an upload that still runs; an endpoint that takes any key; nil clients | `Uploads`; the nil client in `Gateway` |
| Database | `pkg/database/sqlite.go` | schema, pragmas, the connection | open, migrate | migration is repeated on every start, cut anywhere, by two processes | `Migration`; constraints in the modules of the tables |
| Server | `cmd/server/main.go` | routes, limiters, listener | start, route, shut down with a 10 s limit | requests cut between two statements; a mail server that never answers; the order of middleware | `Lifecycle`, `Gateway` |
| Email | `email/sender.go` | none | `Send` through console, SMTP or Resend; two templates | errors are discarded by the callers; no timeout; escaped text is split afterwards | `Accounts` and `Lifecycle` (`Send`), `Texts` (text to HTML) |
| Validation, categories | `middleware/{security,categories}.go` | none | pure checks | validated trimmed, stored untrimmed, under the limit of a body; bytes against characters; two ways to read an id | `Texts` |
| CORS, security headers | `middleware/security.go` | none | a middleware each | the default of `CORS_ORIGIN` | preflights in `Gateway` |

All paths are under `src/internal/` unless they say otherwise. How the parts
meet: `net/http` runs each request on its own goroutine; middleware (CSRF, rate
limit, JWT, role) runs first, then a handler calls a repository, which runs
statements on the shared `*sql.DB`; signup and forgot-password call the mail
service synchronously. The only shared memory is the pool and the limiters'
maps. No handler holds a transaction, except `ClientRepo.Delete`.

At this commit the `handlers` package does not compile: `handlers/admin.go`
calls `ClientRepo.Verify`, which does not exist (line 537), and
`handlers/upload.go` holds two files in one. `Verify` is therefore modelled by
what its caller needs: it sets `verified`, and may or may not clear the
verification token. The properties hold either way.

What makes each part correct:

- accounts: one account per address; an id means one account for ever; a token
  works once and only for the account it was stored for and reaches only that
  account's address; a deleted account stays deleted;
- profiles: an edit disturbs nothing but its columns, and takes nobody out of the
  directory;
- listings: no job without its employer; an employer goes with all of its jobs
  or not at all; only moderators decide; an edit reaches the job it read;
- rate limiting: the rate holds for every address although buckets are thrown
  away; the map is bounded by recent traffic; a refused request costs nothing;
- sessions: a page writes only as the account it was logged in as; access that
  cannot be revoked ends in time; roles in tokens are those of the table;
- admins: one account per person; roles are given, never defaulted upwards;
- uploads: what an answered upload left behind is whole; no upload over the limit
  is answered, and no file passes it;
- database: the schema is complete after every start that succeeds;
- server: a clean exit has cut no request off; a signal always ends the process;
- texts: what a job shows can be sent back, as far as a body holds it; an id that is
  shown is read as the same number everywhere; what a mail says survives its markup.

## 2. Modules

| Module | What it is |
|---|---|
| `Memberships` | what the accounts promise: every change is one step, and a link acts on the account it was made for |
| `Accounts` | the `CLIENTS` table and every handler that writes it, split at each statement and mail, implementing `Memberships` |
| `Profiles` | the profile columns of `CLIENTS` and the directory made of them |
| `Listings` | what the job board promises: every visible change is one step |
| `JobBoard` | the `JOBSAPPS` table, the handlers and the transaction, implementing `Listings` |
| `TokenBucket` | what a rate limiter promises: one bucket per address, kept for ever |
| `RateLimiter` | the map, the buckets, the gap in `Allow` and the collector, implementing `TokenBucket` |
| `Sessions` | JWTs and the two cookies, in the server's checks, in browsers, and on their way |
| `Gateway` | the table of routes and the middleware before each, over the shared limiters |
| `Admins` | the `ADMINS` table, its handlers and the seed command |
| `Uploads` | issued URLs, uploads block by block, and what is served |
| `Migration` | `NewDB` and `migrate`, by two processes on one file |
| `Lifecycle` | one life of the server: listener, signal, shutdown, handlers, connection, mails |
| `Texts` | the texts and the category of a job through `Create` and `Update`; and the program's own loops over characters: `parseInt64`, the HTML escaper, `splitParagraphs` |

`MC<Module>` is the instance for TLC, `<Module>_proofs` holds the theorems, except
that `Server_proofs` has those of `Lifecycle`, `Migration` and `Gateway`, and
`Pages_proofs` those of `Profiles` and `Texts`. Where two specifications meet in one
proof module, one of them carries its name in its general definitions
(`GatewaySpec`, `ProfilesInit`). The
operators with an underscore in their name (`Good_NoExpiry`) are mistakes one
could make in the code. They belong to no specification: each property of a run
is broken when one of them replaces the operator it is named after.

How the modules compose. One model of everything would be beyond TLC, so the
modules meet at facts that one of them proves and another uses: `Profiles` takes
ids as used once (`Accounts`, `HandleIdentity`) and deletion with all jobs as one
step (`JobBoard`, `KeepsPromise`); `Sessions` takes accounts that come and go as
`Accounts` and `Admins` let them; `Gateway` takes a limiter for one bucket
(`RateLimiter`, `ForgettingIsInvisible`); `JobBoard` and `Lifecycle` both have the
one connection, the first with what is written under it, the second with who
waits for it when the process ends; `Admins` takes the constraint `UNIQUE` as
there (`Migration`, `ReadyIsComplete`).

### Accounts

*State.* `clients` is the table, a function from ids to rows (an id whose
address is absent has no row), without the profile columns. `lastId` is
SQLite's `sqlite_sequence`. `mail` is the set of mails that arrived: it never
shrinks, so a recipient may act on a mail late, twice, out of order or never.
`sessions` are the JWTs issued; they are not removed at 72 hours, which only
adds behaviours. `req` holds, for each request in flight, the statement it runs
next and what its handler has captured. `births`, `born`, `storedAt` and
`spent` are history: nothing the program does depends on them.

*Actions.* One action is one statement (or one `Send`) and the pure code after
it. `SignupLookup`, `SignupInsert`, `SignupMail` are the three parts of
`Signup`, and so on for the others; a handler with one statement is one action.
A branch that answers without writing is a stuttering step. Three details of the
code are kept on purpose: `Signup` and `CreateEmployer` ignore the error of
their lookup, so their lookups have no guard; `ForgotPassword` stores its token
by address, so `SetResetToken` looks the address up again; `ResetPassword`
writes by id and does not look at the token again.

*Tokens.* `generateTokenHex` draws 32 random bytes: a token is the next number
never drawn before. The code stores hashes and compares hashes; the model keeps
the token itself, because a hash is only ever compared.

*Failures.* `Fails` ends a request at any statement with nothing undone;
`SendMail` delivers or loses; `Crash` ends every request and keeps the tables;
`TokenExpires` may happen at any time.

*Promise.* `Memberships` has no statements, no requests and no mails: a person
joins, is admitted, asks for a link, opens it (`Claim`), acts on it (`Confirm`,
`Reset`), is changed, judged or removed by an admin, each in one step. A claim is
what a handler has found and not yet acted on; that it may be used twice, or when
its account is gone, is said there and nowhere else. An account is its address,
password, standing and two links, and which of them lapsed. `Accounts` maps to it
by `AsAccount` (a row, without its history), `Acting` and `AsClaim` (a handler past
its lookup of a token is a claim); the tokens issued are those that were ever stored
for an address, and the ids given those up to `lastId`.

*Not kept.* Which of the employer's profile columns change; the bcrypt cost;
the handlers that only read.

### JobBoard and Listings

*State.* `employers` and `jobs` are the committed tables, `tx` the tables as the
open transaction sees them, `conn` the holder of the one connection. The guard
`Free` on every statement outside a transaction is `SetMaxOpenConns(1)`: the
statement waits. `req` holds edits between their read and their write, and
delete transactions between their statements. `births`, `postedBy`, `removed`
and `born` are history.

*Actions.* `EditLookup` and `EditWrite` are `JobHandler.Update` at its two
statements, with the merge of omitted columns between; `TxBegin` ...
`TxCommit` are `ClientRepo.Delete`, and `TxRollback` its deferred `Rollback`
after any failure. The employer's id comes from a JWT that nobody revokes, so
`CreateJob` and `EditLookup` run for every id; only the foreign key (and
`WHERE client_id = ?`) stand in the way.

*Promise.* `Listings` has no requests, no transaction and no stale reads:
joining, posting under a fresh id, editing, deciding, removing, and leaving with
all jobs in one step. `KeepsPromise` says that JobBoard implements it, with the
committed tables as the visible state.

### RateLimiter and TokenBucket

*State.* `limiters` is the map, `heap` the `rate.Limiter` objects (a request may
hold one the map has lost), `now` a clock, `due` the ticker of the collector.
`Credit` is the lazy refill of `x/time/rate`, which is external and modelled from
its use here: `NewLimiter(r, b)` is full, `Allow` takes one token or changes
nothing.

*Actions.* `GetKnown`/`GetUnknown` are `get` under the mutex; `AllowYes` and
`AllowNo` the bucket's own atomic step after the mutex is released, with the
answer of `RateLimit`; `Collect` one round of `gcLoop`.

*Promise.* `TokenBucket` never forgets. `ForgettingIsInvisible` says that every
answer is the one it would give. It needs the assumption `RefillsInTime`: a
bucket fills within `ttl` less the longest suspension of a goroutine. The five
limiters of `main` fill in at most 30 s, `ttl` is 600 s, so the assumption
holds unless a goroutine sleeps for more than nine minutes between `get` and
`Allow`. It also says what would break it: a limiter of, say, one request an
hour. The model covers one life of the process; a restart empties the map.

### Sessions

*State.* `standing` and `role` are what the tables say of an account. A browser
has a `jar` (both cookies and when it drops them), the CSRF values its pages may
still hold (`seen`), and any client may hold a JWT (`held`) and send it as Bearer.
`req` are the requests in flight: a login past its lookup, a request on its way
with what it carries, an answer on its way back. `lastGood`, `loginOf` and
`arrived` are history.

*Actions.* `LoginLookup` and `LoginIssue` are the two halves of both `Login`
handlers, the bcrypt comparison between them. `Send` takes the cookies of that
moment; `Answer` and `Logout` run the checks later, against `Passes`: the CSRF
comparison, then the Bearer header before the cookie, then the role.
`DeliverLogin`, `DeliverCsrf` and `DeliverLogout` are the `Set-Cookie` headers of
an answer reaching the browser, in any order; `LoseAnswer` one that does not.
`LoseStanding` is an admin's unverify or delete. A login's gap is bounded by
`MaxDelay`, the network by nothing.

*Not kept.* The signature: a client sends JWTs it was given. Random values do
not collide, and a client does not guess one.

### Gateway

*State.* `bucket` holds one bucket for each of the five limiters, `req` the
requests with the rest of their chain of middleware, `store` what the storage
configuration made, which decides on the upload routes.

*Actions.* One per middleware: `CORS`, `CSRFMiddleware`, `Route` (chi looks the
path up *after* the global middleware), `Authorize` for the three kinds of
authentication, `RateLimit`, `Handle`; `Refill` is time. `Routes` is the table of
`main`, each set with the chain its `Route`, `Group`, `Use` and `With` give it.
What a handler does is in the other modules; here it answers 200, or 500 when it
dereferences the storage client that could not be made.

### Admins

*State.* `admins` is the table with a row's history (the role asked for and by
whom), `sessions` the JWTs with the role at the login, `req` logins and password
changes between their lookup and their end.

*Actions.* `Seed` is the command: lower case, trim, insert as super admin, in
its own process. `CreateAdmin` normalises in another file and takes "moderator"
for a missing role; `StoredRole` is the repository's own default. `ChangeLookup`
compares the old password, `ChangeWrite` writes by id later.

### Uploads

*State.* `files` says, for each key and each place in the file, which body's
block is there, a hole or nothing. `up` are the uploads in their handlers, with
the offset each writes at (`pos`) and how much its reader gives before it ends
or fails (`reads`); `last` is who truncated the file last; `issued` is what type
each key's URL was made for.

*Actions.* `GetUploadURL`; `LocalOpen` and `AdminOpen` are `os.Create`, which
truncates under a writer that goes on; `WriteBlock` is one turn of `io.Copy`;
`Answer`, `Fail` and `Crash` end an upload and undo nothing. `R2Put` is the
browser's own PUT to R2, which is external and atomic. `Decoded` is what
`url.Query` makes of a content type that was put into a URL unescaped.

*Any key.* `HandleLocalUpload` compares the key in its query with none that was
issued, and the type with its own list only: `LocalOpen` opens every key, those of
admins' images included. So nothing promises that a file stays what it was; what
is promised is that whoever truncated it last, and was answered, left it whole.

*Limits.* A form is measured once (`FormFits`) and copied without a limit; a raw
body breaks off behind the limit (`RawReads`) and its copy fails, so `Complete`
asks for all of the body.

### Migration

*State.* `file` is the schema, the set of tables, indexes and late columns;
`roles` what the rows of `ADMINS` say; `pc` and `next` where each process is.

*Actions.* `Open` and `Migrate` run `Statements`, the twelve of `migrate` in its
order; `Duplicate` is the one error it ignores. `Fault` is any other: a lock held
by the other process (no `busy_timeout` is set), a full disk, a crash; it ends
the process. `CreateAdmin` and `Seed` write rows meanwhile.

### Lifecycle

*State.* `main` is the main goroutine, `handler` and `rest` each request's
goroutine and what it has left to do, `conn` the connection's holder.

*Actions.* `Signal`, `BeginShutdown` (the listener closes), `ShutdownEnds` or
`GiveUp` after ten seconds, `CloseDB` (deferred), `Return`; `log.Fatalf` is an
exit that runs no deferred call. `Accept`, `ReadBody`, `Take`, `Statement`,
`MailEnds`, `Answer` are a handler's. Time is left out but for the order of what
it bounds.

### Profiles

*State.* `clients`, `verified` and `jobs`, with the columns the pages show; an
edit keeps what later edits wrote to its columns (`seen`, history).

*Actions.* `UpdateMe` (one statement) and `UpdateEmployerLookup`,
`UpdateEmployerWrite` (two), then `ReadBack`, the second read that makes the
answer; `UpdateFails`. `Listed` is the query of the directory. The two columns
stand for the seven: a name, which no handler lets be blank, and the rest, which
may be.

### Texts

One job goes through `Create` and any number of `Update`s; a text is a sequence
of characters that are space, narrow or wide. `Fits` is the limit of a request's
body, which both handlers set before they decode it; `Limit` is the validators', of
a text without the white space around it. Beside it the steps enumerate an id
and a mail a character at a time, and the invariants compare the program's loops
with a reference definition: `strconv.ParseInt`, with its signs and its range, for
`parseInt64`, and what a reader sees for the HTML. Every loop is `Loop` over a
function from what it has and the next character to what it has then: one
operator per turn (`Turn`, `Escaped`, `Split`), as the body of the `for` has it.

## 3. Runs

| Run | Bounds | What it shows |
|---|---|---|
| `accounts` | 2 requests, 2 addresses, 1 password, 2 accounts, 2 tokens, 1 JWT | five properties and the refinement, under every interleaving of two handlers |
| `jobs` | 2 requests, 1 column, 2 texts, 2 employers, 2 jobs | safety, the refinement, and liveness over one connection |
| `rate_limiter` | 2 addresses, 2 requests, 2 buckets, burst 2, ttl 3, delay 1, 9 ticks | the promise, the bound and the forgetting |
| `sessions` | 1 employer, 1 admin, 1 browser, 2 requests, 2 CSRF values, token 2 ticks, CSRF cookie 1, no delay, 2 ticks | who a write acts for when logins, logouts and CSRF answers overtake each other, and what ends when |
| `gateway` | 1 request at a time, every method, path and credential, burst 1; local, Cloudinary, and a nil storage client | who reaches which handler, with which CSRF token, at whose cost |
| `admins` | 3 people, 2 passwords, 2 requests, 3 rows | one account each, no escalation, and who changes a password |
| `uploads` | 1 key, 2 names, bodies of 0 to 3 blocks, limit 2, 3 uploads, forms and raw bodies | what a file holds when uploads overlap, fail, are retried, are too large |
| `migration` | 2 processes, 2 admins, an empty file and 8 older ones, 2 faults | schema, roles, and that the server comes up |
| `lifecycle` | 3 requests of 1 or 2 statements and a mail | clean exits, and liveness |
| `profiles` | 1 account, 2 jobs, 2 texts, 2 edits | edits against edits, and the directory |
| `texts` | job texts of up to 3 characters, limit 2, body 4; ids of up to 5 characters, signs included, base 4 in a word of 32 values; mails of up to 6 characters | what is stored can be sent back; both parsers; the HTML |
| `reset_login` | 2 requests, 2 addresses, 1 account, 2 tokens, 1 JWT | violated: finding 1 |

*Why the bounds are enough.* A check-then-write race needs two requests; so does
every stale read. Two accounts are needed for an id or an address to be taken over,
and one deletion with one insertion for an id to be reused. Two tokens let one
supersede another, or be drawn while another is spent. In `jobs`, two employers
separate ownership from existence, two jobs let an id be reused, and two requests
let one wait for the connection while the other takes turn after turn. In
`rate_limiter` a third bucket would only be used if two addresses were known and a
request held a bucket the map had lost; one known address and such a request fit in
two. In `sessions` an employer and an admin in one browser are what the shared
cookie name needs, two answers can overtake each other, and a CSRF cookie lapses
before the token beside it does. In `uploads` three uploads are an attempt, its
retry and a stranger's, of the same file: no action relates two files, and the
theorems are about any number of them. Bodies go from empty to one block past the
limit. In `migration` two faults cut one start and its repetition; the older files
are those with any of the three later additions; of columns, only those that
`migrate` adds with ALTER may be missing. In `lifecycle` three handlers are one with
the connection, one that waits for it and one in a mail. In `gateway` a bucket of
one is full, then empty. `texts` has ids longer than its word: 4^5 is 32 times 32;
and a title at its limit and a location between blanks are beyond a body. The
properties that are proved hold for all bounds: a third token in flight, a login
that takes time (`MaxDelay` above 0) and a second browser are left to the proofs.

Two instances are cut by constraints of their MC modules. `OneTokenWithJwt`
(`accounts`): a JWT is watched only while at most one token has been drawn; and
`Calm`: with both accounts made and both tokens drawn there is one request at a time.
`OneAtTheEnd` (`sessions`): at the last tick there is one request at a time. The
properties they bear on are proved without them.

*Symmetry* is used for addresses, people, passwords, requests, texts, keys, names
and buckets, which the specifications never order, and never in a run with a
liveness property (`jobs`, `migration`, `lifecycle`).

*Deadlock* is not checked where the system may really stop: an exited process
(`lifecycle`), inputs all enumerated (`texts`), uploads used up (`uploads`), the
one account used up and deleted (`profiles`).

*Type invariants.* Every specification has one; each is part of its inductive
invariant and is proved, so the runs do not repeat it. TLC checked each inductive
invariant on its run's instance before its proof was begun.

*Safety properties of accounts.* `EmailUnique`; `HandleIdentity` (ids in JWTs and
handlers); `SpentTokenGone` (a used token is in no row and never returns);
`MailMatchesStore` (a mail's token was stored for the address it went to, or
stored nowhere); `DeletedStaysDeleted`; and `TypeOK`, which also says that a row
is complete, and is proved.

*Of the other modules*, the ones that are least obvious: `WritesAsLoggedIn` (a
page that repeats the CSRF value of a login writes as whoever logged in then, or
not at all: it holds because one answer sets both cookies); `LastAnsweredIsWhole`
(a retry that succeeds repairs what the attempt before it left, even while that
one still writes, if it sends the same body); `FailsOnlyByFault` (a migration
never fails because of what the file already has, whoever put it there; a lock that
another process holds at that moment is a fault); `RefusalIsFree` (the
limiter is the last middleware of every chain, which is what keeps forged
requests from using up a shared address); `ShownCanBeSent` (one column, or any that
fit into a body: an untrimmed location may be so long that all columns at once do
not, and the form with all of them is refused); `ParsersAgree` (it says where the two
parsers part, over signs and overflow, and that they agree elsewhere).

*Fairness.*

- `jobs`: weak fairness for the statements of an open transaction: its
  goroutine holds the connection and nothing it waits for is held by others.
  Strong fairness for `EditWrite`: it needs the connection, which is free again
  and again but may be taken by others; `database/sql` hands a freed connection to
  one of the waiters, chosen at random, so one that waits is served in the end.
  Nothing is assumed about clients: nobody has to send a request.
- `migration`: weak fairness for the server's start and its statements, because
  docker-compose.yml has `restart: unless-stopped`; faults are bounded, which is
  the hypothesis under which `ServerComesUp` is meant. Nobody has to run the seed
  command.
- `lifecycle`: weak fairness for what goroutines can do by themselves and for the
  timers (`ReadTimeout` ends `ReadBody`, the ten seconds end the drain); strong
  fairness for the connection, as above. None for `Signal`, for new requests, or
  for the end of a mail: `net/smtp` has no timeout. So `SignalEnds` needs the ten
  seconds, and `MailStopsNobody` needs that a mail is sent without the connection.

## 4. Findings

1. `handlers/verify.go:170` answers a reset with "You can now log in."; a reset
   does not verify, and `Login` refuses the unverified (`company.go:154`). Run
   `reset_login`: sign up, lose the verification mail, reset the password through
   ForgotPassword, and the account is still refused.

Other places where the code and its words differ, seen while modelling and
without a run of their own:

- `handlers/verify.go:86` says that a reset link "has been sent" if the address
  is registered; line 110 discards the error of `Send`. `Accounts` may lose the
  mail of either handler.
- `storage/local.go:46` says of the URL that it returns that the frontend can post
  to it directly. `upload.go:21` also issues URLs for `image/jpg`, which
  `local.go:126` refuses; and `image/svg+xml` goes into the query unescaped, comes
  back with a blank, and is refused too. `AllowedContentTypes`, `AllowedTypes` and
  `Decoded` in `Uploads` have both lists and the query as they are.
- `middleware/security.go:85` says that a location must be under 200 characters. It
  is measured trimmed (line 80), and `Update` stores it as it was sent (`job.go:193`),
  so that it may be thousands long. A later form with all columns can then be over
  the limit of a body (`job.go:133`) and is refused; each column alone still passes
  (`ShownCanBeSent`).
- `storage/r2.go:54` says that a presigned URL constrains the size;
  `GeneratePresignedURL` never uses `maxBytes`. So `SizeBounded` is about local
  files only.
- The repository's README (line 105) says that all endpoints are rate-limited;
  `GET /api/jobs/{id}`, `/api/auth/me`, the admins' reads and others have no
  limiter. `Routes` in `Gateway` has them as they are.
- `cmd/server/main.go:75` says that image upload is disabled when storage is not
  configured. `NewStorageClient` returns a nil pointer in an interface that is
  not nil, so the test at line 78 registers the routes, and their handlers panic
  on the nil client: in `Gateway`, `Handle` answers 500.
- `middleware/security.go:161` says that `*` is only used when it is explicitly
  configured; `main.go:83` makes it the default.
- `middleware/security.go:52` says that a title must be *under* 200 characters;
  line 51 lets 200 through, and counts bytes, as `Texts` does.

## 5. Proofs

All proofs are checked by tlapm from the constants' assumptions alone, for every
value of the constants; the bounds (`MaxClients`, `MaxTokens`, `Horizon` and the
like) are constants too, so a theorem holds however large they are.

*Accounts.* `EmailUnique` is inductive by itself. The others are not:

- `HandleIdentity` follows from `IdInv`: `born` equals the id everywhere, because
  AUTOINCREMENT makes the id the number of the insertion (`births = lastId`).
- `SpentTokenGone` needs to know where a token can be. `DrawnInv`: nothing
  beyond the last token drawn is in use. `PendingInv`: a token drawn and not yet
  stored is known to its handler alone. `ColumnInv`: a stored token is in one
  column of one row. `FoundInv`: a handler that found a token in a row can only
  find it there, so clearing that row clears the token. Together they give
  `SpentInv`: a spent token is stored nowhere, and no pending handler can store
  it again.
- `MailMatchesStore` adds `MailingInv`: a handler about to mail a token stored it
  at the address it will use.

`IInv` is their conjunction with the types. The proofs go in three layers (types,
identities, tokens), with one lemma per kind of step that the token layer can
see: a row shrinks, a token is drawn, found, stored, or mailed.

*JobBoard.* `IInv` adds to the properties: `EditInv` (what an edit holds),
`IdInv` (ids only grow), `KeptInv` (a job is there unless it or its owner was
deleted) and `TxInv`, the heart of it: while a transaction is open, `tx` is what
its statements so far make of the *current* committed tables. That holds because
nobody else can write while it holds the connection, and it makes the commit one
`Leave` step of `Listings`. Theorem `Refines` maps every other step to the
`Listings` action of the same intent, or to a stutter.

*RateLimiter.* `HoldsCurrent` (a request in flight holds the bucket the map has)
and `ChargedInTime` (a bucket was last charged at most `MaxDelay` after its
address was last seen) give lemma `StaleIsFull`: what the collector throws away
is full and in nobody's hands. `PaidFor` is the conservation law behind
`RateBound`; `DueInv` is the clockwork behind `Forgotten`.

*Sessions.* `IInv` says what a token or a CSRF value must satisfy *wherever* it
is: in a jar, held by a client, carried by a request, or in an answer. `TokenInv`
(`Fine`): its role is the table's, and it expires within `TokenLife` and
`MaxDelay` of when its account was last in order; this gives `StaleAccessBounded`
and `RightfulActor`. `ValueInv`: a value on its way reaches one browser once.
`PairInv`: a token and a CSRF value side by side, in a jar or in a request, are of
the same login; this gives `WritesAsLoggedIn`, and is inductive because one answer
replaces both. `JarInv`: a cookie's life began when it arrived, hence
`CookieCoversToken` and `LapsedPageOnlyReads`.

*Uploads.* `FileOK` describes a file by who had it open: up to the offset of the
upload that truncated it last, every block is of that upload or of a rival that
was open then; beyond it, only rivals wrote, up to their own offsets. When the
last one is answered, its offset is its size, which is `LastAnsweredIsWhole`.
`HandlerOK` bounds what every reader gives (`reads`) by the limit, from the form's
check or from `MaxBytesReader`, and asks an answered upload for all of its body:
together they are `SizeBounded`.

*Migration.* `Progress`: what is before a process's next statement is in the
file. Nothing is taken out of a file, so it survives the other process, and at the
end it is `ReadyIsComplete`. `RolesFit` says that a role is unset only while the
column is missing, for `RolesSurvive`.

*Admins.* `RowsInv` (stored addresses are normalised) turns `UNIQUE` over texts
into `OneAccountEach` over people. `ClaimsInv` (a JWT's role is its row's, since no
statement changes a role) gives `NoEscalation`; `ChangesInv` ties a pending change
to a password its account has had.

*Lifecycle.* `DownInv`: once `main` has left `Shutdown` nothing runs, and nothing
can begin because the listener is closed. `ConnectionInUse` is inductive beside it.

*Accounts and Memberships.* `Refines` has one lemma for each kind of step that the
accounts can see: a row dropped, made, vouched for; a link found, acted on, asked
for; a row changed. `TableStep` and `ClaimsStep` reduce each to the one row and the
one slot it touches. A step needs the token layer of `IInv` twice: a token about to
be stored is in no link yet (`PendingInv`), so it may be issued; and a token found
is in no row but the one it was found in (`FoundInv`), so acting on a claim closes
its link. That is where a write by id, after a lookup by token, is shown to be
harmless; where the row is gone by then, the step is a stutter of `accounts`.

*Gateway.* `GatewayIInv` says of every request on its way what its remaining chain
will still do. `WayOK`: one final stage at the end, and a limiter only right before
the handler, for `RefusalIsFree`. `Screened`: the global middleware is still ahead
or has let the request pass. `Kept`: what the README asks of a path is ahead as a
stage or already true of the caller, for `ServedAsDocumented`; `Screened` and `Kept`
together give `SessionWritesGuarded`, since the exempted paths are of no session's.
The table of routes is evaluated once, in lemmas about its chains; the steps cite
those. The theorems are about any number of requests that share the limiters.

*Profiles.* `EditsInv`: an edit past its write has seen, for each column it named,
whatever that column holds now; so what it reads back is one of those
(`AnswersItsEdit`). `Valid` before every write keeps names solid (`StaysListed`).

*Texts.* `JobInv` says that every column passes its own validation once more and
alone fits into a body, from which `ShownCanBeSent` follows, and is inductive; its
lemmas are about `Trim`
(its result has solid ends, trimming again changes nothing). `ParsersAgree` and
`HtmlSaysTheText` are about what loops compute for texts of every length. The
library's induction theorems are out of reach, so lemma `Induction` states induction
for a *set* of numbers, from the least element of its complement, and `SeqInduction`
for a set of sequences. `LoopStep` says of every loop with typed turns how it begins,
what it has after one more character, and of what type that is; seven loops are
instances. For ids the rest is arithmetic of the remainder: `Wrap` is the identity
below half a word, and there only, and never changes a value modulo `Word`. For
mails it is `Says`, an
invariant of the splitter while the escaped mail goes through it: what is out and
what is held read as the mail so far, no ampersand waits for its other half (so no
split comes between the two), and the last new line held may be dropped unseen.
`PlainSays`, `SpecialSays` and `BreakSays` are its three kinds of turn. The step of
the specification needs of mails only that they are sequences of `Mark`.

*Only model-checked:* the liveness properties `EditsEnd`, `ServerComesUp`,
`SignalEnds` and `MailStopsNobody`, because liveness under fairness is beyond the
prover; and the violated claim `ResetEnablesLogin`.

*Only proved*, because they are parts of the inductive invariants or follow from
them at once: the type invariants; `CookieCoversToken` (a
cookie lasts as long as the token in it); `DbOutlivesHandlers`
(no handler meets a closed database).

## 6. Not modelled

- The Cloudinary upload handlers and the rest of the second file inside
  `handlers/upload.go`: they do not compile, and name things that do not exist.
- The wording and the markup of mails, the JSON encoding of answers, logging.
- `SecurityHeaders` and the headers of `CORS`, which are constants and settings; `CheckJWTSecret`, which refuses to
  start; `ValidateEmail`, `ValidatePassword`, `ValidatePhone` and
  `ValidateOptionalURL`, which check one value without state: the models take
  values that pass.
- `clientIP`: an address is a value. Which header it is read from is configuration.
- A loss of power under `synchronous=NORMAL` with WAL, which may undo the last
  commits after their answers; and a connection that `database/sql` replaces, on
  which `PRAGMA foreign_keys` would be off. Both are listed as hazards: what
  SQLite and the pool do there is outside the source.
- Cryptography: hashes, signatures and random values are taken to be what they
  should be.

## 7. What is left

In this order:

1. Two browsers and two accounts of a kind in `sessions`; two requests in
   `gateway`, which share the limiters. The theorems cover them already.
2. Durability: the tables as a committed and a durable part, with a power loss
   that undoes the difference, composed with the mails of `Accounts`.
