------------------------------ MODULE Lifecycle ------------------------------
(***************************************************************************)
(* One life of the server process: main listens, waits for a signal, shuts *)
(* the HTTP server down within ten seconds and closes the database         *)
(* (cmd/server/main.go), while handlers run on goroutines of their own,    *)
(* share the one connection of the pool (pkg/database/sqlite.go) and send  *)
(* mails without holding it (internal/email/sender.go).                    *)
(*                                                                         *)
(* A handler reads its request, runs statements, may send a mail, and      *)
(* answers.  A mail may never end: net/smtp sets no timeout.  A request    *)
(* body may never come: ReadTimeout ends the wait.  Time is left out but   *)
(* for the order of what it bounds: the ten seconds may be over at any     *)
(* time after the signal.                                                  *)
(***************************************************************************)
EXTENDS Sequences

CONSTANTS
  Requests,  \* requests being handled at once
  Nobody     \* the connection is in the pool

ASSUME NobodyIsNoRequest == Nobody \notin Requests

(* What a handler has to do once it has read its request: a list, an edit, *)
(* a signup or a forgotten password. *)
Work == {<<"stmt">>, <<"stmt", "stmt">>, <<"stmt", "stmt", "mail">>}

VARIABLES
  main,      \* where the main goroutine is, or how the process exited
  listener,  \* the listening socket
  signal,    \* SIGINT or SIGTERM has come: ctx is done
  db,        \* whether *sql.DB is open
  handler,   \* where each request's goroutine is
  rest,      \* what is still before it
  conn,      \* who has the connection
  cut        \* history: requests whose handler the end of the process cut short

vars == <<main, listener, signal, db, handler, rest, conn, cut>>

Exited == main \in {"exit 0", "exit 1"}

Init ==
  /\ main = "serving"
  /\ listener = "none"
  /\ signal = FALSE
  /\ db = "open"
  /\ handler = [r \in Requests |-> "idle"]
  /\ rest = [r \in Requests |-> << >>]
  /\ conn = Nobody
  /\ cut = {}

Running == {r \in Requests : handler[r] # "idle"}

-----------------------------------------------------------------------------
(***************************************************************************)
(* Plausible mistakes, for the mutation runs.                              *)
(***************************************************************************)

(* main goes on as soon as ListenAndServe has returned ErrServerClosed     *)
Drained_Closed == listener # "open"

(* Shutdown(context.Background()) *)
TimeIsUp_Never == FALSE

(* the mail is sent inside a transaction *)
GiveBack_AfterMail(r) == conn' = IF rest[r] = <<"stmt", "mail">> THEN r ELSE Nobody

-----------------------------------------------------------------------------
(* the process ends, and with it whatever its handlers were doing *)
Exit(status) ==
  /\ main' = status
  /\ listener' = "closed"
  /\ cut' = cut \cup Running
  /\ handler' = [r \in Requests |-> "idle"]
  /\ rest' = [r \in Requests |-> << >>]
  /\ conn' = Nobody

(* the serving goroutine; once main drains, ListenAndServe returns at once *)
Listen ==
  /\ main = "serving" /\ listener = "none"
  /\ listener' = "open"
  /\ UNCHANGED <<main, signal, db, handler, rest, conn, cut>>

(* the port is taken: log.Fatalf, which runs no deferred call *)
ListenFails ==
  /\ ~Exited /\ listener = "none"
  /\ Exit("exit 1")
  /\ UNCHANGED <<signal, db>>

(* a second signal changes nothing: NotifyContext is not stopped before    *)
(* main returns *)
Signal ==
  /\ ~Exited
  /\ signal' = TRUE
  /\ UNCHANGED <<main, listener, db, handler, rest, conn, cut>>

(* <-ctx.Done(), and Shutdown closes the listener if there is one *)
BeginShutdown ==
  /\ main = "serving" /\ signal
  /\ main' = "draining"
  /\ listener' = IF listener = "open" THEN "closed" ELSE listener
  /\ UNCHANGED <<signal, db, handler, rest, conn, cut>>

(* Shutdown has found every connection idle *)
Drained == Running = {}

ShutdownEnds ==
  /\ main = "draining"
  /\ Drained
  /\ main' = "returning"
  /\ UNCHANGED <<listener, signal, db, handler, rest, conn, cut>>

(* the deferred db.Close; then main has returned *)
CloseDB ==
  /\ main = "returning" /\ db = "open"
  /\ db' = "closed"
  /\ UNCHANGED <<main, listener, signal, handler, rest, conn, cut>>

Return ==
  /\ main = "returning" /\ db = "closed"
  /\ Exit("exit 0")
  /\ UNCHANGED <<signal, db>>

(* shutdownCtx *)
TimeIsUp == main = "draining"

(* ten seconds are over: log.Fatalf again, and no db.Close *)
GiveUp ==
  /\ main = "draining"
  /\ TimeIsUp
  /\ Exit("exit 1")
  /\ UNCHANGED <<signal, db>>

-----------------------------------------------------------------------------
Accept(r, work) ==
  /\ ~Exited /\ listener = "open"
  /\ handler[r] = "idle"
  /\ handler' = [handler EXCEPT ![r] = "reading"]
  /\ rest' = [rest EXCEPT ![r] = work]
  /\ UNCHANGED <<main, listener, signal, db, conn, cut>>

(* the body is there, or ReadTimeout is over: the handler goes on, or      *)
(* answers with an error *)
ReadBody(r) ==
  /\ handler[r] = "reading"
  /\ \/ /\ handler' = [handler EXCEPT ![r] = "running"]
        /\ UNCHANGED rest
     \/ /\ handler' = [handler EXCEPT ![r] = "idle"]
        /\ rest' = [rest EXCEPT ![r] = << >>]
  /\ UNCHANGED <<main, listener, signal, db, conn, cut>>

Before(r, what) == handler[r] = "running" /\ rest[r] # << >> /\ Head(rest[r]) = what

(* a statement waits for the connection and gives it back *)
Take(r) ==
  /\ Before(r, "stmt")
  /\ conn = Nobody
  /\ conn' = r
  /\ UNCHANGED <<main, listener, signal, db, handler, rest, cut>>

GiveBack(r) == conn' = Nobody

(* a statement that fails, as all do once the database is closed, makes    *)
(* the handler answer *)
Statement(r) ==
  /\ Before(r, "stmt") /\ conn = r
  /\ GiveBack(r)
  /\ \/ db = "open" /\ rest' = [rest EXCEPT ![r] = Tail(@)]
     \/ rest' = [rest EXCEPT ![r] = << >>]
  /\ UNCHANGED <<main, listener, signal, db, handler, cut>>

(* delivered, refused or, for all we know, never over *)
MailEnds(r) ==
  /\ Before(r, "mail")
  /\ rest' = [rest EXCEPT ![r] = Tail(@)]
  /\ conn' = IF conn = r THEN Nobody ELSE conn
  /\ UNCHANGED <<main, listener, signal, db, handler, cut>>

Answer(r) ==
  /\ handler[r] = "running" /\ rest[r] = << >>
  /\ handler' = [handler EXCEPT ![r] = "idle"]
  /\ UNCHANGED <<main, listener, signal, db, rest, conn, cut>>

Next ==
  \/ Listen \/ ListenFails \/ Signal
  \/ BeginShutdown \/ ShutdownEnds \/ CloseDB \/ Return \/ GiveUp
  \/ \E r \in Requests :
       \/ \E work \in Work : Accept(r, work)
       \/ ReadBody(r)
       \/ Take(r)
       \/ Statement(r)
       \/ MailEnds(r)
       \/ Answer(r)

Spec == Init /\ [][Next]_vars

(* Goroutines that can run do, the timer of Shutdown fires, and a body is  *)
(* read or given up.  database/sql hands a freed connection to one of the  *)
(* waiters, at random, so none waits for ever.  Nobody needs to send a     *)
(* signal or a request, and no mail needs to end.                          *)
FairSpec ==
  /\ Spec
  /\ WF_vars(BeginShutdown) /\ WF_vars(CloseDB) /\ WF_vars(Return) /\ WF_vars(GiveUp)
  /\ \A r \in Requests :
       /\ WF_vars(ReadBody(r))
       /\ SF_vars(Take(r))
       /\ WF_vars(Statement(r))
       /\ WF_vars(Answer(r))

-----------------------------------------------------------------------------
(***************************************************************************)
(* Correctness.                                                            *)
(***************************************************************************)

TypeOK ==
  /\ main \in {"serving", "draining", "returning", "exit 0", "exit 1"}
  /\ listener \in {"none", "open", "closed"}
  /\ signal \in BOOLEAN
  /\ db \in {"open", "closed"}
  /\ handler \in [Requests -> {"idle", "reading", "running"}]
  /\ rest \in [Requests -> Seq({"stmt", "mail"})]
  /\ conn \in Requests \cup {Nobody}
  /\ cut \in SUBSET Requests

(* A process that exits with 0 has let every handler finish that it let    *)
(* begin: what is cut short is cut by a Fatalf, and says so (main).        *)
CleanExit == main = "exit 0" => cut = {}

(* No handler ever meets a closed database (main closes it after Shutdown, *)
(* by defer; on the other ways out nobody closes it).                      *)
DbOutlivesHandlers == db = "closed" => Running = {}

(* The connection is with a handler that is in a statement: one that sends *)
(* a mail, answers, or is gone does not keep it from the others.           *)
ConnectionInUse == conn # Nobody => conn \in Running /\ Before(conn, "stmt")

(* After a signal the process exits, whatever its clients, its mail server *)
(* and the queue at its connection do. *)
SignalEnds == signal ~> Exited

(* A handler that has no mail to send ends, although clients may be silent *)
(* and the mails of others hang. *)
MailStopsNobody ==
  \A r \in Requests :
    handler[r] # "idle" /\ rest[r] \in {<<"stmt">>, <<"stmt", "stmt">>}
      ~> handler[r] = "idle"

-----------------------------------------------------------------------------
(***************************************************************************)
(* The inductive invariant: once main has left Shutdown, nothing runs and  *)
(* nothing can begin.                                                      *)
(***************************************************************************)

DownInv ==
  /\ main # "serving" => listener # "open"
  /\ main \notin {"serving", "draining"} => Running = {}
  /\ main \in {"serving", "draining"} => db = "open"
  /\ main # "exit 1" => cut = {}

(* who is idle has nothing before it *)
IdleInv == \A r \in Requests : handler[r] = "idle" => rest[r] = << >>

IInv ==
  /\ TypeOK
  /\ DownInv
  /\ IdleInv
  /\ ConnectionInUse
=============================================================================
