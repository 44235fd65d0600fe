---------------------------- MODULE Server_proofs ----------------------------
(***************************************************************************)
(* Proofs about what main puts together: the life of the process           *)
(* (Lifecycle), its start on a database file (Migration) and the way of a  *)
(* request to its handler (Gateway), for every number of requests and of   *)
(* processes, every old file and every burst.                              *)
(***************************************************************************)
EXTENDS Lifecycle, Migration, Gateway, TLAPS

-----------------------------------------------------------------------------
(***************************************************************************)
(* Lifecycle: the ways out of the process.                                 *)
(***************************************************************************)

(* A way out leaves nobody running, and cuts nobody short if nobody was.   *)
LEMMA ExitFacts ==
  ASSUME TypeOK, NEW status, Exit(status)
  PROVE  /\ main' = status /\ listener' = "closed" /\ conn' = Nobody
         /\ handler' \in [Requests -> {"idle", "reading", "running"}]
         /\ rest' \in [Requests -> Seq({"stmt", "mail"})]
         /\ \A r \in Requests : handler'[r] = "idle" /\ rest'[r] = << >>
         /\ Running' = {}
         /\ cut' \in SUBSET Requests
         /\ Running = {} /\ cut = {} => cut' = {}
<1>1. << >> \in Seq({"stmt", "mail"})
  OBVIOUS
<1> QED BY <1>1 DEF Exit, Running, TypeOK

LEMMA FatalStep ==
  ASSUME IInv, Exit("exit 1"), UNCHANGED <<signal, db>> PROVE IInv'
<1> USE DEF IInv
<1>1. TypeOK'
  BY ExitFacts DEF TypeOK
<1>2. /\ main' = "exit 1" /\ listener' = "closed" /\ conn' = Nobody /\ Running' = {}
      /\ \A r \in Requests : rest'[r] = << >>
  BY ExitFacts
<1>3. DownInv'
  BY <1>2 DEF DownInv
<1>4. IdleInv' /\ ConnectionInUse'
  BY <1>2 DEF IdleInv, ConnectionInUse
<1> QED BY <1>1, <1>3, <1>4

LEMMA ReturnStep ==
  ASSUME IInv, Return PROVE IInv'
<1> USE DEF IInv
<1>1. Exit("exit 0") /\ signal' = signal /\ db' = db
  BY DEF Return
<1>2. cut = {} /\ Running = {}
  BY DEF Return, DownInv
<1>3. TypeOK'
  BY <1>1, ExitFacts DEF TypeOK
<1>4. /\ main' = "exit 0" /\ listener' = "closed" /\ conn' = Nobody /\ Running' = {}
      /\ cut' = {} /\ \A r \in Requests : rest'[r] = << >>
  BY <1>1, <1>2, ExitFacts
<1>5. DownInv'
  BY <1>4 DEF DownInv
<1>6. IdleInv' /\ ConnectionInUse'
  BY <1>4 DEF IdleInv, ConnectionInUse
<1> QED BY <1>3, <1>5, <1>6

-----------------------------------------------------------------------------
(***************************************************************************)
(* Lifecycle: the main goroutine and the listener.                         *)
(***************************************************************************)

LEMMA MainStep ==
  ASSUME IInv, Listen \/ Signal \/ BeginShutdown \/ ShutdownEnds \/ CloseDB
  PROVE  IInv'
<1> USE DEF IInv
<1>1. UNCHANGED <<handler, rest, conn, cut>>
  BY DEF Listen, Signal, BeginShutdown, ShutdownEnds, CloseDB
<1>2. Running' = Running
  BY <1>1 DEF Running
<1>3. TypeOK'
  BY <1>1 DEF TypeOK, Listen, Signal, BeginShutdown, ShutdownEnds, CloseDB
<1>4. DownInv'
  <2>1. CASE Listen
    BY <1>1, <1>2, <2>1 DEF DownInv, Listen
  <2>2. CASE Signal
    BY <1>1, <1>2, <2>2 DEF DownInv, Signal
  <2>3. CASE BeginShutdown
    BY <1>1, <1>2, <2>3 DEF DownInv, BeginShutdown
  <2>4. CASE ShutdownEnds
    BY <1>1, <1>2, <2>4 DEF DownInv, ShutdownEnds, Drained
  <2>5. CASE CloseDB
    BY <1>1, <1>2, <2>5 DEF DownInv, CloseDB
  <2> QED BY <2>1, <2>2, <2>3, <2>4, <2>5
<1>5. IdleInv' /\ ConnectionInUse'
  BY <1>1, <1>2 DEF IdleInv, ConnectionInUse, Before
<1> QED BY <1>3, <1>4, <1>5

-----------------------------------------------------------------------------
(***************************************************************************)
(* Lifecycle: the handlers.                                                *)
(***************************************************************************)

(* A handler that does anything has main before or in Shutdown, and what   *)
(* it does leaves main, the listener, the signal and the database alone.   *)
LEMMA HandlerFacts ==
  ASSUME IInv, UNCHANGED <<main, listener, signal, db, cut>>,
         NEW r \in Requests, handler[r] # "idle" \/ listener = "open"
  PROVE  DownInv'
<1>1. main \in {"serving", "draining"}
  BY DEF IInv, DownInv, Running
<1> QED BY <1>1 DEF IInv, DownInv

LEMMA AcceptStep ==
  ASSUME IInv, NEW r \in Requests, NEW work \in Work, Accept(r, work) PROVE IInv'
<1> USE DEF IInv
<1>1. work \in Seq({"stmt", "mail"})
  <2>1. <<"stmt">> \in Seq({"stmt", "mail"})
    OBVIOUS
  <2>2. <<"stmt", "stmt">> \in Seq({"stmt", "mail"})
    OBVIOUS
  <2>3. <<"stmt", "stmt", "mail">> \in Seq({"stmt", "mail"})
    OBVIOUS
  <2> QED BY <2>1, <2>2, <2>3 DEF Work
<1>2. TypeOK'
  BY <1>1 DEF TypeOK, Accept
<1>3. DownInv'
  BY HandlerFacts DEF Accept
<1>4. IdleInv'
  BY DEF TypeOK, IdleInv, Accept
<1>5. ConnectionInUse'
  <2>1. conn # r
    BY NobodyIsNoRequest DEF ConnectionInUse, Before, Accept, TypeOK
  <2> QED BY <2>1 DEF TypeOK, ConnectionInUse, Running, Before, Accept
<1> QED BY <1>2, <1>3, <1>4, <1>5

LEMMA ReadStep ==
  ASSUME IInv, NEW r \in Requests, ReadBody(r) PROVE IInv'
<1> USE DEF IInv
<1>1. << >> \in Seq({"stmt", "mail"})
  OBVIOUS
<1>2. TypeOK'
  BY <1>1 DEF TypeOK, ReadBody
<1>3. DownInv'
  BY HandlerFacts DEF ReadBody
<1>4. IdleInv'
  BY DEF TypeOK, IdleInv, ReadBody
<1>5. ConnectionInUse'
  <2>1. conn # r
    BY NobodyIsNoRequest DEF ConnectionInUse, Before, ReadBody, TypeOK
  <2> QED BY <2>1 DEF TypeOK, ConnectionInUse, Running, Before, ReadBody
<1> QED BY <1>2, <1>3, <1>4, <1>5

LEMMA TakeStep ==
  ASSUME IInv, NEW r \in Requests, Take(r) PROVE IInv'
<1> USE DEF IInv
<1>1. handler[r] = "running"
  BY DEF Take, Before
<1>2. TypeOK' /\ IdleInv'
  BY DEF TypeOK, IdleInv, Take
<1>3. DownInv'
  BY <1>1, HandlerFacts DEF Take
<1>4. ConnectionInUse'
  BY <1>1 DEF ConnectionInUse, Running, Before, Take
<1> QED BY <1>2, <1>3, <1>4

LEMMA StatementStep ==
  ASSUME IInv, NEW r \in Requests, Statement(r) PROVE IInv'
<1> USE DEF IInv
<1>1. handler[r] = "running" /\ rest[r] # << >> /\ rest[r] \in Seq({"stmt", "mail"})
  BY DEF Statement, Before, TypeOK
<1>2. Tail(rest[r]) \in Seq({"stmt", "mail"}) /\ << >> \in Seq({"stmt", "mail"})
  BY <1>1
<1>3. TypeOK'
  BY <1>2 DEF TypeOK, Statement, GiveBack
<1>4. DownInv'
  BY <1>1, HandlerFacts DEF Statement
<1>5. IdleInv'
  BY <1>1 DEF TypeOK, IdleInv, Statement
<1>6. ConnectionInUse'
  BY DEF ConnectionInUse, Statement, GiveBack
<1> QED BY <1>3, <1>4, <1>5, <1>6

LEMMA MailStep ==
  ASSUME IInv, NEW r \in Requests, MailEnds(r) PROVE IInv'
<1> USE DEF IInv
<1>1. handler[r] = "running" /\ rest[r] # << >> /\ rest[r] \in Seq({"stmt", "mail"})
  BY DEF MailEnds, Before, TypeOK
<1>2. Tail(rest[r]) \in Seq({"stmt", "mail"})
  BY <1>1
<1>3. conn # r
  BY NobodyIsNoRequest DEF ConnectionInUse, Before, MailEnds, TypeOK
<1>4. TypeOK'
  BY <1>2, <1>3 DEF TypeOK, MailEnds
<1>5. DownInv'
  BY <1>1, HandlerFacts DEF MailEnds
<1>6. IdleInv'
  BY <1>1 DEF TypeOK, IdleInv, MailEnds
<1>7. ConnectionInUse'
  BY <1>3 DEF TypeOK, ConnectionInUse, Running, Before, MailEnds
<1> QED BY <1>4, <1>5, <1>6, <1>7

LEMMA AnswerStep ==
  ASSUME IInv, NEW r \in Requests, Answer(r) PROVE IInv'
<1> USE DEF IInv
<1>1. conn # r
  BY NobodyIsNoRequest DEF ConnectionInUse, Before, Answer, TypeOK
<1>2. TypeOK'
  BY DEF TypeOK, Answer
<1>3. DownInv'
  BY HandlerFacts DEF Answer
<1>4. IdleInv'
  BY DEF TypeOK, IdleInv, Answer
<1>5. ConnectionInUse'
  BY <1>1 DEF TypeOK, ConnectionInUse, Running, Before, Answer
<1> QED BY <1>2, <1>3, <1>4, <1>5

-----------------------------------------------------------------------------
(***************************************************************************)
(* Lifecycle: the inductive invariant.                                     *)
(***************************************************************************)

(* A process that has just opened its database is a good start. *)
THEOREM Initially == Init => IInv
<1> SUFFICES ASSUME Init PROVE IInv
  OBVIOUS
<1>1. << >> \in Seq({"stmt", "mail"})
  OBVIOUS
<1>2. TypeOK
  BY <1>1 DEF Init, TypeOK
<1>3. DownInv /\ IdleInv /\ ConnectionInUse
  BY DEF Init, DownInv, IdleInv, ConnectionInUse
<1> QED BY <1>2, <1>3 DEF IInv

(* No step of main, of a handler or of the mail server breaks IInv. *)
THEOREM Step == IInv /\ [Next]_vars => IInv'
<1> SUFFICES ASSUME IInv, [Next]_vars PROVE IInv'
  OBVIOUS
<1>1. CASE Listen \/ Signal \/ BeginShutdown \/ ShutdownEnds \/ CloseDB
  BY <1>1, MainStep
<1>2. CASE ListenFails \/ GiveUp
  BY <1>2, FatalStep DEF ListenFails, GiveUp
<1>3. CASE Return
  BY <1>3, ReturnStep
<1>4. ASSUME NEW r \in Requests,
             \/ \E work \in Work : Accept(r, work)
             \/ ReadBody(r) \/ Take(r) \/ Statement(r) \/ MailEnds(r) \/ Answer(r)
      PROVE  IInv'
  BY <1>4, AcceptStep, ReadStep, TakeStep, StatementStep, MailStep, AnswerStep
<1>5. CASE UNCHANGED vars
  BY <1>5
     DEF vars, IInv, TypeOK, DownInv, IdleInv, ConnectionInUse, Running, Before
<1> QED BY <1>1, <1>2, <1>3, <1>4, <1>5 DEF Next

-----------------------------------------------------------------------------
(***************************************************************************)
(* Lifecycle: the properties.                                              *)
(***************************************************************************)

(* The inductive invariant holds in every reachable state. *)
THEOREM Inductive == Spec => []IInv
BY Initially, Step, PTL DEF Spec

(* Exit status 0 means that no handler was cut short (main, Shutdown). *)
THEOREM CleanExits == Spec => []CleanExit
<1>1. IInv => CleanExit
  BY DEF IInv, DownInv, CleanExit
<1> QED BY <1>1, Inductive, PTL

(* The database is closed only when no handler is left (the deferred       *)
(* db.Close). *)
THEOREM HandlersKeepTheDb == Spec => []DbOutlivesHandlers
<1>1. IInv => DbOutlivesHandlers
  BY DEF IInv, TypeOK, DownInv, DbOutlivesHandlers
<1> QED BY <1>1, Inductive, PTL

-----------------------------------------------------------------------------
(***************************************************************************)
(* Migration: the statements.                                              *)
(***************************************************************************)

(* Each statement adds its own element, of the schema. *)
LEMMA StatementFacts ==
  ASSUME NEW i \in 1 .. Last
  PROVE  /\ Statements[i].name \in Statements[i].adds
         /\ Statements[i].adds \subseteq Element
         /\ Statements[i].kind = "alter" => Statements[i].adds = {Statements[i].name}
BY DEF Statements, Create, Index, AddColumn, Last, Element, ProfileColumns

(* The table of admins, and with it the column, comes with one statement. *)
LEMMA OnlyAdmins ==
  ASSUME NEW i \in 1 .. Last, "ADMINS" \in Statements[i].adds
  PROVE  "admin_role" \in Statements[i].adds
BY DEF Statements, Create, Index, AddColumn, Last, ProfileColumns

(* A statement keeps what is in the file and leaves its element there. *)
LEMMA EffectGrows ==
  ASSUME NEW f \in SUBSET Element, NEW i \in 1 .. Last
  PROVE  /\ Effect(Statements[i], f) \in SUBSET Element
         /\ f \subseteq Effect(Statements[i], f)
         /\ Statements[i].name \in Effect(Statements[i], f)
BY StatementFacts DEF Effect

-----------------------------------------------------------------------------
(***************************************************************************)
(* Migration: the inductive invariant.                                     *)
(***************************************************************************)

(* No file, and every older file, is a good start. *)
THEOREM MigrationInitially == MigrationInit => MigrationIInv
<1> SUFFICES ASSUME MigrationInit PROVE MigrationIInv
  OBVIOUS
<1> USE MigrationEnvironment DEF MigrationInit
<1>1. MigrationTypeOK
  BY DEF MigrationTypeOK, Last, Role
<1>2. Progress /\ ReadyIsComplete /\ FailsOnlyByFault
  BY DEF Progress, ReadyIsComplete, FailsOnlyByFault
<1>3. RolesFit
  BY DEF RolesFit, Role
<1> QED BY <1>1, <1>2, <1>3 DEF MigrationIInv

(* The steps that leave the file and the rows alone. *)
LEMMA StartStep ==
  ASSUME MigrationIInv, NEW p \in Processes, Start(p) PROVE MigrationIInv'
<1> USE DEF MigrationIInv, Start
<1>1. MigrationTypeOK'
  BY DEF MigrationTypeOK, Last
<1>2. Progress'
  BY DEF MigrationTypeOK, Progress
<1>3. RolesFit'
  BY DEF RolesFit
<1>4. ReadyIsComplete'
  BY DEF MigrationTypeOK, ReadyIsComplete, Complete
<1>5. FailsOnlyByFault'
  BY DEF MigrationTypeOK, FailsOnlyByFault
<1> QED BY <1>1, <1>2, <1>3, <1>4, <1>5

LEMMA FaultStep ==
  ASSUME MigrationIInv, NEW p \in Processes, Fault(p) PROVE MigrationIInv'
<1> PICK end \in {"down", "failed"} : pc' = [pc EXCEPT ![p] = end]
  BY DEF Fault
<1> USE DEF MigrationIInv, Fault
<1>1. MigrationTypeOK'
  BY MigrationEnvironment DEF MigrationTypeOK
<1>2. Progress'
  BY DEF MigrationTypeOK, Progress
<1>3. RolesFit'
  BY DEF RolesFit
<1>4. ReadyIsComplete'
  BY DEF MigrationTypeOK, ReadyIsComplete, Complete
<1>5. FailsOnlyByFault'
  BY DEF MigrationTypeOK, FailsOnlyByFault
<1> QED BY <1>1, <1>2, <1>3, <1>4, <1>5

(* A process begins with nothing done, and nothing is before statement 1. *)
LEMMA OpenStep ==
  ASSUME MigrationIInv, NEW p \in Processes, Open(p) PROVE MigrationIInv'
<1> USE DEF MigrationIInv, Open
<1>1. MigrationTypeOK'
  BY DEF MigrationTypeOK
<1>2. Progress'
  BY DEF MigrationTypeOK, Progress, Last
<1>3. RolesFit'
  BY DEF RolesFit
<1>4. ReadyIsComplete'
  BY DEF MigrationTypeOK, ReadyIsComplete, Complete
<1>5. FailsOnlyByFault'
  BY DEF MigrationTypeOK, FailsOnlyByFault
<1> QED BY <1>1, <1>2, <1>3, <1>4, <1>5

(* A statement of migrate. *)
LEMMA MigrateStep ==
  ASSUME MigrationIInv, NEW p \in Processes, Migrate(p)
  PROVE  /\ MigrationIInv'
         /\ \A a \in Admins : roles'[a] # roles[a]
              => roles[a] = "unset" /\ roles'[a] = "super_admin"
<1> USE DEF MigrationIInv
<1> PICK i \in 1 .. Last : i = next[p]
  BY DEF MigrationTypeOK, Progress, Migrate
<1> PICK s : s = Statements[i]
  OBVIOUS
<1>1. /\ pc[p] = "migrating"
      /\ file' = Effect(s, file)
      /\ roles' = IF "admin_role" \in file' \ file
                  THEN [a \in Admins |-> IF roles[a] = "unset" THEN "super_admin" ELSE roles[a]]
                  ELSE roles
      /\ next' = [next EXCEPT ![p] = i + 1]
      /\ pc' = [pc EXCEPT ![p] = IF i + 1 > Last THEN "ready" ELSE "migrating"]
      /\ hurt' = hurt /\ faults' = faults
  BY DEF Migrate, Following, Ignored, DefaultRole, MigrationTypeOK
<1>2. file' \in SUBSET Element /\ file \subseteq file' /\ s.name \in file'
  BY <1>1, EffectGrows DEF MigrationTypeOK
<1>3. MigrationTypeOK'
  <2>1. roles' \in [Admins -> Role \cup {"absent", "unset"}]
    BY <1>1 DEF MigrationTypeOK, Role
  <2>2. next' \in [Processes -> 1 .. Last + 1]
    BY <1>1 DEF MigrationTypeOK, Last
  <2>3. pc' \in [Processes -> {"down", "opening", "migrating", "ready", "failed"}]
    BY <1>1 DEF MigrationTypeOK
  <2> QED BY <1>1, <1>2, <2>1, <2>2, <2>3 DEF MigrationTypeOK
<1>4. \A j \in 1 .. i : Statements[j].name \in file'
  <2> TAKE j \in 1 .. i
  <2>1. CASE j = i
    BY <1>2, <2>1
  <2>2. CASE j # i
    BY <1>1, <1>2, <2>2 DEF Progress, MigrationTypeOK, Last
  <2> QED BY <2>1, <2>2
<1>5. Progress'
  <2> SUFFICES ASSUME NEW q \in Processes
               PROVE  /\ pc'[q] = "opening" => next'[q] = 1
                      /\ pc'[q] = "migrating" =>
                           /\ next'[q] <= Last
                           /\ \A j \in 1 .. next'[q] - 1 : Statements[j].name \in file'
    BY DEF Progress
  <2>1. CASE q = p
    <3>1. pc'[p] # "opening" /\ next'[p] = i + 1
      BY <1>1 DEF MigrationTypeOK
    <3>2. pc'[p] = "migrating" => i + 1 <= Last
      BY <1>1 DEF MigrationTypeOK, Last
    <3>3. \A j \in 1 .. next'[p] - 1 : j \in 1 .. i
      BY <3>1 DEF Last
    <3> QED BY <1>4, <2>1, <3>1, <3>2, <3>3
  <2>2. CASE q # p
    <3>1. pc'[q] = pc[q] /\ next'[q] = next[q]
      BY <1>1, <2>2 DEF MigrationTypeOK
    <3> QED BY <1>2, <3>1 DEF Progress
  <2> QED BY <2>1, <2>2
<1>6. RolesFit'
  <2>1. ASSUME "admin_role" \in file', NEW a \in Admins PROVE roles'[a] # "unset"
    BY <1>1, <2>1 DEF RolesFit, MigrationTypeOK
  <2>2. ASSUME "ADMINS" \notin file', NEW a \in Admins PROVE roles'[a] = "absent"
    BY <1>1, <1>2, <2>2 DEF RolesFit, MigrationTypeOK
  <2> QED BY <2>1, <2>2 DEF RolesFit
<1>7. ReadyIsComplete'
  <2> SUFFICES ASSUME NEW q \in Processes, pc'[q] = "ready" PROVE Complete'
    BY DEF ReadyIsComplete
  <2>1. CASE q = p
    <3>1. i = Last
      BY <1>1, <2>1 DEF MigrationTypeOK, Last
    <3> QED BY <1>4, <3>1 DEF Complete
  <2>2. CASE q # p
    BY <1>1, <1>2, <2>2 DEF MigrationTypeOK, ReadyIsComplete, Complete
  <2> QED BY <2>1, <2>2
<1>8. FailsOnlyByFault'
  BY <1>1 DEF MigrationTypeOK, FailsOnlyByFault
<1>9. ASSUME NEW a \in Admins, roles'[a] # roles[a]
      PROVE  roles[a] = "unset" /\ roles'[a] = "super_admin"
  BY <1>1, <1>9 DEF MigrationTypeOK
<1> QED BY <1>3, <1>5, <1>6, <1>7, <1>8, <1>9

(* A new row, from either process: both are ready, so the file is whole. *)
LEMMA RowStep ==
  ASSUME MigrationIInv, NEW a \in Admins,
         (\E p \in Processes : Seed(p, a)) \/ (\E role \in Role : CreateAdmin(a, role))
  PROVE  /\ MigrationIInv'
         /\ \A b \in Admins : roles'[b] # roles[b] => roles[b] = "absent"
<1> USE DEF MigrationIInv
<1>1. Complete
  BY MigrationEnvironment DEF Seed, CreateAdmin, ReadyIsComplete
<1>2. "ADMINS" \in file /\ "admin_role" \in file
  BY <1>1 DEF Complete, Last, Statements, Create, Index, AddColumn
<1>3. \/ roles' = roles
      \/ roles[a] = "absent" /\ \E role \in Role : roles' = [roles EXCEPT ![a] = role]
  BY <1>2 DEF Seed, CreateAdmin, DefaultRole, Role
<1>4. /\ file' = file /\ next' = next /\ hurt' = hurt /\ faults' = faults
      /\ pc' = pc \/ \E p \in Processes : pc' = [pc EXCEPT ![p] = "down"]
  BY DEF Seed, CreateAdmin
<1>5. MigrationTypeOK'
  BY <1>3, <1>4 DEF MigrationTypeOK
<1>6. Progress'
  BY <1>4 DEF MigrationTypeOK, Progress
<1>7. RolesFit'
  BY <1>2, <1>3, <1>4 DEF RolesFit, MigrationTypeOK, Role
<1>8. ReadyIsComplete'
  BY <1>1, <1>4 DEF ReadyIsComplete, Complete
<1>9. FailsOnlyByFault'
  BY <1>4 DEF MigrationTypeOK, FailsOnlyByFault
<1>10. \A b \in Admins : roles'[b] # roles[b] => roles[b] = "absent"
  BY <1>3 DEF MigrationTypeOK
<1> QED BY <1>5, <1>6, <1>7, <1>8, <1>9, <1>10

(* No statement, fault or restart breaks the invariant of Migration. *)
THEOREM MigrationStep ==
  MigrationIInv /\ [MigrationNext]_migrationVars => MigrationIInv'
<1> SUFFICES ASSUME MigrationIInv, [MigrationNext]_migrationVars PROVE MigrationIInv'
  OBVIOUS
<1>1. ASSUME NEW p \in Processes, Start(p) PROVE MigrationIInv'
  BY <1>1, StartStep
<1>2. ASSUME NEW p \in Processes, Open(p) PROVE MigrationIInv'
  BY <1>2, OpenStep
<1>3. ASSUME NEW p \in Processes, Migrate(p) PROVE MigrationIInv'
  BY <1>3, MigrateStep
<1>4. ASSUME NEW p \in Processes, Fault(p) PROVE MigrationIInv'
  BY <1>4, FaultStep
<1>5. ASSUME NEW p \in Processes, NEW a \in Admins, Seed(p, a) PROVE MigrationIInv'
  BY <1>5, RowStep
<1>6. ASSUME NEW a \in Admins, NEW role \in Role, CreateAdmin(a, role) PROVE MigrationIInv'
  BY <1>6, RowStep
<1>7. CASE UNCHANGED migrationVars
  BY <1>7
     DEF migrationVars, MigrationIInv, MigrationTypeOK, Progress, RolesFit,
     ReadyIsComplete, Complete,
              FailsOnlyByFault
<1> QED BY <1>1, <1>2, <1>3, <1>4, <1>5, <1>6, <1>7 DEF MigrationNext

-----------------------------------------------------------------------------
(***************************************************************************)
(* Migration: the properties.                                              *)
(***************************************************************************)

(* The inductive invariant holds in every reachable state. *)
THEOREM MigrationInductive == MigrationSpec => []MigrationIInv
BY MigrationInitially, MigrationStep, PTL DEF MigrationSpec

(* After NewDB every table, index and column is there, whatever file it    *)
(* found, wherever earlier migrations were cut and whatever other          *)
(* processes do (migrate, sqlite.go). *)
THEOREM SchemaIsComplete == MigrationSpec => []ReadyIsComplete
<1>1. MigrationIInv => ReadyIsComplete
  BY DEF MigrationIInv
<1> QED BY <1>1, MigrationInductive, PTL

(* Repeating a migration, whole or cut, is never what makes a start fail   *)
(* (isDuplicateColumnErr, sqlite.go). *)
THEOREM MigrationRepeats == MigrationSpec => []FailsOnlyByFault
<1>1. MigrationIInv => FailsOnlyByFault
  BY DEF MigrationIInv
<1> QED BY <1>1, MigrationInductive, PTL

(* No start, seed or creation loses an admin or changes a role that was    *)
(* given; the admins of an older file become super admins (DEFAULT         *)
(* 'super_admin', sqlite.go). *)
THEOREM RolesAreKept == MigrationSpec => RolesSurvive
<1>1. ASSUME MigrationIInv, [MigrationNext]_migrationVars, NEW a \in Admins,
             roles[a] # "absent", roles'[a] # roles[a]
      PROVE  roles[a] = "unset" /\ roles'[a] = "super_admin"
  <2>1. ASSUME NEW p \in Processes, Start(p) \/ Open(p) \/ Fault(p) PROVE FALSE
    BY <1>1, <2>1 DEF Start, Open, Fault
  <2>2. CASE \E p \in Processes : Migrate(p)
    BY <1>1, <2>2, MigrateStep
  <2>3. ASSUME NEW p \in Processes, NEW b \in Admins, Seed(p, b) PROVE FALSE
    BY <1>1, <2>3, RowStep
  <2>4. ASSUME NEW b \in Admins, NEW role \in Role, CreateAdmin(b, role) PROVE FALSE
    BY <1>1, <2>4, RowStep
  <2>5. CASE UNCHANGED migrationVars
    BY <1>1, <2>5 DEF migrationVars
  <2> QED BY <1>1, <2>1, <2>2, <2>3, <2>4, <2>5 DEF MigrationNext
<1>2. MigrationIInv /\ [MigrationNext]_migrationVars =>
        [\A a \in Admins :
           roles[a] # "absent" /\ roles'[a] # roles[a]
             => roles[a] = "unset" /\ roles'[a] = "super_admin"]_migrationVars
  BY <1>1
<1> QED BY <1>2, MigrationInductive, PTL DEF MigrationSpec, RolesSurvive

-----------------------------------------------------------------------------
(***************************************************************************)
(* Gateway: the table of routes.                                           *)
(***************************************************************************)

Has(chain, stage) == \E i \in 1 .. Len(chain) : chain[i] = stage

ChainOK(chain) ==
  /\ chain \in Seq(Guard \cup Limiter)
  /\ \A i \in 1 .. Len(chain) : chain[i] \in Limiter => i = Len(chain)

LEMMA NoChain == ChainOK(<< >>)
BY DEF ChainOK

LEMMA Chain1 ==
  ASSUME NEW a \in Guard \cup Limiter
  PROVE  ChainOK(<<a>>) /\ Has(<<a>>, a)
BY DEF ChainOK, Has

LEMMA Chain2 ==
  ASSUME NEW a \in Guard, NEW b \in Guard \cup Limiter
  PROVE  ChainOK(<<a, b>>) /\ Has(<<a, b>>, a) /\ Has(<<a, b>>, b)
<1>1. /\ <<a, b>> \in Seq(Guard \cup Limiter) /\ Len(<<a, b>>) = 2
      /\ <<a, b>>[1] = a /\ <<a, b>>[2] = b
  OBVIOUS
<1>2. a \notin Limiter
  BY DEF Guard, Limiter
<1> QED BY <1>1, <1>2 DEF ChainOK, Has

LEMMA Chain3 ==
  ASSUME NEW a \in Guard, NEW b \in Guard, NEW c \in Limiter
  PROVE  ChainOK(<<a, b, c>>) /\ Has(<<a, b, c>>, a) /\ Has(<<a, b, c>>, b)
<1>1. /\ <<a, b, c>> \in Seq(Guard \cup Limiter) /\ Len(<<a, b, c>>) = 3
      /\ <<a, b, c>>[1] = a /\ <<a, b, c>>[2] = b
  OBVIOUS
<1>2. a \notin Limiter /\ b \notin Limiter
  BY DEF Guard, Limiter
<1> QED BY <1>1, <1>2 DEF ChainOK, Has

(* a route that has the stages its path asks for *)
RouteOK(e) ==
  /\ ChainOK(e.chain)
  /\ e.path \in ReadmeSuperAdmin => Has(e.chain, "SuperAdminOnly")
  /\ e.path \in ReadmeAdmin => Has(e.chain, "AdminAuth")
  /\ e.path \in ReadmeClient => Has(e.chain, "ClientAuth")



LEMMA PublicRoutesOK == \A e \in PublicRoutes : RouteOK(e)
<1>1. \A e \in Behind(<< >>, {<<"GET", "/health">>}) :
        e.chain = << >> /\ e.path = "/health"
  BY DEF Behind
<1>2. \A e \in Behind(<<"adminAuth">>, {<<"POST", "/api/admin/login">>}) :
        e.chain = <<"adminAuth">> /\ e.path = "/api/admin/login"
  BY DEF Behind
<1>3. \A e \in Behind(<<"public">>,
          {<<"GET", "/api/public/jobs">>, <<"GET", "/api/public/employers">>}) :
        /\ e.chain = <<"public">>
        /\ e.path \in {"/api/public/jobs", "/api/public/employers"}
  BY DEF Behind
<1>4. ChainOK(<< >>) /\ ChainOK(<<"adminAuth">>) /\ ChainOK(<<"public">>)
  BY NoChain, Chain1 DEF Limiter
<1> QED BY <1>1, <1>2, <1>3, <1>4
        DEF PublicRoutes, RouteOK, ReadmeSuperAdmin, ReadmeAdmin, ReadmeClient

LEMMA AuthRoutesOK == \A e \in AuthRoutes : RouteOK(e)
<1>1. \A e \in Behind(<<"auth">>,
          {<<"POST", "/api/auth/signup">>, <<"POST", "/api/auth/login">>,
           <<"GET", "/api/auth/verify">>, <<"GET", "/api/auth/csrf">>}) :
        /\ e.chain = <<"auth">>
        /\ e.path \in {"/api/auth/signup", "/api/auth/login", "/api/auth/verify",
                       "/api/auth/csrf"}
  BY DEF Behind
<1>2. \A e \in Behind(<<"passwordReset">>,
          {<<"POST", "/api/auth/forgot-password">>,
           <<"POST", "/api/auth/reset-password">>}) :
        /\ e.chain = <<"passwordReset">>
        /\ e.path \in {"/api/auth/forgot-password", "/api/auth/reset-password"}
  BY DEF Behind
<1>3. ChainOK(<<"auth">>) /\ ChainOK(<<"passwordReset">>)
  BY Chain1 DEF Limiter
<1> QED BY <1>1, <1>2, <1>3
        DEF AuthRoutes, RouteOK, ReadmeSuperAdmin, ReadmeAdmin, ReadmeClient

LEMMA ClientChains ==
  /\ ChainOK(<<"ClientAuth">>) /\ Has(<<"ClientAuth">>, "ClientAuth")
  /\ ChainOK(<<"ClientAuth", "write">>) /\ Has(<<"ClientAuth", "write">>, "ClientAuth")
BY Chain1, Chain2 DEF Guard, Limiter

LEMMA AdminChains ==
  /\ ChainOK(<<"AdminAuth">>) /\ Has(<<"AdminAuth">>, "AdminAuth")
  /\ ChainOK(<<"AdminAuth", "write">>) /\ Has(<<"AdminAuth", "write">>, "AdminAuth")
  /\ ChainOK(<<"AdminAuth", "ModeratorOrAbove">>)
  /\ Has(<<"AdminAuth", "ModeratorOrAbove">>, "AdminAuth")
  /\ ChainOK(<<"AdminAuth", "ModeratorOrAbove", "write">>)
  /\ Has(<<"AdminAuth", "ModeratorOrAbove", "write">>, "AdminAuth")
BY Chain1, Chain2, Chain3 DEF Guard, Limiter

LEMMA SuperAdminChains ==
  /\ ChainOK(<<"AdminAuth", "SuperAdminOnly">>)
  /\ Has(<<"AdminAuth", "SuperAdminOnly">>, "AdminAuth")
  /\ Has(<<"AdminAuth", "SuperAdminOnly">>, "SuperAdminOnly")
  /\ ChainOK(<<"AdminAuth", "SuperAdminOnly", "write">>)
  /\ Has(<<"AdminAuth", "SuperAdminOnly", "write">>, "AdminAuth")
  /\ Has(<<"AdminAuth", "SuperAdminOnly", "write">>, "SuperAdminOnly")
BY Chain2, Chain3 DEF Guard, Limiter

LEMMA JobRoutesOK == \A e \in JobRoutes : RouteOK(e)
<1>1. \A e \in Behind(<<"ClientAuth", "write">>,
          {<<"GET", "/api/jobs">>, <<"POST", "/api/jobs">>,
           <<"PUT", "/api/jobs/id">>, <<"DELETE", "/api/jobs/id">>}) :
        /\ e.chain = <<"ClientAuth", "write">>
        /\ e.path \in {"/api/jobs", "/api/jobs/id"}
  BY DEF Behind
<1>2. \A e \in Behind(<<"ClientAuth">>, {<<"GET", "/api/jobs/id">>}) :
        e.chain = <<"ClientAuth">> /\ e.path = "/api/jobs/id"
  BY DEF Behind
<1> QED BY <1>1, <1>2, ClientChains
        DEF JobRoutes, RouteOK, ReadmeSuperAdmin, ReadmeAdmin, ReadmeClient

LEMMA ProfileRoutesOK == \A e \in ProfileRoutes : RouteOK(e)
<1>1. \A e \in Behind(<<"ClientAuth">>,
          {<<"GET", "/api/auth/me">>, <<"PATCH", "/api/auth/me">>,
           <<"POST", "/api/auth/logout">>}) :
        /\ e.chain = <<"ClientAuth">>
        /\ e.path \in {"/api/auth/me", "/api/auth/logout"}
  BY DEF Behind
<1> QED BY <1>1, ClientChains
        DEF ProfileRoutes, RouteOK, ReadmeSuperAdmin, ReadmeAdmin, ReadmeClient

LEMMA UploadRoutesOK == \A s \in Store : \A e \in UploadRoutes(s) : RouteOK(e)
<1>1. \A e \in Behind(<<"ClientAuth", "write">>, {<<"POST", "/api/auth/upload-url">>}) :
        e.chain = <<"ClientAuth", "write">> /\ e.path = "/api/auth/upload-url"
  BY DEF Behind
<1>2. \A e \in Behind(<<"AdminAuth", "write">>,
          {<<"POST", "/api/admin/cloudinary-upload">>}) :
        e.chain = <<"AdminAuth", "write">> /\ e.path = "/api/admin/cloudinary-upload"
  BY DEF Behind
<1>3. \A e \in Behind(<<"ClientAuth", "write">>,
          {<<"POST", "/api/auth/local-upload">>, <<"PUT", "/api/auth/local-upload">>}) :
        e.chain = <<"ClientAuth", "write">> /\ e.path = "/api/auth/local-upload"
  BY DEF Behind
<1>4. \A e \in Behind(<<"AdminAuth", "write">>,
          {<<"POST", "/api/admin/upload">>, <<"PUT", "/api/admin/upload">>}) :
        e.chain = <<"AdminAuth", "write">> /\ e.path = "/api/admin/upload"
  BY DEF Behind
<1>5. \A e \in Behind(<< >>, {<<"GET", "/uploads/*">>}) :
        e.chain = << >> /\ e.path = "/uploads/*"
  BY DEF Behind
<1> QED BY <1>1, <1>2, <1>3, <1>4, <1>5, NoChain, ClientChains, AdminChains
        DEF UploadRoutes, RouteOK, ReadmeSuperAdmin, ReadmeAdmin, ReadmeClient

LEMMA ModeratorRoutesOK == \A e \in ModeratorRoutes : RouteOK(e)
<1>1. \A e \in Behind(<<"AdminAuth">>,
          {<<"GET", "/api/admin/me">>, <<"PATCH", "/api/admin/me/password">>,
           <<"POST", "/api/admin/logout">>}) :
        /\ e.chain = <<"AdminAuth">>
        /\ e.path \in {"/api/admin/me", "/api/admin/me/password", "/api/admin/logout"}
  BY DEF Behind
<1>2. \A e \in Behind(<<"AdminAuth", "ModeratorOrAbove">>,
          {<<"GET", "/api/admin/jobs">>, <<"GET", "/api/admin/employers/pending">>}) :
        /\ e.chain = <<"AdminAuth", "ModeratorOrAbove">>
        /\ e.path \in {"/api/admin/jobs", "/api/admin/employers/pending"}
  BY DEF Behind
<1>3. \A e \in Behind(<<"AdminAuth", "ModeratorOrAbove", "write">>,
          {<<"PUT", "/api/admin/jobs/id/status">>, <<"DELETE", "/api/admin/jobs/id">>,
           <<"PUT", "/api/admin/employers/id/verify">>}) :
        /\ e.chain = <<"AdminAuth", "ModeratorOrAbove", "write">>
        /\ e.path \in {"/api/admin/jobs/id/status", "/api/admin/jobs/id",
                       "/api/admin/employers/id/verify"}
  BY DEF Behind
<1> QED BY <1>1, <1>2, <1>3, AdminChains
        DEF ModeratorRoutes, RouteOK, ReadmeSuperAdmin, ReadmeAdmin, ReadmeClient

LEMMA SuperAdminRoutesOK == \A e \in SuperAdminRoutes : RouteOK(e)
<1>1. \A e \in Behind(<<"AdminAuth", "SuperAdminOnly">>,
          {<<"GET", "/api/admin/employers">>, <<"GET", "/api/admin/employers/id">>,
           <<"GET", "/api/admin/admins">>}) :
        /\ e.chain = <<"AdminAuth", "SuperAdminOnly">>
        /\ e.path \in {"/api/admin/employers", "/api/admin/employers/id",
                       "/api/admin/admins"}
  BY DEF Behind
<1>2. \A e \in Behind(<<"AdminAuth", "SuperAdminOnly", "write">>,
          {<<"POST", "/api/admin/employers">>,
           <<"PATCH", "/api/admin/employers/id">>,
           <<"DELETE", "/api/admin/employers/id">>,
           <<"POST", "/api/admin/admins">>}) :
        /\ e.chain = <<"AdminAuth", "SuperAdminOnly", "write">>
        /\ e.path \in {"/api/admin/employers", "/api/admin/employers/id",
                       "/api/admin/admins"}
  BY DEF Behind
<1> QED BY <1>1, <1>2, SuperAdminChains
        DEF SuperAdminRoutes, RouteOK, ReadmeSuperAdmin, ReadmeAdmin, ReadmeClient

(* Every route of the table has the middleware its path asks for, and its  *)
(* limiter last. *)
LEMMA RoutesOK == \A s \in Store : \A e \in Routes(s) : RouteOK(e)
BY PublicRoutesOK, AuthRoutesOK, JobRoutesOK, ProfileRoutesOK, UploadRoutesOK,
   ModeratorRoutesOK, SuperAdminRoutesOK DEF Routes

-----------------------------------------------------------------------------
(***************************************************************************)
(* Gateway: one request.                                                   *)
(***************************************************************************)

(* what the invariant says of one slot *)
Fine(q) ==
  /\ q \in Request \cup {NoRequest}
  /\ q.status = "pending" => OnItsWay(q)
  /\ q # NoRequest /\ q.paid # {} =>
       q.todo = <<"handler">> /\ q.status \in {"pending", "200", "500"}
  /\ Served(q) =>
       /\ q.path \in ReadmeSuperAdmin => q.cred = "super_admin"
       /\ q.path \in ReadmeAdmin => q.cred \in {"moderator", "super_admin"}
       /\ q.path \in ReadmeClient => q.cred = "client"
       /\ q.path \in ReadmeSuperAdmin \cup ReadmeAdmin \cup ReadmeClient =>
            q.method = "GET" \/ q.csrf
  /\ q.status \in {"204", "401", "403", "404", "429"} => q.paid = {}

LEMMA GatewayFine ==
  GatewayIInv <=> /\ store \in Store
           /\ bucket \in [Limiter -> 0 .. Burst]
           /\ req \in [Slots -> Request \cup {NoRequest}]
           /\ \A r \in Slots : Fine(req[r])
BY DEF GatewayIInv, GatewayTypeOK, WayInv, PaidInv, ServedAsDocumented,
   SessionWritesGuarded,
       RefusalIsFree, Fine, Pending

LEMMA FineNoRequest == Fine(NoRequest)
BY DEF Fine, NoRequest, Served

LEMMA FinePending ==
  ASSUME NEW q, Fine(q), q.status = "pending"
  PROVE  q \in Request /\ OnItsWay(q) /\ (q.paid # {} => q.todo = <<"handler">>)
BY DEF Fine, NoRequest

LEMMA OneElement ==
  ASSUME NEW S, NEW s \in Seq(S), Len(s) = 1
  PROVE  s = <<s[1]>>
OBVIOUS

(* the first stage of a way: the last one if it is final, and if it is a   *)
(* limiter the handler is all that follows *)
LEMMA WayHead ==
  ASSUME NEW todo \in Seq(Stage), WayOK(todo)
  PROVE  /\ Len(todo) \in Nat \ {0}
         /\ Head(todo) = todo[1]
         /\ Head(todo) \in Stage
         /\ Head(todo) \in Final => todo = <<Head(todo)>>
         /\ Head(todo) \in Limiter => Tail(todo) = <<"handler">>
<1>1. Len(todo) \in Nat \ {0} /\ Head(todo) = todo[1] /\ Head(todo) \in Stage
  BY DEF WayOK
<1>2. 1 \in 1 .. Len(todo)
  BY <1>1
<1>3. ASSUME Head(todo) \in Final PROVE todo = <<Head(todo)>>
  <2>1. Len(todo) = 1
    BY <1>1, <1>2, <1>3 DEF WayOK
  <2> QED BY <1>1, <2>1
<1>4. ASSUME Head(todo) \in Limiter PROVE Tail(todo) = <<"handler">>
  <2>1. 1 + 1 = Len(todo) /\ todo[Len(todo)] = "handler"
    BY <1>1, <1>2, <1>4 DEF WayOK
  <2>2. Tail(todo) \in Seq(Stage) /\ Len(Tail(todo)) = 1 /\ Tail(todo)[1] = todo[2]
    BY <1>1, <2>1
  <2>3. Len(todo) = 2
    BY <2>1
  <2>4. Tail(todo)[1] = "handler"
    BY <2>1, <2>2, <2>3
  <2> QED BY <2>2, <2>4, OneElement
<1> QED BY <1>1, <1>3, <1>4

LEMMA WayTail ==
  ASSUME NEW todo \in Seq(Stage), WayOK(todo), Head(todo) \notin Final
  PROVE  Tail(todo) \in Seq(Stage) /\ WayOK(Tail(todo))
<1>1. Len(todo) \in Nat \ {0} /\ Head(todo) = todo[1]
  BY WayHead
<1>2. Len(todo) > 1
  BY <1>1 DEF WayOK
<1>3. /\ Tail(todo) \in Seq(Stage) /\ Len(Tail(todo)) = Len(todo) - 1
      /\ \A i \in 1 .. Len(Tail(todo)) : Tail(todo)[i] = todo[i + 1]
  BY <1>1
<1>4. \A i \in 1 .. Len(Tail(todo)) :
        /\ i + 1 \in 1 .. Len(todo)
        /\ i = Len(Tail(todo)) <=> i + 1 = Len(todo)
        /\ i + 1 = Len(Tail(todo)) <=> (i + 1) + 1 = Len(todo)
  BY <1>1, <1>2, <1>3
<1>5. Len(Tail(todo)) \in 1 .. Len(Tail(todo)) /\ Tail(todo)[Len(Tail(todo))] = todo[Len(todo)]
  BY <1>1, <1>2, <1>3
<1>6. \A i \in 1 .. Len(Tail(todo)) :
        /\ Tail(todo)[i] \in Final <=> i = Len(Tail(todo))
        /\ Tail(todo)[i] \in Limiter =>
             i + 1 = Len(Tail(todo)) /\ Tail(todo)[Len(Tail(todo))] = "handler"
  BY <1>3, <1>4, <1>5 DEF WayOK
<1>7. Len(Tail(todo)) > 0
  BY <1>2, <1>3
<1> QED BY <1>3, <1>6, <1>7 DEF WayOK

(* q2 is q with its first stage behind it *)
Passed(q, q2) ==
  /\ q2 \in Request /\ q2.todo = Tail(q.todo)
  /\ q2.method = q.method /\ q2.path = q.path /\ q2.cred = q.cred
  /\ q2.csrf = q.csrf /\ q2.status = q.status

LEMMA AheadTail ==
  ASSUME NEW q \in Request, WayOK(q.todo), NEW q2, Passed(q, q2)
  PROVE  Ahead(q) = {Head(q.todo)} \cup Ahead(q2)
<1> DEFINE todo == q.todo
<1>1. todo \in Seq(Stage) /\ q2.todo = Tail(todo)
  BY DEF Request, Passed
<1>2. Len(todo) \in Nat \ {0} /\ Head(todo) = todo[1]
  BY <1>1, WayHead
<1>3. /\ Len(Tail(todo)) = Len(todo) - 1
      /\ \A i \in 1 .. Len(Tail(todo)) : Tail(todo)[i] = todo[i + 1]
  BY <1>1, <1>2
<1>4. \A i \in 1 .. Len(todo) :
        i = 1 \/ (i - 1 \in 1 .. Len(Tail(todo)) /\ todo[i] = Tail(todo)[i - 1])
  BY <1>2, <1>3
<1> QED BY <1>1, <1>2, <1>3, <1>4 DEF Ahead

(* a middleware passes the request on: what it checked need not be ahead   *)
(* any more *)
LEMMA PassedKept ==
  ASSUME NEW q \in Request, OnItsWay(q), NEW q2, Passed(q, q2),
         Head(q.todo) \notin Final,
         Head(q.todo) \in Guard => q.cred \in Admits(Head(q.todo))
  PROVE  Kept(q2)
<1>1. WayOK(q.todo) /\ Kept(q)
  BY DEF OnItsWay
<1>2. Ahead(q) = {Head(q.todo)} \cup Ahead(q2)
  BY <1>1, AheadTail
<1>3. q2.path = q.path /\ q2.cred = q.cred
  BY DEF Passed
<1>4. \A stage \in Guard : Guarded(q, stage) => Guarded(q2, stage)
  BY <1>2, <1>3 DEF Guarded
<1>5. "route" \in Final /\ "404" \in Final
      /\ "SuperAdminOnly" \in Guard /\ "AdminAuth" \in Guard /\ "ClientAuth" \in Guard
  BY DEF Final, Guard
<1> QED BY <1>1, <1>2, <1>3, <1>4, <1>5 DEF Kept

LEMMA PassedScreened ==
  ASSUME NEW q \in Request, OnItsWay(q), NEW q2, Passed(q, q2),
         Head(q.todo) = "CSRF" => CSRFPasses(q),
         Head(q.todo) = "CORS" => q.method # "OPTIONS"
  PROVE  Screened(q2)
<1>1. WayOK(q.todo) /\ Screened(q)
  BY DEF OnItsWay
<1>2. Ahead(q) = {Head(q.todo)} \cup Ahead(q2)
  BY <1>1, AheadTail
<1>3. /\ q2.path = q.path /\ q2.method = q.method /\ q2.csrf = q.csrf
      /\ q2.todo = Tail(q.todo)
  BY DEF Passed
<1>4. CSRFPasses(q) => CSRFPasses(q2)
  BY <1>3 DEF CSRFPasses
<1>5. "CORS" \notin Ahead(q2)
  <2>1. SUFFICES ASSUME "CORS" \in Ahead(q2) PROVE FALSE
    OBVIOUS
  <2>2. q.todo = <<"CORS", "CSRF", "route">>
    BY <1>1, <1>2, <2>1 DEF Screened
  <2>3. q2.todo = <<"CSRF", "route">>
    BY <1>3, <2>2
  <2> QED BY <2>1, <2>3 DEF Ahead
<1>6. "CSRF" \in Ahead(q2) \/ CSRFPasses(q2)
  BY <1>1, <1>2, <1>4 DEF Screened
<1>7. q2.method # "OPTIONS"
  BY <1>1, <1>2, <1>3, <1>5 DEF Screened
<1> QED BY <1>5, <1>6, <1>7 DEF Screened

LEMMA PassedFine ==
  ASSUME NEW q, Fine(q), q.status = "pending", NEW q2, Passed(q, q2),
         Head(q.todo) \notin Final,
         Head(q.todo) \in Guard => q.cred \in Admits(Head(q.todo)),
         Head(q.todo) = "CSRF" => CSRFPasses(q),
         Head(q.todo) = "CORS" => q.method # "OPTIONS",
         q2.paid = q.paid \/ Head(q.todo) \in Limiter
  PROVE  Fine(q2)
<1>1. q \in Request /\ OnItsWay(q) /\ (q.paid # {} => q.todo = <<"handler">>)
  BY FinePending
<1>2. q.todo \in Seq(Stage) /\ WayOK(q.todo)
  BY <1>1 DEF Request, OnItsWay
<1>3. q2.status = "pending" /\ q2 \in Request /\ q2.todo = Tail(q.todo)
  BY DEF Passed
<1>4. WayOK(q2.todo)
  BY <1>2, <1>3, WayTail
<1>5. OnItsWay(q2)
  BY <1>1, <1>4, PassedKept, PassedScreened DEF OnItsWay
<1>6. q.todo # <<"handler">>
  <2>1. SUFFICES ASSUME q.todo = <<"handler">> PROVE FALSE
    OBVIOUS
  <2>2. Head(q.todo) = "handler"
    BY <2>1
  <2> QED BY <2>2 DEF Final
<1>7. q2.paid # {} => q2.todo = <<"handler">>
  BY <1>1, <1>2, <1>3, <1>6, WayHead
<1> QED BY <1>3, <1>5, <1>7 DEF Fine, Served

(* a middleware or the router answers *)
LEMMA RefusedFine ==
  ASSUME NEW q, Fine(q), q.status = "pending", q.todo # <<"handler">>,
         NEW s \in {"204", "401", "403", "404", "429"}
  PROVE  Fine([q EXCEPT !.status = s])
<1>1. q \in Request /\ q.paid = {}
  BY FinePending
<1>2. /\ [q EXCEPT !.status = s] \in Request
      /\ [q EXCEPT !.status = s].paid = {}
      /\ [q EXCEPT !.status = s].status = s
  BY <1>1 DEF Request
<1> QED BY <1>2 DEF Fine, Served

(* the handler answers *)
LEMMA HandledFine ==
  ASSUME NEW q, Fine(q), q.status = "pending", Head(q.todo) = "handler",
         NEW s \in {"200", "500"}
  PROVE  Fine([q EXCEPT !.status = s])
<1>1. q \in Request /\ OnItsWay(q)
  BY FinePending
<1>2. q.todo \in Seq(Stage) /\ WayOK(q.todo) /\ Screened(q) /\ Kept(q)
  BY <1>1 DEF Request, OnItsWay
<1>3. q.todo = <<"handler">>
  BY <1>2, WayHead DEF Final
<1>4. Ahead(q) = {"handler"}
  BY <1>3 DEF Ahead
<1>5. /\ q.path \in ReadmeSuperAdmin => q.cred = "super_admin"
      /\ q.path \in ReadmeAdmin => q.cred \in {"moderator", "super_admin"}
      /\ q.path \in ReadmeClient => q.cred = "client"
  BY <1>2, <1>4 DEF Kept, Guarded, Admits
<1>6. CSRFPasses(q) /\ q.method # "OPTIONS"
  BY <1>2, <1>4 DEF Screened
<1>7. q.path \in ReadmeSuperAdmin \cup ReadmeAdmin \cup ReadmeClient =>
        q.path \notin PublicAuthPaths
  BY DEF ReadmeSuperAdmin, ReadmeAdmin, ReadmeClient, PublicAuthPaths
<1>8. q.path \in ReadmeSuperAdmin \cup ReadmeAdmin \cup ReadmeClient =>
        q.method = "GET" \/ q.csrf
  BY <1>6, <1>7 DEF CSRFPasses
<1> DEFINE a == [q EXCEPT !.status = s]
<1>9. /\ a \in Request /\ a.status = s /\ a.todo = q.todo /\ a.paid = q.paid
      /\ a.path = q.path /\ a.cred = q.cred /\ a.method = q.method /\ a.csrf = q.csrf
  BY <1>1 DEF Request
<1>10. Fine(a)
  <2> HIDE DEF a
  <2>1. a.status # "pending" /\ a.status \notin {"204", "401", "403", "404", "429"}
    BY <1>9
  <2>2. a.paid # {} => a.todo = <<"handler">> /\ a.status \in {"pending", "200", "500"}
    BY <1>3, <1>9
  <2> QED BY <1>5, <1>8, <1>9, <2>1, <2>2 DEF Fine
<1> QED BY <1>10

(* the router found a route, or none *)
LEMMA RoutedFine ==
  ASSUME NEW q, Fine(q), q.status = "pending", Head(q.todo) = "route",
         NEW todo \in Seq(Stage), WayOK(todo),
         \A i \in 1 .. Len(todo) : todo[i] \notin {"CORS", "CSRF"},
         Kept([q EXCEPT !.todo = todo])
  PROVE  Fine([q EXCEPT !.todo = todo])
<1>1. q \in Request /\ OnItsWay(q) /\ (q.paid # {} => q.todo = <<"handler">>)
  BY FinePending
<1>2. q.todo \in Seq(Stage) /\ WayOK(q.todo) /\ Screened(q)
  BY <1>1 DEF Request, OnItsWay
<1>3. q.todo = <<"route">>
  BY <1>2, WayHead DEF Final
<1>4. Ahead(q) = {"route"}
  BY <1>3 DEF Ahead
<1>5. q.paid = {}
  <2>1. SUFFICES ASSUME q.paid # {} PROVE FALSE
    OBVIOUS
  <2>2. Head(q.todo) = "handler"
    BY <1>1, <2>1
  <2> QED BY <2>2
<1>6. CSRFPasses(q) /\ q.method # "OPTIONS"
  BY <1>2, <1>4 DEF Screened
<1> DEFINE a == [q EXCEPT !.todo = todo]
<1>7. /\ a \in Request /\ a.status = "pending" /\ a.todo = todo /\ a.paid = {}
      /\ a.path = q.path /\ a.method = q.method /\ a.csrf = q.csrf
  BY <1>1, <1>5 DEF Request
<1>8. Kept(a)
  OBVIOUS
<1>9. Fine(a)
  <2> HIDE DEF a
  <2>1. "CORS" \notin Ahead(a)
    BY <1>7 DEF Ahead
  <2>2. Screened(a)
    BY <1>6, <1>7, <2>1 DEF Screened, CSRFPasses
  <2>3. OnItsWay(a)
    BY <1>7, <1>8, <2>2 DEF OnItsWay
  <2> QED BY <1>7, <2>3 DEF Fine, Served
<1> QED BY <1>9

LEMMA ChainWay ==
  ASSUME NEW chain, ChainOK(chain)
  PROVE  /\ Append(chain, "handler") \in Seq(Stage)
         /\ WayOK(Append(chain, "handler"))
         /\ \A i \in 1 .. Len(Append(chain, "handler")) :
              Append(chain, "handler")[i] \notin {"CORS", "CSRF"}
         /\ \A stage : Has(chain, stage) =>
              \E i \in 1 .. Len(Append(chain, "handler")) : Append(chain, "handler")[i] = stage
<1> DEFINE way == Append(chain, "handler")
<1>1. /\ chain \in Seq(Guard \cup Limiter) /\ Len(chain) \in Nat
      /\ \A i \in 1 .. Len(chain) : chain[i] \in Limiter => i = Len(chain)
  BY DEF ChainOK
<1>2. /\ Guard \cup Limiter \subseteq Stage /\ "handler" \in Stage
      /\ "handler" \in Final /\ "handler" \notin Limiter
      /\ \A x \in Guard \cup Limiter : x \notin Final /\ x \notin {"CORS", "CSRF"}
  BY DEF Guard, Limiter, Final, Stage
<1>3. way \in Seq(Stage)
  BY <1>1, <1>2
<1>4. /\ Len(way) = Len(chain) + 1 /\ way[Len(chain) + 1] = "handler"
      /\ \A i \in 1 .. Len(chain) : way[i] = chain[i] /\ chain[i] \in Guard \cup Limiter
  BY <1>1
<1> HIDE DEF way
<1>5. WayOK(way)
  <2>1. ASSUME NEW i \in 1 .. Len(way)
        PROVE  /\ way[i] \in Final <=> i = Len(way)
               /\ way[i] \in Limiter => i + 1 = Len(way) /\ way[Len(way)] = "handler"
    <3>1. CASE i = Len(chain) + 1
      BY <1>2, <1>4, <3>1
    <3>2. CASE i \in 1 .. Len(chain)
      BY <1>1, <1>2, <1>4, <3>2
    <3> QED BY <1>1, <1>4, <3>1, <3>2
  <2> QED BY <1>1, <1>4, <2>1 DEF WayOK
<1>6. \A i \in 1 .. Len(way) : way[i] \notin {"CORS", "CSRF"}
  BY <1>1, <1>2, <1>4
<1>7. \A stage : Has(chain, stage) => \E i \in 1 .. Len(way) : way[i] = stage
  BY <1>1, <1>4 DEF Has
<1> QED BY <1>3, <1>5, <1>6, <1>7 DEF way

LEMMA RouteFine ==
  ASSUME NEW q, Fine(q), q.status = "pending", Head(q.todo) = "route",
         NEW e, RouteOK(e), e.path = q.path
  PROVE  Fine([q EXCEPT !.todo = Append(e.chain, "handler")])
<1> DEFINE a == [q EXCEPT !.todo = Append(e.chain, "handler")]
<1>1. q \in Request
  BY FinePending
<1>2. a.todo = Append(e.chain, "handler") /\ a.path = q.path
  BY <1>1 DEF Request
<1>3. /\ ChainOK(e.chain)
      /\ q.path \in ReadmeSuperAdmin => Has(e.chain, "SuperAdminOnly")
      /\ q.path \in ReadmeAdmin => Has(e.chain, "AdminAuth")
      /\ q.path \in ReadmeClient => Has(e.chain, "ClientAuth")
  BY DEF RouteOK
<1>4. Kept(a)
  <2> HIDE DEF a
  <2>1. \A stage : Has(e.chain, stage) => stage \in Ahead(a)
    BY <1>2, <1>3, ChainWay DEF Ahead
  <2> QED BY <1>2, <1>3, <2>1 DEF Kept, Guarded
<1> QED BY <1>3, <1>4, ChainWay, RoutedFine

LEMMA UnroutedFine ==
  ASSUME NEW q, Fine(q), q.status = "pending", Head(q.todo) = "route"
  PROVE  Fine([q EXCEPT !.todo = Unrouted(q.path)])
<1> DEFINE a == [q EXCEPT !.todo = Unrouted(q.path)]
<1>1. q \in Request
  BY FinePending
<1>2. Unrouted(q.path) \in {<<"ClientAuth", "404">>, <<"404">>}
  BY DEF Unrouted
<1>3. a.todo = Unrouted(q.path)
  BY <1>1 DEF Request
<1>4. ASSUME NEW todo \in {<<"ClientAuth", "404">>, <<"404">>}
      PROVE  /\ todo \in Seq(Stage) /\ WayOK(todo)
             /\ \A i \in 1 .. Len(todo) : todo[i] \notin {"CORS", "CSRF"}
             /\ \E i \in 1 .. Len(todo) : todo[i] = "404"
  <2>1. CASE todo = <<"404">>
    <3>1. Len(todo) = 1 /\ todo[1] = "404" /\ todo \in Seq(Stage)
      BY <2>1 DEF Stage, Final
    <3> QED BY <3>1 DEF Final, Limiter, WayOK
  <2>2. CASE todo = <<"ClientAuth", "404">>
    <3>1. Len(todo) = 2 /\ todo[1] = "ClientAuth" /\ todo[2] = "404" /\ todo \in Seq(Stage)
      BY <2>2 DEF Stage, Final, Guard
    <3> QED BY <3>1 DEF Final, Limiter, WayOK
  <2> QED BY <2>1, <2>2
<1>5. Kept(a)
  <2> HIDE DEF a
  <2> QED BY <1>2, <1>3, <1>4 DEF Kept, Ahead
<1> QED BY <1>2, <1>4, <1>5, RoutedFine

-----------------------------------------------------------------------------
(***************************************************************************)
(* Gateway: the inductive invariant and the properties.                    *)
(***************************************************************************)

(* the request of one slot changes, and stays fine *)
LEMMA SlotFine ==
  ASSUME NEW r \in Slots, NEW q, Fine(q),
         req \in [Slots -> Request \cup {NoRequest}], \A x \in Slots : Fine(req[x]),
         req' = [req EXCEPT ![r] = q]
  PROVE  /\ req' \in [Slots -> Request \cup {NoRequest}]
         /\ \A x \in Slots : Fine(req'[x])
<1>1. q \in Request \cup {NoRequest}
  BY DEF Fine
<1> QED BY <1>1

LEMMA GatewayInitially == GatewayInit => GatewayIInv
<1> SUFFICES ASSUME GatewayInit PROVE GatewayIInv
  OBVIOUS
<1>1. store \in Store /\ bucket \in [Limiter -> 0 .. Burst]
  BY Environment DEF GatewayInit
<1>2. /\ req \in [Slots -> Request \cup {NoRequest}]
      /\ \A r \in Slots : req[r] = NoRequest
  BY DEF GatewayInit
<1> QED BY <1>1, <1>2, FineNoRequest, GatewayFine

LEMMA GatewayStep == GatewayIInv /\ [GatewayNext]_gatewayVars => GatewayIInv'
<1> SUFFICES ASSUME GatewayIInv, [GatewayNext]_gatewayVars PROVE GatewayIInv'
  OBVIOUS
<1>0. /\ store \in Store /\ bucket \in [Limiter -> 0 .. Burst] /\ Burst \in Nat
      /\ req \in [Slots -> Request \cup {NoRequest}]
      /\ \A r \in Slots : Fine(req[r])
  BY GatewayFine, Environment
<1> DEFINE Slotted == /\ req' \in [Slots -> Request \cup {NoRequest}]
                      /\ \A x \in Slots : Fine(req'[x])
           Same == UNCHANGED <<store, bucket>>
<1>1. SUFFICES /\ store' \in Store /\ bucket' \in [Limiter -> 0 .. Burst]
                /\ Slotted
  <2>1. (GatewayIInv <=> /\ store \in Store
                  /\ bucket \in [Limiter -> 0 .. Burst]
                  /\ req \in [Slots -> Request \cup {NoRequest}]
                  /\ \A r \in Slots : Fine(req[r]))'
    BY GatewayFine, PTL
  <2> QED BY <2>1
<1>2. ASSUME NEW r \in Slots, NEW method \in Method, NEW path \in Path,
             NEW cred \in Cred, NEW csrf \in BOOLEAN,
             Arrive(r, method, path, cred, csrf)
      PROVE  Slotted
  <2> DEFINE q == [method |-> method, path |-> path, cred |-> cred, csrf |-> csrf,
                   todo |-> <<"CORS", "CSRF", "route">>, paid |-> {},
                   status |-> "pending"]
  <2>1. req' = [req EXCEPT ![r] = q]
    BY <1>2 DEF Arrive
  <2>2. /\ <<"CORS", "CSRF", "route">> \in Seq(Stage)
        /\ Len(<<"CORS", "CSRF", "route">>) = 3
        /\ <<"CORS", "CSRF", "route">>[1] = "CORS"
        /\ <<"CORS", "CSRF", "route">>[2] = "CSRF"
        /\ <<"CORS", "CSRF", "route">>[3] = "route"
    BY DEF Stage, Final
  <2>3. WayOK(<<"CORS", "CSRF", "route">>)
    BY <2>2 DEF WayOK, Final, Limiter
  <2>4. /\ q \in Request /\ q.todo = <<"CORS", "CSRF", "route">>
        /\ q.paid = {} /\ q.status = "pending"
    BY <2>2 DEF Request
  <2>5. Fine(q)
    <3> HIDE DEF q
    <3>1. {"CORS", "CSRF", "route"} \subseteq Ahead(q)
      BY <2>2, <2>4 DEF Ahead
    <3>2. OnItsWay(q)
      BY <2>3, <2>4, <3>1 DEF OnItsWay, Screened, Kept
    <3> QED BY <2>4, <3>2 DEF Fine, Served
  <2> QED BY <1>0, <2>1, <2>5, SlotFine
<1>3. ASSUME NEW r \in Slots, Pending(r), Head(req[r].todo) \notin Final, PassOn(r),
             Head(req[r].todo) \in Guard => req[r].cred \in Admits(Head(req[r].todo)),
             Head(req[r].todo) = "CSRF" => CSRFPasses(req[r]),
             Head(req[r].todo) = "CORS" => req[r].method # "OPTIONS"
      PROVE  Slotted
  <2> DEFINE q == req[r]
             q2 == [q EXCEPT !.todo = Tail(@)]
  <2>1. q.status = "pending" /\ Fine(q) /\ req' = [req EXCEPT ![r] = q2]
    BY <1>0, <1>3 DEF Pending, PassOn
  <2>2. q \in Request /\ WayOK(q.todo) /\ q.todo \in Seq(Stage)
    BY <2>1, FinePending DEF OnItsWay, Request
  <2>3. Tail(q.todo) \in Seq(Stage)
    BY <1>3, <2>2, WayTail
  <2>4. Passed(q, q2) /\ q2.paid = q.paid
    BY <2>2, <2>3 DEF Passed, Request
  <2>5. Fine(q2)
    <3> HIDE DEF q2
    <3> QED BY <1>3, <2>1, <2>4, PassedFine
  <2> QED BY <1>0, <2>1, <2>5, SlotFine
<1>4. ASSUME NEW r \in Slots, Pending(r), NEW stage, Head(req[r].todo) = stage,
             stage # "handler", NEW s \in {"204", "401", "403", "404", "429"},
             Respond(r, s)
      PROVE  Slotted
  <2>1. req[r].status = "pending" /\ Fine(req[r])
    BY <1>0, <1>4 DEF Pending
  <2>2. req[r].todo # <<"handler">>
    BY <1>4
  <2>3. Fine([req[r] EXCEPT !.status = s])
    BY <2>1, <2>2, RefusedFine
  <2>4. req' = [req EXCEPT ![r] = [req[r] EXCEPT !.status = s]]
    BY <1>4 DEF Respond
  <2> QED BY <1>0, <2>3, <2>4, SlotFine
<1>5. ASSUME NEW r \in Slots, CORS(r) PROVE Slotted /\ Same
  <2>1. Pending(r) /\ Head(req[r].todo) = "CORS" /\ Same
    BY <1>5 DEF CORS, At
  <2>2. CASE req[r].method = "OPTIONS"
    BY <1>4, <1>5, <2>1, <2>2 DEF CORS
  <2>3. CASE req[r].method # "OPTIONS"
    <3>1. PassOn(r) /\ "CORS" \notin Final /\ "CORS" \notin Guard
      BY <1>5, <2>3 DEF CORS, Final, Guard
    <3> QED BY <1>3, <2>1, <2>3, <3>1
  <2> QED BY <2>2, <2>3
<1>6. ASSUME NEW r \in Slots, CSRFMiddleware(r) PROVE Slotted /\ Same
  <2>1. Pending(r) /\ Head(req[r].todo) = "CSRF" /\ Same
    BY <1>6 DEF CSRFMiddleware, At
  <2>2. CASE CSRFPasses(req[r])
    <3>1. PassOn(r) /\ "CSRF" \notin Final /\ "CSRF" \notin Guard
      BY <1>6, <2>2 DEF CSRFMiddleware, Final, Guard
    <3> QED BY <1>3, <2>1, <2>2, <3>1
  <2>3. CASE ~CSRFPasses(req[r])
    BY <1>4, <1>6, <2>1, <2>3 DEF CSRFMiddleware
  <2> QED BY <2>2, <2>3
<1>7. ASSUME NEW r \in Slots, Route(r) PROVE Slotted /\ Same
  <2>1. /\ req[r].status = "pending" /\ Head(req[r].todo) = "route" /\ Same
        /\ Fine(req[r])
    BY <1>0, <1>7 DEF Route, At, Pending
  <2>2. CASE \E e \in Routes(store) :
               /\ e.method = req[r].method /\ e.path = req[r].path
               /\ req' = [req EXCEPT ![r].todo = Append(e.chain, "handler")]
    <3>1. PICK e \in Routes(store) :
            /\ e.path = req[r].path
            /\ req' = [req EXCEPT ![r] = [req[r] EXCEPT !.todo = Append(e.chain, "handler")]]
      BY <2>2
    <3>2. Fine([req[r] EXCEPT !.todo = Append(e.chain, "handler")])
      BY <1>0, <2>1, <3>1, RoutesOK, RouteFine
    <3> QED BY <1>0, <2>1, <3>1, <3>2, SlotFine
  <2>3. CASE req' = [req EXCEPT ![r].todo = Unrouted(req[r].path)]
    BY <1>0, <2>1, <2>3, UnroutedFine, SlotFine
  <2> QED BY <1>7, <2>2, <2>3 DEF Route
<1>8. ASSUME NEW r \in Slots, NEW stage \in Guard, Authorize(r, stage)
      PROVE  Slotted /\ Same
  <2>1. /\ Pending(r) /\ Head(req[r].todo) = stage /\ Same
        /\ stage \notin Final \cup {"CORS", "CSRF"}
    BY <1>8 DEF Authorize, At, Guard, Final
  <2>2. \/ Respond(r, "401")
        \/ req[r].cred \in Admits(stage) /\ PassOn(r)
        \/ Respond(r, "403")
    BY <1>8 DEF Authorize
  <2>3. CASE Respond(r, "401") \/ Respond(r, "403")
    <3>1. stage # "handler"
      BY <2>1 DEF Final
    <3> QED BY <1>4, <2>1, <2>3, <3>1
  <2>4. CASE req[r].cred \in Admits(stage) /\ PassOn(r)
    BY <1>3, <2>1, <2>4
  <2> QED BY <2>1, <2>2, <2>3, <2>4
<1>9. ASSUME NEW r \in Slots, NEW l \in Limiter, RateLimit(r, l)
      PROVE  Slotted /\ store' = store /\ bucket' \in [Limiter -> 0 .. Burst]
  <2> DEFINE q == req[r]
             q2 == [q EXCEPT !.todo = Tail(@), !.paid = @ \cup {l}]
  <2>1. /\ Pending(r) /\ Head(q.todo) = l /\ store' = store
        /\ l \notin Final \cup Guard \cup {"CORS", "CSRF"}
    BY <1>9 DEF RateLimit, At, Guard, Limiter, Final
  <2>2. CASE bucket[l] > 0
    <3>1. /\ req' = [req EXCEPT ![r] = q2]
          /\ bucket' = [bucket EXCEPT ![l] = @ - 1]
      BY <1>0, <1>9, <2>2 DEF RateLimit
    <3>2. bucket' \in [Limiter -> 0 .. Burst]
      BY <1>0, <2>2, <3>1
    <3>3. q.status = "pending" /\ Fine(q)
      BY <1>0, <2>1 DEF Pending
    <3>4. q \in Request /\ WayOK(q.todo) /\ q.todo \in Seq(Stage)
      BY <3>3, FinePending DEF OnItsWay, Request
    <3>5. Tail(q.todo) \in Seq(Stage)
      BY <2>1, <3>4, WayTail
    <3>6. Passed(q, q2)
      BY <3>4, <3>5 DEF Passed, Request
    <3>7. Fine(q2)
      <4> HIDE DEF q2
      <4> QED BY <2>1, <3>3, <3>6, PassedFine
    <3> QED BY <1>0, <2>1, <3>1, <3>2, <3>7, SlotFine
  <2>3. CASE ~(bucket[l] > 0)
    <3>1. Respond(r, "429") /\ bucket' = bucket /\ l # "handler"
      BY <1>9, <2>1, <2>3 DEF RateLimit, Final
    <3> QED BY <1>0, <1>4, <2>1, <3>1
  <2> QED BY <2>2, <2>3
<1>10. ASSUME NEW r \in Slots, NotFound(r) PROVE Slotted /\ Same
  BY <1>4, <1>10 DEF NotFound, At
<1>11. ASSUME NEW r \in Slots, Handle(r) PROVE Slotted /\ Same
  <2>1. /\ req[r].status = "pending" /\ Head(req[r].todo) = "handler" /\ Same
        /\ Fine(req[r])
    BY <1>0, <1>11 DEF Handle, At, Pending
  <2>2. PICK s \in {"200", "500"} : req' = [req EXCEPT ![r] = [req[r] EXCEPT !.status = s]]
    BY <1>11 DEF Handle, Respond
  <2>3. Fine([req[r] EXCEPT !.status = s])
    BY <2>1, HandledFine
  <2> QED BY <1>0, <2>1, <2>2, <2>3, SlotFine
<1>12. ASSUME NEW r \in Slots, Answered(r) PROVE Slotted /\ Same
  BY <1>0, <1>12, FineNoRequest, SlotFine DEF Answered
<1>13. ASSUME NEW l \in Limiter, Refill(l)
       PROVE  Slotted /\ store' = store /\ bucket' \in [Limiter -> 0 .. Burst]
  BY <1>0, <1>13 DEF Refill
<1>14. CASE UNCHANGED gatewayVars
  BY <1>0, <1>14 DEF gatewayVars
<1>15. ASSUME NEW r \in Slots, NEW method \in Method, NEW path \in Path,
              NEW cred \in Cred, NEW csrf \in BOOLEAN,
              Arrive(r, method, path, cred, csrf)
       PROVE  Same
  BY <1>15 DEF Arrive
<1> QED
  BY <1>0, <1>2, <1>5, <1>6, <1>7, <1>8, <1>9, <1>10, <1>11, <1>12, <1>13,
     <1>14, <1>15
     DEF GatewayNext

(* The inductive invariant of Gateway holds in every reachable state. *)
THEOREM GatewayInductive == GatewaySpec => []GatewayIInv
BY GatewayInitially, GatewayStep, PTL DEF GatewaySpec

(* A limiter never has less than no tokens nor more than its burst, and a  *)
(* request is always somewhere on the way main has laid out. *)
THEOREM GatewayTypes == GatewaySpec => []GatewayTypeOK
<1>1. GatewayIInv => GatewayTypeOK
  BY DEF GatewayIInv
<1> QED BY <1>1, GatewayInductive, PTL

(* Whatever is sent, and whatever NewStorageClient returned, a handler     *)
(* serves whom README.md's API Endpoints say (the nesting of Route, Group, *)
(* Use and With in main.go; requireAuth and AdminRoleAtLeast, auth.go). *)
THEOREM ServesAsDocumented == GatewaySpec => []ServedAsDocumented
<1>1. GatewayIInv => ServedAsDocumented
  BY DEF GatewayIInv
<1> QED BY <1>1, GatewayInductive, PTL

(* No write that acts for a session gets to its handler without the CSRF   *)
(* token (CSRFMiddleware, csrf.go: what it lets through has no session). *)
THEOREM SessionWritesAreGuarded == GatewaySpec => []SessionWritesGuarded
<1>1. GatewayIInv => SessionWritesGuarded
  BY DEF GatewayIInv
<1> QED BY <1>1, GatewayInductive, PTL

(* Whoever is refused before the handler has used up no token of any       *)
(* limiter (the limiter is the last middleware of every chain, main.go). *)
THEOREM RefusalsAreFree == GatewaySpec => []RefusalIsFree
<1>1. GatewayIInv => RefusalIsFree
  BY DEF GatewayIInv
<1> QED BY <1>1, GatewayInductive, PTL
=============================================================================
