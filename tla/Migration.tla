------------------------------ MODULE Migration ------------------------------
(***************************************************************************)
(* The start of a process on the database file: NewDB opens it, sets the   *)
(* pragmas and runs migrate, twelve statements that must work on a fresh   *)
(* file, on the file of an older version, and on one whose migration was   *)
(* cut short (pkg/database/sqlite.go).  Two kinds of process do so on one  *)
(* file: the server, which docker-compose starts again whenever it ends,   *)
(* and the seed-admin command (cmd/server/main.go).                        *)
(*                                                                         *)
(* Each statement is atomic and durable, and the statements of two         *)
(* processes interleave.  None of them waits: no busy_timeout is set, so a *)
(* statement that meets the other process's lock fails, like one that      *)
(* meets a full disk; any failure but "duplicate column" ends the process. *)
(***************************************************************************)
EXTENDS Integers, Sequences

CONSTANTS
  Processes,  \* processes that may open the file
  Server,     \* the one that is supervised; the others seed an admin
  Admins,     \* rows of ADMINS
  OldFiles,   \* files of older versions to start from
  MaxFaults   \* bound: failed statements and crashes

(***************************************************************************)
(* The schema: tables, indexes and the columns that older files lack.  A   *)
(* statement adds its element, and a CREATE TABLE the columns of today's   *)
(* table with it; banner_image_url is not among them.                      *)
(***************************************************************************)
Create(table, columns) == [kind |-> "create", name |-> table, adds |-> {table} \cup columns]
Index(name)            == [kind |-> "create", name |-> name, adds |-> {name}]
AddColumn(name)        == [kind |-> "alter", name |-> name, adds |-> {name}]

ProfileColumns ==
  {"company_name", "company_website", "company_logo_url", "company_bio",
   "created_by_admin_id"}

Statements ==
  << Create("ADMINS", {"admin_role"}),
     Create("CLIENTS", ProfileColumns),
     Create("JOBSAPPS", {}),
     Index("idx_jobsapps_status"),
     Index("idx_jobsapps_client_id"),
     AddColumn("admin_role"),
     AddColumn("company_name"),
     AddColumn("company_website"),
     AddColumn("company_logo_url"),
     AddColumn("company_bio"),
     AddColumn("created_by_admin_id"),
     AddColumn("banner_image_url") >>

Last    == 12
Element == {"ADMINS", "CLIENTS", "JOBSAPPS", "idx_jobsapps_status",
            "idx_jobsapps_client_id", "admin_role", "banner_image_url"}
             \cup ProfileColumns

ASSUME MigrationEnvironment ==
  /\ Server \in Processes
  /\ OldFiles \subseteq SUBSET Element
  /\ \A f \in OldFiles : {"ADMINS", "CLIENTS", "JOBSAPPS"} \subseteq f
  /\ MaxFaults \in Nat

Role == {"super_admin", "moderator"}

VARIABLES
  file,    \* the elements of the schema the file has
  roles,   \* each admin's role: absent without a row, unset without the column
  pc,      \* where each process is
  next,    \* the statement of migrate it runs next
  hurt,    \* history: the processes that met a fault in this life
  faults   \* faults so far

migrationVars == <<file, roles, pc, next, hurt, faults>>

MigrationInit ==
  /\ \/ file = {} /\ roles = [a \in Admins |-> "absent"]
     \/ /\ file \in OldFiles
        /\ roles \in [Admins -> {"absent"} \cup
                        IF "admin_role" \in file THEN Role ELSE {"unset"}]
  /\ pc = [p \in Processes |-> "down"]
  /\ next = [p \in Processes |-> 1]
  /\ hurt = {}
  /\ faults = 0

-----------------------------------------------------------------------------
(***************************************************************************)
(* Plausible mistakes, for the mutation runs.                              *)
(***************************************************************************)

(* isDuplicateColumnErr with a text the driver does not use *)
Ignored_Never(duplicate) == FALSE

(* migrate returns at the first column that is there: "already migrated" *)
Following_Return(i, duplicate) == IF duplicate THEN Last + 1 ELSE i + 1

(* the default of the role column that the handler has *)
DefaultRole_Moderator == "moderator"

-----------------------------------------------------------------------------
(* DEFAULT 'super_admin', for old rows and for the rows of seed-admin *)
DefaultRole == "super_admin"

(* an ALTER of a column that is there is an error; IF NOT EXISTS is not *)
Duplicate(s, f) == s.kind = "alter" /\ s.name \in f

(* isDuplicateColumnErr: the errors that migrate goes on after *)
Ignored(duplicate) == duplicate

(* the statement after the i-th *)
Following(i, duplicate) == i + 1

Effect(s, f) == IF s.name \in f THEN f ELSE f \cup s.adds

(* a process starts, again if it ended: the server by its supervisor, the *)
(* command by hand *)
Start(p) ==
  /\ pc[p] \in {"down", "failed"}
  /\ pc' = [pc EXCEPT ![p] = "opening"]
  /\ next' = [next EXCEPT ![p] = 1]
  /\ hurt' = hurt \ {p}
  /\ UNCHANGED <<file, roles, faults>>

(* sql.Open, Ping and the pragmas: they concern the connection only *)
Open(p) ==
  /\ pc[p] = "opening"
  /\ pc' = [pc EXCEPT ![p] = "migrating"]
  /\ UNCHANGED <<file, roles, next, hurt, faults>>

(* the next statement of migrate *)
Migrate(p) ==
  LET s         == Statements[next[p]]
      duplicate == Duplicate(s, file)
      after     == Following(next[p], duplicate)
      stops     == duplicate /\ ~Ignored(duplicate)
  IN
  /\ pc[p] = "migrating"
  /\ file' = Effect(s, file)
  /\ roles' = IF "admin_role" \in file' \ file
              THEN [a \in Admins |-> IF roles[a] = "unset" THEN DefaultRole ELSE roles[a]]
              ELSE roles
  /\ next' = [next EXCEPT ![p] = after]
  /\ pc' = [pc EXCEPT ![p] = IF stops THEN "failed"
                             ELSE IF after > Last THEN "ready" ELSE @]
  /\ UNCHANGED <<hurt, faults>>

(* a statement fails (NewDB returns the error, log.Fatalf), or the process *)
(* is killed *)
Fault(p) ==
  /\ pc[p] \in {"opening", "migrating", "ready"}
  /\ faults < MaxFaults
  /\ faults' = faults + 1
  /\ \E end \in IF pc[p] = "ready" THEN {"down"} ELSE {"down", "failed"} :
       pc' = [pc EXCEPT ![p] = end]
  /\ hurt' = hurt \cup {p}
  /\ UNCHANGED <<file, roles, next>>

(* runSeed; it fails if the admin is there already, and exits either way.  *)
(* Its INSERT leaves the role to the table, if that has one *)
Seed(p, a) ==
  /\ p # Server /\ pc[p] = "ready"
  /\ roles' = IF roles[a] # "absent" THEN roles
              ELSE [roles EXCEPT ![a] = IF "admin_role" \in file THEN DefaultRole
                                        ELSE "unset"]
  /\ pc' = [pc EXCEPT ![p] = "down"]
  /\ UNCHANGED <<file, next, hurt, faults>>

(* CreateAdmin in the server: its INSERT names the role *)
CreateAdmin(a, role) ==
  /\ pc[Server] = "ready" /\ "admin_role" \in file
  /\ roles[a] = "absent"
  /\ roles' = [roles EXCEPT ![a] = role]
  /\ UNCHANGED <<file, pc, next, hurt, faults>>

MigrationNext ==
  \/ \E p \in Processes :
       \/ Start(p)
       \/ Open(p)
       \/ Migrate(p)
       \/ Fault(p)
       \/ \E a \in Admins : Seed(p, a)
  \/ \E a \in Admins, role \in Role : CreateAdmin(a, role)

MigrationSpec == MigrationInit /\ [][MigrationNext]_migrationVars

(* The server is started again (docker-compose: restart: unless-stopped)   *)
(* and runs.                                                               *)
MigrationFairSpec ==
  /\ MigrationSpec
  /\ WF_migrationVars(Start(Server))
  /\ WF_migrationVars(Open(Server))
  /\ WF_migrationVars(Migrate(Server))

-----------------------------------------------------------------------------
(***************************************************************************)
(* Correctness.                                                            *)
(***************************************************************************)

MigrationTypeOK ==
  /\ file \in SUBSET Element
  /\ roles \in [Admins -> Role \cup {"absent", "unset"}]
  /\ pc \in [Processes -> {"down", "opening", "migrating", "ready", "failed"}]
  /\ next \in [Processes -> 1 .. Last + 1]
  /\ hurt \in SUBSET Processes
  /\ faults \in 0 .. MaxFaults

Complete == \A i \in 1 .. Last : Statements[i].name \in file

(* What came out of NewDB finds every table, index and column its          *)
(* statements name, whatever file it found, wherever an earlier migration  *)
(* was cut, and whatever the other process did to the file meanwhile.      *)
ReadyIsComplete == \A p \in Processes : pc[p] = "ready" => Complete

(* migrate may be repeated for ever: a start fails only if one of its      *)
(* statements met a fault, never because of what the file already has      *)
(* ("Idempotent column additions", sqlite.go).                             *)
FailsOnlyByFault == \A p \in Processes : pc[p] = "failed" => p \in hurt

(* No start loses an admin or changes a role; the admins of an older file  *)
(* come out as super admins, all of them (they could do everything before  *)
(* there were roles).                                                      *)
RolesSurvive ==
  [][\A a \in Admins :
       roles[a] # "absent" /\ roles'[a] # roles[a]
         => roles[a] = "unset" /\ roles'[a] = "super_admin"]_migrationVars

(* The server comes up in the end and stays up, once there are no more     *)
(* faults.                                                                 *)
ServerComesUp == <>[](pc[Server] = "ready")

-----------------------------------------------------------------------------
(***************************************************************************)
(* The inductive invariant: a process that migrates has done what is       *)
(* before its statement, and nothing is ever taken out of the file.        *)
(***************************************************************************)

Progress ==
  \A p \in Processes :
    /\ pc[p] = "opening" => next[p] = 1
    /\ pc[p] = "migrating" =>
         /\ next[p] <= Last
         /\ \A i \in 1 .. next[p] - 1 : Statements[i].name \in file

(* a role is unset only where the column is missing, and a row needs its   *)
(* table *)
RolesFit ==
  /\ "admin_role" \in file => \A a \in Admins : roles[a] # "unset"
  /\ "ADMINS" \notin file => \A a \in Admins : roles[a] = "absent"

MigrationIInv ==
  /\ MigrationTypeOK
  /\ Progress
  /\ RolesFit
  /\ ReadyIsComplete
  /\ FailsOnlyByFault
=============================================================================
