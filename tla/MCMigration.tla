----------------------------- MODULE MCMigration -----------------------------
(* A small instance of Migration for TLC. *)
EXTENDS Migration

(* An older version may lack the roles, the profiles and the banners,      *)
(* whichever came first. *)
MCOldFiles ==
  {{"ADMINS", "CLIENTS", "JOBSAPPS"} \cup r \cup p \cup b :
     r \in {{}, {"admin_role"}}, p \in {{}, ProfileColumns},
     b \in {{}, {"banner_image_url"}}}
=============================================================================
