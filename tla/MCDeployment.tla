---------------------------- MODULE MCDeployment ----------------------------
(* A database and an application of the host, and a job between them; the  *)
(* manifests change the application or leave it out.                       *)
EXTENDS Deployment

MCDependsOn == [db |-> {}, job |-> {"db"}, web |-> {"db", "job"}]
MCManifests ==
  {[db |-> "v1", job |-> "v1", web |-> "v1"], [db |-> "v1", job |-> "v1", web |-> "v2"],
   [db |-> "v1", job |-> "v1", web |-> "absent"]}
=============================================================================
