SPECIFICATION DeploymentSpec
CONSTANTS
  Service = {"db", "job", "web"}
  Infra = {"db"}
  Job = {"job"}
  OnHost = {"db", "web"}
  DependsOn <- MCDependsOn
  Version = {"v1", "v2"}
  Manifests <- MCManifests
  Address = {1, 2, 3}
  MaxDeploys = 2
  MaxFaults = 2
INVARIANTS NoOrphans PeersCurrent NeverStuck
PROPERTIES DependenciesFirst
CHECK_DEADLOCK FALSE
