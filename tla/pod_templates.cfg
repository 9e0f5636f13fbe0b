CONSTANTS
  Components <- MCComponents
  Specs <- MCSpecs
  BaseSpec <- MCBaseSpec
  Confs <- MCConfs
  PeerConfs <- MCPeerConfs
  MaxEdits = 2
  MaxFaults = 1
SPECIFICATION Spec
INVARIANTS
  TypeOK
  MountsBacked
  DataMountedOnce
  PortsAgree
PROPERTIES
  TemplateRollsOut
  UpgradeKeepsPods
