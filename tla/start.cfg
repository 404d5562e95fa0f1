SPECIFICATION Spec
CONSTANTS
  c1 = c1 c2 = c2 c3 = c3 evil = evil core = core tool = tool data = data
  Commits <- MCCommits Base = c1 Rogue = evil
  VersionAt <- MCVersionAt
  TreeAt <- MCTreeAt
  DepsAt <- MCDepsAt
  Paths <- MCPaths
  NeverTouch <- MCNeverTouch
  Editable <- MCEditable
  Yours = Yours Gone = Gone Down = Down NoManifest = NoManifest Unset = Unset
  Offers <- MCOffers
  Claims <- MCClaims
  NMirrors = 2
  MaxSigned = 2
  MaxEdits = 2
  MaxCrashes = 1
INVARIANTS SignedTree GateKept
PROPERTIES NeverDowngrades FilesKept KeepsMining
