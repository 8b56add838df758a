CONSTANTS
  Module = {"events"}
  Order <- OneModule
  Body = {"live", "deprecated", "plain"}
  Declaring = {"live", "deprecated"}
  LiveBody = {"live"}
  MaxRev = 2
  Text <- TextDef
SPECIFICATION Spec
INVARIANTS TypeOK ServedIsPinned ManifestResolves ManifestComplete CalmSnapshots
PROPERTY SnapshotImmutable
