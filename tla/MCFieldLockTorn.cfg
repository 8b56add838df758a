CONSTANTS
  Message = {"m1"}
  Field = {"source", "a", "b"}
  KindField = "kind"
  SourceField = "source"
  KindTag = 2
  SourceTag = 4
  Decls <- FixedDecls
  MaxFields = 2
  TagBound = 5
  OtherWireUses = 1
  Order <- OneMessage
  Files <- OneFile
SPECIFICATION TornSpec
INVARIANT TagsNeverMove
