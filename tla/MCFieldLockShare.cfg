CONSTANTS
  Message = {"m1", "m2"}
  Field = {"source", "a"}
  KindField = "kind"
  SourceField = "source"
  KindTag = 3
  SourceTag = 1
  Decls <- WireDecls
  MaxFields = 1
  TagBound = 4
  OtherWireUses = 0
  Order <- TwoMessages
  Files <- TwoFiles
SPECIFICATION Spec
INVARIANT TagsNeverMove
