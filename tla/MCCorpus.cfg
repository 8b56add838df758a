\* One service of two modules and twelve entries, two edits.
CONSTANTS
  Word <- WordDef
  Top = Top
  Missing = Missing
  StateModule = "st"
  MaxEdits = 2
  Entry <- EntryDef
  Module <- ModuleDef
  Kind <- KindDef
  Parent <- ParentDef
  Label <- LabelDef
  Values <- ValuesDef
SPECIFICATION Spec
INVARIANTS
  TypeOK
  FilesAreFresh
  SchemasAreLive
  GeneratedCompiles
PROPERTIES
  MessageNamesStay
  EnumNamesStay
