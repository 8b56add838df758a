CONSTANTS
  PR = {p1, p2}
  Key = {k}
  Line = {b}
  Module = {"m"}
  Date = {"d"}
  Text = {t, u}
  Message = {"n"}
  Item = {f, g}
  SameTag <- OneTag
  Missing = Missing
  Parts <- CommitParts
  MaxCommits = 2
SPECIFICATION Spec
SYMMETRY Symmetry
INVARIANTS TypeOK SkippedByDesign FreshMainIsClean
PROPERTIES LedgerOnlyShrinks RevisionsSurvive WireSurvives
CHECK_DEADLOCK FALSE
