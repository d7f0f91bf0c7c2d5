SPECIFICATION MCSpec
CONSTANTS
  Topics = {v, w}
  Texts = {x, y}
  None = None
  MaxSpans = 2
  WriteBatch = 1
  Names = {n, m}
  Promotable = {z}
  Short = Short
  Writers = {v, w}
  NoRow = NoRow
  MaxTopics = 2
  MaxEvidence = 2
SYMMETRY Symmetric
INVARIANTS
  ReadsBackAsCut
  NumbersAreFree
  History
  HandWrittenStays
PROPERTIES
  NamesStillReach
