SPECIFICATION Spec
CONSTANTS
  Topics = {t1}
  Texts = {x}
  None = None
  MaxSpans = 3
  WriteBatch = 2
INVARIANT HoldsNothingElse
