SPECIFICATION MCSpec
CONSTANTS
  a = a
  b = b
  a1 = a1
  b1 = b1
  x = x
  y = y
  thin = thin
  Files = {a, b}
  Sections = {a1, b1}
  Of <- MCOf
  Texts = {x, y, thin}
  Thin = {thin}
  Alike <- MCAlike
  ByHand <- MCByHand
  Requests <- MCRequests
  Meanwhile = 2
  Contents <- MCContents
  NoFile = NoFile
  NoRecord = NoRecord
  Never = Never
  Off = Off
  Lines <- MCLines
  MaxLines = 3
  Cap = 3
  HeaderTokens = 5
  NameTokens = 1
  Users = {a, b}
  Engines = {a1, b1}
  NoEngine = NoEngine
  Weights = {1, 2}
  NoCopy = NoCopy
  NoUser = NoUser
INVARIANTS
  TrustedIsUnchanged
  RecordIsTrue
  CutsAreSound
  OneCopy
PROPERTIES
  TrustedIsLeftAlone
  NothingOverlooked
