SPECIFICATION MCSpec
CONSTANTS
  Topics = {t}
  Texts = {x}
  Engines = {d, e}
  Absent = Absent
  Nobody = Nobody
  Nothing = Nothing
  x = x
  y = y
  f = f
  g = g
  top = top
  sub = sub
  Files = {f, g}
  Dirs = {top, sub}
  Top = top
  In <- MCIn
  FileTexts = {x, y}
  NoText = NoText
INVARIANTS
  Findable
  OneIndex
  NothingMissed
PROPERTIES
  RebuildsEnd
  ChangesAreIngested
