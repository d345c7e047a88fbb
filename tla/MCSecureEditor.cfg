SPECIFICATION EditorSpec
CONSTANTS
  a = a
  b = b
  dot = dot
  bad = bad
  k1 = k1
  k2 = k2
  k0 = k0
  x = x
  Name = {a, b, bad}
  Valid = {a, b}
  Hidden = {}
  Key = {k0, k1, k2}
  LegalKey = {k1, k2}
  Text = {x}
  NotText = NotText
  Fault = TRUE
  Empty = Empty
  None = None
INVARIANTS
  EditorTypeOK
  TextBelongs
  RowsFresh
PROPERTY SavesOverItsOwn
