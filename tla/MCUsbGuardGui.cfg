SPECIFICATION Spec
CONSTANTS
  r1 = r1
  r2 = r2
  odd = odd
  bad = bad
  s1 = s1
  s2 = s2
  k1 = k1
  k2 = k2
  Entry = {r1, odd, bad}
  Rule = {r1, odd}
  Tokens <- MCTokens
  Param <- MCParam
  MaxRules = 2
  Stick = {s1}
  Trusting <- MCTrusting
  Key = {k1}
  KeyOf <- MCKeyOf
  Fault = {"others", "reload", "kill", "open", "write"}
  Nothing = Nothing
INVARIANTS
  GuiTypeOK
  InStep
  SavedWhenReported
PROPERTY PolicyReapplied
