SPECIFICATION Spec
CONSTANTS
  r1 = r1
  r2 = r2
  odd = odd
  bad = bad
  s1 = s1
  s2 = s2
  k1 = k1
  k2 = k2
  Entry = {r1, r2}
  Rule = {r1, r2}
  Tokens <- MCTokens
  Param <- MCParam
  MaxRules = 2
  Stick = {s1, s2}
  Trusting <- MCTrusting
  Key = {k1, k2}
  KeyOf <- MCKeyOf
  Fault = {"flush", "access"}
  Nothing = Nothing
PROPERTY AccessActionKeepsWhitelist
