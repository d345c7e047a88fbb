SPECIFICATION ViewSpec
CONSTANTS
  p1 = p1
  p2 = p2
  s1 = s1
  s2 = s2
  k1 = k1
  k2 = k2
  Port = {p1, p2}
  Stick = {s1, s2}
  Key = {k1, k2}
  KeyOf <- MCKeyOf
  Policies <- MCPolicies
  Disk = {1, 2}
  Fits <- MCFits
  MaxPlugs = 2
  MaxChoices = 1
  None = None
INVARIANTS
  ViewTypeOK
  ButtonsRight
  LogFollows
PROPERTIES
  SelectionKept
  WrittenAsChosen
  EventuallyShown
