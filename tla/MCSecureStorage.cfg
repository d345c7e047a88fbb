SPECIFICATION Spec
CONSTANTS
  p1 = p1
  p2 = p2
  a = a
  b = b
  dot = dot
  bad = bad
  k0 = k0
  k1 = k1
  k2 = k2
  short = short
  part = part
  long = long
  full = full
  Proc = {p1, p2}
  Name = {a, b, dot, bad}
  Valid = {a, b, dot}
  Hidden = {dot}
  Key = {k0, k1, k2}
  LegalKey = {k1, k2}
  Data = {short, part, long, full}
  Blocks <- MCBlocks
  Accepted = {short, part, long, full}
  MaxBlocks = 2
  Cut <- MCCut
  Request <- MCRequest
  Fault = {"driver", "disk", "crash"}
  None = None
  Partial = Partial
  Left = Left
  Alien = Alien
  Garbage = Garbage
  Error = Error
  Done = Done
  Failed = Failed
SYMMETRY ProcSymmetry
INVARIANTS
  StorageTypeOK
  ReadSound
  ReadComplete
  ListSound
  SuccessIsReal
  
PROPERTIES
  ChangesAreAsked
  CreateLooksFirst
