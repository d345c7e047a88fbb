SPECIFICATION Spec
CONSTANTS
  p1 = p1
  p2 = p2
  none = none
  None = none
  Port = {p1, p2}
  Model <- MCModel
  Serial <- MCSerial
  Ident <- Sticks
  Storage <- Sticks
  Rule <- OneRule
  ParamList <- NoParam
  MaxRules = 1
  MaxConnects = 1
  MaxWorks = 2
  Env = {"late"}
INVARIANT
  QueueNotMisused
