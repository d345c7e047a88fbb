SPECIFICATION FairSpec
CONSTANTS
  p1 = p1
  p2 = p2
  none = none
  None = none
  Port = {p1}
  Model <- MCModel
  Serial <- MCSerial
  Ident <- AllThree
  Storage <- Sticks
  Rule <- BothRules
  ParamList <- SomeParam
  MaxRules = 2
  MaxConnects = 1
  MaxWorks = 2
  Env = {"alloc", "io", "param", "reauth", "seedunplug"}
INVARIANTS
  TypeOK
  NothingOutlivesModule
  RulesWellFormed
PROPERTY
  UnloadEnds
