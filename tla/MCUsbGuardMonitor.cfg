SPECIFICATION MonitorSpec
CONSTANTS
  p1 = p1
  p2 = p2
  none = none
  None = none
  Port = {p1}
  Model <- MCModel
  Serial <- MCSerial
  Ident <- Sticks
  Storage <- Sticks
  Rule <- OneRule
  ParamList <- NoParam
  MaxRules = 1
  MaxConnects = 1
  MaxWorks = 1
  Env = {"alloc", "param", "reauth"}
INVARIANT MonitorTypeOK
PROPERTIES
  MonitorSparesTheRest
  MonitorEnforces
  UntrustedDealtWith
