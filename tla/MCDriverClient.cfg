SPECIFICATION Spec
CONSTANTS
  Client = {c1}
  File = {c1, u1}
  BlockSize = 2
  Key = {1, 2, 3, 4}
  LongKey = {4}
  Iv = {0}
  LegalKey = {1, 2}
  Data <- MCData
  MaxBuffer = 4
  Fault = {"alloc"}
  CbcEncrypt <- MCEncrypt
  CbcDecrypt <- MCDecrypt
  Request <- MCRequest
  NoConfig = NoConfig
  NoAnswer = NoAnswer
  Error = Error
INVARIANTS
  DriverTypeOK
  OutputCurrent
  BuffersBounded
  DriverWhole
  FilesClosed
PROPERTY KeepsService
