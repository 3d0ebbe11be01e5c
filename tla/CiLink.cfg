SPECIFICATION Spec
CONSTANTS
  Mine <- MCMine
  Handlers <- MCHandlers
  Content <- MCContent
  Written <- MCWritten
  Rooms <- MCRooms
  BufferSizes = {17, 140}
  Groups = {1}
  DeviceIds <- MCDeviceIds
  Foreign = {16}
  Extra <- MCExtra
INVARIANTS
  TypeOK
  Prompt
  TextSurvives
  DataSurvives
PROPERTY
  Transferred
