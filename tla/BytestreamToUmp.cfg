SPECIFICATION UsbLinkSpec
CONSTANTS
  Input <- AllInput
  Groups <- MCGroups
  MaxPending = 1
  MaxSysex = 13
  Cables = {3}
  Packets <- MCPackets
  Payload <- MCPayload
INVARIANTS
  TypeOK
  ParserConsistent
  NothingRefused
PROPERTIES
  ImplementsReceiver
  PacketsHeard
