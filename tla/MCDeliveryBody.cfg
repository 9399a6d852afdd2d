SPECIFICATION DeliverySpec
CONSTANTS
  NULL = NULL
  NoArg = NULL
  Arg <- MCArg
  atoi <- MCatoi
  sscanf <- MCsscanf
  Address <- MCAddress
  UINT16_MAX = 90
  U32 = 100
  CommandLines <- MCCommandLines
  ProxyLines <- MCProxyLines
  Config <- MCConfig
  NodeConfig <- MCNodeConfig
  Piece = {1, 4, 8}
  MaxWritten = 10
  Input = {0, 1, 3, 4, 5, 8, 10, 11, 12, 13, 15, 16, 17}
  U16 = 16
  ReadBuffer = 4
  MaxPacketLength = 13
  HeaderSize = 2
  OptionHeader = 1
  TimestampSize = 1
  CipherValues = 3
  Capacity = 8
  MaxPackets = 5
INVARIANT
  BodyIntact
CHECK_DEADLOCK FALSE
