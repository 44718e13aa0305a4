SPECIFICATION MCSpec
CONSTANTS
  Half = {0, 1, 2, 3, 4, 5, 6, 7, 8, 9, 10, 11, 12, 13, 14, 15}
  MaxSize = 50
  Reads <- SomeReads
  MAX_PAYLOAD = 13
  Hellos <- SomeHellos
  Addrs <- SomeAddrs
  Commands = {1, 2}
  Ports <- SomePorts
  Names <- SomeNames
  Behind = {0, 49, 98}
  Addresses = {a1, a2}
  Convs = {c1, c2, c3}
  NoConv = NoConv
  ByteValues = 2
  SourcePorts = {1, 2}
  Lines <- SomeLines
  MaxLines = 5
  CommandLines <- SomeCommands
  SectionOf <- SomeSections
  Local <- SomeLocal
  Remote <- SomeRemote
  AddressOf <- SomeAddress
  Everywhere = Everywhere
  Words <- SomeWords
  MaxMessages = 3
  MaxPieces = 3
CHECK_DEADLOCK FALSE
INVARIANTS ArrivesWhole NamesServed AnswersReturn ConfiguredAsWritten OneLineEach
