SPECIFICATION ValuesSpec
CONSTANTS
  Subjects = {"decimals", "temporals", "calendar", "rows", "binding", "snapshot", "replies", "address", "hosts"}
  LimbDigits = 2
  MaxDigits = 5
  ScaleMax = 8
  PlainExponent = 1
  I64Max = 327
  MaxPrecision = 5
  MaxGroups = 3
  ExponentBias = 2
  Walk = 450
  DaySeconds = 5
  SecondParts = 3
  Base = 8
  Space = 2
  FalseBytes = {0}
  TrueBytes = {1, 7}
  PrefixLimit = 4
  LobBytes = 3
  LobFlag = 2
  StringMax = 2
  Capacities = {0, 1, 3}
  DecimalTargets <- MCDecimalTargets
  DecimalCoefficients <- MCDecimalCoefficients
  DecimalComparands <- MCDecimalComparands
  DecimalSources <- MCDecimalSources
  DecimalTexts <- MCDecimalTexts
  DecimalColumns <- MCDecimalColumns
  DecimalReceived <- MCDecimalReceived
  TemporalGiven <- MCTemporalGiven
  TemporalTexts <- MCTemporalTexts
  TemporalQualifiers <- MCTemporalQualifiers
  TemporalReceived <- MCTemporalReceived
  CalendarStarts <- MCCalendarStarts
  NonFinite <- MCNonFinite
  Layouts <- MCLayouts
  ServerRows <- MCServerRows
  DescriptorSize = 8
  LengthAt = 2
  ChunkMax = 4
  LocatorMax = 4
  NativeWidth = 3
  Widened = {3}
  Unconvertible = {6}
  MaxCalls = 4
  MaxRows = 2
  Statements <- MCStatements
  BoundScalars <- MCBoundScalars
  BoundStrings <- MCBoundStrings
  BoundBytes <- MCBoundBytes
  BoundTimestamps <- MCBoundTimestamps
  BoundNatives <- MCBoundNatives
  BoundLocators <- MCBoundLocators
  WireBase = 128
  MaxBytes = 46
  HeaderBytes = 10
  FieldBytes = 6
  NameMax = 2
  Threads = {o, r}
  Owner = o
  Addresses = {a1, a2}
  RefMax = 3
  Declarations <- MCDeclarations
  Missing = Missing
  TupleMax = 6
  ArenaMin = 2
  MessageMax = 4
  ExtraMax = 4
  TurnMax = 8
  BufferSizes = {2, 3, 4, 5, 6, 7, 8, 9, 10, 11, 12, 13, 14, 15, 16, 17, 18, 19, 20, 21, 22, 23, 24, 29, 31, 100}
  Replies <- MCReplies
  ComponentMax = 12
  KeyMax = 2
  PortMax = 2
  QueryMax = 24
  SocketMax = 5
  EntryMax = 3
  Destinations <- MCDestinations
  Logins <- MCLogins
  Environments <- MCEnvironments
  LineMax = 15
  HostNameMax = 3
  WordMax = 2
  HostsMax = 2
  Files <- MCFiles
  HostNames <- MCHostNames
  Garbage = Garbage
  Nil = Nil
  Null = Null
  Idle = Idle
INVARIANT ColumnsPlaced
INVARIANT MessageFits
INVARIANT ValuesTruthful
INVARIANT SnapshotTruthful
INVARIANT ReplyTruthful
INVARIANT AddressTruthful
PROPERTY NativeExact
