SPECIFICATION TextSpec
CONSTANTS
  W = 8
  Upper = 3
  SteamTexts <- MCSteamTexts
  MAXPLAYERS = 3
  SteamIdOf <- MCSteamIdOf
  Wrap = 100
  Servers <- MCServers
  Callers = {0}
  Patterns <- MCPatterns
  AdminTables <- MCAdminTables
  Align = 2
  AnyByte = 99
  ObjectScans <- MCObjectScans
  SignatureScans <- MCSignatureScans
  TableScans <- MCTableScans
  Half = 4
  Declared <- MCDeclared
  FieldEvents <- MCFieldEvents
  FormatTexts <- MCFormatTexts
  Translations <- MCTranslations
  Games <- MCGames
  ReplySlots <- MCReplySlots
  VoiceCalls <- MCVoiceCalls
INVARIANTS
  FilesAreRead
  CommandsAreRead
  PhrasesFit
  TargetsAreMeant
  LookupsAreUnique
  LinesReachTheirReaders
CHECK_DEADLOCK FALSE
