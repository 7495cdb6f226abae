SPECIFICATION ProviderSpec
CONSTANTS
  Macs = {"s1", "s2"}
  Network <- MCNetwork
  Bytes <- MCBytes
  LeaseFiles <- MCLeases
  PortalAnswers <- MCSessions
  StatusListsStations = TRUE
  IncludeOpenNds = TRUE
  MaxChanges = 2
  None = None
  NoClients = NoClients
  Comment = Comment
  BadLine = BadLine
INVARIANTS OnlyAssociated StayersReported StatsOfOwnSsid RadioTotals MetadataPrecedence
