SPECIFICATION Spec
CONSTANTS
  LowerCase <- MCLowerCase
  Host <- MCHost
  N = 3
  Outcomes <- MCOutcomes
  Addresses <- MCAddresses
  Pointers <- MCPointers
  Clouds <- MCClouds
  Requests <- MCRequests
  TXTs <- MCTXTs
  MXs <- MCMXs
  OpenPorts <- MCOpenPorts
  Servers <- MCServers
  Responses <- MCResponses
  Holds <- MCHolds
  Fragments <- MCFragments
INVARIANTS
  TypeOK
  EntryPointsAgree
  SourcesStayInScope
  NoAssetTwice
  AddressesAskedOnce
  IndicatorsDetermined
  CVEsAsDescribed
  NamedAsServed
  MailIsNotFTP
  TechnologiesBySignature
  BucketsFound
PROPERTIES
  KeepsPromise
  CancelledStartsNoPhase
  ReconTerminates
CHECK_DEADLOCK FALSE
