SPECIFICATION SessionSpec
CONSTANTS
  p1 = p1
  Players <- MCPlayers
  Names <- MCNames
  NameOf <- MCNameOf
  Votes = {1, 2}
  Maps <- MCMaps
  MapDisplayName <- MCMapDisplayName
  TypeDisplayName <- MCTypeDisplayName
  KnownMaps <- MCMaps
  DefaultMaps <- MCMaps
  DefaultTypes <- MCTypes
  VotingJsons <- MCJsons
  OptionCounts = {1}
  MapVotingTime = 0
  TimeBetweenVoteEndAndGameStart = 0
  NumberOfRevotesAllowed = 1
  VotingDuplicationLevel = 1
  LocalPlayer = LocalPlayer
  MaxInFlight = 2
  MaxVotesInFlight = 1
INVARIANTS
  ScreenShowsBallot
  TallyIsCurrent
  SelectionIsCounted
  LobbyIsQuietForAReason
PROPERTIES
  WinnerIsMarked
