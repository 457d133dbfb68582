SPECIFICATION Spec
CONSTANTS
  p1 = p1
  p2 = p2
  Players <- MCPlayers
  Names <- MCNames
  NameOf <- MCDistinctNames
  Votes = {1, 2, 3}
  Maps <- MCMaps
  MapDisplayName <- MCMapDisplayName
  TypeDisplayName <- MCTypeDisplayName
  KnownMaps <- MCKnownMaps
  DefaultMaps <- MCDefaultMaps
  DefaultTypes <- MCDefaultTypes
  VotingJsons <- MCOddJsons
  OptionCounts = {1, 2}
  MapVotingTime = 1
  TimeBetweenVoteEndAndGameStart = 1
  NumberOfRevotesAllowed = 1
  VotingDuplicationLevel = 1
INVARIANTS
  TypeOK
  WinnerWaitsAlone
  BallotIsClean
  NoLingeringVotes
  RevotesBounded
  DrawFailsOnlyOnSmallPool
PROPERTIES
  WinnerHasMostVotes
  ImplementsMapVote
CHECK_DEADLOCK FALSE
