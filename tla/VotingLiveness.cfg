SPECIFICATION FairSpec
CONSTANTS
  p1 = p1
  p2 = p2
  Players <- MCPlayers
  Names <- MCNames
  NameOf <- MCSharedNames
  Votes = {2, 3}
  Maps <- MCMaps
  MapDisplayName <- MCMapDisplayName
  TypeDisplayName <- MCTypeDisplayName
  KnownMaps <- MCKnownMaps
  DefaultMaps <- MCDefaultMaps
  DefaultTypes <- MCDefaultTypes
  VotingJsons <- MCOneJson
  OptionCounts = {2}
  MapVotingTime = 1
  TimeBetweenVoteEndAndGameStart = 1
  NumberOfRevotesAllowed = 2
  VotingDuplicationLevel = 1

  
PROPERTIES
  RevoteSeriesEnds
