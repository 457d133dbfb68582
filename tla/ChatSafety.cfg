CONSTANTS
  h = h
  a = a
  b = b
  c1 = c1
  Machines = {h, a, b}
  Host = h
  None = None
  UidOf <- MCUidOf
  NameOf <- MCSharedNames
  IpOf <- MCIpOf
  Names = {"h", "b"}
  NoName = ""
  Dedicated = FALSE
  MaxPlayers = 3
  Commands = {"kick", "shuffleTeams"}
  Toggles = {"KickPlayer"}
  VotePassPercentage = 60
  ChatCommandVoteTime = 1
  TempBanDuration = 2
  Cooldown = 2
SPECIFICATION Spec
INVARIANTS
  TypeOK
  OneCleanVote
  KickHitsItsTarget
  BanLastsItsGames
PROPERTIES
  NobodyVotesTwice
  PassedByPercentage
  StartsAreSpaced
