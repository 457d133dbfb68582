CONSTANTS
  h = h
  a = a
  b = b
  c1 = c1
  Machines = {h, a}
  Host = h
  None = None
  UidOf <- MCUidOf
  NameOf <- MCOwnNames
  IpOf <- MCIpOf
  Names = {"h", "a", "b"}
  NoName = ""
  Dedicated = TRUE
  MaxPlayers = 1
  Commands = {"kickIndex", "shuffleTeams"}
  Toggles = {"KickPlayer"}
  VotePassPercentage = 50
  ChatCommandVoteTime = 1
  TempBanDuration = 1
  Cooldown = 1
SPECIFICATION FairSpec
PROPERTIES
  VoteEnds
