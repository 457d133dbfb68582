CONSTANTS
  h = h
  a = a
  b = b
  c1 = c1
  Machines = {h, a, b, c1}
  Host = h
  None = None
  UidOf <- MCUidOf
  NameOf <- MCOwnNames
  IpOf <- MCIpOf
  Names = {"h", "a", "b", "c"}
  NoName = ""
  Dedicated = TRUE
  MaxPlayers = 4
  Commands = {"endGame"}
  Toggles = {}
  VotePassPercentage = 50
  ChatCommandVoteTime = 1
  TempBanDuration = 2
  Cooldown = 2
SPECIFICATION Spec
PROPERTIES
  NobodyVotesTwice
