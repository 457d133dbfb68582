SPECIFICATION Spec
CONSTANTS
  LobbyTypes = {2, 3, 5}
  ValueIntMin = 0
  ValueIntMax = 4
  DefaultLobbyType = 2
  Ips = {"ip1", "ip2"}
  Connections = {"c1"}
  MaxQueue = 2
INVARIANTS
  TypeOK
  LoneChangeHolds
  QueueIsServed
  BansHold
