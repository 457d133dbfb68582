CONSTANTS
  Machines = {m1}
  NoMachine = NoMachine
  Slots = {1}
  Bindings = {"Message"}
  Values = {"text", "long", "on"}
  Wire <- MCWire
  MaxInFlight = 2
SPECIFICATION FairSpec
PROPERTIES
  PeersCatchUp
