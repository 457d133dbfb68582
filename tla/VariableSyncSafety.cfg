CONSTANTS
  Machines = {m1, m2}
  NoMachine = NoMachine
  Slots = {1, 2}
  Bindings = {"Name", "Sprint"}
  Values = {"off", "on"}
  Wire <- MCWire
  MaxInFlight = 2
SPECIFICATION Spec
SYMMETRY MachineSymmetry
INVARIANTS
  TypeOK
  SyncBitIsTrue
  NoTornSettings
