SPECIFICATION FairPurSpec
CONSTANTS
  d1 = d1
  v1 = v1
  Drivers = {d1}
  Vehicles = {v1}
  OwnerOf <- OneOwner
  Covered = {v1}
  MaxTasks = 3
  TaskOps <- LiveOps
  Amount = 1
  Opening = 1
  NoDriver = NoDriver
  NoVehicle = NoVehicle
  NoDoc = NoDoc
  MaxRestarts = 1
PROPERTIES
  LapsedIsMarked
  CallbackSettles
CHECK_DEADLOCK FALSE
