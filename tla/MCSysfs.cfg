\* Two Intel GPUs and a foreign card, two binds or unbinds at any time.
CONSTANTS
  Devices <- MCDevices
  Intel = {"igpu", "arc"}
  Drivers <- MCDrivers
  Hw <- MCHw
  Layouts <- MCLayouts
  Channels = {1}
  Cards = {0, 1, 2}
  Releases <- MCReleases
  MaxChanges = 2
SPECIFICATION Spec
INVARIANTS TypeOK SteadyIsFound NothingIsLeftOut NoSeriesTwice ValueOfItsDevice
  SteadyIsWhole DegradedIsLost
\* The program exits when it finds no GPU.
CHECK_DEADLOCK FALSE
