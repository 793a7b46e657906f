\* Two devices, all legacy cases, one edit and one mishap: a restart that finds its record.
CONSTANTS
  D = D E = E pokemon = pokemon seat = seat friend = friend
  Movers = {D, E}
  ListItems = {pokemon}
  BoardItems = {seat}
  HeldItems = {friend}
  NoRow = NoRow
  Removed = Removed
  Legacies <- AllCases
  MaxUserEdits = 1
  MaxMishaps = 1
SPECIFICATION FairMoveSpec
CHECK_DEADLOCK FALSE
PROPERTIES RestartsResume
