\* Commands and the web server share the registry; init runs beside a user who edits.
SPECIFICATION Spec
CONSTANTS
  Repos = {"r1", "r2"}
  Dirs = {"r1", "r2", "sub", "out"}
  Ancestors <- Upwards
  Names = {"x", "y"}
  BaseName <- SameName
  Paths = {"a", "b", "png", "dot"}
  Hidden = {"dot"}
  BinaryExt = {"png"}
  FirstTree <- TwoTrees
  Texts = {"t", "u"}
  Known = {"r2"}
  Editable = {"a"}
  Procs = {1, 2}
  MaxEdits = 1
  MaxKills = 1
  MaxCommands = 3
INVARIANTS
  RegistryKept
  ServerAgrees
  IndexedAsFiltered
CHECK_DEADLOCK FALSE
