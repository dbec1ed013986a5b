SPECIFICATION CodeSpec
CONSTANTS
  Resolvers = {"resolve"}
  BaseSources = {"raw"}
  Producers = {"pack", "save"}
  Field = "cost"
  MirrorApply = "mirror_apply"
  Guards = {"allowed"}
  Idioms = {"is_server"}
  Exempt = {}
  Private = {"_put"}
  ClientSide = {"ui"}
  Harness = {"test"}
  ServerSide = {"net"}
  Snapshot = "pack"
  Saver = "save"
  Loader = "load"
  Authorised = {"apply"}
  Canonical = {"ok"}
  Substrates = {"docs"}
  Programmatic = {}
  Compatible = {}
  Family <- MCFamily
  Worlds <- MCWorlds
  MaxFacts = 4
INVARIANTS
  GateInOrder
  EveryFindingHasAnEdit
