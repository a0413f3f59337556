SPECIFICATION Spec
CONSTANTS
  Item = {"water", "silica", "ore"}
  Fluid = {"water"}
  Recipe = {"mine", "smelt", "refine"}
  Node = {"geode"}
  Place = {0, 2}
  Makes <- Output
  Takes <- Input
  Scenes <- MCScenes
INVARIANTS
  WiringHolds
  RoutesServe
  NoTwins
  LinksResolve
PROPERTIES
  ExpansionFansOut
  RoutesSurviveSync
  BuiltStands
CHECK_DEADLOCK FALSE
