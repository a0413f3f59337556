SPECIFICATION Spec
CONSTANTS
  Factory <- MCFactory
  Group <- MCGroup
  InPort <- MCInPort
  OutPort <- MCOutPort
  Junction = {"split"}
  Belt <- MCBelt
  Item <- MCItem
  Site <- MCSite
  Src <- MCSrc
  Dst <- MCDst
  Cargo <- MCCargo
  InRate <- MCInRate
  OutRate <- MCOutRate
  Kin <- MCKin
  BeltOrder <- MCBeltOrder
  PortOrder <- MCPortOrder
  MaxFlow = 3
  FactoryOrder <- MCFactoryOrder
  Route = {"bars", "loop"}
  RouteSrc <- MCRouteSrc
  RouteDst <- MCRouteDst
  RouteCap <- MCRouteCap
  Built = {"d1", "b8"}
  Fluid = {"water"}
  Generator = {"gen"}
  InitPlan <- MCInitPlan
  Rates = {1, 3}
  Ceilings <- MCCeilings
  Clocks = {6}
  Counts = {2}
  Caps = {2}
  Tunable = {"s1", "s2", "c1", "d1", "gen", "ore", "water", "coal", "ingot", "slurry", "brick", "b1", "b6", "b8"}
  MaxEdits = 2
INVARIANTS
  SizingFits
  AnswerCoheres
  PreviewHolds
PROPERTY UserNumbersStand
CHECK_DEADLOCK FALSE
