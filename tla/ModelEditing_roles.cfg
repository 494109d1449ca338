SPECIFICATION EditSpec
CONSTANTS
  MaxNodes = 7
  MaxMembers = 4
  MaxLoads = 3
  MaxReviews = 1
  MaxCases = 3
  MaxHinges = 2
  MaxOnNode = 2
  Starts <- One
  NewNames <- Names
  Ratios = {0, 50, 100}
  HingeRatios = {25, 100}
  Angles = {0, 45}
  MemberStems = {"M"}
  ArrayCount = 2
  Templates <- Portals
  QuickSizes <- OneBay
  MaxTrussNodes = 7
  MaxTrussMembers = 10
  TrussStarts <- NoTruss
  TrussTemplates <- Roofs
  PanelCounts = {2}
  MaxBeamSpans = 4
  MaxBeamSupports = 4
  MaxBeamLoads = 2
  MaxServiceLoads = 5
  DefaultLength = 6000
  MeshStep = 1000
  BeamStarts <- NoBeam
  BeamTemplates <- SomeBeams
  BeamNewNames <- BeamNames
  SpanCounts = {1, 3}
  Lengths = {0, 3000}
  Positions = {0, 1500, 4500, 100000}
  PositionRatios = {0, 50, 150}
INVARIANT RolesKept
CHECK_DEADLOCK FALSE
