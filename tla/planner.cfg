SPECIFICATION PlannerSpec
CONSTANTS
  Missing = Missing
  Malformed = Malformed
  Unfit = Unfit
  Runs = {a, b}
  Jobs = {"plan", "replan", "amend", "implplan", "reimplplan"}
  FirstPlan <- MCPlan
  Patches <- MCPatches
  Emissions <- MCEmissions
  Rank <- MCRank
  Faults = 1
  SetAsides = 1
  NoFile = NoFile
CHECK_DEADLOCK FALSE
 
PROPERTIES AmendIsSurgical SoundPlanFinishes
