SPECIFICATION FairSpec
CONSTANTS
  s1 = s1
  s2 = s2
  Searches = {s1, s2}
  Routes <- SomeRoutes
  Plans <- SomePlans
  ModeSets = {{}, {"bus", "cycling"}}
  Profiles <- SomeProfiles
  Disruptable <- SomeDisruptable
  WalkOnly = "walk"
  None = None
INVARIANT TypeOK
PROPERTIES AnswersFit SearchesEnd
