SPECIFICATION Spec
INVARIANTS
  ScreenIsRun
  PageIsRun
  KilledOnSight
  
  FileIsMemory
  RulesFollowFiles
  ScoresAreSums
  LookaheadScores
  ScoresReadBack
PROPERTY RestoredStay
