SPECIFICATION TablesSpec
CONSTANTS
  j1 = j1
  j2 = j2
  j3 = j3
  Job = {j1, j2, j3}
  Rank <- RankDef
  Searches <- SearchesDef
  PageSizes <- PageSizesDef
INVARIANTS TablesTypeOK NeverEmptyPage PagesCoverRows DeletesAsAnnounced
PROPERTIES PagerMoves
