CONSTANTS
  Graph <- Graphs
  Urls <- Links
  Texts <- OneText
  Matches <- FindsAll
  Nothing = Nothing
  MaxMoves = 2
  Failing <- MapAndNode
  MaxWaiting = 2
  MaxFaults = 1
SPECIFICATION Spec
INVARIANTS SettledCanvasShowsView ShownIsAsked
CHECK_DEADLOCK FALSE
