SPECIFICATION Spec
CONSTANTS
  card1 = card1
  card2 = card2
  file1 = file1
  file2 = file2
  file3 = file3
  grep1 = grep1
  grep2 = grep2
  Closing = Closing
  Cards = {card1, card2}
  Files = {file1, file2, file3}
  Patterns = {grep1, grep2}
  Category <- MCCategory
  Paths <- MCPaths
  FirstTrees <- MCFirstTrees
  Commits <- MCCommits
  MaxEdits = 2
  MaxRounds = 1
  MaxRulings = 1
  MaxFaults = 1
  MaxFills = 2
SYMMETRY CardSymmetry
INVARIANTS
  IdsAreUnique
  RuledStaysRuled
  RulingHasArtifact
  LeaksAreUnguarded
  OpenGapsAreListed
  OneIssuePerDebt
CHECK_DEADLOCK FALSE
