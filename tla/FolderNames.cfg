SPECIFICATION Spec
CONSTANTS
  Path <- PathOfNames
  File <- FileOfNames
  Above <- AboveOfNames
  Fold <- FoldOfNames
  Wild = {"db*"}
  Matches <- MatchesOfNames
  Line = {}
  None = None
PROPERTY ClicksAreAlwaysExact
