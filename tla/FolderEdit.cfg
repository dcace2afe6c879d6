SPECIFICATION Spec
CONSTANTS
  Path <- PathDef
  File <- FileDef
  Above <- AboveDef
  Fold <- FoldDef
  Wild = {}
  Matches <- MatchesDef
  Line = {}
  None = None
INVARIANT TickedIsBackedUp
