SPECIFICATION Spec
CONSTANTS
  Path <- PathDef
  File <- FileDef
  Above <- AboveDef
  Fold <- FoldDef
  Wild = {}
  Matches <- MatchesDef
  Line = {"ta"}
  None = None
INVARIANTS TypeOK ClearIsLeftOut
PROPERTY ClicksAreExact
