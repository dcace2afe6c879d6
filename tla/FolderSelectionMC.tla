---------------------------- MODULE FolderSelectionMC ----------------------------
(* Disks for TLC: /t with /t/a/b/y, /t/a/b/z and /t/a/x; and /d with the      *)
(* folders /d/c and /d/C, each with a file f, and the files /d/b1 and /d/b*.  *)
EXTENDS FolderSelection

PathDef == {"t", "ta", "tab", "taby", "tabz", "tax"}
FileDef == {"taby", "tabz", "tax"}
AboveDef ==
  [p \in PathDef |->
     CASE p = "t"    -> {"t"}
       [] p = "ta"   -> {"t", "ta"}
       [] p = "tab"  -> {"t", "ta", "tab"}
       [] p = "taby" -> {"t", "ta", "tab", "taby"}
       [] p = "tabz" -> {"t", "ta", "tab", "tabz"}
       [] p = "tax"  -> {"t", "ta", "tax"}]
FoldDef == [p \in PathDef |-> p]
MatchesDef == [r \in PathDef |-> [e \in PathDef |-> {}]]

PathOfNames == {"d", "dc", "dcf", "dC", "dCf", "db1", "db*"}
FileOfNames == {"dcf", "dCf", "db1", "db*"}
AboveOfNames ==
  [p \in PathOfNames |->
     CASE p = "dcf" -> {"d", "dc", "dcf"}
       [] p = "dCf" -> {"d", "dC", "dCf"}
       [] OTHER     -> {"d", p}]
FoldOfNames == [p \in PathOfNames |-> CASE p = "dC"  -> "dc"
                                       [] p = "dCf" -> "dcf"
                                       [] OTHER     -> p]
MatchesOfNames ==
  [r \in PathOfNames |-> [e \in PathOfNames |->
     IF r = "d" /\ e = "db*" THEN {"db1", "db*"} ELSE {}]]
=================================================================================
