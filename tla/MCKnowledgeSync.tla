--------------------------- MODULE MCKnowledgeSync ---------------------------
(* KnowledgeSync on small instances: a filter that is narrowed to one file,  *)
(* and three commits: the second changes one file and removes the other, the *)
(* third makes of the first one a document that cannot be loaded.  Each has  *)
(* the one before as its parent.                                             *)
EXTENDS KnowledgeSync, TLC

CONSTANTS f1, f2, old, new, bad

TextOfBlobs == old :> "x" @@ new :> "y" @@ bad :> "z"

Filters == <<{f1, f2}, {f1}>>

Trees == <<f1 :> old @@ f2 :> old, f1 :> new @@ f2 :> None, f1 :> bad @@ f2 :> None>>

Ancestry == <<{1}, {1, 2}, {1, 2, 3}>>
=============================================================================
