----------------------------- MODULE MCFileApi -----------------------------
(* An upload of two parts, and one other request: of any kind, or a write *)
(* whose signature is wrong.                                              *)
EXTENDS FileApi

MCPaths  == {"f", "d", "d/g"}
MCParent == [p \in MCPaths |-> IF p = "d/g" THEN "d" ELSE Root]

Req(op, path, to, offset) ==
  [op |-> op, path |-> path, to |-> to, offset |-> offset, right |-> TRUE]

MCOthers == {Req("write", "d/g", "", 0), Req("remove", "f", "", 0),
             Req("rename", "f", "d/g", 0), Req("mkdir", "d/g", "", 0),
             Req("rmdir", "d", "", 0),
             [Req("write", "f", "", 0) EXCEPT !.right = FALSE]}

MCPlans == {[n \in {"w1", "w2", "x"} |->
               CASE n = "w1" -> Req("write", "f", "", 0)
                 [] n = "w2" -> Req("write", "f", "", 1)
                 [] n = "x"  -> other] : other \in MCOthers}

MCUploads == {<<"w1", "w2">>}
\* a longer file where the upload goes, and a directory
MCInitFiles == [p \in MCPaths |-> IF p = "f" THEN File(<<"o", "o", "o">>)
                                  ELSE IF p = "d" THEN Dir ELSE Absent]
=============================================================================
