------------------------------ MODULE MCCommit ------------------------------
(* Instances of Commit: a directory that holds a file, with a path below   *)
(* the file, and a chain of three paths of which nothing existed when the  *)
(* tree was frozen.                                                        *)
EXTENDS Commit

MCPath == {"d", "d/f", "d/f/g", "n", "n/s", "n/s/x"}
MCRoot == ""
MCAbove == [p \in MCPath |-> CASE p = "d/f"   -> {"d"}
                               [] p = "d/f/g" -> {"d", "d/f"}
                               [] p = "n/s"   -> {"n"}
                               [] p = "n/s/x" -> {"n", "n/s"}
                               [] OTHER       -> {}]

MCContent == {"old", "new"}
MCAbsent == "absent"
MCDir == "dir"

MCBase == [p \in MCPath |-> CASE p = "d"   -> "dir"
                              [] p = "d/f" -> "old"
                              [] OTHER     -> "absent"]
=============================================================================
