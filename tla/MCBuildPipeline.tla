--------------------------- MODULE MCBuildPipeline ---------------------------
(* BuildPipeline with a zip package and a repository. *)
EXTENDS BuildPipeline

MCSubmissions == {[kind |-> "zip", name |-> "f"], [kind |-> "repo", name |-> "g"]}
=============================================================================
