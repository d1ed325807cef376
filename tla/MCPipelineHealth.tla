--------------------------- MODULE MCPipelineHealth ---------------------------
(* Two accounts, the first of which may be damaged; two components, two
   failures to an alert. *)
EXTENDS PipelineHealth

CONSTANT t1

MCPair == <<"classroom", "calendar">>
===============================================================================
