----------------------------- MODULE MCPipeline -----------------------------
(* The bodies of MCLowering, handed over to the analysis.                   *)
EXTENDS Pipeline, MCLowering

=============================================================================
