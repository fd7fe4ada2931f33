----------------------------- MODULE MCParseBatch -----------------------------
(* Model values and bounds for ParseBatch. *)
EXTENDS ParseBatch

BranchSample == {"Selectstmt", "other"}

ParamSample == {{}, {0, 2}}
===============================================================================
