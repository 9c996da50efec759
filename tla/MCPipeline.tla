----------------------------- MODULE MCPipeline ------------------------------
(* Pipeline on small chains that differ in what is outside of what.         *)
EXTENDS Pipeline

MCChains ==
  { <<"metrics", "recovery", "limit">>,      \* the counters see everything
    <<"limit", "observe", "errors">>,        \* refusals are not masked
    <<"recovery", "metrics">>,               \* panics are not counted
    <<"metrics">> }                          \* a panic ends the process
=============================================================================
