-------------------------------- MODULE Caches --------------------------------
(***************************************************************************)
(* The two caches of what a model was turned into: the optimized graphs of *)
(* the ONNX runtime and the compiled packages of Core ML.  They share no   *)
(* state.                                                                  *)
(***************************************************************************)
EXTENDS EngineLoad, CompiledCache

\* Neither cache, of optimized graphs or of compiled packages, gives out what was
\* made of something else.  (publish_optimized_graph, compile_and_load)
CachesAreCurrent == CacheIsOfItsEncoder /\ CompiledHitIsCurrent
=============================================================================
