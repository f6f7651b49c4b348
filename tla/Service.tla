-------------------------------- MODULE Service -------------------------------
(***************************************************************************)
(* The engine of a service: the device and the pools it gets, and the      *)
(* flags, files and limits it boots with.  They share no state.            *)
(***************************************************************************)
EXTENDS Providers, Boot

\* An engine runs where it should, as what it should.  Two exceptions: the name of a
\* device that the runtime replaced (DeviceAsAsked) and the head of a service whose
\* manifest is not asked (HeadAsAsked).  (load_with_execution_provider, run_serve)
ServiceIsAsAsked == EngineIsAsAsked /\ BootIsAsAsked
=============================================================================
