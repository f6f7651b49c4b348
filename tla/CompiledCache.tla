---------------------------- MODULE CompiledCache -----------------------------
(***************************************************************************)
(* The disk cache of compiled Core ML models (core/runtime/coreml/bridge/  *)
(* cache.rs): processes that load the same package, while it may be        *)
(* replaced and any of them killed.                                        *)
(*                                                                         *)
(* A number stands for a content of the package and for its key: size,     *)
(* newest mtime, version of the system.                                    *)
(***************************************************************************)
EXTENDS Integers

CONSTANTS
  Loaders,      \* processes
  Packages,     \* bound: the packages that are ever installed
  Runs          \* bound: runs of processes

ASSUME CompiledAssumption == Packages \in Nat \ {0} /\ Runs \in Nat

VARIABLES
  package,      \* content of the .mlpackage
  final, meta,  \* content of the .mlmodelc, and its key; 0: not there
  at, got,      \* where each process is, and the model it loaded
  compiled,     \* what its own compile produced
  draft,        \* its staging directory: none, growing, torn, whole
  runs,         \* bound: runs left
  crossed       \* history: the package was replaced under a compile

compiledVars == <<package, final, meta, at, got, compiled, draft, runs, crossed>>

\* A directory with files missing does not load.
TornModel == Packages + 1
Readable(c) == c \in 1 .. Packages

CompiledInit ==
  /\ package = 1 /\ final \in {0, 1, TornModel} /\ meta \in {0, 1} /\ crossed = FALSE
  /\ at = [p \in Loaders |-> "off"] /\ got = [p \in Loaders |-> 0]
  /\ compiled = [p \in Loaders |-> 0] /\ draft = [p \in Loaders |-> "none"] /\ runs = Runs

Goes(p, step) == at' = [at EXCEPT ![p] = step]

\* ensure_ane_packages, another process
Install ==
  /\ package < Packages /\ package' = package + 1
  /\ crossed' = (crossed \/ \E p \in Loaders :
                   at[p] \in {"populate", "copy", "aside", "swap", "meta"})
  /\ UNCHANGED <<final, meta, at, got, compiled, draft, runs>>

\* compile_and_load: the model that is there, if its key is that of the package.
LookCompiled(p) ==
  /\ at[p] \in {"off", "loaded"} /\ runs > 0 /\ runs' = runs - 1
  /\ Goes(p, IF final # 0 /\ meta = package THEN "open" ELSE "compile")
  /\ got' = [got EXCEPT ![p] = 0]
  /\ UNCHANGED <<package, final, meta, compiled, draft, crossed>>

OpenCompiled(p) ==
  /\ at[p] \in {"open", "fresh"}
  /\ IF Readable(final) THEN got' = [got EXCEPT ![p] = final] /\ Goes(p, "loaded")
     ELSE UNCHANGED got /\ Goes(p, IF at[p] = "open" THEN "compile" ELSE "temp")
  /\ UNCHANGED <<package, final, meta, compiled, draft, runs, crossed>>

\* compile_package
Compile(p) ==
  /\ at[p] = "compile"
  /\ \/ compiled' = [compiled EXCEPT ![p] = package] /\ Goes(p, "populate")
     \/ UNCHANGED compiled /\ Goes(p, "off")
  /\ UNCHANGED <<package, final, meta, got, draft, runs, crossed>>

-----------------------------------------------------------------------------
(* populate_cache.                                                         *)

\* sweep_stale_temp_dirs takes every staging directory it finds, those in use
\* too: away, or some of its files if more are being put there.
Swept(state) == IF state = "none" THEN {"none"} ELSE {state, "torn", "none"}

SweepDirs(p) ==
  /\ at[p] = "populate" /\ Goes(p, "copy")
  /\ \E left \in [Loaders -> {"none", "growing", "torn", "whole"}] :
       /\ \A q \in Loaders \ {p} : left[q] \in Swept(draft[q])
       /\ left[p] = "growing" /\ draft' = left
  /\ UNCHANGED <<package, final, got, compiled, runs, crossed>>

\* The key is written before anything else.
SweepKeyed(p) == SweepDirs(p) /\ meta' = package

Sweep(p) == SweepDirs(p) /\ UNCHANGED meta

\* Anything that fails: the staging directory goes, the temporary model serves.
GiveUp(p) == draft' = [draft EXCEPT ![p] = "none"] /\ Goes(p, "temp")

\* copy_dir_recursive
CopyModel(p) ==
  /\ at[p] = "copy"
  /\ \/ /\ draft[p] # "none" /\ Goes(p, "aside")
        /\ draft' = [draft EXCEPT ![p] = IF @ = "torn" THEN "torn" ELSE "whole"]
     \/ GiveUp(p)
  /\ UNCHANGED <<package, final, meta, got, compiled, runs, crossed>>

Aside(p) ==
  /\ at[p] = "aside"
  /\ \/ final' = 0 /\ Goes(p, "swap") /\ UNCHANGED draft
     \/ final # 0 /\ UNCHANGED final /\ GiveUp(p)
  /\ UNCHANGED <<package, meta, got, compiled, runs, crossed>>

SwapIn(p) ==
  /\ at[p] = "swap"
  /\ IF final = 0 /\ draft[p] # "none"
       THEN /\ final' = (IF draft[p] = "whole" THEN compiled[p] ELSE TornModel)
            /\ draft' = [draft EXCEPT ![p] = "none"] /\ Goes(p, "meta")
       ELSE UNCHANGED final /\ GiveUp(p)
  /\ UNCHANGED <<package, meta, got, compiled, runs, crossed>>

\* current_source_key, of the package as it is by now
WriteMeta(p) ==
  /\ at[p] = "meta"
  /\ \/ meta' = package /\ Goes(p, "fresh")
     \/ UNCHANGED meta /\ Goes(p, "temp")
  /\ UNCHANGED <<package, final, got, compiled, draft, runs, crossed>>

\* load_model_from_url
LoadTemp(p) ==
  /\ at[p] = "temp"
  /\ \/ got' = [got EXCEPT ![p] = compiled[p]] /\ Goes(p, "loaded")
     \/ UNCHANGED got /\ Goes(p, "off")
  /\ UNCHANGED <<package, final, meta, compiled, draft, runs, crossed>>

LoaderKilled(p) ==
  /\ at[p] # "off" /\ Goes(p, "off")
  /\ got' = [got EXCEPT ![p] = 0] /\ compiled' = [compiled EXCEPT ![p] = 0]
  /\ draft' = [draft EXCEPT ![p] = "none"]
  /\ UNCHANGED <<package, final, meta, runs, crossed>>

CompiledNext ==
  \/ Install
  \/ \E p \in Loaders :
       LookCompiled(p) \/ OpenCompiled(p) \/ Compile(p) \/ Sweep(p) \/ CopyModel(p) \/ Aside(p)
         \/ SwapIn(p) \/ WriteMeta(p) \/ LoadTemp(p) \/ LoaderKilled(p)

CompiledSpec == CompiledInit /\ [][CompiledNext]_compiledVars

-----------------------------------------------------------------------------
(* Properties.                                                             *)

\* Whoever compiles at the same time and wherever anybody is killed, a model
\* that loads and whose key is that of the package was compiled from it, as
\* long as no package was replaced under a compile.  (populate_cache: the
\* sidecar last)
CompiledHitIsCurrent ==
  ~crossed /\ Readable(final) /\ meta = package => final = package
=============================================================================
