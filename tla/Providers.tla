------------------------------- MODULE Providers ------------------------------
(***************************************************************************)
(* Which device an engine runs on, and how many triplets of how many       *)
(* threads it gets (core/inference/engine/load.rs, inference/sizing.rs,    *)
(* runtime/ort/factory.rs and selection.rs): what the operator asked for,  *)
(* against what this build contains, what the machine can do and what the  *)
(* container allows.  How the triplets load is EngineLoad's.               *)
(***************************************************************************)
EXTENDS Integers, Sequences, FiniteSets

CONSTANTS
  Deployments,   \* [choice, build, head, accelerator, processor, encoder, host, v2, v1,
                 \*  cpus, pool, min, batch, threads]
  ENCODER_RESIDENT_MULTIPLIER, POOL_RAM_FRACTION_DENOM,
  Unlimited      \* 2^62 bytes

\* The choices of the command line and the builds there are; sizes are counts, and a limit
\* that no file gives is negative.
ASSUME ProvidersAssumption ==
  /\ \A d \in Deployments :
       /\ d.choice \in {"auto", "cpu", "coreml", "cuda"}
       /\ d.build \in {"default", "coreml", "cuda", "candle", "ane"}
       /\ {d.encoder, d.host, d.cpus, d.pool, d.min, d.batch, d.threads} \subseteq Nat
       /\ {d.v2, d.v1} \subseteq Int
  /\ {ENCODER_RESIDENT_MULTIPLIER, POOL_RAM_FRACTION_DENOM} \subseteq Nat \ {0}
  /\ Unlimited \in Nat

VARIABLES
  deploy,
  stage,         \* "asked", "primary", "split", "probe", "loaded", "warm", "error"
  size, threads, \* after the limits of the machine
  name,          \* execution_provider, as reported
  eps,           \* execution providers a session is opened with, in order
  loaded,        \* triplets of the last load
  fresh,         \* each: [id, device, runs]
  pool, batch_pool,
  warmed         \* warm-up inferences left, interactive and batch

providerVars ==
  <<deploy, stage, size, threads, name, eps, loaded, fresh, pool, batch_pool, warmed>>

ProvidersInit ==
  /\ deploy \in Deployments
  /\ stage = "asked" /\ size = 0 /\ threads = 0 /\ name = "none" /\ eps = <<>>
  /\ loaded = 0 /\ fresh = <<>> /\ pool = <<>> /\ batch_pool = <<>>
  /\ warmed = [interactive |-> 0, batch |-> 0]

-----------------------------------------------------------------------------
(* Sizes.                                                                  *)

Smaller(a, b) == IF a < b THEN a ELSE b
Larger(a, b) == IF a < b THEN b ELSE a

\* Below 0: no such file, or "max".  0 is no limit here and unknown in what follows.
parse_cgroup_memory_limit(raw) == IF raw <= 0 \/ raw >= Unlimited THEN 0 ELSE raw

cgroup_memory_limit_bytes ==
  LET v2 == parse_cgroup_memory_limit(deploy.v2)
  IN  IF v2 > 0 THEN v2 ELSE parse_cgroup_memory_limit(deploy.v1)

effective_ram_bytes ==
  LET limit == cgroup_memory_limit_bytes
  IN  IF limit = 0 THEN deploy.host
      ELSE IF deploy.host = 0 THEN limit ELSE Smaller(deploy.host, limit)

\* It would take the memory of the host.
HostSize(requested) ==
  LET ram == deploy.host
  IN  IF requested <= 1 \/ deploy.encoder = 0 \/ ram = 0 THEN Larger(requested, 1)
      ELSE Smaller(requested, Larger(1, (ram \div POOL_RAM_FRACTION_DENOM)
                     \div (deploy.encoder * ENCODER_RESIDENT_MULTIPLIER)))

cap_pool_size_for_ram(requested) ==
  LET ram == effective_ram_bytes
  IN  IF requested <= 1 \/ deploy.encoder = 0 \/ ram = 0 THEN Larger(requested, 1)
      ELSE Smaller(requested, Larger(1, (ram \div POOL_RAM_FRACTION_DENOM)
                     \div (deploy.encoder * ENCODER_RESIDENT_MULTIPLIER)))

clamp_encoder_intra_threads(n) ==
  Smaller(Larger(deploy.threads, 1), Larger(1, Larger(deploy.cpus, 1) \div n))

-----------------------------------------------------------------------------
(* Providers.                                                              *)

compiled_ort_default == IF deploy.build \in {"coreml", "cuda"} THEN deploy.build ELSE "cpu"

\* Candle and the Neural Engine know one head.
select_backend ==
  IF deploy.build \in {"candle", "ane"} /\ deploy.head = "rnnt" THEN deploy.build ELSE "ort"

auto_backend_name == IF select_backend = "ort" THEN compiled_ort_default ELSE select_backend

resolve_ort_provider ==
  IF deploy.choice = "auto" THEN auto_backend_name
  ELSE IF deploy.choice \in {"cpu", deploy.build} THEN deploy.choice
  ELSE "refused"

allows_cpu_fallback == deploy.choice = "auto"

\* The CPU stays behind Core ML; exact CUDA has nothing behind it.
execution_providers(provider, secondary_cpu) ==
  IF provider = "coreml" \/ (provider = "cuda" /\ secondary_cpu)
  THEN <<provider, "cpu">> ELSE <<provider>>

cpu_fallback == <<"cpu">>

\* The runtime opens a session where it can: CUDA without a GPU on the next provider,
\* Core ML not at all when it rejects the model.
OpenedOn(list) ==
  IF list[1] = "cpu" \/ deploy.accelerator # "absent" THEN list[1]
  ELSE IF list = <<"cuda", "cpu">> THEN "cpu" ELSE "nowhere"

Works(device) ==
  IF device = "cpu" THEN deploy.processor = "works"
  ELSE deploy.accelerator = "works"

\* load_with_execution_provider
Resolve ==
  /\ stage = "asked"
  /\ size' = cap_pool_size_for_ram(deploy.pool)
  /\ threads' = clamp_encoder_intra_threads(size')
  /\ name' = resolve_ort_provider
  /\ IF name' = "refused" THEN stage' = "error" /\ UNCHANGED eps
     ELSE /\ stage' = "primary"
          /\ eps' = execution_providers(name', allows_cpu_fallback)
  /\ UNCHANGED <<deploy, loaded, fresh, pool, batch_pool, warmed>>

Enough == Larger(1, Smaller(deploy.min, size))

\* load_triplets_runtime, finalize_pool_load: n triplets of `size` loaded.
LoadTriplets ==
  \E n \in 0 .. size :
    /\ OpenedOn(eps) = "nowhere" => n = 0
    /\ loaded' = n
    /\ fresh' = IF n < Enough THEN <<>>
                ELSE [i \in 1 .. n |-> [id |-> i, device |-> OpenedOn(eps), runs |-> 0]]

\* Only a Core ML build loads once more.
LoadPrimary ==
  /\ stage = "primary"
  /\ LoadTriplets
  /\ IF loaded' >= Enough THEN stage' = "split" /\ UNCHANGED <<eps, name>>
     ELSE IF deploy.build = "coreml" /\ allows_cpu_fallback
     THEN stage' = "fallback" /\ eps' = cpu_fallback /\ name' = "cpu"
     ELSE stage' = "error" /\ UNCHANGED <<eps, name>>
  /\ UNCHANGED <<deploy, size, threads, pool, batch_pool, warmed>>

LoadFallback ==
  /\ stage \in {"fallback", "rebuild"}
  /\ LoadTriplets
  /\ stage' = IF loaded' < Enough THEN "error" ELSE IF stage = "rebuild" THEN "resplit" ELSE "split"
  /\ UNCHANGED <<deploy, size, threads, name, eps, pool, batch_pool, warmed>>

\* It would take what was asked for.
AllSplit(n) == Smaller(deploy.batch, n)

\* One triplet at least stays interactive.
batch_split_count(n) == Smaller(deploy.batch, Larger(0, n - 1))

SplitPool ==
  /\ stage \in {"split", "resplit"}
  /\ LET n == Len(fresh)
         b == batch_split_count(n)
     IN  /\ pool' = SubSeq(fresh, 1, n - b)
         /\ batch_pool' = SubSeq(fresh, n - b + 1, n)
         /\ warmed' = [interactive |-> n - b, batch |-> b]
  /\ stage' = IF deploy.build # "coreml" THEN "loaded"
              ELSE IF stage = "resplit" THEN "reprobe" ELSE "probe"
  /\ UNCHANGED <<deploy, size, threads, name, eps, loaded, fresh>>

\* warmup_one_on: the first of the queue, back at its end.
Warmed(q) == Append(Tail(q), [Head(q) EXCEPT !.runs = @ + 1])

\* probe_or_rebuild; an exact provider is probed too.
Probe1 ==
  /\ stage \in {"probe", "reprobe"}
  /\ pool' = Warmed(pool)
  /\ IF Works(Head(pool).device) THEN stage' = "loaded" /\ UNCHANGED <<eps, name>>
     ELSE IF stage = "probe" /\ allows_cpu_fallback
     THEN stage' = "rebuild" /\ eps' = cpu_fallback /\ name' = "cpu"
     ELSE stage' = "error" /\ UNCHANGED <<eps, name>>
  /\ UNCHANGED <<deploy, size, threads, loaded, fresh, batch_pool, warmed>>

\* warmup
WarmInteractive ==
  /\ stage = "loaded" /\ warmed.interactive > 0
  /\ pool' = Warmed(pool)
  /\ IF Works(Head(pool).device)
     THEN warmed' = [warmed EXCEPT !.interactive = @ - 1] /\ UNCHANGED stage
     ELSE stage' = "error" /\ UNCHANGED warmed
  /\ UNCHANGED <<deploy, size, threads, name, eps, loaded, fresh, batch_pool>>

WarmBatch ==
  /\ stage = "loaded" /\ warmed.interactive = 0 /\ warmed.batch > 0
  /\ batch_pool' = Warmed(batch_pool)
  /\ IF Works(Head(batch_pool).device)
     THEN warmed' = [warmed EXCEPT !.batch = @ - 1] /\ UNCHANGED stage
     ELSE stage' = "error" /\ UNCHANGED warmed
  /\ UNCHANGED <<deploy, size, threads, name, eps, loaded, fresh, pool>>

Serve ==
  /\ stage = "loaded" /\ warmed.interactive = 0 /\ warmed.batch = 0
  /\ stage' = "warm"
  /\ UNCHANGED <<deploy, size, threads, name, eps, loaded, fresh, pool, batch_pool, warmed>>

ProvidersNext ==
  \/ Resolve \/ LoadPrimary \/ LoadFallback \/ SplitPool \/ Probe1
  \/ WarmInteractive \/ WarmBatch \/ Serve

ProvidersSpec == ProvidersInit /\ [][ProvidersNext]_providerVars

-----------------------------------------------------------------------------
(* Properties.                                                             *)

Serving == stage = "warm"
Sessions == {pool[k] : k \in DOMAIN pool} \cup {batch_pool[k] : k \in DOMAIN batch_pool}

\* An engine that serves runs where the operator said, or on one device that works and
\* knows its head; nothing of a provider that failed is left in its pools.  The name it
\* reports is that of its device.  Not so in one case, against docs/api.md:310
\* ("`execution_provider` of the provider that actually loaded") and docs/cli.md:57: under
\* `auto`, CUDA without a GPU runs on the CPU that the runtime puts in its place, and is
\* reported as "cuda" (load.rs:367, selection's name).
DeviceAsAsked ==
  Serving =>
    /\ \A t, u \in Sessions : t.device = u.device
    /\ \A t \in Sessions :
         /\ Works(t.device)
         /\ deploy.choice = "auto" \/ t.device = deploy.choice
         /\ t.device \in {"candle", "ane"} => deploy.head = "rnnt"
         /\ t.device # name => /\ deploy.choice = "auto" /\ deploy.accelerator = "absent"
                               /\ name = "cuda" /\ t.device = "cpu"

\* The pools are what loaded, once each and warm, and one is interactive.
PoolsAsAsked ==
  Serving =>
    /\ pool # <<>>
    /\ Cardinality(Sessions) = loaded /\ Len(pool) + Len(batch_pool) = loaded
    /\ Len(batch_pool) <= deploy.batch
    /\ deploy.batch > Len(batch_pool) => Len(pool) = 1
    /\ \A t \in Sessions : t.runs > 0
    /\ loaded >= Smaller(size, deploy.min)

\* A pool is never larger than asked for; what is more than one fits the container and
\* the host, and more than one thread each fits the processors.
SizesFit ==
  stage # "asked" =>
    /\ size \in 1 .. Larger(deploy.pool, 1)
    /\ \A ram \in {deploy.host, cgroup_memory_limit_bytes} \ {0} :
         size > 1 =>
           size * deploy.encoder * ENCODER_RESIDENT_MULTIPLIER * POOL_RAM_FRACTION_DENOM <= ram
    /\ threads > 1 => size * threads <= deploy.cpus /\ threads <= deploy.threads

\* The load fails for a reason the operator can act on: Core ML out of order is none
\* while `auto` may go to a CPU that works.
FailsForReason ==
  stage = "error" =>
    \/ name = "refused" /\ deploy.choice \notin {"auto", "cpu", deploy.build}
    \/ loaded < Enough /\ (Len(eps) = 1 \/ deploy.build = "cuda" \/ deploy.choice # "auto")
    \/ deploy.processor # "works"
    \/ deploy.accelerator # "works"
         /\ (deploy.choice # "auto" \/ deploy.build \in {"cuda", "candle", "ane"})

\* Where an engine runs, with how many triplets and threads, is what was asked for
\* within what there is.  (load_with_execution_provider, load_with_factory)
EngineIsAsAsked == DeviceAsAsked /\ PoolsAsAsked /\ SizesFit /\ FailsForReason
=============================================================================
