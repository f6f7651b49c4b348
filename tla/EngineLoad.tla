------------------------------ MODULE EngineLoad ------------------------------
(***************************************************************************)
(* Loading an engine (core/inference/engine/load.rs, load_files.rs,        *)
(* sizing.rs) through the ONNX runtime and its cache of optimized graphs   *)
(* (runtime/ort/session.rs, model/cache.rs): several loads, of one process *)
(* or of several, each with a thread per triplet, while the encoder on     *)
(* disk may be replaced, the cache pruned, and a load killed.              *)
(*                                                                         *)
(* A number stands for a content of the encoder and for its digest; the    *)
(* same content does not come back.                                        *)
(***************************************************************************)
EXTENDS Integers, FiniteSets

CONSTANTS
  Loads,        \* calls of load_with_execution_provider
  Asks,         \* which are made, and what they ask for: functions to
                \* [pool, min, slots, accel, auto]
  Contents      \* bound: the encoders that are ever installed

ASSUME LoadAssumption ==
  /\ Contents \in Nat \ {0}
  /\ \A f \in Asks : DOMAIN f \subseteq Loads /\ \A e \in DOMAIN f :
       \A field \in {"pool", "min", "slots"} : f[e][field] \in Nat

VARIABLES
  encoder,      \* content of the encoder file
  entry,        \* cache: the graph under each digest; 0: none
  keep,         \* cache-gc: the digest it keeps; 0: it is not running
  ask, phase, digest,   \* of each load
  cpu,          \* the provider bound: the CPU
  usable,       \* usable_cache_dir
  gate,         \* cache_load: the triplet that holds it; 0: nobody
  thread,       \* where each triplet is
  session,      \* content of its encoder session
  staging       \* content of its .partial file; 0: none

loadVars == <<encoder, entry, keep, ask, phase, digest, cpu, usable, gate, thread, session,
              staging>>

Torn == Contents + 1
Lesser(a, b) == IF a < b THEN a ELSE b
Greater(a, b) == IF a < b THEN b ELSE a

\* cap_pool_size_for_ram: `slots` encoders fit in half of the memory.
Size(a) == IF a.pool <= 1 THEN 1 ELSE Lesser(a.pool, Greater(a.slots, 1))
Least(a) == Greater(1, Lesser(a.min, Size(a)))

Triplets(e) == IF e \in DOMAIN ask THEN 1 .. Size(ask[e]) ELSE {}
Loaded(e) == {i \in Triplets(e) : thread[e][i] = "done"}

LoadInit ==
  /\ encoder = 1 /\ keep = 0
  /\ entry \in {[c \in 1 .. Contents |-> IF c = 1 THEN first ELSE 0] : first \in {0, 1, Torn}}
  /\ ask \in Asks
  /\ phase = [e \in Loads |-> "off"] /\ digest = [e \in Loads |-> 0]
  /\ cpu = [e \in Loads |-> e \notin DOMAIN ask \/ ~ask[e].accel]
  /\ usable = [e \in Loads |-> "unasked"] /\ gate = [e \in Loads |-> 0]
  /\ thread = [e \in Loads |-> [i \in Triplets(e) |-> "none"]]
  /\ session = [e \in Loads |-> [i \in Triplets(e) |-> 0]]
  /\ staging = [e \in Loads |-> [i \in Triplets(e) |-> 0]]

-----------------------------------------------------------------------------
(* The encoder is replaced; cache-gc (prune_optimized_cache_dir).          *)

Replace ==
  /\ encoder < Contents /\ encoder' = encoder + 1
  /\ UNCHANGED <<entry, keep, ask, phase, digest, cpu, usable, gate, thread, session, staging>>

Prune ==
  /\ \/ keep = 0 /\ keep' = encoder /\ UNCHANGED entry
     \/ keep # 0 /\ keep' = 0 /\ UNCHANGED entry
     \/ \E c \in 1 .. Contents : /\ keep \notin {0, c} /\ entry[c] # 0
                                 /\ entry' = [entry EXCEPT ![c] = 0] /\ UNCHANGED keep
  /\ UNCHANGED <<encoder, ask, phase, digest, cpu, usable, gate, thread, session, staging>>

-----------------------------------------------------------------------------
(* A load: the digest, the triplets, what comes of them.                   *)

\* factory.create, load_triplets_runtime
Spawn(e) ==
  /\ phase' = [phase EXCEPT ![e] = "triplets"]
  /\ thread' = [thread EXCEPT ![e] = [i \in Triplets(e) |-> "start"]]
  /\ usable' = [usable EXCEPT ![e] = "unasked"]
  /\ UNCHANGED gate

\* verify_pinned_checksums; a source that is not self-contained has no digest.
Digest(e) ==
  /\ phase[e] = "off"
  /\ \E d \in {encoder, 0} : digest' = [digest EXCEPT ![e] = d]
  /\ Spawn(e)
  /\ UNCHANGED <<encoder, entry, keep, ask, cpu, session, staging>>

FallBack(e) == cpu' = [cpu EXCEPT ![e] = TRUE] /\ Spawn(e)

\* finalize_pool_load, and the second try on the CPU
Collect(e) ==
  /\ phase[e] = "triplets"
  /\ \A i \in Triplets(e) : thread[e][i] \in {"done", "failed"}
  /\ LET enough == Cardinality(Loaded(e)) >= Least(ask[e]) IN
     \/ /\ enough /\ phase' = [phase EXCEPT ![e] = IF ask[e].accel THEN "probe" ELSE "ready"]
        /\ UNCHANGED <<cpu, usable, gate, thread>>
     \/ /\ ~enough /\ (cpu[e] \/ ~ask[e].auto) /\ phase' = [phase EXCEPT ![e] = "error"]
        /\ UNCHANGED <<cpu, usable, gate, thread>>
     \/ ~enough /\ ~cpu[e] /\ ask[e].auto /\ FallBack(e)
  /\ UNCHANGED <<encoder, entry, keep, ask, digest, session, staging>>

\* probe_or_rebuild, warmup_one
Probe(e) ==
  /\ phase[e] = "probe"
  /\ \/ phase' = [phase EXCEPT ![e] = "ready"] /\ UNCHANGED <<cpu, usable, gate, thread>>
     \/ (cpu[e] \/ ~ask[e].auto) /\ phase' = [phase EXCEPT ![e] = "error"]
          /\ UNCHANGED <<cpu, usable, gate, thread>>
     \/ ~cpu[e] /\ ask[e].auto /\ FallBack(e)
  /\ UNCHANGED <<encoder, entry, keep, ask, digest, session, staging>>

\* The process of a load dies; its staging files stay, of no use to anybody.
LoadKilled(e) ==
  LET none == [i \in Triplets(e) |-> 0] IN
  /\ phase[e] \in {"triplets", "probe"} /\ phase' = [phase EXCEPT ![e] = "killed"]
  /\ digest' = [digest EXCEPT ![e] = 0] /\ usable' = [usable EXCEPT ![e] = "unasked"]
  /\ gate' = [gate EXCEPT ![e] = 0]
  /\ thread' = [thread EXCEPT ![e] = [i \in Triplets(e) |-> "none"]]
  /\ session' = [session EXCEPT ![e] = none] /\ staging' = [staging EXCEPT ![e] = none]
  /\ UNCHANGED <<encoder, entry, keep, ask, cpu>>

-----------------------------------------------------------------------------
(* load_session_with_model_hash, for the encoder of triplet i.             *)

Move(e, i, step) == thread' = [thread EXCEPT ![e][i] = step]
Stage(e, i, content) == staging' = [staging EXCEPT ![e][i] = content]
Free(e, i) == gate' = [gate EXCEPT ![e] = IF @ = i THEN 0 ELSE @]

\* The encoder session is there: PendingCache and the guard are dropped.
Have(e, i, content) ==
  /\ session' = [session EXCEPT ![e][i] = content]
  /\ Move(e, i, "parts") /\ Free(e, i) /\ Stage(e, i, 0)
Broken(e, i) ==
  /\ Move(e, i, "failed") /\ Free(e, i) /\ Stage(e, i, 0)

\* cache_path
Key(e) == digest[e]

\* The factory of the CPU has a cache, the fallback to it (cpu_fallback) has none.
Cached(e) == cpu[e] /\ ~ask[e].accel

Gate(e, i) ==
  /\ thread[e][i] = "start"
  /\ IF Cached(e) THEN gate[e] = 0 /\ gate' = [gate EXCEPT ![e] = i] /\ Move(e, i, "look")
     ELSE UNCHANGED gate /\ Move(e, i, "commit")
  /\ UNCHANGED <<encoder, entry, keep, ask, phase, digest, cpu, usable, session, staging>>

\* try_load_cached_encoder: is there an entry, and does it load?
Look(e, i) ==
  /\ thread[e][i] = "look"
  /\ Move(e, i, IF Key(e) # 0 /\ entry[Key(e)] # 0 THEN "open" ELSE "stage")
  /\ UNCHANGED <<encoder, entry, keep, ask, phase, digest, cpu, usable, gate, session, staging>>

\* An entry that does not load is left where it is.
OpenEntry(e, i) ==
  /\ thread[e][i] = "open"
  /\ IF entry[Key(e)] \in 1 .. Contents
       THEN Have(e, i, entry[Key(e)])
       ELSE Move(e, i, "stage") /\ UNCHANGED <<gate, staging, session>>
  /\ UNCHANGED <<encoder, entry, keep, ask, phase, digest, cpu, usable>>

\* usable_optimized_cache_dir, PendingCache::new
StageFile(e, i) ==
  /\ thread[e][i] = "stage" /\ Move(e, i, "commit")
  /\ \E can \in IF Key(e) = 0 THEN {usable[e]}
                ELSE IF usable[e] = "unasked" THEN {"yes", "no"} ELSE {usable[e]} :
       /\ usable' = [usable EXCEPT ![e] = can]
       /\ \/ Key(e) # 0 /\ can = "yes" /\ Stage(e, i, Torn)
          \/ UNCHANGED staging
  /\ UNCHANGED <<encoder, entry, keep, ask, phase, digest, cpu, gate, session>>

\* commit_from_file: the source is read, and the graph written if staged.
Commit(e, i) ==
  /\ thread[e][i] = "commit"
  /\ \/ /\ staging[e][i] = 0 /\ Have(e, i, encoder)
     \/ /\ staging[e][i] # 0 /\ session' = [session EXCEPT ![e][i] = encoder]
        /\ Stage(e, i, encoder) /\ Move(e, i, "rehash") /\ UNCHANGED <<gate>>
     \/ /\ staging[e][i] # 0 /\ Move(e, i, "again") /\ UNCHANGED <<gate, staging, session>>
     \/ /\ staging[e][i] = 0 /\ Broken(e, i) /\ UNCHANGED session
  /\ UNCHANGED <<encoder, entry, keep, ask, phase, digest, cpu, usable>>

CommitAgain(e, i) ==
  /\ thread[e][i] = "again"
  /\ \/ Have(e, i, encoder)
     \/ Broken(e, i) /\ UNCHANGED session
  /\ UNCHANGED <<encoder, entry, keep, ask, phase, digest, cpu, usable>>

\* optimized_source_hash once more
StillSource(e) == encoder = digest[e]

Rehash(e, i) ==
  /\ thread[e][i] = "rehash"
  /\ IF StillSource(e)
       THEN Move(e, i, "publish") /\ UNCHANGED <<gate, staging, session>>
       ELSE Have(e, i, session[e][i])
  /\ UNCHANGED <<encoder, entry, keep, ask, phase, digest, cpu, usable>>

PublishEntry(e, i) ==
  /\ thread[e][i] = "publish"
  /\ \/ entry' = [entry EXCEPT ![Key(e)] = staging[e][i]]
     \/ UNCHANGED entry
  /\ Have(e, i, session[e][i])
  /\ UNCHANGED <<encoder, keep, ask, phase, digest, cpu, usable>>

\* The decoder and the joiner; a panic of the thread.
Parts(e, i) ==
  /\ thread[e][i] = "parts"
  /\ \/ Move(e, i, "done") /\ UNCHANGED <<gate, staging>>
     \/ Broken(e, i)
  /\ UNCHANGED <<encoder, entry, keep, ask, phase, digest, cpu, usable, session>>

LoadNext ==
  \/ Replace \/ Prune
  \/ \E e \in DOMAIN ask :
       \/ Digest(e) \/ Collect(e) \/ Probe(e) \/ LoadKilled(e)
       \/ \E i \in Triplets(e) :
            Gate(e, i) \/ Look(e, i) \/ OpenEntry(e, i) \/ StageFile(e, i) \/ Commit(e, i)
              \/ CommitAgain(e, i) \/ Rehash(e, i) \/ PublishEntry(e, i) \/ Parts(e, i)

LoadSpec == LoadInit /\ [][LoadNext]_loadVars

-----------------------------------------------------------------------------
(* Properties.                                                             *)

\* However loads, replacements of the encoder, prunes and kills interleave: a
\* graph in the cache is a whole one, compiled from the content it is filed
\* under, or somebody else's that does not load.  (the second hash in
\* load_session_with_model_hash, the rename of PendingCache)
EntryIsOfItsDigest == \A c \in 1 .. Contents : entry[c] \in {0, c, Torn}

\* A triplet of an engine that is ready runs the encoder whose digest was
\* verified, or a newer one that replaced it meanwhile, never an older one out
\* of the cache.  (verify_pinned_checksums, try_load_cached_encoder)
NeverAnOlderEncoder ==
  \A e \in Loads : phase[e] = "ready" => \A i \in Loaded(e) : session[e][i] >= digest[e]

\* What the cache holds and what is loaded out of it, together.
CacheIsOfItsEncoder == EntryIsOfItsDigest /\ NeverAnOlderEncoder
=============================================================================
