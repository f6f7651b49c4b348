--------------------------------- MODULE Boot ---------------------------------
(***************************************************************************)
(* From the command line to an engine with its passes (serve.rs, boot.rs,  *)
(* boot/modes.rs, boot/sidecars.rs, load_files.rs, model/manifest.rs):     *)
(* what the flags, the profile, the configuration file, the manifest and   *)
(* the files in the model directory make of each other at boot, at a       *)
(* reload and at a SIGHUP, and what a request may switch on.               *)
(***************************************************************************)
EXTENDS Integers, Sequences

CONSTANTS
  Setups,      \* [command, online, variant, profile, pool, vad, punctuation, itn, words,
               \*  lexicon, config, rpm, burst], flags and the machine; unset: 0 or Unset
  Places,      \* [manifest, heads, punct, vad, words], a model directory and its sides
  Configs,     \* [valid, rpm, burst], contents of the configuration file
  Asked,       \* [punctuation, itn, vad, words], overrides of a request
  Unset,       \* a flag that was not given
  Changes      \* bound: how often the operator touches the disk

VARIABLES
  setup, place, config, changes,
  boot,        \* "args", "ensure", "sides", "build", "up", "refused"
  recipe,      \* [pool, vad]
  limits,      \* [rpm, burst], RuntimeLimits in use
  hung_up,     \* SIGHUP has replaced them
  resolved,    \* head that ensure_model_variant has made sure of
  built,       \* engines built, the first and the last: [place, engine]
  answer       \* to the last request: [asked, code, punctuation, itn, vad, words]

bootVars ==
  <<setup, place, config, changes, boot, recipe, limits, hung_up, resolved, built, answer>>

Variants == <<"rnnt", "e2e_rnnt", "ml_ctc">>
IsCtc(v) == v = "ml_ctc"
DefaultLimits == [rpm |-> 0, burst |-> 10]
Default == [punctuation |-> "unset", itn |-> "unset", vad |-> "unset", words |-> "unset"]
HeadNames == {Variants[k] : k \in DOMAIN Variants}
Unanswered == [asked |-> Default, code |-> 0, punctuation |-> FALSE, itn |-> FALSE,
               vad |-> FALSE, words |-> FALSE]

Directories ==
  [manifest : [state : {"none", "whole", "partial", "invalid"}, architecture : HeadNames],
   heads : [HeadNames -> {"none", "encoder", "set"}],
   punct : BOOLEAN, vad : BOOLEAN, words : BOOLEAN]

\* Limits are counts; a manifest names one of the heads, and of a head there is nothing, an
\* encoder, or all its files.
ASSUME BootAssumption ==
  /\ \A s \in Setups :
       /\ s.variant \in {"none"} \cup HeadNames /\ s.pool \in Nat
       /\ {s.rpm, s.burst} \subseteq Nat \cup {Unset}
       /\ {s.online, s.vad, s.words, s.lexicon, s.config} \subseteq BOOLEAN
  /\ Places \subseteq Directories
  /\ \A c \in Configs : c.valid \in BOOLEAN /\ c.rpm \in Nat /\ c.burst \in Nat
  /\ \A o \in Asked : DOMAIN o = DOMAIN Default

BootInit ==
  /\ setup \in Setups /\ place \in Places /\ config \in Configs
  /\ changes = 0 /\ boot = "args"
  /\ recipe = [pool |-> 0, vad |-> FALSE] /\ limits = DefaultLimits /\ hung_up = FALSE
  /\ resolved = "none" /\ built = <<>> /\ answer = Unanswered

-----------------------------------------------------------------------------
(* Arguments.                                                              *)

Edge == setup.command = "serve" /\ setup.profile = "edge"

\* The profile would come last.
ProfileWins == [pool |-> IF Edge THEN 1 ELSE IF setup.pool # 0 THEN setup.pool ELSE 2,
                vad |-> setup.vad \/ Edge]

\* value_source: what is set explicitly stays; a pool of 2 is the default.
WithProfile ==
  [pool |-> IF setup.pool # 0 THEN setup.pool ELSE IF Edge THEN 1 ELSE 2,
   vad |-> setup.vad \/ Edge]

\* build_limits: flags over the file over the defaults.
FromFile == IF setup.config THEN [rpm |-> config.rpm, burst |-> config.burst] ELSE DefaultLimits
WithFlags ==
  [rpm |-> IF setup.rpm # Unset THEN setup.rpm ELSE FromFile.rpm,
   burst |-> IF setup.burst # Unset THEN setup.burst ELSE FromFile.burst]

ReadArgs ==
  /\ boot = "args"
  /\ recipe' = WithProfile
  /\ IF setup.command # "serve" THEN boot' = "ensure" /\ UNCHANGED limits
     ELSE IF setup.config /\ ~config.valid THEN boot' = "refused" /\ UNCHANGED limits
     ELSE /\ limits' = WithFlags
          /\ boot' = IF limits'.rpm > 0 /\ limits'.burst = 0 THEN "refused" ELSE "ensure"
  /\ UNCHANGED <<setup, place, config, changes, hung_up, resolved, built, answer>>

-----------------------------------------------------------------------------
(* What there is on disk, and what is fetched.                             *)

\* The first head of which an encoder is there.
detect_in_dir ==
  LET found == {k \in DOMAIN Variants : place.heads[Variants[k]] # "none"}
  IN  IF found = {} THEN "none"
      ELSE Variants[CHOOSE k \in found : \A j \in found : k <= j]

is_usable_present(v) == place.heads[v] = "set"

existing ==
  IF detect_in_dir # "none" /\ is_usable_present(detect_in_dir) THEN detect_in_dir ELSE "none"

wanted_variant ==
  IF setup.variant # "none" THEN setup.variant
  ELSE IF existing # "none" THEN existing ELSE "rnnt"

\* ensure_model_variant: a manifest selects its own files, or nothing does.
PackAccepted ==
  /\ place.manifest.state = "whole"
  /\ setup.variant \in {"none", place.manifest.architecture}

EnsureHead ==
  /\ boot = "ensure"
  /\ IF place.manifest.state # "none"
     THEN /\ UNCHANGED place
          /\ resolved' = place.manifest.architecture
          /\ boot' = IF PackAccepted THEN "sides" ELSE "refused"
     ELSE /\ resolved' = wanted_variant
          /\ IF is_usable_present(wanted_variant) \/ setup.online
             THEN place' = [place EXCEPT !.heads[wanted_variant] = "set"] /\ boot' = "sides"
             ELSE boot' = "refused" /\ UNCHANGED place
  /\ UNCHANGED <<setup, config, changes, recipe, limits, hung_up, built, answer>>

resolve_punctuation(v) ==
  setup.punctuation = "on" \/ (setup.punctuation = "auto" /\ v = "rnnt")
resolve_itn(v) == setup.itn = "on" \/ (setup.itn = "auto" /\ v = "rnnt")

\* It would look after the default head.
DefaultSides ==
  [place EXCEPT !.punct = @ \/ (setup.online /\ resolve_punctuation("e2e_rnnt")),
                !.vad = @ \/ (setup.online /\ recipe.vad)]

\* A failed download is logged, and the pass stays off.
SidesFetched ==
  [place EXCEPT !.punct = @ \/ (setup.online /\ resolve_punctuation(resolved)),
                !.vad = @ \/ (setup.online /\ recipe.vad)]

EnsureSides ==
  /\ boot = "sides" /\ boot' = "build"
  /\ place' = SidesFetched
  /\ UNCHANGED <<setup, config, changes, recipe, limits, hung_up, resolved, built, answer>>

-----------------------------------------------------------------------------
(* The engine.                                                             *)

\* resolve_variant_local: the manifest is not asked.
resolve_variant_local ==
  IF setup.variant # "none" THEN setup.variant
  ELSE IF detect_in_dir # "none" THEN detect_in_dir ELSE "rnnt"

\* ResolvedModelFiles::resolve, load_triplets_runtime: the files are the manifest's, the
\* head is the one resolved; a head of three networks needs a pack of three.
LoadableAs(v) ==
  CASE place.manifest.state = "none" -> is_usable_present(v)
    [] place.manifest.state = "whole" -> IsCtc(v) \/ ~IsCtc(place.manifest.architecture)
    [] OTHER -> FALSE
PackOf(v) == IF place.manifest.state = "none" THEN v ELSE place.manifest.architecture

resolve_hotwords == (setup.words /\ place.words) \/ setup.lexicon

\* A model that is absent or does not load is no pass, and no error.
maybe_load_punctuator(v) == resolve_punctuation(v) /\ place.punct
maybe_load_vad == recipe.vad /\ place.vad

\* finish_build
Finished(v) ==
  [head |-> v, pack |-> PackOf(v),
   pool |-> recipe.pool,
   punctuation |-> maybe_load_punctuator(v),
   itn |-> resolve_itn(v),
   vad |-> maybe_load_vad,
   words |-> resolve_hotwords]

BuiltOf(v) == [place |-> place, engine |-> Finished(v)]
Engine == built[Len(built)].engine
Up == boot = "up"

\* The builder of a service resolves again; a command builds what was ensured.
Chosen == IF setup.command = "serve" THEN resolve_variant_local ELSE resolved

Build ==
  /\ boot = "build"
  /\ IF LoadableAs(Chosen) THEN boot' = "up" /\ built' = <<BuiltOf(Chosen)>>
     ELSE boot' = "refused" /\ UNCHANGED built
  /\ UNCHANGED <<setup, place, config, changes, recipe, limits, hung_up, resolved, answer>>

\* Without a network; the engine in use stays if it fails.
Reload ==
  /\ Up /\ setup.command = "serve" /\ Len(built) < 2
  /\ LoadableAs(resolve_variant_local)
  /\ built' = Append(built, BuiltOf(resolve_variant_local))
  /\ UNCHANGED <<setup, place, config, changes, boot, recipe, limits, hung_up, resolved, answer>>

\* The limits become those of the file.
HangUp ==
  /\ Up /\ setup.command = "serve" /\ setup.config /\ config.valid
  /\ limits' = [rpm |-> config.rpm, burst |-> config.burst] /\ hung_up' = TRUE
  /\ UNCHANGED <<setup, place, config, changes, boot, recipe, resolved, built, answer>>

\* The operator swaps the model, or edits the file.
Touch ==
  /\ Up /\ changes < Changes /\ changes' = changes + 1
  /\ \/ place' \in Places /\ UNCHANGED config
     \/ config' \in Configs /\ UNCHANGED place
  /\ UNCHANGED <<setup, boot, recipe, limits, hung_up, resolved, built, answer>>

-----------------------------------------------------------------------------
(* Requests.                                                               *)

\* It would refuse nothing.
NothingMissing(o) == FALSE

\* validate_overrides
Missing(o) ==
  \/ o.vad = "on" /\ ~Engine.vad
  \/ o.punctuation = "on" /\ ~Engine.punctuation

Switch(asked, default) == asked = "on" \/ (asked = "unset" /\ default)

\* select_biaser: phrases of the request take the place of those of the engine.
Answer(o) ==
  /\ Up /\ setup.command = "serve"
  /\ answer' =
       IF Missing(o) THEN [Unanswered EXCEPT !.asked = o, !.code = 409]
       ELSE [asked |-> o, code |-> 200,
             punctuation |-> Engine.punctuation /\ Switch(o.punctuation, TRUE),
             itn |-> Switch(o.itn, Engine.itn),
             vad |-> Engine.vad /\ Switch(o.vad, TRUE),
             words |-> Switch(o.words, Engine.words)]
  /\ UNCHANGED <<setup, place, config, changes, boot, recipe, limits, hung_up, resolved, built>>

BootNext ==
  \/ ReadArgs \/ EnsureHead \/ EnsureSides \/ Build \/ Reload \/ HangUp \/ Touch
  \/ \E o \in Asked : Answer(o)

BootSpec == BootInit /\ [][BootNext]_bootVars

-----------------------------------------------------------------------------
(* Properties.                                                             *)

Plain(b) == b.place.manifest.state = "none"

\* A service builds from a manifest that it did not ask: without --model-variant, and at
\* every reload.
ManifestUnasked(k) ==
  /\ setup.command = "serve" /\ ~Plain(built[k])
  /\ setup.variant = "none" \/ k > 1

\* The head is the one asked for, found or named by the manifest, the files are its own,
\* and a pass that `auto` adds is added to this head alone.  Not where a service does not
\* ask its manifest (boot.rs:205, against docs/model-packs.md:82, "A present manifest is
\* authoritative ... an explicit model variant that conflicts with its architecture"
\* causes "a clear error"): there a pack's files run as the head of the flag, of other
\* files in the directory or of the default, with that head's passes, and what is left is
\* that the pack is whole and that no head of three networks runs on a pack of one.
HeadAsAsked ==
  \A k \in DOMAIN built :
    LET e == built[k].engine
        p == built[k].place
    IN  /\ setup.variant # "none" => e.head = setup.variant
        /\ Plain(built[k]) => p.heads[e.head] = "set"
        /\ ~Plain(built[k]) => p.manifest.state = "whole" /\ (IsCtc(e.pack) => IsCtc(e.head))
        /\ ManifestUnasked(k) \/ e.pack = e.head
        /\ e.punctuation /\ setup.punctuation = "auto" => e.head = "rnnt"
        /\ e.itn /\ setup.itn = "auto" => e.head = "rnnt"

\* What boot fetched is for the engine boot builds: with a network, a pass that should
\* run does.  Punctuation is fetched for the manifest's head: a service that does not ask
\* the manifest may build another.
SidesFitEngine ==
  built # <<>> /\ setup.online =>
    LET e == built[1].engine IN
      /\ e.vad = recipe.vad
      /\ \/ ManifestUnasked(1)
         \/ e.head = resolved /\ e.punctuation = resolve_punctuation(e.head)

\* A reload of the same files gives the same engine.
ReloadIsBoot ==
  Len(built) = 2 /\ built[1].place = built[2].place => built[1].engine = built[2].engine

\* A flag wins over the profile, and over the file until the file is read again.
FlagsWinAtBoot ==
  Up =>
    /\ setup.pool # 0 => Engine.pool = setup.pool
    /\ ~hung_up /\ setup.command = "serve" =>
         /\ setup.rpm # Unset => limits.rpm = setup.rpm
         /\ setup.burst # Unset => limits.burst = setup.burst
         /\ limits.rpm > 0 => limits.burst > 0

\* A request that is served gets what it asked for, on or off; one that is refused asked
\* for something that was not loaded.
AnswerAsAsked ==
  LET o == answer.asked IN
    /\ answer.code = 200 =>
         \A field \in {"punctuation", "itn", "vad", "words"} :
           /\ o[field] = "on" => answer[field]
           /\ o[field] = "off" => ~answer[field]
    /\ answer.code = 409 =>
         \E k \in DOMAIN built : \/ o.vad = "on" /\ ~built[k].engine.vad
                                 \/ o.punctuation = "on" /\ ~built[k].engine.punctuation

\* What boots, reloads and answers is what was asked for, but for a manifest that is not
\* asked.  (run_serve, EngineRecipe)
BootIsAsAsked ==
  HeadAsAsked /\ SidesFitEngine /\ ReloadIsBoot /\ FlagsWinAtBoot /\ AnswerAsAsked
=============================================================================
