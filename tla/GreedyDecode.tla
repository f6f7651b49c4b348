----------------------------- MODULE GreedyDecode -----------------------------
(***************************************************************************)
(* The greedy transducer loop (inference/decode/mod.rs) with its hotwords, *)
(* over the calls of one stream: each call decodes some encoder frames and *)
(* goes on from the decoder state the last one left.                       *)
(*                                                                         *)
(* The state of the prediction network is told by the number of tokens it  *)
(* was fed; its output by the state it was computed from.  What the joiner *)
(* makes of a frame is any token.                                          *)
(***************************************************************************)
EXTENDS Hotwords

CONSTANTS
  Heads,                     \* vocabularies, each with the phrases asked for
  Frames,                    \* the most frames of a call
  MaxCalls,                  \* calls of a stream
  MAX_TOKENS_PER_STEP,
  MAX_BIAS_OVERRIDES_PER_STEP,
  EndpointBlanks             \* endpoint_blank_threshold

ASSUME GreedyAssumption ==
  /\ Frames \in Nat
  /\ MaxCalls \in Nat
  /\ MAX_TOKENS_PER_STEP \in Nat
  /\ MAX_BIAS_OVERRIDES_PER_STEP \in Nat
  /\ EndpointBlanks \in Nat \ {0}

VARIABLES
  head,        \* the vocabulary, the phrases asked for, the boost
  hotwords,    \* the glossary compiled for it
  at,          \* where the loop is: "idle", "decoder", "joiner"
  calls,       \* calls begun
  encoded_len, \* frames of this call
  t,           \* the frame
  fed,         \* DecoderState: h, c, prev_token, by the tokens committed so far
  blanks,      \* DecoderState: consecutive_blanks
  decoder_out, \* the state the decoder's last output was computed from
  cache_valid, in_blank_run,
  active,      \* BiasState: nodes reached by the tokens of this call
  tokens,      \* tokens of this call, with their frame
  step,        \* tokens of this frame
  overrides,   \* picks of this frame the boost has turned
  endpoint,    \* endpoint_detected
  result,      \* of the last call: "none", "ok", "aborted", "failed", "stale"
  quiet        \* history: frames of the call that ended with a blank since its last
               \* token or cap

stateVars == <<fed, blanks>>
loopVars == <<t, step, overrides>>
cacheVars == <<decoder_out, cache_valid, in_blank_run>>
callVars == <<calls, encoded_len>>
greedyVars == <<head, hotwords, at, callVars, loopVars, stateVars, cacheVars, active, tokens,
                endpoint, result, quiet>>

blank_id == 0
Labels == DOMAIN head.vocab
\* A stream that is not biased has no phrases.
Biased == hotwords.phrases # {}

GreedyInit ==
  /\ head \in Heads
  /\ hotwords = from_phrases(head.vocab, head.asked, head.boost)
  /\ at = "idle" /\ calls = 0 /\ encoded_len = 0 /\ t = 0
  /\ fed = 0 /\ blanks = 0
  /\ decoder_out = 0 /\ cache_valid = FALSE /\ in_blank_run = FALSE
  /\ active = {Root} /\ tokens = <<>> /\ step = 0 /\ overrides = 0
  /\ endpoint = FALSE /\ result = "none" /\ quiet = 0

\* A call: everything but the decoder state starts anew.
greedy_decode(n) ==
  /\ at = "idle" /\ calls < MaxCalls /\ result \notin {"failed", "stale"}
  /\ calls' = calls + 1 /\ encoded_len' = n
  /\ t' = 0 /\ step' = 0 /\ overrides' = 0
  /\ decoder_out' = 0 /\ cache_valid' = FALSE /\ in_blank_run' = FALSE
  /\ active' = {Root} /\ tokens' = <<>> /\ endpoint' = FALSE /\ quiet' = 0
  /\ at' = IF n = 0 THEN "idle" ELSE "decoder"
  /\ result' = IF n = 0 THEN "ok" ELSE "none"
  /\ UNCHANGED <<head, hotwords, stateVars>>

ReturnTokens(how) == at' = "idle" /\ result' = how

\* The abort flag is read at the head of the loop only.
AbortDecode ==
  /\ at = "decoder"
  /\ endpoint' = FALSE
  /\ ReturnTokens("aborted")
  /\ UNCHANGED <<head, hotwords, callVars, loopVars, stateVars, cacheVars, active, tokens, quiet>>

\* In a run of blanks the decoder's output is used again, else it is computed.
decode_step ==
  /\ at = "decoder"
  /\ IF in_blank_run
     THEN /\ IF cache_valid THEN at' = "joiner" /\ UNCHANGED result ELSE ReturnTokens("stale")
          /\ UNCHANGED <<decoder_out, cache_valid>>
     ELSE /\ decoder_out' = fed /\ cache_valid' = TRUE
          /\ at' = "joiner" /\ UNCHANGED result
  /\ UNCHANGED <<head, hotwords, callVars, loopVars, stateVars, in_blank_run, active, tokens,
                 endpoint, quiet>>

\* A network fails: the tokens of the call are lost, the state is not undone.
NetworkFails ==
  /\ at \in {"decoder", "joiner"}
  /\ at = "decoder" => ~in_blank_run
  /\ ReturnTokens("failed")
  /\ UNCHANGED <<head, hotwords, callVars, loopVars, stateVars, cacheVars, active, tokens,
                 endpoint, quiet>>

\* What the joiner prefers, and what a boost may make of it.
MayBoost == Biased /\ overrides < MAX_BIAS_OVERRIDES_PER_STEP
select_token(own) ==
  {own} \cup IF MayBoost THEN {c \in Labels : boost_logits(hotwords, active, c) > 0} ELSE {}

NextFrame ==
  /\ t' = t + 1 /\ step' = 0 /\ overrides' = 0
  /\ IF t + 1 = encoded_len THEN ReturnTokens("ok") ELSE at' = "decoder" /\ UNCHANGED result

\* The frame is done.
Blank ==
  /\ in_blank_run' = TRUE
  /\ blanks' = blanks + 1
  /\ endpoint' = (endpoint \/ (blanks + 1 >= EndpointBlanks /\ tokens # <<>>))
  /\ quiet' = quiet + 1
  /\ NextFrame
  /\ UNCHANGED <<fed, decoder_out, cache_valid, active, tokens>>

\* Too many tokens in a frame: speech, however long.
TokenCap ==
  /\ step >= MAX_TOKENS_PER_STEP
  /\ in_blank_run' = FALSE /\ cache_valid' = FALSE
  /\ blanks' = 0 /\ endpoint' = FALSE
  /\ quiet' = 0
  /\ NextFrame
  /\ UNCHANGED <<fed, decoder_out, active, tokens>>

commit_non_blank(token, spent) ==
  /\ step < MAX_TOKENS_PER_STEP
  /\ endpoint' = FALSE /\ in_blank_run' = FALSE
  /\ blanks' = 0
  /\ fed' = decoder_out + 1
  /\ active' = IF Biased THEN advance(hotwords, active, token) ELSE active
  /\ tokens' = Append(tokens, [id |-> token, frame |-> t])
  /\ step' = step + 1
  /\ overrides' = overrides + IF spent THEN 1 ELSE 0
  /\ quiet' = 0
  /\ at' = "decoder"
  /\ UNCHANGED <<t, decoder_out, cache_valid, result>>

joiner_step(own) ==
  /\ at = "joiner"
  /\ \E token \in select_token(own) :
       \/ token = blank_id /\ Blank
       \/ token # blank_id /\ TokenCap
       \/ token # blank_id /\ commit_non_blank(token, token # own)
  /\ UNCHANGED <<head, hotwords, callVars>>

GreedyNext ==
  \/ \E n \in 0 .. Frames : greedy_decode(n)
  \/ AbortDecode
  \/ decode_step
  \/ NetworkFails
  \/ \E own \in Labels \cup {blank_id} : joiner_step(own)

GreedySpec == GreedyInit /\ [][GreedyNext]_greedyVars

----------------------------------------------------------------------------
(* Properties.                                                             *)

\* Ids and frames of the tokens.
Emitted == [k \in DOMAIN tokens |-> tokens[k].id]

GreedyTypeOK ==
  /\ at \in {"idle", "decoder", "joiner"}
  /\ result \in {"none", "ok", "aborted", "failed", "stale"}
  /\ calls \in 0 .. MaxCalls /\ encoded_len \in Nat /\ t \in Nat
  /\ step \in Nat /\ overrides \in Nat /\ blanks \in Nat /\ quiet \in Nat
  /\ fed \in Nat /\ decoder_out \in Nat
  /\ tokens \in Seq([id : Nat, frame : Nat])
  /\ {cache_valid, in_blank_run, endpoint} \subseteq BOOLEAN

\* The joiner is always given the output for the tokens committed so far, on
\* whichever call and frame they were committed, though the decoder is not
\* run in a run of blanks; and the check that the output in hand is a valid
\* one never fires.
NeverStale ==
  /\ at = "joiner" => decoder_out = fed
  /\ result # "stale"

\* A call that ran to its end reports an endpoint when its tokens are followed
\* by enough blanks, and only then: blanks of an earlier call, of a frame that
\* was cut off at the cap, or before the last token do not count.
EndpointIsTrailing ==
  result = "ok" => (endpoint <=> tokens # <<>> /\ quiet >= EndpointBlanks)

\* The nodes a phrase may go on from are the ones the latest tokens of the
\* call spell, all of them, over blanks and frames.
ActiveAreSuffixes ==
  Biased => active = {node \in Nodes(hotwords) : IsSuffix(node, Emitted)}

GreedyIsExact == NeverStale /\ EndpointIsTrailing /\ ActiveAreSuffixes

\* A token that would carry a phrase on is favoured, unless it is the marker
\* that opens every phrase.
HotwordTokensAreFavoured ==
  \A node \in active, c \in Labels :
    Child(hotwords, node, c) /\ head.vocab[c] # WORD_BOUNDARY
      => boost_logits(hotwords, active, c) > 0
=============================================================================
