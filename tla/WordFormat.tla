------------------------------ MODULE WordFormat ------------------------------
(***************************************************************************)
(* From tokens to words with their times, for the transducer heads         *)
(* (inference/token_format.rs) and the CTC heads (inference/ctc.rs): one   *)
(* step per token, and what is left over when the tokens end.              *)
(***************************************************************************)
EXTENDS Hotwords

CONSTANTS
  Scripts,     \* vocabularies, each with the kind of head it belongs to
  MaxTokens,   \* the most tokens of a window
  MaxGap,      \* the most frames from one token to the next
  Offsets      \* frame_offset of a window in the stream

\* A marker is nowhere but at the head of a token, and in a CTC vocabulary a token
\* of its own; a word of a phrase has a letter, and no marker.
Alphabet(texts) == UNION {Range(texts[k]) : k \in DOMAIN texts}
ASSUME ScriptsAssumption ==
  /\ \A s \in Scripts :
       /\ s.vocab \in Seq(Seq(Alphabet(s.vocab)))
       /\ \A t \in Range(s.vocab) : \A i \in 2 .. Len(t) : t[i] # Marker
       /\ s.kind = "ctc" => \A t \in Range(s.vocab) \ {<<>>} : t[1] = Marker => t = WORD_BOUNDARY
       /\ \A p \in s.asked :
            p \in Seq(Seq(Alphabet(p)) \ {<<>>}) /\ Marker \notin Alphabet(p)
  /\ Offsets \subseteq Nat /\ MaxGap \in Nat /\ MaxTokens \in Nat

VARIABLES
  script,      \* the head: its vocabulary, its kind ("rnnt" or "ctc")
  frame_offset,
  heard,       \* the tokens so far, with their frames
  current,     \* current_word, word_start_frame, word_end_frame, word_confidences
  words,       \* the words so far
  done

wordVars == <<script, frame_offset, heard, current, words, done>>

token_text(vocab, id) ==
  IF id \notin DOMAIN vocab \/ vocab[id] \in Special THEN <<>> ELSE vocab[id]
Opens(text) == text # <<>> /\ Head(text) = Marker
Clean(text) == IF Opens(text) THEN Tail(text) ELSE text

NoWord == [text |-> <<>>, start |-> -1, end |-> 0, parts |-> <<>>]

\* A word with its times, and the tokens its confidence is the mean of.
Emit(w) == [text |-> w.text, start |-> w.start + frame_offset, end |-> w.end + frame_offset,
            parts |-> w.parts]

\* A marker that spells nothing counts as a letter.
SpellMarker(w, text, frame) ==
  [text |-> w.text \o text, start |-> IF w.start = -1 THEN frame ELSE w.start,
   end |-> frame, parts |-> Append(w.parts, frame)]

\* A letter of the word: the first one sets its start, each one its end.
Spell(w, text, frame) ==
  IF text = <<>> THEN w
  ELSE [text |-> w.text \o text, start |-> IF w.start = -1 THEN frame ELSE w.start,
        end |-> frame, parts |-> Append(w.parts, frame)]

FormatInit ==
  /\ script \in Scripts
  /\ frame_offset \in Offsets
  /\ heard = <<>> /\ current = NoWord /\ words = <<>> /\ done = FALSE

NextFrames == LET last == IF heard = <<>> THEN 0 ELSE Last(heard).frame IN last .. last + MaxGap
More(id, frame) ==
  /\ ~done /\ Len(heard) < MaxTokens
  /\ heard' = Append(heard, [id |-> id, frame |-> frame])

\* A transducer's token may open a word and spell its beginning.
tokens_to_words(id, frame) ==
  /\ script.kind = "rnnt"
  /\ More(id, frame)
  /\ LET text == token_text(script.vocab, id)
         flush == Opens(text) /\ current.text # <<>>
     IN /\ words' = IF flush THEN Append(words, Emit(current)) ELSE words
        /\ current' = Spell(IF flush THEN NoWord ELSE current, Clean(text), frame)
  /\ UNCHANGED <<script, frame_offset, done>>

\* A CTC token that opens a word is the marker and nothing else.
ctc_tokens_to_words(id, frame) ==
  /\ script.kind = "ctc"
  /\ More(id, frame)
  /\ LET text == token_text(script.vocab, id)
     IN IF Opens(text)
        THEN /\ words' = IF current.text = <<>> THEN words ELSE Append(words, Emit(current))
             /\ current' = IF current.text = <<>> THEN current ELSE NoWord
        ELSE current' = Spell(current, text, frame) /\ UNCHANGED words
  /\ UNCHANGED <<script, frame_offset, done>>

\* The last word has no marker behind it.
LastWord ==
  /\ ~done
  /\ done' = TRUE
  /\ words' = IF current.text = <<>> THEN words ELSE Append(words, Emit(current))
  /\ current' = NoWord
  /\ UNCHANGED <<script, frame_offset, heard>>

FormatNext ==
  \/ \E id \in 0 .. Len(script.vocab), frame \in NextFrames :
       tokens_to_words(id, frame) \/ ctc_tokens_to_words(id, frame)
  \/ LastWord

FormatSpec == FormatInit /\ [][FormatNext]_wordVars

----------------------------------------------------------------------------
(* Properties.                                                             *)

\* The letters of a window in order, each with the frame that gave it, and the
\* place of its word: the markers before it.
TextOf(k) == token_text(script.vocab, heard[k].id)
OpenedBy(k) == Cardinality({j \in 1 .. k : Opens(TextOf(j))})
Spelling(place) == {k \in DOMAIN heard : OpenedBy(k) = place /\ Clean(TextOf(k)) # <<>>}
Places == {place \in 0 .. Len(heard) : Spelling(place) # {}}
SpelledBy(set) ==
  FlattenSeq([k \in DOMAIN heard |-> IF k \in set THEN Clean(TextOf(k)) ELSE <<>>])

\* The words of a window are its letters cut at the markers: none is lost,
\* none is empty, each lasts from the frame of its first letter to the frame
\* of its last, where the stream is by then, and its confidence is of its own
\* letters.  A marker on its own does not make a word start early, an unknown
\* token does not end one.
WordsAreLetters ==
  done =>
    /\ Len(words) = Cardinality(Places)
    /\ \A place \in Places :
         LET word == words[Cardinality({p \in Places : p <= place})]
             frames == [k \in Spelling(place) |-> heard[k].frame]
         IN /\ word.text = SpelledBy(Spelling(place))
            /\ word.start = heard[Min(Spelling(place))].frame + frame_offset
            /\ word.end = heard[Max(Spelling(place))].frame + frame_offset
            /\ Len(word.parts) = Cardinality(Spelling(place))
            /\ Range(word.parts) = Range(frames)

\* A glossary phrase the vocabulary can spell reads, where a decoder emits its
\* ids, as the words that were asked for, if the marker has a token.
PhrasesReadAsAsked ==
  done /\ WORD_BOUNDARY \in Range(script.vocab) =>
    \A p \in script.asked :
      LET ids == encode_phrase(script.vocab, p)
      IN Encodes(ids) /\ ids = [k \in DOMAIN heard |-> heard[k].id]
           => [k \in DOMAIN words |-> words[k].text] = p

WordsReadAsSpoken == WordsAreLetters /\ PhrasesReadAsAsked
=============================================================================
