------------------------------- MODULE TextPass -------------------------------
(***************************************************************************)
(* What becomes of a transcript's text (inference/engine/config.rs):       *)
(* numbers to digits (itn.rs), then punctuation and casing window by       *)
(* window (punctuation/), each optional, with an abort checked between.    *)
(*                                                                         *)
(* A word is the sequence of its characters: one name for a word nothing   *)
(* looks into, digits for a number.  A label is told by the word, the      *)
(* piece of it and the window it was computed for.                         *)
(***************************************************************************)
EXTENDS Integers, Sequences, FiniteSets, SequencesExt, FiniteSetsExt, Functions

CONSTANTS
  NumberWords,          \* a number word to its value and scale
  Transcripts,          \* transcripts, as spoken items
  Pieces,               \* the pieces of a word that is not a number
  Parts,                \* the words the pre-tokenizer makes of it
  DigitPieces,          \* the pieces of a number
  WINDOW_WORDS,
  WINDOW_OVERLAP_WORDS,
  MAX_WINDOW_SUBTOKENS

ASSUME WindowAssumption ==
  /\ WINDOW_WORDS \in Nat /\ WINDOW_OVERLAP_WORDS \in Nat
  /\ WINDOW_OVERLAP_WORDS < WINDOW_WORDS /\ WINDOW_OVERLAP_WORDS % 2 = 0

VARIABLES
  meant,       \* the transcript: words, and numbers with their words
  options,     \* itn, punctuation
  text,        \* the words of the text as it is now
  stage,       \* "itn", "punctuation", "splice", "end", "done", "cancelled"
  per_window,  \* labels of the windows so far; <<>> for one that failed
  labels,      \* what every word is labelled with at the end; 0 for none
  failed_windows

textVars == <<meant, options, text, stage, per_window, labels, failed_windows>>

----------------------------------------------------------------------------
(* Numbers.                                                                *)

UNIT == 1
THOUSAND == 1000
MILLION == 1000000

Digit == <<"0", "1", "2", "3", "4", "5", "6", "7", "8", "9">>
to_string(n) ==
  LET length == CHOOSE k \in 1 .. 12 : n < 10 ^ k /\ (k = 1 \/ n >= 10 ^ (k - 1))
  IN [k \in 1 .. length |-> Digit[1 + ((n \div 10 ^ (length - k)) % 10)]]
is_digit_token(word) == word # <<>> /\ Range(word) \subseteq Range(Digit)

\* The number under way, and the words made so far.
NoNumber == [current |-> 0, running_total |-> 0, prev_scale |-> 0, in_number |-> FALSE]
FlushNumber(s) ==
  [s EXCEPT !.result = IF s.num.in_number
                       THEN Append(@, to_string(s.num.running_total + s.num.current)) ELSE @,
            !.num = NoNumber]

\* A scale word multiplies what came before it; a value whose scale does not
\* fall below the last one begins another number; any other adds to it.
NumberWord(s, value, scale) ==
  LET num == s.num
  IN CASE scale \in {THOUSAND, MILLION} ->
            [s EXCEPT !.num = [current |-> 0, prev_scale |-> scale, in_number |-> TRUE,
                               running_total |-> num.running_total
                                 + (IF num.current = 0 THEN 1 ELSE num.current) * scale]]
       [] scale \notin {THOUSAND, MILLION} /\ num.current > 0 /\ scale >= num.prev_scale ->
            [FlushNumber(s) EXCEPT !.num = [current |-> value, running_total |-> 0,
                                      prev_scale |-> scale, in_number |-> TRUE]]
       [] OTHER ->
            [s EXCEPT !.num = [num EXCEPT !.current = @ + value, !.prev_scale = scale,
                                          !.in_number = TRUE]]

words_to_numbers(tokens) ==
  LET step(s, word) ==
        IF word[1] \in DOMAIN NumberWords
        THEN NumberWord(s, NumberWords[word[1]].value, NumberWords[word[1]].scale)
        ELSE LET flushed == FlushNumber(s) IN [flushed EXCEPT !.result = Append(@, word)]
  IN FlushNumber(FoldLeft(step, [num |-> NoNumber, result |-> <<>>], tokens)).result

\* Numbers side by side are one, when none of them has more than three digits.
merge_digit_groups(tokens) ==
  LET n == Len(tokens)
      InRun(i, j) == \A k \in i .. j : is_digit_token(tokens[k])
      First(i) == is_digit_token(tokens[i]) /\ (i = 1 \/ ~is_digit_token(tokens[i - 1]))
      RunEnd(i) == Max({j \in i .. n : InRun(i, j)})
      Short(i) == \A k \in i .. RunEnd(i) : Len(tokens[k]) <= 3
      from[i \in 1 .. n + 1] ==
        IF i > n THEN <<>>
        ELSE IF First(i) /\ Short(i)
             THEN <<FlattenSeq(SubSeq(tokens, i, RunEnd(i)))>> \o from[RunEnd(i) + 1]
             ELSE <<tokens[i]>> \o from[i + 1]
  IN from[1]

apply_itn(tokens) == merge_digit_groups(words_to_numbers(tokens))

----------------------------------------------------------------------------
(* Windows over the words, places counted from 0.                          *)

plan_windows(n) ==
  LET stride == WINDOW_WORDS - WINDOW_OVERLAP_WORDS
      half == WINDOW_OVERLAP_WORDS \div 2
      count == IF n = 0 THEN 0
               ELSE Min({k \in 1 .. n : (k - 1) * stride + WINDOW_WORDS >= n})
      start(k) == (k - 1) * stride
      end(k) == Min({start(k) + WINDOW_WORDS, n})
  IN [k \in 1 .. count |->
        [start |-> start(k), end |-> end(k),
         keep_start |-> IF k = 1 THEN 0 ELSE start(k) + half,
         keep_end |-> IF k = count THEN n ELSE end(k) - half]]

\* The pieces of some words: which pre-tokenizer word each belongs to, which
\* word of the text and which piece of it it is.
PieceCount(word) == IF word[1] \in DOMAIN Pieces THEN Pieces[word[1]] ELSE DigitPieces
PartCount(word) == IF word[1] \in DOMAIN Parts THEN Parts[word[1]] ELSE 1
encode(words, first) ==
  FoldLeft(LAMBDA e, k :
             [next |-> e.next + PartCount(words[k]),
              ids |-> e.ids \o [p \in 1 .. PieceCount(words[k]) |->
                        [word_id |-> e.next + Min({p, PartCount(words[k])}) - 1,
                         of |-> first + k - 1, piece |-> p]]],
           [next |-> 0, ids |-> <<>>], [k \in DOMAIN words |-> k]).ids

\* The last piece of a word labels it.
LastSubword(pieces, n) ==
  [w \in 1 .. n |->
     LET own == {p \in DOMAIN pieces : pieces[p].word_id = w - 1}
     IN IF own = {} THEN [of |-> -1, piece |-> 0]
        ELSE [of |-> pieces[Max(own)].of, piece |-> pieces[Max(own)].piece]]

\* A word takes the label of the first piece that is counted as its own.
first_subword_labels(pieces, n) ==
  [w \in 1 .. n |->
     LET own == {p \in DOMAIN pieces : pieces[p].word_id = w - 1}
     IN IF own = {} THEN [of |-> -1, piece |-> 0]
        ELSE [of |-> pieces[Min(own)].of, piece |-> pieces[Min(own)].piece]]

\* One run, or two halves where the words have too many pieces; none for a
\* word that has too many on its own.
label_word_range(words, start, end) ==
  LET Fits(a, b) == Len(encode(SubSeq(words, a + 1, b), a)) + 2 <= MAX_WINDOW_SUBTOKENS
      halves[r \in (start .. end) \X (start .. end)] ==
        LET a == r[1]
            b == r[2]
            mid == a + (b - a) \div 2
        IN IF Fits(a, b)
           THEN [ok |-> TRUE,
                 labels |-> first_subword_labels(encode(SubSeq(words, a + 1, b), a), b - a)]
           ELSE IF b - a < 2 THEN [ok |-> FALSE, labels |-> <<>>]
           ELSE [ok |-> halves[<<a, mid>>].ok /\ halves[<<mid, b>>].ok,
                 labels |-> halves[<<a, mid>>].labels \o halves[<<mid, b>>].labels]
  IN halves[<<start, end>>]

\* Each window gives the words it keeps; a failed one gives none.
splice_window_labels(windows, results, n) ==
  [w \in 1 .. n |->
     LET from == {k \in DOMAIN windows : /\ windows[k].keep_start <= w - 1
                                         /\ w - 1 < windows[k].keep_end
                                         /\ results[k] # <<>>}
     IN IF from = {} THEN [of |-> -1, piece |-> 0, window |-> 0]
        ELSE LET k == Max(from)
                 label == results[k][w - windows[k].start]
             IN [of |-> label.of, piece |-> label.piece, window |-> k]]

----------------------------------------------------------------------------
(* The pass.                                                               *)

Wording(item) == IF "value" \in DOMAIN item THEN item.words ELSE <<<<item.name>>>>

TextInit ==
  /\ meant \in Transcripts
  /\ options \in [itn : BOOLEAN, punctuation : BOOLEAN]
  /\ text = FlattenSeq([k \in DOMAIN meant |-> Wording(meant[k])])
  /\ stage = "itn"
  /\ per_window = <<>> /\ labels = <<>> /\ failed_windows = 0

\* An abort is seen before, between and after the passes.
AbortText ==
  /\ stage \in {"itn", "punctuation", "end"}
  /\ stage = "punctuation" => per_window = <<>>
  /\ stage' = "cancelled"
  /\ UNCHANGED <<meant, options, text, per_window, labels, failed_windows>>

Itn ==
  /\ stage = "itn"
  /\ text' = IF options.itn THEN apply_itn(text) ELSE text
  /\ stage' = IF options.punctuation /\ text' # <<>> THEN "punctuation" ELSE "end"
  /\ UNCHANGED <<meant, options, per_window, labels, failed_windows>>

\* One window after the other; a run that fails costs its window its labels.
restore_inner(runs) ==
  /\ stage = "punctuation"
  /\ LET windows == plan_windows(Len(text))
         window == windows[Len(per_window) + 1]
         result == label_word_range(text, window.start, window.end)
         ok == runs /\ result.ok
     IN /\ per_window' = Append(per_window, IF ok THEN result.labels ELSE <<>>)
        /\ failed_windows' = failed_windows + IF ok THEN 0 ELSE 1
        /\ stage' = IF Len(per_window) + 1 = Len(windows) THEN "splice" ELSE stage
  /\ UNCHANGED <<meant, options, text, labels>>

\* A word without a label stays bare, all of them where every window failed.
Splice ==
  /\ stage = "splice"
  /\ labels' = splice_window_labels(plan_windows(Len(text)), per_window, Len(text))
  /\ stage' = "end"
  /\ UNCHANGED <<meant, options, text, per_window, failed_windows>>

ReturnText ==
  /\ stage = "end"
  /\ stage' = "done"
  /\ UNCHANGED <<meant, options, text, per_window, labels, failed_windows>>

TextNext ==
  \/ AbortText
  \/ Itn
  \/ \E runs \in BOOLEAN : restore_inner(runs)
  \/ Splice
  \/ ReturnText

TextSpec == TextInit /\ [][TextNext]_textVars

----------------------------------------------------------------------------
(* Properties.                                                             *)

IsNumber(item) == "value" \in DOMAIN item
Apart == \A k \in 2 .. Len(meant) : ~(IsNumber(meant[k - 1]) /\ IsNumber(meant[k]))

\* The text as its speaker meant it: a number that stands between words is the
\* digits of its value, however many words it was said in; and whatever the
\* numbers do, the other words stay, once each and in order.
NumbersReadAsMeant ==
  stage \in {"punctuation", "splice", "end", "done"} /\ options.itn =>
    /\ Apart => text = [k \in DOMAIN meant |-> IF IsNumber(meant[k])
                                                THEN to_string(meant[k].value)
                                                ELSE <<meant[k].name>>]
    /\ SelectSeq(text, LAMBDA word : ~is_digit_token(word))
         = FlattenSeq([k \in DOMAIN meant |-> IF IsNumber(meant[k]) THEN <<>>
                                               ELSE Wording(meant[k])])

\* Every word is labelled by its own first piece, computed in one window that
\* holds what the overlap promises of the words around it; only the words a
\* failed window keeps have no label.  A word the pre-tokenizer splits shifts
\* the labels behind it: this is about texts of whole words.
Unsplit == \A w \in DOMAIN text : PartCount(text[w]) = 1
LabelsAreOfTheirWords ==
  labels # <<>> /\ Unsplit =>
    LET windows == plan_windows(Len(text))
        half == WINDOW_OVERLAP_WORDS \div 2
    IN \A w \in DOMAIN labels :
         LET kept == CHOOSE k \in DOMAIN windows : /\ windows[k].keep_start <= w - 1
                                                   /\ w - 1 < windows[k].keep_end
             window == windows[kept]
         IN IF per_window[kept] = <<>> THEN labels[w].of = -1
            ELSE /\ labels[w] = [of |-> w - 1, piece |-> 1, window |-> kept]
                 /\ window.start = 0 \/ window.start + half <= w - 1
                 /\ window.end = Len(text) \/ w - 1 < window.end - half

TextIsRestored == NumbersReadAsMeant /\ LabelsAreOfTheirWords
=============================================================================
