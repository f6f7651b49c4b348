------------------------------- MODULE Hotwords -------------------------------
(***************************************************************************)
(* Contextual hotwords (inference/bias.rs, tokenizer.rs): a phrase becomes *)
(* the token ids a head would emit for it, the phrases of a glossary share *)
(* a prefix trie, and a decoder asks the trie which tokens to favour.      *)
(*                                                                         *)
(* A token is the sequence of its characters, an id its place in the       *)
(* vocabulary.  A node of the trie is the sequence of ids that leads to    *)
(* it, the root the empty one.  A glossary is a record of its phrases (id  *)
(* sequences) and the boost.                                               *)
(***************************************************************************)
EXTENDS Integers, Sequences, FiniteSets, SequencesExt, FiniteSetsExt, Functions

CONSTANTS
  Lower,    \* every character in lower case
  Fold      \* every character with its diaeresis folded away

\* The character that opens a word, and a token no phrase can be spelled with.
Marker == "_"
WORD_BOUNDARY == <<Marker>>
Special == {<<"<unk>">>, <<"<blk>">>}

----------------------------------------------------------------------------
(* Phrases into ids.                                                       *)

\* The words of a phrase, each behind its marker.
Marked(words) == FlattenSeq([k \in DOMAIN words |-> WORD_BOUNDARY \o words[k]])

\* The tokens that match at place i, and the longest of them, the first of two.
Fitting(vocab, chars, i) ==
  {id \in DOMAIN vocab : /\ vocab[id] \notin Special \cup {<<>>}
                         /\ IsPrefix(vocab[id], SubSeq(chars, i, Len(chars)))}
Longest(vocab, ids) ==
  CHOOSE id \in ids :
    \A other \in ids : \/ Len(vocab[other]) < Len(vocab[id])
                       \/ Len(vocab[other]) = Len(vocab[id]) /\ id <= other

\* Left to right, the longest token that fits; a marker no token has is
\* skipped; 0 where a character has no token.
encode_phrase(vocab, words) ==
  LET chars == Marked(words)
      from[i \in 1 .. Len(chars) + 1] ==
        IF i > Len(chars) THEN <<>>
        ELSE LET ids == Fitting(vocab, chars, i)
                 id == Longest(vocab, ids)
             IN CASE ids # {} -> <<id>> \o from[i + Len(vocab[id])]
                  [] ids = {} /\ chars[i] = Marker -> from[i + 1]
                  [] OTHER -> <<0>>
  IN from[1]

Encodes(ids) == ids # <<>> /\ 0 \notin Range(ids)

\* As it is spelled, in lower case, without its diaeresis: the first that the
\* vocabulary can represent, no ids when none can be.
Respell(words, f) == [w \in DOMAIN words |-> [c \in DOMAIN words[w] |-> f[words[w][c]]]]
encode_representable(vocab, words) ==
  LET lower == Respell(words, Lower)
      tries == <<encode_phrase(vocab, words), encode_phrase(vocab, lower),
                 encode_phrase(vocab, Respell(lower, Fold))>>
      found == {k \in 1 .. 3 : Encodes(tries[k])}
  IN IF found = {} THEN <<>> ELSE tries[Min(found)]

\* The phrases with a weight that can be spelled, compiled with one boost.
from_phrases(vocab, asked, boost) ==
  LET weighted == {p \in asked : p.weight > 0}
      ids == {encode_representable(vocab, p.words) : p \in weighted}
  IN [phrases |-> IF boost > 0 THEN ids \ {<<>>} ELSE {}, boost |-> boost]

----------------------------------------------------------------------------
(* The trie.                                                               *)

Root == <<>>
Nodes(g) == UNION {{SubSeq(p, 1, k) : k \in 0 .. Len(p)} : p \in g.phrases} \cup {Root}
IsEnd(g, node) == node \in g.phrases

\* The first token of a phrase is taken for the marker, and is not paid for.
IsEntry(node) == Len(node) = 1
ScoredLength(p) == Max({Len(p) - 1, 1})
ShortestPhrase(g, node) == Min({ScoredLength(p) : p \in {q \in g.phrases : IsPrefix(node, q)}})
Grant(g, node) == IF IsEntry(node) THEN 0 ELSE g.boost \div ShortestPhrase(g, node)

Child(g, node, tok) == Append(node, tok) \in Nodes(g)
Starts(g) == {p[1] : p \in g.phrases}
Follows(g, node) == {n[Len(n)] : n \in {m \in Nodes(g) : m # Root /\ Front(m) = node}}

----------------------------------------------------------------------------
(* What a greedy decoder asks: which tokens to boost, and where the phrases*)
(* are after a token.                                                      *)

boost_logits(g, active, tok) ==
  g.boost * Cardinality({node \in active : Child(g, node, tok) /\ ~IsEntry(Append(node, tok))})

\* Phrases under way go on, and none may start after the first token.
AdvanceOnly(g, active, tok) == {Append(node, tok) : node \in {n \in active : Child(g, n, tok)}}

advance(g, active, tok) ==
  {Append(node, tok) : node \in {n \in active : Child(g, n, tok)}} \cup {Root}

----------------------------------------------------------------------------
(* What a beam asks.  A path is the node it is in and what it was granted  *)
(* for the phrase it has not finished.                                     *)

AtRoot == [node |-> Root, pending |-> 0]

Enter(g, path, tok) ==
  LET node == Append(path.node, tok)
      share == Grant(g, node)
  IN [delta |-> share,
      path |-> [node |-> node, pending |-> IF IsEnd(g, node) THEN 0 ELSE path.pending + share]]

\* What an abandoned phrase was granted stays.
ScoreKeeps(g, path, tok) ==
  IF Child(g, path.node, tok) THEN Enter(g, path, tok)
  ELSE IF Child(g, Root, tok) THEN Enter(g, AtRoot, tok)
       ELSE [delta |-> 0, path |-> AtRoot]

\* The phrase goes on; or it is left, what it was granted is taken back, and
\* another one may start with the same token.
score_token(g, path, tok) ==
  IF Child(g, path.node, tok) THEN Enter(g, path, tok)
  ELSE LET next == IF Child(g, Root, tok) THEN Enter(g, AtRoot, tok)
                   ELSE [delta |-> 0, path |-> AtRoot]
       IN [next EXCEPT !.delta = @ - path.pending]

continuations(g, path) == Follows(g, path.node) \cup IF path.node = Root THEN {} ELSE Starts(g)
=============================================================================
