------------------------------ MODULE CtcDecode -------------------------------
(***************************************************************************)
(* Decoding for the CTC heads (inference/ctc.rs): the greedy collapse, and *)
(* the prefix beam search that hotwords need.                              *)
(*                                                                         *)
(* A probability is a whole number: a frame gives every class a weight (0  *)
(* for impossible), sums of logarithms are products, a boost of n doubles  *)
(* n times.  Label 0 is the blank, the others index the vocabulary.        *)
(***************************************************************************)
EXTENDS Hotwords

CONSTANTS
  Lattices,    \* sequences of frames; a frame maps every class to its weight
  Glossaries,  \* compiled hotwords, {} phrases where there are none
  Widths       \* what the beam is cut to: BEAM_WIDTH and BEAM_TOP_K

VARIABLES
  frames,      \* the encoder's output
  glossary,    \* the glossary
  width,       \* a record: hypotheses kept, classes of a frame considered
  scanned,     \* frames decoded
  beams,       \* hypotheses, the likeliest first
  whole,       \* history: nothing has been left out so far
  best         \* what the decode returned: {} while it runs

beamVars == <<frames, glossary, width, scanned, beams, whole, best>>

Classes == DOMAIN frames[1]
Total(h) == h.p_blank + h.p_nonblank

Empty == [labels |-> <<>>, p_blank |-> 1, p_nonblank |-> 0, tokens |-> <<>>,
          bias |-> AtRoot, anchor |-> 1]

\* score_token, on a probability: 2^n, or a division that leaves no rest.
Scale(p, n) == IF n >= 0 THEN p * 2 ^ n ELSE p \div 2 ^ (-n)

\* The members of a set in an order that tells any two of them apart.
InOrder(set, Before(_, _)) ==
  [k \in 1 .. Cardinality(set) |->
     CHOOSE x \in set : Cardinality({y \in set : Before(y, x)}) = k - 1]

\* The heaviest k classes (of equals, any), the blank, what may go on with a phrase.
top_k(row, k) ==
  {c \in Classes : Cardinality({d \in Classes : \/ row[d] > row[c]
                                                \/ row[d] = row[c] /\ d < c}) < k}
Candidates(row) ==
  LET followed == UNION {continuations(glossary, beams[i].bias) : i \in DOMAIN beams}
  IN InOrder((top_k(row, width.classes) \cup {0} \cup followed) \cap Classes, <)

\* The hypothesis of some labels, in what the frame has made so far.
Slot(next, labels) == SelectInSeq(next, LAMBDA h : h.labels = labels)

\* The labels stay: the path ends in a blank, or repeats its last label.
merge(next, from, p, blank) ==
  LET i == Slot(next, from.labels)
      old == IF i # 0 THEN next[i] ELSE [from EXCEPT !.p_blank = 0, !.p_nonblank = 0]
      new == IF blank THEN [old EXCEPT !.p_blank = @ + p] ELSE [old EXCEPT !.p_nonblank = @ + p]
  IN IF i # 0 THEN [next EXCEPT ![i] = new] ELSE Append(next, new)

\* One label more; the alignment of the likelier contribution is kept.
merge_extension(next, from, c, p, bias, frame) ==
  LET labels == Append(from.labels, c)
      tokens == Append(from.tokens, [id |-> c, frame |-> frame])
      i == Slot(next, labels)
  IN CASE p = 0 -> next
       [] p # 0 /\ i = 0 ->
            Append(next, [labels |-> labels, p_blank |-> 0, p_nonblank |-> p, tokens |-> tokens,
                          bias |-> bias, anchor |-> p])
       [] OTHER ->
            [next EXCEPT ![i].p_nonblank = @ + p,
                         ![i].tokens = IF p > next[i].anchor THEN tokens ELSE @,
                         ![i].bias = IF p > next[i].anchor THEN bias ELSE @,
                         ![i].anchor = IF p > @ THEN p ELSE @]

\* What one hypothesis becomes with one class of the frame.
Extend(next, h, c, row, frame) ==
  LET scored == score_token(glossary, h.bias, c)
      longer(p, seq) ==
        merge_extension(seq, h, c, Scale(p * row[c], scored.delta), scored.path, frame)
  IN CASE row[c] = 0 -> next
       [] row[c] # 0 /\ c = 0 -> merge(next, h, Total(h) * row[c], TRUE)
       [] row[c] # 0 /\ c # 0 /\ h.labels # <<>> /\ Last(h.labels) = c ->
            longer(h.p_blank, merge(next, h, h.p_nonblank * row[c], FALSE))
       [] OTHER -> longer(Total(h), next)

Spread(row, frame) ==
  FoldLeft(LAMBDA next, h :
             FoldLeft(LAMBDA s, c : Extend(s, h, c, row, frame), next, Candidates(row)),
           <<>>, beams)

\* A stable sort, the likeliest first.
Sorted(hyps) ==
  LET Likelier(i, j) == \/ Total(hyps[i]) > Total(hyps[j])
                        \/ Total(hyps[i]) = Total(hyps[j]) /\ i < j
      rank == InOrder(DOMAIN hyps, Likelier)
  IN [k \in DOMAIN hyps |-> hyps[rank[k]]]

\* What was not earned is discounted before the winner is chosen.
settled_total(h, scale) == Scale(Total(h) * 2 ^ scale, - h.bias.pending)

BeamInit ==
  /\ frames \in Lattices
  /\ glossary \in Glossaries
  /\ width \in Widths
  /\ scanned = 0 /\ beams = <<Empty>> /\ whole = TRUE /\ best = {}

\* One frame, for every hypothesis and every candidate, then the cut.
BeamFrame ==
  /\ best = {} /\ scanned < Len(frames)
  /\ LET row == frames[scanned + 1]
         next == Spread(row, scanned)
     IN /\ next # <<>>
        /\ beams' = SubSeq(Sorted(next), 1, Min({Len(next), width.hypotheses}))
        /\ whole' = (/\ whole /\ Len(next) <= width.hypotheses
                     /\ {c \in Classes : row[c] > 0} \subseteq Range(Candidates(row)))
        /\ scanned' = scanned + 1
  /\ UNCHANGED <<frames, glossary, width, best>>

\* The end: all frames, an abort before one of them, or none left alive.
BeamEnd ==
  /\ best = {}
  /\ LET score(i) == settled_total(beams[i], glossary.boost)
     IN best' = {beams[Max({i \in DOMAIN beams : \A j \in DOMAIN beams : score(j) <= score(i)})]}
  /\ UNCHANGED <<frames, glossary, width, scanned, beams, whole>>

BeamNext == BeamFrame \/ BeamEnd

BeamSpec == BeamInit /\ [][BeamNext]_beamVars

----------------------------------------------------------------------------
(* Greedy: the heaviest class of every frame, collapsed.                   *)

argmax(row) ==
  CHOOSE c \in DOMAIN row : \A d \in DOMAIN row : row[d] < row[c] \/ (row[d] = row[c] /\ d <= c)

\* A frame whose class is that of the frame before says nothing new.
ctc_greedy_decode(rows) ==
  FoldLeft(LAMBDA s, k :
             LET id == argmax(rows[k])
             IN IF id = s.prev THEN s
                ELSE [prev |-> id, out |-> IF id = 0 THEN s.out
                                           ELSE Append(s.out, [id |-> id, frame |-> k - 1])],
           [prev |-> -1, out |-> <<>>], [k \in DOMAIN rows |-> k]).out

----------------------------------------------------------------------------
(* What CTC means: an alignment names a class for every frame, and its     *)
(* labels are what is left when repeats and then blanks are taken out.     *)

Alignments(n) == [1 .. n -> Classes]
LabelFrames(a) == {k \in DOMAIN a : a[k] # 0 /\ (k = 1 \/ a[k - 1] # a[k])}
Spells(a) == LET at == InOrder(LabelFrames(a), <)
             IN [k \in DOMAIN at |-> a[at[k]]]
Weight(a) == FoldLeft(LAMBDA p, k : p * frames[k][a[k]], 1, [k \in DOMAIN a |-> k])
Mass(n, labels, blank) ==
  FoldSet(LAMBDA a, sum : sum + Weight(a), 0,
          {a \in Alignments(n) : Spells(a) = labels /\ (n = 0 \/ a[n] = 0) = blank})

\* A glossary whose phrases cannot be confused: none begins inside another.
Distinct(g) ==
  \A n, m \in Nodes(g) \ {Root} : /\ n # m => ~IsSuffix(n, m)
                                  /\ IsEnd(g, n) => ~IsStrictPrefix(n, m)

\* Where a phrase was spoken, and how much of one is under way at the end.
Spoken(g, labels) ==
  {<<i, p>> \in (1 .. Len(labels)) \X g.phrases : IsSuffix(p, SubSeq(labels, 1, i))}
UnderWay(g, labels) ==
  LET nodes == {n \in Nodes(g) : IsSuffix(n, labels) /\ ~IsEnd(g, n)}
      node == CHOOSE n \in nodes : \A m \in nodes : Len(m) <= Len(n)
  IN FoldLeft(LAMBDA sum, k : sum + Grant(g, SubSeq(node, 1, k)), 0,
              [k \in DOMAIN node |-> k])

----------------------------------------------------------------------------
(* Properties.                                                             *)

\* The search computes what CTC means: as long as nothing was left out, a
\* hypothesis weighs what all the alignments of its labels weigh, those that
\* end in a blank apart from those that do not, however the frames merged
\* them; and the hotwords add one boost for every phrase spoken and the share
\* of one that is under way, what an abandoned phrase was granted is gone.
\* Where hypotheses were cut, none weighs more.
BeamIsExact ==
  \A i \in DOMAIN beams :
    LET h == beams[i]
        earned == glossary.boost * Cardinality(Spoken(glossary, h.labels))
                    + UnderWay(glossary, h.labels)
        exact(blank) == Scale(Mass(scanned, h.labels, blank), earned)
    IN Distinct(glossary) =>
         IF whole THEN h.p_blank = exact(TRUE) /\ h.p_nonblank = exact(FALSE)
         ELSE h.p_blank <= exact(TRUE) /\ h.p_nonblank <= exact(FALSE)

\* Every hypothesis is there once, and carries its own labels as tokens, at
\* frames that go forward.
TokensAreLabels ==
  \A i, j \in DOMAIN beams :
    /\ beams[i].labels = beams[j].labels => i = j
    /\ beams[i].labels = [k \in DOMAIN beams[i].tokens |-> beams[i].tokens[k].id]
    /\ \A k \in 2 .. Len(beams[i].tokens) :
         beams[i].tokens[k - 1].frame < beams[i].tokens[k].frame

\* The greedy decode is the collapse of the heaviest alignment.
GreedyCollapses ==
  LET heaviest == [k \in DOMAIN frames |-> argmax(frames[k])]
      out == ctc_greedy_decode(frames)
  IN /\ [k \in DOMAIN out |-> out[k].id] = Spells(heaviest)
     /\ {out[k].frame + 1 : k \in DOMAIN out} = LabelFrames(heaviest)

CtcIsExact == BeamIsExact /\ TokensAreLabels /\ GreedyCollapses
=============================================================================
