---------------------------- MODULE QueueLemmas -----------------------------
(***************************************************************************)
(* Facts about sequences.  As a FIFO queue without duplicates: what        *)
(* popping the front, pushing at the back and cutting off a prefix do to   *)
(* the set of its elements and to their being distinct (the VecDeques of   *)
(* the program: idle items, waiters, queued job ids).  Joined, flattened   *)
(* and added up, over data of any length: induction is done by a set of    *)
(* naturals that, if it lacks one, lacks a least one (Inductive).          *)
(***************************************************************************)
EXTENDS Integers, Sequences, SequencesExt, Functions, SequenceTheorems, WellFoundedInduction,
        TLAPS

\* pop_front takes one element out of the set of queued elements and leaves a
\* queue without duplicates without it (VecDeque::pop_front).
LEMMA PopFront ==
  ASSUME NEW S, NEW s \in Seq(S), s # <<>>
  PROVE  /\ Head(s) \in S
         /\ Tail(s) \in Seq(S)
         /\ Range(s) = {Head(s)} \cup Range(Tail(s))
         /\ IsInjective(s) => IsInjective(Tail(s)) /\ Head(s) \notin Range(Tail(s))
<1> DEFINE t == Tail(s)
<1>1. /\ Len(s) \in Nat \ {0} /\ DOMAIN s = 1..Len(s) /\ Head(s) = s[1]
      /\ t \in Seq(S) /\ Len(t) = Len(s) - 1 /\ DOMAIN t = 1..Len(t)
      /\ \A i \in 1..Len(t) : t[i] = s[i + 1]
  BY EmptySeq, LenProperties, HeadTailProperties
<1>2. Head(s) \in S
  BY HeadTailProperties
<1>3. Range(s) = {Head(s)} \cup Range(t)
  <2>1. ASSUME NEW x \in Range(s) PROVE x \in {Head(s)} \cup Range(t)
    <3>1. PICK k \in 1..Len(s) : x = s[k]
      BY <1>1 DEF Range
    <3>2. CASE k = 1
      BY <1>1, <3>1, <3>2
    <3>3. CASE k # 1
      <4>1. k - 1 \in 1..Len(t) /\ t[k - 1] = x
        BY <1>1, <3>1, <3>3
      <4> QED BY <1>1, <4>1 DEF Range
    <3> QED BY <3>2, <3>3
  <2>2. ASSUME NEW x \in {Head(s)} \cup Range(t) PROVE x \in Range(s)
    <3>1. CASE x = Head(s)
      BY <1>1, <3>1 DEF Range
    <3>2. CASE x \in Range(t)
      <4>1. PICK k \in 1..Len(t) : x = t[k]
        BY <1>1, <3>2 DEF Range
      <4>2. k + 1 \in 1..Len(s) /\ s[k + 1] = x
        BY <1>1, <4>1
      <4> QED BY <1>1, <4>2 DEF Range
    <3> QED BY <2>2, <3>1, <3>2
  <2> QED BY <2>1, <2>2
<1>4. ASSUME IsInjective(s) PROVE IsInjective(t) /\ Head(s) \notin Range(t)
  <2>1. \A i, j \in 1..Len(s) : s[i] = s[j] => i = j
    BY <1>1, <1>4 DEF IsInjective
  <2>2. IsInjective(t)
    <3>1. ASSUME NEW i \in 1..Len(t), NEW j \in 1..Len(t), t[i] = t[j] PROVE i = j
      <4>1. i + 1 \in 1..Len(s) /\ j + 1 \in 1..Len(s) /\ s[i + 1] = s[j + 1]
        BY <1>1, <3>1
      <4> QED BY <2>1, <4>1
    <3> QED BY <1>1, <3>1 DEF IsInjective
  <2>3. ASSUME NEW k \in 1..Len(t) PROVE t[k] # Head(s)
    <3>1. k + 1 \in 1..Len(s) /\ 1 \in 1..Len(s) /\ k + 1 # 1 /\ t[k] = s[k + 1]
      BY <1>1
    <3> QED BY <1>1, <2>1, <3>1
  <2> QED BY <1>1, <2>2, <2>3 DEF Range
<1> QED BY <1>1, <1>2, <1>3, <1>4

\* push_back of a new element adds it to the queued elements and keeps the
\* queue free of duplicates (VecDeque::push_back).
LEMMA PushBack ==
  ASSUME NEW S, NEW s \in Seq(S), NEW e \in S
  PROVE  /\ Append(s, e) \in Seq(S)
         /\ Range(Append(s, e)) = Range(s) \cup {e}
         /\ IsInjective(s) /\ e \notin Range(s) => IsInjective(Append(s, e))
<1> DEFINE t == Append(s, e)
<1>1. /\ Len(s) \in Nat /\ DOMAIN s = 1..Len(s)
      /\ t \in Seq(S) /\ Len(t) = Len(s) + 1 /\ DOMAIN t = 1..Len(t)
      /\ \A i \in 1..Len(s) : t[i] = s[i]
      /\ t[Len(s) + 1] = e
  BY LenProperties, AppendProperties
<1>2. \A i \in 1..Len(t) : i \in 1..Len(s) \/ i = Len(s) + 1
  BY <1>1
<1>3. Range(t) = Range(s) \cup {e}
  <2>1. \A i \in 1..Len(s) : i \in 1..Len(t)
    BY <1>1
  <2>2. Len(s) + 1 \in 1..Len(t)
    BY <1>1
  <2> QED BY <1>1, <1>2, <2>1, <2>2 DEF Range
<1>4. ASSUME IsInjective(s), e \notin Range(s) PROVE IsInjective(t)
  <2>1. \A i, j \in 1..Len(s) : s[i] = s[j] => i = j
    BY <1>1, <1>4 DEF IsInjective
  <2>2. \A i \in 1..Len(s) : s[i] # e
    BY <1>1, <1>4 DEF Range
  <2> QED BY <1>1, <1>2, <2>1, <2>2 DEF IsInjective
<1> HIDE DEF t
<1> QED BY <1>1, <1>3, <1>4 DEF t

\* Taking the first k elements splits the queued elements in two and leaves a
\* queue without duplicates (the pop_front loop of try_checkout_n).
LEMMA CutPrefix ==
  ASSUME NEW S, NEW s \in Seq(S), NEW k \in 0..Len(s)
  PROVE  /\ SubSeq(s, k + 1, Len(s)) \in Seq(S)
         /\ {s[j] : j \in 1..k} \subseteq S
         /\ Range(s) = {s[j] : j \in 1..k} \cup Range(SubSeq(s, k + 1, Len(s)))
         /\ IsInjective(s) => /\ IsInjective(SubSeq(s, k + 1, Len(s)))
                              /\ {s[j] : j \in 1..k}
                                   \cap Range(SubSeq(s, k + 1, Len(s))) = {}
<1> DEFINE n == Len(s)
           t == SubSeq(s, k + 1, n)
           p == {s[j] : j \in 1..k}
<1>1. n \in Nat /\ k \in Nat /\ k <= n /\ DOMAIN s = 1..n /\ \A i \in 1..n : s[i] \in S
  BY LenProperties, ElementOfSeq
<1>2. /\ t \in Seq(S) /\ Len(t) = n - k
      /\ \A i \in 1..(n - k) : t[i] = s[k + i]
  <2>1. \A i \in k + 1..n : s[i] \in S
    BY <1>1
  <2>2. /\ t \in Seq(S)
        /\ Len(t) = IF k + 1 <= n THEN n - (k + 1) + 1 ELSE 0
        /\ \A i \in 1..(n - (k + 1) + 1) : t[i] = s[(k + 1) + i - 1]
    <3>1. k + 1 \in Int /\ n \in Int
      BY <1>1
    <3> HIDE DEF n
    <3> QED BY <2>1, <3>1, SubSeqProperties
  <2>3. n - (k + 1) + 1 = n - k /\ (~(k + 1 <= n) => n - k = 0)
    <3> HIDE DEF n, t, p
    <3> QED BY <1>1
  <2>4. \A i \in 1..(n - k) : (k + 1) + i - 1 = k + i
    BY <1>1
  <2> HIDE DEF t, n
  <2> QED BY <1>1, <2>2, <2>3, <2>4
<1>3. DOMAIN t = 1..(n - k)
  BY <1>2, LenProperties
<1> HIDE DEF t, n
<1>4. \A i \in 1..n : i \in 1..k \/ (i - k \in 1..(n - k) /\ t[i - k] = s[i])
  BY <1>1, <1>2
<1>5. \A i \in 1..(n - k) : k + i \in 1..n /\ k + i \notin 1..k /\ t[i] = s[k + i]
  BY <1>1, <1>2
<1>6. \A j \in 1..k : j \in 1..n
  BY <1>1
<1>7. p \subseteq S
  BY <1>1, <1>6
<1>8. Range(s) = p \cup Range(t)
  <2>1. ASSUME NEW x \in Range(s) PROVE x \in p \cup Range(t)
    <3>1. PICK i \in 1..n : x = s[i]
      BY <1>1 DEF Range
    <3> QED BY <1>3, <1>4, <3>1 DEF Range
  <2>2. ASSUME NEW x \in p \cup Range(t) PROVE x \in Range(s)
    BY <1>1, <1>3, <1>5, <1>6 DEF Range
  <2> QED BY <2>1, <2>2
<1>9. ASSUME IsInjective(s) PROVE IsInjective(t) /\ p \cap Range(t) = {}
  <2>1. \A i, j \in 1..n : s[i] = s[j] => i = j
    BY <1>1, <1>9 DEF IsInjective
  <2>2. IsInjective(t)
    <3>1. ASSUME NEW i \in 1..(n - k), NEW j \in 1..(n - k), t[i] = t[j] PROVE i = j
      <4>1. k + i = k + j
        BY <1>5, <2>1, <3>1
      <4> QED BY <1>1, <4>1
    <3> QED BY <1>3, <3>1 DEF IsInjective
  <2>3. \A j \in 1..k, i \in 1..(n - k) : s[j] # t[i]
    BY <1>5, <1>6, <2>1
  <2> QED BY <1>3, <2>2, <2>3 DEF Range
<1> QED BY <1>2, <1>7, <1>8, <1>9 DEF t, n

-----------------------------------------------------------------------------
(* Short sequences, element by element.                                    *)

\* What is left behind the front.
LEMMA TailIs ==
  ASSUME NEW S, NEW s \in Seq(S), s # <<>>
  PROVE  /\ Len(s) \in Nat \ {0} /\ Head(s) = s[1] /\ s[1] \in S
         /\ Tail(s) \in Seq(S) /\ Len(Tail(s)) = Len(s) - 1
         /\ \A k \in 1..Len(Tail(s)) : Tail(s)[k] = s[k + 1]
OBVIOUS

\* What is there once something is pushed behind.
LEMMA AppendIs ==
  ASSUME NEW S, NEW s \in Seq(S), NEW e \in S
  PROVE  /\ Append(s, e) \in Seq(S) /\ Len(Append(s, e)) = Len(s) + 1 /\ Len(s) \in Nat
         /\ Append(s, e)[Len(s) + 1] = e
         /\ \A k \in 1..Len(s) : Append(s, e)[k] = s[k]
OBVIOUS

LEMMA NoElement ==
  ASSUME NEW S, NEW s \in Seq(S)
  PROVE  Len(s) = 0 <=> s = <<>>
OBVIOUS

LEMMA OneElement ==
  ASSUME NEW S, NEW s \in Seq(S), NEW e \in S
  PROVE  s = <<e>> <=> Len(s) = 1 /\ s[1] = e
<1>1. <<e>> \in Seq(S) /\ Len(<<e>>) = 1 /\ <<e>>[1] = e
  OBVIOUS
<1> QED BY <1>1, SeqEqual

LEMMA TwoElements ==
  ASSUME NEW S, NEW s \in Seq(S), NEW e \in S, NEW f \in S
  PROVE  s = <<e, f>> <=> Len(s) = 2 /\ s[1] = e /\ s[2] = f
<1>1. <<e, f>> \in Seq(S) /\ Len(<<e, f>>) = 2 /\ <<e, f>>[1] = e /\ <<e, f>>[2] = f
  OBVIOUS
<1> QED BY <1>1, SeqEqual

LEMMA TailOfOne ==
  ASSUME NEW S, NEW s \in Seq(S), Len(s) = 1
  PROVE  Tail(s) = <<>>
<1> DEFINE t == Tail(s)
<1>1. s # <<>>
  OBVIOUS
<1>2. t \in Seq(S) /\ Len(t) = Len(s) - 1
  BY <1>1, TailIs
<1> HIDE DEF t
<1>3. t = <<>>
  BY <1>2, NoElement
<1> QED BY <1>3 DEF t

LEMMA TailOfTwo ==
  ASSUME NEW S, NEW s \in Seq(S), Len(s) = 2
  PROVE  Tail(s) = <<s[2]>> /\ s[2] \in S
<1> DEFINE t == Tail(s)
<1>1. s # <<>> /\ s[2] \in S
  OBVIOUS
<1>2. t \in Seq(S) /\ Len(t) = Len(s) - 1 /\ \A k \in 1..Len(t) : t[k] = s[k + 1]
  BY <1>1, TailIs
<1> HIDE DEF t
<1>3. Len(t) = 1 /\ t[1] = s[2]
  BY <1>2
<1>4. t = <<s[2]>>
  BY <1>1, <1>2, <1>3, OneElement
<1> QED BY <1>1, <1>4 DEF t

LEMMA TailOfThree ==
  ASSUME NEW S, NEW s \in Seq(S), Len(s) = 3
  PROVE  Tail(s) = <<s[2], s[3]>> /\ s[2] \in S /\ s[3] \in S
<1> DEFINE t == Tail(s)
<1>1. s # <<>> /\ s[2] \in S /\ s[3] \in S
  OBVIOUS
<1>2. t \in Seq(S) /\ Len(t) = Len(s) - 1 /\ \A k \in 1..Len(t) : t[k] = s[k + 1]
  BY <1>1, TailIs
<1> HIDE DEF t
<1>3. Len(t) = 2 /\ t[1] = s[2] /\ t[2] = s[3]
  BY <1>2
<1>4. t = <<s[2], s[3]>>
  BY <1>1, <1>2, <1>3, TwoElements
<1> QED BY <1>1, <1>4 DEF t

LEMMA AppendToOne ==
  ASSUME NEW S, NEW s \in Seq(S), NEW e \in S, NEW f \in S, s = <<e>>
  PROVE  Append(s, f) = <<e, f>>
<1> DEFINE a == Append(s, f)
<1>1. Len(s) = 1 /\ s[1] = e
  OBVIOUS
<1>2. a \in Seq(S) /\ Len(a) = Len(s) + 1 /\ a[Len(s) + 1] = f /\ a[1] = s[1]
  BY <1>1
<1> HIDE DEF a
<1>3. Len(a) = 2 /\ a[1] = e /\ a[2] = f
  BY <1>1, <1>2
<1>4. a = <<e, f>>
  BY <1>2, <1>3, TwoElements
<1> QED BY <1>4 DEF a

LEMMA AppendToNone ==
  ASSUME NEW S, NEW s \in Seq(S), NEW e \in S, s = <<>>
  PROVE  Append(s, e) = <<e>>
<1> DEFINE a == Append(s, e)
<1>1. Len(s) = 0
  OBVIOUS
<1>2. a \in Seq(S) /\ Len(a) = Len(s) + 1 /\ a[Len(s) + 1] = e
  BY <1>1
<1> HIDE DEF a
<1>3. Len(a) = 1 /\ a[1] = e
  BY <1>1, <1>2
<1>4. a = <<e>>
  BY <1>2, <1>3, OneElement
<1> QED BY <1>4 DEF a

-----------------------------------------------------------------------------
(* Induction, and joining sequences of sequences.                          *)

\* Any nonempty set of naturals has a least element.
LEMMA LeastExists ==
  ASSUME NEW T \in SUBSET Nat, T # {}
  PROVE  \E n \in T : \A m \in T : n <= m
<1> DEFINE R == OpToRel(<, Nat)
<1>1. IsWellFoundedOn(R, Nat)
  BY NatLessThanWellFounded
<1>2. \A i, j \in Nat : <<i, j>> \in R <=> i < j
  BY DEF OpToRel
<1> HIDE DEF R
<1>3. PICK x \in T : \A y \in T : ~ (<<y, x>> \in R)
  BY <1>1, WFMin
<1>4. \A y \in T : ~(y < x)
  BY <1>2, <1>3
<1> QED
  BY <1>4

\* Induction, for a set: this is how a fact about a recursive definition is shown.
LEMMA Inductive ==
  ASSUME NEW G, 0 \in G, \A n \in Nat : n \in G => n + 1 \in G
  PROVE  Nat \subseteq G
<1> SUFFICES ASSUME Nat \ G # {} PROVE FALSE
  OBVIOUS
<1>1. PICK n \in Nat \ G : \A m \in Nat \ G : n <= m
  BY LeastExists
<1>2. n - 1 \in Nat /\ n - 1 \in G
  BY <1>1
<1> QED
  BY <1>1, <1>2

-----------------------------------------------------------------------------
(* Joining sequences of sequences.                                         *)

\* What FlattenSeq recurses to.
Joins(f, seqs) ==
  f = [i \in 1 .. Len(seqs) |-> IF i = 1 THEN seqs[i] ELSE f[i - 1] \o seqs[i]]

\* There is such a function, so CHOOSE finds it.
LEMMA JoinExists ==
  ASSUME NEW seqs, Len(seqs) \in Nat
  PROVE  \E f : Joins(f, seqs)
<1> DEFINE Upto(f, n) == f = [i \in 1 .. n |-> IF i = 1 THEN seqs[i] ELSE f[i - 1] \o seqs[i]]
           Has(n) == \E f : Upto(f, n)
           G == {n \in Nat : Has(n)}
<1>1. 0 \in G
  <2> DEFINE e == [i \in 1 .. 0 |-> seqs[i]]
  <2>1. Upto(e, 0)
    OBVIOUS
  <2> QED
    BY <2>1
<1>2. ASSUME NEW n \in Nat, n \in G PROVE n + 1 \in G
  <2>1. PICK f : Upto(f, n)
    BY <1>2
  <2> DEFINE g == [i \in 1 .. n + 1 |-> IF i = n + 1 THEN (IF i = 1 THEN seqs[i] ELSE f[n] \o seqs[i])
                                        ELSE f[i]]
  <2>2. ASSUME NEW i \in 1 .. n + 1 PROVE g[i] = IF i = 1 THEN seqs[i] ELSE g[i - 1] \o seqs[i]
    <3>1. CASE i = n + 1
      <4>1. i # 1 => i - 1 = n /\ i - 1 \in 1 .. n + 1 /\ i - 1 # n + 1
        BY <3>1
      <4> QED
        BY <3>1, <4>1
    <3>2. CASE i # n + 1
      <4>1. i \in 1 .. n /\ g[i] = f[i]
        BY <3>2
      <4>2. f[i] = IF i = 1 THEN seqs[i] ELSE f[i - 1] \o seqs[i]
        BY <2>1, <4>1
      <4>3. i # 1 => i - 1 \in 1 .. n + 1 /\ i - 1 # n + 1 /\ g[i - 1] = f[i - 1]
        BY <4>1
      <4> QED
        BY <4>1, <4>2, <4>3
    <3> QED
      BY <3>1, <3>2
  <2>3. Upto(g, n + 1)
    BY <2>2
  <2> HIDE DEF g
  <2>4. Has(n + 1)
    BY <2>3
  <2> HIDE DEF Has
  <2> QED
    BY <2>4
<1>3. Nat \subseteq G
  <2> HIDE DEF G
  <2> QED
    BY <1>1, <1>2, Inductive
<1>4. \E f : Upto(f, Len(seqs))
  BY <1>3
<1> QED
  BY <1>4 DEF Joins

\* It is what its recursion says.
LEMMA JoinsStep ==
  ASSUME NEW seqs, NEW f, Joins(f, seqs), NEW i \in 1 .. Len(seqs)
  PROVE  f[i] = IF i = 1 THEN seqs[i] ELSE f[i - 1] \o seqs[i]
<1> DEFINE e == [k \in 1 .. Len(seqs) |-> IF k = 1 THEN seqs[k] ELSE f[k - 1] \o seqs[k]]
<1>1. f = e
  BY DEF Joins
<1>2. e[i] = IF i = 1 THEN seqs[i] ELSE f[i - 1] \o seqs[i]
  OBVIOUS
<1> HIDE DEF e
<1> QED
  BY <1>1, <1>2

\* FlattenSeq is its last value.
LEMMA JoinedIs ==
  ASSUME NEW seqs, Len(seqs) \in Nat \ {0}
  PROVE  \E f : Joins(f, seqs) /\ FlattenSeq(seqs) = f[Len(seqs)]
<1> DEFINE C == CHOOSE f : Joins(f, seqs)
<1>1. Joins(C, seqs)
  BY JoinExists
<1>2. FlattenSeq(seqs) = C[Len(seqs)]
  BY DEF FlattenSeq, Joins
<1> HIDE DEF C
<1> QED
  BY <1>1, <1>2

\* The one begins with the other.
Begins(more, seqs) ==
  /\ Len(seqs) \in Nat /\ Len(more) \in Nat /\ Len(seqs) <= Len(more)
  /\ \A i \in 1 .. Len(seqs) : more[i] = seqs[i]

\* The joins of a prefix do not depend on what follows.
LEMMA JoinsAgree ==
  ASSUME NEW seqs, NEW more, Begins(more, seqs),
         NEW f, Joins(f, seqs), NEW g, Joins(g, more), NEW i \in 1 .. Len(seqs)
  PROVE  g[i] = f[i]
<1> USE DEF Begins
<1> DEFINE G == {n \in Nat : n \in 1 .. Len(seqs) => g[n] = f[n]}
<1>1. 0 \in G
  OBVIOUS
<1>2. ASSUME NEW n \in Nat, n \in G PROVE n + 1 \in G
  <2> SUFFICES ASSUME n + 1 \in 1 .. Len(seqs) PROVE g[n + 1] = f[n + 1]
    OBVIOUS
  <2>1. /\ f[n + 1] = IF n + 1 = 1 THEN seqs[n + 1] ELSE f[n + 1 - 1] \o seqs[n + 1]
        /\ g[n + 1] = IF n + 1 = 1 THEN more[n + 1] ELSE g[n + 1 - 1] \o more[n + 1]
    <3>1. n + 1 \in 1 .. Len(more)
      OBVIOUS
    <3> QED
      BY <3>1, JoinsStep
  <2>2. n + 1 # 1 => n + 1 - 1 = n /\ n \in 1 .. Len(seqs) /\ g[n] = f[n]
    BY <1>2
  <2> QED
    BY <2>1, <2>2
<1>3. Nat \subseteq G
  <2> HIDE DEF G
  <2> QED
    BY <1>1, <1>2, Inductive
<1> QED
  BY <1>3

\* Sequences over a set join to a sequence over it.
LEMMA FlattenTyped ==
  ASSUME NEW S, NEW seqs \in Seq(Seq(S)), NEW f, Joins(f, seqs)
  PROVE  \A i \in 1 .. Len(seqs) : f[i] \in Seq(S)
<1> DEFINE G == {n \in Nat : n \in 1 .. Len(seqs) => f[n] \in Seq(S)}
<1>1. 0 \in G
  OBVIOUS
<1>2. ASSUME NEW n \in Nat, n \in G PROVE n + 1 \in G
  <2> SUFFICES ASSUME n + 1 \in 1 .. Len(seqs) PROVE f[n + 1] \in Seq(S)
    OBVIOUS
  <2>1. f[n + 1] = IF n + 1 = 1 THEN seqs[n + 1] ELSE f[n + 1 - 1] \o seqs[n + 1]
    BY JoinsStep
  <2>2. n + 1 # 1 => n + 1 - 1 = n /\ n \in 1 .. Len(seqs) /\ f[n] \in Seq(S)
    BY <1>2
  <2>3. seqs[n + 1] \in Seq(S)
    OBVIOUS
  <2> QED
    BY <2>1, <2>2, <2>3
<1>3. Nat \subseteq G
  <2> HIDE DEF G
  <2> QED
    BY <1>1, <1>2, Inductive
<1> QED
  BY <1>3

\* What is appended last is joined last.
LEMMA FlattenAppend ==
  ASSUME NEW S, NEW seqs \in Seq(Seq(S)), NEW x \in Seq(S)
  PROVE  /\ FlattenSeq(Append(seqs, x)) = FlattenSeq(seqs) \o x
         /\ FlattenSeq(seqs) \in Seq(S)
<1> DEFINE more == Append(seqs, x)
<1>1. /\ more \in Seq(Seq(S)) /\ Len(more) = Len(seqs) + 1 /\ more[Len(seqs) + 1] = x
      /\ \A i \in 1 .. Len(seqs) : more[i] = seqs[i]
  OBVIOUS
<1> HIDE DEF more
<1>2. PICK g : Joins(g, more) /\ FlattenSeq(more) = g[Len(more)]
  BY <1>1, JoinedIs
<1>3. g[Len(more)] = IF Len(more) = 1 THEN x ELSE g[Len(more) - 1] \o x
  <2>1. Len(more) \in 1 .. Len(more)
    BY <1>1
  <2> QED
    BY <2>1, <1>1, <1>2, JoinsStep
<1>4. CASE Len(seqs) = 0
  <2>1. FlattenSeq(seqs) = <<>> /\ <<>> \in Seq(S) /\ <<>> \o x = x
    BY <1>4 DEF FlattenSeq
  <2> QED
    BY <2>1, <1>1, <1>2, <1>3, <1>4 DEF more
<1>5. CASE Len(seqs) # 0
  <2>1. PICK f : Joins(f, seqs) /\ FlattenSeq(seqs) = f[Len(seqs)]
    BY <1>5, JoinedIs
  <2>2. \A i \in 1 .. Len(seqs) : g[i] = f[i]
    <3>1. Begins(more, seqs)
      BY <1>1 DEF Begins
    <3> QED
      BY <3>1, <1>2, <2>1, JoinsAgree
  <2>3. g[Len(seqs)] = f[Len(seqs)] /\ f[Len(seqs)] \in Seq(S)
    BY <1>5, <2>1, <2>2, FlattenTyped
  <2>4. Len(more) # 1 /\ Len(more) - 1 = Len(seqs)
    BY <1>1, <1>5
  <2>5. FlattenSeq(more) = FlattenSeq(seqs) \o x
    BY <1>2, <1>3, <2>1, <2>3, <2>4
  <2> QED
    BY <2>1, <2>3, <2>5 DEF more
<1> QED
  BY <1>4, <1>5

-----------------------------------------------------------------------------
(* Adding up a sequence of numbers.                                        *)

SumFrom(base, counts) == FoldLeft(LAMBDA n, m : n + m, base, counts)

\* What FoldLeft recurses to, over the first n numbers.
Added(it, base, counts, s) ==
  IF s = {} THEN base ELSE LET x == Max(s) IN it[s \ {x}] + counts[x]
Adds(it, base, counts, n) == it = [s \in SUBSET (1 .. n) |-> Added(it, base, counts, s)]

\* FoldLeft takes the numbers from the last one on: the largest index first.
LEMMA MaxIs ==
  ASSUME NEW s \in SUBSET Int, NEW m \in s, \A x \in s : x <= m
  PROVE  Max(s) = m
<1>1. \A y \in s : (\A x \in s : x <= y) => y = m
  OBVIOUS
<1> QED
  BY <1>1 DEF Max

\* The largest index of a prefix, and what is left of the prefix without it.
LEMMA LastOf ==
  ASSUME NEW k \in Nat
  PROVE  /\ Max(1 .. k + 1) = k + 1 /\ 1 .. k + 1 # {}
         /\ (1 .. k + 1) \ {k + 1} = 1 .. k
<1> DEFINE s == 1 .. k + 1
<1>1. s \in SUBSET Int /\ k + 1 \in s /\ \A x \in s : x <= k + 1
  OBVIOUS
<1>2. s \ {k + 1} = 1 .. k
  OBVIOUS
<1> HIDE DEF s
<1>3. Max(s) = k + 1
  BY <1>1, MaxIs
<1> QED
  BY <1>1, <1>2, <1>3 DEF s

\* The sum over a prefix is that over the prefix before it and its last number.
LEMMA AddsStep ==
  ASSUME NEW base, NEW counts, NEW n, NEW it, Adds(it, base, counts, n), NEW s \in SUBSET (1 .. n)
  PROVE  it[s] = Added(it, base, counts, s)
<1> DEFINE e == [r \in SUBSET (1 .. n) |-> Added(it, base, counts, r)]
<1>1. it = e
  BY DEF Adds
<1>2. e[s] = Added(it, base, counts, s)
  OBVIOUS
<1> HIDE DEF e
<1> QED
  BY <1>1, <1>2

\* There is such a function, so CHOOSE finds it.
LEMMA AddsExists ==
  ASSUME NEW base, NEW counts, NEW n \in Nat
  PROVE  \E it : Adds(it, base, counts, n)
<1> DEFINE Has(k) == \E it : Adds(it, base, counts, k)
           G == {k \in Nat : Has(k)}
<1>1. 0 \in G
  <2> DEFINE e == [s \in SUBSET (1 .. 0) |-> base]
  <2>1. \A s \in SUBSET (1 .. 0) : Added(e, base, counts, s) = base
    BY DEF Added
  <2>2. Adds(e, base, counts, 0)
    BY <2>1 DEF Adds
  <2>3. Has(0)
    BY <2>2
  <2> HIDE DEF Has
  <2> QED
    BY <2>3
<1>2. ASSUME NEW k \in Nat, k \in G PROVE k + 1 \in G
  <2>1. PICK f : Adds(f, base, counts, k)
    BY <1>2
  <2> DEFINE g == [s \in SUBSET (1 .. k + 1) |->
                     IF k + 1 \in s THEN f[s \ {k + 1}] + counts[k + 1] ELSE f[s]]
  <2>2. ASSUME NEW s \in SUBSET (1 .. k + 1) PROVE g[s] = Added(g, base, counts, s)
    <3>1. CASE k + 1 \in s
      <4>1. Max(s) = k + 1
        BY <3>1, MaxIs
      <4>2. s \ {k + 1} \in SUBSET (1 .. k + 1) /\ g[s \ {k + 1}] = f[s \ {k + 1}]
        OBVIOUS
      <4>3. g[s] = f[s \ {k + 1}] + counts[k + 1]
        BY <3>1
      <4> HIDE DEF g
      <4> QED
        BY <3>1, <4>1, <4>2, <4>3 DEF Added
    <3>2. CASE k + 1 \notin s
      <4>1. s \in SUBSET (1 .. k)
        BY <3>2
      <4>2. f[s] = Added(f, base, counts, s)
        BY <2>1, <4>1, AddsStep
      <4>3. g[s] = f[s] /\ g[s \ {Max(s)}] = f[s \ {Max(s)}]
        BY <3>2
      <4> HIDE DEF g
      <4> QED
        BY <4>2, <4>3 DEF Added
    <3> QED
      BY <3>1, <3>2
  <2>3. g = [s \in SUBSET (1 .. k + 1) |-> Added(g, base, counts, s)]
    <3>1. \A s \in SUBSET (1 .. k + 1) : g[s] = Added(g, base, counts, s)
      BY <2>2
    <3>2. g = [s \in SUBSET (1 .. k + 1) |-> g[s]]
      OBVIOUS
    <3> HIDE DEF g
    <3> QED
      BY <3>1, <3>2
  <2> HIDE DEF g
  <2>4. Has(k + 1)
    BY <2>3 DEF Adds
  <2> HIDE DEF Has
  <2> QED
    BY <2>4
<1>3. Nat \subseteq G
  <2> HIDE DEF G
  <2> QED
    BY <1>1, <1>2, Inductive
<1> QED
  BY <1>3

\* FoldLeft is that sum over all numbers.
LEMMA SumIs ==
  ASSUME NEW base, NEW counts, NEW n \in Nat, DOMAIN counts = 1 .. n
  PROVE  \E it : Adds(it, base, counts, n) /\ SumFrom(base, counts) = it[1 .. n]
<1> DEFINE C == CHOOSE it : it = [s \in SUBSET DOMAIN counts |-> Added(it, base, counts, s)]
<1>1. C = [s \in SUBSET DOMAIN counts |-> Added(C, base, counts, s)]
  <2>1. PICK it : Adds(it, base, counts, n)
    BY AddsExists
  <2>2. it = [s \in SUBSET DOMAIN counts |-> Added(it, base, counts, s)]
    BY <2>1 DEF Adds
  <2> QED
    BY <2>2
<1>2. SumFrom(base, counts) = C[DOMAIN counts]
  BY DEF SumFrom, FoldLeft, MapThenFoldSet, Added
<1> HIDE DEF C
<1> QED
  BY <1>1, <1>2 DEF Adds

\* The first n numbers of both are the same.
Shares(more, counts, n, m) == n <= m /\ \A i \in 1 .. n : more[i] = counts[i]

\* The sum over a prefix does not look behind it.
LEMMA AddsAgree ==
  ASSUME NEW base, NEW counts, NEW more, NEW n \in Nat, NEW m \in Nat, Shares(more, counts, n, m),
         NEW f, Adds(f, base, counts, n), NEW g, Adds(g, base, more, m)
  PROVE  g[1 .. n] = f[1 .. n]
<1> USE DEF Shares
<1> DEFINE G == {k \in Nat : k <= n => g[1 .. k] = f[1 .. k]}
<1>1. 0 \in G
  <2>1. 1 .. 0 = {} /\ 1 .. 0 \in SUBSET (1 .. n) /\ 1 .. 0 \in SUBSET (1 .. m)
    OBVIOUS
  <2>2. f[1 .. 0] = Added(f, base, counts, 1 .. 0) /\ g[1 .. 0] = Added(g, base, more, 1 .. 0)
    BY <2>1, AddsStep
  <2>3. f[1 .. 0] = base /\ g[1 .. 0] = base
    BY <2>1, <2>2 DEF Added
  <2> QED
    BY <2>3
<1>2. ASSUME NEW k \in Nat, k \in G PROVE k + 1 \in G
  <2> SUFFICES ASSUME k + 1 <= n PROVE g[1 .. k + 1] = f[1 .. k + 1]
    OBVIOUS
  <2>1. Max(1 .. k + 1) = k + 1
    BY LastOf
  <2>2. 1 .. k + 1 # {} /\ (1 .. k + 1) \ {k + 1} = 1 .. k
    BY LastOf
  <2>3. 1 .. k + 1 \in SUBSET (1 .. n) /\ 1 .. k + 1 \in SUBSET (1 .. m)
    OBVIOUS
  <2>4. /\ f[1 .. k + 1] = Added(f, base, counts, 1 .. k + 1)
        /\ g[1 .. k + 1] = Added(g, base, more, 1 .. k + 1)
    BY <2>3, AddsStep
  <2>5. f[1 .. k] = g[1 .. k] /\ more[k + 1] = counts[k + 1]
    BY <1>2
  <2>6. /\ f[1 .. k + 1] = f[1 .. k] + counts[k + 1]
        /\ g[1 .. k + 1] = g[1 .. k] + more[k + 1]
    BY <2>1, <2>2, <2>4 DEF Added
  <2> QED
    BY <2>5, <2>6
<1>3. Nat \subseteq G
  <2> HIDE DEF G
  <2> QED
    BY <1>1, <1>2, Inductive
<1> QED
  BY <1>3

\* One number more.
LEMMA SumGrows ==
  ASSUME NEW base, NEW S, NEW counts \in Seq(S), NEW c \in S
  PROVE  /\ SumFrom(base, <<>>) = base
         /\ SumFrom(base, Append(counts, c)) = SumFrom(base, counts) + c
<1> DEFINE more == Append(counts, c)
           n == Len(counts)
<1>1. /\ n \in Nat /\ n + 1 \in Nat /\ DOMAIN counts = 1 .. n /\ DOMAIN more = 1 .. n + 1
      /\ more[n + 1] = c /\ \A i \in 1 .. n : more[i] = counts[i]
  OBVIOUS
<1> HIDE DEF more, n
<1>2. PICK f : Adds(f, base, counts, n) /\ SumFrom(base, counts) = f[1 .. n]
  BY <1>1, SumIs
<1>3. PICK g : Adds(g, base, more, n + 1) /\ SumFrom(base, more) = g[1 .. n + 1]
  BY <1>1, SumIs
<1>4. g[1 .. n] = f[1 .. n]
  <2>1. Shares(more, counts, n, n + 1)
    BY <1>1 DEF Shares
  <2> QED
    BY <1>1, <1>2, <1>3, <2>1, AddsAgree
<1>5. g[1 .. n + 1] = g[1 .. n] + c
  <2>1. Max(1 .. n + 1) = n + 1
    BY <1>1, LastOf
  <2>2. 1 .. n + 1 # {} /\ (1 .. n + 1) \ {n + 1} = 1 .. n
    BY <1>1, LastOf
  <2>3. g[1 .. n + 1] = Added(g, base, more, 1 .. n + 1)
    BY <1>1, <1>3, AddsStep
  <2> QED
    BY <1>1, <2>1, <2>2, <2>3 DEF Added
<1>6. SumFrom(base, <<>>) = base
  <2> DEFINE none == <<>>
  <2>1. DOMAIN none = 1 .. 0 /\ 1 .. 0 = {}
    OBVIOUS
  <2> HIDE DEF none
  <2>2. PICK h : Adds(h, base, none, 0) /\ SumFrom(base, none) = h[1 .. 0]
    BY <2>1, SumIs
  <2>3. h[1 .. 0] = Added(h, base, none, 1 .. 0)
    BY <2>2, AddsStep
  <2> QED
    BY <2>1, <2>2, <2>3 DEF Added, none
<1> QED
  BY <1>2, <1>3, <1>4, <1>5, <1>6 DEF more

\* A sum of numbers is a number.
LEMMA SumTyped ==
  ASSUME NEW base \in Int, NEW counts \in Seq(Int)
  PROVE  SumFrom(base, counts) \in Int
<1> DEFINE n == Len(counts)
<1>1. n \in Nat /\ DOMAIN counts = 1 .. n /\ \A i \in 1 .. n : counts[i] \in Int
  OBVIOUS
<1> HIDE DEF n
<1>2. PICK f : Adds(f, base, counts, n) /\ SumFrom(base, counts) = f[1 .. n]
  BY <1>1, SumIs
<1> DEFINE G == {k \in Nat : k <= n => f[1 .. k] \in Int}
<1>3. 0 \in G
  <2>1. 1 .. 0 = {} /\ 1 .. 0 \in SUBSET (1 .. n)
    OBVIOUS
  <2>2. f[1 .. 0] = Added(f, base, counts, 1 .. 0)
    BY <1>2, <2>1, AddsStep
  <2> QED
    BY <2>1, <2>2 DEF Added
<1>4. ASSUME NEW k \in Nat, k \in G PROVE k + 1 \in G
  <2> SUFFICES ASSUME k + 1 <= n PROVE f[1 .. k + 1] \in Int
    BY <1>1
  <2>1. 1 .. k + 1 \in SUBSET (1 .. n) /\ k + 1 \in 1 .. n
    BY <1>1
  <2>2. f[1 .. k + 1] = Added(f, base, counts, 1 .. k + 1)
    BY <1>2, <2>1, AddsStep
  <2>3. f[1 .. k + 1] = f[1 .. k] + counts[k + 1]
    BY <2>2, LastOf DEF Added
  <2>4. f[1 .. k] \in Int
    BY <1>1, <1>4
  <2> QED
    BY <1>1, <2>1, <2>3, <2>4
<1>5. Nat \subseteq G
  <2> HIDE DEF G
  <2> QED
    BY <1>3, <1>4, Inductive
<1> QED
  BY <1>1, <1>2, <1>5

\* The partial sums, and where each sequence ends in the joined one.
RunningSums(off, counts) ==
  /\ off \in [0 .. Len(counts) -> Nat] /\ off[0] = 0
  /\ \A k \in 1 .. Len(counts) : off[k] = off[k - 1] + counts[k]

\* A sum is the last of its partial sums.
LEMMA SumOffsets ==
  ASSUME NEW counts \in Seq(Nat)
  PROVE  \E off : RunningSums(off, counts) /\ SumFrom(0, counts) = off[Len(counts)]
<1> DEFINE n == Len(counts)
<1>1. n \in Nat /\ DOMAIN counts = 1 .. n /\ \A i \in 1 .. n : counts[i] \in Nat
  OBVIOUS
<1>2. PICK f : Adds(f, 0, counts, n) /\ SumFrom(0, counts) = f[1 .. n]
  BY <1>1, SumIs
<1> DEFINE off == [k \in 0 .. n |-> f[1 .. k]]
<1> HIDE DEF n
<1>3. f[1 .. 0] = 0
  <2>1. 1 .. 0 = {} /\ 1 .. 0 \in SUBSET (1 .. n)
    OBVIOUS
  <2>2. f[1 .. 0] = Added(f, 0, counts, 1 .. 0)
    BY <1>2, <2>1, AddsStep
  <2> QED
    BY <2>1, <2>2 DEF Added
<1>4. ASSUME NEW k \in Nat, k + 1 <= n PROVE f[1 .. k + 1] = f[1 .. k] + counts[k + 1]
  <2>1. 1 .. k + 1 \in SUBSET (1 .. n)
    BY <1>1, <1>4
  <2>2. f[1 .. k + 1] = Added(f, 0, counts, 1 .. k + 1)
    BY <1>2, <2>1, AddsStep
  <2> QED
    BY <2>2, LastOf DEF Added
<1> DEFINE G == {k \in Nat : k <= n => f[1 .. k] \in Nat}
<1>5. 0 \in G
  BY <1>3
<1>6. ASSUME NEW k \in Nat, k \in G PROVE k + 1 \in G
  BY <1>1, <1>4, <1>6
<1>7. Nat \subseteq G
  <2> HIDE DEF G
  <2> QED
    BY <1>5, <1>6, Inductive
<1>8. off \in [0 .. n -> Nat] /\ off[0] = 0 /\ off[n] = f[1 .. n]
  BY <1>1, <1>3, <1>7
<1>9. \A k \in 1 .. n : off[k] = off[k - 1] + counts[k]
  <2> SUFFICES ASSUME NEW k \in 1 .. n PROVE off[k] = off[k - 1] + counts[k]
    OBVIOUS
  <2>1. k - 1 \in Nat /\ (k - 1) + 1 = k /\ k <= n /\ k - 1 \in 0 .. n /\ k \in 0 .. n
    BY <1>1
  <2>2. off[k] = f[1 .. k] /\ off[k - 1] = f[1 .. (k - 1)]
    BY <2>1
  <2>3. f[1 .. k] = f[1 .. (k - 1)] + counts[k]
    BY <1>4, <2>1
  <2> QED
    BY <2>2, <2>3
<1> HIDE DEF off
<1> QED
  BY <1>2, <1>8, <1>9 DEF RunningSums, n

LengthsOf(seqs) == [k \in DOMAIN seqs |-> Len(seqs[k])]

LEMMA LengthsAre ==
  ASSUME NEW S, NEW seqs \in Seq(Seq(S))
  PROVE  /\ LengthsOf(seqs) \in Seq(Nat) /\ Len(LengthsOf(seqs)) = Len(seqs)
         /\ \A k \in 1 .. Len(seqs) : LengthsOf(seqs)[k] = Len(seqs[k]) /\ Len(seqs[k]) \in Nat
                                       /\ seqs[k] \in Seq(S)
<1>1. /\ Len(seqs) \in Nat /\ DOMAIN seqs = 1 .. Len(seqs)
      /\ \A k \in 1 .. Len(seqs) : seqs[k] \in Seq(S) /\ Len(seqs[k]) \in Nat
  OBVIOUS
<1> DEFINE l == LengthsOf(seqs)
<1>2. l = [k \in 1 .. Len(seqs) |-> Len(seqs[k])]
  BY <1>1 DEF LengthsOf
<1> HIDE DEF l
<1>3. l \in Seq(Nat) /\ Len(l) = Len(seqs) /\ \A k \in 1 .. Len(seqs) : l[k] = Len(seqs[k])
  BY <1>1, <1>2
<1> QED
  BY <1>1, <1>3 DEF l

\* The first n sequences lie in w one behind the other, and nothing else does.
Spread(w, off, seqs, n) ==
  /\ Len(w) = off[n]
  /\ \A k \in 1 .. n : \A m \in 1 .. Len(seqs[k]) :
       off[k - 1] + m \in 1 .. off[n] /\ w[off[k - 1] + m] = seqs[k][m]
  /\ \A i \in 1 .. off[n] : \E k \in 1 .. n : \E m \in 1 .. Len(seqs[k]) : i = off[k - 1] + m

\* One sequence more.
LEMMA SpreadGrows ==
  ASSUME NEW S, NEW seqs \in Seq(Seq(S)), NEW off, RunningSums(off, LengthsOf(seqs)),
         NEW n \in Nat, n + 1 \in 1 .. Len(seqs), NEW w \in Seq(S), Spread(w, off, seqs, n),
         NEW x, x = w \o seqs[n + 1]
  PROVE  Spread(x, off, seqs, n + 1)
<1> DEFINE y == seqs[n + 1]
<1>1. y \in Seq(S) /\ Len(y) \in Nat /\ Len(w) \in Nat
  OBVIOUS
<1>2. DOMAIN seqs = 1 .. Len(seqs) /\ Len(LengthsOf(seqs)) = Len(seqs)
      /\ \A k \in 1 .. Len(seqs) : LengthsOf(seqs)[k] = Len(seqs[k]) /\ Len(seqs[k]) \in Nat
  BY DEF LengthsOf
<1>3. /\ off[n + 1] = off[n] + Len(y) /\ off[n] \in Nat /\ off[n] = Len(w)
      /\ \A k \in 0 .. n : off[k] \in Nat
  <2>1. \A k \in 0 .. Len(seqs) : off[k] \in Nat
    BY <1>2 DEF RunningSums
  <2>2. off[n + 1] = off[(n + 1) - 1] + LengthsOf(seqs)[n + 1]
    BY <1>2 DEF RunningSums
  <2>3. off[n] = Len(w)
    BY DEF Spread
  <2>4. (n + 1) - 1 = n /\ n \in 0 .. Len(seqs)
    BY <1>2
  <2>5. off[n + 1] = off[n] + Len(y)
    BY <1>2, <2>2, <2>4
  <2>6. \A k \in 0 .. n : k \in 0 .. Len(seqs)
    BY <2>4
  <2> HIDE DEF y
  <2> QED
    BY <2>1, <2>3, <2>4, <2>5, <2>6
<1>4. /\ x \in Seq(S) /\ Len(x) = Len(w) + Len(y)
      /\ \A i \in 1 .. Len(w) : x[i] = w[i]
      /\ \A m \in 1 .. Len(y) : x[Len(w) + m] = y[m]
  BY <1>1
<1> HIDE DEF y
<1>5. Len(x) = off[n + 1]
  BY <1>3, <1>4
<1>6. ASSUME NEW k \in 1 .. n + 1, NEW m \in 1 .. Len(seqs[k])
      PROVE  off[k - 1] + m \in 1 .. off[n + 1] /\ x[off[k - 1] + m] = seqs[k][m]
  <2>1. CASE k = n + 1
    <3>1. k - 1 = n /\ m \in 1 .. Len(y) /\ seqs[k] = y
      BY <2>1 DEF y
    <3>2. Len(y) \in Nat /\ x[off[n] + m] = y[m]
      BY <1>1, <1>3, <1>4, <3>1
    <3> DEFINE a == off[n]
               b == Len(y)
    <3>3. a \in Nat /\ b \in Nat /\ m \in 1 .. b /\ off[n + 1] = a + b
      BY <1>3, <3>1, <3>2
    <3> HIDE DEF a, b
    <3>4. a + m \in 1 .. a + b
      BY <3>3
    <3> QED
      BY <3>1, <3>2, <3>3, <3>4 DEF a
  <2>2. CASE k # n + 1
    <3>1. k \in 1 .. n
      BY <2>2
    <3>2. off[k - 1] + m \in 1 .. off[n] /\ w[off[k - 1] + m] = seqs[k][m]
      BY <3>1 DEF Spread
    <3>3. x[off[k - 1] + m] = w[off[k - 1] + m]
      BY <1>3, <1>4, <3>2
    <3> DEFINE a == off[n]
               b == Len(y)
               e == off[k - 1] + m
    <3>4. a \in Nat /\ b \in Nat /\ e \in 1 .. a /\ off[n + 1] = a + b
      BY <1>1, <1>3, <3>2
    <3> HIDE DEF a, b, e
    <3>5. e \in 1 .. a + b
      BY <3>4
    <3> QED
      BY <3>2, <3>3, <3>4, <3>5 DEF e
  <2> QED
    BY <2>1, <2>2
<1>7. ASSUME NEW i \in 1 .. off[n + 1]
      PROVE  \E k \in 1 .. n + 1 : \E m \in 1 .. Len(seqs[k]) : i = off[k - 1] + m
  <2>1. CASE i <= off[n]
    <3>1. i \in 1 .. off[n]
      BY <1>1, <1>3, <2>1
    <3>2. PICK k \in 1 .. n : \E m \in 1 .. Len(seqs[k]) : i = off[k - 1] + m
      BY <3>1 DEF Spread
    <3>3. k \in 1 .. n + 1
      OBVIOUS
    <3> QED
      BY <3>2, <3>3
  <2>2. CASE ~(i <= off[n])
    <3>1. i - off[n] \in 1 .. Len(y) /\ i = off[n] + (i - off[n])
      BY <1>1, <1>3, <2>2
    <3>2. n + 1 \in 1 .. n + 1 /\ (n + 1) - 1 = n
      OBVIOUS
    <3> QED
      BY <3>1, <3>2 DEF y
  <2> QED
    BY <2>1, <2>2
<1> QED
  BY <1>5, <1>6, <1>7 DEF Spread

\* Joined, they lie one behind the other.
LEMMA FlattenSpread ==
  ASSUME NEW S, NEW seqs \in Seq(Seq(S)), NEW off, RunningSums(off, LengthsOf(seqs))
  PROVE  FlattenSeq(seqs) \in Seq(S) /\ Spread(FlattenSeq(seqs), off, seqs, Len(seqs))
<1>1. Len(seqs) \in Nat /\ Len(LengthsOf(seqs)) = Len(seqs)
  BY DEF LengthsOf
<1>2. off[0] = 0
  BY DEF RunningSums
<1>3. ASSUME NEW w, w = <<>> PROVE Spread(w, off, seqs, 0)
  BY <1>2, <1>3 DEF Spread
<1>4. CASE Len(seqs) = 0
  <2>1. FlattenSeq(seqs) = <<>> /\ <<>> \in Seq(S)
    BY <1>4 DEF FlattenSeq
  <2> QED
    BY <1>3, <1>4, <2>1
<1>5. CASE Len(seqs) # 0
  <2>1. PICK f : Joins(f, seqs) /\ FlattenSeq(seqs) = f[Len(seqs)]
    BY <1>1, <1>5, JoinedIs
  <2>2. \A i \in 1 .. Len(seqs) : f[i] \in Seq(S)
    BY <2>1, FlattenTyped
  <2> DEFINE G == {n \in Nat : n + 1 \in 1 .. Len(seqs) => Spread(f[n + 1], off, seqs, n + 1)}
  <2>3. 0 \in G
    <3>1. 1 \in 1 .. Len(seqs)
      BY <1>1, <1>5
    <3>2. f[1] = seqs[1] /\ seqs[1] \in Seq(S)
      BY <2>1, <3>1, JoinsStep
    <3>3. f[1] = <<>> \o seqs[0 + 1] /\ <<>> \in Seq(S)
      BY <3>2
    <3> DEFINE none == <<>>
    <3>4. none \in Seq(S) /\ Spread(none, off, seqs, 0) /\ f[1] = none \o seqs[0 + 1]
      BY <1>3, <3>3
    <3> HIDE DEF none
    <3>5. 0 \in Nat /\ 0 + 1 \in 1 .. Len(seqs)
      BY <3>1
    <3>6. Spread(f[1], off, seqs, 0 + 1)
      BY <3>4, <3>5, SpreadGrows
    <3> QED
      BY <3>6
  <2>4. ASSUME NEW n \in Nat, n \in G PROVE n + 1 \in G
    <3> SUFFICES ASSUME (n + 1) + 1 \in 1 .. Len(seqs)
                 PROVE  Spread(f[(n + 1) + 1], off, seqs, (n + 1) + 1)
      OBVIOUS
    <3>1. n + 1 \in 1 .. Len(seqs) /\ (n + 1) + 1 # 1 /\ ((n + 1) + 1) - 1 = n + 1
      BY <1>1
    <3>2. f[(n + 1) + 1] = f[n + 1] \o seqs[(n + 1) + 1]
      <4> DEFINE i == (n + 1) + 1
      <4>1. i \in 1 .. Len(seqs) /\ i # 1 /\ i - 1 = n + 1
        BY <3>1
      <4> HIDE DEF i
      <4>2. f[i] = IF i = 1 THEN seqs[i] ELSE f[i - 1] \o seqs[i]
        BY <2>1, <4>1, JoinsStep
      <4> QED
        BY <4>1, <4>2 DEF i
    <3>3. Spread(f[n + 1], off, seqs, n + 1) /\ f[n + 1] \in Seq(S) /\ n + 1 \in Nat
      BY <2>2, <2>4, <3>1
    <3> QED
      BY <3>2, <3>3, SpreadGrows
  <2>5. Nat \subseteq G
    <3> HIDE DEF G
    <3> QED
      BY <2>3, <2>4, Inductive
  <2>6. Len(seqs) - 1 \in G /\ (Len(seqs) - 1) + 1 = Len(seqs) /\ Len(seqs) \in 1 .. Len(seqs)
    <3> DEFINE n == Len(seqs)
    <3>1. n \in Nat /\ n # 0
      BY <1>1, <1>5
    <3> HIDE DEF n, G
    <3>2. n - 1 \in Nat /\ (n - 1) + 1 = n /\ n \in 1 .. n
      BY <3>1
    <3> QED
      BY <2>5, <3>2 DEF n
  <2> QED
    BY <2>1, <2>2, <2>6
<1> QED
  BY <1>4, <1>5

\* Joined, they are as long as all of them.
LEMMA FlattenLength ==
  ASSUME NEW S, NEW seqs \in Seq(Seq(S))
  PROVE  FlattenSeq(seqs) \in Seq(S) /\ Len(FlattenSeq(seqs)) = SumFrom(0, LengthsOf(seqs))
<1>1. LengthsOf(seqs) \in Seq(Nat) /\ Len(LengthsOf(seqs)) = Len(seqs)
  BY DEF LengthsOf
<1>2. PICK off : RunningSums(off, LengthsOf(seqs)) /\ SumFrom(0, LengthsOf(seqs)) = off[Len(LengthsOf(seqs))]
  BY <1>1, SumOffsets
<1>3. FlattenSeq(seqs) \in Seq(S) /\ Spread(FlattenSeq(seqs), off, seqs, Len(seqs))
  BY <1>2, FlattenSpread
<1> QED
  BY <1>1, <1>2, <1>3 DEF Spread
=============================================================================
