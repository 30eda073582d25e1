---------------------------- MODULE MetricsProofs ----------------------------
(***************************************************************************)
(* Proofs about Metrics, for any goroutines, requests, configurations,     *)
(* filters, sizes and bounds.                                              *)
(***************************************************************************)
EXTENDS Metrics, WellFoundedInduction, SequenceTheorems, TLAPS

-----------------------------------------------------------------------------
(* Induction and recursion, for sets and functions: a proof names the set  *)
(* of the numbers that have the property, and the function a step applies. *)

(* A set of natural numbers has a least one.                               *)
LEMMA LeastNumber ==
    ASSUME NEW T \in SUBSET Nat, T # {}
    PROVE  \E x \in T : \A y \in T : x <= y
<1>1. IsWellFoundedOn(OpToRel(<, Nat), Nat)
  BY NatLessThanWellFounded
<1>2. PICK x \in T : \A y \in T : <<y, x>> \notin OpToRel(<, Nat)
  BY <1>1, WFMin, Zenon
<1>3. \A y \in T : ~(y < x)
  BY <1>2 DEF OpToRel
<1> QED
  BY <1>3

(* Induction over the natural numbers.                                     *)
LEMMA SetInduction ==
    ASSUME NEW S, 0 \in S, \A n \in Nat : n \in S => n + 1 \in S
    PROVE  Nat \subseteq S
<1> DEFINE T == Nat \ S
<1> SUFFICES ASSUME T # {} PROVE FALSE
  OBVIOUS
<1>1. PICK x \in T : \A y \in T : x <= y
  BY LeastNumber
<1>2. \A y \in T : ~(y < x)
  BY <1>1
<1>3. x \in Nat /\ x # 0 /\ x \notin S
  OBVIOUS
<1>4. x - 1 \in Nat /\ x - 1 < x /\ (x - 1) + 1 = x
  BY <1>3
<1>5. x - 1 \in S
  BY <1>2, <1>4
<1> QED
  BY <1>3, <1>4, <1>5

(* A loop over an accumulator in X, which starts as b: g[i] is its value   *)
(* after the i-th of n rounds.                                             *)
IsLoop(g, n, X, b, F) ==
    /\ g \in [0..n -> X]
    /\ g[0] = b
    /\ \A i \in 1..n : g[i] = F[<<g[i - 1], i>>]

(* Every loop runs.                                                        *)
LEMMA Rounds ==
    \A X, b, n, F :
       b \in X /\ n \in Nat /\ F \in [X \X Nat -> X] => \E g : IsLoop(g, n, X, b, F)
<1> SUFFICES ASSUME NEW X, NEW b \in X, NEW n \in Nat, NEW F \in [X \X Nat -> X]
             PROVE  \E g : IsLoop(g, n, X, b, F)
  OBVIOUS
<1> USE DEF IsLoop
<1> DEFINE Done(m) == \E g : IsLoop(g, m, X, b, F)
           S == {m \in Nat : Done(m)}
<1>1. 0 \in S
  <2> DEFINE g == [i \in 0..0 |-> b]
  <2>1. g \in [0..0 -> X] /\ g[0] = b /\ \A i \in 1..0 : g[i] = F[<<g[i - 1], i>>]
    OBVIOUS
  <2> HIDE DEF g
  <2>2. Done(0)
    BY <2>1
  <2> QED
    BY <2>2
<1>2. ASSUME NEW m \in Nat, m \in S PROVE m + 1 \in S
  <2>1. PICK g : IsLoop(g, m, X, b, F)
    BY <1>2
  <2> DEFINE h == [i \in 0..(m + 1) |-> IF i = m + 1 THEN F[<<g[m], m + 1>>] ELSE g[i]]
  <2>2. F[<<g[m], m + 1>>] \in X
    BY <2>1
  <2>3. h \in [0..(m + 1) -> X] /\ h[0] = b
    BY <2>1, <2>2
  <2>4. ASSUME NEW i \in 1..(m + 1) PROVE h[i] = F[<<h[i - 1], i>>]
    <3>1. h[i - 1] = g[i - 1]
      OBVIOUS
    <3>2. CASE i = m + 1
      <4>1. i - 1 = m /\ h[i] = F[<<g[m], m + 1>>]
        BY <3>2
      <4> HIDE DEF h
      <4> QED
        BY <3>1, <3>2, <4>1
    <3>3. CASE i \in 1..m
      BY <2>1, <3>1, <3>3
    <3> QED
      BY <3>2, <3>3
  <2> HIDE DEF h
  <2>5. IsLoop(h, m + 1, X, b, F)
    BY <2>3, <2>4
  <2> QED
    BY <2>5
<1> HIDE DEF Done
<1>3. n \in S
  BY <1>1, <1>2, SetInduction
<1> QED
  BY <1>3 DEF Done

(* Two loops begin alike, and what is alike stays so:                      *)
Alike(g, h, m) == g[0] = h[0] /\ \A i \in 1..m : g[i - 1] = h[i - 1] => g[i] = h[i]

(* then they agree.                                                        *)
LEMMA SameRounds == \A m, g, h : m \in Nat /\ Alike(g, h, m) => \A i \in 0..m : g[i] = h[i]
<1> SUFFICES ASSUME NEW m \in Nat, NEW g, NEW h, g[0] = h[0],
                    \A i \in 1..m : g[i - 1] = h[i - 1] => g[i] = h[i]
             PROVE  \A i \in 0..m : g[i] = h[i]
  BY DEF Alike
<1> DEFINE S == {i \in Nat : i <= m => g[i] = h[i]}
<1>1. 0 \in S
  OBVIOUS
<1>2. ASSUME NEW i \in Nat, i \in S PROVE i + 1 \in S
  <2>1. i + 1 <= m => i + 1 \in 1..m /\ (i + 1) - 1 = i /\ i <= m
    OBVIOUS
  <2> QED
    BY <1>2, <2>1
<1>3. Nat \subseteq S
  BY <1>1, <1>2, SetInduction
<1> QED
  BY <1>3
-----------------------------------------------------------------------------
(* Sequences: their ranges, and what the three loops of the model compute. *)

(* A sequence, whatever its elements are.                                  *)
IsSeq(s) == Len(s) \in Nat /\ s = [i \in 1..Len(s) |-> s[i]]

(* It is a sequence over its range,                                        *)
LEMMA OverItsRange == ASSUME NEW s, IsSeq(s) PROVE s \in Seq(Range(s))
<1>1. Len(s) \in Nat /\ s = [i \in 1..Len(s) |-> s[i]]
  BY DEF IsSeq
<1>2. \A i \in 1..Len(s) : s[i] \in Range(s)
  BY <1>1 DEF Range
<1> QED
  BY <1>1, <1>2, IsASeq

(* and every sequence is one.                                              *)
LEMMA SeqIsSeq == ASSUME NEW S, NEW s \in Seq(S) PROVE IsSeq(s)
  BY DEF IsSeq

(* The empty sequence,                                                     *)
LEMMA EmptyIsSeq == IsSeq(<<>>)
  BY EmptySeq, SeqIsSeq

(* one more element,                                                       *)
LEMMA AppendIsSeq ==
    ASSUME NEW s, IsSeq(s), NEW x
    PROVE  IsSeq(Append(s, x)) /\ Len(Append(s, x)) = Len(s) + 1
<1>1. s \in Seq(Range(s) \cup {x})
  BY OverItsRange
<1>2. Append(s, x) \in Seq(Range(s) \cup {x}) /\ Len(Append(s, x)) = Len(s) + 1
  BY <1>1
<1> QED
  BY <1>2, SeqIsSeq

(* and one element replaced.                                               *)
LEMMA ExceptIsSeq ==
    ASSUME NEW s, IsSeq(s), NEW i, NEW x
    PROVE  IsSeq([s EXCEPT ![i] = x]) /\ Len([s EXCEPT ![i] = x]) = Len(s)
<1> DEFINE t == [s EXCEPT ![i] = x]
<1>1. s \in Seq(Range(s) \cup {x})
  BY OverItsRange
<1>2. Len(s) \in Nat /\ t \in [1..Len(s) -> Range(s) \cup {x}]
  <2>1. Len(s) \in Nat /\ s \in [1..Len(s) -> Range(s) \cup {x}]
    BY <1>1, LenProperties
  <2> HIDE DEF IsSeq
  <2> QED
    BY <2>1
<1> HIDE DEF t
<1>3. t \in Seq(Range(s) \cup {x}) /\ Len(t) = Len(s)
  BY <1>2
<1> QED
  BY <1>3, SeqIsSeq DEF t

(* The range of a concatenation, and of a sequence with one more.          *)
LEMMA RangeCat ==
    ASSUME NEW S, NEW s \in Seq(S), NEW t \in Seq(S)
    PROVE  Range(s \o t) = Range(s) \cup Range(t)
<1> DEFINE r == s \o t
<1>1. r \in Seq(S) /\ Len(r) = Len(s) + Len(t)
  OBVIOUS
<1>2. \A i \in 1..Len(s) : i \in 1..Len(r) /\ r[i] = s[i]
  OBVIOUS
<1>3. \A i \in 1..Len(t) : Len(s) + i \in 1..Len(r) /\ r[Len(s) + i] = t[i]
  OBVIOUS
<1>4. \A i \in 1..Len(r) : i \notin 1..Len(s) => i - Len(s) \in 1..Len(t) /\ r[i] = t[i - Len(s)]
  OBVIOUS
<1>5. DOMAIN r = 1..Len(r) /\ DOMAIN s = 1..Len(s) /\ DOMAIN t = 1..Len(t)
  OBVIOUS
<1> HIDE DEF r
<1>6. Range(r) \subseteq Range(s) \cup Range(t)
  BY <1>4, <1>2, <1>5 DEF Range
<1>7. Range(s) \subseteq Range(r)
  BY <1>2, <1>5 DEF Range
<1>8. Range(t) \subseteq Range(r)
  BY <1>3, <1>5 DEF Range
<1> QED
  BY <1>6, <1>7, <1>8 DEF r

(* One more element.                                                       *)
LEMMA RangeAppend ==
    ASSUME NEW S, NEW s \in Seq(S), NEW x \in S
    PROVE  Range(Append(s, x)) = Range(s) \cup {x}
<1> DEFINE r == Append(s, x)
<1>1. \A i \in 1..Len(s) : i \in 1..Len(r) /\ r[i] = s[i]
  OBVIOUS
<1>2. Len(r) = Len(s) + 1 /\ Len(r) \in 1..Len(r) /\ r[Len(r)] = x
  OBVIOUS
<1>3. \A i \in 1..Len(r) : i \in 1..Len(s) \/ i = Len(r)
  OBVIOUS
<1>4. DOMAIN r = 1..Len(r) /\ DOMAIN s = 1..Len(s)
  OBVIOUS
<1> HIDE DEF r
<1> QED
  BY <1>1, <1>2, <1>3, <1>4 DEF Range, r
(* A range of a stretch lies in the whole.                                 *)
LEMMA RangeSubSeq ==
    ASSUME NEW S, NEW s \in Seq(S), NEW m \in 1..(Len(s) + 1)
    PROVE  SubSeq(s, m, Len(s)) \in Seq(S) /\ Range(SubSeq(s, m, Len(s))) \subseteq Range(s)
<1> DEFINE r == SubSeq(s, m, Len(s))
<1>1. r \in Seq(S) /\ Len(r) = Len(s) - m + 1
  BY SubSeqProperties
<1>2. \A i \in 1..Len(r) : r[i] = s[m + i - 1] /\ m + i - 1 \in 1..Len(s)
  BY <1>1, SubSeqProperties
<1>3. DOMAIN r = 1..Len(r) /\ DOMAIN s = 1..Len(s)
  BY <1>1
<1> HIDE DEF r
<1>4. Range(r) \subseteq Range(s)
  BY <1>2, <1>3 DEF Range
<1> QED
  BY <1>1, <1>4 DEF r

(* What parseKey of the DogStatsd sink leaves is a sequence.               *)
LEMMA SplicedIsSeq ==
    ASSUME NEW key, IsSeq(key), NEW host
    PROVE  IsSeq(Spliced(key, host))
<1> DEFINE at == {i \in 1..Len(key) : key[i] = host}
           i == Min(at)
           a == SubSeq(key, 1, i - 1)
           b == SubSeq(key, i + 1, Len(key))
<1>0. Len(key) \in Nat /\ key \in Seq(Range(key))
  BY OverItsRange DEF IsSeq
<1>1. CASE at = {}
  BY <1>1 DEF Spliced
<1>2. CASE at # {}
  <2>1. at \in SUBSET Nat
    BY <1>0
  <2>2. \E x \in at : \A y \in at : x <= y
    BY <1>2, <2>1, LeastNumber
  <2>3. i \in at
    BY <2>2 DEF Min
  <2>4. i \in 1..Len(key)
    BY <2>3
  <2> HIDE DEF i
  <2>5. a \in Seq(Range(key)) /\ b \in Seq(Range(key))
    BY <1>0, <2>4, SubSeqProperties
  <2> HIDE DEF a, b
  <2>6. a \o b \in Seq(Range(key))
    BY <2>5
  <2>7. IsSeq(Append(a \o b, Last(key)))
    BY <2>6, SeqIsSeq, AppendIsSeq
  <2>8. Spliced(key, host) = Append(a \o b, Last(key))
    BY <1>2 DEF Spliced, RemoveAt, a, b, i
  <2> QED
    BY <2>7, <2>8
<1> QED
  BY <1>1, <1>2

(* filterLabels keeps the tags that are allowed: its result is not longer  *)
(* than its argument and has exactly those of its members; when all are    *)
(* allowed it is its argument.                                             *)
LEMMA FilterKeeps ==
    ASSUME NEW S, NEW tags \in Seq(S), NEW f
    PROVE  /\ filterLabels(f, tags) \in Seq(S)
           /\ Len(filterLabels(f, tags)) <= Len(tags)
           /\ Range(filterLabels(f, tags)) = {t \in Range(tags) : labelIsAllowed(f, t)}
           /\ (\A t \in Range(tags) : labelIsAllowed(f, t)) => filterLabels(f, tags) = tags
<1> DEFINE n == Len(tags)
           Ok(t) == labelIsAllowed(f, t)
           F == [p \in Seq(S) \X Nat |->
                   IF p[2] \in 1..n /\ Ok(tags[p[2]]) THEN Append(p[1], tags[p[2]]) ELSE p[1]]
           Loop(g) == [i \in 0..n |->
                         IF i = 0 THEN <<>>
                         ELSE IF Ok(tags[i]) THEN Append(g[i - 1], tags[i]) ELSE g[i - 1]]
           kept == CHOOSE g : g = Loop(g)
<1> HIDE DEF Ok
<1>n. n \in Nat
  OBVIOUS
<1>f. F \in [Seq(S) \X Nat -> Seq(S)]
  <2> SUFFICES ASSUME NEW p \in Seq(S) \X Nat
               PROVE  (IF p[2] \in 1..n /\ Ok(tags[p[2]]) THEN Append(p[1], tags[p[2]]) ELSE p[1]) \in Seq(S)
    OBVIOUS
  <2>1. p[1] \in Seq(S)
    OBVIOUS
  <2>2. p[2] \in 1..n => tags[p[2]] \in S
    OBVIOUS
  <2> QED
    BY <2>1, <2>2
<1>0. PICK g : IsLoop(g, n, Seq(S), <<>>, F)
  <2> HIDE DEF F, n
  <2>1. <<>> \in Seq(S)
    BY EmptySeq
  <2> QED
    BY <1>n, <1>f, <2>1, Rounds, Zenon
<1>1. /\ g \in [0..n -> Seq(S)] /\ g[0] = <<>>
      /\ \A i \in 1..n : g[i] = F[<<g[i - 1], i>>]
  BY <1>0, Zenon DEF IsLoop
<1>2. g = Loop(g)
  <2>1. ASSUME NEW i \in 1..n
        PROVE  g[i] = IF Ok(tags[i]) THEN Append(g[i - 1], tags[i]) ELSE g[i - 1]
    <3> HIDE DEF n
    <3>1. i \in Nat /\ i - 1 \in 0..n
      BY <1>n
    <3>2. g[i - 1] \in Seq(S)
      BY <1>1, <3>1
    <3>3. <<g[i - 1], i>> \in Seq(S) \X Nat
      BY <3>1, <3>2
    <3>4. F[<<g[i - 1], i>>] = IF i \in 1..n /\ Ok(tags[i]) THEN Append(g[i - 1], tags[i]) ELSE g[i - 1]
      BY <3>3
    <3> QED
      BY <1>1, <3>4
  <2> HIDE DEF n, F
  <2>2. ASSUME NEW i \in 0..n PROVE g[i] = Loop(g)[i]
    <3>1. CASE i = 0
      BY <1>n, <1>1, <3>1
    <3>2. CASE i \in 1..n
      BY <1>n, <2>1, <3>2
    <3> QED
      BY <1>n, <3>1, <3>2
  <2>3. DOMAIN g = 0..n /\ g = [i \in DOMAIN g |-> g[i]]
    BY <1>1
  <2> QED
    BY <2>2, <2>3
<1>3. kept = Loop(kept)
  <2> HIDE DEF Loop
  <2> QED
    BY <1>2
<1> HIDE DEF n, F, kept
<1>4. /\ kept[0] = <<>>
      /\ \A i \in 1..n : kept[i] = IF Ok(tags[i]) THEN Append(kept[i - 1], tags[i]) ELSE kept[i - 1]
  <2>1. ASSUME NEW i \in 0..n PROVE kept[i] = Loop(kept)[i]
    BY <1>3
  <2>2. 0 \in 0..n /\ \A i \in 1..n : i \in 0..n /\ i # 0
    BY <1>n
  <2> QED
    BY <2>1, <2>2
<1> HIDE DEF Loop
(* After i rounds, for every i.                                            *)
<1> DEFINE K == {i \in Nat : i <= n =>
                   /\ kept[i] \in Seq(S) /\ Len(kept[i]) <= i
                   /\ Range(kept[i]) = {t \in {tags[j] : j \in 1..i} : Ok(t)}}
<1>5. 0 \in K
  <2>1. kept[0] \in Seq(S) /\ Len(kept[0]) <= 0
    BY <1>4, EmptySeq
  <2>2. Range(kept[0]) = {}
    BY <1>4 DEF Range
  <2> QED
    BY <2>1, <2>2
<1>6. ASSUME NEW i \in Nat, i \in K PROVE i + 1 \in K
  <2> SUFFICES ASSUME i + 1 <= n
               PROVE  /\ kept[i + 1] \in Seq(S) /\ Len(kept[i + 1]) <= i + 1
                      /\ Range(kept[i + 1]) = {t \in {tags[j] : j \in 1..(i + 1)} : Ok(t)}
    OBVIOUS
  <2> DEFINE x == tags[i + 1]
             before == {tags[j] : j \in 1..i}
  <2>1. /\ kept[i] \in Seq(S) /\ Len(kept[i]) <= i
        /\ Range(kept[i]) = {t \in before : Ok(t)}
    BY <1>n, <1>6
  <2>2. kept[i + 1] = IF Ok(x) THEN Append(kept[i], x) ELSE kept[i]
    <3>1. i + 1 \in 1..n /\ (i + 1) - 1 = i
      BY <1>n
    <3> QED
      BY <1>4, <3>1
  <2>3. x \in S
    BY <1>n DEF n
  <2>4. {tags[j] : j \in 1..(i + 1)} = before \cup {x}
    OBVIOUS
  <2> HIDE DEF x, before, K
  <2>5. CASE Ok(x)
    <3>1. Range(kept[i + 1]) = Range(kept[i]) \cup {x}
      BY <2>1, <2>2, <2>3, <2>5, RangeAppend
    <3>2. kept[i + 1] \in Seq(S) /\ Len(kept[i + 1]) <= i + 1
      BY <2>1, <2>2, <2>3, <2>5
    <3> QED
      BY <2>1, <2>4, <2>5, <3>1, <3>2
  <2>6. CASE ~Ok(x)
    BY <2>1, <2>2, <2>4, <2>6
  <2> QED
    BY <2>5, <2>6
<1>7. Nat \subseteq K
  <2> HIDE DEF K
  <2> QED
    BY <1>5, <1>6, SetInduction
<1>8. filterLabels(f, tags) = kept[n]
  BY Zenon DEF filterLabels, kept, n, Loop, Ok
<1>9. {tags[j] : j \in 1..n} = Range(tags)
  BY DEF Range, n
<1>10. /\ kept[n] \in Seq(S) /\ Len(kept[n]) <= n
       /\ Range(kept[n]) = {t \in {tags[j] : j \in 1..n} : Ok(t)}
  <2>1. n \in K /\ n <= n
    BY <1>n, <1>7
  <2> QED
    BY <2>1, Zenon
<1> HIDE DEF K
(* When all are allowed: after i rounds the first i have been kept.        *)
<1>11. ASSUME \A t \in Range(tags) : Ok(t) PROVE kept[n] = tags
  <2> DEFINE A == {i \in Nat : i <= n =>
                     /\ kept[i] \in Seq(S) /\ Len(kept[i]) = i
                     /\ \A j \in 1..i : kept[i][j] = tags[j]}
  <2>1. 0 \in A
    <3>1. kept[0] \in Seq(S) /\ Len(kept[0]) = 0
      BY <1>4, EmptySeq
    <3>2. \A j \in 1..0 : kept[0][j] = tags[j]
      OBVIOUS
    <3> QED
      BY <3>1, <3>2
  <2>2. ASSUME NEW i \in Nat, i \in A PROVE i + 1 \in A
    <3> SUFFICES ASSUME i + 1 <= n
                 PROVE  /\ kept[i + 1] \in Seq(S) /\ Len(kept[i + 1]) = i + 1
                        /\ \A j \in 1..(i + 1) : kept[i + 1][j] = tags[j]
      OBVIOUS
    <3>1. kept[i] \in Seq(S) /\ Len(kept[i]) = i /\ \A j \in 1..i : kept[i][j] = tags[j]
      BY <1>n, <2>2
    <3>2. i + 1 \in 1..n /\ (i + 1) - 1 = i
      BY <1>n
    <3>3. tags[i + 1] \in S /\ Ok(tags[i + 1])
      <4>1. tags[i + 1] \in {tags[j] : j \in 1..n}
        BY <3>2
      <4> QED
        BY <1>9, <1>11, <3>2, <4>1 DEF n
    <3>4. kept[i + 1] = Append(kept[i], tags[i + 1])
      BY <1>4, <3>2, <3>3
    <3> HIDE DEF A
    <3>5. /\ Append(kept[i], tags[i + 1]) \in Seq(S) /\ Len(Append(kept[i], tags[i + 1])) = i + 1
          /\ \A j \in 1..(i + 1) : Append(kept[i], tags[i + 1])[j] = tags[j]
      BY <3>1, <3>3
    <3> QED
      BY <3>4, <3>5
  <2>3. Nat \subseteq A
    <3> HIDE DEF A
    <3> QED
      BY <2>1, <2>2, SetInduction
  <2>4. kept[n] \in Seq(S) /\ Len(kept[n]) = n /\ \A j \in 1..n : kept[n][j] = tags[j]
    BY <1>n, <2>3
  <2> HIDE DEF A
  <2>5. tags \in Seq(S) /\ Len(tags) = n
    BY DEF n
  <2> QED
    BY <2>4, <2>5, SeqEqual
<1> QED
  BY <1>8, <1>9, <1>10, <1>11, Zenon DEF n, Ok
(* The values a loop takes are all its own.                                *)
LEMMA OneLoop ==
    \A X, b, n, F, g, h :
       n \in Nat /\ IsLoop(g, n, X, b, F) /\ IsLoop(h, n, X, b, F) => g[n] = h[n]
<1> SUFFICES ASSUME NEW X, NEW b, NEW n \in Nat, NEW F, NEW g, NEW h,
                    IsLoop(g, n, X, b, F), IsLoop(h, n, X, b, F)
             PROVE  g[n] = h[n]
  OBVIOUS
<1>1. g[0] = h[0]
  BY DEF IsLoop
<1>2. \A i \in 1..n : g[i - 1] = h[i - 1] => g[i] = h[i]
  BY DEF IsLoop
<1>3. \A i \in 0..n : g[i] = h[i]
  BY <1>1, <1>2, SameRounds DEF Alike
<1> QED
  BY <1>3

(* One more round, in a loop that is the same so far.                      *)
SameSteps(g, n, F, G) == \A i \in 1..n : G[<<g[i - 1], i>>] = F[<<g[i - 1], i>>]

(* What a round makes of v, and what a loop can end with.                  *)
Round(G, v, i) == G[<<v, i>>]
Reaches(n, X, b, G, v) == \E h : IsLoop(h, n, X, b, G) /\ h[n] = v

(* The loop goes on from the value it had.                                 *)
LEMMA OneMoreRound ==
    \A X, b, n, F, G, g :
       n \in Nat /\ IsLoop(g, n, X, b, F) /\ SameSteps(g, n, F, G) /\ Round(G, g[n], n + 1) \in X
         => Reaches(n + 1, X, b, G, Round(G, g[n], n + 1))
<1> SUFFICES ASSUME NEW X, NEW b, NEW n \in Nat, NEW F, NEW G, NEW g,
                    IsLoop(g, n, X, b, F), SameSteps(g, n, F, G), G[<<g[n], n + 1>>] \in X
             PROVE  \E h : IsLoop(h, n + 1, X, b, G) /\ h[n + 1] = G[<<g[n], n + 1>>]
  BY DEF Round, Reaches
<1> DEFINE h == [i \in 0..(n + 1) |-> IF i = n + 1 THEN G[<<g[n], n + 1>>] ELSE g[i]]
<1>1. g \in [0..n -> X] /\ g[0] = b /\ \A i \in 1..n : g[i] = G[<<g[i - 1], i>>]
  BY DEF IsLoop, SameSteps
<1>2. h \in [0..(n + 1) -> X] /\ h[0] = b /\ h[n + 1] = G[<<g[n], n + 1>>]
  BY <1>1
<1>3. ASSUME NEW i \in 1..(n + 1) PROVE h[i] = G[<<h[i - 1], i>>]
  <2>1. h[i - 1] = g[i - 1]
    OBVIOUS
  <2>2. CASE i = n + 1
    <3>1. i - 1 = n /\ h[i] = G[<<g[n], n + 1>>]
      BY <2>2
    <3> HIDE DEF h
    <3> QED
      BY <2>1, <2>2, <3>1
  <2>3. CASE i \in 1..n
    BY <1>1, <2>1, <2>3
  <2> QED
    BY <2>2, <2>3
<1> HIDE DEF h
<1> QED
  BY <1>2, <1>3 DEF IsLoop

(* The metrics in the queue of the statsd sink.                            *)
Queued == [id : Nat, len : Nat]

(* Bytes adds up the lengths.                                              *)
AddLen(ms) == [p \in Nat \X Nat |-> p[1] + (IF p[2] \in 1..Len(ms) THEN ms[p[2]].len ELSE 0)]

(* It is the last value of its loop.                                       *)
LEMMA BytesLoop ==
    ASSUME NEW ms \in Seq(Queued)
    PROVE  \E g : IsLoop(g, Len(ms), Nat, 0, AddLen(ms)) /\ Bytes(ms) = g[Len(ms)]
<1> DEFINE n == Len(ms)
           F == AddLen(ms)
           Loop(g) == [i \in 0..n |-> IF i = 0 THEN 0 ELSE g[i - 1] + ms[i].len]
           sum == CHOOSE g : g = Loop(g)
<1>n. n \in Nat /\ \A i \in 1..n : ms[i] \in Queued
  OBVIOUS
<1>l. \A i \in 1..n : ms[i].len \in Nat
  BY <1>n DEF Queued
<1>f. F \in [Nat \X Nat -> Nat]
  <2> SUFFICES ASSUME NEW p \in Nat \X Nat
               PROVE  p[1] + (IF p[2] \in 1..n THEN ms[p[2]].len ELSE 0) \in Nat
    BY DEF AddLen
  <2>1. (IF p[2] \in 1..n THEN ms[p[2]].len ELSE 0) \in Nat
    BY <1>l
  <2> QED
    BY <2>1
<1>a. ASSUME NEW v \in Nat, NEW i \in 1..n PROVE F[<<v, i>>] = v + ms[i].len
  BY <1>n DEF AddLen
<1> HIDE DEF n, F
<1>0. PICK g : IsLoop(g, n, Nat, 0, F)
  BY <1>n, <1>f, Rounds
<1>1. g = Loop(g)
  <2>1. g \in [0..n -> Nat] /\ g[0] = 0 /\ \A i \in 1..n : g[i] = F[<<g[i - 1], i>>]
    BY <1>0 DEF IsLoop
  <2>2. ASSUME NEW i \in 1..n PROVE g[i] = g[i - 1] + ms[i].len
    <3>1. g[i - 1] \in Nat
      BY <1>n, <2>1
    <3> QED
      BY <1>a, <2>1, <3>1
  <2>3. ASSUME NEW i \in 0..n PROVE g[i] = Loop(g)[i]
    <3>1. CASE i = 0
      BY <1>n, <2>1, <3>1
    <3>2. CASE i \in 1..n
      BY <1>n, <2>2, <3>2
    <3> QED
      BY <1>n, <3>1, <3>2
  <2>4. DOMAIN g = 0..n /\ g = [i \in DOMAIN g |-> g[i]]
    BY <2>1
  <2> QED
    BY <2>3, <2>4
<1>2. sum = Loop(sum)
  <2> HIDE DEF Loop
  <2> QED
    BY <1>1
<1>3. Bytes(ms) = sum[n]
  BY Zenon DEF Bytes, n
<1> HIDE DEF sum
<1>4. sum[0] = 0 /\ \A i \in 1..n : sum[i] = sum[i - 1] + ms[i].len
  <2>1. ASSUME NEW i \in 0..n PROVE sum[i] = Loop(sum)[i]
    BY <1>2
  <2>2. 0 \in 0..n /\ \A i \in 1..n : i \in 0..n /\ i # 0
    BY <1>n
  <2> QED
    BY <2>1, <2>2
<1>5. g[0] = 0 /\ \A i \in 1..n : g[i] = g[i - 1] + ms[i].len
  <2>1. ASSUME NEW i \in 0..n PROVE g[i] = Loop(g)[i]
    BY <1>1
  <2>2. 0 \in 0..n /\ \A i \in 1..n : i \in 0..n /\ i # 0
    BY <1>n
  <2> QED
    BY <2>1, <2>2
<1>6. \A i \in 0..n : sum[i] = g[i]
  <2>1. n \in Nat /\ sum[0] = g[0]
    BY <1>n, <1>4, <1>5
  <2>2. \A i \in 1..n : sum[i - 1] = g[i - 1] => sum[i] = g[i]
    BY <1>4, <1>5
  <2> HIDE DEF sum, Loop
  <2>3. Alike(sum, g, n)
    BY <2>1, <2>2 DEF Alike
  <2> QED
    BY <2>1, <2>3, SameRounds
<1>7. Bytes(ms) = g[n]
  BY <1>n, <1>3, <1>6
<1> QED
  BY <1>0, <1>7 DEF n, F

(* It is 0 for an empty buffer, and one more metric adds its length.       *)
LEMMA BytesOfAppend ==
    ASSUME NEW ms \in Seq(Queued), NEW m \in Queued
    PROVE  Bytes(ms) \in Nat /\ Bytes(Append(ms, m)) = m.len + Bytes(ms)
<1> DEFINE n == Len(ms)
           r == Append(ms, m)
           F == AddLen(ms)
           G == AddLen(r)
<1>n. n \in Nat /\ r \in Seq(Queued) /\ Len(r) = n + 1 /\ r[n + 1] = m /\ \A i \in 1..n : r[i] = ms[i]
  OBVIOUS
<1>m. m.len \in Nat
  BY DEF Queued
<1>1. PICK g : IsLoop(g, n, Nat, 0, F) /\ Bytes(ms) = g[n]
  BY BytesLoop
<1>2. PICK h : IsLoop(h, n + 1, Nat, 0, G) /\ Bytes(r) = h[n + 1]
  <2> HIDE DEF r
  <2> QED
    BY <1>n, BytesLoop
<1>3. g \in [0..n -> Nat] /\ g[n] \in Nat
  BY <1>n, <1>1 DEF IsLoop
<1> HIDE DEF n, r
<1>4. ASSUME NEW v \in Nat, NEW i \in 1..n PROVE G[<<v, i>>] = F[<<v, i>>]
  BY <1>n DEF AddLen, n
<1>5. G[<<g[n], n + 1>>] = g[n] + m.len
  BY <1>n, <1>3 DEF AddLen
<1>6. SameSteps(g, n, F, G)
  BY <1>n, <1>3, <1>4 DEF SameSteps
<1> HIDE DEF F, G
<1>7. PICK k : IsLoop(k, n + 1, Nat, 0, G) /\ k[n + 1] = g[n] + m.len
  <2>1. Round(G, g[n], n + 1) \in Nat /\ Round(G, g[n], n + 1) = g[n] + m.len
    BY <1>m, <1>3, <1>5 DEF Round
  <2>2. Reaches(n + 1, Nat, 0, G, Round(G, g[n], n + 1))
    BY <1>n, <1>1, <1>6, <2>1, OneMoreRound
  <2> QED
    BY <2>1, <2>2 DEF Reaches
<1>8. h[n + 1] = k[n + 1]
  <2>1. n + 1 \in Nat
    BY <1>n
  <2> QED
    BY <2>1, <1>2, <1>7, OneLoop
<1> QED
  BY <1>m, <1>1, <1>2, <1>3, <1>5, <1>7, <1>8 DEF r
(* FlattenSeq concatenates the packets; Cat keeps \o away from the provers.*)
Cat(s, t) == s \o t
Packets == Seq(Queued)
AddPacket(w) == [p \in Packets \X Nat |-> IF p[2] \in 1..Len(w) THEN Cat(p[1], w[p[2]]) ELSE p[1]]

(* It is the last value of its loop.                                       *)
LEMMA FlattenLoop ==
    ASSUME NEW w \in Seq(Packets)
    PROVE  \E g : IsLoop(g, Len(w), Packets, <<>>, AddPacket(w)) /\ FlattenSeq(w) = g[Len(w)]
<1> DEFINE n == Len(w)
           F == AddPacket(w)
           Loop(g) == [i \in 1..n |-> IF i = 1 THEN w[i] ELSE g[i - 1] \o w[i]]
           flatten == CHOOSE g : g = Loop(g)
<1>n. n \in Nat /\ \A i \in 1..n : w[i] \in Packets
  OBVIOUS
<1>c. /\ \A s, t \in Packets : Cat(s, t) \in Packets
      /\ \A t \in Packets : Cat(<<>>, t) = t
      /\ <<>> \in Packets
  BY EmptySeq DEF Cat, Packets
<1>f. F \in [Packets \X Nat -> Packets]
  <2> SUFFICES ASSUME NEW p \in Packets \X Nat
               PROVE  (IF p[2] \in 1..n THEN Cat(p[1], w[p[2]]) ELSE p[1]) \in Packets
    BY DEF AddPacket
  <2> QED
    BY <1>n, <1>c
<1>a. ASSUME NEW v \in Packets, NEW i \in 1..n PROVE F[<<v, i>>] = Cat(v, w[i])
  BY <1>n DEF AddPacket
<1> HIDE DEF n, F, Packets
<1>0. PICK g : IsLoop(g, n, Packets, <<>>, F)
  BY <1>n, <1>f, <1>c, Rounds, Zenon
<1>1. g \in [0..n -> Packets] /\ g[0] = <<>> /\ \A i \in 1..n : g[i] = F[<<g[i - 1], i>>]
  BY <1>0, Zenon DEF IsLoop
<1>2. ASSUME NEW i \in 1..n PROVE g[i - 1] \in Packets /\ g[i] = Cat(g[i - 1], w[i])
  <2>1. g[i - 1] \in Packets
    BY <1>n, <1>1
  <2> QED
    BY <1>a, <1>1, <2>1
<1>3. CASE n = 0
  <2>1. FlattenSeq(w) = w
    BY <1>3, Zenon DEF FlattenSeq, n
  <2>2. w = <<>>
    BY <1>3 DEF n
  <2> QED
    BY <1>0, <1>1, <1>3, <2>1, <2>2 DEF n, F
<1>4. CASE n # 0
  <2> DEFINE h == [i \in 1..n |-> g[i]]
  <2>1. h = Loop(h)
    <3> SUFFICES ASSUME NEW i \in 1..n PROVE g[i] = Loop(h)[i]
      OBVIOUS
    <3>1. CASE i = 1
      BY <1>n, <1>c, <1>1, <1>2, <3>1
    <3>2. CASE i # 1
      <4>1. i - 1 \in 1..n
        BY <1>n, <3>2
      <4> QED
        BY <1>2, <3>2, <4>1 DEF Cat
    <3> QED
      BY <3>1, <3>2
  <2>2. flatten = Loop(flatten)
    <3> HIDE DEF Loop, h
    <3> QED
      BY <2>1
  <2>3. FlattenSeq(w) = flatten[n]
    BY <1>4, Zenon DEF FlattenSeq, n
  <2> HIDE DEF flatten, h
  <2>4. ASSUME NEW i \in 1..n
        PROVE  flatten[i] = IF i = 1 THEN w[i] ELSE Cat(flatten[i - 1], w[i])
    BY <2>2 DEF Cat
  <2> HIDE DEF Loop
  <2> DEFINE k == [i \in 0..n |-> IF i = 0 THEN <<>> ELSE flatten[i]]
  <2>5. \A i \in 0..n : k[i] = g[i]
    <3>1. k[0] = g[0]
      BY <1>n, <1>1
    <3>2. ASSUME NEW i \in 1..n, k[i - 1] = g[i - 1] PROVE k[i] = g[i]
      <4>1. k[i] = flatten[i] /\ (i # 1 => k[i - 1] = flatten[i - 1])
        BY <1>n
      <4>2. CASE i = 1
        <5>1. g[i] = Cat(<<>>, w[i]) /\ w[i] \in Packets
          BY <1>n, <1>1, <1>2, <4>2
        <5> HIDE DEF k
        <5> QED
          BY <1>c, <2>4, <4>1, <4>2, <5>1
      <4>3. CASE i # 1
        <5> HIDE DEF k
        <5> QED
          BY <1>2, <2>4, <3>2, <4>1, <4>3
      <4> QED
        BY <4>2, <4>3
    <3> HIDE DEF k
    <3>3. Alike(k, g, n)
      BY <3>1, <3>2 DEF Alike
    <3> QED
      BY <1>n, <3>3, SameRounds
  <2>6. k[n] = flatten[n]
    BY <1>n, <1>4
  <2>7. k[n] = g[n]
    BY <1>n, <2>5
  <2> HIDE DEF k
  <2> QED
    BY <1>0, <2>3, <2>6, <2>7 DEF n, F
<1> QED
  BY <1>3, <1>4

(* One more packet is put at the end.                                      *)
LEMMA FlattenAppend ==
    ASSUME NEW w \in Seq(Packets), NEW b \in Packets
    PROVE  FlattenSeq(w) \in Packets /\ FlattenSeq(Append(w, b)) = Cat(FlattenSeq(w), b)
<1> DEFINE n == Len(w)
           r == Append(w, b)
           F == AddPacket(w)
           G == AddPacket(r)
<1>n. n \in Nat /\ r \in Seq(Packets) /\ Len(r) = n + 1 /\ r[n + 1] = b /\ \A i \in 1..n : r[i] = w[i]
  OBVIOUS
<1>c. \A s, t \in Packets : Cat(s, t) \in Packets
  BY DEF Cat, Packets
<1>1. PICK g : IsLoop(g, n, Packets, <<>>, F) /\ FlattenSeq(w) = g[n]
  BY FlattenLoop, Zenon
<1>2. PICK h : IsLoop(h, n + 1, Packets, <<>>, G) /\ FlattenSeq(r) = h[n + 1]
  <2> HIDE DEF r
  <2>1. \E h : IsLoop(h, Len(r), Packets, <<>>, G) /\ FlattenSeq(r) = h[Len(r)]
    BY <1>n, FlattenLoop, Zenon
  <2> QED
    BY <1>n, <2>1, Zenon
<1> HIDE DEF Packets
<1>3. g \in [0..n -> Packets] /\ g[n] \in Packets
  <2>1. g \in [0..n -> Packets]
    BY <1>1, Zenon DEF IsLoop
  <2> QED
    BY <1>n, <2>1
<1> HIDE DEF n, r
<1>4. ASSUME NEW v \in Packets, NEW i \in 1..n PROVE G[<<v, i>>] = F[<<v, i>>]
  <2>1. G[<<v, i>>] = Cat(v, w[i])
    BY <1>n DEF AddPacket
  <2>2. F[<<v, i>>] = Cat(v, w[i])
    BY <1>n DEF AddPacket, n
  <2> QED
    BY <2>1, <2>2
<1>5. G[<<g[n], n + 1>>] = Cat(g[n], b)
  BY <1>n, <1>3 DEF AddPacket
<1>6. SameSteps(g, n, F, G)
  BY <1>n, <1>3, <1>4 DEF SameSteps
<1> HIDE DEF F, G
<1>7. PICK k : IsLoop(k, n + 1, Packets, <<>>, G) /\ k[n + 1] = Cat(g[n], b)
  <2>1. Round(G, g[n], n + 1) \in Packets /\ Round(G, g[n], n + 1) = Cat(g[n], b)
    BY <1>c, <1>3, <1>5 DEF Round
  <2>2. Reaches(n + 1, Packets, <<>>, G, Round(G, g[n], n + 1))
    BY <1>n, <1>1, <1>6, <2>1, OneMoreRound
  <2> QED
    BY <2>1, <2>2 DEF Reaches
<1>8. h[n + 1] = k[n + 1]
  <2>1. n + 1 \in Nat
    BY <1>n
  <2> QED
    BY <2>1, <1>2, <1>7, OneLoop
<1> QED
  BY <1>1, <1>2, <1>3, <1>5, <1>7, <1>8 DEF r
-----------------------------------------------------------------------------
(* The inductive invariant.                                                *)

(* The slice has the numbers of intervals made, rising.  It never gets     *)
(* shorter and at no index older, and whoever has been through getInterval *)
(* has found or made one: so what a reader will index is there, and what   *)
(* it indexed is no older than its copy says.                              *)
Rising(s, n) ==
    /\ s \in Seq(Nat)
    /\ \A i \in 1..Len(s) : s[i] \in 1..n
    /\ \A i, j \in 1..Len(s) : i < j => s[i] < s[j]

Later(s, t) ==
    /\ Len(s) <= Len(t)
    /\ \A i \in 1..Len(s) : s[i] <= t[i]
    /\ Len(s) >= 1 => s[Len(s)] <= t[Len(t)]

RdStates == [pc : {"idle", "existing", "create", "copy", "index", "reading", "returned"},
             intv : Int, data : Seq(Nat), ptr : Nat]

(* What a reader in state s relies on, t being the sink's slice.           *)
Readable(s, t) ==
    /\ s.pc = "copy" => Len(t) >= 1
    /\ s.pc = "index" => /\ Len(s.data) >= 1 /\ Len(s.data) <= Len(t)
                         /\ \A i \in 1..Len(s.data) : s.data[i] <= t[i]
    /\ s.pc = "reading" => /\ Len(t) >= 1
                           /\ s.ptr >= s.data[DisplayedIndex(Len(s.data))]
                           /\ Len(s.data) > 1 => s.ptr < t[Len(t)]

ReadInv ==
    /\ now \in Nat
    /\ IsSeq(heap) /\ Rising(intervals, Len(heap)) /\ Len(intervals) <= MaxIntervals
    /\ rd \in [Readers -> RdStates]
    /\ \A r \in Readers : Readable(rd[r], intervals)

(* The emitters: an emission has a number while it is in the sinks.        *)
Outside == {"idle", "call"}
InSinks == {"clock", "existing", "create", "update", "statsd", "prometheus", "dogstatsd"}
SinkOf(pc) == IF pc \in {"clock", "existing", "create", "update"} THEN "inmem" ELSE pc

IsCalls(cs) == IsSeq(cs) /\ \A i \in 1..Len(cs) : IsSeq(cs[i].key)
IsEm(s) ==
    /\ s = [pc |-> s.pc, calls |-> s.calls, tags |-> s.tags, steady |-> s.steady, arr |-> s.arr,
            key |-> s.key, labels |-> s.labels, id |-> s.id, intv |-> s.intv, ptr |-> s.ptr]
    /\ s.pc \in Outside \cup InSinks \cup {"panicked"}
    /\ s.arr \in Seq(Tags) /\ IsSeq(s.key) /\ IsSeq(s.labels) /\ IsCalls(s.calls)
    /\ s.id \in Nat /\ (s.id = 0 <=> s.pc \in Outside)
    /\ s.pc # "idle" => Len(s.calls) >= 1

EmInv ==
    /\ config \in Configs \cup {Blackhole}
    /\ config = Blackhole => filter = NoFilter
    /\ lastNumGC \in Nat
    /\ DOMAIN em = Emitters /\ \A e \in Emitters : IsEm(em[e])
    /\ \A e \in Emitters : em[e].pc \in InSinks => SinkOf(em[e].pc) \in Range(config.fanout)
    /\ \A e \in Emitters : em[e].id # 0 => config # Blackhole

(* filterLabels moves the tags in the array of the caller about, but those *)
(* that are allowed stay in it; and it moves none when there is no need.   *)
Holds(c, f, tags, arr) ==
    /\ {t \in Range(arr) : labelIsAllowed(f, t)} = {t \in Range(tags) : labelIsAllowed(f, t)}
    /\ Untouched(c, f, tags) => arr = tags

ArrInv == \A e \in Emitters : em[e].steady => Holds(config, filter, em[e].tags, em[e].arr)

(* Each emission has a number of its own, and is pushed at most once: only *)
(* an emitter that is past the statsd sink has pushed its number.          *)
Passed(s) ==
    \E i, j \in 1..Len(config.fanout) :
       i < j /\ config.fanout[i] = "statsd" /\ config.fanout[j] = SinkOf(s.pc)

IdInv ==
    /\ IsSeq(calls)
    /\ \A e \in Emitters : em[e].id <= Len(calls)
    /\ \A d, e \in Emitters : d # e /\ em[d].id = em[e].id => em[e].id = 0
    /\ pushed \in Seq(Nat) /\ IsInjective(pushed)
    /\ \A i \in 1..Len(pushed) : pushed[i] <= Len(calls)
    /\ \A e \in Emitters : em[e].id # 0 /\ em[e].id \in Range(pushed) => Passed(em[e])

(* Where x was pushed, and sequences of metrics in that order.             *)
PosIn(p, x) == CHOOSE i \in 1..Len(p) : p[i] = x
Known(p, ms) == \A i \in 1..Len(ms) : ms[i].id \in Range(p)
InOrder(p, ms) == \A i, j \in 1..Len(ms) : i < j => PosIn(p, ms[i].id) < PosIn(p, ms[j].id)
Before(p, as, bs) ==
    \A i \in 1..Len(as), j \in 1..Len(bs) : PosIn(p, as[i].id) < PosIn(p, bs[j].id)

(* What was sent, what is in the buffer and what is in the queue, p having *)
(* been pushed.                                                            *)
InLine(p, as, bs, cs) ==
    /\ Known(p, as) /\ Known(p, bs) /\ Known(p, cs)
    /\ InOrder(p, as) /\ InOrder(p, bs) /\ InOrder(p, cs)
    /\ Before(p, as, bs) /\ Before(p, as, cs) /\ Before(p, bs, cs)

Fits(ms) == Len(ms) > 1 => Bytes(ms) <= StatsdMaxLen

PacketInv ==
    /\ queue \in Packets /\ buf \in Packets /\ wire \in Seq(Packets)
    /\ InLine(pushed, FlattenSeq(wire), buf, queue)
    /\ Fits(buf) /\ \A i \in 1..Len(wire) : Fits(wire[i])

IInv == ReadInv /\ EmInv /\ ArrInv /\ LabelsKept /\ IdInv /\ PacketInv
-----------------------------------------------------------------------------
(* The readers of the in-memory sink.                                      *)

(* What is true of a reader stays true when the slice moves on.            *)
LEMMA StillReadable ==
    ASSUME NEW s \in RdStates, NEW t \in Seq(Nat), NEW u \in Seq(Nat), Later(t, u), Readable(s, t)
    PROVE  Readable(s, u)
<1>0. Len(t) \in Nat /\ Len(u) \in Nat /\ Len(s.data) \in Nat /\ s.ptr \in Nat
  BY DEF RdStates
<1>1. \A i \in 1..Len(t) : t[i] \in Nat
  OBVIOUS
<1>2. \A i \in 1..Len(u) : u[i] \in Nat
  OBVIOUS
<1>3. \A i \in 1..Len(s.data) : s.data[i] \in Nat
  BY DEF RdStates
<1>4. CASE s.pc = "copy"
  BY <1>0, <1>4 DEF Later, Readable
<1>5. CASE s.pc = "index"
  <2>1. /\ Len(s.data) >= 1 /\ Len(s.data) <= Len(t) /\ Len(t) <= Len(u)
        /\ \A i \in 1..Len(s.data) : s.data[i] <= t[i]
        /\ \A i \in 1..Len(t) : t[i] <= u[i]
    BY <1>5 DEF Later, Readable
  <2>2. ASSUME NEW i \in 1..Len(s.data) PROVE s.data[i] <= u[i]
    <3>1. i \in 1..Len(t) /\ i \in 1..Len(u)
      BY <1>0, <2>1
    <3>2. s.data[i] \in Nat /\ t[i] \in Nat /\ u[i] \in Nat
      BY <1>1, <1>2, <1>3, <3>1
    <3>3. s.data[i] <= t[i] /\ t[i] <= u[i]
      BY <2>1, <3>1
    <3> QED
      BY <3>2, <3>3
  <2> QED
    BY <1>0, <1>5, <2>1, <2>2 DEF Readable
<1>6. CASE s.pc = "reading"
  <2>1. Len(t) >= 1 /\ Len(u) >= 1 /\ t[Len(t)] <= u[Len(u)]
    BY <1>0, <1>6 DEF Later, Readable
  <2>2. t[Len(t)] \in Nat /\ u[Len(u)] \in Nat
    BY <1>0, <1>1, <1>2, <2>1
  <2> QED
    BY <1>0, <1>6, <2>1, <2>2 DEF Readable
<1> QED
  BY <1>4, <1>5, <1>6 DEF Readable

(* A created interval is the newest, and the oldest goes when there are    *)
(* too many.                                                               *)
LEMMA CreatedInterval ==
    ASSUME NEW intv, createInterval(intv), IsSeq(heap), Rising(intervals, Len(heap)),
           Len(intervals) <= MaxIntervals
    PROVE  /\ IsSeq(heap') /\ Rising(intervals', Len(heap')) /\ Len(intervals') <= MaxIntervals
           /\ Later(intervals, intervals') /\ Len(intervals') >= 1
<1>0. /\ Len(heap) \in Nat /\ MaxIntervals \in Nat \ {0}
      /\ intervals \in Seq(Nat) /\ Len(intervals) \in Nat
      /\ \A i \in 1..Len(intervals) : intervals[i] \in Nat
  BY IntervalAssumption DEF IsSeq, Rising
<1>1. CASE LastIfCurrent(intv) # 0
  <2>1. intervals # <<>>
    BY <1>1 DEF LastIfCurrent
  <2>2. Len(intervals) >= 1
    BY <1>0, <2>1
  <2>3. UNCHANGED <<heap, intervals>>
    BY <1>1 DEF createInterval, inmemVars
  <2> QED
    BY <1>0, <2>2, <2>3 DEF Later
<1>2. CASE LastIfCurrent(intv) = 0
  <2> DEFINE x == Len(heap) + 1
             n == Len(intervals)
             t == Append(intervals, x)
  <2>1. IsSeq(heap') /\ Len(heap') = x
    BY <1>2, AppendIsSeq DEF createInterval
  <2>2. /\ t \in Seq(Nat) /\ Len(t) = n + 1 /\ t[n + 1] = x
        /\ \A i \in 1..n : t[i] = intervals[i]
    BY <1>0
  <2>3. intervals' = Retained(t)
    BY <1>2 DEF createInterval
  <2> HIDE DEF t
  <2>4. /\ \A i \in 1..n : intervals[i] <= Len(heap) /\ intervals[i] >= 1
        /\ \A i, j \in 1..n : i < j => intervals[i] < intervals[j]
    BY DEF Rising
  <2>5. \A i \in 1..(n + 1) : i \in 1..n \/ i = n + 1
    BY <1>0
  <2>6. \A i \in 1..(n + 1) : t[i] \in 1..x
    <3> SUFFICES ASSUME NEW i \in 1..(n + 1) PROVE t[i] \in 1..x
      OBVIOUS
    <3>1. CASE i \in 1..n
      <4>1. t[i] = intervals[i] /\ intervals[i] \in Nat /\ intervals[i] <= Len(heap) /\ intervals[i] >= 1
        BY <1>0, <2>2, <2>4, <3>1
      <4> QED
        BY <1>0, <4>1
    <3>2. CASE i = n + 1
      BY <1>0, <2>2, <3>2
    <3> QED
      BY <2>5, <3>1, <3>2
  <2>7. \A i, j \in 1..(n + 1) : i < j => t[i] < t[j]
    <3> SUFFICES ASSUME NEW i \in 1..(n + 1), NEW j \in 1..(n + 1), i < j PROVE t[i] < t[j]
      OBVIOUS
    <3>1. i \in 1..n /\ t[i] = intervals[i] /\ intervals[i] \in Nat /\ intervals[i] <= Len(heap)
      BY <1>0, <2>2, <2>4
    <3>2. CASE j = n + 1
      BY <1>0, <2>2, <3>1, <3>2
    <3>3. CASE j \in 1..n
      BY <2>2, <2>4, <3>1, <3>3
    <3> QED
      BY <2>5, <3>2, <3>3
  <2>8. CASE n + 1 = MaxIntervals + 1
    <3> DEFINE u == SubSeq(t, 2, n + 1)
    <3>1. u \in Seq(Nat) /\ Len(u) = n /\ \A i \in 1..n : u[i] = t[i + 1]
      <4>1. 2 \in 1..(Len(t) + 1) /\ n + 1 \in 1..Len(t)
        BY <1>0, <2>2, <2>8
      <4> QED
        BY <1>0, <2>2, <4>1, SubSeqProperties
    <3>2. intervals' = u
      <4>1. Len(t) >= MaxIntervals /\ Len(t) - MaxIntervals + 1 = 2 /\ Len(t) = n + 1
        BY <1>0, <2>2, <2>8
      <4>2. Retained(t) = SubSeq(t, Len(t) - MaxIntervals + 1, Len(t))
        BY <4>1 DEF Retained
      <4> QED
        BY <2>3, <4>1, <4>2
    <3> HIDE DEF u
    <3>3. \A i \in 1..n : i + 1 \in 1..(n + 1) /\ i \in 1..(n + 1) /\ i < i + 1
      BY <1>0
    <3>4. \A i \in 1..n : u[i] \in 1..x
      BY <2>6, <3>1, <3>3
    <3>5. \A i, j \in 1..n : i < j => u[i] < u[j]
      <4> SUFFICES ASSUME NEW i \in 1..n, NEW j \in 1..n, i < j PROVE u[i] < u[j]
        OBVIOUS
      <4>1. i + 1 \in 1..(n + 1) /\ j + 1 \in 1..(n + 1) /\ i + 1 < j + 1
        BY <1>0
      <4>2. t[i + 1] < t[j + 1]
        BY <2>7, <4>1
      <4> QED
        BY <3>1, <4>2
    <3>6. \A i \in 1..n : intervals[i] <= u[i]
      <4> SUFFICES ASSUME NEW i \in 1..n PROVE intervals[i] <= u[i]
        OBVIOUS
      <4>1. t[i] < t[i + 1] /\ t[i] = intervals[i] /\ u[i] = t[i + 1] /\ t[i + 1] \in 1..x
        BY <2>2, <2>6, <2>7, <3>1, <3>3
      <4> QED
        BY <1>0, <4>1
    <3>7. n >= 1 /\ intervals[n] <= u[n]
      BY <1>0, <2>8, <3>6
    <3> QED
      BY <1>0, <2>1, <2>8, <3>1, <3>2, <3>4, <3>5, <3>6, <3>7 DEF Rising, Later
  <2>9. CASE n + 1 <= MaxIntervals
    <3>1. intervals' = t
      <4>1. CASE n + 1 = MaxIntervals
        <5>1. SubSeq(t, 1, Len(t)) = t
          BY <2>2
        <5>2. Len(t) - MaxIntervals + 1 = 1 /\ Len(t) >= MaxIntervals
          BY <1>0, <2>2, <4>1
        <5> QED
          BY <2>3, <5>1, <5>2 DEF Retained
      <4>2. CASE n + 1 < MaxIntervals
        <5>1. ~(Len(t) >= MaxIntervals)
          BY <1>0, <2>2, <4>2
        <5> QED
          BY <2>3, <5>1 DEF Retained
      <4> QED
        BY <1>0, <2>9, <4>1, <4>2
    <3>2. Rising(t, x)
      BY <2>2, <2>6, <2>7 DEF Rising
    <3>3. Later(intervals, t)
      <4>1. \A i \in 1..n : intervals[i] <= t[i]
        BY <1>0, <2>2
      <4>2. n >= 1 => intervals[n] <= t[n + 1]
        BY <1>0, <2>2, <2>4
      <4> QED
        BY <1>0, <2>2, <4>1, <4>2 DEF Later
    <3> QED
      BY <1>0, <2>1, <2>2, <2>9, <3>1, <3>2, <3>3
  <2> QED
    BY <1>0, <2>8, <2>9
<1> QED
  BY <1>1, <1>2

(* The sink moves on: an interval is made, an emitter writes to one, or    *)
(* nothing happens.                                                        *)
Moves ==
    \/ UNCHANGED <<heap, intervals>>
    \/ \E intv : createInterval(intv)
    \/ UNCHANGED intervals /\ \E n, m : heap' = [heap EXCEPT ![n] = m]

LEMMA SinkMoves ==
    ASSUME ReadInv, Moves
    PROVE  /\ IsSeq(heap') /\ Rising(intervals', Len(heap')) /\ Len(intervals') <= MaxIntervals
           /\ Later(intervals, intervals')
<1>0. /\ IsSeq(heap) /\ Rising(intervals, Len(heap)) /\ Len(intervals) <= MaxIntervals
      /\ Len(intervals) \in Nat /\ \A i \in 1..Len(intervals) : intervals[i] \in Nat
  BY DEF ReadInv, Rising
<1>1. Later(intervals, intervals)
  BY <1>0 DEF Later
<1>2. CASE UNCHANGED <<heap, intervals>>
  BY <1>0, <1>1, <1>2
<1>3. CASE \E intv : createInterval(intv)
  BY <1>0, <1>3, CreatedInterval
<1>4. CASE UNCHANGED intervals /\ \E n, m : heap' = [heap EXCEPT ![n] = m]
  <2>1. PICK n, m : heap' = [heap EXCEPT ![n] = m]
    BY <1>4
  <2>2. IsSeq(heap') /\ Len(heap') = Len(heap)
    <3>1. heap \in Seq(Range(heap) \cup {m})
      BY <1>0, OverItsRange
    <3>2. heap' \in Seq(Range(heap) \cup {m}) /\ Len(heap') = Len(heap)
      <4>1. heap \in [1..Len(heap) -> Range(heap) \cup {m}] /\ Len(heap) \in Nat
        BY <1>0, <3>1 DEF IsSeq
      <4>2. heap' \in [1..Len(heap) -> Range(heap) \cup {m}]
        BY <2>1, <4>1
      <4> QED
        BY <4>1, <4>2
    <3> QED
      BY <3>2, SeqIsSeq
  <2> QED
    BY <1>0, <1>1, <1>4, <2>2
<1> QED
  BY <1>2, <1>3, <1>4 DEF Moves

(* ReadInv while no reader moves.                                          *)
LEMMA ReadersStay ==
    ASSUME ReadInv, UNCHANGED <<now, rd>>, Moves
    PROVE  ReadInv'
<1>1. /\ IsSeq(heap') /\ Rising(intervals', Len(heap')) /\ Len(intervals') <= MaxIntervals
      /\ Later(intervals, intervals')
  BY SinkMoves
<1>2. intervals \in Seq(Nat) /\ intervals' \in Seq(Nat)
  BY <1>1 DEF ReadInv, Rising
<1>3. ASSUME NEW r \in Readers PROVE Readable(rd'[r], intervals')
  <2>1. rd'[r] = rd[r] /\ rd[r] \in RdStates /\ Readable(rd[r], intervals)
    BY DEF ReadInv
  <2> QED
    BY <1>1, <1>2, <2>1, StillReadable
<1> QED
  BY <1>1, <1>3 DEF ReadInv

(* A reader takes a step to s.                                             *)
LEMMA ReaderMoves ==
    ASSUME ReadInv, NEW r \in Readers, NEW s \in RdStates, rd' = [rd EXCEPT ![r] = s], UNCHANGED now,
           Moves, Readable(s, intervals')
    PROVE  ReadInv'
<1>1. /\ IsSeq(heap') /\ Rising(intervals', Len(heap')) /\ Len(intervals') <= MaxIntervals
      /\ Later(intervals, intervals')
  BY SinkMoves
<1>2. intervals \in Seq(Nat) /\ intervals' \in Seq(Nat)
  BY <1>1 DEF ReadInv, Rising
<1>3. /\ now' \in Nat /\ rd' \in [Readers -> RdStates] /\ rd'[r] = s
      /\ \A q \in Readers \ {r} : rd'[q] = rd[q]
  BY DEF ReadInv
<1>4. ASSUME NEW q \in Readers PROVE Readable(rd'[q], intervals')
  <2>1. CASE q = r
    BY <1>3, <2>1
  <2>2. CASE q # r
    <3>1. rd'[q] = rd[q] /\ rd[q] \in RdStates /\ Readable(rd[q], intervals)
      BY <1>3, <2>2 DEF ReadInv
    <3> QED
      BY <1>1, <1>2, <3>1, StillReadable
  <2> QED
    BY <2>1, <2>2
<1> QED
  BY <1>1, <1>3, <1>4 DEF ReadInv

(* The steps of the readers.                                               *)
LEMMA ReaderStep ==
    ASSUME ReadInv, NEW r \in Readers,
           \/ ReadClock(r) \/ ReadExisting(r) \/ ReadCreate(r) \/ DumpStats(r) \/ DataCopy(r)
           \/ Index(r) \/ Display(r)
    PROVE  ReadInv'
<1> USE DEF rdUnchanged
<1>0. /\ rd[r] \in RdStates /\ rd \in [Readers -> RdStates] /\ now \in Nat
      /\ intervals \in Seq(Nat) /\ Len(intervals) \in Nat
      /\ Readable(rd[r], intervals)
  BY DEF ReadInv, Rising
<1>1. CASE ReadClock(r)
  <2> DEFINE s == [IdleRd EXCEPT !.pc = "existing", !.intv = Truncated(now)]
  <2>1. Truncated(now) \in Int
    BY <1>0, IntervalAssumption DEF Truncated
  <2>2. s = [pc |-> "existing", intv |-> Truncated(now), data |-> <<>>, ptr |-> 0]
    <3> DEFINE a == [IdleRd EXCEPT !.pc = "existing"]
               t == Truncated(now)
    <3>1. a = [pc |-> "existing", intv |-> 0, data |-> <<>>, ptr |-> 0]
      BY DEF IdleRd
    <3>2. s = [a EXCEPT !.intv = t]
      OBVIOUS
    <3> HIDE DEF a, s, t
    <3>3. s = [pc |-> "existing", intv |-> t, data |-> <<>>, ptr |-> 0]
      BY <3>1, <3>2
    <3> QED
      BY <3>3 DEF t
  <2>3. rd' = [rd EXCEPT ![r] = s] /\ UNCHANGED now /\ UNCHANGED <<heap, intervals>>
    BY <1>1 DEF ReadClock, inmemVars
  <2> HIDE DEF s
  <2>4. s \in RdStates /\ s.pc = "existing"
    BY <2>1, <2>2, EmptySeq DEF RdStates
  <2>5. Readable(s, intervals')
    BY <2>4 DEF Readable
  <2> QED
    BY <2>3, <2>4, <2>5, ReaderMoves DEF Moves
<1>2. CASE ReadExisting(r)
  <2> DEFINE pc == IF LastIfCurrent(rd[r].intv) # 0 THEN "copy" ELSE "create"
             s == [rd[r] EXCEPT !.pc = pc]
  <2>1. s \in RdStates /\ s.pc = pc
    BY <1>0 DEF RdStates
  <2>2. rd' = [rd EXCEPT ![r] = s] /\ UNCHANGED now /\ UNCHANGED <<heap, intervals>>
    BY <1>0, <1>2 DEF ReadExisting, inmemVars
  <2>3. s.pc = "copy" => Len(intervals) >= 1
    <3>1. s.pc = "copy" => intervals # <<>>
      BY <2>1 DEF LastIfCurrent
    <3> QED
      BY <1>0, <3>1
  <2>4. Readable(s, intervals')
    BY <2>1, <2>2, <2>3 DEF Readable
  <2> HIDE DEF s, pc
  <2> QED
    BY <2>1, <2>2, <2>4, ReaderMoves DEF Moves
<1>3. CASE ReadCreate(r)
  <2> DEFINE s == [rd[r] EXCEPT !.pc = "copy"]
  <2>1. s \in RdStates /\ s.pc = "copy"
    BY <1>0 DEF RdStates
  <2>2. rd' = [rd EXCEPT ![r] = s] /\ UNCHANGED now /\ createInterval(rd[r].intv)
    BY <1>0, <1>3 DEF ReadCreate
  <2>3. Len(intervals') >= 1
    BY <2>2, CreatedInterval DEF ReadInv
  <2>4. Readable(s, intervals')
    BY <2>1, <2>3 DEF Readable
  <2> HIDE DEF s
  <2> QED
    BY <2>1, <2>2, <2>4, ReaderMoves DEF Moves
<1>4. CASE DumpStats(r) \/ Display(r)
  <2>1. IdleRd \in RdStates /\ IdleRd.pc = "idle"
    BY EmptySeq DEF RdStates, IdleRd
  <2>2. rd' = [rd EXCEPT ![r] = IdleRd] /\ UNCHANGED now /\ UNCHANGED <<heap, intervals>>
    BY <1>4 DEF DumpStats, Display, inmemVars
  <2>3. Readable(IdleRd, intervals')
    BY <2>1 DEF Readable
  <2> QED
    BY <2>1, <2>2, <2>3, ReaderMoves DEF Moves
<1>5. CASE DataCopy(r)
  <2> DEFINE a == [IdleRd EXCEPT !.pc = "index"]
             s == [IdleRd EXCEPT !.pc = "index", !.data = intervals]
  <2>1. s = [pc |-> "index", intv |-> 0, data |-> intervals, ptr |-> 0]
    <3>1. a = [pc |-> "index", intv |-> 0, data |-> <<>>, ptr |-> 0]
      BY DEF IdleRd
    <3>2. s = [a EXCEPT !.data = intervals]
      OBVIOUS
    <3> HIDE DEF a, s
    <3> QED
      BY <3>1, <3>2
  <2>2. rd' = [rd EXCEPT ![r] = s] /\ UNCHANGED now /\ UNCHANGED <<heap, intervals>> /\ rd[r].pc = "copy"
    BY <1>5 DEF DataCopy, inmemVars
  <2> HIDE DEF s
  <2>3. s \in RdStates /\ s.pc = "index" /\ s.data = intervals
    BY <1>0, <2>1 DEF RdStates
  <2>4. Len(intervals) >= 1 /\ \A i \in 1..Len(intervals) : intervals[i] <= intervals[i]
    BY <1>0, <2>2 DEF Readable
  <2>5. Readable(s, intervals')
    BY <1>0, <2>2, <2>3, <2>4 DEF Readable
  <2> QED
    BY <2>2, <2>3, <2>5, ReaderMoves DEF Moves
<1>6. CASE Index(r)
  <2> DEFINE i == DisplayedIndex(Len(rd[r].data))
             a == [rd[r] EXCEPT !.pc = "reading"]
             s == [rd[r] EXCEPT !.pc = "reading", !.ptr = intervals[i]]
  <2>0. /\ rd[r].pc = "index" /\ Len(rd[r].data) \in Nat
        /\ Len(rd[r].data) >= 1 /\ Len(rd[r].data) <= Len(intervals)
        /\ \A j \in 1..Len(rd[r].data) : rd[r].data[j] <= intervals[j]
    BY <1>0, <1>6 DEF Index, Readable, RdStates
  <2>1. /\ i \in 1..Len(rd[r].data) /\ i \in 1..Len(intervals)
        /\ Len(rd[r].data) > 1 => i < Len(intervals)
    <3> DEFINE k == Len(rd[r].data)
    <3>1. i = (IF k = 1 THEN 1 ELSE k - 1)
      BY DEF DisplayedIndex
    <3>2. k \in Nat /\ k >= 1 /\ k <= Len(intervals) /\ Len(intervals) \in Nat
      BY <1>0, <2>0
    <3> HIDE DEF k, i
    <3>3. i \in 1..k /\ i \in 1..Len(intervals) /\ (k > 1 => i < Len(intervals))
      BY <3>1, <3>2
    <3> QED
      BY <3>3 DEF k
  <2>2. intervals[i] \in Nat
    BY <1>0, <2>1
  <2>3. rd' = [rd EXCEPT ![r] = s] /\ UNCHANGED now /\ UNCHANGED <<heap, intervals>>
    BY <1>0, <1>6 DEF Index, inmemVars
  <2>4. s \in RdStates /\ s.pc = "reading" /\ s.data = rd[r].data /\ s.ptr = intervals[i]
    <3>1. a \in RdStates /\ a.pc = "reading" /\ a.data = rd[r].data
      BY <1>0 DEF RdStates
    <3>2. s = [a EXCEPT !.ptr = intervals[i]]
      OBVIOUS
    <3> HIDE DEF a, s, i
    <3> QED
      BY <2>2, <3>1, <3>2 DEF RdStates
  <2> HIDE DEF s
  <2>5. Readable(s, intervals)
    <3>1. s.ptr >= s.data[DisplayedIndex(Len(s.data))]
      <4>1. rd[r].data[i] \in Nat /\ rd[r].data[i] <= intervals[i]
        BY <1>0, <2>0, <2>1 DEF RdStates
      <4> QED
        BY <2>2, <2>4, <4>1
    <3>2. Len(s.data) > 1 => s.ptr < intervals[Len(intervals)]
      <4>1. Len(intervals) \in 1..Len(intervals)
        BY <1>0, <2>0
      <4> QED
        BY <2>1, <2>4, <4>1 DEF ReadInv, Rising
    <3> QED
      BY <1>0, <2>0, <2>4, <3>1, <3>2 DEF Readable
  <2> QED
    BY <2>3, <2>4, <2>5, ReaderMoves DEF Moves
<1> QED
  BY <1>1, <1>2, <1>3, <1>4, <1>5, <1>6

(* Any step.                                                               *)
LEMMA ReadInvStep == ReadInv /\ [Next]_vars => ReadInv'
<1> SUFFICES ASSUME ReadInv, [Next]_vars PROVE ReadInv'
  OBVIOUS
<1>1. CASE \E r \in Readers :
             ReadClock(r) \/ ReadExisting(r) \/ ReadCreate(r) \/ DumpStats(r) \/ DataCopy(r) \/ Index(r) \/ Display(r)
  BY <1>1, ReaderStep
<1>2. CASE RunReturns
  <2> DEFINE s == [rd[Signal] EXCEPT !.pc = "returned"]
  <2>1. Signal \in Readers /\ rd[Signal] \in RdStates
    BY ProcessAssumption DEF ReadInv
  <2>2. s \in RdStates /\ s.pc = "returned"
    BY <2>1 DEF RdStates
  <2>3. rd' = [rd EXCEPT ![Signal] = s] /\ UNCHANGED now /\ UNCHANGED <<heap, intervals>>
    BY <1>2 DEF RunReturns, rdUnchanged, inmemVars
  <2>4. Readable(s, intervals')
    BY <2>2 DEF Readable
  <2> HIDE DEF s
  <2> QED
    BY <2>1, <2>2, <2>3, <2>4, ReaderMoves DEF Moves
<1>3. CASE Tick
  <2>1. now' = now + 1 /\ UNCHANGED <<rd, heap, intervals>>
    BY <1>3 DEF Tick, inmemVars
  <2> QED
    BY <2>1 DEF ReadInv
<1>4. ASSUME NEW e \in Emitters,
             \/ Begin(e)
             \/ \E num \in {0, lastNumGC + 1, lastNumGC + 2} : CollectStats(e, num)
             \/ Prepare(e) \/ Clock(e) \/ Existing(e) \/ Create(e) \/ Update(e)
             \/ Push(e) \/ PromSink(e) \/ DogSink(e)
      PROVE  UNCHANGED <<now, rd>> /\ Moves
  <2>1. CASE Begin(e) \/ \E num \in {0, lastNumGC + 1, lastNumGC + 2} : CollectStats(e, num)
    BY <2>1 DEF Begin, CollectStats, Start, inmemVars, Moves
  <2>2. CASE Prepare(e) \/ Clock(e) \/ Existing(e) \/ Push(e) \/ PromSink(e) \/ DogSink(e)
    BY <2>2 DEF Prepare, Clock, Existing, Push, PromSink, DogSink, inmemVars, Moves
  <2>3. CASE Create(e)
    BY <2>3 DEF Create, Moves
  <2>4. CASE Update(e)
    <3>1. UNCHANGED <<now, rd, intervals>>
      BY <2>4 DEF Update, SinkInto
    <3>2. \E n, m : heap' = [heap EXCEPT ![n] = m]
      BY <2>4, Zenon DEF Update, SinkInto
    <3> QED
      BY <3>1, <3>2 DEF Moves
  <2> QED
    BY <1>4, <2>1, <2>2, <2>3, <2>4
<1>5. CASE Kill \/ SignalStop
  <2>1. UNCHANGED <<now, rd, heap, intervals>>
    BY <1>5 DEF Kill, SignalStop, rdUnchanged, inmemVars
  <2> QED
    BY <2>1, ReadersStay DEF Moves
<1>6. CASE \/ \E c \in Configs : NewGlobal(c)
           \/ \E f \in Filters : UpdateFilterAndLabels(f) \/ UpdateFilter(f)
  <2>1. UNCHANGED <<now, rd, heap, intervals>>
    BY <1>6 DEF NewGlobal, UpdateFilterAndLabels, UpdateFilter, SetFilter, inmemVars
  <2> QED
    BY <2>1, ReadersStay DEF Moves
<1>7. CASE Flush \/ ShutdownStatsd \/ Scrape
  <2>1. UNCHANGED <<now, rd, heap, intervals>>
    BY <1>7 DEF Flush, ShutdownStatsd, Scrape, inmemVars
  <2> QED
    BY <2>1, ReadersStay DEF Moves
<1>8. CASE UNCHANGED vars
  <2>1. UNCHANGED <<now, rd, heap, intervals>>
    BY <1>8 DEF vars, inmemVars
  <2> QED
    BY <2>1, ReadersStay DEF Moves
<1>9. CASE \E e \in Emitters :
             \/ Begin(e)
             \/ \E num \in {0, lastNumGC + 1, lastNumGC + 2} : CollectStats(e, num)
             \/ Prepare(e) \/ Clock(e) \/ Existing(e) \/ Create(e) \/ Update(e)
             \/ Push(e) \/ PromSink(e) \/ DogSink(e)
  BY <1>4, <1>9, ReadersStay
<1> QED
  BY <1>1, <1>2, <1>3, <1>5, <1>6, <1>7, <1>8, <1>9 DEF Next
-----------------------------------------------------------------------------
(* The emitters.                                                           *)

(* What a step of an emitter inside the sinks keeps: s before, r after.    *)
Moved(s, r) ==
    /\ IsEm(r)
    /\ r.pc \in InSinks => SinkOf(r.pc) \in Range(config.fanout)
    /\ r.id # 0 => r.id = s.id /\ r.labels = s.labels /\ (Passed(s) => Passed(r))
    /\ r.steady => s.steady /\ r.arr = s.arr /\ r.tags = s.tags

(* A tail of calls is one.                                                 *)
LEMMA TailCalls ==
    ASSUME NEW cs, IsCalls(cs), Len(cs) >= 1
    PROVE  IsCalls(Tail(cs)) /\ Len(Tail(cs)) = Len(cs) - 1 /\ IsSeq(Head(cs).key)
<1>1. cs \in Seq(Range(cs)) /\ Len(cs) \in Nat
  BY OverItsRange DEF IsCalls, IsSeq
<1>2. cs # <<>>
  BY <1>1
<1>3. /\ Tail(cs) \in Seq(Range(cs)) /\ Len(Tail(cs)) = Len(cs) - 1
      /\ \A i \in 1..Len(Tail(cs)) : Tail(cs)[i] = cs[i + 1]
      /\ Head(cs) = cs[1]
  BY <1>1, <1>2, HeadTailProperties
<1>4. IsSeq(Tail(cs))
  BY <1>3, SeqIsSeq
<1>5. \A i \in 1..Len(Tail(cs)) : i + 1 \in 1..Len(cs)
  BY <1>1, <1>3
<1> HIDE DEF IsSeq
<1>6. \A i \in 1..Len(Tail(cs)) : IsSeq(Tail(cs)[i].key)
  BY <1>3, <1>5 DEF IsCalls
<1> QED
  BY <1>1, <1>3, <1>4, <1>6 DEF IsCalls

(* An idle emitter.                                                        *)
LEMMA IdleIsEm == IsEm(IdleEm) /\ IdleEm.id = 0 /\ IdleEm.steady = FALSE /\ IdleEm.pc = "idle"
<1>1. IsSeq(<<>>) /\ <<>> \in Seq(Tags) /\ Len(<<>>) = 0
  BY EmptyIsSeq, EmptySeq
<1>2. IsCalls(<<>>)
  BY <1>1 DEF IsCalls
<1> QED
  BY <1>1, <1>2 DEF IdleEm, IsEm, Outside, InSinks

(* On to the next call, or done.                                           *)
LEMMA NextCallMoves ==
    ASSUME NEW s, IsEm(s), s.pc # "idle"
    PROVE  Moved(s, NextCall(s)) /\ NextCall(s).id = 0 /\ NextCall(s).pc \in Outside
<1>1. CASE Len(s.calls) = 1
  BY <1>1, IdleIsEm DEF NextCall, Moved, Outside, InSinks
<1>2. CASE Len(s.calls) # 1
  <2> DEFINE r == NextCall(s)
  <2>1. r = [pc |-> "call", calls |-> Tail(s.calls), tags |-> s.tags, steady |-> s.steady, arr |-> s.arr,
             key |-> <<>>, labels |-> <<>>, id |-> 0, intv |-> 0, ptr |-> 0]
    BY <1>2 DEF NextCall, IsEm
  <2>2. IsCalls(Tail(s.calls)) /\ Len(Tail(s.calls)) >= 1
    <3>1. Len(s.calls) \in Nat /\ Len(s.calls) >= 1 /\ IsCalls(s.calls)
      BY DEF IsEm, IsCalls, IsSeq
    <3>2. Len(Tail(s.calls)) = Len(s.calls) - 1 /\ IsCalls(Tail(s.calls))
      BY <3>1, TailCalls
    <3> QED
      BY <1>2, <3>1, <3>2
  <2>3. IsSeq(<<>>)
    BY EmptyIsSeq
  <2>4. /\ r.pc = "call" /\ r.calls = Tail(s.calls) /\ r.tags = s.tags /\ r.steady = s.steady /\ r.arr = s.arr
        /\ r.key = <<>> /\ r.labels = <<>> /\ r.id = 0 /\ r.intv = 0 /\ r.ptr = 0
    BY <2>1
  <2>5. s.arr \in Seq(Tags)
    BY DEF IsEm
  <2>6. IsEm(r)
    <3>1. r = [pc |-> r.pc, calls |-> r.calls, tags |-> r.tags, steady |-> r.steady, arr |-> r.arr,
               key |-> r.key, labels |-> r.labels, id |-> r.id, intv |-> r.intv, ptr |-> r.ptr]
      BY <2>1
    <3> HIDE DEF r
    <3> QED
      BY <2>2, <2>3, <2>4, <2>5, <3>1 DEF IsEm, Outside, InSinks
  <2> HIDE DEF r
  <2> QED
    BY <2>4, <2>6 DEF Moved, Outside, InSinks, r
<1> QED
  BY <1>1, <1>2

(* What NewGlobal was given.                                               *)
LEMMA Fanout ==
    ASSUME EmInv, config # Blackhole
    PROVE  /\ config.fanout \in Seq(Sinks) /\ Len(config.fanout) \in Nat \ {0}
           /\ \A i, j \in 1..Len(config.fanout) : config.fanout[i] = config.fanout[j] => i = j
<1>1. config \in Configs
  BY DEF EmInv
<1>2. config.fanout \in Seq(Sinks) /\ config.fanout # <<>> /\ IsInjective(config.fanout)
  BY <1>1, ConfigAssumption
<1> QED
  BY <1>2 DEF IsInjective

(* The place an emission has in a sink, and the sink it is in.             *)
LEMMA FirstSteps ==
    ASSUME NEW sink \in Sinks
    PROVE  FirstStep(sink) \in InSinks /\ SinkOf(FirstStep(sink)) = sink
  BY DEF Sinks, FirstStep, InSinks, SinkOf

(* What an emitter is left with that changes its place, and what only the  *)
(* sinks use.                                                              *)
InPlace(s, pc, key, intv, ptr) ==
    [pc |-> pc, calls |-> s.calls, tags |-> s.tags, steady |-> s.steady, arr |-> s.arr,
     key |-> key, labels |-> s.labels, id |-> s.id, intv |-> intv, ptr |-> ptr]

(* It is an emitter still, with the same emission.                         *)
LEMMA InPlaceKeeps ==
    ASSUME NEW s, IsEm(s), s.id # 0, NEW pc \in InSinks \cup {"panicked"},
           NEW key, IsSeq(key), NEW intv, NEW ptr, NEW r, r = InPlace(s, pc, key, intv, ptr)
    PROVE  /\ IsEm(r) /\ r.pc = pc
           /\ r.id = s.id /\ r.labels = s.labels /\ r.steady = s.steady /\ r.arr = s.arr /\ r.tags = s.tags
<1>1. /\ r.pc = pc /\ r.calls = s.calls /\ r.tags = s.tags /\ r.steady = s.steady /\ r.arr = s.arr
      /\ r.key = key /\ r.labels = s.labels /\ r.id = s.id /\ r.intv = intv /\ r.ptr = ptr
  BY DEF InPlace
<1>2. r = [pc |-> r.pc, calls |-> r.calls, tags |-> r.tags, steady |-> r.steady, arr |-> r.arr,
           key |-> r.key, labels |-> r.labels, id |-> r.id, intv |-> r.intv, ptr |-> r.ptr]
  BY DEF InPlace
<1>3. Len(s.calls) >= 1 /\ pc \notin Outside
  BY DEF IsEm, Outside, InSinks
<1>4. IsEm(r)
  BY <1>1, <1>2, <1>3 DEF IsEm
<1> QED
  BY <1>1, <1>4

(* The fields of an emitter replaced one by one.                           *)
WithPc(s, v) == [s EXCEPT !.pc = v]
WithKey(s, v) == [s EXCEPT !.key = v]
WithIntv(s, v) == [s EXCEPT !.intv = v]
WithPtr(s, v) == [s EXCEPT !.ptr = v]

(* One at a time.                                                          *)
LEMMA InPlaceForms ==
    \A s, a, b, c, d, v :
       /\ WithPc(InPlace(s, a, b, c, d), v) = InPlace(s, v, b, c, d)
       /\ WithKey(InPlace(s, a, b, c, d), v) = InPlace(s, a, v, c, d)
       /\ WithIntv(InPlace(s, a, b, c, d), v) = InPlace(s, a, b, v, d)
       /\ WithPtr(InPlace(s, a, b, c, d), v) = InPlace(s, a, b, c, v)
<1> TAKE s, a, b, c, d, v
<1> QED
  BY DEF InPlace, WithPc, WithKey, WithIntv, WithPtr

(* An emitter is in its own place.                                         *)
LEMMA OwnPlace == \A s : IsEm(s) => s = InPlace(s, s.pc, s.key, s.intv, s.ptr)
  BY DEF IsEm, InPlace

(* From one sink to the next, or out of them.                              *)
LEMMA AfterSinkMoves ==
    ASSUME EmInv, config # Blackhole, NEW s, IsEm(s), s.id # 0, s.pc \in InSinks,
           NEW sink, SinkOf(s.pc) = sink, sink \in Range(config.fanout)
    PROVE  /\ Moved(s, AfterSink(s, sink))
           /\ sink = "statsd" /\ AfterSink(s, sink).id # 0 => Passed(AfterSink(s, sink))
<1> DEFINE n == Len(config.fanout)
           F(j) == config.fanout[j]
           i == CHOOSE j \in 1..n : F(j) = sink
           pc == FirstStep(F(i + 1))
           r == [s EXCEPT !.pc = pc]
<1>f. n \in Nat \ {0} /\ (\A j \in 1..n : F(j) \in Sinks) /\ \A j, k \in 1..n : F(j) = F(k) => j = k
  BY Fanout
<1>1. i \in 1..n /\ F(i) = sink
  <2>1. \E j \in 1..n : F(j) = sink
    BY Fanout DEF Range
  <2> QED
    BY <2>1
<1>2. AfterSink(s, sink) = IF i = n THEN NextCall(s) ELSE r
  BY DEF AfterSink
<1>3. s.pc # "idle"
  BY DEF InSinks
<1> HIDE DEF i
<1>4. CASE i = n
  BY <1>2, <1>3, <1>4, NextCallMoves
<1>5. CASE i # n
  <2>1. i + 1 \in 1..n
    BY <1>f, <1>1, <1>5
  <2>2. pc \in InSinks /\ SinkOf(pc) = F(i + 1)
    BY <1>f, <2>1, FirstSteps
  <2>3. /\ IsEm(r) /\ r.pc = pc
        /\ r.id = s.id /\ r.labels = s.labels /\ r.steady = s.steady /\ r.arr = s.arr /\ r.tags = s.tags
    <3>1. r = WithPc(s, pc) /\ IsSeq(s.key)
      BY DEF WithPc, IsEm
    <3>2. r = InPlace(s, pc, s.key, s.intv, s.ptr)
      BY <3>1, OwnPlace, InPlaceForms
    <3> HIDE DEF r, pc
    <3> QED
      BY <2>2, <3>1, <3>2, InPlaceKeeps
  <2> HIDE DEF r, pc
  <2>4. SinkOf(r.pc) \in Range(config.fanout)
    <3>1. F(i + 1) \in Range(config.fanout)
      BY <2>1, Fanout DEF Range
    <3> QED
      BY <2>2, <2>3, <3>1
  <2>5. ASSUME Passed(s) PROVE Passed(r)
    <3>1. PICK j, k \in 1..n : j < k /\ F(j) = "statsd" /\ F(k) = SinkOf(s.pc)
      BY <2>5 DEF Passed
    <3>2. k = i
      BY <1>f, <1>1, <3>1
    <3>3. j < i + 1
      BY <1>f, <1>1, <3>1, <3>2
    <3> QED
      BY <2>1, <2>2, <2>3, <3>1, <3>3 DEF Passed
  <2>6. ASSUME sink = "statsd" PROVE Passed(r)
    <3>1. i < i + 1 /\ F(i) = "statsd"
      BY <1>f, <1>1, <2>6
    <3> QED
      BY <1>1, <2>1, <2>2, <2>3, <3>1 DEF Passed
  <2>7. AfterSink(s, sink) = r
    BY <1>2, <1>5
  <2>8. Moved(s, r)
    BY <2>3, <2>4, <2>5 DEF Moved
  <2> QED
    BY <2>6, <2>7, <2>8
<1> QED
  BY <1>4, <1>5
(* What may come of an emitter e: r, with n calls made so far and p pushed. *)
MayBe(e, r, n, p) ==
    /\ IsEm(r)
    /\ r.pc \in InSinks => SinkOf(r.pc) \in Range(config.fanout)
    /\ r.id # 0 => /\ config # Blackhole /\ r.id <= n
                   /\ \A d \in Emitters \ {e} : em[d].id # r.id
                   /\ r.id \in Range(p) => Passed(r)
    /\ r.steady => Holds(config, filter, r.tags, r.arr)
    /\ r.id # 0 /\ r.steady => Carries(config, filter, r.tags, r.labels)

(* The invariants of the emitters, after a step of one.                    *)
LEMMA EmitterBecomes ==
    ASSUME EmInv, ArrInv, LabelsKept, IdInv, NEW e \in Emitters, NEW r,
           em' = [em EXCEPT ![e] = r], MayBe(e, r, Len(calls'), pushed'),
           UNCHANGED <<config, filter>>, lastNumGC' \in Nat,
           IsSeq(calls'), Len(calls') >= Len(calls),
           pushed' \in Seq(Nat), IsInjective(pushed'), \A i \in 1..Len(pushed') : pushed'[i] <= Len(calls'),
           \A d \in Emitters \ {e} : em[d].id # 0 /\ em[d].id \in Range(pushed') => em[d].id \in Range(pushed)
    PROVE  EmInv' /\ ArrInv' /\ LabelsKept' /\ IdInv'
<1>0. /\ em'[e] = r /\ DOMAIN em' = Emitters
      /\ \A d \in Emitters \ {e} : em'[d] = em[d]
  BY DEF EmInv
<1>1. EmInv'
  <2>1. \A d \in Emitters : IsEm(em'[d])
    BY <1>0 DEF MayBe, EmInv
  <2>2. \A d \in Emitters : em'[d].pc \in InSinks => SinkOf(em'[d].pc) \in Range(config.fanout)
    BY <1>0 DEF MayBe, EmInv
  <2>3. \A d \in Emitters : em'[d].id # 0 => config # Blackhole
    BY <1>0 DEF MayBe, EmInv
  <2> QED
    BY <1>0, <2>1, <2>2, <2>3 DEF EmInv
<1>2. ArrInv'
  <2> SUFFICES ASSUME NEW d \in Emitters, em'[d].steady
               PROVE  Holds(config, filter, em'[d].tags, em'[d].arr)
    BY DEF ArrInv
  <2>1. CASE d = e
    BY <1>0, <2>1, Zenon DEF MayBe
  <2>2. CASE d # e
    BY <1>0, <2>2 DEF ArrInv
  <2> QED
    BY <2>1, <2>2
<1>3. LabelsKept'
  <2> SUFFICES ASSUME NEW d \in Emitters, em'[d].id # 0, em'[d].steady
               PROVE  Carries(config, filter, em'[d].tags, em'[d].labels)
    BY DEF LabelsKept
  <2>1. CASE d = e
    BY <1>0, <2>1, Zenon DEF MayBe
  <2>2. CASE d # e
    BY <1>0, <2>2 DEF LabelsKept
  <2> QED
    BY <2>1, <2>2
<1>4. IdInv'
  <2>2. Len(calls) \in Nat /\ Len(calls') \in Nat /\ r.id \in Nat /\ \A d \in Emitters : em[d].id \in Nat
    BY DEF IdInv, IsSeq, EmInv, IsEm, MayBe
  <2>3. \A d \in Emitters : em'[d].id <= Len(calls')
    BY <1>0, <2>2 DEF IdInv, MayBe
  <2>4. \A c, d \in Emitters : c # d /\ em'[c].id = em'[d].id => em'[d].id = 0
    BY <1>0 DEF IdInv, MayBe
  <2>5. ASSUME NEW d \in Emitters, em'[d].id # 0, em'[d].id \in Range(pushed') PROVE Passed(em'[d])
    <3>1. CASE d = e
      BY <1>0, <2>5, <3>1 DEF MayBe
    <3>2. CASE d # e
      BY <1>0, <2>5, <3>2 DEF IdInv
    <3> QED
      BY <3>1, <3>2
  <2>6. \A d \in Emitters : em'[d].id # 0 /\ em'[d].id \in Range(pushed') => Passed(em[d])'
    BY <2>5 DEF Passed
  <2> HIDE DEF IsSeq, Passed
  <2> QED
    BY <2>3, <2>4, <2>6 DEF IdInv
<1> QED
  BY <1>1, <1>2, <1>3, <1>4

(* An emitter that Moved may be.                                           *)
LEMMA MovedMayBe ==
    ASSUME EmInv, ArrInv, LabelsKept, IdInv, NEW e \in Emitters, NEW r, Moved(em[e], r)
    PROVE  MayBe(e, r, Len(calls), pushed)
<1> DEFINE s == em[e]
<1>1. r.id # 0 => /\ config # Blackhole /\ r.id <= Len(calls)
                  /\ \A d \in Emitters \ {e} : em[d].id # r.id
                  /\ r.id \in Range(pushed) => Passed(r)
  BY DEF Moved, EmInv, IdInv
<1>2. ASSUME r.steady PROVE Holds(config, filter, r.tags, r.arr)
  <2>1. s.steady /\ r.arr = s.arr /\ r.tags = s.tags
    BY <1>2 DEF Moved
  <2> QED
    BY <2>1 DEF ArrInv
<1>3. ASSUME r.id # 0, r.steady PROVE Carries(config, filter, r.tags, r.labels)
  <2>1. s.steady /\ r.tags = s.tags /\ s.id # 0 /\ r.labels = s.labels
    BY <1>3 DEF Moved
  <2> QED
    BY <2>1 DEF LabelsKept
<1> QED
  BY <1>1, <1>2, <1>3, Zenon DEF Moved, MayBe

(* The invariants after a step of an emitter that Moved.                   *)
LEMMA EmitterMoves ==
    ASSUME EmInv, ArrInv, LabelsKept, IdInv, NEW e \in Emitters, NEW r,
           em' = [em EXCEPT ![e] = r], Moved(em[e], r),
           UNCHANGED <<config, filter, lastNumGC, pushed>>,
           IsSeq(calls'), Len(calls') = Len(calls)
    PROVE  EmInv' /\ ArrInv' /\ LabelsKept' /\ IdInv'
<1>1. MayBe(e, r, Len(calls'), pushed')
  BY MovedMayBe
<1>2. Len(calls) \in Nat /\ lastNumGC' \in Nat
  BY DEF IdInv, IsSeq, EmInv
<1>3. pushed' \in Seq(Nat) /\ IsInjective(pushed') /\ \A i \in 1..Len(pushed') : pushed'[i] <= Len(calls')
  BY DEF IdInv
<1>4. Len(calls') >= Len(calls)
  BY <1>2
<1>5. \A d \in Emitters \ {e} : em[d].id # 0 /\ em[d].id \in Range(pushed') => em[d].id \in Range(pushed)
  OBVIOUS
<1> QED
  BY <1>1, <1>2, <1>3, <1>4, <1>5, EmitterBecomes, Zenon

(* The steps in the sinks other than the push.                             *)
LEMMA SinkStep ==
    ASSUME EmInv, ArrInv, LabelsKept, IdInv, NEW e \in Emitters,
           Clock(e) \/ Existing(e) \/ Create(e) \/ Update(e) \/ PromSink(e) \/ DogSink(e)
    PROVE  EmInv' /\ ArrInv' /\ LabelsKept' /\ IdInv'
<1> DEFINE s == em[e]
<1>0. IsEm(s) /\ DOMAIN em = Emitters
  BY DEF EmInv
<1>s. s.pc \in InSinks /\ s.id # 0 /\ SinkOf(s.pc) \in Range(config.fanout) /\ config # Blackhole
  <2>1. s.pc \in InSinks
    BY DEF Clock, Existing, Create, Update, PromSink, DogSink, InSinks
  <2>2. s.id # 0
    BY <1>0, <2>1 DEF IsEm, InSinks, Outside
  <2> QED
    BY <2>1, <2>2 DEF EmInv
<1>c. IsSeq(calls)
  BY DEF IdInv
(* Within the in-memory sink.                                              *)
<1>p. ASSUME NEW pc \in {"existing", "create", "update"}, NEW r, s.pc \in {"clock", "existing", "create"},
             IsEm(r), r.pc = pc, r.id = s.id, r.labels = s.labels,
             r.steady = s.steady, r.arr = s.arr, r.tags = s.tags
      PROVE  Moved(s, r)
  <2>1. SinkOf(r.pc) = SinkOf(s.pc)
    BY <1>p DEF SinkOf
  <2>2. Passed(r) = Passed(s)
    BY <2>1 DEF Passed
  <2> QED
    BY <1>s, <1>p, <2>1, <2>2 DEF Moved
<1>1. CASE Clock(e)
  <2> DEFINE r == [s EXCEPT !.pc = "existing", !.intv = Truncated(now)]
  <2>1. em' = [em EXCEPT ![e] = r]
    BY <1>1 DEF Clock
  <2>2. calls' = [calls EXCEPT ![s.id] = [calls[s.id] EXCEPT !.intv = Truncated(now)]]
    BY <1>1 DEF Clock
  <2>3. IsSeq(calls') /\ Len(calls') = Len(calls)
    BY <1>c, <2>2, ExceptIsSeq
  <2>4. /\ IsEm(r) /\ r.pc = "existing" /\ r.id = s.id /\ r.labels = s.labels
        /\ r.steady = s.steady /\ r.arr = s.arr /\ r.tags = s.tags
    <3>1. "existing" \in InSinks /\ IsSeq(s.key)
      BY <1>0 DEF IsEm, InSinks
    <3>w. r = WithIntv(WithPc(s, "existing"), Truncated(now))
      BY DEF WithIntv, WithPc
    <3> HIDE DEF r, s
    <3>2. r = InPlace(s, "existing", s.key, Truncated(now), s.ptr)
      BY <1>0, <3>w, OwnPlace, InPlaceForms
    <3> QED
      BY <1>0, <1>s, <3>1, <3>2, InPlaceKeeps
  <2>5. s.pc = "clock" /\ UNCHANGED <<config, filter, lastNumGC, pushed>>
    BY <1>1 DEF Clock, frontVars, statsdVars
  <2> HIDE DEF r, s
  <2>6. Moved(s, r)
    BY <1>p, <2>4, <2>5
  <2> QED
    BY <2>1, <2>3, <2>5, <2>6, EmitterMoves DEF s
<1>2. CASE Existing(e) \/ Create(e)
  <2>1. PICK pc, p : pc \in {"create", "update"} /\ em' = [em EXCEPT ![e].pc = pc, ![e].ptr = p]
    BY <1>2 DEF Existing, Create
  <2> DEFINE r == [s EXCEPT !.pc = pc, !.ptr = p]
  <2>2. em' = [em EXCEPT ![e] = r]
    BY <2>1
  <2>3. s.pc \in {"existing", "create"} /\ UNCHANGED <<config, filter, lastNumGC, pushed, calls>>
    BY <1>2 DEF Existing, Create, frontVars, statsdVars
  <2>4. /\ IsEm(r) /\ r.pc = pc /\ r.id = s.id /\ r.labels = s.labels
        /\ r.steady = s.steady /\ r.arr = s.arr /\ r.tags = s.tags
    <3>1. pc \in InSinks /\ IsSeq(s.key)
      BY <1>0, <2>1 DEF IsEm, InSinks
    <3>w. r = WithPtr(WithPc(s, pc), p)
      BY DEF WithPtr, WithPc
    <3> HIDE DEF r, s
    <3>2. r = InPlace(s, pc, s.key, s.intv, p)
      BY <1>0, <3>w, OwnPlace, InPlaceForms
    <3> QED
      BY <1>0, <1>s, <3>1, <3>2, InPlaceKeeps
  <2> HIDE DEF r, s
  <2>5. Moved(s, r)
    BY <1>p, <2>1, <2>3, <2>4
  <2> QED
    BY <1>c, <2>2, <2>3, <2>5, EmitterMoves DEF s
(* On to the next sink, with a change that matters to nobody here.         *)
<1>q. ASSUME NEW t, NEW sink, IsEm(t), t.pc = s.pc, t.id = s.id, t.labels = s.labels, t.steady = s.steady,
             t.arr = s.arr, t.tags = s.tags, SinkOf(s.pc) = sink
      PROVE  Moved(s, AfterSink(t, sink))
  <2>1. Passed(t) = Passed(s)
    BY <1>q DEF Passed
  <2>2. Moved(t, AfterSink(t, sink))
    BY <1>s, <1>q, AfterSinkMoves
  <2> QED
    BY <1>q, <2>1, <2>2 DEF Moved
<1>3. CASE Update(e)
  <2> DEFINE t == [s EXCEPT !.intv = 0, !.ptr = 0]
  <2>1. em' = [em EXCEPT ![e] = AfterSink(t, "inmem")]
    BY <1>3 DEF Update
  <2>2. s.pc = "update" /\ UNCHANGED <<config, filter, lastNumGC, pushed, calls>>
    BY <1>3 DEF Update, frontVars, statsdVars
  <2>3. /\ IsEm(t) /\ t.pc = s.pc /\ t.id = s.id /\ t.labels = s.labels
        /\ t.steady = s.steady /\ t.arr = s.arr /\ t.tags = s.tags
    <3>1. IsSeq(s.key)
      BY <1>0 DEF IsEm
    <3>w. t = WithPtr(WithIntv(s, 0), 0)
      BY DEF WithPtr, WithIntv
    <3> HIDE DEF t, s
    <3>2. t = InPlace(s, s.pc, s.key, 0, 0)
      BY <1>0, <3>w, OwnPlace, InPlaceForms
    <3> QED
      BY <1>0, <1>s, <3>1, <3>2, InPlaceKeeps
  <2>4. SinkOf(s.pc) = "inmem"
    BY <2>2 DEF SinkOf
  <2> HIDE DEF t, s
  <2>5. Moved(s, AfterSink(t, "inmem"))
    BY <1>q, <2>3, <2>4
  <2> QED
    BY <1>c, <2>1, <2>2, <2>5, EmitterMoves DEF s
<1>4. CASE PromSink(e)
  <2>1. em' = [em EXCEPT ![e] = AfterSink(s, "prometheus")]
    BY <1>4 DEF PromSink
  <2>2. s.pc = "prometheus" /\ UNCHANGED <<config, filter, lastNumGC, pushed, calls>>
    BY <1>4 DEF PromSink, frontVars, statsdVars
  <2>3. SinkOf(s.pc) = "prometheus"
    BY <2>2 DEF SinkOf
  <2> HIDE DEF s
  <2>4. Moved(s, AfterSink(s, "prometheus"))
    BY <1>0, <1>q, <2>3
  <2> QED
    BY <1>c, <2>1, <2>2, <2>4, EmitterMoves DEF s
<1>5. CASE DogSink(e)
  <2> DEFINE k == Spliced(s.key, config.hostName)
             t == [s EXCEPT !.key = k]
  <2>1. em' = [em EXCEPT ![e] = AfterSink(t, "dogstatsd")]
    BY <1>5 DEF DogSink
  <2>2. s.pc = "dogstatsd" /\ UNCHANGED <<config, filter, lastNumGC, pushed, calls>>
    BY <1>5 DEF DogSink, frontVars, statsdVars
  <2>3. IsSeq(k)
    BY <1>0, SplicedIsSeq DEF IsEm
  <2> HIDE DEF k
  <2>4. /\ IsEm(t) /\ t.pc = s.pc /\ t.id = s.id /\ t.labels = s.labels
        /\ t.steady = s.steady /\ t.arr = s.arr /\ t.tags = s.tags
    <3>w. t = WithKey(s, k)
      BY DEF WithKey
    <3> HIDE DEF t, s
    <3>1. t = InPlace(s, s.pc, k, s.intv, s.ptr)
      BY <1>0, <3>w, OwnPlace, InPlaceForms
    <3> QED
      BY <1>0, <1>s, <2>3, <3>1, InPlaceKeeps
  <2>5. SinkOf(s.pc) = "dogstatsd"
    BY <2>2 DEF SinkOf
  <2> HIDE DEF t, s
  <2>6. Moved(s, AfterSink(t, "dogstatsd"))
    BY <1>q, <2>4, <2>5
  <2> QED
    BY <1>c, <2>1, <2>2, <2>6, EmitterMoves DEF s
<1> QED
  BY <1>1, <1>2, <1>3, <1>4, <1>5

(* Requests are sequences of calls,                                        *)
LEMMA RequestCalls ==
    ASSUME NEW r \in Requests
    PROVE  IsCalls(r.calls) /\ Len(r.calls) >= 1 /\ r.tags \in Seq(Tags)
<1> DEFINE C == [op : Kinds, typ : STRING, key : Seq(STRING), val : Int]
           cs == r.calls
<1>1. cs \in Seq(C) /\ cs # <<>> /\ r.tags \in Seq(Tags)
  BY RequestAssumption
<1>2. \A i \in 1..Len(cs) : cs[i].key \in Seq(STRING)
  <2>1. \A i \in 1..Len(cs) : cs[i] \in C
    <3> HIDE DEF C, cs
    <3> QED
      BY <1>1
  <2> QED
    BY <2>1
<1> HIDE DEF C, cs
<1>3. Len(cs) >= 1
  BY <1>1
<1>4. IsSeq(cs) /\ \A i \in 1..Len(cs) : IsSeq(cs[i].key)
  BY <1>1, <1>2, SeqIsSeq
<1> QED
  BY <1>1, <1>3, <1>4 DEF IsCalls, cs

(* and so are collections.                                                 *)
LEMMA CollectedCalls ==
    ASSUME NEW last \in Nat, NEW num \in Nat
    PROVE  IsCalls(RuntimeCalls(last, num)) /\ Len(RuntimeCalls(last, num)) >= 1
<1> DEFINE k == num - FirstPause(last, num)
           a == [op |-> "gauge", typ |-> "gauge", key |-> <<"runtime">>, val |-> num]
           b == [op |-> "sample", typ |-> "sample", key |-> <<"runtime">>, val |-> 1]
           s == <<a>>
           t == [i \in 1..k |-> b]
           cs == RuntimeCalls(last, num)
<1>1. k \in Nat
  BY PauseAssumption DEF FirstPause
<1>2. IsSeq(<<"runtime">>)
  <2>1. <<"runtime">> \in Seq({"runtime"})
    OBVIOUS
  <2> QED
    BY <2>1, SeqIsSeq
<1>3. a.key = <<"runtime">> /\ b.key = <<"runtime">>
  OBVIOUS
<1>4. cs = s \o t
  BY DEF RuntimeCalls
<1> HIDE DEF k, a, b, cs
<1>5. s \in Seq({a, b}) /\ t \in Seq({a, b}) /\ Len(s) = 1 /\ Len(t) = k
  BY <1>1
<1> HIDE DEF s, t
<1>6. cs \in Seq({a, b}) /\ Len(cs) = 1 + k
  <2>1. s \o t \in Seq({a, b}) /\ Len(s \o t) = Len(s) + Len(t)
    BY <1>5, ConcatProperties, Zenon
  <2> QED
    BY <1>4, <1>5, <2>1, Zenon
<1>7. \A i \in 1..Len(cs) : cs[i] \in {a, b}
  BY <1>6
<1>8. \A i \in 1..Len(cs) : IsSeq(cs[i].key)
  BY <1>2, <1>3, <1>7
<1>9. IsSeq(cs) /\ Len(cs) >= 1
  BY <1>1, <1>6, SeqIsSeq
<1> QED
  BY <1>8, <1>9 DEF IsCalls, cs

(* A request begins.                                                       *)
LEMMA StartStep ==
    ASSUME EmInv, ArrInv, LabelsKept, IdInv, NEW e \in Emitters, NEW cs, NEW tags \in Seq(Tags),
           Start(e, cs, tags), IsCalls(cs), Len(cs) >= 1, lastNumGC' \in Nat
    PROVE  EmInv' /\ ArrInv' /\ LabelsKept' /\ IdInv'
<1> DEFINE r == [IdleEm EXCEPT !.pc = "call", !.calls = cs, !.steady = TRUE,
                               !.arr = tags, !.tags = tags]
<1>1. em' = [em EXCEPT ![e] = r] /\ UNCHANGED <<config, filter, calls, pushed>>
  BY DEF Start, statsdVars
<1>3. /\ r.pc = "call" /\ r.calls = cs /\ r.tags = tags /\ r.arr = tags
      /\ r.key = <<>> /\ r.labels = <<>> /\ r.id = 0
  BY DEF IdleEm
<1>a. /\ r = [x \in DOMAIN IdleEm |-> r[x]]
      /\ DOMAIN IdleEm = {"pc", "calls", "tags", "steady", "arr", "key", "labels", "id", "intv", "ptr"}
  BY DEF IdleEm
<1> HIDE DEF r
<1>4. r = [pc |-> r.pc, calls |-> r.calls, tags |-> r.tags, steady |-> r.steady, arr |-> r.arr,
           key |-> r.key, labels |-> r.labels, id |-> r.id, intv |-> r.intv, ptr |-> r.ptr]
  BY <1>a
<1>5. IsEm(r)
  BY <1>3, <1>4, EmptyIsSeq DEF IsEm, Outside, InSinks
<1>6. MayBe(e, r, Len(calls'), pushed')
  <2>1. r.pc \notin InSinks
    BY <1>3 DEF InSinks
  <2>2. Holds(config, filter, r.tags, r.arr)
    BY <1>3, Zenon DEF Holds
  <2> QED
    BY <1>3, <1>5, <2>1, <2>2, Zenon DEF MayBe
<1>7. IsSeq(calls') /\ Len(calls') >= Len(calls)
  BY <1>1 DEF IdInv, IsSeq
<1>8. pushed' \in Seq(Nat) /\ IsInjective(pushed') /\ \A i \in 1..Len(pushed') : pushed'[i] <= Len(calls')
  BY <1>1 DEF IdInv
<1>9. \A d \in Emitters \ {e} : em[d].id # 0 /\ em[d].id \in Range(pushed') => em[d].id \in Range(pushed)
  BY <1>1
<1> QED
  BY <1>1, <1>6, <1>7, <1>8, <1>9, EmitterBecomes, Zenon

(* By a caller, or by the collector.                                       *)
LEMMA BeginStep ==
    ASSUME EmInv, ArrInv, LabelsKept, IdInv, NEW e \in Emitters,
           Begin(e) \/ \E num \in {0, lastNumGC + 1, lastNumGC + 2} : CollectStats(e, num)
    PROVE  EmInv' /\ ArrInv' /\ LabelsKept' /\ IdInv'
<1>0. lastNumGC \in Nat
  BY DEF EmInv
<1>1. CASE Begin(e)
  <2>1. PICK r \in Requests : Start(e, r.calls, r.tags)
    BY <1>1 DEF Begin
  <2>2. lastNumGC' \in Nat
    BY <1>0, <1>1 DEF Begin
  <2> QED
    BY <2>1, <2>2, RequestCalls, StartStep
<1>2. CASE \E num \in {0, lastNumGC + 1, lastNumGC + 2} : CollectStats(e, num)
  <2>1. PICK num \in {0, lastNumGC + 1, lastNumGC + 2} : CollectStats(e, num)
    BY <1>2
  <2>2. num \in Nat
    BY <1>0
  <2>3. Start(e, RuntimeCalls(lastNumGC, num), <<>>) /\ lastNumGC' \in Nat
    BY <2>1, <2>2 DEF CollectStats
  <2>4. <<>> \in Seq(Tags)
    BY EmptySeq
  <2>5. IsCalls(RuntimeCalls(lastNumGC, num)) /\ Len(RuntimeCalls(lastNumGC, num)) >= 1
    BY <1>0, <2>2, CollectedCalls
  <2> QED
    BY <2>3, <2>4, <2>5, StartStep
<1> QED
  BY <1>1, <1>2

(* Sequences put one after the other.                                      *)
LEMMA CatIsSeq == \A s, t : IsSeq(s) /\ IsSeq(t) => IsSeq(Cat(s, t))
<1> SUFFICES ASSUME NEW s, NEW t, IsSeq(s), IsSeq(t) PROVE IsSeq(Cat(s, t))
  OBVIOUS
<1> DEFINE S == Range(s) \cup Range(t)
<1>1. s \in Seq(Range(s)) /\ t \in Seq(Range(t))
  BY OverItsRange
<1>2. s \in Seq(S) /\ t \in Seq(S)
  BY <1>1
<1> HIDE DEF S
<1>3. Cat(s, t) \in Seq(S)
  BY <1>2, ConcatProperties DEF Cat
<1> QED
  BY <1>3, SeqIsSeq

(* A sequence of one.                                                      *)
LEMMA OneIsSeq == \A x : IsSeq(<<x>>)
<1> TAKE x
<1>1. <<x>> \in Seq({x})
  OBVIOUS
<1> QED
  BY <1>1, SeqIsSeq

(* What prepare makes of a key,                                            *)
LEMMA PreparedIsSeq ==
    ASSUME NEW typ, NEW key, IsSeq(key)
    PROVE  IsSeq(PreparedKey(config, typ, key))
<1> DEFINE a == Opt(config.globalPrefix)
           b == IF config.enableServiceLabel THEN <<>> ELSE Opt(config.serviceName)
           c == IF config.enableTypePrefix THEN <<typ>> ELSE <<>>
           d == IF config.enableHostname /\ ~config.enableHostnameLabel THEN Opt(config.hostName) ELSE <<>>
<1>1. \A x : IsSeq(Opt(x))
  BY EmptyIsSeq, OneIsSeq, Zenon DEF Opt
<1>2. IsSeq(a) /\ IsSeq(b) /\ IsSeq(c) /\ IsSeq(d)
  BY <1>1, EmptyIsSeq, OneIsSeq, Zenon
<1>3. PreparedKey(config, typ, key) = Cat(Cat(Cat(Cat(a, b), c), d), key)
  BY Zenon DEF PreparedKey, Cat
<1> HIDE DEF a, b, c, d
<1>4. IsSeq(Cat(a, b))
  BY <1>2, CatIsSeq
<1>5. IsSeq(Cat(Cat(a, b), c))
  BY <1>2, <1>4, CatIsSeq
<1>6. IsSeq(Cat(Cat(Cat(a, b), c), d))
  BY <1>2, <1>5, CatIsSeq
<1> QED
  BY <1>3, <1>6, CatIsSeq

(* and appends to the tags.                                                *)
LEMMA ExtraIsSeq == ASSUME EmInv, config # Blackhole PROVE IsSeq(ExtraTags(config))
<1> DEFINE b == IF config.hostName # "" /\ config.enableHostnameLabel
                THEN <<[name |-> "host", value |-> config.hostName]>> ELSE <<>>
           c == IF config.serviceName # "" /\ config.enableServiceLabel
                THEN <<[name |-> "service", value |-> config.serviceName]>> ELSE <<>>
           a == config.globalTags
<1>1. IsSeq(a)
  <2>1. a \in Seq(Tags)
    BY ConfigAssumption DEF EmInv
  <2> QED
    BY <2>1, SeqIsSeq
<1>2. IsSeq(b) /\ IsSeq(c)
  BY EmptyIsSeq, OneIsSeq, Zenon
<1>3. ExtraTags(config) = Cat(Cat(a, b), c)
  BY Zenon DEF ExtraTags, Cat
<1> HIDE DEF a, b, c
<1>4. IsSeq(Cat(a, b))
  BY <1>1, <1>2, CatIsSeq
<1> QED
  BY <1>2, <1>3, <1>4, CatIsSeq

(* filterLabels overwrites the array, and keeps in it what is allowed.     *)
LEMMA FilteredArr ==
    ASSUME NEW tags \in Seq(Tags), NEW f
    PROVE  /\ FilteredInPlace(f, tags) \in Seq(Tags)
           /\ {t \in Range(FilteredInPlace(f, tags)) : labelIsAllowed(f, t)}
                = {t \in Range(tags) : labelIsAllowed(f, t)}
           /\ (\A t \in Range(tags) : labelIsAllowed(f, t)) => FilteredInPlace(f, tags) = tags
<1> DEFINE kept == filterLabels(f, tags)
           rest == SubSeq(tags, Len(kept) + 1, Len(tags))
<1>1. kept \in Seq(Tags) /\ Len(kept) <= Len(tags) /\ Range(kept) = {t \in Range(tags) : labelIsAllowed(f, t)}
  BY FilterKeeps
<1>2. FilteredInPlace(f, tags) = kept \o rest
  BY DEF FilteredInPlace
<1> HIDE DEF kept
<1>3. Len(kept) + 1 \in 1..(Len(tags) + 1)
  BY <1>1
<1>4. rest \in Seq(Tags) /\ Range(rest) \subseteq Range(tags)
  BY <1>3, RangeSubSeq
<1> HIDE DEF rest
<1>5. kept \o rest \in Seq(Tags) /\ Range(kept \o rest) = Range(kept) \cup Range(rest)
  BY <1>1, <1>4, ConcatProperties, RangeCat
<1>6. {t \in Range(kept \o rest) : labelIsAllowed(f, t)} = {t \in Range(tags) : labelIsAllowed(f, t)}
  BY <1>1, <1>4, <1>5, Zenon
<1>7. ASSUME \A t \in Range(tags) : labelIsAllowed(f, t) PROVE FilteredInPlace(f, tags) = tags
  <2>1. kept = tags
    BY <1>7, FilterKeeps DEF kept
  <2>2. SubSeq(tags, Len(tags) + 1, Len(tags)) = <<>>
    <3>1. Len(tags) + 1 \in Int /\ Len(tags) \in Int /\ Len(tags) < Len(tags) + 1
      OBVIOUS
    <3> QED
      BY <3>1, SubSeqEmpty
  <2>3. tags \o <<>> = tags
    BY ConcatEmptySeq
  <2> QED
    BY <1>2, <2>1, <2>2, <2>3, Zenon DEF rest
<1> QED
  BY <1>2, <1>5, <1>6, <1>7, Zenon

(* The labels of a metric: what is allowed of the array and of the extra.  *)
LEMMA FilteredAll ==
    ASSUME NEW tags \in Seq(Tags), NEW more, IsSeq(more), NEW f
    PROVE  /\ IsSeq(filterLabels(f, tags \o more))
           /\ Range(filterLabels(f, tags \o more))
                = {t \in Range(tags) \cup Range(more) : labelIsAllowed(f, t)}
<1> DEFINE S == Tags \cup Range(more)
<1>1. more \in Seq(Range(more))
  BY OverItsRange
<1>2. tags \in Seq(S) /\ more \in Seq(S)
  <2> HIDE DEF Tags
  <2> QED
    BY <1>1
<1> HIDE DEF S
<1>3. tags \o more \in Seq(S) /\ Range(tags \o more) = Range(tags) \cup Range(more)
  BY <1>2, ConcatProperties, RangeCat
<1>4. /\ filterLabels(f, tags \o more) \in Seq(S)
      /\ Range(filterLabels(f, tags \o more)) = {t \in Range(tags \o more) : labelIsAllowed(f, t)}
  <2> DEFINE all == tags \o more
  <2>1. all \in Seq(S)
    BY <1>3
  <2> HIDE DEF all
  <2>2. filterLabels(f, all) \in Seq(S) /\ Range(filterLabels(f, all)) = {t \in Range(all) : labelIsAllowed(f, t)}
    BY <2>1, FilterKeeps
  <2> QED
    BY <2>2, Zenon DEF all
<1>5. IsSeq(filterLabels(f, tags \o more))
  BY <1>4, SeqIsSeq
<1> QED
  BY <1>3, <1>4, <1>5, Zenon

(* Before NewGlobal nothing is emitted.                                    *)
LEMMA NothingAllowed ==
    ASSUME EmInv, config = Blackhole, NEW key
    PROVE  ~allowMetric(config, filter, key)
<1>1. filter = NoFilter
  BY DEF EmInv
<1>2. {p \in filter.allow \cup filter.block : IsPrefix(p, key)} = {}
  BY <1>1 DEF NoFilter
<1>3. allowMetric(config, filter, key) = config.filterDefault
  BY <1>2, Zenon DEF allowMetric
<1>4. config.filterDefault = FALSE
  BY DEF Blackhole
<1> QED
  BY <1>3, <1>4

(* A call is prepared, and refused or sent to the first sink.              *)
LEMMA PrepareStep ==
    ASSUME EmInv, ArrInv, LabelsKept, IdInv, NEW e \in Emitters, Prepare(e)
    PROVE  EmInv' /\ ArrInv' /\ LabelsKept' /\ IdInv'
<1> DEFINE s == em[e]
           extra  == ExtraTags(config)
           key    == PreparedKey(config, Call(e).typ, Call(e).key)
           labels == filterLabels(filter, s.arr \o extra)
           arr    == IF extra = <<>> THEN FilteredInPlace(filter, s.arr) ELSE s.arr
           OK(A)  == {t \in A : labelIsAllowed(filter, t)}
<1>0. IsEm(s) /\ DOMAIN em = Emitters /\ s.pc = "call"
  BY DEF EmInv, Prepare
<1>1. /\ s.arr \in Seq(Tags) /\ IsSeq(s.key) /\ IsSeq(s.labels) /\ s.id = 0
      /\ IsCalls(s.calls) /\ Len(s.calls) >= 1
      /\ s = [pc |-> s.pc, calls |-> s.calls, tags |-> s.tags, steady |-> s.steady, arr |-> s.arr,
              key |-> s.key, labels |-> s.labels, id |-> s.id, intv |-> s.intv, ptr |-> s.ptr]
  BY <1>0 DEF IsEm, Outside
<1>2. arr \in Seq(Tags) /\ OK(Range(arr)) = OK(Range(s.arr))
  <2>1. CASE extra = <<>>
    <3> HIDE DEF s, extra, OK
    <3>1. arr = FilteredInPlace(filter, s.arr)
      BY <2>1
    <3> HIDE DEF arr
    <3> QED
      BY <1>1, <3>1, FilteredArr, Zenon DEF OK
  <2>2. CASE extra # <<>>
    BY <1>1, <2>2, Zenon
  <2> QED
    BY <2>1, <2>2
<1>3. s.steady => Holds(config, filter, s.tags, arr)
  <2> SUFFICES ASSUME s.steady PROVE Holds(config, filter, s.tags, arr)
    OBVIOUS
  <2>1. Holds(config, filter, s.tags, s.arr)
    BY DEF ArrInv
  <2>2. OK(Range(arr)) = OK(Range(s.tags))
    BY <1>2, <2>1, Zenon DEF Holds
  <2>3. ASSUME Untouched(config, filter, s.tags) PROVE arr = s.tags
    <3>1. s.arr = s.tags
      BY <2>1, <2>3 DEF Holds
    <3>2. CASE extra # <<>>
      BY <3>1, <3>2, Zenon
    <3>3. CASE extra = <<>>
      <4>1. \A t \in Range(s.arr) : labelIsAllowed(filter, t)
        BY <2>3, <3>1, <3>3, Zenon DEF Untouched
      <4>2. FilteredInPlace(filter, s.arr) = s.arr
        BY <1>1, <4>1, FilteredArr, Zenon
      <4> QED
        BY <3>1, <3>3, <4>2, Zenon
    <3> QED
      BY <3>2, <3>3
  <2> QED
    BY <2>2, <2>3, Zenon DEF Holds
<1>4. IsSeq(key)
  BY <1>1, TailCalls, PreparedIsSeq DEF Call
<1>5. UNCHANGED <<config, filter, lastNumGC, pushed>>
  BY DEF Prepare, frontVars, statsdVars
<1>n. /\ IsSeq(calls) /\ Len(calls) \in Nat /\ lastNumGC' \in Nat
      /\ \A d \in Emitters : em[d].id <= Len(calls) /\ em[d].id \in Nat
  BY <1>5 DEF IdInv, IsSeq, EmInv, IsEm
<1>p. /\ pushed' \in Seq(Nat) /\ IsInjective(pushed')
      /\ \A d \in Emitters \ {e} : em[d].id # 0 /\ em[d].id \in Range(pushed') => em[d].id \in Range(pushed)
      /\ \A i \in 1..Len(pushed') : pushed'[i] <= Len(calls)
  BY <1>5 DEF IdInv
<1>6. CASE allowMetric(config, filter, key)
  <2> DEFINE n == Len(calls) + 1
             pc == FirstStep(config.fanout[1])
             r == [s EXCEPT !.pc = pc, !.arr = arr, !.key = key, !.labels = labels, !.id = n]
             new == [kind |-> Call(e).op, hash |-> <<key, labels>>, val |-> Call(e).val, intv |-> NoTime]
  <2>1. em' = [em EXCEPT ![e].pc = pc, ![e].arr = arr, ![e].key = key, ![e].labels = labels, ![e].id = n]
        /\ calls' = Append(calls, new)
    BY <1>6 DEF Prepare
  <2>2. em' = [em EXCEPT ![e] = r]
    BY <2>1
  <2>3. config # Blackhole
    BY <1>6, NothingAllowed
  <2>4. pc \in InSinks /\ SinkOf(pc) \in Range(config.fanout)
    <3>1. 1 \in 1..Len(config.fanout) /\ config.fanout \in Seq(Sinks)
      BY <2>3, Fanout
    <3>2. config.fanout[1] \in Sinks /\ config.fanout[1] \in Range(config.fanout)
      BY <3>1 DEF Range
    <3> QED
      BY <3>2, FirstSteps
  <2>5. IsSeq(labels) /\ Range(labels) = OK(Range(s.arr) \cup Range(extra))
    <3>1. IsSeq(extra)
      BY <2>3, ExtraIsSeq
    <3> HIDE DEF s, extra
    <3> QED
      BY <1>1, <3>1, FilteredAll, Zenon
  <2>6. s.steady => Carries(config, filter, s.tags, labels)
    <3> SUFFICES ASSUME s.steady PROVE Carries(config, filter, s.tags, labels)
      OBVIOUS
    <3>1. Holds(config, filter, s.tags, s.arr)
      BY DEF ArrInv
    <3>2. OK(Range(s.arr)) = OK(Range(s.tags))
      BY <3>1, Zenon DEF Holds
    <3>3. Untouched(config, filter, s.tags) => labels = filterLabels(filter, Given(config, s.tags))
      BY <3>1, Zenon DEF Holds, Given
    <3> HIDE DEF s, labels
    <3>4. Range(labels) = OK(Range(s.tags) \cup Range(extra))
      <4> HIDE DEF extra
      <4> QED
        BY <2>5, <3>2
    <3> QED
      BY <3>3, <3>4, Zenon DEF Carries
  <2>c. IsSeq(calls') /\ Len(calls') = n
    BY <1>n, <2>1, AppendIsSeq
  <2>7. n \in Nat /\ n # 0 /\ (\A d \in Emitters : em[d].id # n) /\ n \notin Range(pushed')
    <3>1. \A i \in 1..Len(pushed') : pushed'[i] # n
      BY <1>n, <1>p
    <3>2. n \notin Range(pushed')
      BY <1>p, <3>1 DEF Range
    <3> QED
      BY <1>n, <3>2
  <2> HIDE DEF s, key, labels, arr, pc, n, extra, OK
  <2>8. /\ r.pc = pc /\ r.arr = arr /\ r.key = key /\ r.labels = labels /\ r.id = n
        /\ r.calls = s.calls /\ r.tags = s.tags /\ r.steady = s.steady
    BY <1>1
  <2>9. r = [pc |-> r.pc, calls |-> r.calls, tags |-> r.tags, steady |-> r.steady, arr |-> r.arr,
             key |-> r.key, labels |-> r.labels, id |-> r.id, intv |-> r.intv, ptr |-> r.ptr]
    <3>1. /\ r = [x \in DOMAIN s |-> r[x]]
          /\ DOMAIN s = {"pc", "calls", "tags", "steady", "arr", "key", "labels", "id", "intv", "ptr"}
      BY <1>1
    <3> HIDE DEF r
    <3> QED
      BY <3>1
  <2> HIDE DEF r
  <2>10. IsEm(r)
    <3>1. pc \notin Outside
      BY <2>4 DEF Outside, InSinks
    <3> QED
      BY <1>1, <1>2, <1>4, <2>4, <2>5, <2>7, <2>8, <2>9, <3>1 DEF IsEm
  <2>11. r.steady => Holds(config, filter, r.tags, r.arr)
    BY <1>3, <2>8, Zenon
  <2>12. r.steady => Carries(config, filter, r.tags, r.labels)
    BY <2>6, <2>8, Zenon
  <2>13. r.id <= Len(calls')
    BY <2>c, <2>7, <2>8
  <2>14. MayBe(e, r, Len(calls'), pushed')
    BY <2>3, <2>4, <2>7, <2>8, <2>10, <2>11, <2>12, <2>13, Zenon DEF MayBe
  <2>15. Len(calls') >= Len(calls) /\ \A i \in 1..Len(pushed') : pushed'[i] <= Len(calls')
    BY <1>n, <1>p, <2>c DEF n
  <2> QED
    BY <1>5, <1>n, <1>p, <2>2, <2>c, <2>14, <2>15, EmitterBecomes, Zenon
<1>7. CASE ~allowMetric(config, filter, key)
  <2> DEFINE t == [s EXCEPT !.arr = arr]
             r == NextCall(t)
  <2>1. em' = [em EXCEPT ![e] = r] /\ UNCHANGED calls
    BY <1>7 DEF Prepare
  <2> HIDE DEF s, key, arr, extra, OK
  <2>2. /\ t.pc = s.pc /\ t.arr = arr /\ t.key = s.key /\ t.labels = s.labels /\ t.id = s.id
        /\ t.calls = s.calls /\ t.tags = s.tags /\ t.steady = s.steady
        /\ t = [pc |-> t.pc, calls |-> t.calls, tags |-> t.tags, steady |-> t.steady, arr |-> t.arr,
                key |-> t.key, labels |-> t.labels, id |-> t.id, intv |-> t.intv, ptr |-> t.ptr]
    BY <1>1
  <2> HIDE DEF t
  <2>3. IsEm(t) /\ t.pc # "idle"
    BY <1>0, <1>2, <2>2 DEF IsEm
  <2>4. Moved(t, r) /\ r.id = 0 /\ r.pc \in Outside
    BY <2>3, NextCallMoves
  <2> HIDE DEF r
  <2>5. r.pc \notin InSinks
    BY <2>4 DEF Outside, InSinks
  <2>6. r.steady => Holds(config, filter, r.tags, r.arr)
    BY <1>3, <2>2, <2>4, Zenon DEF Moved
  <2>7. MayBe(e, r, Len(calls'), pushed')
    BY <2>4, <2>5, <2>6, Zenon DEF MayBe, Moved
  <2>8. Len(calls') >= Len(calls) /\ IsSeq(calls') /\ \A i \in 1..Len(pushed') : pushed'[i] <= Len(calls')
    BY <1>n, <1>p, <2>1
  <2> QED
    BY <1>5, <1>n, <1>p, <2>1, <2>7, <2>8, EmitterBecomes, Zenon
<1> QED
  BY <1>6, <1>7

(* An emission that is in the statsd sink has not been pushed.             *)
LEMMA NotPushed ==
    ASSUME EmInv, IdInv, NEW e \in Emitters, em[e].pc = "statsd", em[e].id # 0, config # Blackhole
    PROVE  em[e].id \notin Range(pushed)
<1> SUFFICES ASSUME Passed(em[e]) PROVE FALSE
  BY DEF IdInv
<1>1. SinkOf(em[e].pc) = "statsd"
  BY DEF SinkOf
<1>2. PICK i, j \in 1..Len(config.fanout) :
         i < j /\ config.fanout[i] = "statsd" /\ config.fanout[j] = "statsd"
  BY <1>1 DEF Passed
<1>3. i = j
  BY <1>2, Fanout
<1> QED
  BY <1>2, <1>3

(* A push: panicked, accepted or dropped.                                  *)
LEMMA PushStep ==
    ASSUME EmInv, ArrInv, LabelsKept, IdInv, NEW e \in Emitters, Push(e)
    PROVE  EmInv' /\ ArrInv' /\ LabelsKept' /\ IdInv'
<1> DEFINE s == em[e]
<1>0. IsEm(s) /\ DOMAIN em = Emitters /\ s.pc = "statsd"
  BY DEF EmInv, Push
<1>1. /\ s.pc \in InSinks /\ s.id # 0 /\ SinkOf(s.pc) = "statsd"
      /\ config # Blackhole /\ "statsd" \in Range(config.fanout)
  <2>1. s.pc \in InSinks /\ SinkOf(s.pc) = "statsd"
    BY <1>0 DEF InSinks, SinkOf
  <2>2. s.id # 0
    BY <1>0, <2>1 DEF IsEm, InSinks, Outside
  <2> QED
    BY <2>1, <2>2 DEF EmInv
<1>2. IsSeq(calls) /\ Len(calls) \in Nat /\ UNCHANGED <<config, filter, lastNumGC, calls>>
  BY DEF IdInv, IsSeq, Push, frontVars
<1>3. CASE PushPanics
  <2> DEFINE r == [s EXCEPT !.pc = "panicked"]
  <2>1. em' = [em EXCEPT ![e] = r] /\ UNCHANGED pushed
    BY <1>3 DEF Push, statsdVars
  <2>2. r = WithPc(s, "panicked") /\ IsSeq(s.key)
    BY <1>0 DEF WithPc, IsEm
  <2> HIDE DEF r, s
  <2>3. r = InPlace(s, "panicked", s.key, s.intv, s.ptr)
    BY <1>0, <2>2, OwnPlace, InPlaceForms
  <2>4. /\ IsEm(r) /\ r.pc = "panicked"
        /\ r.id = s.id /\ r.labels = s.labels /\ r.steady = s.steady /\ r.arr = s.arr /\ r.tags = s.tags
    <3> DEFINE pc == "panicked"
    <3>1. pc \in InSinks \cup {"panicked"} /\ r = InPlace(s, pc, s.key, s.intv, s.ptr)
      BY <2>3
    <3> HIDE DEF pc
    <3>2. /\ IsEm(r) /\ r.pc = pc
          /\ r.id = s.id /\ r.labels = s.labels /\ r.steady = s.steady /\ r.arr = s.arr /\ r.tags = s.tags
      BY <1>0, <1>1, <2>2, <3>1, InPlaceKeeps
    <3> QED
      BY <3>2 DEF pc
  <2>5. ~Passed(s)
    <3>1. ASSUME Passed(s) PROVE FALSE
      <4>1. PICK i, j \in 1..Len(config.fanout) :
               i < j /\ config.fanout[i] = "statsd" /\ config.fanout[j] = "statsd"
        BY <1>1, <3>1 DEF Passed
      <4>2. i = j
        BY <1>1, <4>1, Fanout
      <4> QED
        BY <4>1, <4>2
    <3> QED
      BY <3>1
  <2>6. Moved(s, r)
    BY <2>4, <2>5 DEF Moved, InSinks
  <2> QED
    BY <1>2, <2>1, <2>6, EmitterMoves DEF s
<1>4. CASE ~PushPanics
  <2> DEFINE r == AfterSink(s, "statsd")
             m == [id |-> s.id, len |-> Len(flattenKeyLabels(s.key, s.labels))]
  <2>1. em' = [em EXCEPT ![e] = r] /\ pushMetric(m)
    BY <1>4 DEF Push
  <2>2. Moved(s, r) /\ (r.id # 0 => Passed(r))
    <3> HIDE DEF s
    <3> QED
      BY <1>0, <1>1, AfterSinkMoves
  <2>3. MayBe(e, r, Len(calls), pushed)
    <3> HIDE DEF r
    <3> QED
      BY <2>2, MovedMayBe
  <2>4. pushed' = pushed \/ pushed' = Append(pushed, s.id)
    BY <2>1 DEF pushMetric
  <2> HIDE DEF r
  <2>5. MayBe(e, r, Len(calls'), pushed')
    BY <1>2, <2>2, <2>3, Zenon DEF MayBe
  <2>6. /\ pushed \in Seq(Nat) /\ IsInjective(pushed) /\ \A i \in 1..Len(pushed) : pushed[i] <= Len(calls)
        /\ s.id \in Nat /\ s.id <= Len(calls) /\ s.id \notin Range(pushed)
    BY <1>0, <1>1, NotPushed DEF IdInv, IsEm
  <2>7. /\ pushed' \in Seq(Nat) /\ IsInjective(pushed') /\ Range(pushed') \subseteq Range(pushed) \cup {s.id}
        /\ \A i \in 1..Len(pushed') : pushed'[i] <= Len(calls)
    <3>1. CASE pushed' = pushed
      BY <2>6, <3>1
    <3>2. CASE pushed' = Append(pushed, s.id)
      <4> DEFINE p == pushed
                 x == s.id
                 q == pushed'
                 n == Len(p)
      <4>1. n \in Nat /\ q \in Seq(Nat) /\ Len(q) = n + 1 /\ q[n + 1] = x /\ \A i \in 1..n : q[i] = p[i]
        BY <2>6, <3>2
      <4>2. \A i \in 1..n : p[i] # x
        BY <2>6 DEF Range
      <4>3. \A i, j \in 1..n : p[i] = p[j] => i = j
        BY <2>6 DEF IsInjective
      <4>4. \A i, j \in 1..(n + 1) : q[i] = q[j] => i = j
        <5> HIDE DEF p, q, x, n
        <5> QED
          BY <4>1, <4>2, <4>3
      <4>5. IsInjective(q)
        BY <4>1, <4>4 DEF IsInjective
      <4>6. Range(q) = Range(p) \cup {x}
        BY <2>6, <3>2, RangeAppend
      <4>7. \A i \in 1..Len(q) : q[i] <= Len(calls)
        <5>1. x <= Len(calls) /\ \A i \in 1..n : p[i] <= Len(calls)
          BY <2>6
        <5> HIDE DEF p, q, x, n
        <5>2. \A i \in 1..(n + 1) : i = n + 1 \/ i \in 1..n
          BY <4>1
        <5> QED
          BY <4>1, <5>1, <5>2
      <4> QED
        BY <4>1, <4>5, <4>6, <4>7
    <3> QED
      BY <2>4, <3>1, <3>2
  <2>8. \A d \in Emitters \ {e} : em[d].id # 0 /\ em[d].id \in Range(pushed') => em[d].id \in Range(pushed)
    BY <2>7 DEF IdInv
  <2>9. IsSeq(calls') /\ Len(calls') >= Len(calls) /\ lastNumGC' \in Nat /\ Len(calls') = Len(calls)
    BY <1>2 DEF EmInv
  <2>10. \A i \in 1..Len(pushed') : pushed'[i] <= Len(calls')
    BY <2>7, <2>9
  <2> QED
    BY <1>2, <2>1, <2>5, <2>7, <2>8, <2>9, <2>10, EmitterBecomes, Zenon
<1> QED
  BY <1>3, <1>4

(* A new instance or new filters: nobody's request is steady any more.     *)
LEMMA FrontStep ==
    ASSUME EmInv, IdInv,
           \/ \E c \in Configs : NewGlobal(c)
           \/ \E f \in Filters : UpdateFilterAndLabels(f) \/ UpdateFilter(f)
    PROVE  EmInv' /\ ArrInv' /\ LabelsKept' /\ IdInv'
<1> DEFINE Shaken(s) == [s EXCEPT !.steady = FALSE]
<1>1. /\ em' = [e \in Emitters |-> Shaken(em[e])] /\ UNCHANGED <<lastNumGC, calls, pushed>>
      /\ \/ config = Blackhole /\ config' \in Configs
         \/ config # Blackhole /\ config' = config
      /\ config' # Blackhole \/ filter' = NoFilter
  BY DEF NewGlobal, UpdateFilterAndLabels, UpdateFilter, SetFilter, statsdVars
<1>2. ASSUME NEW s, IsEm(s)
      PROVE  /\ IsEm(Shaken(s)) /\ Shaken(s).steady = FALSE /\ Shaken(s).pc = s.pc /\ Shaken(s).id = s.id
  <2> DEFINE r == Shaken(s)
  <2>1. s = [pc |-> s.pc, calls |-> s.calls, tags |-> s.tags, steady |-> s.steady, arr |-> s.arr,
             key |-> s.key, labels |-> s.labels, id |-> s.id, intv |-> s.intv, ptr |-> s.ptr]
    BY <1>2 DEF IsEm
  <2>2. /\ r.pc = s.pc /\ r.arr = s.arr /\ r.key = s.key /\ r.labels = s.labels /\ r.id = s.id
        /\ r.calls = s.calls /\ r.tags = s.tags /\ r.steady = FALSE
    BY <2>1
  <2>a. /\ r = [x \in DOMAIN s |-> r[x]]
        /\ DOMAIN s = {"pc", "calls", "tags", "steady", "arr", "key", "labels", "id", "intv", "ptr"}
    BY <2>1
  <2> HIDE DEF r
  <2>b. r = [pc |-> r.pc, calls |-> r.calls, tags |-> r.tags, steady |-> r.steady, arr |-> r.arr,
             key |-> r.key, labels |-> r.labels, id |-> r.id, intv |-> r.intv, ptr |-> r.ptr]
    BY <2>a
  <2>3. IsEm(r)
    BY <1>2, <2>2, <2>b DEF IsEm
  <2> QED
    BY <2>2, <2>3 DEF r
<1>3. ASSUME NEW e \in Emitters
      PROVE  IsEm(em'[e]) /\ em'[e].steady = FALSE /\ em'[e].pc = em[e].pc /\ em'[e].id = em[e].id
  <2>1. IsEm(em[e]) /\ em'[e] = Shaken(em[e])
    BY <1>1 DEF EmInv
  <2> HIDE DEF Shaken
  <2> QED
    BY <1>2, <2>1
<1>4. DOMAIN em' = Emitters
  BY <1>1
<1> HIDE DEF Shaken
<1>5. ASSUME NEW e \in Emitters, em[e].id # 0 PROVE config' = config /\ config # Blackhole
  BY <1>1, <1>5 DEF EmInv
<1>6. EmInv'
  <2>1. \A e \in Emitters : em'[e].pc \in InSinks => SinkOf(em'[e].pc) \in Range(config'.fanout)
    <3> SUFFICES ASSUME NEW e \in Emitters, em[e].pc \in InSinks
                 PROVE  SinkOf(em[e].pc) \in Range(config'.fanout)
      BY <1>3
    <3>1. em[e].id # 0
      BY DEF EmInv, IsEm, Outside, InSinks
    <3> QED
      BY <1>5, <3>1 DEF EmInv
  <2>2. \A e \in Emitters : em'[e].id # 0 => config' # Blackhole
    BY <1>3, <1>5
  <2>3. config' \in Configs \cup {Blackhole} /\ lastNumGC' \in Nat
    BY <1>1 DEF EmInv
  <2>4. config' = Blackhole => filter' = NoFilter
    BY <1>1
  <2> QED
    BY <1>3, <1>4, <2>1, <2>2, <2>3, <2>4 DEF EmInv
<1>7. ArrInv' /\ LabelsKept'
  BY <1>3, Zenon DEF ArrInv, LabelsKept
<1>8. IdInv'
  <2>1. \A e \in Emitters : em'[e].id # 0 /\ em'[e].id \in Range(pushed') => Passed(em[e])'
    <3> SUFFICES ASSUME NEW e \in Emitters, em[e].id # 0, em[e].id \in Range(pushed) PROVE Passed(em[e])'
      BY <1>1, <1>3
    <3>1. Passed(em[e]) /\ config' = config /\ em'[e].pc = em[e].pc
      BY <1>3, <1>5 DEF IdInv
    <3> QED
      BY <3>1 DEF Passed
  <2> HIDE DEF IsSeq, Passed
  <2>2. IsSeq(calls') /\ \A e \in Emitters : em'[e].id <= Len(calls')
    BY <1>1, <1>3 DEF IdInv
  <2>4. \A d, e \in Emitters : d # e /\ em'[d].id = em'[e].id => em'[e].id = 0
    <3>1. \A e \in Emitters : em'[e].id = em[e].id
      BY <1>3
    <3>2. \A d, e \in Emitters : d # e /\ em[d].id = em[e].id => em[e].id = 0
      BY DEF IdInv
    <3> QED
      BY <3>1, <3>2
  <2>3. pushed' \in Seq(Nat) /\ IsInjective(pushed') /\ \A i \in 1..Len(pushed') : pushed'[i] <= Len(calls')
    BY <1>1 DEF IdInv
  <2> QED
    BY <2>1, <2>2, <2>3, <2>4 DEF IdInv
<1> QED
  BY <1>6, <1>7, <1>8

(* The emitters' invariants under any step.                                *)
LEMMA EmittersStep ==
    EmInv /\ ArrInv /\ LabelsKept /\ IdInv /\ [Next]_vars => EmInv' /\ ArrInv' /\ LabelsKept' /\ IdInv'
<1> SUFFICES ASSUME EmInv, ArrInv, LabelsKept, IdInv, [Next]_vars
             PROVE  EmInv' /\ ArrInv' /\ LabelsKept' /\ IdInv'
  OBVIOUS
<1>1. CASE \E e \in Emitters :
             \/ Begin(e)
             \/ \E num \in {0, lastNumGC + 1, lastNumGC + 2} : CollectStats(e, num)
             \/ Prepare(e) \/ Clock(e) \/ Existing(e) \/ Create(e) \/ Update(e)
             \/ Push(e) \/ PromSink(e) \/ DogSink(e)
  BY <1>1, BeginStep, PrepareStep, SinkStep, PushStep
<1>2. CASE \/ \E c \in Configs : NewGlobal(c)
           \/ \E f \in Filters : UpdateFilterAndLabels(f) \/ UpdateFilter(f)
  BY <1>2, FrontStep
<1>3. ASSUME UNCHANGED <<config, filter, lastNumGC, em, calls, pushed>>
      PROVE  EmInv' /\ ArrInv' /\ LabelsKept' /\ IdInv'
  <2>1. EmInv' /\ IdInv'
    <3> HIDE DEF IsEm
    <3> QED
      BY <1>3 DEF EmInv, IdInv, Passed
  <2>2. ArrInv'
    BY <1>3 DEF ArrInv
  <2>3. LabelsKept'
    BY <1>3 DEF LabelsKept
  <2> QED
    BY <2>1, <2>2, <2>3
<1>4. CASE \E r \in Readers :
             ReadClock(r) \/ ReadExisting(r) \/ ReadCreate(r) \/ DumpStats(r) \/ DataCopy(r) \/ Index(r) \/ Display(r)
  <2>1. rdUnchanged
    BY <1>4 DEF ReadClock, ReadExisting, ReadCreate, DumpStats, DataCopy, Index, Display
  <2> QED
    BY <1>3, <2>1 DEF rdUnchanged, frontVars, statsdVars
<1>5. CASE Kill \/ SignalStop \/ RunReturns
  <2>1. rdUnchanged
    BY <1>5 DEF Kill, SignalStop, RunReturns
  <2> QED
    BY <1>3, <2>1 DEF rdUnchanged, frontVars, statsdVars
<1>6. CASE Flush \/ ShutdownStatsd
  <2>1. UNCHANGED pushed
    BY <1>6 DEF Flush, ShutdownStatsd, Shutdown, flushMetrics, Connect, Receive, FlushTick, Discard,
                WaitOver, Quit
  <2> QED
    BY <1>3, <1>6, <2>1 DEF Flush, ShutdownStatsd, frontVars
<1>7. CASE Scrape \/ Tick \/ UNCHANGED vars
  BY <1>3, <1>7 DEF Scrape, Tick, vars, frontVars, statsdVars
<1> QED
  BY <1>1, <1>2, <1>4, <1>5, <1>6, <1>7 DEF Next
-----------------------------------------------------------------------------
(* The statsd sink.                                                        *)

(* Order among metrics put one after the other,                            *)
LEMMA OrderCat ==
    ASSUME NEW p, NEW a \in Packets, NEW b \in Packets, NEW c \in Packets
    PROVE  /\ Known(p, a) /\ Known(p, b) => Known(p, Cat(a, b))
           /\ InOrder(p, a) /\ InOrder(p, b) /\ Before(p, a, b) => InOrder(p, Cat(a, b))
           /\ Before(p, a, c) /\ Before(p, b, c) => Before(p, Cat(a, b), c)
           /\ Before(p, a, b) /\ Before(p, a, c) => Before(p, a, Cat(b, c))
<1> DEFINE Glued(u, x, y) == /\ Len(x) \in Nat /\ Len(y) \in Nat /\ Len(u) = Len(x) + Len(y)
                             /\ \A i \in 1..Len(u) : \/ i \in 1..Len(x) /\ u[i] = x[i]
                                                     \/ i - Len(x) \in 1..Len(y) /\ u[i] = y[i - Len(x)]
<1>1. ASSUME NEW x \in Packets, NEW y \in Packets PROVE Glued(Cat(x, y), x, y)
  <2>1. /\ Len(x) \in Nat /\ Len(y) \in Nat /\ Len(x \o y) = Len(x) + Len(y)
        /\ \A i \in 1..(Len(x) + Len(y)) : (x \o y)[i] = IF i <= Len(x) THEN x[i] ELSE y[i - Len(x)]
    BY ConcatProperties DEF Packets
  <2> DEFINE u == x \o y
  <2> HIDE DEF u
  <2>2. \A i \in 1..Len(u) : \/ i \in 1..Len(x) /\ u[i] = x[i]
                             \/ i - Len(x) \in 1..Len(y) /\ u[i] = y[i - Len(x)]
    BY <2>1 DEF u
  <2> QED
    BY <2>1, <2>2 DEF Cat, u
<1>2. Glued(Cat(a, b), a, b) /\ Glued(Cat(b, c), b, c)
  BY <1>1
<1> DEFINE u == Cat(a, b)
           v == Cat(b, c)
<1> HIDE DEF u, v
<1>3. /\ Len(a) \in Nat /\ Len(b) \in Nat /\ Len(u) = Len(a) + Len(b)
      /\ \A i \in 1..Len(u) : \/ i \in 1..Len(a) /\ u[i] = a[i]
                              \/ i - Len(a) \in 1..Len(b) /\ u[i] = b[i - Len(a)]
      /\ \A i \in 1..Len(v) : \/ i \in 1..Len(b) /\ v[i] = b[i]
                              \/ i - Len(b) \in 1..Len(c) /\ v[i] = c[i - Len(b)]
  BY <1>2 DEF u, v
<1>4. Known(p, a) /\ Known(p, b) => Known(p, u)
  BY <1>3 DEF Known
<1>5. ASSUME InOrder(p, a), InOrder(p, b), Before(p, a, b), NEW i \in 1..Len(u), NEW j \in 1..Len(u), i < j
      PROVE  PosIn(p, u[i].id) < PosIn(p, u[j].id)
  <2>1. CASE i \in 1..Len(a) /\ j \in 1..Len(a)
    <3>1. u[i] = a[i] /\ u[j] = a[j]
      BY <1>3, <2>1
    <3> QED
      BY <1>5, <2>1, <3>1 DEF InOrder
  <2>2. CASE i \in 1..Len(a) /\ j \notin 1..Len(a)
    <3>1. u[i] = a[i] /\ u[j] = b[j - Len(a)] /\ j - Len(a) \in 1..Len(b)
      BY <1>3, <2>2
    <3> QED
      BY <1>5, <2>2, <3>1 DEF Before
  <2>3. CASE i \notin 1..Len(a)
    <3>1. /\ u[i] = b[i - Len(a)] /\ i - Len(a) \in 1..Len(b)
          /\ u[j] = b[j - Len(a)] /\ j - Len(a) \in 1..Len(b) /\ i - Len(a) < j - Len(a)
      BY <1>3, <1>5, <2>3
    <3> QED
      BY <1>5, <3>1 DEF InOrder
  <2> QED
    BY <2>1, <2>2, <2>3
<1>6. Before(p, a, c) /\ Before(p, b, c) => Before(p, u, c)
  BY <1>3 DEF Before
<1>7. Before(p, a, b) /\ Before(p, a, c) => Before(p, a, v)
  BY <1>3 DEF Before
<1> QED
  BY <1>4, <1>5, <1>6, <1>7 DEF u, v, InOrder

(* and cut in two.                                                         *)
LEMMA OrderCut ==
    ASSUME NEW p, NEW a \in Packets, NEW c \in Packets, c # <<>>
    PROVE  LET h == <<Head(c)>>
           IN  /\ h \in Packets /\ Tail(c) \in Packets /\ Head(c) \in Queued
               /\ Known(p, c) => Known(p, h) /\ Known(p, Tail(c))
               /\ InOrder(p, c) => InOrder(p, h) /\ InOrder(p, Tail(c)) /\ Before(p, h, Tail(c))
               /\ Before(p, a, c) => Before(p, a, h) /\ Before(p, a, Tail(c))
<1> DEFINE t == Tail(c)
           h == <<Head(c)>>
<1>1. /\ Head(c) \in Queued /\ h \in Packets /\ t \in Packets /\ Len(c) \in Nat
      /\ Len(t) = Len(c) - 1 /\ 1 \in 1..Len(c)
      /\ Len(h) = 1 /\ h[1] = c[1]
      /\ \A i \in 1..Len(t) : t[i] = c[i + 1]
  BY HeadTailProperties DEF Packets
<1> HIDE DEF h, t
<1>2. \A i \in 1..Len(t) : i + 1 \in 1..Len(c) /\ t[i] = c[i + 1] /\ 1 < i + 1
  BY <1>1
<1>3. \A i, j \in 1..Len(t) : i < j => i + 1 < j + 1
  BY <1>1
<1>4. \A i \in 1..Len(h) : i = 1
  BY <1>1
<1>5. Known(p, c) => Known(p, h) /\ Known(p, t)
  BY <1>1, <1>2, <1>4 DEF Known
<1>6. InOrder(p, c) => InOrder(p, h)
  <2>1. \A i, j \in 1..Len(h) : ~(i < j)
    BY <1>1
  <2> QED
    BY <2>1 DEF InOrder
<1>7. InOrder(p, c) => InOrder(p, t)
  BY <1>2, <1>3 DEF InOrder
<1>8. InOrder(p, c) => Before(p, h, t)
  BY <1>1, <1>2, <1>4 DEF InOrder, Before
<1>9. Before(p, a, c) => Before(p, a, h) /\ Before(p, a, t)
  BY <1>1, <1>2, <1>4 DEF Before
<1> QED
  BY <1>1, <1>5, <1>6, <1>7, <1>8, <1>9 DEF h, t

(* No metrics are in any order.                                            *)
LEMMA OrderEmpty ==
    \A p, a : Known(p, <<>>) /\ InOrder(p, <<>>) /\ Before(p, a, <<>>) /\ Before(p, <<>>, a)
  BY DEF Known, InOrder, Before

(* A number is where it was pushed.                                        *)
LEMMA PosUnique ==
    ASSUME NEW p \in Seq(Nat), IsInjective(p), NEW i \in 1..Len(p)
    PROVE  PosIn(p, p[i]) = i
<1>1. \A j, k \in 1..Len(p) : p[j] = p[k] => j = k
  BY DEF IsInjective
<1>2. PosIn(p, p[i]) \in 1..Len(p) /\ p[PosIn(p, p[i])] = p[i]
  BY DEF PosIn
<1> QED
  BY <1>1, <1>2

(* One more push leaves the others where they were.                        *)
LEMMA OrderPushed ==
    ASSUME NEW p \in Seq(Nat), NEW q \in Seq(Nat), IsInjective(p), IsInjective(q),
           NEW m \in Queued, q = Append(p, m.id),
           NEW a \in Packets, NEW b \in Packets, Known(p, a), Known(p, b)
    PROVE  /\ Known(q, a) /\ Known(q, <<m>>) /\ InOrder(q, <<m>>) /\ Before(q, a, <<m>>)
           /\ InOrder(p, a) => InOrder(q, a)
           /\ Before(p, a, b) => Before(q, a, b)
<1> DEFINE n == Len(p)
<1>1. n \in Nat /\ Len(q) = n + 1 /\ q[n + 1] = m.id /\ \A i \in 1..n : q[i] = p[i]
  BY DEF Queued
<1>2. ASSUME NEW x, x \in Range(p)
      PROVE  x \in Range(q) /\ PosIn(q, x) = PosIn(p, x) /\ PosIn(p, x) \in 1..n
  <2>1. PICK i \in 1..n : p[i] = x
    BY <1>2 DEF Range
  <2>2. i \in 1..Len(q) /\ q[i] = x
    BY <1>1, <2>1
  <2>3. PosIn(p, x) = i
    BY <2>1, PosUnique
  <2>4. PosIn(q, x) = i
    BY <2>2, PosUnique
  <2>5. x \in Range(q)
    BY <2>2 DEF Range
  <2> QED
    BY <2>3, <2>4, <2>5
<1>3. m.id \in Range(q) /\ PosIn(q, m.id) = n + 1
  <2>1. n + 1 \in 1..Len(q) /\ q[n + 1] = m.id
    BY <1>1
  <2>2. m.id \in Range(q)
    BY <2>1 DEF Range
  <2> QED
    BY <2>1, <2>2, PosUnique
<1>4. Len(<<m>>) = 1 /\ <<m>>[1] = m
  OBVIOUS
<1>5. \A i \in 1..Len(a) : a[i].id \in Range(p)
  BY DEF Known
<1>6. \A i \in 1..Len(b) : b[i].id \in Range(p)
  BY DEF Known
<1> DEFINE l == <<m>>
<1> HIDE DEF l, n
<1>7. Known(q, a)
  BY <1>2, <1>5 DEF Known
<1>8. Len(l) = 1 /\ \A i \in 1..Len(l) : l[i] = m
  BY <1>4 DEF l
<1>9. Known(q, l)
  BY <1>3, <1>8 DEF Known
<1>10. InOrder(q, l)
  <2>1. \A i, j \in 1..Len(l) : ~(i < j)
    BY <1>8
  <2> QED
    BY <2>1 DEF InOrder
<1>11. Before(q, a, l)
  <2>1. \A i \in 1..Len(a) : PosIn(q, a[i].id) < n + 1
    BY <1>1, <1>2, <1>5
  <2> QED
    BY <1>3, <1>8, <2>1 DEF Before
<1>12. InOrder(p, a) => InOrder(q, a)
  BY <1>2, <1>5 DEF InOrder
<1>13. Before(p, a, b) => Before(q, a, b)
  BY <1>2, <1>5, <1>6 DEF Before
<1> QED
  BY <1>7, <1>9, <1>10, <1>11, <1>12, <1>13 DEF l

(* A metric at the end.                                                    *)
LEMMA AppendIsCat ==
    ASSUME NEW b \in Packets, NEW m \in Queued
    PROVE  /\ Append(b, m) = Cat(b, <<m>>) /\ Append(b, m) \in Packets
           /\ <<m>> \in Packets /\ Append(<<>>, m) = <<m>>
  BY DEF Cat, Packets

(* What is sent goes behind what was sent,                                 *)
LEMMA LineSent ==
    ASSUME NEW p, NEW a \in Packets, NEW b \in Packets, NEW c \in Packets, InLine(p, a, b, c)
    PROVE  InLine(p, Cat(a, b), <<>>, c)
  BY OrderCat, OrderEmpty DEF InLine

(* what is received goes behind what is in the buffer,                     *)
LEMMA LineReceived ==
    ASSUME NEW p, NEW a \in Packets, NEW b \in Packets, NEW c \in Packets, InLine(p, a, b, c), c # <<>>
    PROVE  /\ InLine(p, a, Append(b, Head(c)), Tail(c))
           /\ Append(b, Head(c)) \in Packets /\ Tail(c) \in Packets /\ Head(c) \in Queued
<1> DEFINE h == <<Head(c)>>
           t == Tail(c)
<1>1. /\ h \in Packets /\ t \in Packets /\ Head(c) \in Queued
      /\ Known(p, h) /\ Known(p, t) /\ InOrder(p, h) /\ InOrder(p, t) /\ Before(p, h, t)
      /\ Before(p, a, h) /\ Before(p, a, t)
  BY OrderCut DEF InLine
<1>2. Before(p, b, h) /\ Before(p, b, t)
  BY OrderCut DEF InLine
<1>3. Append(b, Head(c)) = Cat(b, h) /\ Append(b, Head(c)) \in Packets
  BY <1>1, AppendIsCat
<1> HIDE DEF h, t
<1>4. /\ Known(p, a) /\ Known(p, b) /\ InOrder(p, a) /\ InOrder(p, b) /\ Before(p, a, b)
  BY DEF InLine
<1>5. Known(p, Cat(b, h)) /\ InOrder(p, Cat(b, h)) /\ Before(p, Cat(b, h), t) /\ Before(p, a, Cat(b, h))
  BY <1>1, <1>2, <1>4, OrderCat
<1> QED
  BY <1>1, <1>3, <1>4, <1>5 DEF InLine, h, t

(* what is in the buffer or at the head of the queue may be thrown away,   *)
LEMMA LineDropped ==
    ASSUME NEW p, NEW a \in Packets, NEW b \in Packets, NEW c \in Packets, InLine(p, a, b, c)
    PROVE  /\ InLine(p, a, <<>>, c)
           /\ c # <<>> => InLine(p, a, b, Tail(c)) /\ Tail(c) \in Packets
<1>1. InLine(p, a, <<>>, c)
  BY OrderEmpty DEF InLine
<1>2. ASSUME c # <<>> PROVE InLine(p, a, b, Tail(c)) /\ Tail(c) \in Packets
  <2>1. Tail(c) \in Packets /\ Known(p, Tail(c)) /\ InOrder(p, Tail(c)) /\ Before(p, a, Tail(c))
    BY <1>2, OrderCut DEF InLine
  <2>2. Before(p, b, Tail(c))
    BY <1>2, OrderCut DEF InLine
  <2> QED
    BY <2>1, <2>2 DEF InLine
<1> QED
  BY <1>1, <1>2

(* and what is pushed goes behind all of it.                               *)
LEMMA LinePushed ==
    ASSUME NEW p \in Seq(Nat), NEW q \in Seq(Nat), IsInjective(p), IsInjective(q),
           NEW m \in Queued, q = Append(p, m.id),
           NEW a \in Packets, NEW b \in Packets, NEW c \in Packets, InLine(p, a, b, c)
    PROVE  InLine(q, a, b, Append(c, m)) /\ Append(c, m) \in Packets
<1> DEFINE l == <<m>>
<1>0. Append(c, m) = Cat(c, l) /\ Append(c, m) \in Packets /\ l \in Packets
  BY AppendIsCat
<1>1. /\ Known(p, a) /\ Known(p, b) /\ Known(p, c)
      /\ InOrder(p, a) /\ InOrder(p, b) /\ InOrder(p, c)
      /\ Before(p, a, b) /\ Before(p, a, c) /\ Before(p, b, c)
  BY DEF InLine
<1>2. Known(q, a) /\ Known(q, l) /\ InOrder(q, l) /\ Before(q, a, l) /\ InOrder(q, a) /\ Before(q, a, b)
  BY <1>1, OrderPushed
<1>3. Known(q, b) /\ Before(q, b, l) /\ InOrder(q, b) /\ Before(q, b, c)
  BY <1>1, OrderPushed
<1>4. Known(q, c) /\ Before(q, c, l) /\ InOrder(q, c)
  BY <1>1, OrderPushed
<1>5. Before(q, a, c)
  BY <1>1, OrderPushed
<1> HIDE DEF l
<1>6. Known(q, Cat(c, l)) /\ InOrder(q, Cat(c, l)) /\ Before(q, a, Cat(c, l)) /\ Before(q, b, Cat(c, l))
  BY <1>0, <1>2, <1>3, <1>4, <1>5, OrderCat
<1> QED
  BY <1>0, <1>2, <1>3, <1>6 DEF InLine

(* The length of a metric's text.                                          *)
LEMMA TextLength ==
    ASSUME NEW key, NEW labels, IsSeq(key), IsSeq(labels)
    PROVE  Len(flattenKeyLabels(key, labels)) \in Nat
<1> DEFINE n == Len(labels)
           t == [i \in 1..n |-> labels[i].value]
           V == {labels[i].value : i \in 1..n}
<1>1. n \in Nat
  BY DEF IsSeq
<1>2. flattenKeyLabels(key, labels) = Cat(key, t)
  BY Zenon DEF flattenKeyLabels, Cat
<1> HIDE DEF n
<1>3. t \in Seq(V)
  BY <1>1
<1> HIDE DEF t, V
<1>4. IsSeq(t)
  BY <1>3, SeqIsSeq
<1>5. IsSeq(Cat(key, t))
  BY <1>4, CatIsSeq
<1> QED
  BY <1>2, <1>5 DEF IsSeq

(* A push.                                                                 *)
LEMMA PushedPackets ==
    ASSUME EmInv, IdInv, PacketInv, IdInv', NEW e \in Emitters, Push(e)
    PROVE  PacketInv'
<1> DEFINE s == em[e]
           m == [id |-> s.id, len |-> Len(flattenKeyLabels(s.key, s.labels))]
<1>1. CASE PushPanics
  <2>1. UNCHANGED statsdVars
    BY <1>1 DEF Push
  <2> QED
    BY <2>1 DEF PacketInv, statsdVars
<1>2. CASE ~PushPanics
  <2>1. pushMetric(m)
    BY <1>2 DEF Push
  <2>2. m \in Queued
    <3>1. s.id \in Nat /\ IsSeq(s.key) /\ IsSeq(s.labels)
      BY DEF EmInv, IsEm
    <3>2. Len(flattenKeyLabels(s.key, s.labels)) \in Nat
      BY <3>1, TextLength
    <3> QED
      BY <3>1, <3>2 DEF Queued
  <2> HIDE DEF m
  <2>3. UNCHANGED <<buf, wire>>
    BY <2>1 DEF pushMetric
  <2>4. CASE UNCHANGED <<queue, pushed>>
    BY <2>3, <2>4 DEF PacketInv
  <2>5. CASE queue' = Append(queue, m) /\ pushed' = Append(pushed, m.id)
    <3>1. /\ pushed \in Seq(Nat) /\ IsInjective(pushed) /\ pushed' \in Seq(Nat) /\ IsInjective(pushed')
      BY DEF IdInv
    <3>2. /\ queue \in Packets /\ buf \in Packets /\ FlattenSeq(wire) \in Packets
          /\ InLine(pushed, FlattenSeq(wire), buf, queue)
      BY FlattenAppend DEF PacketInv
    <3>3. InLine(pushed', FlattenSeq(wire), buf, queue') /\ queue' \in Packets
      BY <2>2, <2>5, <3>1, <3>2, LinePushed
    <3> QED
      BY <2>3, <3>3 DEF PacketInv
  <2> QED
    BY <2>1, <2>4, <2>5 DEF pushMetric
<1> QED
  BY <1>1, <1>2

(* A buffer that goes out.                                                 *)
LEMMA SentPacket ==
    ASSUME PacketInv
    PROVE  /\ Append(wire, buf) \in Seq(Packets) /\ FlattenSeq(Append(wire, buf)) \in Packets
           /\ InLine(pushed, FlattenSeq(Append(wire, buf)), <<>>, queue)
           /\ \A i \in 1..Len(Append(wire, buf)) : Fits(Append(wire, buf)[i])
<1>1. wire \in Seq(Packets) /\ buf \in Packets /\ queue \in Packets
  BY DEF PacketInv
<1>2. FlattenSeq(wire) \in Packets /\ FlattenSeq(Append(wire, buf)) = Cat(FlattenSeq(wire), buf)
  BY <1>1, FlattenAppend
<1>3. Append(wire, buf) \in Seq(Packets)
  BY <1>1
<1>4. FlattenSeq(Append(wire, buf)) \in Packets
  BY <1>1, <1>3, FlattenAppend
<1>5. InLine(pushed, Cat(FlattenSeq(wire), buf), <<>>, queue)
  BY <1>1, <1>2, LineSent DEF PacketInv
<1>6. \A i \in 1..Len(Append(wire, buf)) : Fits(Append(wire, buf)[i])
  <2> DEFINE w == Append(wire, buf)
             n == Len(wire)
  <2>1. n \in Nat /\ Len(w) = n + 1 /\ w[n + 1] = buf /\ \A i \in 1..n : w[i] = wire[i]
    BY <1>1
  <2>2. Fits(buf) /\ \A i \in 1..n : Fits(wire[i])
    BY DEF PacketInv
  <2> HIDE DEF w, n
  <2>3. \A i \in 1..(n + 1) : i = n + 1 \/ i \in 1..n
    BY <2>1
  <2>4. \A i \in 1..Len(w) : Fits(w[i])
    BY <2>1, <2>2, <2>3
  <2> QED
    BY <2>4 DEF w
<1> QED
  BY <1>2, <1>3, <1>4, <1>5, <1>6

(* A step of flushMetrics.                                                 *)
LEMMA FlushedPackets == ASSUME PacketInv, flushMetrics PROVE PacketInv'
<1> DEFINE sent == FlattenSeq(wire)
           h == Head(queue)
<1>0. /\ queue \in Packets /\ buf \in Packets /\ wire \in Seq(Packets) /\ InLine(pushed, sent, buf, queue)
      /\ Fits(buf) /\ \A i \in 1..Len(wire) : Fits(wire[i])
  BY DEF PacketInv
<1>1. sent \in Packets /\ <<>> \in Packets
  BY <1>0, FlattenAppend, EmptySeq DEF Packets
<1>e. Fits(<<>>) /\ \A m : Fits(<<m>>)
  BY DEF Fits
<1>2. CASE Connect \/ Quit
  <2>1. buf' = <<>> /\ UNCHANGED <<queue, wire, pushed>>
    BY <1>2 DEF Connect, Quit
  <2>2. InLine(pushed, sent, <<>>, queue)
    BY <1>0, <1>1, LineDropped
  <2> QED
    BY <1>0, <1>1, <1>e, <2>1, <2>2 DEF PacketInv
<1>3. CASE Receive
  <2>1. queue # <<>> /\ queue' = Tail(queue) /\ UNCHANGED pushed
    BY <1>3 DEF Receive
  <2>2. h \in Queued
    BY <1>0, <1>1, <2>1, LineReceived
  <2>3. CASE ~Overflows(h) /\ buf' = Append(buf, h) /\ UNCHANGED wire
    <3>1. /\ InLine(pushed, sent, Append(buf, h), Tail(queue))
          /\ Append(buf, h) \in Packets /\ Tail(queue) \in Packets
      BY <1>0, <1>1, <2>1, LineReceived
    <3>2. Fits(Append(buf, h))
      <4>1. Bytes(buf) \in Nat /\ Bytes(Append(buf, h)) = h.len + Bytes(buf)
        BY <1>0, <2>2, BytesOfAppend DEF Packets
      <4>2. h.len \in Nat /\ StatsdMaxLen \in Nat
        BY <2>2, StatsdAssumption DEF Queued
      <4>3. Bytes(Append(buf, h)) <= StatsdMaxLen
        BY <2>3, <4>1, <4>2 DEF Overflows
      <4> QED
        BY <4>3 DEF Fits
    <3> QED
      BY <1>0, <2>1, <2>3, <3>1, <3>2 DEF PacketInv
  <2>4. CASE wire' = Append(wire, buf) /\ buf' = <<h>>
    <3> DEFINE w == Append(wire, buf)
    <3>1. /\ w \in Seq(Packets) /\ FlattenSeq(w) \in Packets /\ InLine(pushed, FlattenSeq(w), <<>>, queue)
          /\ \A i \in 1..Len(w) : Fits(w[i])
      BY SentPacket
    <3> HIDE DEF w
    <3>2. /\ InLine(pushed, FlattenSeq(w), Append(<<>>, h), Tail(queue))
          /\ Append(<<>>, h) \in Packets /\ Tail(queue) \in Packets
      BY <1>0, <1>1, <2>1, <3>1, LineReceived
    <3>3. Append(<<>>, h) = <<h>>
      BY <1>1, <2>2, AppendIsCat
    <3>4. wire' = w
      BY <2>4 DEF w
    <3> QED
      BY <1>e, <2>1, <2>4, <3>1, <3>2, <3>3, <3>4 DEF PacketInv
  <2>5. CASE buf' = <<>> /\ UNCHANGED wire
    <3>1. InLine(pushed, sent, buf, Tail(queue)) /\ Tail(queue) \in Packets
      BY <1>0, <1>1, <2>1, LineDropped
    <3>2. InLine(pushed, sent, <<>>, Tail(queue))
      BY <1>0, <1>1, <3>1, LineDropped
    <3> QED
      BY <1>0, <1>1, <1>e, <2>1, <2>5, <3>1, <3>2 DEF PacketInv
  <2> QED
    BY <1>3, <2>3, <2>4, <2>5 DEF Receive
<1>4. CASE FlushTick
  <2>1. buf' = <<>> /\ UNCHANGED <<queue, pushed>>
    BY <1>4 DEF FlushTick
  <2>2. CASE wire' = Append(wire, buf)
    BY <1>0, <1>1, <1>e, <2>1, <2>2, SentPacket DEF PacketInv
  <2>3. CASE UNCHANGED wire
    <3>1. InLine(pushed, sent, <<>>, queue)
      BY <1>0, <1>1, LineDropped
    <3> QED
      BY <1>0, <1>1, <1>e, <2>1, <2>3, <3>1 DEF PacketInv
  <2> QED
    BY <1>4, <2>2, <2>3 DEF FlushTick
<1>5. CASE Discard
  <2>1. queue # <<>> /\ queue' = Tail(queue) /\ UNCHANGED <<buf, wire, pushed>>
    BY <1>5 DEF Discard
  <2>2. InLine(pushed, sent, buf, Tail(queue)) /\ Tail(queue) \in Packets
    BY <1>0, <1>1, <2>1, LineDropped
  <2> QED
    BY <1>0, <2>1, <2>2 DEF PacketInv
<1>6. CASE WaitOver
  BY <1>6 DEF WaitOver, PacketInv
<1> QED
  BY <1>2, <1>3, <1>4, <1>5, <1>6 DEF flushMetrics

(* Any step.                                                               *)
LEMMA PacketsStep == EmInv /\ IdInv /\ PacketInv /\ IdInv' /\ [Next]_vars => PacketInv'
<1> SUFFICES ASSUME EmInv, IdInv, PacketInv, IdInv', [Next]_vars PROVE PacketInv'
  OBVIOUS
<1>1. CASE \E e \in Emitters : Push(e)
  BY <1>1, PushedPackets
<1>2. CASE Flush
  BY <1>2, FlushedPackets DEF Flush
<1>3. CASE UNCHANGED <<queue, buf, wire, pushed>>
  BY <1>3 DEF PacketInv
<1>4. ASSUME ~\E e \in Emitters : Push(e), ~Flush PROVE UNCHANGED <<queue, buf, wire, pushed>>
  <2>1. CASE \E e \in Emitters :
               Begin(e) \/ \E num \in {0, lastNumGC + 1, lastNumGC + 2} : CollectStats(e, num)
    BY <2>1 DEF Begin, CollectStats, Start, statsdVars
  <2>2. CASE \E e \in Emitters : \/ Prepare(e) \/ Clock(e) \/ Existing(e) \/ Create(e) \/ Update(e)
                                 \/ PromSink(e) \/ DogSink(e)
    BY <2>2 DEF Prepare, Clock, Existing, Create, Update, PromSink, DogSink, statsdVars
  <2>3. CASE \E r \in Readers :
                ReadClock(r) \/ ReadExisting(r) \/ ReadCreate(r) \/ DumpStats(r) \/ DataCopy(r) \/ Index(r) \/ Display(r)
    BY <2>3 DEF ReadClock, ReadExisting, ReadCreate, DumpStats, DataCopy, Index, Display, rdUnchanged, statsdVars
  <2>4. CASE Kill \/ SignalStop \/ RunReturns
    BY <2>4 DEF Kill, SignalStop, RunReturns, rdUnchanged, statsdVars
  <2>5. CASE \/ \E c \in Configs : NewGlobal(c)
             \/ \E f \in Filters : UpdateFilterAndLabels(f) \/ UpdateFilter(f)
    BY <2>5 DEF NewGlobal, UpdateFilterAndLabels, UpdateFilter, SetFilter, statsdVars
  <2>6. CASE ShutdownStatsd
    BY <2>6 DEF ShutdownStatsd, Shutdown
  <2>7. CASE Scrape \/ Tick \/ UNCHANGED vars
    BY <2>7 DEF Scrape, Tick, vars, statsdVars
  <2> QED
    BY <1>4, <2>1, <2>2, <2>3, <2>4, <2>5, <2>6, <2>7 DEF Next
<1> QED
  BY <1>1, <1>2, <1>3, <1>4
-----------------------------------------------------------------------------
(* The invariant holds initially.                                          *)
LEMMA InitIInv == Init => IInv
<1> SUFFICES ASSUME Init PROVE IInv
  OBVIOUS
<1>0. IsSeq(<<>>) /\ Len(<<>>) = 0 /\ <<>> \in Packets /\ <<>> \in Seq(Packets) /\ <<>> \in Seq(Nat)
  BY EmptyIsSeq, EmptySeq DEF Packets
<1>1. ReadInv
  <2>1. heap = <<>> /\ intervals = <<>> /\ now = 0 /\ rd = [r \in Readers |-> IdleRd]
    BY DEF Init, InmemInit
  <2>2. IdleRd \in RdStates /\ IdleRd.pc = "idle"
    BY <1>0 DEF IdleRd, RdStates
  <2>3. Rising(<<>>, 0)
    BY <1>0 DEF Rising
  <2>4. Readable(IdleRd, <<>>)
    BY <2>2 DEF Readable
  <2> QED
    BY <1>0, <2>1, <2>2, <2>3, <2>4, IntervalAssumption DEF ReadInv
<1>2. \A e \in Emitters : em[e] = IdleEm
  BY DEF Init
<1>3. EmInv
  <2>1. config = Blackhole /\ filter = NoFilter /\ lastNumGC = 0 /\ DOMAIN em = Emitters
    BY DEF Init
  <2>2. \A e \in Emitters : IsEm(em[e]) /\ em[e].id = 0 /\ em[e].pc \notin InSinks
    BY <1>2, IdleIsEm DEF InSinks
  <2> QED
    BY <2>1, <2>2 DEF EmInv
<1>4. ArrInv /\ LabelsKept
  BY <1>2, IdleIsEm, Zenon DEF ArrInv, LabelsKept
<1>5. IdInv
  <2>1. calls = <<>> /\ pushed = <<>>
    BY DEF Init, StatsdInit
  <2>2. IsInjective(<<>>)
    BY DEF IsInjective
  <2>3. \A e \in Emitters : em[e].id = 0
    BY <1>2, IdleIsEm
  <2> QED
    BY <1>0, <2>1, <2>2, <2>3 DEF IdInv
<1>6. PacketInv
  <2>1. queue = <<>> /\ buf = <<>> /\ wire = <<>> /\ pushed = <<>>
    BY DEF Init, StatsdInit
  <2>2. FlattenSeq(<<>>) = <<>>
    BY <1>0, Zenon DEF FlattenSeq
  <2>3. Fits(<<>>)
    BY DEF Fits
  <2>4. InLine(<<>>, <<>>, <<>>, <<>>)
    BY OrderEmpty DEF InLine
  <2> QED
    BY <1>0, <2>1, <2>2, <2>3, <2>4 DEF PacketInv
<1> QED
  BY <1>1, <1>3, <1>4, <1>5, <1>6 DEF IInv

(* IInv is an invariant of the whole package: of the readers, the emitters *)
(* in the front and in the sinks, and the statsd flusher.                  *)
THEOREM Invariance == Spec => []IInv
<1>1. IInv /\ [Next]_vars => IInv'
  BY ReadInvStep, EmittersStep, PacketsStep DEF IInv
<1> QED
  BY <1>1, InitIInv, PTL DEF Spec

(* DisplayMetrics never indexes past the slice of intervals, takes one no  *)
(* older than its copy has there and, when there are several, not the one  *)
(* made last, however many are added and dropped between the copy and the  *)
(* look: for any number of readers, emitters and retained intervals.       *)
THEOREM DisplaysFinish == Spec => []DisplaysFinished
<1>1. IInv => DisplaysFinished
  <2> SUFFICES ASSUME ReadInv, NEW r \in Readers
               PROVE  LET i == DisplayedIndex(Len(rd[r].data)) IN
                      /\ rd[r].pc = "index" => i \in 1..Len(intervals)
                      /\ rd[r].pc = "reading" =>
                            /\ rd[r].ptr >= rd[r].data[i]
                            /\ Len(rd[r].data) > 1 => rd[r].ptr < Last(intervals)
    BY DEF IInv, DisplaysFinished
  <2>1. Readable(rd[r], intervals) /\ Len(rd[r].data) \in Nat /\ Len(intervals) \in Nat
    BY DEF ReadInv, RdStates, Rising
  <2>2. CASE rd[r].pc = "index"
    <3> DEFINE k == Len(rd[r].data)
    <3>1. k \in Nat /\ k >= 1 /\ k <= Len(intervals) /\ Len(intervals) \in Nat
      BY <2>1, <2>2 DEF Readable
    <3> HIDE DEF k
    <3>2. DisplayedIndex(k) \in 1..Len(intervals)
      BY <3>1 DEF DisplayedIndex
    <3> QED
      BY <2>2, <3>2 DEF k
  <2>3. CASE rd[r].pc = "reading"
    BY <2>1, <2>3 DEF Readable, Last
  <2> QED
    BY <2>2, <2>3
<1> QED
  BY <1>1, Invariance, PTL

(* While the filters stay, the metrics of a request carry the tags of      *)
(* their caller and of the instance that are allowed, none lost and none   *)
(* added, although filterLabels overwrites the slice they share; each once *)
(* and in its place when the instance appends tags or blocks none of the   *)
(* caller's: for any tags, filters and interleaving of emitters.           *)
THEOREM LabelsSurvive == Spec => []LabelsKept
<1>1. IInv => LabelsKept
  BY DEF IInv
<1> QED
  BY <1>1, Invariance, PTL

(* The statsd sink sends what was pushed in the order it was pushed, none  *)
(* twice, in packets that respect the limit: for any queue size, limit,    *)
(* number of failures and of emitters.                                     *)
THEOREM PacketsOrdered == Spec => []PacketsInOrder
<1>1. ASSUME IInv PROVE PacketsInOrder
  <2> DEFINE a == FlattenSeq(wire)
             ms == Cat(Cat(a, buf), queue)
             out == Ids(FlattenSeq(wire) \o buf \o queue)
  <2>1. a \in Packets /\ buf \in Packets /\ queue \in Packets /\ InLine(pushed, a, buf, queue)
    BY <1>1, FlattenAppend DEF IInv, PacketInv
  <2>2. Cat(a, buf) \in Packets /\ ms \in Packets
    BY <2>1 DEF Cat, Packets
  <2>3. Known(pushed, Cat(a, buf)) /\ InOrder(pushed, Cat(a, buf)) /\ Before(pushed, Cat(a, buf), queue)
    BY <2>1, OrderCat DEF InLine
  <2>4. Known(pushed, ms) /\ InOrder(pushed, ms)
    BY <2>1, <2>2, <2>3, OrderCat DEF InLine
  <2>5. out = [i \in 1..Len(ms) |-> ms[i].id]
    BY Zenon DEF Ids, Cat
  <2> HIDE DEF a, ms, out
  <2>6. Len(ms) \in Nat
    BY <2>2 DEF Packets
  <2>7. DOMAIN out = 1..Len(ms) /\ Len(out) = Len(ms) /\ \A i \in 1..Len(ms) : out[i] = ms[i].id
    BY <2>5, <2>6
  <2>8. Range(out) \subseteq Range(pushed)
    <3> SUFFICES ASSUME NEW x \in Range(out) PROVE x \in Range(pushed)
      OBVIOUS
    <3>1. PICK i \in 1..Len(ms) : x = ms[i].id
      BY <2>7 DEF Range
    <3> QED
      BY <2>4, <3>1 DEF Known
  <2>9. \A i, j \in 1..Len(out) : i < j => PosIn(pushed, out[i]) < PosIn(pushed, out[j])
    BY <2>4, <2>7 DEF InOrder
  <2>10. \A i \in 1..Len(wire) : Len(wire[i]) > 1 => Bytes(wire[i]) <= StatsdMaxLen
    BY <1>1 DEF IInv, PacketInv, Fits
  <2> QED
    BY <2>8, <2>9, <2>10 DEF PacketsInOrder, PosIn, out
<1> QED
  BY <1>1, Invariance, PTL

-----------------------------------------------------------------------------
(* The series of the Prometheus sink.                                      *)

(* A series has its own time and that of its hash, which is no earlier: a  *)
(* hash leaves `updates` only together with the series of every kind.      *)
Timed(k, h, us, ts) ==
    /\ h \in DOMAIN us /\ us[h] \in Nat /\ us[h] <= now
    /\ <<k, h>> \in DOMAIN ts /\ ts[<<k, h>>] \in Nat /\ ts[<<k, h>>] <= us[h]
SeriesInv ==
    /\ now \in Nat
    /\ DOMAIN series = Kinds
    /\ \A k \in Kinds : \A h \in DOMAIN series[k] : Timed(k, h, updates, touched)

(* One update: the series of its kind gets the hash, whose time is now.    *)
LEMMA PromUpdated ==
    ASSUME SeriesInv, NEW kind, NEW hash, NEW val, PromUpdate(kind, hash, val)
    PROVE  /\ DOMAIN series' = Kinds
           /\ \A k \in Kinds : DOMAIN series[k] \subseteq DOMAIN series'[k]
           /\ \A k \in Kinds : \A h \in DOMAIN series'[k] : Timed(k, h, updates', touched')
<1> USE DEF SeriesInv
<1>1. DOMAIN series' = Kinds
  BY DEF PromUpdate
<1>2. ASSUME NEW k \in Kinds, k # kind PROVE series'[k] = series[k]
  BY <1>2 DEF PromUpdate
<1>3. ASSUME kind \in Kinds PROVE DOMAIN series'[kind] = DOMAIN series[kind] \cup {hash}
  BY <1>3 DEF PromUpdate, SetPromGauge, AddPromSample, IncrPromCounter, Put, Kinds
<1>4. /\ DOMAIN updates' = DOMAIN updates \cup {hash}
      /\ \A h \in DOMAIN updates' : updates'[h] = IF h = hash THEN now ELSE updates[h]
  BY DEF PromUpdate, Put
<1>5. touched' = Put(touched, <<kind, hash>>, now)
  BY DEF PromUpdate
<1>6. ASSUME NEW k \in Kinds, NEW h \in DOMAIN series[k] PROVE Timed(k, h, updates', touched')
  <2>1. Timed(k, h, updates, touched)
    BY <1>6
  <2>2. h \in DOMAIN updates' /\ updates'[h] \in Nat /\ updates'[h] <= now /\ updates[h] <= updates'[h]
    BY <1>4, <2>1 DEF Timed
  <2>3. /\ <<k, h>> \in DOMAIN touched'
        /\ touched'[<<k, h>>] = touched[<<k, h>>] \/ (touched'[<<k, h>>] = now /\ h = hash)
    BY <1>5, <2>1 DEF Put, Timed
  <2>4. h = hash => updates'[h] = now
    BY <1>4, <2>2
  <2> QED
    BY <2>1, <2>2, <2>3, <2>4 DEF Timed
<1>7. ASSUME kind \in Kinds PROVE Timed(kind, hash, updates', touched')
  <2>1. <<kind, hash>> \in DOMAIN touched' /\ touched'[<<kind, hash>>] = now
    BY <1>5 DEF Put
  <2>2. hash \in DOMAIN updates' /\ updates'[hash] = now
    BY <1>4
  <2> QED
    BY <2>1, <2>2 DEF Timed
<1>8. \A k \in Kinds : DOMAIN series[k] \subseteq DOMAIN series'[k]
  BY <1>2, <1>3
<1>9. \A k \in Kinds : \A h \in DOMAIN series'[k] : Timed(k, h, updates', touched')
  BY <1>2, <1>3, <1>6, <1>7
<1> QED
  BY <1>1, <1>8, <1>9

(* A collection: what is dropped has expired, and what stays keeps its     *)
(* times.                                                                  *)
LEMMA Collected ==
    ASSUME SeriesInv, Collect
    PROVE  /\ DOMAIN series' = Kinds
           /\ \A k \in Kinds : \A h \in DOMAIN series[k] \ DOMAIN series'[k] : touched[<<k, h>>] + Expiration < now
           /\ \A k \in Kinds : \A h \in DOMAIN series'[k] : Timed(k, h, updates', touched')
<1> DEFINE gone == UNION {{h \in DOMAIN series[k] : Expired(h)} : k \in Kinds}
<1> USE DEF SeriesInv
<1>1. /\ series' = [k \in Kinds |-> [h \in DOMAIN series[k] \ gone |-> series[k][h]]]
      /\ updates' = [h \in DOMAIN updates \ gone |-> updates[h]]
      /\ touched' = touched
  BY DEF Collect
<1>2. \A h \in gone : Expired(h)
  OBVIOUS
<1> HIDE DEF gone
<1>3. \A k \in Kinds : DOMAIN series'[k] = DOMAIN series[k] \ gone
  BY <1>1
<1>4. ASSUME NEW k \in Kinds, NEW h \in DOMAIN series[k] \ DOMAIN series'[k]
      PROVE  touched[<<k, h>>] + Expiration < now
  <2>1. h \in DOMAIN series[k] /\ h \in gone
    BY <1>3, <1>4
  <2>2. Timed(k, h, updates, touched) /\ Expired(h)
    BY <1>2, <2>1
  <2> QED
    BY <2>2, ExpirationAssumption DEF Timed, Expired
<1>5. ASSUME NEW k \in Kinds, NEW h \in DOMAIN series'[k] PROVE Timed(k, h, updates', touched')
  <2>1. h \in DOMAIN series[k] /\ h \notin gone
    BY <1>3, <1>5
  <2>2. Timed(k, h, updates, touched)
    BY <2>1
  <2>3. h \in DOMAIN updates' /\ updates'[h] = updates[h]
    BY <1>1, <2>1, <2>2 DEF Timed
  <2> QED
    BY <1>1, <2>2, <2>3 DEF Timed
<1> QED
  BY <1>1, <1>4, <1>5

(* A step of anybody: the clock does not go back, and the sink changes by  *)
(* an update or a collection.                                              *)
LEMMA SeriesStep ==
    ASSUME SeriesInv, now' \in Nat, [Next]_vars
    PROVE  \/ UNCHANGED promVars /\ now <= now'
           \/ Collect /\ now' = now
           \/ (\E kind, hash, val : PromUpdate(kind, hash, val)) /\ now' = now
<1>0. now <= now
  BY DEF SeriesInv
<1>1. CASE \E e \in Emitters :
             Begin(e) \/ \E num \in {0, lastNumGC + 1, lastNumGC + 2} : CollectStats(e, num)
  BY <1>0, <1>1 DEF Begin, CollectStats, Start
<1>2. CASE \E e \in Emitters :
             Prepare(e) \/ Clock(e) \/ Existing(e) \/ Create(e) \/ Update(e) \/ Push(e) \/ DogSink(e)
  BY <1>0, <1>2 DEF Prepare, Clock, Existing, Create, Update, Push, DogSink
<1>3. CASE \E e \in Emitters : PromSink(e)
  BY <1>3 DEF PromSink
<1>4. CASE \E r \in Readers :
              ReadClock(r) \/ ReadExisting(r) \/ ReadCreate(r) \/ DumpStats(r) \/ DataCopy(r) \/ Index(r) \/ Display(r)
  BY <1>0, <1>4 DEF ReadClock, ReadExisting, ReadCreate, DumpStats, DataCopy, Index, Display, rdUnchanged
<1>5. CASE Kill \/ SignalStop \/ RunReturns
  BY <1>0, <1>5 DEF Kill, SignalStop, RunReturns, rdUnchanged
<1>6. CASE \/ \E c \in Configs : NewGlobal(c)
           \/ \E f \in Filters : UpdateFilterAndLabels(f) \/ UpdateFilter(f)
  BY <1>0, <1>6 DEF NewGlobal, UpdateFilterAndLabels, UpdateFilter, SetFilter
<1>7. CASE Flush \/ ShutdownStatsd \/ UNCHANGED vars
  BY <1>0, <1>7 DEF Flush, ShutdownStatsd, vars
<1>8. CASE Scrape
  BY <1>8 DEF Scrape
<1>9. CASE Tick
  BY <1>9 DEF Tick, SeriesInv
<1> QED
  BY <1>1, <1>2, <1>3, <1>4, <1>5, <1>6, <1>7, <1>8, <1>9 DEF Next

(* The times of the series are an invariant, and only Collect drops one.   *)
LEMMA SeriesInvStep ==
    ASSUME SeriesInv, now' \in Nat, [Next]_vars
    PROVE  /\ SeriesInv'
           /\ \A k \in Kinds : \A h \in DOMAIN series[k] \ DOMAIN series'[k] : touched[<<k, h>>] + Expiration < now
<1>1. CASE UNCHANGED promVars /\ now <= now'
  <2>1. series' = series /\ updates' = updates /\ touched' = touched
    BY <1>1 DEF promVars
  <2>2. ASSUME NEW k, NEW h, Timed(k, h, updates, touched) PROVE Timed(k, h, updates, touched)'
    BY <1>1, <2>1, <2>2 DEF Timed, SeriesInv
  <2> QED
    BY <2>1, <2>2 DEF SeriesInv
<1>2. CASE Collect /\ now' = now
  BY <1>2, Collected DEF SeriesInv, Timed
<1>3. CASE (\E kind, hash, val : PromUpdate(kind, hash, val)) /\ now' = now
  BY <1>3, PromUpdated DEF SeriesInv, Timed
<1> QED
  BY <1>1, <1>2, <1>3, SeriesStep

(* Collect drops a series only when nothing was reported to it for longer  *)
(* than the expiration, although the kinds of a hash share a time: for any *)
(* expiration, series and interleaving of emitters and scrapes.            *)
THEOREM DropsOnlyStale == Spec => DroppedWhenStale
<1>1. Init => SeriesInv
  BY DEF Init, PromInit, SeriesInv, EmptyMap, Kinds
<1>2. ReadInv' /\ SeriesInv /\ [Next]_vars => SeriesInv'
  BY SeriesInvStep DEF ReadInv
<1>3. ReadInv' /\ SeriesInv /\ [Next]_vars =>
         [\A k \in Kinds : \A h \in DOMAIN series[k] \ DOMAIN series'[k] :
             touched[<<k, h>>] + Expiration < now]_promVars
  BY SeriesInvStep DEF ReadInv
<1>4. Spec => []ReadInv
  <2>1. IInv => ReadInv
    BY DEF IInv
  <2> QED
    BY <2>1, Invariance, PTL
<1> QED
  BY <1>1, <1>2, <1>3, <1>4, PTL DEF Spec, DroppedWhenStale
=============================================================================
