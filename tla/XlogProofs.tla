----------------------------- MODULE XlogProofs ------------------------------
(***************************************************************************)
(* Proofs about Xlog, for any number of goroutines, loggers, rotators and  *)
(* records, any size of the channel and any texts of configurations.       *)
(*                                                                         *)
(* The invariant has three parts that do not depend on each other but for  *)
(* types: the slices of the loggers (SlicesOK), the registry and the       *)
(* levels (LevelsOK), and the rotators (RotsOK).                           *)
(***************************************************************************)
EXTENDS Xlog, SequenceTheorems, WellFoundedInduction, TLAPS

-----------------------------------------------------------------------------
(* The greatest member of a set of numbers.                                *)

(* A nonempty set of numbers below a bound has a greatest member.          *)
LEMMA MaxIs ==
  ASSUME NEW n \in Nat, NEW T, T \subseteq 1..n, T # {}
  PROVE  Max(T) \in T /\ \A y \in T : y <= Max(T)
<1> DEFINE gap == {n - x : x \in T}
<1>1. gap \subseteq Nat /\ gap # {}
  <2>1. ASSUME NEW x \in T PROVE n - x \in Nat
    <3>1. x \in 1..n
      OBVIOUS
    <3> QED
      BY <3>1
  <2> QED
    BY <2>1
<1>2. PICK d \in gap : \A e \in gap : ~(<<e, d>> \in OpToRel(<, Nat))
  BY <1>1, NatLessThanWellFounded, WFMin
<1>3. \A e \in gap : ~(e < d)
  BY <1>1, <1>2 DEF OpToRel
<1>4. PICK x \in T : d = n - x
  OBVIOUS
<1>5. ASSUME NEW y \in T PROVE x >= y
  <2>1. ~(n - y < n - x)
    BY <1>3, <1>4
  <2>2. y \in 1..n /\ x \in 1..n
    OBVIOUS
  <2> QED
    BY <2>1, <2>2
<1>6. \E z \in T : \A y \in T : z >= y
  BY <1>5
<1>7. Max(T) \in T /\ \A y \in T : Max(T) >= y
  BY <1>6, Zenon DEF Max
<1> HIDE DEF gap
<1>8. ASSUME NEW y \in T PROVE y <= Max(T)
  <2>1. y \in 1..n /\ Max(T) \in 1..n /\ Max(T) >= y
    BY <1>7
  <2> QED
    BY <2>1
<1> QED
  BY <1>7, <1>8

(* A member that no other exceeds is the greatest.                         *)
LEMMA MaxUnique ==
  ASSUME NEW n \in Nat, NEW T, T \subseteq 1..n, NEW x \in T, \A y \in T : y <= x
  PROVE  Max(T) = x
<1>1. Max(T) \in T /\ x <= Max(T)
  BY MaxIs
<1>2. Max(T) <= x /\ Max(T) \in 1..n /\ x \in 1..n
  BY <1>1
<1> QED
  BY <1>1, <1>2

(* Replacing one member of a sequence.                                     *)
LEMMA Replaced ==
  ASSUME NEW S, NEW q \in Seq(S), NEW k \in 1..Len(q), NEW e \in S,
         NEW t, t = [q EXCEPT ![k] = e]
  PROVE  /\ t \in Seq(S) /\ Len(t) = Len(q)
         /\ t[k] = e /\ \A j \in 1..Len(q) : j # k => t[j] = q[j]
BY ExceptSeq

(* Appending one member to a sequence.                                     *)
LEMMA Appended ==
  ASSUME NEW S, NEW q \in Seq(S), NEW e \in S, NEW t, t = Append(q, e)
  PROVE  /\ t \in Seq(S) /\ Len(t) = Len(q) + 1 /\ Len(q) \in Nat
         /\ t[Len(q) + 1] = e /\ \A j \in 1..Len(q) : t[j] = q[j]
         /\ \A j \in 1..Len(t) : j \in 1..Len(q) \/ j = Len(q) + 1
<1>1. t \in Seq(S) /\ Len(t) = Len(q) + 1
      /\ t[Len(q) + 1] = e /\ \A j \in 1..Len(q) : t[j] = q[j]
  BY AppendProperties
<1>2. Len(q) \in Nat
  BY LenProperties
<1> QED
  BY <1>1, <1>2

-----------------------------------------------------------------------------
(* The invariant of the loggers and their slices.                          *)

Array == Seq(Int)
Logger == [pkg : Pkgs \cup {""}, level : Levels, values : [arr : Nat, len : Nat], depth : Nat]

(* A slice is as long as its logger is deep and within its array.          *)
SliceOf(l, vals, as) ==
    /\ l.values.len = l.depth /\ Len(vals) = l.depth
    /\ l.depth = 0 => l.values.arr = 0
    /\ l.depth > 0 => l.values.arr \in 1..Len(as) /\ l.values.len <= Len(as[l.values.arr])

(* No logger that shares the array of the i-th ends before the k-th value, *)
(* and where this is so the value is the one given.                        *)
Safe(i, k, ls) == \A j \in 1..Len(ls) : ls[j].values.arr = ls[i].values.arr => k <= ls[j].values.len
Holds(i, k, ls, gs, as) == as[ls[i].values.arr][k] = gs[i][k]

SlicesTyped ==
    /\ loggers \in Seq(Logger)
    /\ given \in Seq(Array) /\ Len(given) = Len(loggers)
    /\ arrays \in Seq(Array)
    /\ \A i \in 1..Len(loggers) : SliceOf(loggers[i], given[i], arrays)

SlicesOK ==
    /\ SlicesTyped
    /\ \A i \in 1..Len(loggers) : \A k \in 1..loggers[i].values.len :
         Safe(i, k, loggers) => Holds(i, k, loggers, given, arrays)

(* What the invariant says of one logger.                                  *)
LEMMA LoggerOf ==
  ASSUME SlicesOK, NEW i \in 1..Len(loggers)
  PROVE  /\ loggers[i] \in Logger /\ given[i] \in Seq(Int)
         /\ SliceOf(loggers[i], given[i], arrays)
         /\ loggers[i].values.len \in Nat /\ loggers[i].values.arr \in Nat /\ loggers[i].depth \in Nat
<1>1. loggers[i] \in Logger /\ given[i] \in Seq(Int)
  BY ElementOfSeq DEF SlicesOK, SlicesTyped, Array
<1> QED
  BY <1>1 DEF SlicesOK, SlicesTyped, Logger

(* The values of a slice that is within its array.                         *)
LEMMA ValuesType ==
  ASSUME SlicesOK, NEW i \in 1..Len(loggers)
  PROVE  /\ Values(loggers[i].values) \in Seq(Int)
         /\ Len(Values(loggers[i].values)) = loggers[i].values.len
         /\ \A k \in 1..loggers[i].values.len :
              Values(loggers[i].values)[k] = arrays[loggers[i].values.arr][k]
<1> DEFINE s == loggers[i].values
<1>1. s.len \in Nat /\ s.arr \in Nat /\ SliceOf(loggers[i], given[i], arrays) /\ loggers[i].depth \in Nat
  BY LoggerOf
<1>2. CASE s.arr = 0
  <2>1. s.len = 0
    <3>1. ~(loggers[i].depth > 0)
      BY <1>1, <1>2, LenProperties DEF SliceOf, SlicesOK, SlicesTyped
    <3> QED
      BY <1>1, <3>1 DEF SliceOf
  <2> QED
    BY <1>2, <2>1 DEF Values
<1>3. CASE s.arr # 0
  <2>1. s.arr \in 1..Len(arrays) /\ s.len <= Len(arrays[s.arr])
    BY <1>1, <1>3 DEF SliceOf
  <2>2. arrays[s.arr] \in Seq(Int)
    BY <2>1, ElementOfSeq DEF SlicesOK, SlicesTyped, Array
  <2>3. Values(s) = SubSeq(arrays[s.arr], 1, s.len)
    BY <1>3 DEF Values
  <2> HIDE DEF s
  <2>4. \A j \in 1..s.len : arrays[s.arr][j] \in Int
    BY <1>1, <2>1, <2>2, ElementOfSeq, LenProperties
  <2>5. Len(arrays[s.arr]) \in Nat
    BY <2>2, LenProperties
  <2>6. PICK a \in Seq(Int) : a = arrays[s.arr]
    BY <2>2
  <2>7. /\ SubSeq(a, 1, s.len) \in Seq(Int) /\ Len(SubSeq(a, 1, s.len)) = s.len
        /\ \A k \in 1..s.len : SubSeq(a, 1, s.len)[k] = a[k]
    <3>1. \A k \in 1..s.len : a[k] \in Int
      BY <2>4, <2>6
    <3>2. Len(SubSeq(a, 1, s.len)) = s.len /\ \A k \in 1..s.len : SubSeq(a, 1, s.len)[k] = a[1 + k - 1]
      BY <1>1, <2>1, <2>5, <2>6, SubSeqProperties
    <3>3. \A k \in 1..s.len : 1 + k - 1 = k
      BY <1>1
    <3>4. SubSeq(a, 1, s.len) \in Seq(Int)
      BY <1>1, <2>1, <2>5, <2>6, <3>1, SubSeqProperties
    <3> QED
      BY <3>2, <3>3, <3>4
  <2> QED
    BY <2>3, <2>6, <2>7 DEF s
<1> QED
  BY <1>2, <1>3

(* A value before which no sharing logger ends is the one given.           *)
LEMMA ContextOf == SlicesOK => ContextKept
<1> SUFFICES ASSUME SlicesOK, NEW i \in 1..Len(loggers)
             PROVE  /\ loggers[i].values.len = Len(given[i])
                    /\ \A k \in 1..loggers[i].values.len :
                         Safe(i, k, loggers) => arrays[loggers[i].values.arr][k] = given[i][k]
  BY Zenon DEF ContextKept, Safe
<1>1. loggers[i].values.len = Len(given[i])
  BY LoggerOf DEF SliceOf
<1> QED
  BY <1>1 DEF SlicesOK, Holds

-----------------------------------------------------------------------------
(* append.                                                                 *)

(* An array begins with the values of a slice and one more.                *)
BeginsWith(g, s, v) ==
    /\ g \in Seq(Int) /\ Len(g) >= s.len + 1
    /\ \A k \in 1..s.len : g[k] = Values(s)[k]
    /\ g[s.len + 1] = v

(* The new array: the values and the one appended, then empty cells.       *)
LEMMA GrownIs ==
  ASSUME SlicesOK, NEW i \in 1..Len(loggers), NEW v \in Int,
         NEW g, g = Grown(loggers[i].values, v)
  PROVE  BeginsWith(g, loggers[i].values, v)
<1> DEFINE s == loggers[i].values
           n == s.len
           cap == IF n = 0 THEN 1 ELSE 2 * n
           pad == [j \in 1..(cap - n - 1) |-> Nil]
           vals == Values(s)
           front == Append(vals, v)
<1>1. n \in Nat /\ vals \in Seq(Int) /\ Len(vals) = n
  BY LoggerOf, ValuesType
<1>2. g = vals \o <<v>> \o pad
  BY DEF Grown
<1> HIDE DEF vals, n
<1>4. cap - n - 1 \in Nat
  BY <1>1
<1>5. pad \in Seq(Int) /\ Len(pad) = cap - n - 1
  <2>1. \A j \in 1..(cap - n - 1) : Nil \in Int
    BY DEF Nil
  <2> HIDE DEF cap
  <2> QED
    BY <1>4, <2>1, IsASeq, LenProperties
<1>6. vals \o <<v>> = front
  BY <1>1, AppendIsConcat
<1>7. /\ front \in Seq(Int) /\ Len(front) = n + 1
      /\ front[n + 1] = v /\ \A k \in 1..n : front[k] = vals[k]
  BY <1>1, AppendProperties
<1> HIDE DEF pad, cap, front
<1>9. /\ front \o pad \in Seq(Int) /\ Len(front \o pad) = n + 1 + Len(pad)
      /\ \A k \in 1..(n + 1) : (front \o pad)[k] = front[k]
  <2>1. /\ front \o pad \in Seq(Int) /\ Len(front \o pad) = Len(front) + Len(pad)
        /\ \A k \in 1..(Len(front) + Len(pad)) :
             (front \o pad)[k] = IF k <= Len(front) THEN front[k] ELSE pad[k - Len(front)]
    BY <1>5, <1>7, ConcatProperties
  <2>2. Len(pad) \in Nat
    BY <1>4, <1>5
  <2>3. \A k \in 1..(n + 1) : k \in 1..(Len(front) + Len(pad)) /\ k <= Len(front)
    BY <1>1, <1>7, <2>2
  <2> QED
    BY <1>7, <2>1, <2>3
<1>10. Len(front \o pad) >= n + 1
  BY <1>1, <1>4, <1>5, <1>9
<1>11. g = front \o pad
  BY <1>2, <1>6
<1>12. n + 1 \in 1..(n + 1) /\ \A k \in 1..n : k \in 1..(n + 1)
  BY <1>1
<1> QED
  BY <1>7, <1>9, <1>10, <1>11, <1>12 DEF n, vals, BeginsWith

(* append writes no cell but the one behind the slice;                     *)
OnlyBehind(s, as) ==
    /\ as \in Seq(Array)
    /\ \A a \in 1..Len(arrays) :
         /\ a \in 1..Len(as) /\ Len(as[a]) = Len(arrays[a])
         /\ \A k \in 1..Len(arrays[a]) : as[a][k] = arrays[a][k] \/ (a = s.arr /\ k = s.len + 1)

(* the slice it returns holds the values and the one appended.             *)
HoldsAlso(s, v, as, new) ==
    /\ new \in [arr : Nat, len : Nat] /\ new.len = s.len + 1
    /\ new.arr \in 1..Len(as) /\ new.len <= Len(as[new.arr])
    /\ \A k \in 1..s.len : as[new.arr][k] = Values(s)[k]
    /\ as[new.arr][s.len + 1] = v

(* So it is.                                                               *)
LEMMA AppendedIs ==
  ASSUME SlicesOK, NEW i \in 1..Len(loggers), NEW v \in Int,
         NEW s, s = loggers[i].values, NEW as, as = AppendedArrays(s, v), NEW new, new = AppendedSlice(s)
  PROVE  OnlyBehind(s, as) /\ HoldsAlso(s, v, as, new)
<1>0. arrays \in Seq(Array) /\ Len(arrays) \in Nat /\ s.len \in Nat /\ s.arr \in Nat
  BY LoggerOf, LenProperties DEF SlicesOK, SlicesTyped
<1>1. new.len = s.len + 1 /\ new.arr = IF HasRoom(s) THEN s.arr ELSE Len(arrays) + 1
  BY DEF AppendedSlice
<1>2. new \in [arr : Nat, len : Nat]
  BY <1>0 DEF AppendedSlice
<1>3. CASE HasRoom(s)
  <2>1. s.arr \in 1..Len(arrays) /\ s.len < Len(arrays[s.arr])
    <3>1. s.arr # 0 /\ s.len < Len(arrays[s.arr])
      BY <1>3 DEF HasRoom
    <3>2. SliceOf(loggers[i], given[i], arrays) /\ loggers[i].depth \in Nat
      BY LoggerOf
    <3> QED
      BY <3>1, <3>2 DEF SliceOf
  <2>2. arrays[s.arr] \in Seq(Int)
    BY <1>0, <2>1, ElementOfSeq DEF Array
  <2>3. Len(arrays[s.arr]) \in Nat
    BY <2>2, LenProperties
  <2>4. s.len + 1 \in 1..Len(arrays[s.arr])
    BY <1>0, <2>1, <2>3
  <2> DEFINE b == [arrays[s.arr] EXCEPT ![s.len + 1] = v]
  <2>5. /\ b \in Array /\ Len(b) = Len(arrays[s.arr]) /\ b[s.len + 1] = v
        /\ \A k \in 1..Len(arrays[s.arr]) : k # s.len + 1 => b[k] = arrays[s.arr][k]
    <3>1. \A q \in Seq(Int) : \A m \in 1..Len(q) : \A t : t = [q EXCEPT ![m] = v] =>
             /\ t \in Seq(Int) /\ Len(t) = Len(q) /\ t[m] = v
             /\ \A k \in 1..Len(q) : k # m => t[k] = q[k]
      BY Replaced
    <3> QED
      BY <2>2, <2>4, <3>1 DEF Array
  <2>6. as = [arrays EXCEPT ![s.arr] = b]
    BY <1>3 DEF AppendedArrays
  <2> HIDE DEF b
  <2>7. /\ as \in Seq(Array) /\ Len(as) = Len(arrays) /\ as[s.arr] = b
        /\ \A a \in 1..Len(arrays) : a # s.arr => as[a] = arrays[a]
    <3>1. \A t : t = [arrays EXCEPT ![s.arr] = b] =>
             /\ t \in Seq(Array) /\ Len(t) = Len(arrays) /\ t[s.arr] = b
             /\ \A a \in 1..Len(arrays) : a # s.arr => t[a] = arrays[a]
      BY <1>0, <2>1, <2>5, Replaced
    <3> QED
      BY <2>6, <3>1
  <2>8. ASSUME NEW a \in 1..Len(arrays)
        PROVE  /\ a \in 1..Len(as) /\ Len(as[a]) = Len(arrays[a])
               /\ \A k \in 1..Len(arrays[a]) : as[a][k] = arrays[a][k] \/ (a = s.arr /\ k = s.len + 1)
    BY <2>5, <2>7
  <2>9. new.arr = s.arr /\ new.arr \in 1..Len(as) /\ new.len <= Len(as[new.arr])
    BY <1>0, <1>1, <1>3, <2>1, <2>3, <2>5, <2>7
  <2>10. ASSUME NEW k \in 1..s.len PROVE as[new.arr][k] = Values(s)[k]
    <3>1. Values(s)[k] = arrays[s.arr][k]
      BY ValuesType
    <3>2. k \in 1..Len(arrays[s.arr]) /\ k # s.len + 1
      BY <1>0, <2>1, <2>3
    <3> QED
      BY <2>5, <2>7, <2>9, <3>1, <3>2
  <2>11. as[new.arr][s.len + 1] = v
    BY <2>5, <2>7, <2>9
  <2> QED
    BY <1>1, <1>2, <2>7, <2>8, <2>9, <2>10, <2>11 DEF OnlyBehind, HoldsAlso
<1>4. CASE ~HasRoom(s)
  <2> DEFINE g == Grown(s, v)
  <2>1. /\ g \in Seq(Int) /\ Len(g) >= s.len + 1 /\ g[s.len + 1] = v
        /\ \A k \in 1..s.len : g[k] = Values(s)[k]
    <3>1. BeginsWith(g, loggers[i].values, v)
      BY GrownIs
    <3> QED
      BY <3>1 DEF BeginsWith
  <2>2. g \in Array
    BY <2>1 DEF Array
  <2>3. as = Append(arrays, g)
    BY <1>4 DEF AppendedArrays
  <2> HIDE DEF g
  <2>4. /\ as \in Seq(Array) /\ Len(as) = Len(arrays) + 1 /\ as[Len(arrays) + 1] = g
        /\ \A a \in 1..Len(arrays) : as[a] = arrays[a]
    BY <1>0, <2>2, <2>3, Appended
  <2>5. new.arr = Len(arrays) + 1 /\ new.arr \in 1..Len(as) /\ as[new.arr] = g
    BY <1>0, <1>1, <1>4, <2>4
  <2>6. new.len <= Len(g)
    <3>1. Len(g) \in Nat
      BY <2>1, LenProperties
    <3> QED
      BY <1>0, <1>1, <2>1, <3>1
  <2>7. ASSUME NEW a \in 1..Len(arrays)
        PROVE  /\ a \in 1..Len(as) /\ Len(as[a]) = Len(arrays[a])
               /\ \A k \in 1..Len(arrays[a]) : as[a][k] = arrays[a][k] \/ (a = s.arr /\ k = s.len + 1)
    BY <1>0, <2>4
  <2> QED
    BY <1>1, <1>2, <2>1, <2>4, <2>5, <2>6, <2>7 DEF OnlyBehind, HoldsAlso
<1> QED
  BY <1>3, <1>4

(* append leaves the slices of all loggers what they have to be: the cell  *)
(* it writes is behind the slice of a logger that shares the array.        *)
LEMMA AppendKeeps ==
  ASSUME SlicesOK, NEW i \in 1..Len(loggers), NEW v \in Int,
         NEW as, as = AppendedArrays(loggers[i].values, v)
  PROVE  /\ as \in Seq(Array)
         /\ \A j \in 1..Len(loggers) : SliceOf(loggers[j], given[j], as)
         /\ \A j \in 1..Len(loggers) : \A k \in 1..loggers[j].values.len :
              Safe(j, k, loggers) => Holds(j, k, loggers, given, as)
<1> DEFINE s == loggers[i].values
<1>0. OnlyBehind(s, as)
  BY AppendedIs, Zenon
<1>1. /\ as \in Seq(Array)
      /\ \A a \in 1..Len(arrays) :
           /\ a \in 1..Len(as) /\ Len(as[a]) = Len(arrays[a])
           /\ \A k \in 1..Len(arrays[a]) : as[a][k] = arrays[a][k] \/ (a = s.arr /\ k = s.len + 1)
  BY <1>0, Zenon DEF OnlyBehind
<1>2. s.len \in Nat
  BY LoggerOf
<1>3. ASSUME NEW j \in 1..Len(loggers) PROVE SliceOf(loggers[j], given[j], as)
  <2>1. SliceOf(loggers[j], given[j], arrays)
    BY LoggerOf
  <2> QED
    BY <1>1, <2>1 DEF SliceOf
<1>4. ASSUME NEW j \in 1..Len(loggers), NEW k \in 1..loggers[j].values.len, Safe(j, k, loggers)
      PROVE  Holds(j, k, loggers, given, as)
  <2> DEFINE a == loggers[j].values.arr
  <2>1. arrays[a][k] = given[j][k]
    BY <1>4 DEF SlicesOK, Holds
  <2>2. /\ SliceOf(loggers[j], given[j], arrays) /\ loggers[j].depth \in Nat /\ loggers[j].values.len \in Nat
        /\ loggers[j].values.len = loggers[j].depth
    BY LoggerOf DEF SliceOf
  <2>3. loggers[j].depth > 0
    BY <2>2
  <2>4. a \in 1..Len(arrays) /\ loggers[j].values.len <= Len(arrays[a])
    BY <2>2, <2>3 DEF SliceOf
  <2>5. Len(arrays[a]) \in Nat
    <3>1. arrays[a] \in Seq(Int)
      BY <2>4, ElementOfSeq DEF SlicesOK, SlicesTyped, Array
    <3> QED
      BY <3>1, LenProperties
  <2>6. k \in 1..Len(arrays[a])
    BY <2>2, <2>4, <2>5
  <2>7. a = s.arr => k <= s.len
    BY <1>4 DEF Safe
  <2>8. ~(a = s.arr /\ k = s.len + 1)
    BY <1>2, <2>7
  <2>9. as[a][k] = arrays[a][k]
    BY <1>1, <2>4, <2>6, <2>8
  <2> QED
    BY <2>1, <2>9 DEF Holds
<1> QED
  BY <1>1, <1>3, <1>4

(* What logging does to the arrays keeps the slices.                       *)
LEMMA EntriesKeep ==
  ASSUME SlicesOK, NEW i \in 1..Len(loggers), NEW e \in Int,
         arrays' = EntriesArrays(i, e), UNCHANGED <<loggers, given>>
  PROVE  SlicesOK'
<1>1. CASE loggers[i].values.len = 0
  BY <1>1 DEF EntriesArrays, SlicesOK, SlicesTyped
<1>2. CASE loggers[i].values.len # 0
  <2>1. arrays' = AppendedArrays(loggers[i].values, e)
    BY <1>2 DEF EntriesArrays
  <2>2. /\ arrays' \in Seq(Array)
        /\ \A j \in 1..Len(loggers) : SliceOf(loggers[j], given[j], arrays')
        /\ \A j \in 1..Len(loggers) : \A k \in 1..loggers[j].values.len :
             Safe(j, k, loggers) => Holds(j, k, loggers, given, arrays')
    BY <2>1, AppendKeeps
  <2> QED
    BY <2>2 DEF SlicesOK, SlicesTyped
<1> QED
  BY <1>1, <1>2

(* One more logger whose slice holds what it was given.  The others share  *)
(* their arrays with it or not: no more of their values are safe.          *)
LEMMA OneMoreLogger ==
  ASSUME SlicesOK, arrays' \in Seq(Array),
         \A j \in 1..Len(loggers) : SliceOf(loggers[j], given[j], arrays'),
         \A j \in 1..Len(loggers) : \A k \in 1..loggers[j].values.len :
           Safe(j, k, loggers) => Holds(j, k, loggers, given, arrays'),
         NEW l \in Logger, NEW g \in Array, SliceOf(l, g, arrays'),
         \A k \in 1..l.values.len : arrays'[l.values.arr][k] = g[k],
         loggers' = Append(loggers, l), given' = Append(given, g)
  PROVE  SlicesOK'
<1> DEFINE n == Len(loggers) + 1
<1>1. loggers \in Seq(Logger) /\ given \in Seq(Array) /\ Len(given) = Len(loggers)
  BY DEF SlicesOK, SlicesTyped
<1>2. /\ loggers' \in Seq(Logger) /\ Len(loggers') = n /\ Len(loggers) \in Nat /\ loggers'[n] = l
      /\ \A j \in 1..Len(loggers) : loggers'[j] = loggers[j]
      /\ \A j \in 1..Len(loggers') : j \in 1..Len(loggers) \/ j = n
  BY <1>1, Appended
<1>3. /\ given' \in Seq(Array) /\ Len(given') = n /\ given'[n] = g
      /\ \A j \in 1..Len(loggers) : given'[j] = given[j]
  <2>1. \A t : t = Append(given, g) =>
          /\ t \in Seq(Array) /\ Len(t) = Len(given) + 1
          /\ t[Len(given) + 1] = g /\ \A j \in 1..Len(given) : t[j] = given[j]
    BY <1>1, Appended
  <2> QED
    BY <1>1, <2>1
<1>4. 1..Len(loggers) \subseteq 1..n
  BY <1>2
<1> HIDE DEF n
<1>5. ASSUME NEW j \in 1..Len(loggers') PROVE SliceOf(loggers'[j], given'[j], arrays')
  BY <1>2, <1>3
<1>6. ASSUME NEW j \in 1..Len(loggers'), NEW k \in 1..loggers'[j].values.len, Safe(j, k, loggers')
      PROVE  Holds(j, k, loggers', given', arrays')
  <2>1. CASE j = n
    BY <1>2, <1>3, <2>1 DEF Holds
  <2>2. CASE j \in 1..Len(loggers)
    <3>1. Safe(j, k, loggers)
      BY <1>2, <1>4, <1>6, <2>2 DEF Safe
    <3>2. Holds(j, k, loggers, given, arrays')
      BY <1>2, <2>2, <3>1
    <3> QED
      BY <1>2, <1>3, <2>2, <3>2 DEF Holds
  <2> QED
    BY <1>2, <2>1, <2>2
<1> QED
  BY <1>2, <1>3, <1>5, <1>6 DEF SlicesOK, SlicesTyped

(* A logger whose slice holds what it was given.                           *)
Fresh(l, g, as) ==
    /\ l \in Logger /\ g \in Array /\ SliceOf(l, g, as)
    /\ \A k \in 1..l.values.len : as[l.values.arr][k] = g[k]

(* The logger WithValues returns is one.                                   *)
LEMMA DerivedSlice ==
  ASSUME SlicesOK, NEW i \in 1..Len(loggers), NEW v \in Int,
         NEW as, as = AppendedArrays(loggers[i].values, v),
         NEW l, l = [loggers[i] EXCEPT !.values = AppendedSlice(loggers[i].values), !.depth = @ + 1],
         NEW g, g = Append(Values(loggers[i].values), v)
  PROVE  Fresh(l, g, as)
<1> DEFINE s == loggers[i].values
           new == AppendedSlice(s)
           d == loggers[i].depth
           vals == Values(s)
<1>1. loggers[i] \in Logger /\ d \in Nat /\ s.len = d
  BY LoggerOf DEF SliceOf
<1>2. /\ new \in [arr : Nat, len : Nat] /\ new.len = s.len + 1
      /\ new.arr \in 1..Len(as) /\ new.len <= Len(as[new.arr])
      /\ \A k \in 1..s.len : as[new.arr][k] = vals[k]
      /\ as[new.arr][s.len + 1] = v
  <2>1. HoldsAlso(s, v, as, new)
    BY AppendedIs, Zenon
  <2> QED
    BY <2>1, Zenon DEF HoldsAlso
<1>3. l = [loggers[i] EXCEPT !.values = new, !.depth = d + 1] /\ g = Append(vals, v)
  OBVIOUS
<1>4. vals \in Seq(Int) /\ Len(vals) = d
  BY <1>1, ValuesType
<1> HIDE DEF new, d, vals
<1>5. l \in Logger /\ l.values = new /\ l.depth = d + 1
  <2>1. d + 1 \in Nat
    BY <1>1
  <2> QED
    BY <1>1, <1>2, <1>3, <2>1 DEF Logger
<1>6. /\ g \in Seq(Int) /\ Len(g) = d + 1 /\ g[d + 1] = v
      /\ \A k \in 1..d : g[k] = vals[k]
  BY <1>3, <1>4, AppendProperties
<1>7. ASSUME NEW k \in 1..(d + 1) PROVE as[new.arr][k] = g[k]
  <2>1. k \in 1..d \/ k = d + 1
    BY <1>1
  <2> QED
    BY <1>1, <1>2, <1>6, <2>1
<1>8. d + 1 # 0 /\ new.len = d + 1
  BY <1>1, <1>2
<1>9. SliceOf(l, g, as)
  BY <1>2, <1>5, <1>6, <1>8 DEF SliceOf
<1> QED
  BY <1>5, <1>6, <1>7, <1>8, <1>9 DEF Array, Fresh

(* WithValues.                                                             *)
LEMMA WithValuesKeeps ==
  ASSUME SlicesOK, NEW i \in 1..Len(loggers), NEW v \in Int, WithValues(i, v)
  PROVE  SlicesOK'
<1> DEFINE l == [loggers[i] EXCEPT !.values = AppendedSlice(loggers[i].values), !.depth = @ + 1]
           g == Append(Values(loggers[i].values), v)
<1>1. /\ arrays' = AppendedArrays(loggers[i].values, v)
      /\ loggers' = Append(loggers, l) /\ given' = Append(given, g)
  BY DEF WithValues
<1>2. /\ arrays' \in Seq(Array)
      /\ \A j \in 1..Len(loggers) : SliceOf(loggers[j], given[j], arrays')
      /\ \A j \in 1..Len(loggers) : \A k \in 1..loggers[j].values.len :
           Safe(j, k, loggers) => Holds(j, k, loggers, given, arrays')
  BY <1>1, AppendKeeps
<1>3. Fresh(l, g, arrays')
  BY <1>1, DerivedSlice, Zenon
<1> HIDE DEF l, g
<1>4. /\ l \in Logger /\ g \in Array /\ SliceOf(l, g, arrays')
      /\ \A k \in 1..l.values.len : arrays'[l.values.arr][k] = g[k]
  BY <1>3, Zenon DEF Fresh
<1> QED
  BY <1>1, <1>2, <1>4, OneMoreLogger

-----------------------------------------------------------------------------
(* The invariant of the registry and the levels.                           *)

Names == Pkgs \cup {"*"} \cup UNION {{conf[i][1] : i \in 1..Len(conf)} : conf \in Confs}
LevelMaps == UNION {[D -> Levels] : D \in SUBSET Names}
Setting == [repo : Repos \cup {"*"}, pkgs : LevelMaps]

(* A call concerns a package, and what it says of the package's level.     *)
ConcernedBy(e, k) == e.repo \in {k[1], "*"} /\ {k[2], "*"} \cap DOMAIN e.pkgs # {}
SaidBy(m, k) == IF k[2] \in DOMAIN m THEN m[k[2]] ELSE m["*"]

Concerns(k, ss) == {i \in 1..Len(ss) : ConcernedBy(ss[i], k)}
Said(k, ss) == SaidBy(ss[Max(Concerns(k, ss))].pkgs, k)

LevelsOK ==
    /\ registry \in [DOMAIN registry -> 1..Len(loggers)]
    /\ \A k, m \in DOMAIN registry : registry[k] = registry[m] => k = m
    /\ DOMAIN registry \subseteq {Hijacked} \cup (Repos \X Pkgs)
    /\ sets \in Seq(Setting)
    /\ \A k \in DOMAIN registry \ {Hijacked} :
         Concerns(k, sets) # {} /\ loggers[registry[k]].level = Said(k, sets)

(* The levels are what the last call that concerns them says.              *)
LEMMA LevelsSaid == LevelsOK => LevelByLastCall
BY Zenon DEF LevelsOK, LevelByLastCall, Concerns, Said, SaidBy, ConcernedBy

(* One more call: it has the last word on what it concerns and none on the *)
(* rest.                                                                   *)
LEMMA OneMoreCall ==
  ASSUME NEW ss \in Seq(Setting), NEW e \in Setting, NEW k, NEW t, t = Append(ss, e)
  PROVE  /\ ConcernedBy(e, k) => Concerns(k, t) # {} /\ Said(k, t) = SaidBy(e.pkgs, k)
         /\ ~ConcernedBy(e, k) /\ Concerns(k, ss) # {} =>
              Concerns(k, t) # {} /\ Said(k, t) = Said(k, ss)
<1> DEFINE n == Len(ss) + 1
<1>1. /\ Len(t) = n /\ Len(ss) \in Nat /\ t[n] = e
      /\ \A i \in 1..Len(ss) : t[i] = ss[i]
      /\ \A i \in 1..Len(t) : i \in 1..Len(ss) \/ i = n
  BY Appended
<1>2. n \in Nat /\ n \in 1..n /\ 1..Len(ss) \subseteq 1..n /\ \A i \in 1..n : i <= n
  BY <1>1
<1> HIDE DEF n
<1>3. Concerns(k, t) \subseteq 1..n /\ Concerns(k, ss) \subseteq 1..Len(ss)
  BY <1>1 DEF Concerns
<1>4. ASSUME ConcernedBy(e, k) PROVE Concerns(k, t) # {} /\ Said(k, t) = SaidBy(e.pkgs, k)
  <2>1. n \in Concerns(k, t)
    BY <1>1, <1>2, <1>4 DEF Concerns
  <2>2. \A i \in Concerns(k, t) : i <= n
    BY <1>2, <1>3
  <2>3. Max(Concerns(k, t)) = n
    BY <1>2, <1>3, <2>1, <2>2, MaxUnique
  <2> QED
    BY <1>1, <2>1, <2>3 DEF Said
<1>5. ASSUME ~ConcernedBy(e, k), Concerns(k, ss) # {}
      PROVE  Concerns(k, t) # {} /\ Said(k, t) = Said(k, ss)
  <2>1. Concerns(k, t) = Concerns(k, ss)
    BY <1>1, <1>2, <1>5 DEF Concerns
  <2>2. Max(Concerns(k, ss)) \in 1..Len(ss)
    BY <1>1, <1>3, <1>5, MaxIs
  <2>3. t[Max(Concerns(k, ss))] = ss[Max(Concerns(k, ss))]
    BY <1>1, <2>2
  <2> QED
    BY <1>5, <2>1, <2>3 DEF Said
<1> QED
  BY <1>4, <1>5

(* The same, of the history itself: the last word,                         *)
LEMMA LastWord ==
  ASSUME NEW ss \in Seq(Setting), NEW e \in Setting, NEW k, ConcernedBy(e, k)
  PROVE  Concerns(k, Append(ss, e)) # {} /\ Said(k, Append(ss, e)) = SaidBy(e.pkgs, k)
BY OneMoreCall, Zenon

(* and no word.                                                            *)
LEMMA NoWord ==
  ASSUME NEW ss \in Seq(Setting), NEW e \in Setting, NEW k, ~ConcernedBy(e, k), Concerns(k, ss) # {}
  PROVE  Concerns(k, Append(ss, e)) # {} /\ Said(k, Append(ss, e)) = Said(k, ss)
BY OneMoreCall, Zenon

(* The registered loggers of DOMAIN lv get their levels, the others keep   *)
(* theirs; nothing else changes in a logger.                               *)
LEMMA LevelsSet ==
  ASSUME SlicesOK, LevelsOK, NEW lv, DOMAIN lv \subseteq DOMAIN registry,
         \A k \in DOMAIN lv : lv[k] \in Levels, SetLevels(lv)
  PROVE  /\ loggers' \in Seq(Logger) /\ Len(loggers') = Len(loggers)
         /\ \A i \in 1..Len(loggers) :
              loggers'[i].values = loggers[i].values /\ loggers'[i].depth = loggers[i].depth
         /\ \A k \in DOMAIN registry :
              loggers'[registry[k]].level = IF k \in DOMAIN lv THEN lv[k] ELSE loggers[registry[k]].level
<1> DEFINE keys(i) == {k \in DOMAIN lv : registry[k] = i}
<1>1. DOMAIN loggers = 1..Len(loggers) /\ Len(loggers) \in Nat
  BY LenProperties DEF SlicesOK, SlicesTyped
<1>2. loggers' = [i \in 1..Len(loggers) |->
                    IF keys(i) = {} THEN loggers[i]
                    ELSE [loggers[i] EXCEPT !.level = lv[CHOOSE k \in keys(i) : TRUE]]]
  BY <1>1 DEF SetLevels
<1>3. ASSUME NEW i \in 1..Len(loggers)
      PROVE  /\ loggers'[i] \in Logger
             /\ loggers'[i].values = loggers[i].values /\ loggers'[i].depth = loggers[i].depth
             /\ keys(i) = {} => loggers'[i].level = loggers[i].level
             /\ \A k \in keys(i) : loggers'[i].level = lv[k]
  <2>1. loggers[i] \in Logger
    BY LoggerOf
  <2>2. CASE keys(i) = {}
    BY <1>2, <2>1, <2>2
  <2>3. CASE keys(i) # {}
    <3>1. PICK c \in keys(i) : c = CHOOSE k \in keys(i) : TRUE
      BY <2>3
    <3>2. lv[c] \in Levels
      OBVIOUS
    <3>3. \A k \in keys(i) : k = c
      BY DEF LevelsOK
    <3>4. loggers'[i] = [loggers[i] EXCEPT !.level = lv[c]]
      BY <1>2, <2>3, <3>1
    <3> HIDE DEF keys
    <3> QED
      BY <2>1, <2>3, <3>2, <3>3, <3>4 DEF Logger
  <2> QED
    BY <2>2, <2>3
<1>4. loggers' \in Seq(Logger) /\ Len(loggers') = Len(loggers)
  <2>1. loggers' \in [1..Len(loggers) -> Logger]
    BY <1>2, <1>3
  <2> QED
    BY <1>1, <2>1, LenProperties, SeqDef
<1>5. ASSUME NEW k \in DOMAIN registry
      PROVE  loggers'[registry[k]].level = IF k \in DOMAIN lv THEN lv[k] ELSE loggers[registry[k]].level
  <2>1. registry[k] \in 1..Len(loggers)
    BY DEF LevelsOK
  <2>2. CASE k \in DOMAIN lv
    <3>1. k \in keys(registry[k])
      BY <2>2
    <3> QED
      BY <1>3, <2>1, <2>2, <3>1
  <2>3. CASE k \notin DOMAIN lv
    <3>1. keys(registry[k]) = {}
      BY <2>3 DEF LevelsOK
    <3> QED
      BY <1>3, <2>1, <2>3, <3>1
  <2> QED
    BY <2>2, <2>3
<1> QED
  BY <1>3, <1>4, <1>5

(* A configuration that parses gives levels to names.                      *)
LEMMA ParsedIsMap ==
  ASSUME NEW conf \in Confs, NEW m \in ParseLogLevelConfig(conf)
  PROVE  m \in LevelMaps
<1> DEFINE K == {conf[i][1] : i \in 1..Len(conf)}
           at(k) == {i \in 1..Len(conf) : conf[i][1] = k}
           lev(k) == CHOOSE l \in ParseLevel(conf[Max(at(k))][2]) : TRUE
<1>1. Len(conf) \in Nat
  <2>1. conf \in Seq(Seq(STRING))
    BY ConfAssumption
  <2> QED
    BY <2>1, LenProperties
<1>2. /\ \A i \in 1..Len(conf) : ParseLevel(conf[i][2]) # {}
      /\ m = [k \in K |-> lev(k)]
  BY Zenon DEF ParseLogLevelConfig
<1>3. ASSUME NEW k \in K PROVE lev(k) \in Levels
  <2>1. at(k) \subseteq 1..Len(conf) /\ at(k) # {}
    OBVIOUS
  <2> HIDE DEF at
  <2>2. Max(at(k)) \in 1..Len(conf)
    BY <1>1, <2>1, MaxIs
  <2>3. ParseLevel(conf[Max(at(k))][2]) # {}
    BY <1>2, <2>2
  <2> QED
    BY <2>3 DEF ParseLevel
<1>4. K \in SUBSET Names
  BY DEF Names
<1> HIDE DEF K, lev
<1>5. m \in [K -> Levels]
  BY <1>2, <1>3
<1> QED
  BY <1>4, <1>5, Zenon DEF LevelMaps

(* A map for one name.                                                     *)
LEMMA OneName ==
  ASSUME NEW p \in Names, NEW l \in Levels
  PROVE  /\ [x \in {p} |-> l] \in LevelMaps
         /\ DOMAIN [x \in {p} |-> l] = {p} /\ [x \in {p} |-> l][p] = l
<1>1. {p} \in SUBSET Names /\ [x \in {p} |-> l] \in [{p} -> Levels]
  OBVIOUS
<1>2. [x \in {p} |-> l] \in LevelMaps
  BY <1>1, Zenon DEF LevelMaps
<1> QED
  BY <1>2

(* Levels are numbers; two of them are used for new packages and calls.    *)
LEMMA SomeLevels == INFO \in Levels /\ ERROR \in Levels /\ TRACE \in Levels
BY DEF INFO, ERROR, TRACE, Levels, CRITICAL, DEBUG

(* Setting levels leaves the slices alone.                                 *)
LEMMA SetLevelsSlices ==
  ASSUME SlicesOK, LevelsOK, NEW lv, DOMAIN lv \subseteq DOMAIN registry,
         \A k \in DOMAIN lv : lv[k] \in Levels, SetLevels(lv), UNCHANGED <<arrays, given>>
  PROVE  SlicesOK'
<1>1. /\ loggers' \in Seq(Logger) /\ Len(loggers') = Len(loggers)
      /\ \A i \in 1..Len(loggers) :
           loggers'[i].values = loggers[i].values /\ loggers'[i].depth = loggers[i].depth
  BY LevelsSet
<1>2. ASSUME NEW i \in 1..Len(loggers) PROVE SliceOf(loggers'[i], given[i], arrays)
  <2>1. SliceOf(loggers[i], given[i], arrays)
    BY LoggerOf
  <2> QED
    BY <1>1, <2>1 DEF SliceOf
<1>3. ASSUME NEW i \in 1..Len(loggers), NEW k \in 1..loggers[i].values.len, Safe(i, k, loggers')
      PROVE  Holds(i, k, loggers', given, arrays)
  <2>1. Safe(i, k, loggers)
    BY <1>1, <1>3 DEF Safe
  <2>2. Holds(i, k, loggers, given, arrays)
    BY <2>1 DEF SlicesOK
  <2> QED
    BY <1>1, <2>2 DEF Holds
<1>4. SlicesTyped'
  BY <1>1, <1>2 DEF SlicesOK, SlicesTyped
<1> QED
  BY <1>1, <1>3, <1>4 DEF SlicesOK

(* A call that sets levels keeps the invariant when the registered loggers *)
(* it concerns get what it says and the others keep their level.           *)
LEMMA SettingKeeps ==
  ASSUME SlicesOK, LevelsOK, NEW lv, DOMAIN lv \subseteq DOMAIN registry,
         \A k \in DOMAIN lv : lv[k] \in Levels, SetLevels(lv),
         NEW e \in Setting, sets' = Append(sets, e), UNCHANGED registry,
         \A k \in DOMAIN registry \ {Hijacked} :
            (IF k \in DOMAIN lv THEN lv[k] ELSE loggers[registry[k]].level)
              = IF ConcernedBy(e, k) THEN SaidBy(e.pkgs, k) ELSE loggers[registry[k]].level
  PROVE  LevelsOK'
<1>1. /\ Len(loggers') = Len(loggers)
      /\ \A k \in DOMAIN registry :
           loggers'[registry[k]].level = IF k \in DOMAIN lv THEN lv[k] ELSE loggers[registry[k]].level
  BY LevelsSet
<1>2. sets \in Seq(Setting) /\ sets' \in Seq(Setting)
  BY Appended DEF LevelsOK
<1>3. ASSUME NEW k \in DOMAIN registry \ {Hijacked}
      PROVE  Concerns(k, sets') # {} /\ loggers'[registry[k]].level = Said(k, sets')
  <2>1. Concerns(k, sets) # {} /\ loggers[registry[k]].level = Said(k, sets)
    BY DEF LevelsOK
  <2>2. CASE ConcernedBy(e, k)
    <3>1. Concerns(k, sets') # {} /\ Said(k, sets') = SaidBy(e.pkgs, k)
      BY <1>2, <2>2, LastWord, Zenon
    <3> QED
      BY <1>1, <2>2, <3>1
  <2>3. CASE ~ConcernedBy(e, k)
    <3>1. Concerns(k, sets') # {} /\ Said(k, sets') = Said(k, sets)
      BY <1>2, <2>1, <2>3, NoWord, Zenon
    <3> QED
      BY <1>1, <2>1, <2>3, <3>1
  <2> QED
    BY <2>2, <2>3
<1> QED
  BY <1>1, <1>2, <1>3 DEF LevelsOK

(* SetGlobalLogLevel.                                                      *)
LEMMA GlobalStep ==
  ASSUME SlicesOK, LevelsOK, NEW l \in Levels, SetGlobalLogLevel(l)
  PROVE  SlicesOK' /\ LevelsOK'
<1> DEFINE lv == [k \in DOMAIN registry |-> l]
           e == [repo |-> "*", pkgs |-> [p \in {"*"} |-> l]]
<1>1. SetLevels(lv) /\ sets' = Append(sets, e) /\ UNCHANGED <<registry, arrays, given>>
  BY DEF SetGlobalLogLevel
<1>2. DOMAIN lv = DOMAIN registry /\ \A k \in DOMAIN lv : lv[k] = l /\ lv[k] \in Levels
  OBVIOUS
<1>3. "*" \in Names
  BY DEF Names
<1>4. e \in Setting /\ e.repo = "*" /\ DOMAIN e.pkgs = {"*"} /\ e.pkgs["*"] = l
  BY <1>3, OneName DEF Setting
<1> HIDE DEF lv, e
<1>5. \A k : ConcernedBy(e, k) /\ SaidBy(e.pkgs, k) = l
  BY <1>4 DEF ConcernedBy, SaidBy
<1>6. LevelsOK'
  BY <1>1, <1>2, <1>4, <1>5, SettingKeeps
<1> QED
  BY <1>1, <1>2, <1>6, SetLevelsSlices

(* SetLogLevel of a repository: the name counts more than "*".             *)
LEMMA RepoStep ==
  ASSUME SlicesOK, LevelsOK, NEW repo \in Repos, NEW m \in LevelMaps, SetLogLevel(repo, m)
  PROVE  SlicesOK' /\ LevelsOK'
<1> DEFINE lv == [k \in RepoKeys(repo) |-> LevelIn(m, k[2], loggers[registry[k]].level)]
           e == [repo |-> repo, pkgs |-> m]
<1>1. SetLevels(lv) /\ sets' = Append(sets, e) /\ UNCHANGED <<registry, arrays, given>>
  BY DEF SetLogLevel
<1>2. DOMAIN lv = RepoKeys(repo) /\ RepoKeys(repo) \subseteq DOMAIN registry
  BY DEF RepoKeys
<1>3. \A x \in DOMAIN m : m[x] \in Levels
  <2>1. PICK D \in SUBSET Names : m \in [D -> Levels]
    BY DEF LevelMaps
  <2> QED
    BY <2>1
<1>4. ASSUME NEW k \in DOMAIN lv PROVE lv[k] \in Levels
  <2>1. registry[k] \in 1..Len(loggers)
    BY <1>2 DEF LevelsOK
  <2>2. loggers[registry[k]].level \in Levels
    BY <2>1, LoggerOf DEF Logger
  <2> QED
    BY <1>3, <2>2 DEF LevelIn
<1>5. e \in Setting /\ e.repo = repo /\ e.pkgs = m
  BY DEF Setting
<1>6. ASSUME NEW k \in DOMAIN registry \ {Hijacked}
      PROVE  (IF k \in DOMAIN lv THEN lv[k] ELSE loggers[registry[k]].level)
               = IF ConcernedBy(e, k) THEN SaidBy(e.pkgs, k) ELSE loggers[registry[k]].level
  <2>1. k \in DOMAIN lv <=> k[1] = repo
    BY DEF RepoKeys
  <2>2. repo # "*"
    BY NameAssumption
  <2>3. CASE k[1] = repo
    <3>1. lv[k] = LevelIn(m, k[2], loggers[registry[k]].level)
      BY <2>1, <2>3
    <3> HIDE DEF lv, e
    <3> QED
      BY <1>5, <2>1, <2>3, <3>1 DEF LevelIn, ConcernedBy, SaidBy
  <2>4. CASE k[1] # repo
    <3> HIDE DEF lv, e
    <3> QED
      BY <1>5, <2>1, <2>2, <2>4 DEF ConcernedBy
  <2> QED
    BY <2>3, <2>4
<1> HIDE DEF lv, e
<1>7. LevelsOK'
  BY <1>1, <1>2, <1>4, <1>5, <1>6, SettingKeeps
<1> QED
  BY <1>1, <1>2, <1>4, <1>7, SetLevelsSlices

(* A new package: its own entry is the only one it is concerned by, and it *)
(* concerns no other.                                                      *)
LEMMA RegisterStep ==
  ASSUME SlicesOK, LevelsOK, NEW repo \in Repos, NEW pkg \in Pkgs, NewPackageLogger(repo, pkg)
  PROVE  SlicesOK' /\ LevelsOK'
<1> DEFINE key == <<repo, pkg>>
           n == Len(loggers) + 1
           l == NewLogger(pkg)
           e == [repo |-> repo, pkgs |-> [p \in {pkg} |-> INFO]]
<1>1. /\ key \notin DOMAIN registry
      /\ loggers' = Append(loggers, l)
      /\ registry' = [k \in DOMAIN registry \cup {key} |-> IF k = key THEN n ELSE registry[k]]
      /\ sets' = Append(sets, e)
      /\ given' = Append(given, <<>>)
      /\ arrays' = arrays
  BY DEF NewPackageLogger
<1>2. l \in Logger /\ l.level = INFO /\ l.depth = 0 /\ l.values.len = 0 /\ l.values.arr = 0
  BY SomeLevels DEF NewLogger, Logger, NoValues
<1>3. pkg \in Names
  BY DEF Names
<1>4. e \in Setting /\ e.repo = repo /\ DOMAIN e.pkgs = {pkg} /\ e.pkgs[pkg] = INFO
  BY <1>3, OneName, SomeLevels DEF Setting
<1> HIDE DEF l, e
<1>5. loggers \in Seq(Logger) /\ <<>> \in Array
  BY DEF SlicesOK, SlicesTyped, Array
<1>6. /\ loggers' \in Seq(Logger) /\ Len(loggers') = n /\ Len(loggers) \in Nat /\ loggers'[n] = l
      /\ \A i \in 1..Len(loggers) : loggers'[i] = loggers[i]
      /\ \A i \in 1..Len(loggers') : i \in 1..Len(loggers) \/ i = n
  <2>1. \A t : t = Append(loggers, l) =>
          /\ t \in Seq(Logger) /\ Len(t) = n /\ Len(loggers) \in Nat /\ t[n] = l
          /\ \A i \in 1..Len(loggers) : t[i] = loggers[i]
          /\ \A i \in 1..Len(t) : i \in 1..Len(loggers) \/ i = n
    BY <1>2, <1>5, Appended
  <2> QED
    BY <1>1, <2>1
<1>8. SlicesOK'
  <2>1. SliceOf(l, <<>>, arrays')
    BY <1>2 DEF SliceOf
  <2>2. \A k \in 1..l.values.len : arrays'[l.values.arr][k] = <<>>[k]
    BY <1>2
  <2>3. /\ arrays' \in Seq(Array)
        /\ \A j \in 1..Len(loggers) : SliceOf(loggers[j], given[j], arrays')
        /\ \A j \in 1..Len(loggers) : \A k \in 1..loggers[j].values.len :
             Safe(j, k, loggers) => Holds(j, k, loggers, given, arrays')
    BY <1>1 DEF SlicesOK, SlicesTyped
  <2>4. PICK none \in Array : none = <<>>
    BY <1>5
  <2> QED
    BY <1>1, <1>2, <2>1, <2>2, <2>3, <2>4, OneMoreLogger
<1>9. /\ DOMAIN registry' = DOMAIN registry \cup {key} /\ registry'[key] = n
      /\ \A k \in DOMAIN registry : registry'[k] = registry[k] /\ registry[k] \in 1..Len(loggers)
  BY <1>1 DEF LevelsOK
<1>10. n \in 1..n /\ n \notin 1..Len(loggers) /\ 1..Len(loggers) \subseteq 1..n
  BY <1>6
<1>11. sets \in Seq(Setting) /\ sets' \in Seq(Setting)
  BY <1>1, <1>4, Appended DEF LevelsOK
<1>12. ConcernedBy(e, key) /\ SaidBy(e.pkgs, key) = INFO
  BY <1>4 DEF ConcernedBy, SaidBy
<1>13. ASSUME NEW k \in DOMAIN registry \ {Hijacked} PROVE ~ConcernedBy(e, k)
  <2>3. k \in Repos \X Pkgs
    BY DEF LevelsOK
  <2>4. k # key
    BY <1>1
  <2>1. k = <<k[1], k[2]>> /\ k # key
    BY <2>3, <2>4
  <2>2. repo # "*" /\ pkg # "*"
    BY NameAssumption
  <2> QED
    BY <1>4, <2>1, <2>2 DEF ConcernedBy
<1> HIDE DEF n
<1>14. ASSUME NEW k \in DOMAIN registry' \ {Hijacked}
       PROVE  Concerns(k, sets') # {} /\ loggers'[registry'[k]].level = Said(k, sets')
  <2>2. CASE k = key
    <3>1. Concerns(k, sets') # {} /\ Said(k, sets') = INFO
      BY <1>1, <1>4, <1>11, <1>12, <2>2, LastWord, Zenon
    <3> QED
      BY <1>2, <1>6, <1>9, <2>2, <3>1
  <2>3. CASE k # key
    <3>1. k \in DOMAIN registry \ {Hijacked}
      BY <1>9, <2>3
    <3>2. Concerns(k, sets) # {} /\ loggers[registry[k]].level = Said(k, sets)
      BY <3>1 DEF LevelsOK
    <3>3. Concerns(k, sets') # {} /\ Said(k, sets') = Said(k, sets)
      BY <1>1, <1>4, <1>11, <1>13, <3>1, <3>2, NoWord, Zenon
    <3> QED
      BY <1>6, <1>9, <3>1, <3>2, <3>3
  <2> QED
    BY <2>2, <2>3
<1>15. \A k, m \in DOMAIN registry' : registry'[k] = registry'[m] => k = m
  BY <1>9, <1>10 DEF LevelsOK
<1>16. DOMAIN registry' \subseteq {Hijacked} \cup (Repos \X Pkgs)
  BY <1>9 DEF LevelsOK
<1>17. registry' \in [DOMAIN registry' -> 1..Len(loggers')]
  BY <1>1, <1>6, <1>9, <1>10
<1> QED
  BY <1>8, <1>11, <1>14, <1>15, <1>16, <1>17 DEF LevelsOK

(* WithValues: the derived logger is not registered.                       *)
LEMMA DeriveStep ==
  ASSUME SlicesOK, LevelsOK, NEW i \in 1..Len(loggers), NEW v \in Int, WithValues(i, v)
  PROVE  SlicesOK' /\ LevelsOK'
<1> DEFINE l == [loggers[i] EXCEPT !.values = AppendedSlice(loggers[i].values), !.depth = @ + 1]
<1>1. loggers' = Append(loggers, l) /\ UNCHANGED <<registry, sets>>
  BY DEF WithValues
<1>2. SlicesOK'
  BY WithValuesKeeps
<1>3. l \in Logger
  <2> DEFINE g == Append(Values(loggers[i].values), v)
             as == AppendedArrays(loggers[i].values, v)
  <2>1. Fresh(l, g, as)
    BY DerivedSlice, Zenon
  <2> QED
    BY <2>1, Zenon DEF Fresh
<1> HIDE DEF l
<1>4. /\ Len(loggers') = Len(loggers) + 1 /\ Len(loggers) \in Nat
      /\ \A j \in 1..Len(loggers) : loggers'[j] = loggers[j]
  <2>1. loggers \in Seq(Logger)
    BY DEF SlicesOK, SlicesTyped
  <2> QED
    BY <1>1, <1>3, <2>1, Appended
<1>5. 1..Len(loggers) \subseteq 1..Len(loggers')
  BY <1>4
<1>6. registry \in [DOMAIN registry -> 1..Len(loggers')]
  BY <1>5 DEF LevelsOK
<1>7. \A k \in DOMAIN registry : loggers'[registry[k]] = loggers[registry[k]]
  BY <1>4 DEF LevelsOK
<1> QED
  BY <1>1, <1>2, <1>6, <1>7 DEF LevelsOK

-----------------------------------------------------------------------------
(* The invariant of the rotators.                                          *)

Chars == {"C", "E", "W", "N", "I", "T", "D"}
Recs == [n : Nat, pkg : Pkgs \cup {""}, level : Chars, entries : Seq(Int)]
Formatters == [kind : FormatterKinds, rot : Nat]
Rotator ==
    [buffered : BOOLEAN, extraSink : BOOLEAN, oldFormatter : Formatters, ready : BOOLEAN,
     closed : BOOLEAN, stopped : BOOLEAN, listening : BOOLEAN, queue : Seq(Recs),
     buf : Seq(Recs), disk : Seq(Recs), sent : Seq(Recs), due : Nat]

Cat(x, y) == x \o y

(* A record that was sent is on disk, in the buffer or in the channel, in  *)
(* this order; a stopped rotator has on disk what is due.                  *)
Accounted(R) ==
    /\ Cat(Cat(R.disk, R.buf), R.queue) = R.sent
    /\ ~R.buffered => R.queue = <<>>
    /\ R.closed => R.ready
    /\ R.stopped => R.closed /\ ~R.listening
    /\ R.due <= Len(R.sent)
    /\ R.stopped /\ R.buffered /\ ~R.extraSink => R.buf = <<>> /\ R.due <= Len(R.disk)

(* A formatter writes to standard error or to one of n rotators,           *)
Points(f, n) == f.rot # 0 => f.rot \in 1..n /\ f.kind = "pretty"

(* and, when rotators come and go in order, to one that is open.           *)
ToOpen(f, rs) == f.rot # 0 => ~rs[f.rot].closed

(* An open rotator remembers a formatter of an older rotator that is open. *)
Nested(r, rs) ==
    ~rs[r].closed => ToOpen(rs[r].oldFormatter, rs) /\ rs[r].oldFormatter.rot < r

RotsTyped ==
    /\ rots \in Seq(Rotator) /\ formatter \in Formatters
    /\ pending \in [Callers -> Recs \cup {NoRecord}]
    /\ logs \in Nat /\ max \in Bounds
    /\ Points(formatter, Len(rots))
    /\ \A r \in 1..Len(rots) : Points(rots[r].oldFormatter, Len(rots))

InOrder ==
    /\ ToOpen(formatter, rots)
    /\ \A r \in 1..Len(rots) : Nested(r, rots) /\ (rots[r].stopped => rots[r].queue = <<>>)

RotsOK ==
    /\ RotsTyped
    /\ \A r \in 1..Len(rots) : Accounted(rots[r])
    /\ ordered => InOrder

IInv == SlicesOK /\ LevelsOK /\ RotsOK

(* A sequence is its head, then its tail.                                  *)
LEMMA HeadFirst ==
  ASSUME NEW S, NEW q \in Seq(S), q # <<>>
  PROVE  \E h \in S, t \in Seq(S) : h = Head(q) /\ t = Tail(q) /\ q = Cat(<<h>>, t)
<1>1. PICK t \in Seq(S) : /\ t = Tail(q) /\ Len(t) = Len(q) - 1
                          /\ \A i \in 1..Len(t) : t[i] = q[i + 1]
  BY HeadTailProperties
<1>2. PICK h \in S : h = Head(q) /\ h = q[1]
  BY HeadTailProperties
<1>3. Len(q) \in Nat \ {0} /\ Len(t) \in Nat
  BY EmptySeq, LenProperties
<1>10. <<h>> \in Seq(S) /\ Len(<<h>>) = 1 /\ <<h>>[1] = h
  OBVIOUS
<1>4. PICK o \in Seq(S) : o = <<h>>
  BY <1>10, Zenon
<1>5. Len(o) = 1 /\ o[1] = h
  BY <1>4, <1>10
<1>6. /\ o \o t \in Seq(S) /\ Len(o \o t) = 1 + Len(t)
      /\ \A i \in 1..(1 + Len(t)) : (o \o t)[i] = IF i <= 1 THEN o[i] ELSE t[i - 1]
  <2>1. /\ o \o t \in Seq(S) /\ Len(o \o t) = Len(o) + Len(t)
        /\ \A i \in 1..(Len(o) + Len(t)) : (o \o t)[i] = IF i <= Len(o) THEN o[i] ELSE t[i - Len(o)]
    BY ConcatProperties, Zenon
  <2> QED
    BY <1>5, <2>1
<1>7. ASSUME NEW i \in 1..Len(q) PROVE q[i] = (o \o t)[i]
  <2>1. CASE i = 1
    BY <1>1, <1>2, <1>3, <1>5, <1>6, <2>1
  <2>2. CASE i # 1
    <3>1. i \in 1..(1 + Len(t)) /\ ~(i <= 1) /\ i - 1 \in 1..Len(t) /\ (i - 1) + 1 = i
      BY <1>1, <1>3, <2>2
    <3> QED
      BY <1>1, <1>6, <3>1
  <2> QED
    BY <2>1, <2>2
<1>8. Len(q) = Len(o \o t)
  BY <1>1, <1>3, <1>6
<1>9. q = o \o t
  BY <1>6, <1>7, <1>8, SeqEqual
<1> QED
  BY <1>1, <1>2, <1>4, <1>9 DEF Cat

(* Concatenation, under a name of its own.                                 *)
LEMMA CatIs ==
  ASSUME NEW S, NEW x \in Seq(S), NEW y \in Seq(S)
  PROVE  Cat(x, y) \in Seq(S) /\ Cat(x, <<>>) = x
BY ConcatProperties, ConcatEmptySeq DEF Cat

(* It is associative.                                                      *)
LEMMA CatAssoc ==
  ASSUME NEW S, NEW x \in Seq(S), NEW y \in Seq(S), NEW z \in Seq(S)
  PROVE  Cat(Cat(x, y), z) = Cat(x, Cat(y, z))
BY ConcatAssociative DEF Cat

(* Append concatenates one member.                                         *)
LEMMA CatOne ==
  ASSUME NEW S, NEW e \in S
  PROVE  \E o \in Seq(S) : o = <<e>> /\ \A u \in Seq(S) : Append(u, e) = Cat(u, o)
<1>1. <<e>> \in Seq(S)
  OBVIOUS
<1>2. \A u \in Seq(S) : Append(u, e) = Cat(u, <<e>>)
  BY AppendIsConcat DEF Cat
<1> QED
  BY <1>1, <1>2, Zenon

(* The stops of a record on its way: into the channel, from the channel to *)
(* the buffer, from the buffer to the disk.  None changes the order.       *)
LEMMA Moved ==
  ASSUME NEW S, NEW d \in Seq(S), NEW b \in Seq(S), NEW q \in Seq(S), NEW s \in Seq(S),
         Cat(Cat(d, b), q) = s
  PROVE  /\ \A e \in S : Cat(Cat(d, b), Append(q, e)) = Append(s, e)
         /\ \A e \in S : Cat(d, Append(b, e)) = Append(Cat(d, b), e)
         /\ q # <<>> => Cat(Cat(d, Append(b, Head(q))), Tail(q)) = s
         /\ Cat(Cat(Cat(d, b), <<>>), q) = s
         /\ b # <<>> => Cat(Cat(Append(d, Head(b)), Tail(b)), q) = s
<1>1. Cat(d, b) \in Seq(S) /\ <<>> \in Seq(S)
  BY CatIs
<1>2. ASSUME NEW e \in S PROVE Cat(Cat(d, b), Append(q, e)) = Append(s, e)
  <2>1. PICK o \in Seq(S) : o = <<e>> /\ \A u \in Seq(S) : Append(u, e) = Cat(u, o)
    BY CatOne
  <2>2. Append(q, e) = Cat(q, o) /\ Append(s, e) = Cat(s, o)
    BY <2>1
  <2> QED
    BY <1>1, <2>2, CatAssoc
<1>3. ASSUME NEW e \in S PROVE Cat(d, Append(b, e)) = Append(Cat(d, b), e)
  <2>1. PICK o \in Seq(S) : o = <<e>> /\ \A u \in Seq(S) : Append(u, e) = Cat(u, o)
    BY CatOne
  <2>2. Append(b, e) = Cat(b, o) /\ Append(Cat(d, b), e) = Cat(Cat(d, b), o)
    BY <1>1, <2>1
  <2> QED
    BY <2>2, CatAssoc
<1>4. ASSUME q # <<>> PROVE Cat(Cat(d, Append(b, Head(q))), Tail(q)) = s
  <2>1. PICK h \in S, t \in Seq(S) : h = Head(q) /\ t = Tail(q) /\ q = Cat(<<h>>, t)
    BY <1>4, HeadFirst
  <2>2. PICK o \in Seq(S) : o = <<h>> /\ \A u \in Seq(S) : Append(u, h) = Cat(u, o)
    BY CatOne
  <2>3. Append(b, h) = Cat(b, o)
    BY <2>2
  <2>4. Cat(d, Cat(b, o)) = Cat(Cat(d, b), o)
    BY CatAssoc
  <2>5. Cat(Cat(Cat(d, b), o), t) = Cat(Cat(d, b), Cat(o, t))
    BY <1>1, CatAssoc
  <2> QED
    BY <2>1, <2>2, <2>3, <2>4, <2>5
<1>5. Cat(Cat(Cat(d, b), <<>>), q) = s
  BY <1>1, CatIs
<1>6. ASSUME b # <<>> PROVE Cat(Cat(Append(d, Head(b)), Tail(b)), q) = s
  <2>1. PICK h \in S, t \in Seq(S) : h = Head(b) /\ t = Tail(b) /\ b = Cat(<<h>>, t)
    BY <1>6, HeadFirst
  <2>2. PICK o \in Seq(S) : o = <<h>> /\ \A u \in Seq(S) : Append(u, h) = Cat(u, o)
    BY CatOne
  <2>3. Append(d, h) = Cat(d, o)
    BY <2>2
  <2>4. Cat(Cat(d, o), t) = Cat(d, Cat(o, t))
    BY CatAssoc
  <2> QED
    BY <2>1, <2>2, <2>3, <2>4
<1> QED
  BY <1>2, <1>3, <1>4, <1>5, <1>6

(* What the invariant says of one rotator.                                 *)
LEMMA RotatorOf ==
  ASSUME RotsOK, NEW r \in 1..Len(rots)
  PROVE  /\ rots[r] \in Rotator /\ Accounted(rots[r]) /\ Points(rots[r].oldFormatter, Len(rots))
         /\ ordered => Nested(r, rots) /\ (rots[r].stopped => rots[r].queue = <<>>)
BY ElementOfSeq DEF RotsOK, RotsTyped, InOrder

(* The stops, for the records of a rotator.                                *)
LEMMA Flow ==
  ASSUME NEW Q \in Rotator, Accounted(Q)
  PROVE  /\ \A e \in Recs : Cat(Cat(Q.disk, Q.buf), Append(Q.queue, e)) = Append(Q.sent, e)
         /\ \A e \in Recs :
              Q.queue = <<>> => Cat(Cat(Q.disk, Append(Q.buf, e)), Q.queue) = Append(Q.sent, e)
         /\ Q.queue # <<>> => Cat(Cat(Q.disk, Append(Q.buf, Head(Q.queue))), Tail(Q.queue)) = Q.sent
         /\ Cat(Cat(Cat(Q.disk, Q.buf), <<>>), Q.queue) = Q.sent
         /\ Q.buf # <<>> => Cat(Cat(Append(Q.disk, Head(Q.buf)), Tail(Q.buf)), Q.queue) = Q.sent
<1>1. Q.disk \in Seq(Recs) /\ Q.buf \in Seq(Recs) /\ Q.queue \in Seq(Recs) /\ Q.sent \in Seq(Recs)
  BY DEF Rotator
<1>2. Cat(Cat(Q.disk, Q.buf), Q.queue) = Q.sent
  BY DEF Accounted
<1>3. PICK d \in Seq(Recs), b \in Seq(Recs), q \in Seq(Recs), s \in Seq(Recs) :
        d = Q.disk /\ b = Q.buf /\ q = Q.queue /\ s = Q.sent
  BY <1>1
<1>4. Cat(Cat(d, b), q) = s
  BY <1>2, <1>3
<1>5. \A e \in Recs : Cat(Cat(d, b), Append(q, e)) = Append(s, e)
  BY <1>4, Moved
<1>6. ASSUME NEW e \in Recs, q = <<>> PROVE Cat(Cat(d, Append(b, e)), q) = Append(s, e)
  <2>1. Cat(d, Append(b, e)) = Append(Cat(d, b), e)
    BY <1>4, Moved
  <2>2. Cat(d, b) \in Seq(Recs) /\ Append(b, e) \in Seq(Recs)
    BY CatIs, AppendProperties
  <2>3. Cat(d, Append(b, e)) \in Seq(Recs)
    BY <2>2, CatIs
  <2>4. Cat(Cat(d, b), <<>>) = Cat(d, b) /\ Cat(Cat(d, Append(b, e)), <<>>) = Cat(d, Append(b, e))
    BY <2>2, <2>3, CatIs
  <2> QED
    BY <1>4, <1>6, <2>1, <2>4
<1>7. q # <<>> => Cat(Cat(d, Append(b, Head(q))), Tail(q)) = s
  BY <1>4, Moved
<1>8. Cat(Cat(Cat(d, b), <<>>), q) = s
  BY <1>4, Moved
<1>9. b # <<>> => Cat(Cat(Append(d, Head(b)), Tail(b)), q) = s
  BY <1>4, Moved
<1> QED
  BY <1>3, <1>5, <1>6, <1>7, <1>8, <1>9

(* A step that changes one rotator and does not close it, and perhaps sets *)
(* the formatter.                                                          *)
LEMMA OneRotator ==
  ASSUME RotsOK, NEW r \in 1..Len(rots), NEW R \in Rotator, Accounted(R),
         R.closed = rots[r].closed, R.oldFormatter = rots[r].oldFormatter,
         ordered /\ R.stopped => R.queue = <<>>,
         rots' = [rots EXCEPT ![r] = R], max' = max, ordered' = ordered,
         formatter' \in Formatters, Points(formatter', Len(rots)),
         ordered => ToOpen(formatter', rots),
         pending' \in [Callers -> Recs \cup {NoRecord}], logs' \in Nat
  PROVE  RotsOK'
<1>1. rots \in Seq(Rotator) /\ Len(rots) \in Nat
  BY LenProperties DEF RotsOK, RotsTyped
<1>2. /\ rots' \in Seq(Rotator) /\ Len(rots') = Len(rots) /\ rots'[r] = R
      /\ \A j \in 1..Len(rots) : j # r => rots'[j] = rots[j]
  <2>1. \A t : t = [rots EXCEPT ![r] = R] =>
          /\ t \in Seq(Rotator) /\ Len(t) = Len(rots) /\ t[r] = R
          /\ \A j \in 1..Len(rots) : j # r => t[j] = rots[j]
    BY <1>1, Replaced
  <2> QED
    BY <2>1
<1>3. \A j \in 1..Len(rots) :
        rots'[j].closed = rots[j].closed /\ rots'[j].oldFormatter = rots[j].oldFormatter
  BY <1>2
<1>4. \A j \in 1..Len(rots) : Accounted(rots'[j])
  BY <1>2 DEF RotsOK
<1>5. ASSUME NEW f, ToOpen(f, rots), Points(f, Len(rots)) PROVE ToOpen(f, rots')
  BY <1>3, <1>5 DEF ToOpen, Points
<1>6. \A j \in 1..Len(rots) : Points(rots'[j].oldFormatter, Len(rots))
  BY <1>3, RotatorOf
<1>7. RotsTyped'
  BY <1>2, <1>6 DEF RotsOK, RotsTyped
<1>8. ASSUME ordered PROVE InOrder'
  <2>1. ToOpen(formatter', rots')
    BY <1>5, <1>8
  <2>2. ASSUME NEW j \in 1..Len(rots)
        PROVE  Nested(j, rots') /\ (rots'[j].stopped => rots'[j].queue = <<>>)
    <3>1. /\ Nested(j, rots) /\ (rots[j].stopped => rots[j].queue = <<>>)
          /\ Points(rots[j].oldFormatter, Len(rots))
      BY <1>8, RotatorOf
    <3>2. Nested(j, rots')
      BY <1>3, <1>5, <3>1 DEF Nested
    <3> QED
      BY <1>2, <1>8, <3>1, <3>2
  <2> QED
    BY <1>2, <2>1, <2>2 DEF InOrder
<1> QED
  BY <1>2, <1>4, <1>7, <1>8 DEF RotsOK

(* The same, of a step that keeps the formatter too.                       *)
LEMMA SameFormatter ==
  ASSUME RotsOK, NEW r \in 1..Len(rots), NEW R \in Rotator, Accounted(R),
         R.closed = rots[r].closed, R.oldFormatter = rots[r].oldFormatter,
         ordered /\ R.stopped => R.queue = <<>>,
         rots' = [rots EXCEPT ![r] = R], UNCHANGED <<formatter, max, ordered>>,
         pending' \in [Callers -> Recs \cup {NoRecord}], logs' \in Nat
  PROVE  RotsOK'
<1>1. formatter' \in Formatters /\ Points(formatter', Len(rots)) /\ (ordered => ToOpen(formatter', rots))
  BY DEF RotsOK, RotsTyped, InOrder
<1> QED
  BY <1>1, OneRotator

(* Deliver, FlushTick and Spill move records of one rotator.               *)
LEMMA DeliverKeeps ==
  ASSUME RotsOK, NEW r \in 1..Len(rots), Deliver(r)
  PROVE  RotsOK'
<1> DEFINE Q == rots[r]
           R == [Q EXCEPT !.buf = Append(@, Head(Q.queue)), !.queue = Tail(@)]
<1>1. /\ Q.listening /\ Q.queue # <<>> /\ UNCHANGED <<formatter, max, ordered, pending, logs>>
      /\ rots' = [rots EXCEPT ![r].buf = Append(@, Head(rots[r].queue)), ![r].queue = Tail(@)]
  BY DEF Deliver
<1>2. Q \in Rotator /\ Accounted(Q) /\ (ordered /\ Q.stopped => Q.queue = <<>>)
  BY RotatorOf
<1>3. rots' = [rots EXCEPT ![r] = R]
  BY <1>1
<1>4. Append(Q.buf, Head(Q.queue)) \in Seq(Recs) /\ Tail(Q.queue) \in Seq(Recs)
  BY <1>1, <1>2, HeadTailProperties, AppendProperties DEF Rotator
<1>5. Cat(Cat(Q.disk, Append(Q.buf, Head(Q.queue))), Tail(Q.queue)) = Q.sent
  BY <1>1, <1>2, Flow
<1> HIDE DEF Q
<1>6. R \in Rotator /\ R.closed = Q.closed /\ R.oldFormatter = Q.oldFormatter
  BY <1>2, <1>4 DEF Rotator
<1>7. Accounted(R)
  BY <1>1, <1>2, <1>4, <1>5 DEF Accounted, Rotator
<1>8. ordered /\ R.stopped => R.queue = <<>>
  BY <1>1, <1>2, <1>4 DEF Accounted, Rotator
<1> HIDE DEF R
<1> QED
  BY <1>1, <1>3, <1>6, <1>7, <1>8, SameFormatter DEF Q, RotsOK, RotsTyped

(* The flush.                                                              *)
LEMMA FlushKeeps ==
  ASSUME RotsOK, NEW r \in 1..Len(rots), FlushTick(r)
  PROVE  RotsOK'
<1> DEFINE Q == rots[r]
           R == [Q EXCEPT !.disk = Cat(@, Q.buf), !.buf = <<>>]
<1>1. /\ Q.listening /\ UNCHANGED <<formatter, max, ordered, pending, logs>>
      /\ rots' = [rots EXCEPT ![r].disk = Cat(@, rots[r].buf), ![r].buf = <<>>]
  BY DEF FlushTick, Cat
<1>2. Q \in Rotator /\ Accounted(Q) /\ (ordered /\ Q.stopped => Q.queue = <<>>)
  BY RotatorOf
<1>3. rots' = [rots EXCEPT ![r] = R]
  BY <1>1
<1>4. Cat(Q.disk, Q.buf) \in Seq(Recs) /\ <<>> \in Seq(Recs)
  BY <1>2, CatIs DEF Rotator
<1>5. Cat(Cat(Cat(Q.disk, Q.buf), <<>>), Q.queue) = Q.sent
  BY <1>2, Flow
<1> HIDE DEF Q
<1>6. R \in Rotator /\ R.closed = Q.closed /\ R.oldFormatter = Q.oldFormatter
  BY <1>2, <1>4 DEF Rotator
<1>7. Accounted(R)
  BY <1>1, <1>2, <1>4, <1>5 DEF Accounted, Rotator
<1>8. ordered /\ R.stopped => R.queue = <<>>
  BY <1>1, <1>2, <1>4 DEF Accounted, Rotator
<1> HIDE DEF R
<1> QED
  BY <1>1, <1>3, <1>6, <1>7, <1>8, SameFormatter DEF Q, RotsOK, RotsTyped

(* The buffer is full.                                                     *)
LEMMA SpillKeeps ==
  ASSUME RotsOK, NEW r \in 1..Len(rots), Spill(r)
  PROVE  RotsOK'
<1> DEFINE Q == rots[r]
           R == [Q EXCEPT !.disk = Append(@, Head(Q.buf)), !.buf = Tail(@)]
<1>1. /\ Q.buf # <<>> /\ UNCHANGED <<formatter, max, ordered, pending, logs>>
      /\ rots' = [rots EXCEPT ![r].disk = Append(@, Head(rots[r].buf)), ![r].buf = Tail(@)]
  BY DEF Spill
<1>2. Q \in Rotator /\ Accounted(Q) /\ (ordered /\ Q.stopped => Q.queue = <<>>)
  BY RotatorOf
<1>3. rots' = [rots EXCEPT ![r] = R]
  BY <1>1
<1>4. Append(Q.disk, Head(Q.buf)) \in Seq(Recs) /\ Tail(Q.buf) \in Seq(Recs)
  BY <1>1, <1>2, HeadTailProperties, AppendProperties DEF Rotator
<1>5. Cat(Cat(Append(Q.disk, Head(Q.buf)), Tail(Q.buf)), Q.queue) = Q.sent
  BY <1>1, <1>2, Flow
<1> HIDE DEF Q
<1>6. R \in Rotator /\ R.closed = Q.closed /\ R.oldFormatter = Q.oldFormatter
  BY <1>2, <1>4 DEF Rotator
<1>7. Accounted(R)
  BY <1>1, <1>2, <1>4, <1>5 DEF Accounted, Rotator
<1>8. ordered /\ R.stopped => R.queue = <<>>
  BY <1>1, <1>2, <1>4 DEF Accounted, Rotator
<1> HIDE DEF R
<1> QED
  BY <1>1, <1>3, <1>6, <1>7, <1>8, SameFormatter DEF Q, RotsOK, RotsTyped

(* A record written to the rotator of the formatter, which is open when    *)
(* rotators come and go in order.                                          *)
LEMMA WrittenKeeps ==
  ASSUME RotsOK, formatter.rot # 0, NEW rec \in Recs, rots' = Written(formatter.rot, rec),
         UNCHANGED <<formatter, max, ordered>>,
         pending' \in [Callers -> Recs \cup {NoRecord}], logs' \in Nat
  PROVE  RotsOK'
<1>1. PICK r \in 1..Len(rots) : r = formatter.rot /\ (ordered => ~rots[r].closed)
  BY DEF RotsOK, RotsTyped, InOrder, ToOpen, Points
<1> DEFINE Q == rots[r]
           R == IF Q.buffered
                THEN [Q EXCEPT !.queue = Append(@, rec), !.sent = Append(@, rec)]
                ELSE [Q EXCEPT !.buf = Append(@, rec), !.sent = Append(@, rec)]
<1>2. Q \in Rotator /\ Accounted(Q) /\ (ordered => ~Q.closed)
  BY <1>1, RotatorOf
<1>3. rots' = [rots EXCEPT ![r] = R]
  <2>1. rots' = Written(r, rec)
    BY <1>1
  <2> QED
    BY <2>1 DEF Written
<1>4. /\ Append(Q.queue, rec) \in Seq(Recs) /\ Append(Q.buf, rec) \in Seq(Recs)
      /\ Append(Q.sent, rec) \in Seq(Recs)
  BY <1>2, AppendProperties DEF Rotator
<1>5. /\ Cat(Cat(Q.disk, Q.buf), Append(Q.queue, rec)) = Append(Q.sent, rec)
      /\ Q.queue = <<>> => Cat(Cat(Q.disk, Append(Q.buf, rec)), Q.queue) = Append(Q.sent, rec)
  BY <1>2, Flow
<1>8. Q.due <= Len(Append(Q.sent, rec))
  <2>1. Q.sent \in Seq(Recs) /\ Q.due \in Nat /\ Q.due <= Len(Q.sent)
    BY <1>2 DEF Rotator, Accounted
  <2>2. Len(Append(Q.sent, rec)) = Len(Q.sent) + 1 /\ Len(Q.sent) \in Nat
    BY <2>1, AppendProperties, LenProperties
  <2> QED
    BY <2>1, <2>2
<1> HIDE DEF Q
<1>6. R \in Rotator /\ R.closed = Q.closed /\ R.oldFormatter = Q.oldFormatter
  BY <1>2, <1>4 DEF Rotator
<1>7. Accounted(R)
  BY <1>2, <1>4, <1>5, <1>8 DEF Accounted, Rotator
<1>9. ordered /\ R.stopped => R.queue = <<>>
  BY <1>2 DEF Accounted, Rotator
<1> HIDE DEF R
<1> QED
  BY <1>3, <1>6, <1>7, <1>9, SameFormatter DEF Q

(* Nothing but the loggers changes.                                        *)
LEMMA RotsSame ==
  ASSUME RotsOK, UNCHANGED <<rots, formatter, pending, max, ordered>>, logs' \in Nat
  PROVE  RotsOK'
<1>1. RotsTyped'
  BY DEF RotsOK, RotsTyped
<1> QED
  BY <1>1 DEF RotsOK, InOrder

(* Nothing of the loggers changes.                                         *)
LEMMA LoggersSame ==
  ASSUME SlicesOK, LevelsOK, UNCHANGED loggerVars
  PROVE  SlicesOK' /\ LevelsOK'
BY DEF SlicesOK, SlicesTyped, LevelsOK, loggerVars

(* A record for a rotator is formatted by the pretty formatter.            *)
LEMMA RecordType ==
  ASSUME SlicesOK, RotsOK, formatter.rot # 0, NEW i \in 1..Len(loggers), NEW m \in Methods
  PROVE  Record(logs + 1, i, m.level, Message) \in Recs
<1> DEFINE rec == [n |-> logs + 1, pkg |-> loggers[i].pkg, level |-> m.level,
                   entries |-> Entries(i, Message)]
<1>1. formatter.kind = "pretty" /\ logs + 1 \in Nat
  BY DEF RotsOK, RotsTyped, Points
<1>2. Record(logs + 1, i, m.level, Message) = PrettyFormat(rec)
  BY <1>1 DEF Record, Format
<1>3. PrettyFormat(rec) = [rec EXCEPT !.level = Char(m.level)]
  BY DEF PrettyFormat
<1>4. m.level \in -1..5
  BY DEF Methods, CriticalMethods, ErrorMethods, InfoMethods, DebugMethods,
         CRITICAL, ERROR, WARNING, NOTICE, INFO, TRACE, DEBUG
<1>5. Char(m.level) \in Chars
  <2> DEFINE cs == <<"C", "E", "W", "N", "I", "T", "D">>
  <2>1. /\ cs[1] = "C" /\ cs[2] = "E" /\ cs[3] = "W" /\ cs[4] = "N"
        /\ cs[5] = "I" /\ cs[6] = "T" /\ cs[7] = "D"
    OBVIOUS
  <2>2. PICK x \in 1..7 : x = m.level + 2
    BY <1>4
  <2>3. x = 1 \/ x = 2 \/ x = 3 \/ x = 4 \/ x = 5 \/ x = 6 \/ x = 7
    OBVIOUS
  <2>4. Char(m.level) = cs[x]
    BY <2>2 DEF Char
  <2> HIDE DEF cs
  <2>5. cs[x] \in Chars
    BY <2>1, <2>3 DEF Chars
  <2> QED
    BY <2>4, <2>5
<1>6. loggers[i].pkg \in Pkgs \cup {""}
  BY LoggerOf DEF Logger
<1>7. Entries(i, Message) \in Seq(Int)
  BY ValuesType, AppendProperties DEF Entries, Message
<1> QED
  BY <1>1, <1>2, <1>3, <1>5, <1>6, <1>7 DEF Recs

(* A log call.                                                             *)
LEMMA LogKeeps ==
  ASSUME IInv, NEW c \in Callers, NEW i \in 1..Len(loggers), NEW m \in Methods, Log(c, i, m, Message)
  PROVE  IInv'
<1> DEFINE rec == Record(logs + 1, i, m.level, Message)
<1>1. SlicesOK /\ LevelsOK /\ RotsOK /\ UNCHANGED <<loggers, registry, sets, given, formatter, ordered, max>>
  BY DEF IInv, Log
<1>2. logs' \in Nat
  BY <1>1 DEF Log, RotsOK, RotsTyped
<1>3. arrays' = arrays \/ arrays' = EntriesArrays(i, Message)
  BY DEF Log, JoinedArrays
<1>4. Message \in Int
  BY DEF Message
<1>5. SlicesOK'
  <2>1. CASE arrays' = arrays
    BY <1>1, <2>1 DEF SlicesOK, SlicesTyped
  <2>2. CASE arrays' = EntriesArrays(i, Message)
    BY <1>1, <1>4, <2>2, EntriesKeep
  <2> QED
    BY <1>3, <2>1, <2>2
<1>6. LevelsOK'
  BY <1>1 DEF LevelsOK
<1>7. RotsOK'
  <2>1. CASE UNCHANGED <<rots, pending>>
    BY <1>1, <1>2, <2>1, RotsSame
  <2>2. CASE formatter.rot # 0 /\ rots' = Written(formatter.rot, rec) /\ UNCHANGED pending
    <3>1. rec \in Recs
      BY <1>1, <2>2, RecordType
    <3> HIDE DEF rec
    <3>2. pending' \in [Callers -> Recs \cup {NoRecord}]
      BY <1>1, <2>2 DEF RotsOK, RotsTyped
    <3> QED
      BY <1>1, <1>2, <2>2, <3>1, <3>2, WrittenKeeps
  <2>3. CASE formatter.rot # 0 /\ pending' = [pending EXCEPT ![c] = rec] /\ UNCHANGED rots
    <3>1. rec \in Recs
      BY <1>1, <2>3, RecordType
    <3> HIDE DEF rec
    <3>2. pending' \in [Callers -> Recs \cup {NoRecord}]
      BY <1>1, <2>3, <3>1 DEF RotsOK, RotsTyped
    <3>3. RotsTyped'
      BY <1>1, <1>2, <2>3, <3>2 DEF RotsOK, RotsTyped
    <3> QED
      BY <1>1, <2>3, <3>3 DEF RotsOK, InOrder
  <2> QED
    BY <2>1, <2>2, <2>3 DEF Log
<1> QED
  BY <1>5, <1>6, <1>7 DEF IInv

(* A log call that panics in the formatter.                                *)
LEMMA KVPanicsKeeps ==
  ASSUME IInv, NEW c \in Callers, NEW i \in 1..Len(loggers), KVPanics(c, i, INFO)
  PROVE  IInv'
<1>1. /\ SlicesOK /\ LevelsOK /\ RotsOK /\ arrays' = EntriesArrays(i, Message) /\ logs' = logs + 1
      /\ UNCHANGED <<loggers, registry, sets, given, formatter, rots, pending, ordered, max>>
  BY DEF IInv, KVPanics, rotVars
<1>2. Message \in Int /\ logs' \in Nat
  BY <1>1 DEF Message, RotsOK, RotsTyped
<1>3. SlicesOK'
  BY <1>1, <1>2, EntriesKeep
<1>4. LevelsOK'
  BY <1>1 DEF LevelsOK
<1>5. RotsOK'
  BY <1>1, <1>2, RotsSame
<1> QED
  BY <1>3, <1>4, <1>5 DEF IInv

(* A write that waited for room.  (With no rotator behind the formatter it *)
(* would write nowhere.)                                                   *)
LEMMA LogUnblockedKeeps ==
  ASSUME RotsOK, NEW c \in Callers, LogUnblocked(c)
  PROVE  RotsOK'
<1> DEFINE rec == pending[c]
<1>1. /\ rec # NoRecord /\ rots' = Written(formatter.rot, rec)
      /\ pending' = [pending EXCEPT ![c] = NoRecord] /\ UNCHANGED <<formatter, ordered, logs, max>>
  BY DEF LogUnblocked
<1>2. rec \in Recs /\ pending' \in [Callers -> Recs \cup {NoRecord}] /\ logs' \in Nat
  BY <1>1 DEF RotsOK, RotsTyped
<1> HIDE DEF rec
<1>3. CASE formatter.rot # 0
  BY <1>1, <1>2, <1>3, WrittenKeeps
<1>4. CASE formatter.rot = 0
  <2>1. rots \in Seq(Rotator) /\ DOMAIN rots = 1..Len(rots) /\ Len(rots) \in Nat
    BY LenProperties DEF RotsOK, RotsTyped
  <2>2. 0 \notin DOMAIN rots
    BY <2>1
  <2>3. rots' = Written(0, rec)
    BY <1>1, <1>4
  <2>4. rots' = rots
    BY <2>1, <2>2, <2>3 DEF Written
  <2>5. RotsTyped'
    BY <1>1, <1>2, <2>4 DEF RotsOK, RotsTyped
  <2> QED
    BY <1>1, <2>4, <2>5 DEF RotsOK, InOrder
<1> QED
  BY <1>3, <1>4

(* Initialize makes a rotator and remembers the formatter.                 *)
LEMMA InitializeBeginKeeps ==
  ASSUME RotsOK, NEW mode \in Modes, InitializeBegin(mode)
  PROVE  RotsOK'
<1> DEFINE R == [buffered |-> mode.buffered, extraSink |-> mode.extraSink,
                 oldFormatter |-> formatter, ready |-> FALSE, closed |-> FALSE,
                 stopped |-> FALSE, listening |-> mode.buffered, queue |-> <<>>,
                 buf |-> <<>>, disk |-> <<>>, sent |-> <<>>, due |-> 0]
           n == Len(rots) + 1
<1>1. rots' = Append(rots, R) /\ UNCHANGED <<formatter, pending, logs, max>> /\ (ordered' => ordered)
  BY DEF InitializeBegin
<1>2. R \in Rotator
  <2>1. mode.buffered \in BOOLEAN /\ mode.extraSink \in BOOLEAN
    BY ModeAssumption
  <2>2. formatter \in Formatters /\ <<>> \in Seq(Recs)
    BY DEF RotsOK, RotsTyped
  <2> QED
    BY <2>1, <2>2 DEF Rotator
<1>3. Accounted(R)
  <2>1. Cat(Cat(<<>>, <<>>), <<>>) = <<>>
    <3>1. <<>> \in Seq(Recs)
      OBVIOUS
    <3>2. Cat(<<>>, <<>>) = <<>>
      BY <3>1, CatIs
    <3> QED
      BY <3>2
  <2> QED
    BY <2>1 DEF Accounted
<1>4. R.closed = FALSE /\ R.oldFormatter = formatter /\ R.stopped = FALSE
  OBVIOUS
<1> HIDE DEF R
<1>5. rots \in Seq(Rotator) /\ Len(rots) \in Nat
  BY LenProperties DEF RotsOK, RotsTyped
<1>6. /\ rots' \in Seq(Rotator) /\ Len(rots') = n /\ rots'[n] = R
      /\ \A j \in 1..Len(rots) : rots'[j] = rots[j]
      /\ \A j \in 1..Len(rots') : j \in 1..Len(rots) \/ j = n
  BY <1>1, <1>2, <1>5, Appended
<1>7. 1..Len(rots) \subseteq 1..n /\ n > 0 /\ \A j \in 1..Len(rots) : j < n
  BY <1>5
<1> HIDE DEF n
<1>8. Points(formatter, Len(rots)) /\ \A j \in 1..Len(rots) : Points(rots[j].oldFormatter, Len(rots))
  BY DEF RotsOK, RotsTyped
<1>9. \A f : Points(f, Len(rots)) => Points(f, n)
  BY <1>7 DEF Points
<1>10. ASSUME NEW j \in 1..Len(rots') PROVE Accounted(rots'[j]) /\ Points(rots'[j].oldFormatter, n)
  <2>1. CASE j \in 1..Len(rots)
    BY <1>6, <1>8, <1>9, <2>1, RotatorOf
  <2>2. CASE j = n
    BY <1>3, <1>4, <1>6, <1>8, <1>9, <2>2
  <2> QED
    BY <1>6, <2>1, <2>2
<1>11. RotsTyped'
  BY <1>1, <1>6, <1>8, <1>9, <1>10 DEF RotsOK, RotsTyped
<1>12. ASSUME NEW f, ToOpen(f, rots), Points(f, Len(rots)) PROVE ToOpen(f, rots')
  BY <1>6, <1>12 DEF ToOpen, Points
<1>13. ASSUME ordered PROVE InOrder'
  <2>1. ToOpen(formatter, rots)
    BY <1>13 DEF RotsOK, InOrder
  <2>2. ToOpen(formatter, rots')
    BY <1>8, <1>12, <2>1
  <2>3. ASSUME NEW j \in 1..Len(rots')
        PROVE  Nested(j, rots') /\ (rots'[j].stopped => rots'[j].queue = <<>>)
    <3>1. CASE j \in 1..Len(rots)
      <4>1. /\ Nested(j, rots) /\ (rots[j].stopped => rots[j].queue = <<>>)
            /\ Points(rots[j].oldFormatter, Len(rots))
        BY <1>13, <3>1, RotatorOf
      <4> QED
        BY <1>6, <1>12, <3>1, <4>1 DEF Nested
    <3>2. CASE j = n
      <4>1. formatter.rot < n
        BY <1>7, <1>8 DEF Points
      <4> QED
        BY <1>4, <1>6, <2>2, <3>2, <4>1 DEF Nested
    <3> QED
      BY <1>6, <3>1, <3>2
  <2> QED
    BY <1>1, <2>2, <2>3 DEF InOrder
<1> QED
  BY <1>1, <1>10, <1>11, <1>13 DEF RotsOK

(* then sets its own.                                                      *)
LEMMA InitializeEndKeeps ==
  ASSUME RotsOK, NEW r \in 1..Len(rots), InitializeEnd(r)
  PROVE  RotsOK'
<1> DEFINE Q == rots[r]
           R == [Q EXCEPT !.ready = TRUE]
<1>1. /\ ~Q.ready /\ rots' = [rots EXCEPT ![r] = R]
      /\ formatter' = [kind |-> "pretty", rot |-> r]
      /\ UNCHANGED <<pending, ordered, logs, max>>
  BY DEF InitializeEnd, Starting
<1>2. Q \in Rotator /\ Accounted(Q) /\ ~Q.closed
  BY <1>1, RotatorOf DEF Accounted
<1>3. formatter' \in Formatters /\ Points(formatter', Len(rots)) /\ ToOpen(formatter', rots)
  <2>1. r \in Nat
    BY LenProperties DEF RotsOK, RotsTyped
  <2> QED
    BY <1>1, <1>2, <2>1 DEF Formatters, FormatterKinds, Points, ToOpen
<1> HIDE DEF Q
<1>4. /\ R \in Rotator /\ R.closed = Q.closed /\ R.oldFormatter = Q.oldFormatter
      /\ R.stopped = Q.stopped /\ R.queue = Q.queue
  BY <1>2 DEF Rotator
<1>5. Accounted(R)
  BY <1>2 DEF Accounted, Rotator
<1>6. ~R.stopped
  BY <1>2, <1>4 DEF Accounted
<1> HIDE DEF R
<1> QED
  BY <1>1, <1>3, <1>4, <1>5, <1>6, OneRotator DEF Q, RotsOK, RotsTyped

(* Close gives the formatter back that Initialize found.  Of the newest    *)
(* rotator this one writes to an older one that is open.                   *)
LEMMA CloseBeginKeeps ==
  ASSUME RotsOK, NEW r \in 1..Len(rots), CloseBegin(r)
  PROVE  RotsOK'
<1>1. rots \in Seq(Rotator) /\ Len(rots) \in Nat
  BY LenProperties DEF RotsOK, RotsTyped
<1> DEFINE R == [rots[r] EXCEPT !.closed = TRUE, !.due = Len(rots[r].sent)]
<1>2. /\ rots[r].ready /\ ~rots[r].closed
      /\ rots' = [rots EXCEPT ![r] = R] /\ formatter' = rots[r].oldFormatter
      /\ UNCHANGED <<pending, logs, max>>
  BY DEF CloseBegin, Open
<1>3. ordered' => ordered /\ Starting = {} /\ r = Max(Open)
  BY DEF CloseBegin
<1>4. /\ rots[r] \in Rotator /\ Accounted(rots[r]) /\ Points(rots[r].oldFormatter, Len(rots))
      /\ ordered => Nested(r, rots)
  BY RotatorOf
<1>5. Len(rots[r].sent) \in Nat
  BY <1>4, LenProperties DEF Rotator
<1>6. /\ R \in Rotator /\ R.oldFormatter = rots[r].oldFormatter /\ R.closed
      /\ R.stopped = rots[r].stopped
  BY <1>4, <1>5 DEF Rotator
<1>7. ~R.stopped
  BY <1>2, <1>4, <1>6 DEF Accounted
<1>8. Accounted(R)
  BY <1>2, <1>4, <1>5, <1>7 DEF Accounted, Rotator
<1> HIDE DEF R
<1>9. /\ rots' \in Seq(Rotator) /\ Len(rots') = Len(rots) /\ rots'[r] = R
      /\ \A j \in 1..Len(rots) : j # r => rots'[j] = rots[j]
  <2>1. \A t : t = [rots EXCEPT ![r] = R] =>
          /\ t \in Seq(Rotator) /\ Len(t) = Len(rots) /\ t[r] = R
          /\ \A j \in 1..Len(rots) : j # r => t[j] = rots[j]
    BY <1>1, <1>6, Replaced
  <2> QED
    BY <1>2, <2>1
<1>10. formatter' \in Formatters /\ Points(formatter', Len(rots))
  BY <1>2, <1>4 DEF Rotator
<1>11. \A j \in 1..Len(rots) : Accounted(rots'[j]) /\ Points(rots'[j].oldFormatter, Len(rots))
  BY <1>6, <1>8, <1>9, RotatorOf
<1>12. RotsTyped'
  BY <1>2, <1>9, <1>10, <1>11 DEF RotsOK, RotsTyped
<1>13. r \in Nat
  BY <1>1
<1>14. ASSUME NEW f, ToOpen(f, rots), Points(f, Len(rots)), f.rot # r PROVE ToOpen(f, rots')
  BY <1>9, <1>14 DEF ToOpen, Points
<1>15. ASSUME ordered' PROVE InOrder'
  <2>1. ordered /\ Starting = {} /\ Nested(r, rots)
    BY <1>3, <1>4, <1>15
  <2>2. Open \subseteq 1..Len(rots) /\ r \in Open
    BY <1>2 DEF Open
  <2>3. \A j \in Open : j <= r
    BY <1>1, <1>3, <1>15, <2>2, MaxIs
  <2>4. \A j \in 1..Len(rots) : ~rots[j].closed => j <= r
    BY <2>1, <2>3 DEF Open, Starting
  <2>5. ToOpen(formatter', rots')
    <3>1. ToOpen(rots[r].oldFormatter, rots) /\ rots[r].oldFormatter.rot < r
      BY <1>2, <2>1 DEF Nested
    <3>2. rots[r].oldFormatter.rot \in Nat
      BY <1>4 DEF Rotator, Formatters
    <3>3. rots[r].oldFormatter.rot # r
      BY <1>13, <3>1, <3>2
    <3> QED
      BY <1>2, <1>4, <1>14, <3>1, <3>3
  <2>6. ASSUME NEW j \in 1..Len(rots)
        PROVE  Nested(j, rots') /\ (rots'[j].stopped => rots'[j].queue = <<>>)
    <3>1. CASE j = r
      BY <1>6, <1>7, <1>9, <3>1 DEF Nested
    <3>2. CASE j # r
      <4>1. /\ rots'[j] = rots[j] /\ Nested(j, rots) /\ (rots[j].stopped => rots[j].queue = <<>>)
            /\ rots[j] \in Rotator /\ Points(rots[j].oldFormatter, Len(rots))
        BY <1>9, <2>1, <3>2, RotatorOf
      <4>2. ASSUME ~rots[j].closed
            PROVE  ToOpen(rots[j].oldFormatter, rots') /\ rots[j].oldFormatter.rot < j
        <5>1. ToOpen(rots[j].oldFormatter, rots) /\ rots[j].oldFormatter.rot < j /\ j <= r
          BY <2>4, <4>1, <4>2 DEF Nested
        <5>2. rots[j].oldFormatter.rot \in Nat
          BY <4>1 DEF Rotator, Formatters
        <5>3. rots[j].oldFormatter.rot # r
          BY <1>13, <5>1, <5>2
        <5> QED
          BY <1>14, <4>1, <5>1, <5>3
      <4> QED
        BY <4>1, <4>2 DEF Nested
    <3> QED
      BY <3>1, <3>2
  <2> QED
    BY <1>9, <2>5, <2>6 DEF InOrder
<1> QED
  BY <1>9, <1>11, <1>12, <1>15 DEF RotsOK

(* The rest of Close: the channel is drained and the buffer flushed.       *)
LEMMA CloseEndKeeps ==
  ASSUME RotsOK, NEW r \in 1..Len(rots), CloseEnd(r)
  PROVE  RotsOK'
<1> DEFINE Q == rots[r]
           flush == Q.buffered /\ ~Q.extraSink
           R == [Q EXCEPT !.stopped = TRUE, !.listening = FALSE,
                          !.disk = IF flush THEN Cat(@, Q.buf) ELSE @,
                          !.buf = IF flush THEN <<>> ELSE @]
<1>1. /\ Q.closed /\ Q.queue = <<>>
      /\ rots' = [rots EXCEPT ![r] = R]
      /\ UNCHANGED <<formatter, pending, ordered, logs, max>>
  BY DEF CloseEnd, Closing, Cat
<1>4. Q \in Rotator /\ Accounted(Q)
  BY RotatorOf
<1>5. Cat(Q.disk, Q.buf) \in Seq(Recs) /\ <<>> \in Seq(Recs)
  BY <1>4, CatIs DEF Rotator
<1>6. Cat(Cat(Cat(Q.disk, Q.buf), <<>>), Q.queue) = Q.sent
  BY <1>4, Flow
<1>7. Q.due <= Len(Cat(Q.disk, Q.buf))
  <2>1. Cat(Q.disk, Q.buf) = Q.sent
    BY <1>1, <1>5, <1>6, CatIs
  <2> QED
    BY <1>4, <2>1 DEF Accounted
<1> HIDE DEF Q
<1>8. R \in Rotator /\ R.closed = Q.closed /\ R.oldFormatter = Q.oldFormatter /\ R.queue = <<>>
  BY <1>1, <1>4, <1>5 DEF Rotator
<1>9. Accounted(R)
  BY <1>1, <1>4, <1>5, <1>6, <1>7 DEF Accounted, Rotator
<1> HIDE DEF R
<1> QED
  BY <1>1, <1>8, <1>9, SameFormatter DEF Q, RotsOK, RotsTyped

(* An application's formatter has no rotator behind it.                    *)
LEMMA SetFormatterKeeps ==
  ASSUME RotsOK, NEW f \in max.formatters, SetFormatter(f)
  PROVE  RotsOK'
<1>1. formatter' = f /\ UNCHANGED <<rots, pending, logs, max>> /\ (ordered' => ordered)
  BY DEF SetFormatter
<1>2. f \in [kind : FormatterKinds, rot : {0}]
  BY FormatterAssumption DEF RotsOK, RotsTyped
<1>3. f \in Formatters /\ f.rot = 0
  BY <1>2 DEF Formatters
<1>4. RotsTyped'
  BY <1>1, <1>3 DEF RotsOK, RotsTyped, Points
<1>5. ToOpen(formatter', rots)
  BY <1>1, <1>3 DEF ToOpen
<1> QED
  BY <1>1, <1>4, <1>5 DEF RotsOK, InOrder

-----------------------------------------------------------------------------
(* The invariant and what follows from it.                                 *)

(* Sequences of no and of one member.                                      *)
LEMMA OneMember ==
  ASSUME NEW S, NEW e \in S, NEW t, t = <<e>>
  PROVE  t \in Seq(S) /\ Len(t) = 1 /\ t[1] = e
OBVIOUS

(* The loggers of a new process.                                           *)
LEMMA LoggersBegin == LoggerInit => SlicesOK /\ LevelsOK
<1> SUFFICES ASSUME LoggerInit PROVE SlicesOK /\ LevelsOK
  OBVIOUS
<1> DEFINE l == NewLogger("")
           none == <<>>
<1>1. /\ loggers = <<l>> /\ registry = [k \in {Hijacked} |-> 1]
      /\ arrays = <<>> /\ sets = <<>> /\ given = <<none>>
  BY DEF LoggerInit
<1>2. l \in Logger /\ l.depth = 0 /\ l.values.len = 0 /\ l.values.arr = 0
  BY SomeLevels DEF NewLogger, Logger, NoValues
<1> HIDE DEF l
<1>3. loggers \in Seq(Logger) /\ Len(loggers) = 1 /\ loggers[1] = l
  BY <1>1, <1>2, OneMember
<1>10. none \in Array
  BY EmptySeq DEF Array
<1>5. SliceOf(l, none, arrays)
  BY <1>2 DEF SliceOf
<1> HIDE DEF none
<1>4. given \in Seq(Array) /\ Len(given) = 1 /\ given[1] = none
  BY <1>1, <1>10, OneMember
<1>11. arrays \in Seq(Array)
  BY <1>1, EmptySeq
<1>6. \A i \in 1..Len(loggers) : SliceOf(loggers[i], given[i], arrays)
  BY <1>3, <1>4, <1>5
<1>12. \A i \in 1..Len(loggers) : 1..loggers[i].values.len = {}
  BY <1>2, <1>3
<1>7. SlicesOK
  BY <1>3, <1>4, <1>6, <1>11, <1>12 DEF SlicesOK, SlicesTyped
<1>8. DOMAIN registry = {Hijacked} /\ registry \in [DOMAIN registry -> 1..Len(loggers)]
  <2>1. DOMAIN registry = {Hijacked} /\ registry = [k \in DOMAIN registry |-> 1]
    BY <1>1
  <2>2. 1 \in 1..Len(loggers)
    BY <1>3
  <2> QED
    BY <2>1, <2>2
<1>9. sets \in Seq(Setting)
  BY <1>1, EmptySeq
<1> QED
  BY <1>7, <1>8, <1>9 DEF LevelsOK

(* The initial states.                                                     *)
LEMMA InvBegins == Init => IInv
<1> SUFFICES ASSUME Init PROVE IInv
  OBVIOUS
<1>1. SlicesOK /\ LevelsOK
  BY LoggersBegin DEF Init
<1>3. Len(rots) = 0 /\ formatter.rot = 0
  BY DEF Init, Stderr
<1>2. RotsTyped
  <2>1. formatter \in Formatters
    BY DEF Init, Stderr, Formatters, FormatterKinds
  <2>2. rots \in Seq(Rotator)
    BY EmptySeq DEF Init
  <2>3. pending \in [Callers -> Recs \cup {NoRecord}]
    BY DEF Init
  <2> QED
    <3>1. 1..Len(rots) = {}
      BY <1>3
    <3>2. Points(formatter, Len(rots)) /\ logs \in Nat /\ max \in Bounds
      BY <1>3 DEF Init, Points
    <3> QED
      BY <2>1, <2>2, <2>3, <3>1, <3>2 DEF RotsTyped
<1>4. RotsOK
  BY <1>2, <1>3 DEF RotsOK, InOrder, ToOpen
<1> QED
  BY <1>1, <1>4 DEF IInv

(* The steps that write, open and close.                                   *)
LEMMA WritersKeep ==
  ASSUME IInv,
         \/ \E c \in Callers : LogUnblocked(c)
         \/ \E r \in 1..Len(rots) :
              \/ Deliver(r) \/ FlushTick(r) \/ Spill(r)
              \/ InitializeEnd(r) \/ CloseBegin(r) \/ CloseEnd(r)
         \/ \E mode \in Modes : InitializeBegin(mode)
         \/ \E f \in max.formatters : SetFormatter(f)
  PROVE  IInv'
<1>1. SlicesOK /\ LevelsOK /\ RotsOK
  BY DEF IInv
<1>2. UNCHANGED loggerVars
  BY DEF LogUnblocked, Deliver, FlushTick, Spill, InitializeBegin, InitializeEnd,
         CloseBegin, CloseEnd, SetFormatter
<1>3. RotsOK'
  BY <1>1, LogUnblockedKeeps, DeliverKeeps, FlushKeeps, SpillKeeps, InitializeBeginKeeps,
     InitializeEndKeeps, CloseBeginKeeps, CloseEndKeeps, SetFormatterKeeps
<1> QED
  BY <1>1, <1>2, <1>3, LoggersSame DEF IInv

(* The steps that make loggers and set levels.                             *)
LEMMA ConfiguringKeeps ==
  ASSUME IInv,
         \/ \E repo \in Repos, pkg \in Pkgs :
              \/ Register(repo, pkg)
              \/ \E l \in {ERROR, TRACE} : SetPackage(repo, pkg, l)
         \/ \E repo \in Repos, l \in {ERROR, TRACE} : SetRepo(repo, l)
         \/ \E l \in {ERROR, TRACE} : SetGlobal(l)
         \/ \E repo \in Repos, conf \in Confs : SetConfigured(repo, conf)
         \/ \E i \in 1..Len(loggers) : Derive(i, Len(given) + 1)
  PROVE  IInv'
<1>1. SlicesOK /\ LevelsOK /\ RotsOK
  BY DEF IInv
<1>2. UNCHANGED <<rots, formatter, pending, logs, max, ordered>>
  BY DEF Register, SetPackage, SetRepo, SetGlobal, SetConfigured, Derive, Configure, rotVars
<1>3. RotsOK'
  BY <1>1, <1>2, RotsSame DEF RotsOK, RotsTyped
<1>4. \A l \in {ERROR, TRACE} : l \in Levels
  BY SomeLevels
<1>5. ASSUME NEW repo \in Repos, NEW pkg \in Pkgs, Register(repo, pkg) PROVE SlicesOK' /\ LevelsOK'
  BY <1>1, <1>5, RegisterStep DEF Register, Configure
<1>6. ASSUME NEW repo \in Repos, NEW p \in Names, NEW l \in Levels, SetLogLevel(repo, [x \in {p} |-> l])
      PROVE  SlicesOK' /\ LevelsOK'
  BY <1>1, <1>6, OneName, RepoStep
<1>7. ASSUME NEW repo \in Repos, NEW pkg \in Pkgs, NEW l \in Levels, SetPackage(repo, pkg, l)
      PROVE  SlicesOK' /\ LevelsOK'
  <2>1. PICK p \in Names : p = IF pkg = "" THEN "*" ELSE pkg
    BY DEF Names
  <2>2. SetLogLevel(repo, [x \in {p} |-> l])
    BY <1>7, <2>1 DEF SetPackage, Configure, SetPackageLogLevel
  <2> QED
    BY <1>6, <2>2
<1>8. ASSUME NEW repo \in Repos, NEW l \in Levels, SetRepo(repo, l) PROVE SlicesOK' /\ LevelsOK'
  <2>1. "*" \in Names
    BY DEF Names
  <2>2. SetLogLevel(repo, [x \in {"*"} |-> l])
    BY <1>8 DEF SetRepo, Configure, SetRepoLogLevel
  <2> QED
    BY <1>6, <2>1, <2>2
<1>9. ASSUME NEW l \in Levels, SetGlobal(l) PROVE SlicesOK' /\ LevelsOK'
  BY <1>1, <1>9, GlobalStep DEF SetGlobal, Configure
<1>10. ASSUME NEW repo \in Repos, NEW conf \in Confs, SetConfigured(repo, conf)
       PROVE  SlicesOK' /\ LevelsOK'
  <2>1. PICK m \in ParseLogLevelConfig(conf) : SetLogLevel(repo, m)
    BY <1>10 DEF SetConfigured, Configure
  <2>2. m \in LevelMaps
    BY ParsedIsMap
  <2> QED
    BY <1>1, <2>1, <2>2, RepoStep
<1>11. ASSUME NEW i \in 1..Len(loggers), Derive(i, Len(given) + 1) PROVE SlicesOK' /\ LevelsOK'
  <2>1. Len(given) + 1 \in Int
    BY <1>1, LenProperties DEF SlicesOK, SlicesTyped
  <2> QED
    BY <1>1, <1>11, <2>1, DeriveStep DEF Derive, Configure
<1>12. SlicesOK' /\ LevelsOK'
  BY <1>4, <1>5, <1>7, <1>8, <1>9, <1>10, <1>11
<1> QED
  BY <1>3, <1>12 DEF IInv

(* Every step keeps the invariant.                                         *)
LEMMA InvKept == IInv /\ [Next]_vars => IInv'
<1> SUFFICES ASSUME IInv, [Next]_vars PROVE IInv'
  OBVIOUS
<1>1. CASE UNCHANGED vars
  <2>1. /\ UNCHANGED loggerVars
        /\ UNCHANGED <<rots, formatter, pending, logs, max, ordered>>
    BY <1>1 DEF vars, rotVars
  <2> QED
    BY <2>1, LoggersSame, RotsSame DEF IInv, RotsOK, RotsTyped
<1>2. CASE \E c \in Callers, i \in 1..Len(loggers), m \in Methods : Log(c, i, m, Message)
  BY <1>2, LogKeeps
<1>3. CASE \E c \in Callers, i \in 1..Len(loggers) : KVPanics(c, i, INFO)
  BY <1>3, KVPanicsKeeps
<1>4. CASE \/ \E c \in Callers : LogUnblocked(c)
           \/ \E r \in 1..Len(rots) :
                \/ Deliver(r) \/ FlushTick(r) \/ Spill(r)
                \/ InitializeEnd(r) \/ CloseBegin(r) \/ CloseEnd(r)
           \/ \E mode \in Modes : InitializeBegin(mode)
           \/ \E f \in max.formatters : SetFormatter(f)
  BY <1>4, WritersKeep
<1>5. CASE \/ \E repo \in Repos, pkg \in Pkgs :
                \/ Register(repo, pkg)
                \/ \E l \in {ERROR, TRACE} : SetPackage(repo, pkg, l)
           \/ \E repo \in Repos, l \in {ERROR, TRACE} : SetRepo(repo, l)
           \/ \E l \in {ERROR, TRACE} : SetGlobal(l)
           \/ \E repo \in Repos, conf \in Confs : SetConfigured(repo, conf)
           \/ \E i \in 1..Len(loggers) : Derive(i, Len(given) + 1)
  BY <1>5, ConfiguringKeeps
<1> QED
  BY <1>1, <1>2, <1>3, <1>4, <1>5 DEF Next

(* The invariant holds of every state.                                     *)
THEOREM Invariance == Spec => []IInv
BY InvBegins, InvKept, PTL DEF Spec

(* The first part of a concatenation is a prefix of it.                    *)
LEMMA CatPrefix ==
  ASSUME NEW S, NEW x \in Seq(S), NEW y \in Seq(S)
  PROVE  IsPrefix(x, Cat(x, y))
<1> DEFINE z == x \o y
<1>1. /\ z \in Seq(S) /\ Len(z) = Len(x) + Len(y)
      /\ \A i \in 1..(Len(x) + Len(y)) : z[i] = IF i <= Len(x) THEN x[i] ELSE y[i - Len(x)]
  BY ConcatProperties
<1>2. Len(x) \in Nat /\ Len(y) \in Nat
  BY LenProperties
<1>3. Cat(x, y) = z
  BY DEF Cat
<1> HIDE DEF z
<1>4. SubSeq(x, 1, Len(x)) = x
  BY SubSeqFull
<1>5. SubSeq(z, 1, Len(x)) = [i \in 1..Len(x) |-> x[i]]
  <2>1. \A i \in 1..Len(x) : i \in 1..(Len(x) + Len(y)) /\ i <= Len(x)
    BY <1>2
  <2>2. \A i \in 1..Len(x) : z[i] = x[i]
    BY <1>1, <2>1
  <2>3. SubSeq(z, 1, Len(x)) = [i \in 1..Len(x) |-> z[i]]
    BY <1>1, <1>2
  <2> QED
    BY <2>2, <2>3
<1>6. x = [i \in 1..Len(x) |-> x[i]]
  BY LenProperties
<1>7. Len(x) <= Len(z)
  BY <1>1, <1>2
<1> QED
  BY <1>3, <1>4, <1>5, <1>6, <1>7 DEF IsPrefix

(* Once Close has returned, all that was logged before it through a        *)
(* buffered rotator without an extra sink is on disk, in order; and all    *)
(* that ever is logged through it, when rotators are opened and closed one *)
(* at a time, the last first.                                              *)
THEOREM CloseFlushes == Spec => []ClosedIsOnDisk
<1>1. IInv => ClosedIsOnDisk
  <2> SUFFICES ASSUME IInv, NEW r \in 1..Len(rots),
                      rots[r].stopped, rots[r].buffered, ~rots[r].extraSink
               PROVE  /\ rots[r].due <= Len(rots[r].disk) /\ IsPrefix(rots[r].disk, rots[r].sent)
                      /\ ordered => rots[r].disk = rots[r].sent
    BY DEF ClosedIsOnDisk
  <2> DEFINE Q == rots[r]
  <2>1. Q \in Rotator /\ Accounted(Q) /\ (ordered => Q.queue = <<>>)
    BY RotatorOf DEF IInv
  <2>2. /\ Q.buf = <<>> /\ Cat(Cat(Q.disk, Q.buf), Q.queue) = Q.sent
        /\ Q.due <= Len(Q.disk)
    BY <2>1 DEF Accounted
  <2>3. Q.disk \in Seq(Recs) /\ Q.queue \in Seq(Recs)
    BY <2>1 DEF Rotator
  <2>4. Cat(Q.disk, <<>>) = Q.disk
    BY <2>3, CatIs
  <2>5. Cat(Q.disk, Q.queue) = Q.sent
    BY <2>2, <2>4
  <2>6. IsPrefix(Q.disk, Cat(Q.disk, Q.queue))
    BY <2>3, CatPrefix
  <2> QED
    BY <2>1, <2>2, <2>4, <2>5, <2>6
<1> QED
  BY <1>1, Invariance, PTL

(* However loggers are derived from one another, and whatever is logged    *)
(* through them, a value of a context can be overwritten only from a       *)
(* logger that shares the array and ends before the value.                 *)
THEOREM ContextsKept == Spec => []ContextKept
<1>1. IInv => ContextKept
  BY ContextOf DEF IInv
<1> QED
  BY <1>1, Invariance, PTL

(* The level of a registered package is what the last call that concerns   *)
(* it says, in whatever order packages are registered and levels set.      *)
THEOREM LevelsByLastCall == Spec => []LevelByLastCall
<1>1. IInv => LevelByLastCall
  BY LevelsSaid DEF IInv
<1> QED
  BY <1>1, Invariance, PTL
=============================================================================
