------------------------------ MODULE Wire_proofs ------------------------------
(***************************************************************************)
(* What gets over the wire whole: the manifest of a revision, for any       *)
(* number of foundations, any limits of the buffer and any number of         *)
(* revisions and of lost connections (ManifestTransfer), every message of a   *)
(* client and everything the Guardian has to say, for any values of the       *)
(* fields, any length of texts and lists and any base of the bytes (Frames). *)
(***************************************************************************)
EXTENDS Frames, ManifestTransfer, FiniteSetTheorems, SequenceTheorems, TLAPS

(* What is listed of a foundation. *)
Entry == [id : Foundation, slot : Nat]

(* The frames that carry the manifest of revision r. *)
PagesOf(r) ==
    LET list == Pages(history[r])
    IN  {[ type |-> "page", revision |-> r, index |-> k - 1, count |-> Len(list),
           records |-> list[k] ] : k \in 1 .. Len(list)}

(* The frames that say something true of a revision there was. *)
TrueFrames ==
    [type : {"digest"}, revision : 1 .. revision] \cup UNION {PagesOf(r) : r \in 1 .. revision}

HistoryIsKept ==
    /\ revision \in Nat \ {0}
    /\ records \in [Foundation -> Nat]
    /\ history \in Seq(Seq(Entry))
    /\ Len(history) = revision
    /\ history[revision] = Listed(records)

FramesAreTrue ==
    /\ outbox \in Seq(TrueFrames)
    /\ buffer \in Seq(TrueFrames)
    /\ kernel \in Seq(TrueFrames)

PagesAreTrue ==
    pages.revision # 0 =>
        LET list == Pages(history[pages.revision])
        IN  /\ pages.revision \in 1 .. revision
            /\ DOMAIN pages.got \subseteq 0 .. Len(list) - 1
            /\ \A k \in DOMAIN pages.got : pages.got[k] = list[k + 1]

HeldIsTrue ==
    held # Nothing =>
        /\ held.revision \in 1 .. revision
        /\ held.records = history[held.revision]

TransferInv == HistoryIsKept /\ FramesAreTrue /\ PagesAreTrue /\ HeldIsTrue

-----------------------------------------------------------------------------
(* Recursive functions *)

(* Every set of natural numbers that is not empty has a least element.     *)
LEMMA LeastElement ==
    ASSUME NEW S \in SUBSET Nat, S # {}
    PROVE  \E m \in S : \A n \in S : m <= n
<1> DEFINE T == {0 .. m - 1 : m \in S}
<1>1. T # {} /\ T \subseteq FiniteSubsetsOf(Nat)
  <2>1. \A m \in S : (0 .. m-1) \in SUBSET Nat /\ IsFiniteSet(0 .. m-1)
    BY FS_Interval
  <2> QED BY <2>1 DEF FiniteSubsetsOf
<1>2. \E X \in T : \A Y \in T : <<Y, X>> \notin StrictSubsetOrdering(Nat)
  <2> HIDE DEF T
  <2> QED BY <1>1, FS_StrictSubsetOrderingWellFounded, WFMin
<1>3. PICK m \in S : \A Y \in T : <<Y, 0 .. m-1>> \notin StrictSubsetOrdering(Nat)
  BY <1>2
<1>4. ASSUME NEW n \in S, n < m
      PROVE  FALSE
  <2> DEFINE X == 0 .. m-1
             Y == 0 .. n-1
  <2>1. Y \subseteq X /\ n \in X /\ n \notin Y
    BY <1>4
  <2>2. X \in SUBSET Nat /\ Y \in SUBSET Nat
    OBVIOUS
  <2>3. <<Y, X>> \in StrictSubsetOrdering(Nat)
    BY <2>1, <2>2 DEF StrictSubsetOrdering
  <2> QED BY <1>3, <2>3
<1>5. \A n \in S : m <= n
  BY <1>4
<1> QED BY <1>5

(* Induction up to n, for the set of the numbers with some property.        *)
LEMMA UpTo ==
    ASSUME NEW n \in Nat, NEW T, 0 \in T,
           \A i \in 0 .. n - 1 : i \in T => i + 1 \in T
    PROVE  \A i \in 0 .. n : i \in T
<1> SUFFICES ASSUME NEW k \in 0 .. n, k \notin T
             PROVE  FALSE
  OBVIOUS
<1> DEFINE S == {i \in 0 .. n : i \notin T}
<1>1. PICK m \in S : \A i \in S : m <= i
  <2>1. S \in SUBSET Nat /\ S # {}
    OBVIOUS
  <2> HIDE DEF S
  <2> QED BY <2>1, LeastElement
<1>2. m # 0 /\ m - 1 \in 0 .. n - 1
  OBVIOUS
<1>3. m - 1 \in T
  BY <1>1, <1>2
<1> QED BY <1>2, <1>3

(* A function on 0 .. n can be defined by its value at 0 and by what one    *)
(* step makes of a value.                                                   *)
Iterates(f, n, a, step) ==
    f[0] = a /\ \A i \in 1 .. n : f[i] = step[<<f[i - 1], i>>]

LEMMA RecursiveFunction ==
    ASSUME NEW n \in Nat, NEW S, NEW a \in S, NEW step \in [S \X (1 .. n) -> S]
    PROVE  \E f \in [0 .. n -> S] : Iterates(f, n, a, step)
<1> USE DEF Iterates
<1> DEFINE Upto(m) == \E f \in [0 .. m -> S] :
                         f[0] = a /\ \A i \in 1 .. m : f[i] = step[<<f[i - 1], i>>]
           T == {m \in 0 .. n : Upto(m)}
<1>1. 0 \in T
  <2>1. [i \in 0 .. 0 |-> a] \in [0 .. 0 -> S]
    OBVIOUS
  <2>2. [i \in 0 .. 0 |-> a][0] = a
    OBVIOUS
  <2>3. Upto(0)
    <3> DEFINE f == [i \in 0 .. 0 |-> a]
    <3>1. f \in [0 .. 0 -> S] /\ f[0] = a /\ \A i \in 1 .. 0 : f[i] = step[<<f[i - 1], i>>]
      BY <2>1, <2>2
    <3> HIDE DEF f
    <3> QED BY <3>1
  <2> QED BY <2>3
<1>2. ASSUME NEW m \in 0 .. n - 1, m \in T
      PROVE  m + 1 \in T
  <2>1. PICK f \in [0 .. m -> S] :
                f[0] = a /\ \A i \in 1 .. m : f[i] = step[<<f[i - 1], i>>]
    BY <1>2
  <2> DEFINE v == step[<<f[m], m + 1>>]
             g == [i \in 0 .. m + 1 |-> IF i <= m THEN f[i] ELSE v]
  <2>2. v \in S
    <3>1. f[m] \in S /\ m + 1 \in 1 .. n
      BY <2>1
    <3>2. <<f[m], m + 1>> \in S \X (1 .. n)
      BY <3>1
    <3> QED BY <3>2
  <2>3. g \in [0 .. m + 1 -> S] /\ g[0] = a
    <3> HIDE DEF v
    <3> QED BY <2>1, <2>2
  <2>4. ASSUME NEW i \in 1 .. m + 1
        PROVE  g[i] = step[<<g[i - 1], i>>]
    <3>1. CASE i <= m
      <4>1. i \in 1 .. m /\ g[i] = f[i] /\ g[i - 1] = f[i - 1]
        BY <3>1
      <4> QED BY <2>1, <4>1
    <3>2. CASE i = m + 1
      <4>1. g[i] = v /\ g[i - 1] = f[m]
        BY <3>2
      <4> QED BY <3>2, <4>1
    <3> QED BY <3>1, <3>2
  <2> HIDE DEF g
  <2>5. Upto(m + 1)
    BY <2>3, <2>4
  <2> QED BY <2>5
<1>3. n \in T
  <2> HIDE DEF T
  <2>1. \A i \in 0 .. n - 1 : i \in T => i + 1 \in T
    BY <1>2
  <2>2. \A i \in 0 .. n : i \in T
    BY <1>1, <2>1, UpTo, Zenon
  <2> QED BY <2>2
<1> QED BY <1>3

(* Two functions that agree at 0 and are continued in the same way agree.   *)
LEMMA Agree ==
    ASSUME NEW n \in Nat, NEW f, NEW g, f[0] = g[0],
           \A i \in 1 .. n : f[i - 1] = g[i - 1] => f[i] = g[i]
    PROVE  f[n] = g[n]
<1> DEFINE T == {i \in 0 .. n : f[i] = g[i]}
<1>1. 0 \in T
  OBVIOUS
<1>2. ASSUME NEW i \in 0 .. n - 1, i \in T
      PROVE  i + 1 \in T
  <2>1. i + 1 \in 1 .. n /\ f[(i + 1) - 1] = g[(i + 1) - 1]
    BY <1>2
  <2> QED BY <2>1
<1>3. n \in T
  <2> HIDE DEF T
  <2>1. \A i \in 0 .. n - 1 : i \in T => i + 1 \in T
    BY <1>2
  <2>2. \A i \in 0 .. n : i \in T
    BY <1>1, <2>1, UpTo, Zenon
  <2> QED BY <2>2
<1> QED BY <1>3

-----------------------------------------------------------------------------
(* Manifests and their pages *)

ListStep(l, i, recs) == IF recs[i] = 0 THEN l ELSE Append(l, [id |-> i, slot |-> recs[i]])

(* What is listed of the map is a sequence of records.                      *)
LEMMA ListedTyped ==
    ASSUME NEW recs \in [Foundation -> Nat]
    PROVE  Listed(recs) \in Seq(Entry)
<1> DEFINE S == Seq(Entry)
           step == [x \in S \X (1 .. Foundations) |-> ListStep(x[1], x[2], recs)]
           list[i \in 0 .. Foundations] ==
             IF i = 0 THEN <<>>
             ELSE IF recs[i] = 0 THEN list[i - 1]
             ELSE Append(list[i - 1], [id |-> i, slot |-> recs[i]])
<1>1. Foundations \in Nat /\ Foundation = 1 .. Foundations
  BY TransferAssumption DEF Foundation
<1>2. Listed(recs) = list[Foundations]
  BY DEF Listed
<1>3. <<>> \in S /\ \A l \in S, i \in 1 .. Foundations : ListStep(l, i, recs) \in S
  <2>1. ASSUME NEW l \in S, NEW i \in 1 .. Foundations
        PROVE  ListStep(l, i, recs) \in S
    <3>1. [id |-> i, slot |-> recs[i]] \in Entry
      BY <1>1 DEF Entry
    <3> QED BY <3>1, AppendProperties DEF ListStep
  <2> QED BY <2>1, EmptySeq
<1> HIDE DEF S
<1>4. step \in [S \X (1 .. Foundations) -> S]
  BY <1>3
<1>5. \A l \in S, i \in 1 .. Foundations : step[<<l, i>>] = ListStep(l, i, recs)
  OBVIOUS
<1> HIDE DEF step
<1>6. PICK f \in [0 .. Foundations -> S] : Iterates(f, Foundations, <<>>, step)
  BY <1>1, <1>3, <1>4, RecursiveFunction
<1>7. f[0] = <<>> /\ \A i \in 1 .. Foundations : f[i] = ListStep(f[i - 1], i, recs)
  <2>1. f[0] = <<>> /\ \A i \in 1 .. Foundations : f[i] = step[<<f[i - 1], i>>]
    BY <1>6 DEF Iterates
  <2>2. \A i \in 1 .. Foundations : f[i - 1] \in S
    BY <1>1
  <2> QED BY <1>5, <2>1, <2>2
<1>8. f = [i \in 0 .. Foundations |->
             IF i = 0 THEN <<>>
             ELSE IF recs[i] = 0 THEN f[i - 1]
             ELSE Append(f[i - 1], [id |-> i, slot |-> recs[i]])]
  <2>1. ASSUME NEW i \in 0 .. Foundations
        PROVE  f[i] = IF i = 0 THEN <<>>
                      ELSE IF recs[i] = 0 THEN f[i - 1]
                      ELSE Append(f[i - 1], [id |-> i, slot |-> recs[i]])
    <3>1. i # 0 => i \in 1 .. Foundations
      BY <1>1
    <3> QED BY <1>7, <3>1 DEF ListStep
  <2> QED BY <2>1
<1>9. list = [i \in 0 .. Foundations |->
                IF i = 0 THEN <<>>
                ELSE IF recs[i] = 0 THEN list[i - 1]
                ELSE Append(list[i - 1], [id |-> i, slot |-> recs[i]])]
  BY <1>8, Zenon
<1> HIDE DEF list
<1>10. list[0] = <<>> /\ \A i \in 1 .. Foundations : list[i] = ListStep(list[i - 1], i, recs)
  <2>1. 0 \in 0 .. Foundations /\ \A i \in 1 .. Foundations : i # 0 /\ i \in 0 .. Foundations
    BY <1>1
  <2> QED BY <1>9, <2>1 DEF ListStep
<1>11. list[Foundations] = f[Foundations]
  <2>1. list[0] = f[0]
    BY <1>7, <1>10
  <2>2. \A i \in 1 .. Foundations : list[i - 1] = f[i - 1] => list[i] = f[i]
    BY <1>7, <1>10
  <2> QED BY <1>1, <2>1, <2>2, Agree
<1>12. f[Foundations] \in S
  BY <1>1
<1> QED BY <1>2, <1>11, <1>12 DEF S

(* What FlattenSeq computes, one part after the other.                      *)
Flattens(g, n, parts) ==
    g[1] = parts[1] /\ \A i \in 2 .. n : g[i] = g[i - 1] \o parts[i]

LEMMA FlattenComputes ==
    ASSUME NEW parts, NEW n \in Nat \ {0}, Len(parts) = n, NEW g, Flattens(g, n, parts)
    PROVE  FlattenSeq(parts) = g[n]
<1> USE DEF Flattens
<1> DEFINE flatten[i \in 1 .. n] ==
             IF i = 1 THEN parts[i] ELSE flatten[i - 1] \o parts[i]
           f == [i \in 1 .. n |-> g[i]]
<1>1. FlattenSeq(parts) = flatten[n]
  BY DEF FlattenSeq
<1>2. f = [i \in 1 .. n |-> IF i = 1 THEN parts[i] ELSE f[i - 1] \o parts[i]]
  <2>1. ASSUME NEW i \in 1 .. n
        PROVE  g[i] = IF i = 1 THEN parts[i] ELSE f[i - 1] \o parts[i]
    <3>1. CASE i = 1
      BY <3>1
    <3>2. CASE i # 1
      <4>1. i \in 2 .. n /\ i - 1 \in 1 .. n
        BY <3>2
      <4>2. f[i - 1] = g[i - 1]
        BY <4>1
      <4>3. g[i] = g[i - 1] \o parts[i]
        BY <4>1
      <4> HIDE DEF f
      <4> QED BY <3>2, <4>2, <4>3
    <3> QED BY <3>1, <3>2
  <2> QED BY <2>1
<1>3. flatten = [i \in 1 .. n |-> IF i = 1 THEN parts[i] ELSE flatten[i - 1] \o parts[i]]
  <2> HIDE DEF f
  <2> QED BY <1>2, Zenon
<1> HIDE DEF flatten
<1> DEFINE F == [i \in 0 .. n - 1 |-> flatten[i + 1]]
           G == [i \in 0 .. n - 1 |-> g[i + 1]]
<1>4. F[0] = G[0]
  <2>1. 1 \in 1 .. n /\ 0 \in 0 .. n - 1 /\ 0 + 1 = 1
    OBVIOUS
  <2> QED BY <1>3, <2>1
<1>5. ASSUME NEW i \in 1 .. n - 1, F[i - 1] = G[i - 1]
      PROVE  F[i] = G[i]
  <2>1. /\ i \in 0 .. n - 1 /\ i - 1 \in 0 .. n - 1 /\ i + 1 \in 1 .. n /\ i + 1 \in 2 .. n
        /\ i + 1 # 1 /\ (i - 1) + 1 = i /\ (i + 1) - 1 = i
    OBVIOUS
  <2>2. flatten[i] = g[i]
    BY <1>5, <2>1
  <2>3. flatten[i + 1] = flatten[i] \o parts[i + 1]
    BY <1>3, <2>1
  <2>4. g[i + 1] = g[i] \o parts[i + 1]
    BY <2>1
  <2> QED BY <2>1, <2>2, <2>3, <2>4
<1>6. F[n - 1] = G[n - 1]
  <2>1. n - 1 \in Nat /\ 0 \in 0 .. n - 1
    OBVIOUS
  <2> HIDE DEF F, G
  <2>2. \A i \in 1 .. n - 1 : F[i - 1] = G[i - 1] => F[i] = G[i]
    BY <1>5
  <2> QED BY <1>4, <2>1, <2>2, Agree
<1>7. n - 1 \in 0 .. n - 1 /\ (n - 1) + 1 = n
  OBVIOUS
<1> QED BY <1>1, <1>6, <1>7

(* Slices that are cut out of a sequence one behind the other, put together *)
(* again.                                                                   *)
Slices(parts, n, whole, cuts) ==
    \A i \in 1 .. n : /\ cuts[i - 1] \in Nat /\ cuts[i] \in Nat
                      /\ cuts[i - 1] <= cuts[i] /\ cuts[i] <= Len(whole)
                      /\ parts[i] = SubSeq(whole, cuts[i - 1] + 1, cuts[i])

LEMMA FlattenSlices ==
    ASSUME NEW S, NEW whole \in Seq(S), NEW parts, NEW n \in Nat \ {0}, Len(parts) = n,
           NEW cuts, Slices(parts, n, whole, cuts)
    PROVE  FlattenSeq(parts) = SubSeq(whole, cuts[0] + 1, cuts[n])
<1> DEFINE g == [i \in 1 .. n |-> SubSeq(whole, cuts[0] + 1, cuts[i])]
           T == {i \in 0 .. n : cuts[0] \in Nat /\ cuts[i] \in Nat /\ cuts[0] <= cuts[i]}
<1>1. Len(whole) \in Nat
  BY LenProperties
<1>2. g[1] = parts[1] /\ cuts[0] \in Nat /\ cuts[0] <= Len(whole)
  <2>1. 1 \in 1 .. n /\ 1 - 1 = 0
    OBVIOUS
  <2>2. parts[1] = SubSeq(whole, cuts[0] + 1, cuts[1])
    BY <2>1 DEF Slices
  <2>3. cuts[0] \in Nat /\ cuts[1] \in Nat /\ cuts[0] <= cuts[1] /\ cuts[1] <= Len(whole)
    BY <2>1 DEF Slices
  <2>4. g[1] = SubSeq(whole, cuts[0] + 1, cuts[1])
    BY <2>1
  <2> DEFINE a == cuts[0]
             b == cuts[1]
             l == Len(whole)
  <2>5. a <= l
    <3>1. a \in Nat /\ b \in Nat /\ a <= b /\ b <= l /\ l \in Nat
      BY <1>1, <2>3
    <3> HIDE DEF a, b, l
    <3> QED BY <3>1
  <2> HIDE DEF g
  <2> QED BY <2>2, <2>3, <2>4, <2>5
<1>3. \A i \in 0 .. n : i \in T
  <2>1. 0 \in T
    BY <1>2
  <2>2. ASSUME NEW i \in 0 .. n - 1, i \in T
        PROVE  i + 1 \in T
    <3>1. i + 1 \in 1 .. n /\ (i + 1) - 1 = i /\ i + 1 \in 0 .. n
      OBVIOUS
    <3>2. cuts[i] \in Nat /\ cuts[i + 1] \in Nat /\ cuts[i] <= cuts[i + 1]
      BY <3>1 DEF Slices
    <3> QED BY <2>2, <3>1, <3>2
  <2> HIDE DEF T
  <2>3. \A i \in 0 .. n - 1 : i \in T => i + 1 \in T
    BY <2>2
  <2> QED BY <2>1, <2>3, UpTo, Zenon
<1>4. ASSUME NEW i \in 2 .. n
      PROVE  g[i] = g[i - 1] \o parts[i]
  <2>1. i \in 1 .. n /\ i - 1 \in 1 .. n /\ i - 1 \in 0 .. n
    OBVIOUS
  <2> DEFINE a == cuts[i - 1]
             b == cuts[i]
             m == cuts[0] + 1
  <2>2. /\ a \in Nat /\ b \in Nat /\ a <= b /\ b <= Len(whole)
        /\ parts[i] = SubSeq(whole, a + 1, b)
    BY <2>1 DEF Slices
  <2>3. g[i] = SubSeq(whole, m, b) /\ g[i - 1] = SubSeq(whole, m, a)
    BY <2>1
  <2>4. cuts[0] <= a
    BY <1>3, <2>1
  <2> DEFINE c == cuts[0]
  <2>5. m \in 1 .. Len(whole) + 1 /\ a \in m - 1 .. Len(whole) /\ b \in a .. Len(whole)
    <3>1. c \in Nat /\ c <= Len(whole) /\ c <= a /\ m = c + 1
      BY <1>2, <2>4
    <3> HIDE DEF a, b, c, m
    <3> QED BY <1>1, <2>2, <3>1
  <2> HIDE DEF a, b, c, m, g
  <2>6. SubSeq(whole, m, a) \o SubSeq(whole, a + 1, b) = SubSeq(whole, m, b)
    BY <2>5, ConcatAdjacentSubSeq
  <2> QED BY <2>2, <2>3, <2>6
<1>5. g[n] = SubSeq(whole, cuts[0] + 1, cuts[n])
  <2>1. n \in 1 .. n
    OBVIOUS
  <2> QED BY <2>1
<1> HIDE DEF g
<1>6. Flattens(g, n, parts)
  BY <1>2, <1>4 DEF Flattens
<1> QED BY <1>5, <1>6, FlattenComputes

(* A quotient, by what it is multiplied.                                    *)
LEMMA Quotient ==
    ASSUME NEW a \in Nat, NEW d \in Nat \ {0}
    PROVE  /\ a \div d \in Nat
           /\ d * (a \div d) <= a
           /\ a < d * (a \div d) + d
OBVIOUS

LEMMA NumberOfRuns ==
    ASSUME NEW l \in Nat \ {0}, NEW size \in Nat \ {0}
    PROVE  LET n == (l + size - 1) \div size
           IN  /\ n \in Nat \ {0}
               /\ l <= size * n
               /\ \A k \in 1 .. n : size * (k - 1) < l /\ size * k = size * (k - 1) + size
<1> DEFINE n == (l + size - 1) \div size
<1>1. n \in Nat /\ size * n <= l + size - 1 /\ l + size - 1 < size * n + size
  <2>1. l + size - 1 \in Nat
    OBVIOUS
  <2> QED BY <2>1, Quotient
<1> HIDE DEF n
<1>2. n # 0 /\ l <= size * n
  <2>1. size * 0 = 0
    OBVIOUS
  <2> QED BY <1>1, <2>1
<1>3. ASSUME NEW k \in 1 .. n
      PROVE  size * (k - 1) < l /\ size * k = size * (k - 1) + size
  <2>1. size * k = size * (k - 1) + size
    BY <1>1
  <2>2. size * k <= size * n
    BY <1>1
  <2> QED BY <1>1, <2>1, <2>2
<1> QED BY <1>1, <1>2, <1>3 DEF n

(* The runs of a batch or of a manifest are all of it, in order.            *)
LEMMA FlattenRuns ==
    ASSUME NEW S, NEW items \in Seq(S), items # <<>>, NEW size \in Nat \ {0}
    PROVE  /\ Len(Runs(items, size)) \in Nat \ {0}
           /\ FlattenSeq(Runs(items, size)) = items
<1> DEFINE l == Len(items)
           n == (l + size - 1) \div size
           parts == Runs(items, size)
           cuts == [k \in 0 .. n |-> IF size * k < l THEN size * k ELSE l]
<1>1. l \in Nat \ {0}
  BY EmptySeq, LenProperties
<1> HIDE DEF l
<1>2. /\ n \in Nat \ {0}
      /\ l <= size * n
      /\ \A k \in 1 .. n : size * (k - 1) < l /\ size * k = size * (k - 1) + size
  BY <1>1, NumberOfRuns
<1>3. parts = [k \in 1 .. n |-> Run(items, size, k)]
  BY DEF Runs, l
<1> HIDE DEF n
<1>4. Len(parts) = n
  BY <1>2, <1>3
<1>5. cuts[0] = 0 /\ cuts[n] = l
  <2>1. 0 \in 0 .. n /\ n \in 0 .. n /\ size * 0 = 0
    BY <1>2
  <2> QED BY <1>1, <1>2, <2>1
<1>6. ASSUME NEW i \in 1 .. n
      PROVE  /\ cuts[i - 1] \in Nat /\ cuts[i] \in Nat
             /\ cuts[i - 1] <= cuts[i] /\ cuts[i] <= l
             /\ parts[i] = SubSeq(items, cuts[i - 1] + 1, cuts[i])
  <2>1. i \in 0 .. n /\ i - 1 \in 0 .. n /\ size * (i - 1) \in Nat /\ size * i \in Nat
    BY <1>2
  <2>2. cuts[i - 1] = size * (i - 1)
    BY <1>2, <2>1
  <2>3. cuts[i] = IF size * i < l THEN size * i ELSE l
    BY <2>1
  <2>4. parts[i] = SubSeq(items, size * (i - 1) + 1, cuts[i])
    <3>1. parts[i] = Run(items, size, i)
      BY <1>3
    <3> HIDE DEF cuts, parts
    <3> QED BY <2>3, <3>1 DEF Run, l
  <2>5. size * (i - 1) < l /\ size * i = size * (i - 1) + size
    BY <1>2
  <2> HIDE DEF cuts, parts
  <2> QED BY <1>1, <2>1, <2>2, <2>3, <2>4, <2>5
<1>7. Slices(parts, n, items, cuts)
  <2> HIDE DEF cuts, parts
  <2> QED BY <1>6 DEF Slices, l
<1> HIDE DEF parts, cuts
<1>8. FlattenSeq(parts) = SubSeq(items, cuts[0] + 1, cuts[n])
  BY <1>2, <1>4, <1>7, FlattenSlices
<1>9. FlattenSeq(parts) = items
  BY <1>5, <1>8, SubSeqFull DEF l
<1> QED BY <1>2, <1>4, <1>9 DEF parts

(* The pages of a manifest put together are the manifest.                   *)
LEMMA FlattenPages ==
    ASSUME NEW S, NEW list \in Seq(S)
    PROVE  /\ Len(Pages(list)) \in Nat \ {0}
           /\ FlattenSeq(Pages(list)) = list
<1>1. CASE list = <<>>
  <2> DEFINE n == 1
             parts == << <<>> >>
             g == [i \in 1 .. 1 |-> <<>>]
  <2>1. Pages(list) = parts
    BY <1>1 DEF Pages
  <2>2. Len(parts) = n /\ g[n] = <<>>
    OBVIOUS
  <2>3. n \in Nat \ {0} /\ Flattens(g, n, parts)
    BY DEF Flattens
  <2> HIDE DEF n, parts, g
  <2>4. FlattenSeq(parts) = g[n]
    BY <2>2, <2>3, FlattenComputes
  <2> QED BY <1>1, <2>1, <2>2, <2>3, <2>4
<1>2. CASE list # <<>>
  <2>1. Pages(list) = Runs(list, kBuildingManifestPageRecords)
    BY <1>2 DEF Pages
  <2> QED BY <1>2, <2>1, FlattenRuns, PageAssumption
<1> QED BY <1>1, <1>2

LEMMA PagesTyped ==
    ASSUME NEW S, NEW list \in Seq(S)
    PROVE  Pages(list) \in Seq(Seq(S))
<1>1. CASE list = <<>>
  BY <1>1 DEF Pages
<1>2. CASE list # <<>>
  <2> DEFINE l == Len(list)
             size == kBuildingManifestPageRecords
             n == (l + size - 1) \div size
  <2>1. l \in Nat \ {0} /\ size \in Nat \ {0}
    BY <1>2, EmptySeq, LenProperties, PageAssumption
  <2> HIDE DEF l, size
  <2>2. n \in Nat \ {0} /\ \A k \in 1 .. n : size * (k - 1) \in Nat /\ size * k \in Nat
    BY <2>1, NumberOfRuns
  <2>3. ASSUME NEW k \in 1 .. n
        PROVE  Run(list, size, k) \in Seq(S)
    <3> DEFINE a == size * (k - 1) + 1
               b == IF size * k < l THEN size * k ELSE l
    <3>1. a \in Nat /\ b \in Nat /\ 1 <= a /\ b <= l
      BY <2>1, <2>2
    <3>2. Run(list, size, k) = SubSeq(list, a, b)
      BY DEF Run, l
    <3> HIDE DEF a, b
    <3>3. \A i \in a .. b : list[i] \in S
      BY <3>1, ElementOfSeq DEF l
    <3> QED BY <3>1, <3>2, <3>3, SubSeqProperties
  <2>4. Pages(list) = [k \in 1 .. n |-> Run(list, size, k)]
    BY <1>2 DEF Pages, Runs, l, size
  <2> HIDE DEF n
  <2> QED BY <2>2, <2>3, <2>4
<1> QED BY <1>1, <1>2

-----------------------------------------------------------------------------
(* The invariant of the transfer *)

(* What a frame says.                                                       *)
LEMMA TrueFrame ==
    ASSUME HistoryIsKept, NEW f \in TrueFrames
    PROVE  /\ f.revision \in 1 .. revision
           /\ f.type = "page" =>
                LET list == Pages(history[f.revision])
                IN  /\ f.index \in 0 .. Len(list) - 1
                    /\ f.count = Len(list)
                    /\ f.records = list[f.index + 1]
<1>1. CASE f \in [type : {"digest"}, revision : 1 .. revision]
  BY <1>1
<1>2. ASSUME NEW r \in 1 .. revision, f \in PagesOf(r)
      PROVE  /\ f.revision \in 1 .. revision
             /\ LET list == Pages(history[f.revision])
                IN  /\ f.index \in 0 .. Len(list) - 1
                    /\ f.count = Len(list)
                    /\ f.records = list[f.index + 1]
  <2> DEFINE list == Pages(history[r])
  <2>1. Len(list) \in Nat
    <3>1. history[r] \in Seq(Entry)
      BY ElementOfSeq DEF HistoryIsKept
    <3> QED BY <3>1, FlattenPages
  <2>2. PICK k \in 1 .. Len(list) :
           f = [ type |-> "page", revision |-> r, index |-> k - 1, count |-> Len(list),
                 records |-> list[k] ]
    BY <1>2 DEF PagesOf
  <2>3. f.revision = r /\ f.index = k - 1 /\ f.count = Len(list) /\ f.records = list[k]
    BY <2>2
  <2>4. k - 1 \in 0 .. Len(list) - 1 /\ (k - 1) + 1 = k
    BY <2>1
  <2> HIDE DEF list
  <2>5. Pages(history[f.revision]) = list
    BY <2>3 DEF list
  <2> QED BY <2>3, <2>4, <2>5
<1>3. f \in [type : {"digest"}, revision : 1 .. revision] \/ \E r \in 1 .. revision : f \in PagesOf(r)
  BY DEF TrueFrames
<1> QED BY <1>1, <1>2, <1>3

(* What the Guardian sends of the registry as it is.                        *)
LEMMA DigestIsTrue ==
    ASSUME HistoryIsKept
    PROVE  <<Digest>> \in Seq(TrueFrames)
BY DEF HistoryIsKept, Digest, TrueFrames

LEMMA ManifestPagesAreTrue ==
    ASSUME HistoryIsKept
    PROVE  ManifestPages \in Seq(TrueFrames)
<1> DEFINE list == Pages(Listed(records))
           frame(k) == [ type |-> "page", revision |-> revision, index |-> k - 1,
                         count |-> Len(list), records |-> list[k] ]
<1>1. Listed(records) = history[revision] /\ revision \in 1 .. revision
  BY DEF HistoryIsKept
<1>2. Len(list) \in Nat
  BY ListedTyped, FlattenPages DEF HistoryIsKept
<1>3. \A k \in 1 .. Len(list) : frame(k) \in PagesOf(revision)
  BY <1>1 DEF PagesOf
<1>4. \A k \in 1 .. Len(list) : frame(k) \in TrueFrames
  <2> HIDE DEF list, frame
  <2> QED BY <1>1, <1>3 DEF TrueFrames
<1>5. ManifestPages = [k \in 1 .. Len(list) |-> frame(k)]
  BY DEF ManifestPages
<1> HIDE DEF list, frame
<1> QED BY <1>2, <1>4, <1>5

LEMMA InitImpliesTransferInv == TransferInit => TransferInv
<1> SUFFICES ASSUME TransferInit
             PROVE  TransferInv
  OBVIOUS
<1> USE DEF TransferInit
<1>1. records \in [Foundation -> Nat]
  OBVIOUS
<1>2. Listed(records) \in Seq(Entry)
  BY <1>1, ListedTyped
<1>3. HistoryIsKept
  BY <1>1, <1>2 DEF HistoryIsKept
<1>4. FramesAreTrue
  BY DEF FramesAreTrue
<1>5. PagesAreTrue /\ HeldIsTrue
  BY DEF PagesAreTrue, HeldIsTrue, NoPages
<1> QED BY <1>3, <1>4, <1>5 DEF TransferInv

-----------------------------------------------------------------------------
(* A change adds a revision and leaves those before it alone.               *)
LEMMA HistoryOnlyGrows ==
    ASSUME HistoryIsKept, [TransferNext]_transferVars
    PROVE  /\ HistoryIsKept'
           /\ revision <= revision'
           /\ \A r \in 1 .. revision : history'[r] = history[r]
<1>1. ASSUME NEW i \in Foundation, NEW slot \in {0, revision + 1}, Change(i, slot)
      PROVE  /\ HistoryIsKept'
             /\ revision <= revision'
             /\ \A r \in 1 .. revision : history'[r] = history[r]
  <2>1. revision' = revision + 1 /\ records' \in [Foundation -> Nat]
    BY <1>1 DEF Change, HistoryIsKept
  <2>2. Listed(records') \in Seq(Entry)
    BY <2>1, ListedTyped
  <2>3. history' = Append(history, Listed(records'))
    BY <1>1 DEF Change
  <2> DEFINE new == Listed(records')
  <2> HIDE DEF new
  <2>4. /\ history' \in Seq(Seq(Entry))
        /\ Len(history') = revision + 1
        /\ \A r \in 1 .. revision : history'[r] = history[r]
        /\ history'[revision + 1] = new
    <3>1. new \in Seq(Entry) /\ history' = Append(history, new)
      BY <2>2, <2>3 DEF new
    <3> QED BY <3>1, AppendProperties DEF HistoryIsKept
  <2> QED BY <2>1, <2>4 DEF HistoryIsKept, new
<1>2. CASE UNCHANGED registry
  BY <1>2 DEF registry, HistoryIsKept
<1>3. (\E i \in Foundation, slot \in {0, revision + 1} : Change(i, slot)) \/ UNCHANGED registry
  BY DEF TransferNext, transferVars, Connect, Loop, HandleRequest, SendDropped, SendBuffered,
         End, Drain, Break, Ask, Hear
<1> QED BY <1>1, <1>2, <1>3

(* What was true of a revision remains true of it.                          *)
LEMMA TrueFramesGrow ==
    ASSUME HistoryIsKept, [TransferNext]_transferVars
    PROVE  TrueFrames \subseteq TrueFrames'
<1>1. /\ revision \in Nat /\ revision' \in Nat /\ revision <= revision'
      /\ \A r \in 1 .. revision : history'[r] = history[r]
  BY HistoryOnlyGrows DEF HistoryIsKept
<1>2. \A r \in 1 .. revision : PagesOf(r)' = PagesOf(r)
  BY <1>1 DEF PagesOf
<1>3. 1 .. revision \subseteq 1 .. revision'
  BY <1>1
<1> QED BY <1>2, <1>3 DEF TrueFrames

LEMMA TakeSplits ==
    ASSUME NEW T, NEW frames \in Seq(T), kernel \in Seq(T),
           NEW n \in 0 .. Len(frames), Take(n, frames)
    PROVE  kernel' \in Seq(T) /\ buffer' \in Seq(T)
<1>1. Len(frames) \in Nat
  BY LenProperties
<1>2. SubSeq(frames, 1, n) \in Seq(T)
  <2>1. \A i \in 1 .. n : frames[i] \in T
    BY <1>1, ElementOfSeq
  <2> QED BY <1>1, <2>1, SubSeqProperties
<1>3. SubSeq(frames, n + 1, Len(frames)) \in Seq(T)
  <2>1. \A i \in n + 1 .. Len(frames) : frames[i] \in T
    BY <1>1, ElementOfSeq
  <2> QED BY <1>1, <2>1, SubSeqProperties
<1> QED BY <1>2, <1>3, ConcatProperties DEF Take

(* Whatever is dropped, taken or lost: what arrives was sent.               *)
LEMMA FramesStayTrue ==
    ASSUME TransferInv, [TransferNext]_transferVars
    PROVE  FramesAreTrue'
<1> DEFINE T == TrueFrames
<1>1. HistoryIsKept /\ HistoryIsKept'
  BY HistoryOnlyGrows DEF TransferInv
<1>2. outbox \in Seq(T) /\ buffer \in Seq(T) /\ kernel \in Seq(T)
  BY DEF TransferInv, FramesAreTrue
<1>3. ASSUME outbox' \in Seq(T), buffer' \in Seq(T), kernel' \in Seq(T)
      PROVE  FramesAreTrue'
  BY <1>1, <1>3, TrueFramesGrow, SeqMonotonic DEF FramesAreTrue
<1>4. ASSUME NEW i \in Foundation, NEW slot \in {0, revision + 1}, Change(i, slot)
      PROVE  FramesAreTrue'
  <2>1. outbox' = <<>> \/ outbox' = <<Digest'>>
    BY <1>4 DEF Change
  <2>2. <<Digest'>> \in Seq(TrueFrames')
    BY <1>1 DEF HistoryIsKept, Digest, TrueFrames
  <2>3. outbox' \in Seq(TrueFrames')
    BY <2>1, <2>2, EmptySeq
  <2>4. buffer' = buffer /\ kernel' = kernel
    BY <1>4 DEF Change, link
  <2> QED BY <1>1, <1>2, <2>3, <2>4, TrueFramesGrow, SeqMonotonic DEF FramesAreTrue
<1>5. CASE Connect
  <2>1. <<Digest>> \in Seq(T)
    BY <1>1, DigestIsTrue
  <2> HIDE DEF T
  <2>2. outbox' \in Seq(T) /\ buffer' \in Seq(T) /\ kernel' \in Seq(T)
    BY <1>2, <1>5, <2>1 DEF Connect
  <2> QED BY <1>3, <2>2
<1>6. CASE HandleRequest
  <2>1. Answer \in Seq(T)
    BY <1>1, DigestIsTrue, ManifestPagesAreTrue DEF Answer
  <2> HIDE DEF T
  <2>2. outbox' \in Seq(T) /\ buffer' \in Seq(T) /\ kernel' \in Seq(T)
    BY <1>2, <1>6, <2>1 DEF HandleRequest, link
  <2> QED BY <1>3, <2>2
<1>7. CASE SendDropped
  <2> HIDE DEF T
  <2>1. outbox' \in Seq(T) /\ buffer' \in Seq(T) /\ kernel' \in Seq(T)
    BY <1>2, <1>7, HeadTailProperties DEF SendDropped, link
  <2> QED BY <1>3, <2>1
<1>8. CASE SendBuffered
  <2> HIDE DEF T
  <2>1. Head(outbox) \in T /\ Tail(outbox) \in Seq(T)
    BY <1>2, <1>8, HeadTailProperties DEF SendBuffered
  <2> DEFINE all == Append(buffer, Head(outbox))
  <2>2. all \in Seq(T) /\ Len(all) = Len(buffer) + 1
    BY <1>2, <2>1, AppendProperties
  <2>3. PICK n \in 0 .. Len(buffer) + 1 : Take(n, all)
    BY <1>8 DEF SendBuffered
  <2>4. outbox' = Tail(outbox)
    BY <1>8 DEF SendBuffered
  <2> HIDE DEF all
  <2>5. kernel' \in Seq(T) /\ buffer' \in Seq(T)
    BY <1>2, <2>2, <2>3, TakeSplits
  <2> QED BY <1>3, <2>1, <2>4, <2>5
<1>9. CASE Drain
  <2> HIDE DEF T
  <2>1. PICK n \in 1 .. Len(buffer) : Take(n, buffer)
    BY <1>9 DEF Drain
  <2>2. n \in 0 .. Len(buffer)
    OBVIOUS
  <2>3. kernel' \in Seq(T) /\ buffer' \in Seq(T)
    BY <1>2, <2>1, <2>2, TakeSplits
  <2>4. outbox' = outbox
    BY <1>9 DEF Drain
  <2> QED BY <1>2, <1>3, <2>3, <2>4
<1>10. CASE Hear
  <2> HIDE DEF T
  <2>1. outbox' \in Seq(T) /\ buffer' \in Seq(T) /\ kernel' \in Seq(T)
    BY <1>2, <1>10, HeadTailProperties DEF Hear
  <2> QED BY <1>3, <2>1
<1>11. CASE End \/ Break \/ Ask \/ UNCHANGED transferVars
  <2> HIDE DEF T
  <2>1. outbox' = outbox
    BY <1>11 DEF End, Break, Ask, transferVars
  <2>2. buffer' \in {buffer, <<>>} /\ kernel' \in {kernel, <<>>}
    BY <1>11 DEF End, Break, Ask, transferVars, link
  <2> QED BY <1>2, <1>3, <2>1, <2>2, EmptySeq
<1> QED BY <1>4, <1>5, <1>6, <1>7, <1>8, <1>9, <1>10, <1>11 DEF TransferNext, Loop

(* What the client has put together, or is about to, is of one revision.    *)
LEMMA PageFits ==
    ASSUME HistoryIsKept, PagesAreTrue, HeldIsTrue, NEW f \in TrueFrames, HearPage(f),
           UNCHANGED registry
    PROVE  PagesAreTrue' /\ HeldIsTrue'
<1> DEFINE list == Pages(history[f.revision])
           before == IF pages.revision = f.revision THEN pages.got ELSE <<>>
           after == [k \in DOMAIN before \cup {f.index} |->
                        IF k = f.index THEN f.records ELSE before[k]]
           complete == DOMAIN after = 0 .. f.count - 1
<1>1. history[f.revision] \in Seq(Entry) /\ f.revision \in 1 .. revision /\ f.revision # 0
  <2>1. f.revision \in 1 .. revision
    BY TrueFrame
  <2> QED BY <2>1, ElementOfSeq DEF HistoryIsKept
<1>2. Len(list) \in Nat \ {0} /\ FlattenSeq(list) = history[f.revision]
  BY <1>1, FlattenPages
<1>3. f.index \in 0 .. Len(list) - 1 /\ f.count = Len(list) /\ f.records = list[f.index + 1]
  <2>1. f.type = "page"
    BY DEF HearPage
  <2> QED BY <2>1, TrueFrame
<1>4. list = [k \in 1 .. Len(list) |-> list[k]]
  <2>1. list \in Seq(Seq(Entry))
    BY <1>1, PagesTyped
  <2> HIDE DEF list
  <2> QED BY <2>1
<1>5. revision' = revision /\ history' = history
  BY DEF registry
<1>6. /\ DOMAIN before \subseteq 0 .. Len(list) - 1
      /\ \A k \in DOMAIN before : before[k] = list[k + 1]
  <2>1. CASE pages.revision = f.revision
    BY <1>1, <2>1 DEF PagesAreTrue
  <2>2. CASE pages.revision # f.revision
    BY <2>2
  <2> QED BY <2>1, <2>2
<1> HIDE DEF list, before
<1>7. /\ DOMAIN after \subseteq 0 .. Len(list) - 1
      /\ \A k \in DOMAIN after : after[k] = list[k + 1]
  BY <1>3, <1>6
<1>8. IF complete
      THEN /\ held' = [ revision |-> f.revision,
                        records  |-> FlattenSeq([k \in 1 .. f.count |-> after[k - 1]]) ]
           /\ pages' = NoPages
      ELSE /\ held' = held
           /\ pages' = [revision |-> f.revision, count |-> f.count, got |-> after]
  BY DEF HearPage, before
<1> HIDE DEF after
<1>9. CASE complete
  <2>1. DOMAIN after = 0 .. Len(list) - 1
    BY <1>3, <1>9
  <2>2. \A k \in 1 .. Len(list) : after[k - 1] = list[k]
    <3>1. \A k \in 1 .. Len(list) : k - 1 \in DOMAIN after /\ (k - 1) + 1 = k
      BY <1>2, <2>1
    <3> QED BY <1>7, <3>1
  <2>3. [k \in 1 .. f.count |-> after[k - 1]] = list
    BY <1>3, <1>4, <2>2
  <2>4. held'.revision = f.revision /\ held'.records = FlattenSeq(list)
    <3> DEFINE parts == [k \in 1 .. f.count |-> after[k - 1]]
    <3>1. held' = [revision |-> f.revision, records |-> FlattenSeq(parts)]
      BY <1>8, <1>9
    <3>2. parts = list
      BY <2>3
    <3> HIDE DEF parts
    <3> QED BY <3>1, <3>2
  <2>5. pages'.revision = 0
    BY <1>8, <1>9 DEF NoPages
  <2>6. PagesAreTrue'
    BY <2>5 DEF PagesAreTrue
  <2>7. HeldIsTrue'
    BY <1>1, <1>2, <1>5, <2>4 DEF HeldIsTrue
  <2> QED BY <2>6, <2>7
<1>10. CASE ~complete
  <2>1. /\ held' = held
        /\ pages'.revision = f.revision /\ pages'.got = after
    BY <1>8, <1>10
  <2>2. Pages(history'[pages'.revision]) = list
    BY <1>5, <2>1 DEF list
  <2>3. PagesAreTrue'
    BY <1>1, <1>5, <1>7, <2>1, <2>2 DEF PagesAreTrue
  <2>4. HeldIsTrue'
    BY <1>5, <2>1 DEF HeldIsTrue
  <2> QED BY <2>3, <2>4
<1> QED BY <1>9, <1>10

LEMMA ClientStaysTrue ==
    ASSUME TransferInv, [TransferNext]_transferVars
    PROVE  PagesAreTrue' /\ HeldIsTrue'
<1>1. HistoryIsKept /\ PagesAreTrue /\ HeldIsTrue
  BY DEF TransferInv
<1>2. CASE Hear
  <2>1. kernel \in Seq(TrueFrames) /\ kernel # <<>>
    BY <1>2 DEF Hear, TransferInv, FramesAreTrue
  <2> DEFINE f == Head(kernel)
  <2>2. f \in TrueFrames
    BY <2>1, HeadTailProperties
  <2>3. UNCHANGED registry
    BY <1>2 DEF Hear
  <2>4. CASE HearPage(f)
    <3> HIDE DEF f
    <3> QED BY <1>1, <2>2, <2>3, <2>4, PageFits
  <2>5. CASE HearDigest(f)
    <3>1. UNCHANGED <<held, pages, revision, history>>
      BY <2>3, <2>5 DEF HearDigest, registry
    <3> QED BY <1>1, <3>1 DEF PagesAreTrue, HeldIsTrue
  <2> QED BY <1>2, <2>4, <2>5 DEF Hear
<1>3. CASE ~Hear
  <2>1. held' = held /\ (pages' = pages \/ pages'.revision = 0)
    BY <1>3 DEF TransferNext, transferVars, Change, Connect, Loop, HandleRequest, SendDropped,
       SendBuffered, End, Drain, Break, Ask, client, NoPages
  <2>2. /\ revision \in Nat /\ revision' \in Nat /\ revision <= revision'
        /\ \A r \in 1 .. revision : history'[r] = history[r]
    BY <1>1, HistoryOnlyGrows DEF HistoryIsKept
  <2>3. HeldIsTrue'
    BY <1>1, <2>1, <2>2 DEF HeldIsTrue
  <2>4. PagesAreTrue'
    <3>1. CASE pages'.revision = 0
      BY <3>1 DEF PagesAreTrue
    <3>2. CASE pages' = pages /\ pages.revision # 0
      BY <1>1, <2>2, <3>2 DEF PagesAreTrue
    <3> QED BY <2>1, <3>1, <3>2
  <2> QED BY <2>3, <2>4
<1> QED BY <1>2, <1>3

LEMMA AlwaysTransferInv == TransferSpec => []TransferInv
<1>1. TransferInv /\ [TransferNext]_transferVars => TransferInv'
  <2> SUFFICES ASSUME TransferInv, [TransferNext]_transferVars
               PROVE  TransferInv'
    OBVIOUS
  <2>1. HistoryIsKept'
    BY HistoryOnlyGrows DEF TransferInv
  <2> QED BY <2>1, FramesStayTrue, ClientStaysTrue DEF TransferInv
<1> QED BY <1>1, InitImpliesTransferInv, PTL DEF TransferSpec

-----------------------------------------------------------------------------
(* Numbers and their bytes *)

LEMMA BaseIsEven == Base \in Nat /\ Base > 4 /\ Base % 2 = 0
BY LimitsAssumption

Powers(f, k) == f[0] = 1 /\ \A i \in 1 .. k : f[i] = Base * f[i - 1]

LEMMA PowersExist ==
    ASSUME NEW k \in Nat
    PROVE  \E f \in [0 .. k -> Nat \ {0}] : Powers(f, k)
<1> DEFINE S == Nat \ {0}
           step == [x \in S \X (1 .. k) |-> Base * x[1]]
<1>1. 1 \in S /\ \A s \in S : Base * s \in S
  BY BaseIsEven
<1> HIDE DEF S
<1>2. step \in [S \X (1 .. k) -> S]
  BY <1>1
<1>3. \A s \in S, i \in 1 .. k : step[<<s, i>>] = Base * s
  OBVIOUS
<1> HIDE DEF step
<1>4. PICK f \in [0 .. k -> S] : Iterates(f, k, 1, step)
  BY <1>1, <1>2, RecursiveFunction
<1>5. \A i \in 1 .. k : f[i - 1] \in S
  OBVIOUS
<1>6. Powers(f, k)
  BY <1>3, <1>4, <1>5 DEF Iterates, Powers
<1> QED BY <1>6 DEF S

LEMMA PowersAgree ==
    ASSUME NEW k \in Nat, NEW f, Powers(f, k), NEW g, Powers(g, k)
    PROVE  f[k] = g[k]
<1>1. f[0] = g[0] /\ \A i \in 1 .. k : f[i - 1] = g[i - 1] => f[i] = g[i]
  BY DEF Powers
<1> QED BY <1>1, Agree

LEMMA WeightIsPower ==
    ASSUME NEW k \in Nat, NEW f, Powers(f, k)
    PROVE  Weight(k) = f[k]
<1> DEFINE weight[i \in 0 .. k] == IF i = 0 THEN 1 ELSE Base * weight[i - 1]
           g == [i \in 0 .. k |-> f[i]]
<1>1. Weight(k) = weight[k]
  BY DEF Weight
<1>2. g = [i \in 0 .. k |-> IF i = 0 THEN 1 ELSE Base * g[i - 1]]
  <2>1. ASSUME NEW i \in 0 .. k
        PROVE  f[i] = IF i = 0 THEN 1 ELSE Base * g[i - 1]
    <3>1. i # 0 => i \in 1 .. k /\ i - 1 \in 0 .. k
      OBVIOUS
    <3> QED BY <3>1 DEF Powers
  <2> QED BY <2>1
<1>3. weight = [i \in 0 .. k |-> IF i = 0 THEN 1 ELSE Base * weight[i - 1]]
  <2> HIDE DEF g
  <2> QED BY <1>2, Zenon
<1> HIDE DEF weight
<1>4. Powers(weight, k)
  <2>1. 0 \in 0 .. k /\ \A i \in 1 .. k : i # 0 /\ i \in 0 .. k
    OBVIOUS
  <2> QED BY <1>3, <2>1 DEF Powers
<1> QED BY <1>1, <1>4, PowersAgree

LEMMA Weights ==
    /\ Weight(0) = 1
    /\ \A k \in Nat : Weight(k) \in Nat \ {0} /\ Weight(k + 1) = Base * Weight(k)
<1>1. Weight(0) = 1
  <2>1. PICK f \in [0 .. 0 -> Nat \ {0}] : Powers(f, 0)
    BY PowersExist
  <2> QED BY <2>1, WeightIsPower DEF Powers
<1>2. ASSUME NEW k \in Nat
      PROVE  Weight(k) \in Nat \ {0} /\ Weight(k + 1) = Base * Weight(k)
  <2>1. PICK f \in [0 .. k + 1 -> Nat \ {0}] : Powers(f, k + 1)
    <3>1. k + 1 \in Nat
      OBVIOUS
    <3> QED BY <3>1, PowersExist, Zenon
  <2>2. Powers(f, k)
    BY <2>1 DEF Powers
  <2>3. k + 1 \in 1 .. k + 1 /\ (k + 1) - 1 = k /\ k \in 0 .. k + 1
    OBVIOUS
  <2>4. f[k + 1] = Base * f[k]
    BY <2>1, <2>3 DEF Powers
  <2>5. Weight(k) = f[k] /\ Weight(k + 1) = f[k + 1]
    BY <2>1, <2>2, WeightIsPower
  <2> QED BY <2>3, <2>4, <2>5
<1> QED BY <1>1, <1>2

(* Sums of weighted bytes.                                                  *)
Sums(g, n, bytes) ==
    g[0] = 0 /\ \A i \in 1 .. n : g[i] = g[i - 1] + bytes[i] * Weight(i - 1)

LEMMA NumberIsSum ==
    ASSUME NEW bytes \in Seq(Byte)
    PROVE  \E g \in [0 .. Len(bytes) -> Nat] : Sums(g, Len(bytes), bytes) /\ Number(bytes) = g[Len(bytes)]
<1> DEFINE n == Len(bytes)
           step == [x \in Nat \X (1 .. n) |-> x[1] + bytes[x[2]] * Weight(x[2] - 1)]
           sum[i \in 0 .. n] == IF i = 0 THEN 0 ELSE sum[i - 1] + bytes[i] * Weight(i - 1)
<1>1. n \in Nat /\ \A i \in 1 .. n : bytes[i] \in Nat
  BY LenProperties, ElementOfSeq, BaseIsEven DEF Byte
<1>2. Number(bytes) = sum[n]
  BY DEF Number
<1> HIDE DEF n
<1>3. \A x \in Nat, i \in 1 .. n : x + bytes[i] * Weight(i - 1) \in Nat
  <2>1. ASSUME NEW x \in Nat, NEW i \in 1 .. n
        PROVE  x + bytes[i] * Weight(i - 1) \in Nat
    <3>1. i - 1 \in Nat
      BY <1>1
    <3>2. Weight(i - 1) \in Nat /\ bytes[i] \in Nat
      BY <1>1, <3>1, Weights
    <3> QED BY <3>2
  <2> QED BY <2>1
<1>4. step \in [Nat \X (1 .. n) -> Nat]
  BY <1>3
<1>5. \A x \in Nat, i \in 1 .. n : step[<<x, i>>] = x + bytes[i] * Weight(i - 1)
  OBVIOUS
<1> HIDE DEF step
<1>6. PICK g \in [0 .. n -> Nat] : Iterates(g, n, 0, step)
  BY <1>1, <1>4, RecursiveFunction
<1>7. Sums(g, n, bytes)
  <2>1. g[0] = 0 /\ \A i \in 1 .. n : g[i] = step[<<g[i - 1], i>>]
    BY <1>6 DEF Iterates
  <2>2. \A i \in 1 .. n : g[i - 1] \in Nat
    BY <1>1
  <2> QED BY <1>5, <2>1, <2>2 DEF Sums
<1>8. g = [i \in 0 .. n |-> IF i = 0 THEN 0 ELSE g[i - 1] + bytes[i] * Weight(i - 1)]
  <2>1. ASSUME NEW i \in 0 .. n
        PROVE  g[i] = IF i = 0 THEN 0 ELSE g[i - 1] + bytes[i] * Weight(i - 1)
    <3>1. i # 0 => i \in 1 .. n
      BY <1>1
    <3> QED BY <1>7, <3>1 DEF Sums
  <2> QED BY <2>1
<1>9. sum = [i \in 0 .. n |-> IF i = 0 THEN 0 ELSE sum[i - 1] + bytes[i] * Weight(i - 1)]
  BY <1>8, Zenon
<1> HIDE DEF sum
<1>10. sum[0] = 0 /\ \A i \in 1 .. n : sum[i] = sum[i - 1] + bytes[i] * Weight(i - 1)
  <2>1. 0 \in 0 .. n /\ \A i \in 1 .. n : i # 0 /\ i \in 0 .. n
    BY <1>1
  <2> QED BY <1>9, <2>1
<1>11. sum[n] = g[n]
  <2>1. sum[0] = g[0]
    BY <1>7, <1>10 DEF Sums
  <2>2. \A i \in 1 .. n : sum[i - 1] = g[i - 1] => sum[i] = g[i]
    BY <1>7, <1>10 DEF Sums
  <2> QED BY <1>1, <2>1, <2>2, Agree
<1> QED BY <1>2, <1>7, <1>11 DEF n

(* A digit in the middle of a number.                                       *)
(* d is the digit of x that counts w, with r below it and q above. *)
IsDigit(x, w, r, d, q) ==
    /\ w \in Nat \ {0} /\ r \in 0 .. w - 1 /\ d \in Byte /\ q \in Int /\ x \in Int
    /\ x = r + w * (d + Base * q)

LEMMA MiddleDigit ==
    ASSUME NEW x, NEW w, NEW r, NEW d, NEW q, IsDigit(x, w, r, d, q)
    PROVE  (x \div w) % Base = d
<1>0. /\ w \in Nat \ {0} /\ r \in 0 .. w - 1 /\ d \in Byte /\ q \in Int /\ x \in Int
      /\ x = r + w * (d + Base * q)
  BY DEF IsDigit
<1>1. Base \in Nat \ {0} /\ d \in Int /\ 0 <= d /\ d < Base
  BY <1>0, BaseIsEven DEF Byte
<1> DEFINE h == d + Base * q
<1>2. h \in Int
  BY <1>0, <1>1
<1>3. h % Base = d
  BY <1>0, <1>1
<1> HIDE DEF h
<1>4. x = r + w * h
  BY <1>0 DEF h
<1>5. x \div w = h
  BY <1>0, <1>2, <1>4
<1> QED BY <1>3, <1>5

(* Up to byte j, what the first i bytes count and what the others do.       *)
Split(g, i, j) ==
    /\ \E q \in Nat : g[j] = g[i] + Weight(i) * q
    /\ \E c \in Nat : Weight(j) = Weight(i) * c

LEMMA SumsSplit ==
    ASSUME NEW n \in Nat, NEW g \in [0 .. n -> Nat], NEW bytes \in Seq(Byte), n = Len(bytes),
           Sums(g, n, bytes), NEW i \in 0 .. n
    PROVE  Split(g, i, n)
<1> DEFINE T == {k \in 0 .. n : i + k <= n => Split(g, i, i + k)}
<1>1. i \in Nat /\ Weight(i) \in Nat
  BY Weights
<1>2. 0 \in T
  <2>1. g[i + 0] = g[i] + Weight(i) * 0 /\ Weight(i + 0) = Weight(i) * 1
    BY <1>1
  <2>2. 0 \in Nat /\ 1 \in Nat /\ 0 \in 0 .. n
    OBVIOUS
  <2>3. Split(g, i, i + 0)
    BY <2>1, <2>2 DEF Split
  <2> QED BY <2>2, <2>3
<1>3. ASSUME NEW k \in 0 .. n - 1, k \in T
      PROVE  k + 1 \in T
  <2>1. k + 1 \in 0 .. n
    OBVIOUS
  <2>2. ASSUME i + (k + 1) <= n
        PROVE  Split(g, i, i + (k + 1))
    <3> DEFINE j == i + k
    <3>1. j \in Nat /\ j + 1 \in 1 .. n /\ (j + 1) - 1 = j /\ i + (k + 1) = j + 1
          /\ j \in 0 .. n /\ i + k <= n
      BY <2>2
    <3>2. Split(g, i, j)
      BY <1>3, <3>1
    <3> HIDE DEF j
    <3>3. PICK q \in Nat : g[j] = g[i] + Weight(i) * q
      BY <3>2 DEF Split
    <3>4. PICK c \in Nat : Weight(j) = Weight(i) * c
      BY <3>2 DEF Split
    <3>5. g[j + 1] = g[j] + bytes[j + 1] * Weight(j)
      BY <3>1 DEF Sums
    <3>6. Weight(j + 1) = Base * Weight(j)
      BY <3>1, Weights
    <3>7. bytes[j + 1] \in Nat /\ Base \in Nat /\ g[i] \in Nat
      <4>1. bytes[j + 1] \in Byte
        BY <3>1, ElementOfSeq
      <4> QED BY <4>1, BaseIsEven DEF Byte
    <3> DEFINE b == bytes[j + 1]
               q2 == q + b * c
               c2 == Base * c
    <3>8. q2 \in Nat /\ c2 \in Nat
      <4>1. b \in Nat /\ c \in Nat /\ q \in Nat /\ Base \in Nat
        BY <3>7
      <4> HIDE DEF b
      <4>2. b * c \in Nat /\ Base * c \in Nat
        BY <4>1
      <4> QED BY <4>1, <4>2
    <3>9. g[j + 1] = g[i] + Weight(i) * q2
      <4>1. g[j + 1] = (g[i] + Weight(i) * q) + b * (Weight(i) * c)
        BY <3>3, <3>4, <3>5
      <4>2. b \in Nat
        BY <3>7
      <4> HIDE DEF b
      <4>3. b * (Weight(i) * c) = Weight(i) * (b * c)
        BY <1>1, <4>2
      <4>4. Weight(i) * (q + b * c) = Weight(i) * q + Weight(i) * (b * c)
        BY <1>1, <4>2
      <4>5. Weight(i) * q \in Nat /\ Weight(i) * (b * c) \in Nat
        BY <1>1, <4>2
      <4> QED BY <3>7, <4>1, <4>3, <4>4, <4>5
    <3>10. Weight(j + 1) = Weight(i) * c2
      <4>1. Weight(j + 1) = Base * (Weight(i) * c)
        BY <3>4, <3>6
      <4> QED BY <1>1, <3>7, <4>1
    <3> HIDE DEF q2, c2
    <3>11. Split(g, i, j + 1)
      BY <3>8, <3>9, <3>10 DEF Split
    <3> QED BY <3>1, <3>11
  <2> QED BY <2>1, <2>2
<1>4. n - i \in T
  <2> HIDE DEF T
  <2>1. \A k \in 0 .. n - 1 : k \in T => k + 1 \in T
    BY <1>3
  <2>2. \A k \in 0 .. n : k \in T
    BY <1>2, <2>1, UpTo, Zenon
  <2>3. n - i \in 0 .. n
    OBVIOUS
  <2> QED BY <2>2, <2>3
<1>5. i + (n - i) = n
  OBVIOUS
<1>6. Split(g, i, i + (n - i))
  BY <1>4, <1>5
<1> QED BY <1>5, <1>6

(* The first bytes count less than the next one.                            *)
LEMMA SumsBounded ==
    ASSUME NEW n \in Nat, NEW g \in [0 .. n -> Nat], NEW bytes \in Seq(Byte), n = Len(bytes),
           Sums(g, n, bytes)
    PROVE  \A i \in 0 .. n : g[i] \in 0 .. Weight(i) - 1
<1> DEFINE T == {i \in 0 .. n : g[i] \in 0 .. Weight(i) - 1}
<1>1. 0 \in T
  <2>1. g[0] = 0 /\ Weight(0) = 1 /\ 0 \in 0 .. n
    BY Weights DEF Sums
  <2>2. g[0] \in 0 .. Weight(0) - 1
    BY <2>1
  <2> QED BY <2>1, <2>2
<1>2. ASSUME NEW i \in 0 .. n - 1, i \in T
      PROVE  i + 1 \in T
  <2>1. i \in Nat /\ i + 1 \in 1 .. n /\ (i + 1) - 1 = i /\ i \in 0 .. n /\ i + 1 \in 0 .. n
    OBVIOUS
  <2>2. g[i + 1] = g[i] + bytes[i + 1] * Weight(i)
    BY <2>1 DEF Sums
  <2>3. Weight(i + 1) = Base * Weight(i) /\ Weight(i) \in Nat \ {0}
    BY <2>1, Weights
  <2>4. bytes[i + 1] \in Nat /\ bytes[i + 1] <= Base - 1 /\ Base \in Nat
    <3>1. bytes[i + 1] \in Byte
      BY <2>1, ElementOfSeq
    <3> QED BY <3>1, BaseIsEven DEF Byte
  <2>5. g[i] \in Nat /\ g[i] < Weight(i)
    BY <1>2, <2>3
  <2> DEFINE b == bytes[i + 1]
             w == Weight(i)
  <2>6. b * w <= (Base - 1) * w /\ (Base - 1) * w = Base * w - w
    <3>1. b \in Nat /\ w \in Nat /\ b <= Base - 1 /\ Base \in Nat
      BY <2>3, <2>4
    <3> HIDE DEF b, w
    <3> QED BY <3>1
  <2>7. b * w \in Nat /\ Base * w \in Nat
    BY <2>3, <2>4
  <2>8. g[i + 1] < Base * w
    BY <2>2, <2>3, <2>5, <2>6, <2>7
  <2>9. g[i + 1] \in 0 .. Weight(i + 1) - 1
    BY <2>1, <2>3, <2>7, <2>8
  <2> QED BY <2>1, <2>9
<1> HIDE DEF T
<1>3. \A i \in 0 .. n - 1 : i \in T => i + 1 \in T
  BY <1>2
<1>4. \A i \in 0 .. n : i \in T
  BY <1>1, <1>3, UpTo, Zenon
<1> QED BY <1>4 DEF T

(* A number, around one of its bytes.                                       *)
LEMMA NumberAround ==
    ASSUME NEW bytes \in Seq(Byte), NEW i \in 1 .. Len(bytes)
    PROVE  /\ \E r \in 0 .. Weight(i - 1) - 1, q \in Nat :
                 Number(bytes) = r + Weight(i - 1) * (bytes[i] + Base * q)
           /\ \E c \in Nat : Weight(Len(bytes)) = Weight(i - 1) * (Base * c)
<1> DEFINE n == Len(bytes)
<1>1. n \in Nat /\ i \in 0 .. n /\ i - 1 \in 0 .. n /\ i - 1 \in Nat /\ i \in 1 .. n /\ (i - 1) + 1 = i
  BY LenProperties
<1>2. PICK g \in [0 .. n -> Nat] : Sums(g, n, bytes) /\ Number(bytes) = g[n]
  BY NumberIsSum
<1>3. Split(g, i, n)
  BY <1>1, <1>2, SumsSplit
<1>4. g[i - 1] \in 0 .. Weight(i - 1) - 1
  BY <1>1, <1>2, SumsBounded
<1> HIDE DEF n
<1>5. g[i] = g[i - 1] + bytes[i] * Weight(i - 1)
  BY <1>1, <1>2 DEF Sums
<1>6. Weight(i) = Base * Weight(i - 1) /\ Weight(i - 1) \in Nat
  BY <1>1, Weights
<1>7. bytes[i] \in Nat /\ Base \in Nat
  BY ElementOfSeq, BaseIsEven DEF Byte
<1>8. PICK q \in Nat : g[n] = g[i] + Weight(i) * q
  BY <1>3 DEF Split
<1>9. PICK c \in Nat : Weight(n) = Weight(i) * c
  BY <1>3 DEF Split
<1>10. Number(bytes) = g[i - 1] + Weight(i - 1) * (bytes[i] + Base * q)
  <2> DEFINE w == Weight(i - 1)
             b == bytes[i]
  <2>1. w \in Nat /\ b \in Nat /\ g[i - 1] \in Nat
    BY <1>4, <1>6, <1>7
  <2>2. Number(bytes) = (g[i - 1] + b * w) + (Base * w) * q
    BY <1>2, <1>5, <1>6, <1>8
  <2> HIDE DEF w, b
  <2>3. w * (b + Base * q) = b * w + (Base * w) * q
    BY <1>7, <2>1
  <2>4. b * w \in Nat /\ (Base * w) * q \in Nat
    BY <1>7, <2>1
  <2>5. Number(bytes) = g[i - 1] + w * (b + Base * q)
    BY <2>1, <2>2, <2>3, <2>4
  <2> QED BY <2>5 DEF w, b
<1>11. Weight(n) = Weight(i - 1) * (Base * c)
  <2>1. Weight(n) = (Base * Weight(i - 1)) * c
    BY <1>6, <1>9
  <2> QED BY <1>6, <1>7, <2>1
<1> QED BY <1>4, <1>10, <1>11 DEF n

LEMMA NumberTyped ==
    ASSUME NEW bytes \in Seq(Byte)
    PROVE  Number(bytes) \in 0 .. Weight(Len(bytes)) - 1
<1>1. Len(bytes) \in Nat
  BY LenProperties
<1>2. PICK g \in [0 .. Len(bytes) -> Nat] : Sums(g, Len(bytes), bytes) /\ Number(bytes) = g[Len(bytes)]
  BY NumberIsSum
<1>3. Len(bytes) \in 0 .. Len(bytes)
  BY <1>1
<1> QED BY <1>1, <1>2, <1>3, SumsBounded

(* Half of what the bytes of a signed number can count.                     *)
LEMMA Halves ==
    ASSUME NEW n \in Nat \ {0}
    PROVE  /\ Weight(n) \div 2 \in Nat \ {0}
           /\ Weight(n) = 2 * (Weight(n) \div 2)
<1>1. n - 1 \in Nat /\ (n - 1) + 1 = n
  OBVIOUS
<1>2. Weight(n) = Base * Weight(n - 1) /\ Weight(n - 1) \in Nat \ {0} /\ Weight(n) \in Nat \ {0}
  BY <1>1, Weights
<1> DEFINE h == Base \div 2
           w == Weight(n - 1)
<1>3. h \in Nat \ {0} /\ Base = 2 * h
  BY BaseIsEven
<1> HIDE DEF h
<1>4. Weight(n) = 2 * (h * w) /\ h * w \in Nat \ {0}
  <2>1. w \in Nat \ {0}
    BY <1>2
  <2>2. Weight(n) = (2 * h) * w
    BY <1>2, <1>3
  <2> HIDE DEF w
  <2> QED BY <1>3, <2>1, <2>2
<1> QED BY <1>4

(* The two values of a signed number.                                       *)
LEMMA SignedCases ==
    ASSUME NEW bytes \in Seq(Byte), Len(bytes) # 0
    PROVE  SignedNumber(bytes) \in {Number(bytes), Number(bytes) - Weight(Len(bytes))}
<1> DEFINE n == Len(bytes)
           half == Weight(n) \div 2
           x == Number(bytes)
<1>1. n \in Nat \ {0}
  BY LenProperties
<1>2. half \in Nat \ {0} /\ Weight(n) = 2 * half
  <2> HIDE DEF n
  <2> QED BY <1>1, Halves
<1>3. x \in 0 .. Weight(n) - 1
  BY NumberTyped
<1>4. SignedNumber(bytes) = ((x + half) % (2 * half)) - half
  BY DEF SignedNumber
<1> HIDE DEF n, half, x
<1>5. x \in Int /\ 0 <= x /\ x < 2 * half
  BY <1>2, <1>3
<1>6. CASE x < half
  <2>1. (x + half) % (2 * half) = x + half
    BY <1>2, <1>5, <1>6
  <2> QED BY <1>2, <1>4, <1>5, <2>1 DEF x, n
<1>7. CASE x >= half
  <2>1. (x + half) % (2 * half) = x - half
    <3>1. x - half \in Int /\ 0 <= x - half /\ x - half < 2 * half /\ 2 * half \in Nat \ {0}
      BY <1>2, <1>5, <1>7
    <3>2. x + half = (x - half) + (2 * half) * 1
      BY <1>2, <1>5
    <3> DEFINE m == 2 * half
               y == x - half
    <3>3. y \in Int /\ 0 <= y /\ y < m /\ m \in Nat \ {0} /\ x + half = y + m
      BY <3>1, <3>2
    <3> HIDE DEF m, y
    <3>4. (y + m) % m = y
      BY <3>3
    <3> QED BY <3>3, <3>4 DEF m, y
  <2>2. SignedNumber(bytes) = x - Weight(n)
    BY <1>2, <1>4, <1>5, <2>1
  <2> QED BY <2>2 DEF x, n
<1> QED BY <1>2, <1>5, <1>6, <1>7

(* Reading and writing again.                                               *)
LEMMA BytesOfNumber ==
    ASSUME NEW bytes \in Seq(Byte)
    PROVE  Bytes(Number(bytes), Len(bytes)) = bytes
<1>1. ASSUME NEW i \in 1 .. Len(bytes)
      PROVE  (Number(bytes) \div Weight(i - 1)) % Base = bytes[i]
  <2>1. PICK r \in 0 .. Weight(i - 1) - 1, q \in Nat :
             Number(bytes) = r + Weight(i - 1) * (bytes[i] + Base * q)
    BY NumberAround
  <2>2. Weight(i - 1) \in Nat \ {0} /\ bytes[i] \in Byte /\ Number(bytes) \in Int /\ q \in Int
    <3>1. Len(bytes) \in Nat
      BY LenProperties
    <3>2. i - 1 \in Nat
      BY <3>1
    <3>3. Weight(Len(bytes)) \in Nat
      BY <3>1, Weights
    <3>4. Weight(i - 1) \in Nat \ {0}
      BY <3>2, Weights
    <3>5. bytes[i] \in Byte
      BY ElementOfSeq
    <3>6. Number(bytes) \in Int
      BY <3>1, <3>3, NumberTyped
    <3> QED BY <3>4, <3>5, <3>6
  <2>3. IsDigit(Number(bytes), Weight(i - 1), r, bytes[i], q)
    BY <2>1, <2>2 DEF IsDigit
  <2> QED BY <2>3, MiddleDigit
<1>2. bytes = [i \in 1 .. Len(bytes) |-> bytes[i]]
  BY LenProperties
<1> QED BY <1>1, <1>2 DEF Bytes

LEMMA BytesOfSigned ==
    ASSUME NEW bytes \in Seq(Byte), Len(bytes) # 0
    PROVE  Bytes(SignedNumber(bytes), Len(bytes)) = bytes
<1>1. CASE SignedNumber(bytes) = Number(bytes)
  BY <1>1, BytesOfNumber
<1>2. CASE SignedNumber(bytes) = Number(bytes) - Weight(Len(bytes))
  <2> DEFINE x == Number(bytes) - Weight(Len(bytes))
  <2>1. ASSUME NEW i \in 1 .. Len(bytes)
        PROVE  (x \div Weight(i - 1)) % Base = bytes[i]
    <3>1. PICK r \in 0 .. Weight(i - 1) - 1, q \in Nat :
               Number(bytes) = r + Weight(i - 1) * (bytes[i] + Base * q)
      BY NumberAround
    <3>2. PICK c \in Nat : Weight(Len(bytes)) = Weight(i - 1) * (Base * c)
      BY NumberAround
    <3>3. Weight(i - 1) \in Nat \ {0} /\ bytes[i] \in Byte /\ x \in Int /\ q - c \in Int
      <4>1. Len(bytes) \in Nat
        BY LenProperties
      <4>2. i - 1 \in Nat
        BY <4>1
      <4>3. Weight(Len(bytes)) \in Nat
        BY <4>1, Weights
      <4>4. Weight(i - 1) \in Nat \ {0}
        BY <4>2, Weights
      <4>5. bytes[i] \in Byte
        BY ElementOfSeq
      <4>6. Number(bytes) \in Int
        BY <4>1, <4>3, NumberTyped
      <4> QED BY <4>3, <4>4, <4>5, <4>6
    <3>4. x = r + Weight(i - 1) * (bytes[i] + Base * (q - c))
      <4> DEFINE w == Weight(i - 1)
                 b == bytes[i]
      <4>1. w \in Nat /\ b \in Nat /\ Base \in Nat
        BY <3>3, BaseIsEven DEF Byte
      <4>2. x = (r + w * (b + Base * q)) - w * (Base * c)
        BY <3>1, <3>2
      <4> HIDE DEF w, b, x
      <4>3. w * (b + Base * (q - c)) = w * (b + Base * q) - w * (Base * c)
        BY <4>1
      <4>4. w * (b + Base * q) \in Int /\ w * (Base * c) \in Int /\ r \in Int
        <5>1. r \in Int
          OBVIOUS
        <5> QED BY <4>1, <5>1
      <4>5. x = r + w * (b + Base * (q - c))
        BY <4>2, <4>3, <4>4
      <4> QED BY <4>5 DEF w, b
    <3> DEFINE d == q - c
    <3>5. d \in Int /\ x = r + Weight(i - 1) * (bytes[i] + Base * d)
      BY <3>3, <3>4
    <3> HIDE DEF x, d
    <3>6. IsDigit(x, Weight(i - 1), r, bytes[i], d)
      BY <3>3, <3>5 DEF IsDigit
    <3> QED BY <3>6, MiddleDigit
  <2>2. bytes = [i \in 1 .. Len(bytes) |-> bytes[i]]
    BY LenProperties
  <2>3. Bytes(x, Len(bytes)) = bytes
    <3> HIDE DEF x
    <3> QED BY <2>1, <2>2 DEF Bytes
  <2> QED BY <1>2, <2>3
<1> QED BY <1>1, <1>2, SignedCases

-----------------------------------------------------------------------------
(* Fields that are read and written again *)

LEMMA SliceTyped ==
    ASSUME NEW S, NEW s \in Seq(S), NEW a \in Nat, NEW b \in Nat, a <= b, b <= Len(s)
    PROVE  /\ SubSeq(s, a + 1, b) \in Seq(S)
           /\ Len(SubSeq(s, a + 1, b)) = b - a
           /\ \A i \in 1 .. b - a : SubSeq(s, a + 1, b)[i] = s[a + i]
<1>1. Len(s) \in Nat
  BY LenProperties
<1>2. \A i \in a + 1 .. b : s[i] \in S
  BY <1>1, ElementOfSeq
<1>3. a + 1 \in Int /\ b \in Int /\ b - (a + 1) + 1 = b - a
  OBVIOUS
<1>4. /\ SubSeq(s, a + 1, b) \in Seq(S)
      /\ Len(SubSeq(s, a + 1, b)) = IF a + 1 <= b THEN b - (a + 1) + 1 ELSE 0
      /\ \A i \in 1 .. b - (a + 1) + 1 : SubSeq(s, a + 1, b)[i] = s[(a + 1) + i - 1]
  BY <1>2, <1>3, SubSeqProperties
<1>5. \A i \in 1 .. b - a : (a + 1) + i - 1 = a + i
  OBVIOUS
<1> QED BY <1>3, <1>4, <1>5

LEMMA FieldKinds == \A f \in Arrays : f \notin SignedFields
BY DEF Arrays, SignedFields

(* Any field of a decoder's table, in the bytes of its encoder.             *)
LEMMA FieldBack ==
    ASSUME NEW bytes \in Seq(Byte), Len(bytes) # 0, NEW f, f \notin Arrays
    PROVE  Bytes(Value(f, bytes), Len(bytes)) = bytes
<1>1. CASE f \in SignedFields
  <2>1. Value(f, bytes) = SignedNumber(bytes)
    BY <1>1 DEF Value
  <2> QED BY <2>1, BytesOfSigned
<1>2. CASE f \notin SignedFields
  <2>1. Value(f, bytes) = Number(bytes)
    BY <1>2 DEF Value
  <2> QED BY <2>1, BytesOfNumber
<1> QED BY <1>1, <1>2

(* What Put writes of a struct, one field after the other.                  *)
Written(struct, layout) ==
    [i \in 1 .. Len(layout) |-> PutField(struct, layout[i][1], layout[i][2])]

LEMMA PutSlices ==
    ASSUME NEW S, NEW bytes \in Seq(S), NEW struct, NEW layout, NEW n \in Nat \ {0}, Len(layout) = n,
           NEW cuts, Slices(Written(struct, layout), n, bytes, cuts)
    PROVE  Put(struct, layout) = SubSeq(bytes, cuts[0] + 1, cuts[n])
<1> DEFINE parts == Written(struct, layout)
<1>1. Len(parts) = n
  BY DEF Written
<1>2. Put(struct, layout) = FlattenSeq(parts)
  BY DEF Put, Written
<1> HIDE DEF parts
<1>3. Slices(parts, n, bytes, cuts)
  BY DEF parts
<1> QED BY <1>1, <1>2, <1>3, FlattenSlices

(* A layout and a table that say the same: the fields of the layout are     *)
(* where the table finds them, and as wide.                                 *)
Fit(f, width, table) ==
    /\ f \in DOMAIN table
    /\ table[f][1] \in Nat
    /\ table[f][2] \in Nat \ {0}
    /\ width = IF f \in Arrays THEN 0 ELSE table[f][2]

Agreeing(layout, table) ==
    /\ Len(layout) \in Nat \ {0}
    /\ \A i \in 1 .. Len(layout) : Fit(layout[i][1], layout[i][2], table)
    /\ \A i \in 2 .. Len(layout) :
          table[layout[i][1]][1] = table[layout[i - 1][1]][1] + table[layout[i - 1][1]][2]

Behind(layout, table, i) == table[layout[i][1]][1] + table[layout[i][1]][2]

(* What a decoder reads with a table, the encoder with the agreeing layout  *)
(* writes.                                                                  *)
LEMMA PutFields ==
    ASSUME NEW bytes \in Seq(Byte), NEW layout, NEW table, Agreeing(layout, table),
           NEW offset \in Nat, offset + table[layout[1][1]][1] >= 1,
           offset + Behind(layout, table, Len(layout)) - 1 <= Len(bytes),
           NEW struct,
           \A f \in DOMAIN table : struct[f] = Fields(bytes, offset, table)[f]
    PROVE  Put(struct, layout) =
               SubSeq(bytes, offset + table[layout[1][1]][1],
                      offset + Behind(layout, table, Len(layout)) - 1)
<1> DEFINE n == Len(layout)
           at(i) == table[layout[i][1]][1]
           wide(i) == table[layout[i][1]][2]
           cuts == [i \in 0 .. n |-> IF i = 0 THEN offset + at(1) - 1
                                     ELSE offset + at(i) + wide(i) - 1]
           parts == Written(struct, layout)
<1>1. /\ n \in Nat \ {0}
      /\ \A i \in 1 .. n : at(i) \in Nat /\ wide(i) \in Nat \ {0} /\ layout[i][1] \in DOMAIN table
      /\ \A i \in 2 .. n : at(i) = at(i - 1) + wide(i - 1)
  BY DEF Agreeing, Fit
<1>2. offset + at(1) >= 1 /\ offset + at(n) + wide(n) - 1 <= Len(bytes) /\ Len(bytes) \in Nat
  <2>1. offset + Behind(layout, table, n) - 1 <= Len(bytes) /\ Behind(layout, table, n) = at(n) + wide(n)
    BY DEF Behind
  <2>2. Len(bytes) \in Nat /\ n \in 1 .. n
    BY <1>1, LenProperties
  <2>3. at(n) \in Nat /\ wide(n) \in Nat
    BY <1>1, <2>2
  <2>4. offset + at(1) >= 1
    OBVIOUS
  <2> DEFINE l == Len(bytes)
             a == at(n)
             w == wide(n)
             b == Behind(layout, table, n)
  <2> HIDE DEF l, a, w, b
  <2>5. offset + b - 1 <= l /\ b = a + w /\ a \in Nat /\ w \in Nat /\ l \in Nat
    BY <2>1, <2>2, <2>3 DEF l, a, w, b
  <2>6. offset + a + w - 1 <= l
    BY <2>5
  <2>7. offset + at(n) + wide(n) - 1 <= Len(bytes)
    BY <2>6 DEF l, a, w
  <2> QED BY <2>2, <2>4, <2>7
<1>3. \A i \in 1 .. n : parts[i] = PutField(struct, layout[i][1], layout[i][2])
  BY DEF Written
<1>4. \A i \in 1 .. n : layout[i][2] = IF layout[i][1] \in Arrays THEN 0 ELSE wide(i)
  BY DEF Agreeing, Fit
<1>5. \A i \in 1 .. n : struct[layout[i][1]] =
          Value(layout[i][1], SubSeq(bytes, offset + at(i), offset + at(i) + wide(i) - 1))
  BY <1>1 DEF Fields
<1> HIDE DEF n, at, wide, parts
<1>6. \A i \in 1 .. n : cuts[i - 1] = offset + at(i) - 1 /\ cuts[i] = offset + at(i) + wide(i) - 1
  <2>1. ASSUME NEW i \in 1 .. n
        PROVE  cuts[i - 1] = offset + at(i) - 1 /\ cuts[i] = offset + at(i) + wide(i) - 1
    <3>1. i \in 0 .. n /\ i - 1 \in 0 .. n /\ i # 0
      BY <1>1
    <3>2. cuts[i] = offset + at(i) + wide(i) - 1
      BY <3>1
    <3>3. CASE i = 1
      BY <3>1, <3>2, <3>3
    <3>4. CASE i # 1
      <4>1. i \in 2 .. n /\ i - 1 # 0 /\ i - 1 \in 1 .. n
        BY <1>1, <3>4
      <4>2. cuts[i - 1] = offset + at(i - 1) + wide(i - 1) - 1
        BY <3>1, <4>1
      <4>3. at(i) = at(i - 1) + wide(i - 1) /\ at(i - 1) \in Nat /\ wide(i - 1) \in Nat
        BY <1>1, <4>1
      <4> QED BY <3>2, <4>2, <4>3
    <3> QED BY <3>3, <3>4
  <2> QED BY <2>1
<1>7. \A i \in 1 .. n : cuts[i] <= Len(bytes)
  <2> DEFINE D == {k \in 0 .. n - 1 : cuts[n - k] <= Len(bytes)}
  <2>1. 0 \in D
    <3>1. n \in 1 .. n /\ n - 0 = n /\ 0 \in 0 .. n - 1
      BY <1>1
    <3>2. cuts[n] <= Len(bytes)
      BY <1>2, <1>6, <3>1
    <3> QED BY <3>1, <3>2
  <2>2. ASSUME NEW k \in 0 .. (n - 1) - 1, k \in D
        PROVE  k + 1 \in D
    <3> DEFINE i == n - k
    <3>1. i \in 2 .. n /\ i \in 1 .. n /\ i - 1 \in 1 .. n /\ n - (k + 1) = i - 1 /\ k + 1 \in 0 .. n - 1
      <4>1. n \in Nat
        BY <1>1
      <4> HIDE DEF n, D
      <4> QED BY <4>1
    <3>2. cuts[i] <= Len(bytes)
      BY <2>2
    <3> HIDE DEF i
    <3>3. cuts[i - 1] = offset + at(i) - 1 /\ cuts[i] = offset + at(i) + wide(i) - 1
      BY <1>6, <3>1
    <3>4. at(i) \in Nat /\ wide(i) \in Nat
      BY <1>1, <3>1
    <3>5. cuts[i - 1] <= Len(bytes)
      BY <1>2, <3>2, <3>3, <3>4
    <3> QED BY <3>1, <3>5
  <2>3. \A k \in 0 .. n - 1 : k \in D
    <3>1. n - 1 \in Nat
      BY <1>1
    <3> HIDE DEF D
    <3>2. \A k \in 0 .. (n - 1) - 1 : k \in D => k + 1 \in D
      BY <2>2
    <3> QED BY <2>1, <3>1, <3>2, UpTo, Zenon
  <2>4. ASSUME NEW i \in 1 .. n
        PROVE  cuts[i] <= Len(bytes)
    <3>1. n - i \in 0 .. n - 1 /\ n - (n - i) = i
      BY <1>1
    <3>2. n - i \in D
      BY <2>3, <3>1
    <3> QED BY <3>1, <3>2
  <2> QED BY <2>4
<1>8. ASSUME NEW i \in 1 .. n
      PROVE  /\ cuts[i - 1] \in Nat /\ cuts[i] \in Nat
             /\ cuts[i - 1] <= cuts[i] /\ cuts[i] <= Len(bytes)
             /\ parts[i] = SubSeq(bytes, cuts[i - 1] + 1, cuts[i])
  <2> DEFINE a == cuts[i - 1]
             b == cuts[i]
             f == layout[i][1]
             slice == SubSeq(bytes, a + 1, b)
  <2>1. at(i) \in Nat /\ wide(i) \in Nat \ {0}
    BY <1>1
  <2>2. offset + at(i) >= 1
    <3>1. CASE i = 1
      BY <1>2, <3>1
    <3>2. CASE i # 1
      <4>1. i - 1 \in 1 .. n /\ i \in 2 .. n
        BY <1>1, <3>2
      <4>2. at(i) = at(i - 1) + wide(i - 1) /\ at(i - 1) \in Nat /\ wide(i - 1) \in Nat \ {0}
        BY <1>1, <4>1
      <4> QED BY <4>2
    <3> QED BY <3>1, <3>2
  <2>3. a = offset + at(i) - 1 /\ b = offset + at(i) + wide(i) - 1
    BY <1>6
  <2>4. a \in Nat /\ b \in Nat /\ a <= b /\ b <= Len(bytes) /\ b - a = wide(i)
        /\ a + 1 = offset + at(i)
    <3>1. b <= Len(bytes)
      BY <1>7
    <3> DEFINE p == at(i)
               q == wide(i)
    <3>2. /\ p \in Nat /\ q \in Nat \ {0} /\ offset + p >= 1
          /\ a = offset + p - 1 /\ b = offset + p + q - 1
      BY <2>1, <2>2, <2>3
    <3> HIDE DEF a, b, p, q
    <3>3. a \in Nat /\ b \in Nat /\ a <= b /\ b - a = q /\ a + 1 = offset + p
      BY <3>2
    <3> QED BY <3>1, <3>3 DEF p, q
  <2>5. struct[f] = Value(f, slice)
    <3>1. a + 1 = offset + at(i) /\ b = offset + at(i) + wide(i) - 1
      BY <2>3, <2>4
    <3>2. struct[f] = Value(f, SubSeq(bytes, offset + at(i), offset + at(i) + wide(i) - 1))
      BY <1>5
    <3> HIDE DEF a, b, f
    <3> QED BY <3>1, <3>2, Zenon
  <2> HIDE DEF a, b
  <2>6. slice \in Seq(Byte) /\ Len(slice) = wide(i)
    BY <2>4, SliceTyped
  <2> HIDE DEF slice
  <2>7. parts[i] = slice
    <3>1. CASE f \in Arrays
      <4>1. layout[i][2] = 0
        BY <1>4, <3>1
      <4>2. Value(f, slice) = slice
        <5> HIDE DEF f
        <5> QED BY <3>1, FieldKinds DEF Value
      <4> QED BY <1>3, <2>5, <3>1, <4>1, <4>2 DEF PutField
    <3>2. CASE f \notin Arrays
      <4>1. layout[i][2] = wide(i)
        BY <1>4, <3>2
      <4>2. Bytes(Value(f, slice), wide(i)) = slice
        BY <2>1, <2>6, <3>2, FieldBack
      <4> QED BY <1>3, <2>5, <3>2, <4>1, <4>2 DEF PutField
    <3> QED BY <3>1, <3>2
  <2> QED BY <2>4, <2>7 DEF a, b, slice
<1>9. Slices(parts, n, bytes, cuts)
  <2> HIDE DEF cuts
  <2> QED BY <1>8 DEF Slices
<1>10. cuts[0] + 1 = offset + at(1) /\ cuts[n] = offset + at(n) + wide(n) - 1
  <2>1. 1 \in 1 .. n /\ n \in 1 .. n /\ 1 - 1 = 0
    BY <1>1
  <2>2. cuts[0] = offset + at(1) - 1 /\ cuts[n] = offset + at(n) + wide(n) - 1
    BY <1>6, <2>1
  <2>3. at(1) \in Nat
    BY <1>1, <2>1
  <2> QED BY <2>2, <2>3
<1> HIDE DEF cuts
<1>11. Put(struct, layout) = SubSeq(bytes, cuts[0] + 1, cuts[n])
  BY <1>1, <1>9, PutSlices DEF n, parts
<1>12. Behind(layout, table, n) = at(n) + wide(n)
  BY DEF Behind, at, wide
<1>13. n \in 1 .. n /\ at(n) \in Nat /\ wide(n) \in Nat
  BY <1>1
<1>14. offset + (at(n) + wide(n)) - 1 = offset + at(n) + wide(n) - 1
  BY <1>13
<1> QED BY <1>10, <1>11, <1>12, <1>14 DEF n, at

Covers(layout, table) == \A f \in DOMAIN table : \E i \in 1 .. Len(layout) : layout[i][1] = f

(* A layout and a table of all of a frame of size bytes.                    *)
Filling(layout, table, offset, size) ==
    /\ Agreeing(layout, table) /\ Covers(layout, table)
    /\ offset \in Nat /\ offset + table[layout[1][1]][1] = 1
    /\ size = offset + Behind(layout, table, Len(layout)) - 1

(* A struct that a table has found in size bytes, and the bytes of it. *)
ReadBy(struct, bytes, offset, size, table) ==
    /\ Len(bytes) = size
    /\ \A f \in DOMAIN table : struct[f] = Fields(bytes, offset, table)[f]

WrittenBy(bytes, struct, layout) == Put(struct, layout) = bytes

LEMMA PutBack ==
    ASSUME NEW layout, NEW table, NEW offset, NEW size, Filling(layout, table, offset, size),
           NEW bytes \in Seq(Byte), NEW struct, ReadBy(struct, bytes, offset, size, table)
    PROVE  WrittenBy(bytes, struct, layout)
<1> DEFINE first == table[layout[1][1]][1]
           behind == Behind(layout, table, Len(layout))
<1>1. offset \in Nat /\ offset + first = 1 /\ offset + behind - 1 = Len(bytes) /\ Len(bytes) \in Nat
  BY LenProperties DEF Filling, ReadBy
<1>2. Put(struct, layout) = SubSeq(bytes, offset + first, offset + behind - 1)
  <2>1. offset + first >= 1 /\ offset + behind - 1 <= Len(bytes)
    <3> HIDE DEF first, behind
    <3> QED BY <1>1
  <2>2. Agreeing(layout, table) /\ \A f \in DOMAIN table : struct[f] = Fields(bytes, offset, table)[f]
    BY DEF Filling, ReadBy
  <2> QED BY <1>1, <2>1, <2>2, PutFields
<1> HIDE DEF first, behind
<1> QED BY <1>1, <1>2, SubSeqFull DEF WrittenBy

-----------------------------------------------------------------------------
(* The frames of each message *)

LEMMA FrameByType ==
    ASSUME NEW b
    PROVE  /\ ClientFrame(Message("HELLO", b)) = Frame("HELLO", Put(b, HelloLayout))
           /\ ClientFrame(Message("MOVE", b)) = Frame("MOVE", Put(b, MoveLayout))
           /\ ClientFrame(Message("DIG", b)) = Frame("DIG", Put(b, DigLayout))
           /\ ClientFrame(Message("DIG_BATCH", b)) =
                 Frame("DIG_BATCH", Counted(b.items, DigLayout))
           /\ ClientFrame(Message("CHAT", b)) = Frame("CHAT", Put(b, ChatLayout))
           /\ ClientFrame(Message("EQUIPMENT", b)) = Frame("EQUIPMENT", Put(b, EquipmentLayout))
           /\ ClientFrame(Message("PLAYER_IDENTITY", b)) =
                 Frame("PLAYER_IDENTITY", Put(b, IdentityLayout))
           /\ ClientFrame(Message("BUILDING_MANIFEST_REQUEST", b)) =
                 Frame("BUILDING_MANIFEST_REQUEST", Put(b, RequestLayout))
           /\ ClientFrame(Message("BUILDING_ANNOUNCE", b)) =
                 Frame("BUILDING_ANNOUNCE", Put(b, RecordLayout))
           /\ ClientFrame(Message("PONG", b)) = Frame("PONG", <<>>)
BY DEF ClientFrame, Message

(* A frame that is taken and a message whose frame it is.                   *)
Exact(f, m) == m.type # "error" => ClientFrame(m) = f

LEMMA InFrame ==
    ASSUME NEW type, NEW bytes \in Seq(Byte), NEW f, f = Frame(type, bytes)
    PROVE  f.type = type /\ f.bytes = bytes /\ Len(bytes) \in Nat /\ Size(f) = 1 + Len(bytes)
BY LenProperties DEF Frame, Size

LEMMA RefusedIsExact == \A f, m, e : m = Refused(e) => Exact(f, m)
BY DEF Exact, Refused

LEMMA BytesOfSize ==
    ASSUME NEW type, NEW bytes \in Seq(Byte), NEW f, f = Frame(type, bytes), NEW n \in Nat, Size(f) = n + 1
    PROVE  Len(bytes) = n
<1> DEFINE l == Len(bytes)
           s == Size(f)
<1>1. l \in Nat /\ s = 1 + l /\ s = n + 1
  BY InFrame
<1> HIDE DEF l, s
<1>2. l = n
  BY <1>1
<1> QED BY <1>2 DEF l

LEMMA Layouts ==
    /\ Filling(HelloLayout, HelloAt, 0, 51)
    /\ Filling(MoveLayout, MoveAt, 0, 12)
    /\ Filling(DigLayout, DigAt, 0, 10)
    /\ Filling(RequestLayout, RequestAt, 0, 8)
<1>1. Filling(HelloLayout, HelloAt, 0, 51)
  <2>1. Agreeing(HelloLayout, HelloAt)
    BY DEF Agreeing, Fit, HelloLayout, HelloAt, Arrays
  <2>2. Covers(HelloLayout, HelloAt)
    BY DEF Covers, HelloLayout, HelloAt
  <2>3. /\ HelloAt[HelloLayout[1][1]][1] = 1
        /\ Behind(HelloLayout, HelloAt, Len(HelloLayout)) = 52
    BY DEF Behind, HelloLayout, HelloAt
  <2>4. 0 \in Nat /\ 0 + 1 = 1 /\ 51 = 0 + 52 - 1
    OBVIOUS
  <2> QED BY <2>1, <2>2, <2>3, <2>4 DEF Filling
<1>2. Filling(MoveLayout, MoveAt, 0, 12)
  <2>1. Agreeing(MoveLayout, MoveAt)
    BY DEF Agreeing, Fit, MoveLayout, MoveAt, Arrays
  <2>2. Covers(MoveLayout, MoveAt)
    BY DEF Covers, MoveLayout, MoveAt
  <2>3. /\ MoveAt[MoveLayout[1][1]][1] = 1
        /\ Behind(MoveLayout, MoveAt, Len(MoveLayout)) = 13
    BY DEF Behind, MoveLayout, MoveAt
  <2>4. 0 \in Nat /\ 0 + 1 = 1 /\ 12 = 0 + 13 - 1
    OBVIOUS
  <2> QED BY <2>1, <2>2, <2>3, <2>4 DEF Filling
<1>3. Filling(DigLayout, DigAt, 0, 10)
  <2>1. Agreeing(DigLayout, DigAt)
    BY DEF Agreeing, Fit, DigLayout, DigAt, Arrays
  <2>2. Covers(DigLayout, DigAt)
    BY DEF Covers, DigLayout, DigAt
  <2>3. /\ DigAt[DigLayout[1][1]][1] = 1
        /\ Behind(DigLayout, DigAt, Len(DigLayout)) = 11
    BY DEF Behind, DigLayout, DigAt
  <2>4. 0 \in Nat /\ 0 + 1 = 1 /\ 10 = 0 + 11 - 1
    OBVIOUS
  <2> QED BY <2>1, <2>2, <2>3, <2>4 DEF Filling
<1>4. Filling(RequestLayout, RequestAt, 0, 8)
  <2>1. Agreeing(RequestLayout, RequestAt)
    BY DEF Agreeing, Fit, RequestLayout, RequestAt, Arrays
  <2>2. Covers(RequestLayout, RequestAt)
    BY DEF Covers, RequestLayout, RequestAt
  <2>3. /\ RequestAt[RequestLayout[1][1]][1] = 1
        /\ Behind(RequestLayout, RequestAt, Len(RequestLayout)) = 9
    BY DEF Behind, RequestLayout, RequestAt
  <2>4. 0 \in Nat /\ 0 + 1 = 1 /\ 8 = 0 + 9 - 1
    OBVIOUS
  <2> QED BY <2>1, <2>2, <2>3, <2>4 DEF Filling
<1> QED BY <1>1, <1>2, <1>3, <1>4

LEMMA HelloExact ==
    ASSUME NEW bytes \in Seq(Byte), NEW f, f = Frame("HELLO", bytes)
    PROVE  Exact(f, DecodeHello(f))
<1>1. f.bytes = bytes /\ Len(bytes) \in Nat /\ Size(f) = 1 + Len(bytes)
  BY InFrame
<1> DEFINE b == Fields(bytes, 0, HelloAt)
<1>2. CASE Size(f) = kHelloSize /\ f.bytes[1] = 1 /\ ~WalletIsEmpty(b.wallet_pubkey)
  <2>1. DecodeHello(f) = Message("HELLO", b)
    BY <1>1, <1>2 DEF DecodeHello
  <2>2. Len(bytes) = 51
    <3>1. Size(f) = 51 + 1 /\ 51 \in Nat
      BY <1>2 DEF kHelloSize
    <3> QED BY <3>1, BytesOfSize, Zenon
  <2>3. Filling(HelloLayout, HelloAt, 0, 51)
    BY Layouts
  <2>4. Put(b, HelloLayout) = bytes
    <3>1. ReadBy(b, bytes, 0, 51, HelloAt)
      BY <2>2 DEF ReadBy
    <3> HIDE DEF b
    <3>2. WrittenBy(bytes, b, HelloLayout)
      BY <2>3, <3>1, PutBack, Zenon
    <3> QED BY <3>2 DEF WrittenBy
  <2> HIDE DEF b
  <2> QED BY <2>1, <2>4, FrameByType DEF Exact
<1>3. CASE ~(Size(f) = kHelloSize /\ f.bytes[1] = 1 /\ ~WalletIsEmpty(b.wallet_pubkey))
  <2>1. DecodeHello(f) = Refused("BAD_PROTOCOL")
    BY <1>1, <1>3 DEF DecodeHello, BadLength
  <2> QED BY <2>1, RefusedIsExact
<1> QED BY <1>2, <1>3

LEMMA MoveExact ==
    ASSUME NEW bytes \in Seq(Byte), NEW f, f = Frame("MOVE", bytes)
    PROVE  Exact(f, DecodeMove(f))
<1>1. f.bytes = bytes /\ Len(bytes) \in Nat /\ Size(f) = 1 + Len(bytes)
  BY InFrame
<1>2. CASE Size(f) = kMoveSize
  <2> DEFINE b == Fields(bytes, 0, MoveAt)
  <2>1. DecodeMove(f) = Message("MOVE", b)
    BY <1>1, <1>2 DEF DecodeMove
  <2>2. Len(bytes) = 12
    <3>1. Size(f) = 12 + 1 /\ 12 \in Nat
      BY <1>2 DEF kMoveSize
    <3> QED BY <3>1, BytesOfSize, Zenon
  <2>3. Filling(MoveLayout, MoveAt, 0, 12)
    BY Layouts
  <2>4. Put(b, MoveLayout) = bytes
    <3>1. ReadBy(b, bytes, 0, 12, MoveAt)
      BY <2>2 DEF ReadBy
    <3> HIDE DEF b
    <3>2. WrittenBy(bytes, b, MoveLayout)
      BY <2>3, <3>1, PutBack, Zenon
    <3> QED BY <3>2 DEF WrittenBy
  <2> HIDE DEF b
  <2> QED BY <2>1, <2>4, FrameByType DEF Exact
<1>3. CASE ~(Size(f) = kMoveSize)
  <2>1. DecodeMove(f) = Refused("BAD_PAYLOAD_LENGTH")
    BY <1>3 DEF DecodeMove, BadLength
  <2> QED BY <2>1, RefusedIsExact
<1> QED BY <1>2, <1>3

LEMMA DigExact ==
    ASSUME NEW bytes \in Seq(Byte), NEW f, f = Frame("DIG", bytes)
    PROVE  Exact(f, DecodeDig(f))
<1>1. f.bytes = bytes /\ Len(bytes) \in Nat /\ Size(f) = 1 + Len(bytes)
  BY InFrame
<1>2. CASE Size(f) = kDigSize
  <2> DEFINE b == Fields(bytes, 0, DigAt)
  <2>1. DecodeDig(f) = Message("DIG", b)
    BY <1>1, <1>2 DEF DecodeDig
  <2>2. Len(bytes) = 10
    <3>1. Size(f) = 10 + 1 /\ 10 \in Nat
      BY <1>2 DEF kDigSize
    <3> QED BY <3>1, BytesOfSize, Zenon
  <2>3. Filling(DigLayout, DigAt, 0, 10)
    BY Layouts
  <2>4. Put(b, DigLayout) = bytes
    <3>1. ReadBy(b, bytes, 0, 10, DigAt)
      BY <2>2 DEF ReadBy
    <3> HIDE DEF b
    <3>2. WrittenBy(bytes, b, DigLayout)
      BY <2>3, <3>1, PutBack, Zenon
    <3> QED BY <3>2 DEF WrittenBy
  <2> HIDE DEF b
  <2> QED BY <2>1, <2>4, FrameByType DEF Exact
<1>3. CASE ~(Size(f) = kDigSize)
  <2>1. DecodeDig(f) = Refused("BAD_PAYLOAD_LENGTH")
    BY <1>3 DEF DecodeDig, BadLength
  <2> QED BY <2>1, RefusedIsExact
<1> QED BY <1>2, <1>3

LEMMA RequestExact ==
    ASSUME NEW bytes \in Seq(Byte), NEW f, f = Frame("BUILDING_MANIFEST_REQUEST", bytes)
    PROVE  Exact(f, DecodeRequest(f))
<1>1. f.bytes = bytes /\ Len(bytes) \in Nat /\ Size(f) = 1 + Len(bytes)
  BY InFrame
<1>2. CASE Size(f) = kBuildingManifestRequestSize
  <2> DEFINE b == Fields(bytes, 0, RequestAt)
  <2>1. DecodeRequest(f) = Message("BUILDING_MANIFEST_REQUEST", b)
    BY <1>1, <1>2 DEF DecodeRequest
  <2>2. Len(bytes) = 8
    <3>1. Size(f) = 8 + 1 /\ 8 \in Nat
      BY <1>2 DEF kBuildingManifestRequestSize
    <3> QED BY <3>1, BytesOfSize, Zenon
  <2>3. Filling(RequestLayout, RequestAt, 0, 8)
    BY Layouts
  <2>4. Put(b, RequestLayout) = bytes
    <3>1. ReadBy(b, bytes, 0, 8, RequestAt)
      BY <2>2 DEF ReadBy
    <3> HIDE DEF b
    <3>2. WrittenBy(bytes, b, RequestLayout)
      BY <2>3, <3>1, PutBack, Zenon
    <3> QED BY <3>2 DEF WrittenBy
  <2> HIDE DEF b
  <2> QED BY <2>1, <2>4, FrameByType DEF Exact
<1>3. CASE ~(Size(f) = kBuildingManifestRequestSize)
  <2>1. DecodeRequest(f) = Refused("BAD_PAYLOAD_LENGTH")
    BY <1>3 DEF DecodeRequest, BadLength
  <2> QED BY <2>1, RefusedIsExact
<1> QED BY <1>2, <1>3

(* What a decoder may have read in the slice that the encoder writes for a  *)
(* field: its value, all of its text, or the length of its text.            *)
Reads(struct, f, width, slice) ==
    \/ f \notin Arrays /\ struct[f] = Value(f, slice) /\ Len(slice) = width /\ width # 0
    \/ f \in Arrays /\ width = 0 /\ struct[f] = slice
    \/ f \in Arrays /\ width # 0 /\ Len(slice) = width /\ Len(struct[f]) = Number(slice)

LEMMA ReadsBack ==
    ASSUME NEW struct, NEW f, NEW width, NEW slice \in Seq(Byte), Reads(struct, f, width, slice)
    PROVE  PutField(struct, f, width) = slice
<1>1. CASE f \notin Arrays /\ struct[f] = Value(f, slice) /\ Len(slice) = width /\ width # 0
  BY <1>1, FieldBack DEF PutField
<1>2. CASE f \in Arrays /\ width = 0 /\ struct[f] = slice
  BY <1>2 DEF PutField
<1>3. CASE f \in Arrays /\ width # 0 /\ Len(slice) = width /\ Len(struct[f]) = Number(slice)
  BY <1>3, BytesOfNumber DEF PutField
<1> QED BY <1>1, <1>2, <1>3 DEF Reads

(* A frame that is cut at the fields of a layout.                           *)
CutAt(bytes, struct, layout, cuts) ==
    \A i \in 1 .. Len(layout) :
        /\ cuts[i - 1] \in Nat /\ cuts[i] \in Nat
        /\ cuts[i - 1] <= cuts[i] /\ cuts[i] <= Len(bytes)
        /\ Reads(struct, layout[i][1], layout[i][2], SubSeq(bytes, cuts[i - 1] + 1, cuts[i]))

LEMMA PutCuts ==
    ASSUME NEW bytes \in Seq(Byte), NEW struct, NEW layout, NEW n \in Nat \ {0}, Len(layout) = n,
           NEW cuts, CutAt(bytes, struct, layout, cuts)
    PROVE  cuts[0] = 0 /\ cuts[n] = Len(bytes) => Put(struct, layout) = bytes
<1> DEFINE parts == Written(struct, layout)
<1>1. ASSUME NEW i \in 1 .. n
      PROVE  /\ cuts[i - 1] \in Nat /\ cuts[i] \in Nat
             /\ cuts[i - 1] <= cuts[i] /\ cuts[i] <= Len(bytes)
             /\ parts[i] = SubSeq(bytes, cuts[i - 1] + 1, cuts[i])
  <2> DEFINE a == cuts[i - 1]
             b == cuts[i]
             slice == SubSeq(bytes, a + 1, b)
  <2>1. a \in Nat /\ b \in Nat /\ a <= b /\ b <= Len(bytes) /\ Reads(struct, layout[i][1], layout[i][2], slice)
    BY DEF CutAt
  <2>2. parts[i] = PutField(struct, layout[i][1], layout[i][2])
    BY DEF Written
  <2> HIDE DEF a, b
  <2>3. slice \in Seq(Byte)
    BY <2>1, SliceTyped
  <2> HIDE DEF slice
  <2>4. PutField(struct, layout[i][1], layout[i][2]) = slice
    BY <2>1, <2>3, ReadsBack
  <2> QED BY <2>1, <2>2, <2>4 DEF a, b, slice
<1> HIDE DEF parts
<1>2. Slices(parts, n, bytes, cuts)
  BY <1>1 DEF Slices
<1>3. Put(struct, layout) = SubSeq(bytes, cuts[0] + 1, cuts[n])
  <2>1. Slices(Written(struct, layout), n, bytes, cuts)
    BY <1>2 DEF parts
  <2> QED BY <2>1, PutSlices
<1>4. cuts[0] = 0 => cuts[0] + 1 = 1
  OBVIOUS
<1> QED BY <1>3, <1>4, SubSeqFull

(* A byte that is a length.                                                 *)
LEMMA OneByte ==
    ASSUME NEW bytes \in Seq(Byte), NEW k \in 1 .. Len(bytes)
    PROVE  /\ Bytes(bytes[k], 1) = SubSeq(bytes, k, k)
           /\ Number(SubSeq(bytes, k, k)) = bytes[k]
           /\ Len(SubSeq(bytes, k, k)) = 1
           /\ bytes[k] \in Nat /\ bytes[k] <= Base - 1
<1>1. Len(bytes) \in Nat /\ bytes[k] \in Byte
  BY LenProperties, ElementOfSeq
<1> DEFINE a == k - 1
           slice == SubSeq(bytes, k, k)
<1>2. a \in Nat /\ k = a + 1 /\ a <= k /\ k - a = 1 /\ k \in Nat /\ k <= Len(bytes) /\ 1 \in 1 .. 1
  BY <1>1
<1> HIDE DEF a
<1>3. slice \in Seq(Byte) /\ Len(slice) = 1 /\ slice[1] = bytes[k]
  BY <1>2, SliceTyped
<1> HIDE DEF slice
<1>4. Number(slice) = bytes[k]
  <2>1. PICK g \in [0 .. Len(slice) -> Nat] : Sums(g, Len(slice), slice) /\ Number(slice) = g[Len(slice)]
    BY <1>3, NumberIsSum
  <2>2. 1 \in 1 .. 1 /\ 1 - 1 = 0
    OBVIOUS
  <2>3. g[1] = g[0] + slice[1] * Weight(0) /\ g[0] = 0
    BY <1>3, <2>1, <2>2 DEF Sums
  <2>4. Weight(0) = 1 /\ bytes[k] \in Nat
    BY <1>1, BaseIsEven, Weights DEF Byte
  <2> QED BY <1>3, <2>1, <2>3, <2>4
<1>5. Bytes(bytes[k], 1) = slice
  BY <1>3, <1>4, BytesOfNumber
<1> QED BY <1>1, <1>3, <1>4, <1>5, BaseIsEven DEF slice, Byte

(* The slice of width bytes from first to last. *)
IsSlice(bytes, first, last, width) ==
    /\ first \in Nat \ {0} /\ width \in Nat
    /\ last = (first - 1) + width /\ last <= Len(bytes)

LEMMA SliceLong ==
    ASSUME NEW bytes \in Seq(Byte), NEW first, NEW last, NEW width, IsSlice(bytes, first, last, width)
    PROVE  SubSeq(bytes, first, last) \in Seq(Byte) /\ Len(SubSeq(bytes, first, last)) = width
<1> DEFINE a == first - 1
<1>1. a \in Nat /\ last \in Nat /\ a <= last /\ last - a = width /\ a + 1 = first /\ last <= Len(bytes)
  BY DEF IsSlice
<1> HIDE DEF a
<1>2. SubSeq(bytes, a + 1, last) \in Seq(Byte) /\ Len(SubSeq(bytes, a + 1, last)) = last - a
  BY <1>1, SliceTyped
<1> QED BY <1>1, <1>2

LEMMA ChatExact ==
    ASSUME NEW bytes \in Seq(Byte), NEW f, f = Frame("CHAT", bytes)
    PROVE  Exact(f, DecodeChat(f))
<1>1. f.bytes = bytes /\ Len(bytes) \in Nat /\ Size(f) = 1 + Len(bytes)
  BY InFrame
<1>2. CASE Size(f) >= kChatHeaderSize /\ bytes[3] \in 1 .. kMaxChatBytes /\ HasRest(f, kChatHeaderSize, bytes[3])
  <2> DEFINE l == Len(bytes)
             length == bytes[3]
             b == With(Fields(bytes, 0, ChatAt), "message", SubSeq(bytes, 4, l))
             cuts == [i \in 0 .. 3 |-> IF i = 0 THEN 0 ELSE IF i = 1 THEN 2 ELSE IF i = 2 THEN 3 ELSE l]
  <2>1. DecodeChat(f) = Message("CHAT", b)
    <3>1. ~(Size(f) < kChatHeaderSize)
      BY <1>1, <1>2 DEF kChatHeaderSize
    <3> QED BY <1>1, <1>2, <3>1 DEF DecodeChat, Rest, kChatHeaderSize
  <2>2. l = 3 + length /\ l >= 4 /\ length \in Nat /\ l \in Nat
    <3>1. l \in Nat /\ Size(f) = 1 + l /\ Size(f) = 4 + length /\ length \in Nat /\ length >= 1
      BY <1>1, <1>2, LimitsAssumption DEF HasRest, kChatHeaderSize
    <3> HIDE DEF l, length
    <3> QED BY <3>1
  <2>3. b.seq = Value("seq", SubSeq(bytes, 1, 2)) /\ b.message = SubSeq(bytes, 4, l)
    BY DEF With, Fields, ChatAt
  <2>4. 3 \in 1 .. l
    BY <2>2
  <2> HIDE DEF b
  <2>5. Number(SubSeq(bytes, 3, 3)) = length /\ Len(SubSeq(bytes, 3, 3)) = 1
    BY <2>4, OneByte
  <2> HIDE DEF l, length
  <2>6. Len(SubSeq(bytes, 4, l)) = length /\ Len(SubSeq(bytes, 1, 2)) = 2
    <3>1. IsSlice(bytes, 4, l, length) /\ IsSlice(bytes, 1, 2, 2)
      BY <2>2 DEF l, IsSlice
    <3> QED BY <3>1, SliceLong, Zenon
  <2>7. CutAt(bytes, b, ChatLayout, cuts)
    <3>1. /\ Reads(b, "seq", 2, SubSeq(bytes, 1, 2))
          /\ Reads(b, "message", 1, SubSeq(bytes, 3, 3))
          /\ Reads(b, "message", 0, SubSeq(bytes, 4, l))
      <4>1. "seq" \notin Arrays /\ "message" \in Arrays /\ 1 # 0 /\ 2 # 0
        BY DEF Arrays
      <4> QED BY <2>3, <2>5, <2>6, <4>1, Zenon DEF Reads
    <3>2. cuts[0] = 0 /\ cuts[1] = 2 /\ cuts[2] = 3 /\ cuts[3] = l
      OBVIOUS
    <3> HIDE DEF cuts
    <3> QED BY <2>2, <3>1, <3>2 DEF CutAt, ChatLayout, l
  <2>8. Put(b, ChatLayout) = bytes
    <3>1. Len(ChatLayout) = 3 /\ cuts[0] = 0 /\ cuts[3] = Len(bytes) /\ 3 \in Nat \ {0}
      BY DEF ChatLayout, l
    <3> HIDE DEF cuts
    <3> QED BY <2>7, <3>1, PutCuts, Zenon
  <2> QED BY <2>1, <2>8, FrameByType DEF Exact
<1>3. CASE ~(Size(f) >= kChatHeaderSize /\ bytes[3] \in 1 .. kMaxChatBytes /\ HasRest(f, kChatHeaderSize, bytes[3]))
  <2>1. DecodeChat(f) = Refused("BAD_PAYLOAD_LENGTH")
    <3>1. CASE Size(f) < kChatHeaderSize
      BY <3>1 DEF DecodeChat, BadLength
    <3>2. CASE ~(Size(f) < kChatHeaderSize)
      <4>1. Size(f) >= kChatHeaderSize
        BY <1>1, <3>2 DEF kChatHeaderSize
      <4> QED BY <1>1, <1>3, <3>2, <4>1 DEF DecodeChat, BadLength
    <3> QED BY <3>1, <3>2
  <2> QED BY <2>1, RefusedIsExact
<1> QED BY <1>2, <1>3

LEMMA IdentityExact ==
    ASSUME NEW bytes \in Seq(Byte), NEW f, f = Frame("PLAYER_IDENTITY", bytes)
    PROVE  Exact(f, DecodePlayerIdentity(f))
<1> DEFINE length == bytes[1]
           taken == /\ Size(f) >= kPlayerIdentityHeaderSize
                    /\ length <= kMaxPlayerIdentityNameBytes
                    /\ HasRest(f, kPlayerIdentityHeaderSize, length)
<1>1. f.bytes = bytes /\ Len(bytes) \in Nat /\ Size(f) = 1 + Len(bytes)
  BY InFrame
<1>2. CASE taken
  <2> DEFINE l == Len(bytes)
             b == [display_name |-> SubSeq(bytes, 2, l)]
             cuts == [i \in 0 .. 2 |-> IF i = 0 THEN 0 ELSE IF i = 1 THEN 1 ELSE l]
  <2>1. DecodePlayerIdentity(f) = Message("PLAYER_IDENTITY", b)
    <3>1. ~(Size(f) < kPlayerIdentityHeaderSize)
      BY <1>1, <1>2 DEF kPlayerIdentityHeaderSize
    <3> QED BY <1>1, <1>2, <3>1 DEF DecodePlayerIdentity, Rest, kPlayerIdentityHeaderSize
  <2>2. 1 \in 1 .. l
    <3>1. l \in Nat /\ Size(f) = 1 + l /\ Size(f) >= 2
      BY <1>1, <1>2 DEF kPlayerIdentityHeaderSize
    <3> HIDE DEF l
    <3> QED BY <3>1
  <2>3. Number(SubSeq(bytes, 1, 1)) = length /\ Len(SubSeq(bytes, 1, 1)) = 1 /\ length \in Nat
    BY <2>2, OneByte
  <2>4. l = 1 + length /\ l \in Nat
    <3>1. l \in Nat /\ Size(f) = 1 + l /\ Size(f) = 2 + length
      BY <1>1, <1>2 DEF HasRest, kPlayerIdentityHeaderSize
    <3> HIDE DEF l, length
    <3> QED BY <2>3, <3>1
  <2>5. b.display_name = SubSeq(bytes, 2, l)
    OBVIOUS
  <2> HIDE DEF b, l, length
  <2>6. Len(SubSeq(bytes, 2, l)) = length
    <3>1. IsSlice(bytes, 2, l, length)
      BY <2>3, <2>4 DEF l, IsSlice
    <3> QED BY <3>1, SliceLong, Zenon
  <2>7. CutAt(bytes, b, IdentityLayout, cuts)
    <3>1. /\ Reads(b, "display_name", 1, SubSeq(bytes, 1, 1))
          /\ Reads(b, "display_name", 0, SubSeq(bytes, 2, l))
      <4>1. "display_name" \in Arrays /\ 1 # 0
        BY DEF Arrays
      <4> QED BY <2>3, <2>5, <2>6, <4>1, Zenon DEF Reads
    <3>2. cuts[0] = 0 /\ cuts[1] = 1 /\ cuts[2] = l
      OBVIOUS
    <3> HIDE DEF cuts
    <3> QED BY <2>3, <2>4, <3>1, <3>2 DEF CutAt, IdentityLayout, l
  <2>8. Put(b, IdentityLayout) = bytes
    <3>1. Len(IdentityLayout) = 2 /\ cuts[0] = 0 /\ cuts[2] = Len(bytes) /\ 2 \in Nat \ {0}
      BY DEF IdentityLayout, l
    <3> HIDE DEF cuts
    <3> QED BY <2>7, <3>1, PutCuts, Zenon
  <2> QED BY <2>1, <2>8, FrameByType DEF Exact
<1>3. CASE ~taken
  <2>1. DecodePlayerIdentity(f) = Refused("BAD_PAYLOAD_LENGTH")
    <3>1. CASE Size(f) < kPlayerIdentityHeaderSize
      BY <3>1 DEF DecodePlayerIdentity, BadLength
    <3>2. CASE ~(Size(f) < kPlayerIdentityHeaderSize)
      <4>1. Size(f) >= kPlayerIdentityHeaderSize
        BY <1>1, <3>2 DEF kPlayerIdentityHeaderSize
      <4> QED BY <1>1, <1>3, <3>2, <4>1 DEF DecodePlayerIdentity, BadLength
    <3> QED BY <3>1, <3>2
  <2> QED BY <2>1, RefusedIsExact
<1> QED BY <1>2, <1>3

LEMMA EquipmentExact ==
    ASSUME NEW bytes \in Seq(Byte), NEW f, f = Frame("EQUIPMENT", bytes)
    PROVE  Exact(f, DecodeEquipment(f))
<1> DEFINE length == Number(SubSeq(bytes, 6, 7))
           taken == /\ Size(f) >= kEquipmentHeaderSize
                    /\ length <= kMaxEquipmentPayloadBytes
                    /\ HasRest(f, kEquipmentHeaderSize, length)
                    /\ bytes[3] <= 3
<1>1. f.bytes = bytes /\ Len(bytes) \in Nat /\ Size(f) = 1 + Len(bytes)
  BY InFrame
<1>2. CASE taken
  <2> DEFINE l == Len(bytes)
             b == With(Fields(bytes, 0, EquipmentAt), "payload", SubSeq(bytes, 12, l))
             cuts == [i \in 0 .. 7 |->
                         IF i = 0 THEN 0 ELSE IF i = 1 THEN 2 ELSE IF i = 2 THEN 3
                         ELSE IF i = 3 THEN 4 ELSE IF i = 4 THEN 5 ELSE IF i = 5 THEN 7
                         ELSE IF i = 6 THEN 11 ELSE l]
  <2>1. DecodeEquipment(f) = Message("EQUIPMENT", b)
    <3>1. ~(Size(f) < kEquipmentHeaderSize)
      BY <1>1, <1>2 DEF kEquipmentHeaderSize
    <3> QED BY <1>1, <1>2, <3>1 DEF DecodeEquipment, Rest, kEquipmentHeaderSize
  <2>2. l \in Nat /\ l >= 11
    <3>1. l \in Nat /\ Size(f) = 1 + l /\ Size(f) >= 12
      BY <1>1, <1>2 DEF kEquipmentHeaderSize
    <3> HIDE DEF l
    <3> QED BY <3>1
  <2>3. /\ b.seq = Value("seq", SubSeq(bytes, 1, 2))
        /\ b.right_hand_kind = Value("right_hand_kind", SubSeq(bytes, 3, 3))
        /\ b.right_hand_variant = Value("right_hand_variant", SubSeq(bytes, 4, 4))
        /\ b.flags = Value("flags", SubSeq(bytes, 5, 5))
        /\ b.design_hash = Value("design_hash", SubSeq(bytes, 8, 11))
        /\ b.payload = SubSeq(bytes, 12, l)
    BY DEF With, Fields, EquipmentAt
  <2> HIDE DEF b
  <2>4. /\ Len(SubSeq(bytes, 1, 2)) = 2 /\ Len(SubSeq(bytes, 3, 3)) = 1
        /\ Len(SubSeq(bytes, 4, 4)) = 1 /\ Len(SubSeq(bytes, 5, 5)) = 1
        /\ Len(SubSeq(bytes, 6, 7)) = 2 /\ Len(SubSeq(bytes, 8, 11)) = 4
    <3> HIDE DEF l
    <3>1. /\ IsSlice(bytes, 1, 2, 2) /\ IsSlice(bytes, 3, 3, 1)
          /\ IsSlice(bytes, 4, 4, 1) /\ IsSlice(bytes, 5, 5, 1)
          /\ IsSlice(bytes, 6, 7, 2) /\ IsSlice(bytes, 8, 11, 4)
      BY <2>2 DEF l, IsSlice
    <3> QED BY <3>1, SliceLong, Zenon
  <2>5. length \in Nat
    <3> DEFINE slice == SubSeq(bytes, 6, 7)
    <3>1. slice \in Seq(Byte)
      <4>1. IsSlice(bytes, 6, 7, 2)
        BY <2>2 DEF IsSlice
      <4> QED BY <4>1, SliceLong, Zenon
    <3> HIDE DEF slice
    <3>2. Number(slice) \in 0 .. Weight(Len(slice)) - 1 /\ Len(slice) \in Nat
      BY <3>1, NumberTyped, LenProperties
    <3>3. Weight(Len(slice)) \in Nat
      BY <3>2, Weights
    <3>4. Number(slice) \in Nat
      BY <3>2, <3>3
    <3> QED BY <3>4 DEF slice
  <2>6. l = 11 + length
    <3>1. l \in Nat /\ Size(f) = 1 + l /\ Size(f) = 12 + length
      BY <1>1, <1>2 DEF HasRest, kEquipmentHeaderSize
    <3> HIDE DEF l, length
    <3> QED BY <2>5, <3>1
  <2> HIDE DEF l
  <2>7. Len(SubSeq(bytes, 12, l)) = length
    <3> HIDE DEF length
    <3>1. IsSlice(bytes, 12, l, length)
      BY <2>2, <2>5, <2>6 DEF l, IsSlice
    <3> QED BY <3>1, SliceLong, Zenon
  <2>8. CutAt(bytes, b, EquipmentLayout, cuts)
    <3>1. /\ Reads(b, "seq", 2, SubSeq(bytes, 1, 2))
          /\ Reads(b, "right_hand_kind", 1, SubSeq(bytes, 3, 3))
          /\ Reads(b, "right_hand_variant", 1, SubSeq(bytes, 4, 4))
          /\ Reads(b, "flags", 1, SubSeq(bytes, 5, 5))
          /\ Reads(b, "payload", 2, SubSeq(bytes, 6, 7))
          /\ Reads(b, "design_hash", 4, SubSeq(bytes, 8, 11))
          /\ Reads(b, "payload", 0, SubSeq(bytes, 12, l))
      <4>1. /\ "seq" \notin Arrays /\ "right_hand_kind" \notin Arrays
            /\ "right_hand_variant" \notin Arrays /\ "flags" \notin Arrays
            /\ "design_hash" \notin Arrays /\ "payload" \in Arrays
            /\ 1 # 0 /\ 2 # 0 /\ 4 # 0
        BY DEF Arrays
      <4>2. Reads(b, "seq", 2, SubSeq(bytes, 1, 2))
        BY <2>3, <2>4, <4>1, Zenon DEF Reads
      <4>3. Reads(b, "right_hand_kind", 1, SubSeq(bytes, 3, 3))
        BY <2>3, <2>4, <4>1, Zenon DEF Reads
      <4>4. Reads(b, "right_hand_variant", 1, SubSeq(bytes, 4, 4))
        BY <2>3, <2>4, <4>1, Zenon DEF Reads
      <4>5. Reads(b, "flags", 1, SubSeq(bytes, 5, 5))
        BY <2>3, <2>4, <4>1, Zenon DEF Reads
      <4>6. Reads(b, "payload", 2, SubSeq(bytes, 6, 7))
        BY <2>3, <2>4, <2>7, <4>1, Zenon DEF Reads
      <4>7. Reads(b, "design_hash", 4, SubSeq(bytes, 8, 11))
        BY <2>3, <2>4, <4>1, Zenon DEF Reads
      <4>8. Reads(b, "payload", 0, SubSeq(bytes, 12, l))
        BY <2>3, <4>1, Zenon DEF Reads
      <4> QED BY <4>2, <4>3, <4>4, <4>5, <4>6, <4>7, <4>8
    <3>2. /\ cuts[0] = 0 /\ cuts[1] = 2 /\ cuts[2] = 3 /\ cuts[3] = 4 /\ cuts[4] = 5
          /\ cuts[5] = 7 /\ cuts[6] = 11 /\ cuts[7] = l
      OBVIOUS
    <3> HIDE DEF cuts
    <3>3. /\ Len(EquipmentLayout) = 7
          /\ EquipmentLayout[1] = <<"seq", 2>> /\ EquipmentLayout[2] = <<"right_hand_kind", 1>>
          /\ EquipmentLayout[3] = <<"right_hand_variant", 1>> /\ EquipmentLayout[4] = <<"flags", 1>>
          /\ EquipmentLayout[5] = <<"payload", 2>> /\ EquipmentLayout[6] = <<"design_hash", 4>>
          /\ EquipmentLayout[7] = <<"payload", 0>>
      BY DEF EquipmentLayout
    <3> DEFINE At(i) == /\ cuts[i - 1] \in Nat /\ cuts[i] \in Nat
                        /\ cuts[i - 1] <= cuts[i] /\ cuts[i] <= l
                        /\ Reads(b, EquipmentLayout[i][1], EquipmentLayout[i][2],
                                 SubSeq(bytes, cuts[i - 1] + 1, cuts[i]))
    <3>4. At(1)
      BY <2>2, <3>1, <3>2, <3>3
    <3>5. At(2)
      BY <2>2, <3>1, <3>2, <3>3
    <3>6. At(3)
      BY <2>2, <3>1, <3>2, <3>3
    <3>7. At(4)
      BY <2>2, <3>1, <3>2, <3>3
    <3>8. At(5)
      BY <2>2, <3>1, <3>2, <3>3
    <3>9. At(6)
      BY <2>2, <3>1, <3>2, <3>3
    <3>10. At(7)
      BY <2>2, <3>1, <3>2, <3>3
    <3>11. \A i \in 1 .. 7 : At(i)
      <4> HIDE DEF At
      <4> QED BY <3>4, <3>5, <3>6, <3>7, <3>8, <3>9, <3>10
    <3> QED BY <3>3, <3>11 DEF CutAt, l
  <2>9. Put(b, EquipmentLayout) = bytes
    <3>1. Len(EquipmentLayout) = 7 /\ cuts[0] = 0 /\ cuts[7] = Len(bytes) /\ 7 \in Nat \ {0}
      BY DEF EquipmentLayout, l
    <3> HIDE DEF cuts
    <3> QED BY <2>8, <3>1, PutCuts, Zenon
  <2> QED BY <2>1, <2>9, FrameByType DEF Exact
<1>3. CASE ~taken
  <2>1. DecodeEquipment(f) = Refused("BAD_PAYLOAD_LENGTH")
    <3>1. CASE Size(f) < kEquipmentHeaderSize
      BY <3>1 DEF DecodeEquipment, BadLength
    <3>2. CASE ~(Size(f) < kEquipmentHeaderSize)
      <4>1. Size(f) >= kEquipmentHeaderSize
        BY <1>1, <3>2 DEF kEquipmentHeaderSize
      <4> QED BY <1>1, <1>3, <3>2, <4>1 DEF DecodeEquipment, BadLength
    <3> QED BY <3>1, <3>2
  <2> QED BY <2>1, RefusedIsExact
<1> QED BY <1>2, <1>3

LEMMA PongExact ==
    ASSUME NEW bytes \in Seq(Byte), NEW f, f = Frame("PONG", bytes)
    PROVE  Exact(f, DecodePong(f))
<1>1. f.bytes = bytes /\ Len(bytes) \in Nat /\ Size(f) = 1 + Len(bytes)
  BY InFrame
<1>2. CASE Size(f) = 1
  <2> DEFINE b == [pong |-> TRUE]
  <2>1. DecodePong(f) = Message("PONG", b)
    BY <1>2 DEF DecodePong
  <2>2. bytes = <<>>
    <3>1. Len(bytes) = 0
      BY <1>1, <1>2
    <3> QED BY <3>1, EmptySeq
  <2> HIDE DEF b
  <2> QED BY <2>1, <2>2, FrameByType DEF Exact
<1>3. CASE ~(Size(f) = 1)
  <2>1. DecodePong(f) = Refused("BAD_PAYLOAD_LENGTH")
    BY <1>3 DEF DecodePong, BadLength
  <2> QED BY <2>1, RefusedIsExact
<1> QED BY <1>2, <1>3

LEMMA DigBatchExact ==
    ASSUME NEW bytes \in Seq(Byte), NEW f, f = Frame("DIG_BATCH", bytes)
    PROVE  Exact(f, DecodeDigBatch(f))
<1> DEFINE count == bytes[1]
           taken == /\ Size(f) >= kDigBatchHeaderSize
                    /\ count > 0
                    /\ HasRest(f, kDigBatchHeaderSize, count * kDigBatchItemSize)
<1>1. f.bytes = bytes /\ Len(bytes) \in Nat /\ Size(f) = 1 + Len(bytes)
  BY InFrame
<1>2. CASE taken
  <2> DEFINE l == Len(bytes)
             items == [i \in 1 .. count |->
                          Fields(bytes, kDigBatchHeaderSize + (i - 1) * kDigBatchItemSize, DigItemAt)]
             b == [items |-> items]
             parts == [i \in 1 .. Len(items) |-> Put(items[i], DigLayout)]
             cuts == [i \in 0 .. count |-> 1 + 10 * i]
  <2>1. DecodeDigBatch(f) = Message("DIG_BATCH", b)
    <3>1. ~(Size(f) < kDigBatchHeaderSize)
      BY <1>1, <1>2 DEF kDigBatchHeaderSize
    <3> QED BY <1>1, <1>2, <3>1 DEF DecodeDigBatch
  <2>2. 1 \in 1 .. l /\ l \in Nat
    <3>1. l \in Nat /\ Size(f) = 1 + l /\ Size(f) >= 2
      BY <1>1, <1>2 DEF kDigBatchHeaderSize
    <3> HIDE DEF l
    <3> QED BY <3>1
  <2>3. Bytes(count, 1) = SubSeq(bytes, 1, 1) /\ count \in Nat /\ count <= Base - 1
    BY <2>2, OneByte
  <2>4. l = 1 + 10 * count /\ count \in Nat \ {0}
    <3>1. l \in Nat /\ Size(f) = 1 + l /\ Size(f) = 2 + count * 10 /\ count > 0
      BY <1>1, <1>2 DEF HasRest, kDigBatchHeaderSize, kDigBatchItemSize
    <3> HIDE DEF l, count
    <3> QED BY <2>3, <3>1
  <2>5. Len(items) = count
    BY <2>3
  <2>6. ASSUME NEW i \in 1 .. count
        PROVE  items[i] = Fields(bytes, 2 + 10 * (i - 1), DigItemAt)
    <3>1. 2 + (i - 1) * 10 = 2 + 10 * (i - 1)
      BY <2>3
    <3> QED BY <3>1 DEF kDigBatchHeaderSize, kDigBatchItemSize
  <2>7. b.items = items
    OBVIOUS
  <2> HIDE DEF b, l, count, items
  <2>8. ASSUME NEW i \in 1 .. count
        PROVE  Put(items[i], DigLayout) = SubSeq(bytes, cuts[i - 1] + 1, cuts[i])
    <3> DEFINE offset == 2 + 10 * (i - 1)
               item == items[i]
    <3>1. offset \in Nat /\ offset >= 1 /\ offset + 10 - 1 <= l
      BY <2>4
    <3>2. cuts[i - 1] + 1 = offset + 0 /\ cuts[i] = offset + 10 - 1
      <4>1. i \in 0 .. count /\ i - 1 \in 0 .. count
        BY <2>4
      <4>2. cuts[i - 1] = 1 + 10 * (i - 1) /\ cuts[i] = 1 + 10 * i
        BY <4>1
      <4> QED BY <4>2
    <3>3. /\ Agreeing(DigLayout, DigItemAt)
          /\ DigItemAt[DigLayout[1][1]][1] = 0
          /\ Behind(DigLayout, DigItemAt, Len(DigLayout)) = 10
      BY DEF Agreeing, Fit, Behind, DigLayout, DigItemAt, Arrays
    <3>4. item = Fields(bytes, offset, DigItemAt)
      BY <2>6
    <3> HIDE DEF offset, item
    <3>5. offset + DigItemAt[DigLayout[1][1]][1] >= 1
          /\ offset + Behind(DigLayout, DigItemAt, Len(DigLayout)) - 1 <= Len(bytes)
      BY <3>1, <3>3 DEF l
    <3>6. Put(item, DigLayout) =
              SubSeq(bytes, offset + DigItemAt[DigLayout[1][1]][1],
                     offset + Behind(DigLayout, DigItemAt, Len(DigLayout)) - 1)
      BY <3>1, <3>3, <3>4, <3>5, PutFields
    <3> QED BY <3>2, <3>3, <3>6 DEF item
  <2>9. Slices(parts, count, bytes, cuts)
    <3>1. ASSUME NEW i \in 1 .. count
          PROVE  /\ cuts[i - 1] \in Nat /\ cuts[i] \in Nat
                 /\ cuts[i - 1] <= cuts[i] /\ cuts[i] <= l
                 /\ parts[i] = SubSeq(bytes, cuts[i - 1] + 1, cuts[i])
      <4>1. i \in 0 .. count /\ i - 1 \in 0 .. count /\ i \in 1 .. Len(items)
        BY <2>4, <2>5
      <4>2. cuts[i - 1] = 1 + 10 * (i - 1) /\ cuts[i] = 1 + 10 * i
        BY <4>1
      <4>3. parts[i] = Put(items[i], DigLayout)
        BY <4>1
      <4>4. parts[i] = SubSeq(bytes, cuts[i - 1] + 1, cuts[i])
        BY <2>8, <4>3
      <4> HIDE DEF cuts, parts
      <4> QED BY <2>4, <4>2, <4>4
    <3> HIDE DEF parts, cuts
    <3> QED BY <3>1 DEF Slices, l
  <2>10. PutAll(items, DigLayout) = SubSeq(bytes, 2, l)
    <3>1. Len(parts) = count
      BY <2>4, <2>5
    <3>2. cuts[0] + 1 = 2 /\ cuts[count] = l
      BY <2>4
    <3>3. PutAll(items, DigLayout) = FlattenSeq(parts)
      BY DEF PutAll
    <3> HIDE DEF parts, cuts
    <3>4. FlattenSeq(parts) = SubSeq(bytes, cuts[0] + 1, cuts[count])
      BY <2>4, <2>9, <3>1, FlattenSlices
    <3> QED BY <3>2, <3>3, <3>4
  <2>11. Counted(items, DigLayout) = bytes
    <3>1. SubSeq(items, 1, count) = items
      <4>1. items = [i \in 1 .. count |-> items[i]]
        BY DEF items
      <4>2. items \in Seq({items[i] : i \in 1 .. count})
        BY <2>4, <4>1
      <4> QED BY <2>5, <4>2, SubSeqFull
    <3>2. ~(Len(items) > Base - 1)
      BY <2>3, <2>4, <2>5, BaseIsEven
    <3>3. Counted(items, DigLayout) = Bytes(count, 1) \o PutAll(items, DigLayout)
      BY <2>5, <3>1, <3>2 DEF Counted
    <3>4. SubSeq(bytes, 1, 1) \o SubSeq(bytes, 2, l) = SubSeq(bytes, 1, l)
      <4>1. 1 \in 1 .. l + 1 /\ 1 \in 1 - 1 .. l /\ l \in 1 .. l /\ 1 + 1 = 2
        BY <2>2
      <4>2. SubSeq(bytes, 1, 1) \o SubSeq(bytes, 1 + 1, l) = SubSeq(bytes, 1, l)
        BY <4>1, ConcatAdjacentSubSeq DEF l
      <4> QED BY <4>1, <4>2
    <3>5. SubSeq(bytes, 1, l) = bytes
      BY SubSeqFull DEF l
    <3> QED BY <2>3, <2>10, <3>3, <3>4, <3>5, Zenon
  <2> QED BY <2>1, <2>7, <2>11, FrameByType DEF Exact
<1>3. CASE ~taken
  <2>1. DecodeDigBatch(f) = Refused("BAD_PAYLOAD_LENGTH")
    <3>1. CASE Size(f) < kDigBatchHeaderSize
      BY <3>1 DEF DecodeDigBatch, BadLength
    <3>2. CASE ~(Size(f) < kDigBatchHeaderSize)
      <4>1. Size(f) >= kDigBatchHeaderSize
        BY <1>1, <3>2 DEF kDigBatchHeaderSize
      <4> QED BY <1>1, <1>3, <3>2, <4>1 DEF DecodeDigBatch, BadLength
    <3> QED BY <3>1, <3>2
  <2> QED BY <2>1, RefusedIsExact
<1> QED BY <1>2, <1>3

(* Where the fields of a record of this version are. *)
WholeRecordAt == With(RecordAt, "updated_slot", SlotAt.updated_slot)

LEMMA RecordAgrees == Filling(RecordLayout, WholeRecordAt, 1, 56)
<1>1. Covers(RecordLayout, WholeRecordAt)
  BY DEF Covers, RecordLayout, WholeRecordAt, RecordAt, SlotAt, With
<1>2. Agreeing(RecordLayout, WholeRecordAt)
  BY DEF Agreeing, Fit, RecordLayout, WholeRecordAt, RecordAt, SlotAt, With, Arrays
<1>3. /\ WholeRecordAt[RecordLayout[1][1]][1] = 0
      /\ Behind(RecordLayout, WholeRecordAt, Len(RecordLayout)) = 56
  BY DEF Behind, RecordLayout, WholeRecordAt, RecordAt, SlotAt, With
<1> QED BY <1>1, <1>2, <1>3 DEF Filling

LEMMA SecondOfConcat ==
    ASSUME NEW S, NEW s \in Seq(S), NEW t \in Seq(S)
    PROVE  SubSeq(s \o t, Len(s) + 1, Len(s) + Len(t)) = t
<1> DEFINE whole == s \o t
           a == Len(s)
           b == a + Len(t)
<1>1. a \in Nat /\ b \in Nat /\ a <= b /\ b - a = Len(t) /\ Len(t) \in Nat
  BY LenProperties
<1>2. whole \in Seq(S) /\ Len(whole) = b /\ \A i \in 1 .. b : whole[i] = IF i <= a THEN s[i] ELSE t[i - a]
  BY ConcatProperties
<1> HIDE DEF whole, a, b
<1>3. /\ SubSeq(whole, a + 1, b) \in Seq(S)
      /\ Len(SubSeq(whole, a + 1, b)) = b - a
      /\ \A i \in 1 .. b - a : SubSeq(whole, a + 1, b)[i] = whole[a + i]
  BY <1>1, <1>2, SliceTyped
<1>4. \A i \in 1 .. b - a : whole[a + i] = t[i]
  <2>1. ASSUME NEW i \in 1 .. b - a
        PROVE  whole[a + i] = t[i]
    <3> DEFINE j == a + i
    <3>1. j \in 1 .. b /\ ~(j <= a) /\ j - a = i
      BY <1>1
    <3> HIDE DEF j
    <3>2. whole[j] = t[i]
      BY <1>2, <3>1
    <3> QED BY <3>2 DEF j
  <2> QED BY <2>1
<1> DEFINE second == SubSeq(whole, a + 1, b)
<1>5. second \in Seq(S) /\ Len(second) = Len(t) /\ \A i \in 1 .. Len(second) : second[i] = t[i]
  BY <1>1, <1>3, <1>4
<1> HIDE DEF second
<1>6. second = t
  BY <1>5, SeqEqual
<1> QED BY <1>6 DEF second, whole, a, b

LEMMA NumberOfZeros ==
    ASSUME NEW n \in Nat \ {0}
    PROVE  /\ Bytes(0, n) \in Seq(Byte)
           /\ Len(Bytes(0, n)) = n
           /\ Number(Bytes(0, n)) = 0
<1> DEFINE zeros == Bytes(0, n)
<1>1. ASSUME NEW i \in 1 .. n
      PROVE  zeros[i] = 0
  <2>1. i - 1 \in Nat
    OBVIOUS
  <2>2. Weight(i - 1) \in Nat \ {0}
    BY <2>1, Weights
  <2> DEFINE w == Weight(i - 1)
  <2>3. (0 \div w) % Base = 0
    <3>1. w \in Nat \ {0}
      BY <2>2
    <3> HIDE DEF w
    <3>2. 0 \div w = 0
      BY <3>1
    <3> QED BY <3>2, BaseIsEven
  <2> QED BY <2>3 DEF Bytes
<1>2. zeros = [i \in 1 .. n |-> zeros[i]]
  BY DEF Bytes
<1> HIDE DEF zeros
<1>3. zeros = [i \in 1 .. n |-> 0]
  BY <1>1, <1>2
<1>4. zeros \in Seq(Byte) /\ Len(zeros) = n
  <2>1. 0 \in Byte
    BY BaseIsEven DEF Byte
  <2> QED BY <1>3, <2>1
<1>5. PICK g \in [0 .. Len(zeros) -> Nat] : Sums(g, Len(zeros), zeros) /\ Number(zeros) = g[Len(zeros)]
  BY <1>4, NumberIsSum
<1>6. \A i \in 0 .. n : g[i] = 0
  <2> DEFINE D == {i \in 0 .. n : g[i] = 0}
  <2>1. 0 \in D
    BY <1>5 DEF Sums
  <2>2. ASSUME NEW i \in 0 .. n - 1, i \in D
        PROVE  i + 1 \in D
    <3> DEFINE j == i + 1
    <3>1. j \in 1 .. n /\ j - 1 = i /\ j \in 0 .. n /\ i \in Nat
      OBVIOUS
    <3>2. Weight(i) \in Nat
      BY <3>1, Weights
    <3> HIDE DEF j
    <3>3. g[j] = g[i] + zeros[j] * Weight(i)
      BY <1>4, <1>5, <3>1 DEF Sums
    <3>4. zeros[j] = 0 /\ g[i] = 0
      BY <1>1, <2>2, <3>1 DEF zeros
    <3>5. g[j] = 0
      BY <3>2, <3>3, <3>4
    <3>6. j \in D
      BY <3>1, <3>5
    <3> QED BY <3>6 DEF j
  <2> HIDE DEF D
  <2>3. \A i \in 0 .. n - 1 : i \in D => i + 1 \in D
    BY <2>2
  <2>4. \A i \in 0 .. n : i \in D
    BY <2>1, <2>3, UpTo, Zenon
  <2> QED BY <2>4 DEF D
<1> QED BY <1>4, <1>5, <1>6 DEF zeros

(* An announcement that is taken is the frame of the record, or, if it is of *)
(* the legacy size, all but the slot of it.                                 *)
ExactAnnounce(f, m) ==
    m.type # "error" =>
        IF Len(f.bytes) = kLegacyBuildingRecordSize
        THEN m.body.updated_slot = 0 /\ f.bytes = SubSeq(ClientFrame(m).bytes, 1, kLegacyBuildingRecordSize)
        ELSE ClientFrame(m) = f

LEMMA AnnounceExact ==
    ASSUME NEW bytes \in Seq(Byte), NEW f, f = Frame("BUILDING_ANNOUNCE", bytes)
    PROVE  ExactAnnounce(f, DecodeAnnounce(f))
<1> DEFINE record == DecodeBuildingRecord(bytes)
           m == DecodeAnnounce(f)
<1>1. f.bytes = bytes /\ Len(bytes) \in Nat
  BY InFrame
<1>2. CASE Len(bytes) = 56
  <2>1. m = Message("BUILDING_ANNOUNCE", record)
    BY <1>1, <1>2 DEF DecodeAnnounce, kBuildingRecordSize
  <2>2. \A g \in DOMAIN WholeRecordAt : record[g] = Fields(bytes, 1, WholeRecordAt)[g]
    BY <1>2 DEF DecodeBuildingRecord, kBuildingRecordSize, WholeRecordAt, With, Fields, RecordAt, SlotAt
  <2> HIDE DEF record, m
  <2>3. Put(record, RecordLayout) = bytes
    <3>1. ReadBy(record, bytes, 1, 56, WholeRecordAt)
      BY <1>2, <2>2 DEF ReadBy
    <3>2. WrittenBy(bytes, record, RecordLayout)
      BY <3>1, RecordAgrees, PutBack, Zenon
    <3> QED BY <3>2 DEF WrittenBy
  <2>4. ClientFrame(m) = f
    BY <2>1, <2>3, FrameByType
  <2>5. ~(Len(bytes) = kLegacyBuildingRecordSize)
    BY <1>2 DEF kLegacyBuildingRecordSize
  <2>6. ExactAnnounce(f, m)
    BY <1>1, <2>4, <2>5 DEF ExactAnnounce
  <2> QED BY <2>6 DEF m
<1>3. CASE Len(bytes) = 48
  <2> DEFINE zeros == Bytes(0, 8)
             whole == bytes \o zeros
  <2>1. m = Message("BUILDING_ANNOUNCE", record)
    BY <1>1, <1>3 DEF DecodeAnnounce, kBuildingRecordSize, kLegacyBuildingRecordSize
  <2>2. zeros \in Seq(Byte) /\ Len(zeros) = 8 /\ Number(zeros) = 0
    <3>1. 8 \in Nat \ {0}
      OBVIOUS
    <3> QED BY <3>1, NumberOfZeros, Zenon
  <2> HIDE DEF zeros
  <2>3. /\ whole \in Seq(Byte)
        /\ Len(whole) = Len(bytes) + Len(zeros)
        /\ \A i \in 1 .. Len(bytes) + Len(zeros) :
              whole[i] = IF i <= Len(bytes) THEN bytes[i] ELSE zeros[i - Len(bytes)]
    BY <2>2, ConcatProperties
  <2>4. /\ whole \in Seq(Byte) /\ Len(whole) = 56
        /\ \A i, j \in 1 .. 48 : SubSeq(whole, i, j) = SubSeq(bytes, i, j)
        /\ SubSeq(whole, 49, 56) = zeros
    <3>1. ASSUME NEW i \in 1 .. 48, NEW j \in 1 .. 48
          PROVE  SubSeq(whole, i, j) = SubSeq(bytes, i, j)
      <4>1. i \in 1 .. Len(bytes) /\ j \in 1 .. Len(bytes)
        BY <1>3
      <4> QED BY <2>2, <4>1, SubSeqOfConcat1
    <3>2. SubSeq(whole, 49, 56) = zeros
      <4>1. SubSeq(whole, Len(bytes) + 1, Len(bytes) + Len(zeros)) = zeros
        BY <2>2, SecondOfConcat
      <4>2. Len(bytes) + 1 = 49 /\ Len(bytes) + Len(zeros) = 56
        BY <1>3, <2>2
      <4> HIDE DEF whole
      <4> QED BY <4>1, <4>2
    <3>3. Len(whole) = 56
      BY <1>3, <2>2, <2>3
    <3> HIDE DEF whole
    <3> QED BY <2>3, <3>1, <3>2, <3>3
  <2> HIDE DEF whole
  <2>5. Value("updated_slot", zeros) = 0
    <3>1. "updated_slot" \notin Arrays /\ "updated_slot" \notin SignedFields
      BY DEF Arrays, SignedFields
    <3> QED BY <2>2, <3>1 DEF Value
  <2>6. Len(bytes) # 56
    BY <1>3
  <2>7. record.updated_slot = 0
    BY <2>6 DEF DecodeBuildingRecord, With, kBuildingRecordSize
  <2>8. \A g \in DOMAIN RecordAt :
            SubSeq(whole, 1 + RecordAt[g][1], 1 + RecordAt[g][1] + RecordAt[g][2] - 1)
                = SubSeq(bytes, 1 + RecordAt[g][1], 1 + RecordAt[g][1] + RecordAt[g][2] - 1)
    <3>1. \A g \in DOMAIN RecordAt :
              1 + RecordAt[g][1] \in 1 .. 48 /\ 1 + RecordAt[g][1] + RecordAt[g][2] - 1 \in 1 .. 48
      <4> DEFINE places == { <<0, 8>>, <<8, 4>>, <<12, 4>>, <<16, 2>>, <<18, 2>>, <<20, 4>>,
                             <<24, 4>>, <<28, 4>>, <<32, 16>> }
      <4>1. \A g \in DOMAIN RecordAt : RecordAt[g] \in places
        BY DEF RecordAt
      <4> DEFINE Within(place) ==
                   1 + place[1] \in 1 .. 48 /\ 1 + place[1] + place[2] - 1 \in 1 .. 48
      <4>2. /\ Within(<<0, 8>>) /\ Within(<<8, 4>>) /\ Within(<<12, 4>>) /\ Within(<<16, 2>>)
            /\ Within(<<18, 2>>) /\ Within(<<20, 4>>) /\ Within(<<24, 4>>) /\ Within(<<28, 4>>)
            /\ Within(<<32, 16>>)
        OBVIOUS
      <4> HIDE DEF Within
      <4>3. \A place \in places : Within(place)
        BY <4>2, Zenon
      <4> HIDE DEF places
      <4> QED BY <4>1, <4>3, Zenon DEF Within
    <3> HIDE DEF RecordAt
    <3> QED BY <2>4, <3>1, Zenon
  <2>9. \A g \in DOMAIN WholeRecordAt : record[g] = Fields(whole, 1, WholeRecordAt)[g]
    <3>1. DOMAIN WholeRecordAt = DOMAIN RecordAt \cup {"updated_slot"} /\ "updated_slot" \notin DOMAIN RecordAt
      BY DEF WholeRecordAt, With, RecordAt
    <3>2. ASSUME NEW g \in DOMAIN RecordAt
          PROVE  record[g] = Fields(whole, 1, WholeRecordAt)[g]
      <4>1. WholeRecordAt[g] = RecordAt[g] /\ g \in DOMAIN WholeRecordAt
        BY <3>1 DEF WholeRecordAt, With
      <4>2. record[g] = Value(g, SubSeq(bytes, 1 + RecordAt[g][1], 1 + RecordAt[g][1] + RecordAt[g][2] - 1))
        <5>1. g # "updated_slot"
          BY <3>1
        <5> QED BY <5>1 DEF DecodeBuildingRecord, With, Fields
      <4>3. Fields(whole, 1, WholeRecordAt)[g] =
                Value(g, SubSeq(whole, 1 + RecordAt[g][1], 1 + RecordAt[g][1] + RecordAt[g][2] - 1))
        BY <4>1 DEF Fields
      <4> HIDE DEF record
      <4> QED BY <2>8, <4>2, <4>3, Zenon
    <3>3. Fields(whole, 1, WholeRecordAt)["updated_slot"] = 0
      <4>1. WholeRecordAt["updated_slot"] = <<48, 8>>
        BY DEF WholeRecordAt, With, SlotAt
      <4>2. 1 + 48 = 49 /\ 1 + 48 + 8 - 1 = 56
        OBVIOUS
      <4>3. Fields(whole, 1, WholeRecordAt)["updated_slot"] =
                Value("updated_slot", SubSeq(whole, 1 + 48, 1 + 48 + 8 - 1))
        BY <3>1, <4>1 DEF Fields
      <4> QED BY <2>4, <2>5, <4>2, <4>3
    <3> HIDE DEF record
    <3> QED BY <2>7, <3>1, <3>2, <3>3
  <2> HIDE DEF record, m
  <2>10. Put(record, RecordLayout) = whole
    <3>1. ReadBy(record, whole, 1, 56, WholeRecordAt)
      BY <2>4, <2>9 DEF ReadBy
    <3>2. WrittenBy(whole, record, RecordLayout)
      BY <2>4, <3>1, RecordAgrees, PutBack, Zenon
    <3> QED BY <3>2 DEF WrittenBy
  <2>11. ClientFrame(m).bytes = whole
    BY <2>1, <2>10, FrameByType DEF Frame
  <2>12. SubSeq(whole, 1, 48) = bytes
    <3>1. 1 \in 1 .. 48 /\ 48 \in 1 .. 48
      OBVIOUS
    <3>2. SubSeq(whole, 1, 48) = SubSeq(bytes, 1, 48)
      BY <2>4, <3>1
    <3>3. SubSeq(bytes, 1, Len(bytes)) = bytes
      BY SubSeqFull
    <3> QED BY <1>3, <3>2, <3>3
  <2>13. m.body.updated_slot = 0
    BY <2>1, <2>7 DEF Message
  <2>14. ExactAnnounce(f, m)
    BY <1>1, <1>3, <2>11, <2>12, <2>13 DEF ExactAnnounce, kLegacyBuildingRecordSize
  <2> QED BY <2>14 DEF m
<1>4. CASE Len(bytes) # 56 /\ Len(bytes) # 48
  <2>1. DecodeAnnounce(f) = Refused("BAD_PAYLOAD_LENGTH")
    BY <1>1, <1>4 DEF DecodeAnnounce, BadLength, kBuildingRecordSize, kLegacyBuildingRecordSize
  <2> QED BY <2>1 DEF ExactAnnounce, Refused
<1> QED BY <1>2, <1>3, <1>4

-----------------------------------------------------------------------------
(* What is received, whatever was sent *)

(* AcceptedFramesAreExact of a frame and what was made of it.               *)
Takes(f, m) ==
    m.type # "error" =>
        IF m.type = "BUILDING_ANNOUNCE" /\ Len(f.bytes) = kLegacyBuildingRecordSize
        THEN m.body.updated_slot = 0 /\ f.bytes = SubSeq(ClientFrame(m).bytes, 1, kLegacyBuildingRecordSize)
        ELSE f = ClientFrame(m)

LEMMA TypesOfDecoded ==
    ASSUME NEW f
    PROVE  /\ DecodeHello(f).type \in {"HELLO", "error"}
           /\ DecodeMove(f).type \in {"MOVE", "error"}
           /\ DecodeDig(f).type \in {"DIG", "error"}
           /\ DecodeDigBatch(f).type \in {"DIG_BATCH", "error"}
           /\ DecodeChat(f).type \in {"CHAT", "error"}
           /\ DecodePlayerIdentity(f).type \in {"PLAYER_IDENTITY", "error"}
           /\ DecodeEquipment(f).type \in {"EQUIPMENT", "error"}
           /\ DecodeRequest(f).type \in {"BUILDING_MANIFEST_REQUEST", "error"}
           /\ DecodeAnnounce(f).type \in {"BUILDING_ANNOUNCE", "error"}
           /\ DecodePong(f).type \in {"PONG", "error"}
<1> USE DEF Message, Refused, BadLength
<1>1. DecodeHello(f).type \in {"HELLO", "error"}
  BY DEF DecodeHello
<1>2. DecodeMove(f).type \in {"MOVE", "error"}
  BY DEF DecodeMove
<1>3. DecodeDig(f).type \in {"DIG", "error"}
  BY DEF DecodeDig
<1>4. DecodeDigBatch(f).type \in {"DIG_BATCH", "error"}
  BY DEF DecodeDigBatch
<1>5. DecodeChat(f).type \in {"CHAT", "error"}
  BY DEF DecodeChat
<1>6. DecodePlayerIdentity(f).type \in {"PLAYER_IDENTITY", "error"}
  BY DEF DecodePlayerIdentity
<1>7. DecodeEquipment(f).type \in {"EQUIPMENT", "error"}
  BY DEF DecodeEquipment
<1>8. DecodeRequest(f).type \in {"BUILDING_MANIFEST_REQUEST", "error"}
  BY DEF DecodeRequest
<1>9. DecodeAnnounce(f).type \in {"BUILDING_ANNOUNCE", "error"}
  BY DEF DecodeAnnounce
<1>10. DecodePong(f).type \in {"PONG", "error"}
  BY DEF DecodePong
<1> QED BY <1>1, <1>2, <1>3, <1>4, <1>5, <1>6, <1>7, <1>8, <1>9, <1>10

LEMMA ReceivedIsTaken ==
    ASSUME NEW type, NEW bytes \in Seq(Byte), NEW f, f = Frame(type, bytes)
    PROVE  Takes(f, Received(f))
<1>1. f.type = type /\ f.bytes = bytes
  BY InFrame
<1>2. ASSUME NEW m, Exact(f, m), m.type # "BUILDING_ANNOUNCE"
      PROVE  Takes(f, m)
  BY <1>2 DEF Exact, Takes
<1>3. ASSUME NEW e
      PROVE  Takes(f, Refused(e))
  BY DEF Takes, Refused
<1>4. CASE type = "HELLO"
  <2>1. Received(f) = DecodeHello(f)
    BY <1>1, <1>4 DEF Received
  <2>2. Exact(f, DecodeHello(f))
    BY <1>4, HelloExact
  <2> QED BY <1>2, <2>1, <2>2, TypesOfDecoded
<1>5. CASE type = "MOVE"
  <2>1. Received(f) = DecodeMove(f)
    BY <1>1, <1>5 DEF Received
  <2>2. Exact(f, DecodeMove(f))
    BY <1>5, MoveExact
  <2> QED BY <1>2, <2>1, <2>2, TypesOfDecoded
<1>6. CASE type = "DIG"
  <2>1. Received(f) = DecodeDig(f)
    BY <1>1, <1>6 DEF Received
  <2>2. Exact(f, DecodeDig(f))
    BY <1>6, DigExact
  <2> QED BY <1>2, <2>1, <2>2, TypesOfDecoded
<1>7. CASE type = "DIG_BATCH"
  <2>1. Received(f) = DecodeDigBatch(f)
    BY <1>1, <1>7 DEF Received
  <2>2. Exact(f, DecodeDigBatch(f))
    BY <1>7, DigBatchExact
  <2> QED BY <1>2, <2>1, <2>2, TypesOfDecoded
<1>8. CASE type = "CHAT"
  <2>1. Received(f) = DecodeChat(f)
    BY <1>1, <1>8 DEF Received
  <2>2. Exact(f, DecodeChat(f))
    BY <1>8, ChatExact
  <2> QED BY <1>2, <2>1, <2>2, TypesOfDecoded
<1>9. CASE type = "PLAYER_IDENTITY"
  <2>1. Received(f) = DecodePlayerIdentity(f)
    BY <1>1, <1>9 DEF Received
  <2>2. Exact(f, DecodePlayerIdentity(f))
    BY <1>9, IdentityExact
  <2> QED BY <1>2, <2>1, <2>2, TypesOfDecoded
<1>10. CASE type = "EQUIPMENT"
  <2>1. Received(f) = DecodeEquipment(f)
    BY <1>1, <1>10 DEF Received
  <2>2. Exact(f, DecodeEquipment(f))
    BY <1>10, EquipmentExact
  <2> QED BY <1>2, <2>1, <2>2, TypesOfDecoded
<1>11. CASE type = "BUILDING_MANIFEST_REQUEST"
  <2>1. Received(f) = DecodeRequest(f)
    BY <1>1, <1>11 DEF Received
  <2>2. Exact(f, DecodeRequest(f))
    BY <1>11, RequestExact
  <2> QED BY <1>2, <2>1, <2>2, TypesOfDecoded
<1>12. CASE type = "BUILDING_ANNOUNCE"
  <2>1. Received(f) = DecodeAnnounce(f)
    BY <1>1, <1>12 DEF Received
  <2>2. ExactAnnounce(f, DecodeAnnounce(f))
    BY <1>12, AnnounceExact
  <2>3. DecodeAnnounce(f).type \in {"BUILDING_ANNOUNCE", "error"}
    BY TypesOfDecoded
  <2> QED BY <2>1, <2>2, <2>3 DEF ExactAnnounce, Takes
<1>13. CASE type = "PONG"
  <2>1. Received(f) = DecodePong(f)
    BY <1>1, <1>13 DEF Received
  <2>2. Exact(f, DecodePong(f))
    BY <1>13, PongExact
  <2> QED BY <1>2, <2>1, <2>2, TypesOfDecoded
<1>14. CASE type = "empty"
  <2>1. Received(f) = Refused("BAD_PAYLOAD_LENGTH")
    BY <1>1, <1>14 DEF Received, BadLength
  <2> QED BY <1>3, <2>1
<1>15. CASE type \notin {"empty", "HELLO", "MOVE", "DIG", "DIG_BATCH", "CHAT", "PLAYER_IDENTITY",
                         "EQUIPMENT", "BUILDING_MANIFEST_REQUEST", "BUILDING_ANNOUNCE", "PONG"}
  <2>1. Received(f) = Refused("BAD_PROTOCOL")
    BY <1>1, <1>15 DEF Received
  <2> QED BY <1>3, <2>1
<1> QED BY <1>4, <1>5, <1>6, <1>7, <1>8, <1>9, <1>10, <1>11, <1>12, <1>13, <1>14, <1>15

-----------------------------------------------------------------------------
(* Parts that are put together are found again. *)

(* Where the parts begin and end in the whole of them.                      *)
Ends(parts, n, cuts) == cuts[0] = 0 /\ \A i \in 1 .. n : cuts[i] = cuts[i - 1] + Len(parts[i])

LEMMA FlattenParts ==
    ASSUME NEW S, NEW parts, NEW n \in Nat \ {0}, Len(parts) = n,
           \A i \in 1 .. n : parts[i] \in Seq(S)
    PROVE  /\ FlattenSeq(parts) \in Seq(S)
           /\ \E cuts \in [0 .. n -> Nat] : /\ Ends(parts, n, cuts)
                                            /\ cuts[n] = Len(FlattenSeq(parts))
                                            /\ Slices(parts, n, FlattenSeq(parts), cuts)
<1> DEFINE T == Seq(S)
           step == [x \in T \X (1 .. n) |-> x[1] \o parts[x[2]]]
<1>1. ASSUME NEW s \in T, NEW i \in 1 .. n
      PROVE  s \o parts[i] \in T
  BY ConcatProperties
<1>2. step \in [T \X (1 .. n) -> T] /\ \A s \in T, i \in 1 .. n : step[<<s, i>>] = s \o parts[i]
  <2> HIDE DEF T
  <2> QED BY <1>1
<1>3. <<>> \in T
  BY EmptySeq
<1> HIDE DEF step, T
<1>4. PICK g \in [0 .. n -> T] : Iterates(g, n, <<>>, step)
  BY <1>2, <1>3, RecursiveFunction
<1>5. g[0] = <<>> /\ \A i \in 1 .. n : g[i] = g[i - 1] \o parts[i] /\ g[i - 1] \in Seq(S) /\ g[i] \in Seq(S)
  <2>1. ASSUME NEW i \in 1 .. n
        PROVE  g[i] = g[i - 1] \o parts[i] /\ g[i - 1] \in Seq(S) /\ g[i] \in Seq(S)
    <3>1. g[i - 1] \in T /\ g[i] \in T
      OBVIOUS
    <3> QED BY <1>2, <1>4, <3>1 DEF Iterates, T
  <2> QED BY <1>4, <2>1 DEF Iterates
<1>6. FlattenSeq(parts) = g[n] /\ g[n] \in Seq(S)
  <2>1. Flattens(g, n, parts)
    <3>1. 1 \in 1 .. n /\ 1 - 1 = 0
      OBVIOUS
    <3>2. g[1] = <<>> \o parts[1]
      BY <1>5, <3>1
    <3>3. <<>> \o parts[1] = parts[1]
      BY <3>1, ConcatEmptySeq
    <3>4. \A i \in 2 .. n : i \in 1 .. n
      OBVIOUS
    <3> QED BY <1>5, <3>2, <3>3, <3>4 DEF Flattens
  <2>2. n \in 1 .. n
    OBVIOUS
  <2> QED BY <1>5, <2>1, <2>2, FlattenComputes
<1> DEFINE cuts == [i \in 0 .. n |-> Len(g[i])]
<1>7. cuts \in [0 .. n -> Nat]
  <2>1. ASSUME NEW i \in 0 .. n
        PROVE  Len(g[i]) \in Nat
    <3>1. g[i] \in Seq(S)
      BY DEF T
    <3> QED BY <3>1, LenProperties
  <2> QED BY <2>1
<1>8. cuts[0] = 0 /\ cuts[n] = Len(g[n])
  BY <1>5
<1>9. ASSUME NEW i \in 1 .. n
      PROVE  cuts[i] = cuts[i - 1] + Len(parts[i]) /\ Len(parts[i]) \in Nat
  <2>1. i \in 0 .. n /\ i - 1 \in 0 .. n
    OBVIOUS
  <2>2. cuts[i] = Len(g[i]) /\ cuts[i - 1] = Len(g[i - 1])
    BY <2>1
  <2>3. Len(g[i - 1] \o parts[i]) = Len(g[i - 1]) + Len(parts[i])
    BY <1>5, ConcatProperties
  <2> QED BY <1>5, <2>2, <2>3, LenProperties
<1> HIDE DEF cuts
(* In every g[k] the parts up to k are found. *)
<1> DEFINE D == {k \in 0 .. n : \A i \in 1 .. k :
                     cuts[i] <= Len(g[k]) /\ parts[i] = SubSeq(g[k], cuts[i - 1] + 1, cuts[i])}
<1>10. \A k \in 0 .. n : k \in D
  <2>1. 0 \in D
    OBVIOUS
  <2>2. ASSUME NEW k \in 0 .. n - 1, k \in D
        PROVE  k + 1 \in D
    <3> DEFINE j == k + 1
               s == g[k]
               t == parts[j]
    <3>1. j \in 1 .. n /\ j - 1 = k /\ j \in 0 .. n /\ k \in 0 .. n /\ k \in Nat
      OBVIOUS
    <3>2. g[j] = s \o t /\ s \in Seq(S) /\ t \in Seq(S)
      <4> HIDE DEF j
      <4> QED BY <1>5, <3>1
    <3>3. cuts[k] = Len(s) /\ cuts[j] = Len(s) + Len(t) /\ Len(s) \in Nat /\ Len(t) \in Nat /\ Len(g[j]) = Len(s) + Len(t)
      <4>1. cuts[k] = Len(s)
        BY <3>1 DEF cuts
      <4> HIDE DEF j
      <4>2. cuts[j] = cuts[k] + Len(t)
        BY <1>9, <3>1
      <4> HIDE DEF s, t
      <4> QED BY <3>2, <4>1, <4>2, LenProperties, ConcatProperties
    <3> HIDE DEF j, s, t
    <3>4. ASSUME NEW i \in 1 .. j
          PROVE  cuts[i] <= Len(g[j]) /\ parts[i] = SubSeq(g[j], cuts[i - 1] + 1, cuts[i])
      <4>1. CASE i = j
        <5>1. SubSeq(s \o t, Len(s) + 1, Len(s) + Len(t)) = t
          BY <3>2, SecondOfConcat
        <5>2. cuts[j - 1] = Len(s) /\ parts[j] = t /\ cuts[j] <= Len(g[j])
          BY <3>1, <3>3 DEF t
        <5>3. parts[j] = SubSeq(g[j], cuts[j - 1] + 1, cuts[j])
          BY <3>2, <3>3, <5>1, <5>2, Zenon
        <5> QED BY <4>1, <5>2, <5>3, Zenon
      <4>2. CASE i # j
        <5> DEFINE a == cuts[i - 1]
                   b == cuts[i]
        <5>1. i \in 1 .. k /\ i \in 1 .. n /\ i - 1 \in 0 .. n /\ i \in 0 .. n
          BY <3>1, <4>2
        <5>2. b <= Len(s) /\ parts[i] = SubSeq(s, a + 1, b)
          BY <2>2, <5>1 DEF s
        <5>3. a \in Nat /\ b \in Nat /\ a <= b
          BY <1>7, <1>9, <5>1
        <5> HIDE DEF a, b
        <5>4. SubSeq(s \o t, a + 1, b) = SubSeq(s, a + 1, b)
          <6>1. CASE a = b
            <7>1. b < a + 1
              BY <5>3, <6>1
            <7> QED BY <5>3, <7>1, SubSeqEmpty
          <6>2. CASE a # b
            <7> DEFINE m == a + 1
            <7>1. m \in 1 .. Len(s) /\ b \in 1 .. Len(s)
              BY <3>3, <5>2, <5>3, <6>2
            <7> HIDE DEF m
            <7>2. SubSeq(s \o t, m, b) = SubSeq(s, m, b)
              BY <3>2, <7>1, SubSeqOfConcat1
            <7> QED BY <7>2 DEF m
          <6> QED BY <6>1, <6>2
        <5>5. b <= Len(s) + Len(t)
          BY <3>3, <5>2, <5>3
        <5> QED BY <3>2, <3>3, <5>2, <5>4, <5>5 DEF a, b
      <4> QED BY <4>1, <4>2
    <3> QED BY <3>1, <3>4 DEF j
  <2> HIDE DEF D
  <2>3. \A k \in 0 .. n - 1 : k \in D => k + 1 \in D
    BY <2>2
  <2> QED BY <2>1, <2>3, UpTo, Zenon
<1>11. Slices(parts, n, g[n], cuts)
  <2>1. ASSUME NEW i \in 1 .. n
        PROVE  /\ cuts[i - 1] \in Nat /\ cuts[i] \in Nat
               /\ cuts[i - 1] <= cuts[i] /\ cuts[i] <= Len(g[n])
               /\ parts[i] = SubSeq(g[n], cuts[i - 1] + 1, cuts[i])
    <3>1. n \in D
      BY <1>10
    <3>2. i - 1 \in 0 .. n /\ i \in 0 .. n
      OBVIOUS
    <3>3. cuts[i] <= Len(g[n]) /\ parts[i] = SubSeq(g[n], cuts[i - 1] + 1, cuts[i])
      BY <3>1
    <3> DEFINE a == cuts[i - 1]
               b == cuts[i]
    <3>4. a \in Nat /\ b \in Nat /\ b = a + Len(parts[i]) /\ Len(parts[i]) \in Nat
      BY <1>7, <1>9, <3>2
    <3>5. a <= b
      <4> HIDE DEF a, b
      <4> QED BY <3>4
    <3> QED BY <3>3, <3>4, <3>5
  <2> QED BY <2>1 DEF Slices
<1>12. Ends(parts, n, cuts)
  BY <1>8, <1>9 DEF Ends
<1> HIDE DEF D
<1> QED BY <1>6, <1>7, <1>8, <1>11, <1>12

-----------------------------------------------------------------------------
(* What is sent is bytes. *)

LEMMA BytesTyped ==
    ASSUME NEW v \in Int, NEW width \in Nat
    PROVE  Bytes(v, width) \in Seq(Byte) /\ Len(Bytes(v, width)) = width
<1>1. ASSUME NEW i \in 1 .. width
      PROVE  (v \div Weight(i - 1)) % Base \in Byte
  <2> DEFINE w == Weight(i - 1)
             q == v \div w
  <2>1. w \in Nat \ {0}
    <3>1. i - 1 \in Nat
      OBVIOUS
    <3> QED BY <3>1, Weights
  <2> HIDE DEF w
  <2>2. q \in Int
    BY <2>1
  <2> HIDE DEF q
  <2>3. q % Base \in Byte
    BY <2>2, BaseIsEven DEF Byte
  <2> QED BY <2>3 DEF q, w
<1> QED BY <1>1 DEF Bytes

(* A struct with what a layout needs.                                       *)
Writable(struct, layout) ==
    /\ Len(layout) \in Nat \ {0}
    /\ \A i \in 1 .. Len(layout) :
          /\ layout[i][2] \in Nat
          /\ IF layout[i][1] \in Arrays THEN struct[layout[i][1]] \in Seq(Byte)
                                        ELSE struct[layout[i][1]] \in Int

LEMMA PutFieldTyped ==
    ASSUME NEW struct, NEW f, NEW width \in Nat,
           IF f \in Arrays THEN struct[f] \in Seq(Byte) ELSE struct[f] \in Int
    PROVE  PutField(struct, f, width) \in Seq(Byte)
<1>1. CASE f \in Arrays
  <2>1. Len(struct[f]) \in Int
    BY <1>1, LenProperties
  <2>2. Bytes(Len(struct[f]), width) \in Seq(Byte)
    BY <2>1, BytesTyped
  <2> QED BY <1>1, <2>2 DEF PutField
<1>2. CASE f \notin Arrays
  BY <1>2, BytesTyped DEF PutField
<1> QED BY <1>1, <1>2

LEMMA PutTyped ==
    ASSUME NEW struct, NEW layout, Writable(struct, layout)
    PROVE  Put(struct, layout) \in Seq(Byte)
<1> DEFINE n == Len(layout)
           parts == Written(struct, layout)
<1>1. n \in Nat \ {0} /\ Len(parts) = n
  BY DEF Writable, Written
<1>2. ASSUME NEW i \in 1 .. n
      PROVE  parts[i] \in Seq(Byte)
  <2>1. parts[i] = PutField(struct, layout[i][1], layout[i][2])
    BY DEF Written
  <2>2. layout[i][2] \in Nat /\ IF layout[i][1] \in Arrays THEN struct[layout[i][1]] \in Seq(Byte)
                                                          ELSE struct[layout[i][1]] \in Int
    BY DEF Writable
  <2> QED BY <2>1, <2>2, PutFieldTyped
<1>3. Put(struct, layout) = FlattenSeq(parts)
  BY DEF Put, Written
<1> HIDE DEF n, parts
<1> QED BY <1>1, <1>2, <1>3, FlattenParts

LEMMA FieldTyped ==
    ASSUME NEW f, NEW width \in Nat, NEW v \in FieldValues(f, width)
    PROVE  IF f \in Arrays THEN v \in Seq(Byte) /\ Len(v) = width ELSE v \in Int
<1> DEFINE w == Weight(width)
           h == w \div 2
<1>1. w \in Nat
  BY Weights
<1> HIDE DEF w
<1>2. h \in Int
  BY <1>1
<1> HIDE DEF h
<1>3. CASE f \in Arrays
  <2>1. v \in [1 .. width -> Byte]
    BY <1>3, FieldKinds DEF FieldValues
  <2> QED BY <1>3, <2>1
<1>4. CASE f \notin Arrays /\ f \in SignedFields
  <2>1. v \in -h .. h - 1
    BY <1>4 DEF FieldValues, h, w
  <2> QED BY <1>2, <1>4, <2>1
<1>5. CASE f \notin Arrays /\ f \notin SignedFields
  <2>1. v \in 0 .. w - 1
    BY <1>5 DEF FieldValues, w
  <2> QED BY <1>1, <1>5, <2>1
<1> QED BY <1>3, <1>4, <1>5

(* A layout of fields of a table, and of texts.                             *)
Served(layout, table, texts) ==
    /\ Len(layout) \in Nat \ {0}
    /\ \A i \in 1 .. Len(layout) :
          /\ layout[i][2] \in Nat
          /\ \/ layout[i][1] \in DOMAIN table /\ table[layout[i][1]][2] \in Nat
             \/ layout[i][1] \in texts /\ layout[i][1] \in Arrays

LEMMA StructWritable ==
    ASSUME NEW struct, NEW table, NEW texts, IsStruct(struct, table, texts),
           NEW layout, Served(layout, table, texts)
    PROVE  Writable(struct, layout)
<1>1. ASSUME NEW i \in 1 .. Len(layout)
      PROVE  /\ layout[i][2] \in Nat
             /\ IF layout[i][1] \in Arrays THEN struct[layout[i][1]] \in Seq(Byte)
                                           ELSE struct[layout[i][1]] \in Int
  <2> DEFINE f == layout[i][1]
             w == table[f][2]
  <2>1. /\ layout[i][2] \in Nat
        /\ \/ f \in DOMAIN table /\ w \in Nat
           \/ f \in texts /\ f \in Arrays
    BY DEF Served
  <2>2. f \in DOMAIN table => struct[f] \in FieldValues(f, w)
    BY DEF IsStruct
  <2>3. f \in texts => struct[f] \in Seq(Byte)
    BY DEF IsStruct
  <2> HIDE DEF f, w
  <2>4. CASE f \in DOMAIN table /\ w \in Nat
    <3>1. IF f \in Arrays THEN struct[f] \in Seq(Byte) /\ Len(struct[f]) = w ELSE struct[f] \in Int
      BY <2>2, <2>4, FieldTyped
    <3> QED BY <2>1, <3>1 DEF f
  <2>5. CASE f \in texts /\ f \in Arrays
    BY <2>1, <2>3, <2>5 DEF f
  <2> QED BY <2>1, <2>4, <2>5
<1> QED BY <1>1 DEF Writable, Served

LEMMA CountedTyped ==
    ASSUME NEW items, NEW S, items \in Seq(S), NEW layout,
           \A item \in S : Writable(item, layout)
    PROVE  Counted(items, layout) \in Seq(Byte)
<1> DEFINE n == Len(items)
           count == IF n > Base - 1 THEN Base - 1 ELSE n
           some == SubSeq(items, 1, count)
           parts == [i \in 1 .. Len(some) |-> Put(some[i], layout)]
<1>1. n \in Nat /\ count \in Nat /\ count <= n
  <2>1. n \in Nat
    BY LenProperties
  <2> HIDE DEF n
  <2> QED BY <2>1, BaseIsEven
<1>2. Counted(items, layout) = Bytes(count, 1) \o PutAll(some, layout)
  BY DEF Counted
<1>3. PutAll(some, layout) = FlattenSeq(parts)
  BY DEF PutAll
<1>4. Bytes(count, 1) \in Seq(Byte)
  <2>1. count \in Int /\ 1 \in Nat
    BY <1>1
  <2> QED BY <2>1, BytesTyped
<1> HIDE DEF count
<1>5. some \in Seq(S) /\ Len(some) = count
  <2>1. \A i \in 1 .. count : items[i] \in S
    BY <1>1, ElementOfSeq
  <2> QED BY <1>1, <2>1, SubSeqProperties
<1> HIDE DEF some
<1>6. FlattenSeq(parts) \in Seq(Byte)
  <2>1. ASSUME NEW i \in 1 .. count
        PROVE  parts[i] \in Seq(Byte)
    <3>1. some[i] \in S /\ parts[i] = Put(some[i], layout)
      BY <1>5, ElementOfSeq
    <3> QED BY <3>1, PutTyped
  <2>2. Len(parts) = count
    BY <1>1, <1>5
  <2>3. CASE count = 0
    <3>1. parts = <<>>
      BY <1>5, <2>3
    <3>2. Len(parts) = 0
      BY <3>1
    <3>3. FlattenSeq(parts) = parts
      BY <3>2 DEF FlattenSeq
    <3> QED BY <3>1, <3>3, EmptySeq
  <2>4. CASE count # 0
    <3>1. count \in Nat \ {0}
      BY <1>1, <2>4
    <3> HIDE DEF parts
    <3> QED BY <2>1, <2>2, <3>1, FlattenParts
  <2> QED BY <2>3, <2>4
<1> HIDE DEF parts
<1> QED BY <1>2, <1>3, <1>4, <1>6, ConcatProperties

LEMMA ClientFrameTyped ==
    ASSUME NEW m, IsMessage(m)
    PROVE  \E bytes \in Seq(Byte) : ClientFrame(m) = Frame(m.type, bytes)
<1> DEFINE b == m.body
<1>1. m = Message(m.type, b)
  BY DEF IsMessage
<1>2. CASE m.type = "HELLO"
  <2>1. IsStruct(b, HelloAt, {})
    BY <1>2 DEF IsMessage
  <2>2. Served(HelloLayout, HelloAt, {})
    BY DEF Served, HelloLayout, HelloAt
  <2>3. Put(b, HelloLayout) \in Seq(Byte)
    BY <2>1, <2>2, StructWritable, PutTyped, Zenon
  <2>4. ClientFrame(m) = Frame("HELLO", Put(b, HelloLayout))
    BY <1>1, <1>2, FrameByType, Zenon
  <2> QED BY <1>2, <2>3, <2>4, Zenon
<1>3. CASE m.type = "MOVE"
  <2>1. IsStruct(b, MoveAt, {})
    BY <1>3 DEF IsMessage
  <2>2. Served(MoveLayout, MoveAt, {})
    BY DEF Served, MoveLayout, MoveAt
  <2>3. Put(b, MoveLayout) \in Seq(Byte)
    BY <2>1, <2>2, StructWritable, PutTyped, Zenon
  <2>4. ClientFrame(m) = Frame("MOVE", Put(b, MoveLayout))
    BY <1>1, <1>3, FrameByType, Zenon
  <2> QED BY <1>3, <2>3, <2>4, Zenon
<1>4. CASE m.type = "DIG"
  <2>1. IsStruct(b, DigAt, {})
    BY <1>4 DEF IsMessage
  <2>2. Served(DigLayout, DigAt, {})
    BY DEF Served, DigLayout, DigAt
  <2>3. Put(b, DigLayout) \in Seq(Byte)
    BY <2>1, <2>2, StructWritable, PutTyped, Zenon
  <2>4. ClientFrame(m) = Frame("DIG", Put(b, DigLayout))
    BY <1>1, <1>4, FrameByType, Zenon
  <2> QED BY <1>4, <2>3, <2>4, Zenon
<1>5. CASE m.type = "DIG_BATCH"
  <2>1. b.items \in Seq(Range(b.items)) /\ \A dig \in Range(b.items) : IsStruct(dig, DigItemAt, {})
    BY <1>5 DEF IsMessage
  <2>2. Served(DigLayout, DigItemAt, {})
    BY DEF Served, DigLayout, DigItemAt
  <2>3. \A dig \in Range(b.items) : Writable(dig, DigLayout)
    BY <2>1, <2>2, StructWritable, Zenon
  <2>4. Counted(b.items, DigLayout) \in Seq(Byte)
    BY <2>1, <2>3, CountedTyped, Zenon
  <2>5. ClientFrame(m) = Frame("DIG_BATCH", Counted(b.items, DigLayout))
    BY <1>1, <1>5, FrameByType, Zenon
  <2> QED BY <1>5, <2>4, <2>5, Zenon
<1>6. CASE m.type = "CHAT"
  <2>1. IsStruct(b, ChatAt, {"message"})
    BY <1>6 DEF IsMessage
  <2>2. Served(ChatLayout, ChatAt, {"message"})
    BY DEF Served, ChatLayout, ChatAt, Arrays
  <2>3. Put(b, ChatLayout) \in Seq(Byte)
    BY <2>1, <2>2, StructWritable, PutTyped, Zenon
  <2>4. ClientFrame(m) = Frame("CHAT", Put(b, ChatLayout))
    BY <1>1, <1>6, FrameByType, Zenon
  <2> QED BY <1>6, <2>3, <2>4, Zenon
<1>7. CASE m.type = "EQUIPMENT"
  <2>1. IsStruct(b, EquipmentAt, {"payload"})
    BY <1>7 DEF IsMessage
  <2>2. Served(EquipmentLayout, EquipmentAt, {"payload"})
    BY DEF Served, EquipmentLayout, EquipmentAt, Arrays
  <2>3. Put(b, EquipmentLayout) \in Seq(Byte)
    BY <2>1, <2>2, StructWritable, PutTyped, Zenon
  <2>4. ClientFrame(m) = Frame("EQUIPMENT", Put(b, EquipmentLayout))
    BY <1>1, <1>7, FrameByType, Zenon
  <2> QED BY <1>7, <2>3, <2>4, Zenon
<1>8. CASE m.type = "PLAYER_IDENTITY"
  <2>1. IsStruct(b, <<>>, {"display_name"})
    BY <1>8 DEF IsMessage
  <2>2. Served(IdentityLayout, <<>>, {"display_name"})
    BY DEF Served, IdentityLayout, Arrays
  <2>3. Put(b, IdentityLayout) \in Seq(Byte)
    BY <2>1, <2>2, StructWritable, PutTyped, Zenon
  <2>4. ClientFrame(m) = Frame("PLAYER_IDENTITY", Put(b, IdentityLayout))
    BY <1>1, <1>8, FrameByType, Zenon
  <2> QED BY <1>8, <2>3, <2>4, Zenon
<1>9. CASE m.type = "BUILDING_MANIFEST_REQUEST"
  <2>1. IsStruct(b, RequestAt, {})
    BY <1>9 DEF IsMessage
  <2>2. Served(RequestLayout, RequestAt, {})
    BY DEF Served, RequestLayout, RequestAt
  <2>3. Put(b, RequestLayout) \in Seq(Byte)
    BY <2>1, <2>2, StructWritable, PutTyped, Zenon
  <2>4. ClientFrame(m) = Frame("BUILDING_MANIFEST_REQUEST", Put(b, RequestLayout))
    BY <1>1, <1>9, FrameByType, Zenon
  <2> QED BY <1>9, <2>3, <2>4, Zenon
<1>10. CASE m.type = "BUILDING_ANNOUNCE"
  <2>1. IsStruct(b, WholeRecordAt, {})
    BY <1>10 DEF IsMessage, WholeRecordAt
  <2>2. Served(RecordLayout, WholeRecordAt, {})
    BY DEF Served, RecordLayout, WholeRecordAt, RecordAt, SlotAt, With
  <2>3. Put(b, RecordLayout) \in Seq(Byte)
    BY <2>1, <2>2, StructWritable, PutTyped, Zenon
  <2>4. ClientFrame(m) = Frame("BUILDING_ANNOUNCE", Put(b, RecordLayout))
    BY <1>1, <1>10, FrameByType, Zenon
  <2> QED BY <1>10, <2>3, <2>4, Zenon
<1>11. CASE m.type = "PONG"
  <2>1. ClientFrame(m) = Frame("PONG", <<>>)
    BY <1>1, <1>11, FrameByType, Zenon
  <2> QED BY <1>11, <2>1, EmptySeq
<1>12. \/ m.type \in {"HELLO", "MOVE", "DIG", "DIG_BATCH", "CHAT", "EQUIPMENT", "PLAYER_IDENTITY"}
       \/ m.type \in {"BUILDING_MANIFEST_REQUEST", "BUILDING_ANNOUNCE", "PONG"}
  BY DEF IsMessage
<1> QED BY <1>2, <1>3, <1>4, <1>5, <1>6, <1>7, <1>8, <1>9, <1>10, <1>11, <1>12

LEMMA NeighbourTyped ==
    ASSUME NEW type, NEW bytes \in Seq(Byte), NEW f, f = Frame(type, bytes), NEW g \in Neighbours(f)
    PROVE  \E t, s : s \in Seq(Byte) /\ g = Frame(t, s)
<1>1. f.type = type /\ f.bytes = bytes /\ Len(bytes) \in Nat /\ DOMAIN bytes = 1 .. Len(bytes)
  BY InFrame, LenProperties
<1>2. CASE g \in {Frame(f.type, SubSeq(f.bytes, 1, n)) : n \in 0 .. Len(f.bytes) - 1}
  <2>1. PICK n \in 0 .. Len(bytes) - 1 : g = Frame(type, SubSeq(bytes, 1, n))
    BY <1>1, <1>2
  <2>2. IsSlice(bytes, 1, n, n)
    BY <1>1 DEF IsSlice
  <2>3. SubSeq(bytes, 1, n) \in Seq(Byte)
    BY <2>2, SliceLong
  <2> QED BY <2>1, <2>3
<1>3. CASE g \in {Frame(f.type, Append(f.bytes, b)) : b \in {0, Base - 1}}
  <2>1. PICK b \in {0, Base - 1} : g = Frame(type, Append(bytes, b))
    BY <1>1, <1>3
  <2>2. b \in Byte
    BY BaseIsEven DEF Byte
  <2>3. Append(bytes, b) \in Seq(Byte)
    BY <2>2, AppendProperties
  <2> QED BY <2>1, <2>3
<1>4. CASE g \in {Frame(f.type, [f.bytes EXCEPT ![i] = (@ + 1) % Base]) : i \in DOMAIN f.bytes}
  <2>1. PICK i \in DOMAIN bytes : g = Frame(type, [bytes EXCEPT ![i] = (bytes[i] + 1) % Base])
    BY <1>1, <1>4
  <2> DEFINE b == bytes[i]
             c == (b + 1) % Base
  <2>2. i \in 1 .. Len(bytes) /\ b \in Byte
    BY <1>1, ElementOfSeq
  <2>3. c \in Byte
    <3> HIDE DEF b
    <3> QED BY <2>2, BaseIsEven DEF Byte
  <2>4. g = Frame(type, [bytes EXCEPT ![i] = c])
    BY <2>1
  <2> HIDE DEF c
  <2>5. [bytes EXCEPT ![i] = c] \in Seq(Byte)
    BY <2>2, <2>3, ExceptSeq
  <2> QED BY <2>4, <2>5
<1>5. CASE g \in {Frame(t, f.bytes) : t \in {"HELLO", "MOVE", "DIG", "CHAT", "PING", "unknown"}}
  BY <1>1, <1>5
<1>6. CASE g \in {Frame("empty", <<>>)}
  <2>1. g = Frame("empty", <<>>)
    BY <1>6
  <2> QED BY <2>1, EmptySeq
<1>7. \/ g \in {Frame(f.type, SubSeq(f.bytes, 1, n)) : n \in 0 .. Len(f.bytes) - 1}
      \/ g \in {Frame(f.type, Append(f.bytes, b)) : b \in {0, Base - 1}}
      \/ g \in {Frame(f.type, [f.bytes EXCEPT ![i] = (@ + 1) % Base]) : i \in DOMAIN f.bytes}
      \/ g \in {Frame(t, f.bytes) : t \in {"HELLO", "MOVE", "DIG", "CHAT", "PING", "unknown"}}
      \/ g \in {Frame("empty", <<>>)}
  BY DEF Neighbours
<1> QED BY <1>2, <1>3, <1>4, <1>5, <1>6, <1>7

(* A frame is bytes, and the Guardian has made of it what it makes of it.   *)
FramesInv ==
    /\ wire = Frame(wire.type, wire.bytes)
    /\ wire.bytes \in Seq(Byte)
    /\ got # NoMessage => got = Received(wire) /\ wire # NoFrame

LEMMA FramesInvInductive ==
    /\ FramesInit => FramesInv
    /\ FramesInv /\ [FramesNext]_frameVars => FramesInv'
<1>1. FramesInit => FramesInv
  BY EmptySeq DEF FramesInit, FramesInv, NoFrame, NoMessage, Frame
<1>2. ASSUME FramesInv, [FramesNext]_frameVars
      PROVE  FramesInv'
  <2>1. CASE ClientSends
    <3>1. meant' \in Messages /\ wire' = ClientFrame(meant')
      BY <2>1 DEF ClientSends
    <3>2. IsMessage(meant')
      BY <3>1, MessagesAssumption
    <3>3. PICK bytes \in Seq(Byte) : wire' = Frame((meant').type, bytes)
      BY <3>1, <3>2, ClientFrameTyped
    <3>4. wire' = Frame((wire').type, (wire').bytes) /\ (wire').bytes \in Seq(Byte)
      BY <3>3 DEF Frame
    <3>5. got' = NoMessage
      BY <1>2, <2>1 DEF ClientSends, FramesInv
    <3> QED BY <3>4, <3>5 DEF FramesInv
  <2>2. CASE ClientSendsOther
    <3>1. wire' \in Neighbours(wire) /\ got' = NoMessage
      BY <2>2 DEF ClientSendsOther
    <3>2. PICK t, s : s \in Seq(Byte) /\ wire' = Frame(t, s)
      BY <1>2, <3>1, NeighbourTyped DEF FramesInv
    <3>3. wire' = Frame((wire').type, (wire').bytes) /\ (wire').bytes \in Seq(Byte)
      BY <3>2 DEF Frame
    <3> QED BY <3>1, <3>3 DEF FramesInv
  <2>3. CASE Receive
    BY <1>2, <2>3 DEF Receive, FramesInv
  <2>4. CASE Relay
    BY <1>2, <2>4 DEF Relay, FramesInv
  <2>5. CASE Say
    BY <1>2, <2>5 DEF Say, FramesInv
  <2>6. CASE Proceed
    BY <2>6, EmptySeq DEF Proceed, FramesInv, NoFrame, Frame
  <2>7. CASE UNCHANGED frameVars
    BY <1>2, <2>7 DEF frameVars, FramesInv
  <2> QED BY <1>2, <2>1, <2>2, <2>3, <2>4, <2>5, <2>6, <2>7 DEF FramesNext
<1> QED BY <1>1, <1>2

LEMMA AlwaysFramesInv == FramesSpec => []FramesInv
BY FramesInvInductive, PTL DEF FramesSpec

-----------------------------------------------------------------------------
(* Numbers that are written and read again *)

(* A remainder is what is less. *)
LEMMA Remainder ==
    ASSUME NEW m \in Nat \ {0}, NEW p \in Int, NEW y \in 0 .. m - 1, NEW x \in Int, x = y + m * p
    PROVE  x % m = y
<1>1. x \div m = p
  OBVIOUS
<1>2. x = m * (x \div m) + (x % m)
  OBVIOUS
<1> QED BY <1>1, <1>2

LEMMA DigitStep ==
    ASSUME NEW w \in Nat \ {0}, NEW b \in Nat \ {0}, NEW v \in Int
    PROVE  v % (b * w) = (v % w) + ((v \div w) % b) * w
<1> DEFINE q == v \div w
           r == v % w
           p == q \div b
           s == q % b
           y == r + s * w
           m == b * w
<1>1. q \in Int /\ r \in 0 .. w - 1 /\ v = w * q + r
  OBVIOUS
<1>2. p \in Int /\ s \in 0 .. b - 1 /\ q = b * p + s
  <2> HIDE DEF q
  <2> QED BY <1>1
<1> HIDE DEF q, r, p, s
<1>3. m \in Nat \ {0}
  OBVIOUS
<1>4. y \in 0 .. m - 1
  <2>1. s * w \in Nat /\ s * w <= (b - 1) * w
    BY <1>2
  <2>2. (b - 1) * w = b * w - w /\ b * w \in Nat
    OBVIOUS
  <2>3. y \in Nat /\ y <= b * w - 1
    <3> DEFINE sw == s * w
               bw == b * w
    <3>1. sw \in Nat /\ bw \in Nat /\ sw <= bw - w /\ r \in 0 .. w - 1
      BY <1>1, <2>1, <2>2
    <3> HIDE DEF sw, bw
    <3>2. r + sw \in Nat /\ r + sw <= bw - 1
      BY <3>1
    <3> QED BY <3>2 DEF sw, bw
  <2> QED BY <1>3, <2>3
<1>5. v = y + m * p
  <2>1. w * q = (b * w) * p + s * w
    <3>1. w * (b * p + s) = (b * w) * p + s * w
      BY <1>2
    <3> QED BY <1>2, <3>1
  <2>2. w * q \in Int /\ s * w \in Int /\ (b * w) * p \in Int /\ r \in Int
    BY <1>1, <1>2
  <2> DEFINE wq == w * q
             sw == s * w
             mp == (b * w) * p
  <2>3. wq \in Int /\ sw \in Int /\ mp \in Int /\ r \in Int /\ wq = mp + sw /\ v = wq + r
    BY <1>1, <2>1, <2>2
  <2> HIDE DEF wq, sw, mp
  <2>4. v = (r + sw) + mp
    BY <2>3
  <2> QED BY <2>4 DEF sw, mp
<1> HIDE DEF y, m
<1>6. v % m = y
  BY <1>2, <1>3, <1>4, <1>5, Remainder
<1> QED BY <1>6 DEF y, m, r, s, q

LEMMA SumsAgree ==
    ASSUME NEW n \in Nat, NEW bytes, NEW f, NEW g, Sums(f, n, bytes), Sums(g, n, bytes)
    PROVE  f[n] = g[n]
<1>1. f[0] = g[0] /\ \A i \in 1 .. n : f[i - 1] = g[i - 1] => f[i] = g[i]
  BY DEF Sums
<1> QED BY <1>1, Agree

(* What is read of the bytes of any number.                                 *)
LEMMA NumberOfBytes ==
    ASSUME NEW v \in Int, NEW n \in Nat
    PROVE  Number(Bytes(v, n)) = v % Weight(n)
<1> DEFINE bytes == Bytes(v, n)
           f == [i \in 0 .. n |-> v % Weight(i)]
<1>1. bytes \in Seq(Byte) /\ Len(bytes) = n
  BY BytesTyped
<1>2. \A i \in 1 .. n : bytes[i] = (v \div Weight(i - 1)) % Base
  BY DEF Bytes
<1> HIDE DEF bytes
<1>3. PICK g \in [0 .. Len(bytes) -> Nat] : Sums(g, Len(bytes), bytes) /\ Number(bytes) = g[Len(bytes)]
  BY <1>1, NumberIsSum
<1>4. Sums(f, n, bytes)
  <2>1. f[0] = 0
    <3>1. 0 \in 0 .. n /\ v % 1 = 0
      OBVIOUS
    <3> QED BY <3>1, Weights
  <2>2. ASSUME NEW i \in 1 .. n
        PROVE  f[i] = f[i - 1] + bytes[i] * Weight(i - 1)
    <3> DEFINE k == i - 1
               w == Weight(k)
    <3>1. k \in Nat /\ k + 1 = i /\ k \in 0 .. n /\ i \in 0 .. n
      OBVIOUS
    <3>2. f[i] = v % Weight(i) /\ f[k] = v % w
      BY <3>1
    <3> HIDE DEF k
    <3>3. w \in Nat \ {0} /\ Weight(k + 1) = Base * w
      BY <3>1, Weights
    <3>4. bytes[i] = (v \div w) % Base
      BY <1>2 DEF k
    <3> HIDE DEF w, f
    <3>5. v % (Base * w) = (v % w) + ((v \div w) % Base) * w
      <4>1. Base \in Nat \ {0}
        BY BaseIsEven
      <4> QED BY <3>3, <4>1, DigitStep, Zenon
    <3>6. f[i] = f[k] + bytes[i] * w
      BY <3>1, <3>2, <3>3, <3>4, <3>5
    <3> QED BY <3>6 DEF k, w
  <2> HIDE DEF f
  <2> QED BY <2>1, <2>2 DEF Sums
<1>5. f[n] = v % Weight(n)
  OBVIOUS
<1> HIDE DEF f
<1>6. Number(bytes) = f[n]
  BY <1>1, <1>3, <1>4, SumsAgree
<1> QED BY <1>5, <1>6 DEF bytes

LEMMA SignedOfBytes ==
    ASSUME NEW n \in Nat \ {0}, NEW v \in Int,
           v >= -(Weight(n) \div 2), v < Weight(n) \div 2
    PROVE  SignedNumber(Bytes(v, n)) = v
<1> DEFINE bytes == Bytes(v, n)
           h == Weight(n) \div 2
           m == 2 * h
           x == Number(bytes)
<1>1. bytes \in Seq(Byte) /\ Len(bytes) = n
  BY BytesTyped
<1>2. h \in Nat \ {0} /\ Weight(n) = m
  BY Halves
<1>3. x = v % m
  BY <1>2, NumberOfBytes
<1>4. SignedNumber(bytes) = ((x + h) % m) - h
  BY <1>1 DEF SignedNumber
<1>5. v >= -h /\ v < h
  OBVIOUS
<1> HIDE DEF h, x, bytes
<1>6. m \in Nat \ {0} /\ v + h \in 0 .. m - 1
  BY <1>2, <1>5
<1> HIDE DEF m
<1>7. PICK p \in Int : x = v + m * p
  <2> DEFINE q == v \div m
  <2>1. q \in Int /\ v = m * q + (v % m) /\ v % m \in Int
    <3>1. m \in Nat \ {0}
      BY <1>6
    <3> QED BY <3>1
  <2> HIDE DEF q
  <2>2. -q \in Int /\ m * (-q) = -(m * q) /\ m * q \in Int
    BY <1>6, <2>1
  <2>3. x = v + m * (-q)
    <3> DEFINE mq == m * q
               y == m * (-q)
    <3>1. mq \in Int /\ y = -mq /\ v = mq + x /\ x \in Int
      BY <1>3, <2>1, <2>2
    <3> HIDE DEF mq, y
    <3>2. x = v + y
      BY <3>1
    <3> QED BY <3>2 DEF y
  <2> QED BY <2>2, <2>3
<1>8. (x + h) % m = v + h
  <2> DEFINE y == v + h
             z == x + h
  <2>1. z = y + m * p /\ z \in Int
    <3> DEFINE mp == m * p
    <3>1. mp \in Int
      BY <1>6
    <3>2. x = v + mp
      BY <1>7
    <3> HIDE DEF mp
    <3>3. z = y + mp /\ z \in Int
      BY <1>2, <3>1, <3>2
    <3> QED BY <3>3 DEF mp
  <2>2. y \in 0 .. m - 1
    BY <1>6
  <2> HIDE DEF y, z
  <2>3. z % m = y
    BY <1>6, <2>1, <2>2, Remainder
  <2> QED BY <2>3 DEF y, z
<1>9. SignedNumber(bytes) = v
  BY <1>2, <1>4, <1>8
<1> QED BY <1>9 DEF bytes

(* Any value of a field, in the bytes that are written of it.               *)
LEMMA ValueBack ==
    ASSUME NEW f, f \notin Arrays, NEW n \in Nat \ {0}, NEW v \in FieldValues(f, n)
    PROVE  v \in Int /\ Value(f, Bytes(v, n)) = v
<1> DEFINE w == Weight(n)
           h == w \div 2
<1>1. w \in Nat \ {0} /\ h \in Nat \ {0} /\ n \in Nat
  BY Weights, Halves
<1> HIDE DEF w
<1>2. CASE f \in SignedFields
  <2>1. v \in -h .. h - 1
    BY <1>2 DEF FieldValues, w
  <2> HIDE DEF h
  <2>2. v \in Int /\ v >= -h /\ v < h
    BY <1>1, <2>1
  <2>3. SignedNumber(Bytes(v, n)) = v
    BY <2>2, SignedOfBytes DEF h, w
  <2> QED BY <1>2, <2>2, <2>3 DEF Value
<1>3. CASE f \notin SignedFields
  <2>1. v \in 0 .. w - 1
    BY <1>3 DEF FieldValues, w
  <2>2. v \in Int /\ v % w = v
    <3>1. v \in Int /\ v = v + w * 0 /\ 0 \in Int
      BY <1>1, <2>1
    <3> QED BY <1>1, <2>1, <3>1, Remainder
  <2>3. Number(Bytes(v, n)) = v
    BY <1>1, <2>2, NumberOfBytes DEF w
  <2> QED BY <1>3, <2>2, <2>3 DEF Value
<1> QED BY <1>2, <1>3

(* What a table finds in what an agreeing layout writes.                    *)
Valued(struct, table) == \A f \in DOMAIN table : struct[f] \in FieldValues(f, table[f][2])

LEMMA PutLong ==
    ASSUME NEW layout, NEW table, Agreeing(layout, table), NEW struct, Valued(struct, table)
    PROVE  LET n == Len(layout)
               at(i) == table[layout[i][1]][1]
               wide(i) == table[layout[i][1]][2]
               bytes == Put(struct, layout)
           IN  /\ bytes \in Seq(Byte)
               /\ Len(bytes) = Behind(layout, table, n) - at(1)
               /\ \A i \in 1 .. n :
                     /\ at(i) >= at(1) /\ at(i) + wide(i) <= Behind(layout, table, n)
                     /\ struct[layout[i][1]] =
                            Value(layout[i][1],
                                  SubSeq(bytes, at(i) - at(1) + 1, at(i) - at(1) + wide(i)))
<1> DEFINE n == Len(layout)
           at(i) == table[layout[i][1]][1]
           wide(i) == table[layout[i][1]][2]
           bytes == Put(struct, layout)
           parts == Written(struct, layout)
<1>1. /\ n \in Nat \ {0}
      /\ \A i \in 1 .. n : at(i) \in Nat /\ wide(i) \in Nat \ {0} /\ layout[i][1] \in DOMAIN table
      /\ \A i \in 2 .. n : at(i) = at(i - 1) + wide(i - 1)
  BY DEF Agreeing, Fit
<1>2. Len(parts) = n /\ bytes = FlattenSeq(parts)
  BY DEF Written, Put, Agreeing
<1>3. ASSUME NEW i \in 1 .. n
      PROVE  /\ parts[i] \in Seq(Byte) /\ Len(parts[i]) = wide(i)
             /\ struct[layout[i][1]] = Value(layout[i][1], parts[i])
  <2> DEFINE f == layout[i][1]
             w == wide(i)
             v == struct[f]
  <2>1. parts[i] = PutField(struct, f, layout[i][2])
    BY DEF Written
  <2>2. layout[i][2] = IF f \in Arrays THEN 0 ELSE w
    BY DEF Agreeing, Fit
  <2>3. w \in Nat \ {0} /\ v \in FieldValues(f, w)
    BY <1>1 DEF Valued
  <2> HIDE DEF f, w, v
  <2>4. CASE f \in Arrays
    <3>1. parts[i] = v
      BY <2>1, <2>2, <2>4 DEF PutField, v
    <3>2. v \in Seq(Byte) /\ Len(v) = w
      BY <2>3, <2>4, FieldTyped
    <3>3. Value(f, v) = v
      BY <2>4, FieldKinds DEF Value
    <3> QED BY <3>1, <3>2, <3>3 DEF f, w, v
  <2>5. CASE f \notin Arrays
    <3>1. v \in Int /\ Value(f, Bytes(v, w)) = v
      BY <2>3, <2>5, ValueBack
    <3>2. parts[i] = Bytes(v, w)
      BY <2>1, <2>2, <2>5 DEF PutField, v
    <3>3. Bytes(v, w) \in Seq(Byte) /\ Len(Bytes(v, w)) = w
      BY <2>3, <3>1, BytesTyped
    <3> QED BY <3>1, <3>2, <3>3 DEF f, w, v
  <2> QED BY <2>4, <2>5
<1>4. PICK cuts \in [0 .. n -> Nat] :
          /\ Ends(parts, n, cuts) /\ cuts[n] = Len(bytes) /\ Slices(parts, n, bytes, cuts)
          /\ bytes \in Seq(Byte)
  <2> HIDE DEF parts, bytes, n
  <2>1. \A i \in 1 .. n : parts[i] \in Seq(Byte)
    BY <1>3
  <2> QED BY <1>1, <1>2, <2>1, FlattenParts
<1> HIDE DEF n, at, wide, bytes, parts
<1> DEFINE D == {i \in 0 .. n - 1 : cuts[i] = at(i + 1) - at(1)}
<1>5. 1 \in 1 .. n /\ n \in 1 .. n /\ at(1) \in Nat
  BY <1>1
<1>6. \A i \in 0 .. n - 1 : i \in D
  <2>1. 0 \in D
    <3>1. cuts[0] = 0 /\ 0 + 1 = 1 /\ 0 \in 0 .. n - 1
      BY <1>1, <1>4 DEF Ends
    <3>2. cuts[0] = at(0 + 1) - at(1)
      BY <1>5, <3>1
    <3> QED BY <3>1, <3>2
  <2>2. ASSUME NEW i \in 0 .. (n - 1) - 1, i \in D
        PROVE  i + 1 \in D
    <3> DEFINE j == i + 1
               k == j + 1
    <3>1. j \in 1 .. n /\ j - 1 = i /\ k \in 2 .. n /\ k - 1 = j /\ j \in 0 .. n - 1
      BY <1>1
    <3>2. cuts[i] = at(j) - at(1)
      BY <2>2
    <3> HIDE DEF j, k
    <3>3. cuts[j] = cuts[i] + wide(j)
      BY <1>3, <1>4, <3>1 DEF Ends
    <3>4. at(k) = at(j) + wide(j) /\ at(j) \in Nat /\ wide(j) \in Nat
      BY <1>1, <3>1
    <3>5. cuts[j] = at(k) - at(1)
      BY <1>5, <3>2, <3>3, <3>4
    <3> QED BY <3>1, <3>5 DEF j, k
  <2>3. n - 1 \in Nat
    BY <1>1
  <2> HIDE DEF D
  <2>4. \A i \in 0 .. (n - 1) - 1 : i \in D => i + 1 \in D
    BY <2>2
  <2> QED BY <2>1, <2>3, <2>4, UpTo, Zenon
<1>7. ASSUME NEW i \in 1 .. n
      PROVE  /\ cuts[i - 1] = at(i) - at(1)
             /\ cuts[i] = at(i) - at(1) + wide(i)
             /\ cuts[i - 1] \in Nat /\ cuts[i] \in Nat
  <2>1. i - 1 \in 0 .. n - 1 /\ (i - 1) + 1 = i /\ i - 1 \in 0 .. n /\ i \in 0 .. n
    BY <1>1
  <2>2. cuts[i - 1] = at(i) - at(1)
    BY <1>6, <2>1
  <2>3. cuts[i] = cuts[i - 1] + wide(i)
    BY <1>3, <1>4 DEF Ends
  <2> QED BY <1>4, <2>1, <2>2, <2>3
<1>8. Behind(layout, table, n) = at(n) + wide(n)
  BY DEF Behind, at, wide
<1>9. Len(bytes) = Behind(layout, table, n) - at(1)
  <2>1. cuts[n] = at(n) - at(1) + wide(n)
    BY <1>5, <1>7
  <2>2. at(n) \in Nat /\ wide(n) \in Nat
    BY <1>1, <1>5
  <2> QED BY <1>4, <1>5, <1>8, <2>1, <2>2
<1>10. ASSUME NEW i \in 1 .. n
       PROVE  /\ at(i) >= at(1) /\ at(i) + wide(i) <= Behind(layout, table, n)
              /\ struct[layout[i][1]] =
                     Value(layout[i][1],
                           SubSeq(bytes, at(i) - at(1) + 1, at(i) - at(1) + wide(i)))
  <2>1. cuts[i - 1] = at(i) - at(1) /\ cuts[i] = at(i) - at(1) + wide(i) /\ cuts[i - 1] \in Nat
    BY <1>7
  <2>2. parts[i] = SubSeq(bytes, cuts[i - 1] + 1, cuts[i]) /\ cuts[i] <= Len(bytes)
    BY <1>4 DEF Slices
  <2>3. struct[layout[i][1]] = Value(layout[i][1], parts[i])
    BY <1>3
  <2>4. at(i) \in Nat /\ wide(i) \in Nat
    BY <1>1
  <2>5. at(i) >= at(1) /\ at(i) + wide(i) <= Behind(layout, table, n)
    <3> DEFINE p == at(i)
               q == wide(i)
               o == at(1)
               c == cuts[i - 1]
               d == cuts[i]
               e == Behind(layout, table, n)
               l == Len(bytes)
    <3>1. c = p - o /\ d = p - o + q /\ c \in Nat /\ d <= l /\ l = e - o
      BY <1>9, <2>1, <2>2
    <3>2. p \in Nat /\ q \in Nat /\ o \in Nat
      BY <1>5, <2>4
    <3>3. e \in Int
      <4>1. at(n) \in Nat /\ wide(n) \in Nat
        BY <1>1, <1>5
      <4> QED BY <1>8, <4>1
    <3> HIDE DEF p, q, o, c, d, e, l
    <3>4. p >= o /\ p + q <= e
      BY <3>1, <3>2, <3>3
    <3> QED BY <3>4 DEF p, q, o, e
  <2>6. struct[layout[i][1]] = Value(layout[i][1], SubSeq(bytes, cuts[i - 1] + 1, cuts[i]))
    BY <2>2, <2>3
  <2> QED BY <2>1, <2>5, <2>6, Zenon
<1> QED BY <1>4, <1>9, <1>10 DEF n, at, wide, bytes

(* What is from a to b in the part from i to j is from c to d in the whole. *)
IsPart(s, i, j, a, b, c, d) ==
    /\ i \in Nat \ {0} /\ j \in Nat /\ j <= Len(s)
    /\ a \in Nat \ {0} /\ b \in Nat
    /\ c = i + a - 1 /\ d = i + b - 1 /\ d <= j

Sliced(t, s, i, j) == t = SubSeq(s, i, j)

LEMMA SliceOfSlice ==
    ASSUME NEW s \in Seq(Byte), NEW i, NEW j, NEW a, NEW b, NEW c, NEW d,
           IsPart(s, i, j, a, b, c, d),
           NEW t, Sliced(t, s, i, j), NEW u, Sliced(u, t, a, b)
    PROVE  Sliced(u, s, c, d)
<1> USE DEF IsPart
<1> DEFINE v == SubSeq(s, c, d)
<1>0. c \in Nat /\ d \in Nat
  OBVIOUS
<1>1. t \in Seq(Byte) /\ \A k \in 1 .. j - i + 1 : t[k] = s[i + k - 1]
  BY DEF Sliced
<1>2. /\ u \in Seq(Byte) /\ v \in Seq(Byte)
      /\ Len(u) = IF a <= b THEN b - a + 1 ELSE 0
      /\ Len(v) = IF a <= b THEN b - a + 1 ELSE 0
  BY DEF Sliced
<1>3. ASSUME NEW k \in 1 .. Len(u)
      PROVE  u[k] = v[k]
  <2>1. k \in 1 .. b - a + 1 /\ a + k - 1 \in 1 .. j - i + 1 /\ k \in 1 .. d - c + 1
    BY <1>2
  <2>2. u[k] = t[a + k - 1]
    <3>1. u = SubSeq(t, a, b) /\ a \in Nat /\ b \in Nat
      BY DEF Sliced
    <3> HIDE DEF IsPart
    <3> QED BY <2>1, <3>1
  <2>3. t[a + k - 1] = s[i + (a + k - 1) - 1]
    BY <1>1, <2>1
  <2>4. v[k] = s[c + k - 1]
    BY <1>0, <2>1
  <2>5. c + k - 1 = i + (a + k - 1) - 1
    BY <2>1
  <2> HIDE DEF v
  <2> QED BY <2>2, <2>3, <2>4, <2>5
<1> HIDE DEF v
<1> QED BY <1>2, <1>3, SeqEqual DEF v, Sliced

(* Where the fields are that a table finds from offset on. *)
Spans(layout, table, offset, first, last) ==
    /\ offset \in Nat
    /\ first = offset + table[layout[1][1]][1] /\ first >= 1
    /\ last = offset + Behind(layout, table, Len(layout)) - 1

(* A struct in the bytes from first to last. *)
Holds(bytes, struct, layout, first, last) ==
    /\ Put(struct, layout) = SubSeq(bytes, first, last)
    /\ last <= Len(bytes)

LEMMA FieldsBack ==
    ASSUME NEW bytes \in Seq(Byte), NEW layout, NEW table, Agreeing(layout, table),
           Covers(layout, table),
           NEW offset, NEW first, NEW last, Spans(layout, table, offset, first, last),
           NEW struct, Valued(struct, table), Holds(bytes, struct, layout, first, last)
    PROVE  Fields(bytes, offset, table) = [f \in DOMAIN table |-> struct[f]]
<1> DEFINE n == Len(layout)
           at(i) == table[layout[i][1]][1]
           wide(i) == table[layout[i][1]][2]
           written == Put(struct, layout)
<1>1. /\ n \in Nat \ {0} /\ at(1) \in Nat
      /\ \A i \in 1 .. n : at(i) \in Nat /\ wide(i) \in Nat \ {0}
  BY DEF Agreeing, Fit
<1>2. /\ Len(written) = Behind(layout, table, n) - at(1)
      /\ written \in Seq(Byte)
      /\ \A i \in 1 .. n :
            /\ at(i) >= at(1) /\ at(i) + wide(i) <= Behind(layout, table, n)
            /\ struct[layout[i][1]] =
                   Value(layout[i][1], SubSeq(written, at(i) - at(1) + 1, at(i) - at(1) + wide(i)))
  BY PutLong
<1>3. /\ written = SubSeq(bytes, first, last) /\ first >= 1 /\ last <= Len(bytes)
      /\ offset \in Nat /\ first = offset + at(1) /\ last = offset + Behind(layout, table, n) - 1
  BY DEF Spans, Holds
<1>4. Behind(layout, table, n) \in Nat /\ Len(bytes) \in Nat
  <2>1. n \in 1 .. n
    BY <1>1
  <2>2. Behind(layout, table, n) = at(n) + wide(n)
    BY DEF Behind
  <2>3. at(n) \in Nat /\ wide(n) \in Nat
    BY <1>1, <2>1
  <2>4. Behind(layout, table, n) \in Nat
    <3> HIDE DEF at, wide, n
    <3> QED BY <2>2, <2>3
  <2>5. Len(bytes) \in Nat
    BY LenProperties
  <2> QED BY <2>4, <2>5
<1> DEFINE e == Behind(layout, table, n)
<1> HIDE DEF n, at, wide, written, e
<1>5. ASSUME NEW i \in 1 .. n
      PROVE  Value(layout[i][1], SubSeq(bytes, offset + at(i), offset + at(i) + wide(i) - 1)) = struct[layout[i][1]]
  <2> DEFINE a == at(i) - at(1) + 1
             b == at(i) - at(1) + wide(i)
  <2>1. at(i) \in Nat /\ wide(i) \in Nat \ {0} /\ at(i) >= at(1) /\ at(i) + wide(i) <= e
    BY <1>1, <1>2 DEF e
  <2>2. first = offset + at(1) /\ last = offset + e - 1 /\ e \in Nat
    BY <1>3, <1>4 DEF e
  <2>3. struct[layout[i][1]] = Value(layout[i][1], SubSeq(written, a, b))
    BY <1>2
  <2> DEFINE p == at(i)
             q == wide(i)
             o == at(1)
             l == Len(bytes)
  <2>4. /\ p \in Nat /\ q \in Nat \ {0} /\ o \in Nat /\ p >= o /\ p + q <= e /\ e \in Nat /\ l \in Nat
        /\ first = offset + o /\ last = offset + e - 1 /\ first >= 1 /\ last <= l
        /\ a = p - o + 1 /\ b = p - o + q
    BY <1>1, <1>3, <1>4, <2>1, <2>2
  <2> HIDE DEF a, b, p, q, o, l
  <2>5. SubSeq(written, a, b) = SubSeq(bytes, offset + p, offset + p + q - 1)
    <3> DEFINE c == offset + p
               d == offset + p + q - 1
    <3>1. c \in Int /\ d \in Int /\ c = offset + p /\ d = offset + p + q - 1 /\ offset \in Nat
      BY <1>3, <2>4
    <3> HIDE DEF c, d
    <3>2. first \in Nat \ {0} /\ last \in Nat /\ a \in Nat \ {0} /\ b \in Nat
      BY <2>4, <3>1
    <3>3. c = first + a - 1 /\ d = first + b - 1 /\ d <= last
      BY <2>4, <3>1
    <3>4. IsPart(bytes, first, last, a, b, c, d)
      BY <2>4, <3>2, <3>3 DEF IsPart, l
    <3>5. SubSeq(written, a, b) = SubSeq(bytes, c, d)
      <4>1. Sliced(written, bytes, first, last) /\ Sliced(SubSeq(written, a, b), written, a, b)
        BY <1>3 DEF Sliced
      <4>2. Sliced(SubSeq(written, a, b), bytes, c, d)
        BY <3>4, <4>1, SliceOfSlice
      <4> QED BY <4>2 DEF Sliced
    <3> QED BY <3>5 DEF c, d
  <2>6. SubSeq(written, a, b) = SubSeq(bytes, offset + at(i), offset + at(i) + wide(i) - 1)
    BY <2>5 DEF p, q
  <2> QED BY <2>3, <2>6, Zenon
<1>6. ASSUME NEW f \in DOMAIN table
      PROVE  Value(f, SubSeq(bytes, offset + table[f][1], offset + table[f][1] + table[f][2] - 1)) = struct[f]
  <2>1. PICK i \in 1 .. n : layout[i][1] = f
    BY DEF Covers, n
  <2>2. at(i) = table[f][1] /\ wide(i) = table[f][2]
    BY <2>1 DEF at, wide
  <2> QED BY <1>5, <2>1, <2>2, Zenon
<1> QED BY <1>6 DEF Fields

LEMMA StructWhole ==
    ASSUME NEW struct, NEW table, IsStruct(struct, table, {})
    PROVE  Valued(struct, table) /\ [f \in DOMAIN table |-> struct[f]] = struct
<1>1. Valued(struct, table)
  BY DEF IsStruct, Valued
<1>2. struct = [f \in DOMAIN table \cup {} |-> struct[f]] /\ DOMAIN table \cup {} = DOMAIN table
  BY DEF IsStruct
<1> QED BY <1>1, <1>2

(* A struct is found again in a frame of its layout. *)
Refilled(struct, layout, table, offset, size) ==
    /\ Put(struct, layout) \in Seq(Byte)
    /\ \A f : f.bytes = Put(struct, layout) => Size(f) = size + 1
    /\ Fields(Put(struct, layout), offset, table) = struct

LEMMA StructBack ==
    ASSUME NEW layout, NEW table, NEW offset, NEW size, Filling(layout, table, offset, size),
           NEW struct, IsStruct(struct, table, {})
    PROVE  Refilled(struct, layout, table, offset, size)
<1>0. /\ Agreeing(layout, table) /\ Covers(layout, table)
      /\ offset \in Nat /\ offset + table[layout[1][1]][1] = 1
      /\ size = offset + Behind(layout, table, Len(layout)) - 1
      /\ Valued(struct, table) /\ [f \in DOMAIN table |-> struct[f]] = struct
  BY StructWhole DEF Filling
<1> DEFINE bytes == Put(struct, layout)
           first == table[layout[1][1]][1]
           behind == Behind(layout, table, Len(layout))
           l == Len(bytes)
<1>1. bytes \in Seq(Byte) /\ l = behind - first
  BY <1>0, PutLong
<1>2. first \in Nat /\ l \in Nat /\ offset \in Nat /\ offset + first = 1 /\ size = offset + behind - 1 /\ behind \in Int
  <2>1. 1 \in 1 .. Len(layout) /\ Len(layout) \in 1 .. Len(layout)
    BY <1>0 DEF Agreeing
  <2>2. first \in Nat /\ behind \in Int
    BY <1>0, <2>1 DEF Agreeing, Fit, Behind
  <2> QED BY <1>0, <1>1, <2>2, LenProperties
<1> HIDE DEF bytes, first, behind, l
<1>3. l = size /\ offset + behind - 1 = l
  BY <1>1, <1>2
<1>4. bytes = SubSeq(bytes, 1, l)
  BY <1>1, SubSeqFull DEF l
<1>5. Fields(bytes, offset, table) = [f \in DOMAIN table |-> struct[f]]
  <2>1. Spans(layout, table, offset, 1, l)
    BY <1>0, <1>2, <1>3 DEF Spans, first, behind
  <2>2. Holds(bytes, struct, layout, 1, l)
    BY <1>2, <1>4 DEF Holds, bytes, l
  <2>4. Fields(bytes, offset, table) = [f \in DOMAIN table |-> struct[f]]
    BY <1>0, <1>1, <2>1, <2>2, FieldsBack
  <2> QED BY <2>4
<1>6. ASSUME NEW f, f.bytes = bytes
      PROVE  Size(f) = size + 1
  <2>1. Size(f) = 1 + l
    BY <1>6 DEF Size, l
  <2> QED BY <1>2, <1>3, <2>1
<1> QED BY <1>0, <1>1, <1>5, <1>6 DEF bytes, Refilled

-----------------------------------------------------------------------------
(* Messages arrive. *)

LEMMA MoveArrives ==
    ASSUME NEW b, IsStruct(b, MoveAt, {}), NEW f, f = Frame("MOVE", Put(b, MoveLayout))
    PROVE  DecodeMove(f) = Message("MOVE", b)
<1> DEFINE bytes == Put(b, MoveLayout)
<1>1. Filling(MoveLayout, MoveAt, 0, 12)
  BY Layouts
<1>2. Refilled(b, MoveLayout, MoveAt, 0, 12)
  BY <1>1, StructBack, Zenon
<1>3. bytes \in Seq(Byte) /\ Fields(bytes, 0, MoveAt) = b
  BY <1>2 DEF Refilled
<1>4. f.bytes = bytes
  BY DEF Frame
<1>5. Size(f) = 13
  <2>1. Size(f) = 12 + 1
    BY <1>2, <1>4 DEF Refilled
  <2> QED BY <2>1
<1> HIDE DEF bytes
<1> QED BY <1>3, <1>4, <1>5 DEF DecodeMove, kMoveSize

LEMMA DigArrives ==
    ASSUME NEW b, IsStruct(b, DigAt, {}), NEW f, f = Frame("DIG", Put(b, DigLayout))
    PROVE  DecodeDig(f) = Message("DIG", b)
<1> DEFINE bytes == Put(b, DigLayout)
<1>1. Filling(DigLayout, DigAt, 0, 10)
  BY Layouts
<1>2. Refilled(b, DigLayout, DigAt, 0, 10)
  BY <1>1, StructBack, Zenon
<1>3. bytes \in Seq(Byte) /\ Fields(bytes, 0, DigAt) = b
  BY <1>2 DEF Refilled
<1>4. f.bytes = bytes
  BY DEF Frame
<1>5. Size(f) = 11
  <2>1. Size(f) = 10 + 1
    BY <1>2, <1>4 DEF Refilled
  <2> QED BY <2>1
<1> HIDE DEF bytes
<1> QED BY <1>3, <1>4, <1>5 DEF DecodeDig, kDigSize

LEMMA RequestArrives ==
    ASSUME NEW b, IsStruct(b, RequestAt, {}), NEW f, f = Frame("BUILDING_MANIFEST_REQUEST", Put(b, RequestLayout))
    PROVE  DecodeRequest(f) = Message("BUILDING_MANIFEST_REQUEST", b)
<1> DEFINE bytes == Put(b, RequestLayout)
<1>1. Filling(RequestLayout, RequestAt, 0, 8)
  BY Layouts
<1>2. Refilled(b, RequestLayout, RequestAt, 0, 8)
  BY <1>1, StructBack, Zenon
<1>3. bytes \in Seq(Byte) /\ Fields(bytes, 0, RequestAt) = b
  BY <1>2 DEF Refilled
<1>4. f.bytes = bytes
  BY DEF Frame
<1>5. Size(f) = 9
  <2>1. Size(f) = 8 + 1
    BY <1>2, <1>4 DEF Refilled
  <2> QED BY <2>1
<1> HIDE DEF bytes
<1> QED BY <1>3, <1>4, <1>5 DEF DecodeRequest, kBuildingManifestRequestSize

LEMMA HelloArrives ==
    ASSUME NEW b, IsStruct(b, HelloAt, {}), NEW f, f = Frame("HELLO", Put(b, HelloLayout))
    PROVE  IF b.protocol_version = 1 /\ ~WalletIsEmpty(b.wallet_pubkey)
           THEN DecodeHello(f) = Message("HELLO", b)
           ELSE DecodeHello(f).type = "error"
<1> DEFINE bytes == Put(b, HelloLayout)
<1>1. Filling(HelloLayout, HelloAt, 0, 51)
  BY Layouts
<1>2. Refilled(b, HelloLayout, HelloAt, 0, 51)
  BY <1>1, StructBack, Zenon
<1>3. bytes \in Seq(Byte) /\ Fields(bytes, 0, HelloAt) = b
  BY <1>2 DEF Refilled
<1>4. f.bytes = bytes
  BY DEF Frame
<1>5. Size(f) = 52
  <2>1. Size(f) = 51 + 1
    BY <1>2, <1>4 DEF Refilled
  <2> QED BY <2>1
<1> HIDE DEF bytes
<1>6. b.protocol_version = bytes[1]
  <2>1. Fields(bytes, 0, HelloAt).protocol_version = Value("protocol_version", SubSeq(bytes, 1, 1))
    BY DEF Fields, HelloAt
  <2>2. Value("protocol_version", SubSeq(bytes, 1, 1)) = Number(SubSeq(bytes, 1, 1))
    BY DEF Value, Arrays, SignedFields
  <2>3. 1 \in 1 .. Len(bytes)
    <3>1. 1 + Len(bytes) = 52 /\ Len(bytes) \in Nat
      BY <1>3, <1>4, <1>5, LenProperties DEF Size
    <3> QED BY <3>1
  <2>4. Number(SubSeq(bytes, 1, 1)) = bytes[1]
    BY <1>3, <2>3, OneByte
  <2> QED BY <1>3, <2>1, <2>2, <2>4
<1>7. CASE bytes[1] = 1 /\ ~WalletIsEmpty(b.wallet_pubkey)
  BY <1>3, <1>4, <1>5, <1>6, <1>7 DEF DecodeHello, kHelloSize
<1>8. CASE ~(bytes[1] = 1 /\ ~WalletIsEmpty(b.wallet_pubkey))
  BY <1>3, <1>4, <1>6, <1>8 DEF DecodeHello, Refused
<1> QED BY <1>7, <1>8

LEMMA PongArrives ==
    ASSUME NEW f, f = Frame("PONG", <<>>)
    PROVE  DecodePong(f) = Message("PONG", [pong |-> TRUE])
<1>1. f.bytes = <<>>
  BY DEF Frame
<1>2. Size(f) = 1
  BY <1>1 DEF Size
<1> QED BY <1>2 DEF DecodePong

LEMMA AnnounceArrives ==
    ASSUME NEW b, IsStruct(b, WholeRecordAt, {}), NEW f, f = Frame("BUILDING_ANNOUNCE", Put(b, RecordLayout))
    PROVE  DecodeAnnounce(f) = Message("BUILDING_ANNOUNCE", b)
<1> DEFINE bytes == Put(b, RecordLayout)
<1>1. Filling(RecordLayout, WholeRecordAt, 1, 56)
  BY RecordAgrees
<1>2. Refilled(b, RecordLayout, WholeRecordAt, 1, 56)
  BY <1>1, StructBack, Zenon
<1>3. bytes \in Seq(Byte) /\ Fields(bytes, 1, WholeRecordAt) = b
  BY <1>2 DEF Refilled
<1>4. f.bytes = bytes
  BY DEF Frame
<1>5. Size(f) = 57
  <2>1. Size(f) = 56 + 1
    BY <1>2, <1>4 DEF Refilled
  <2> QED BY <2>1
<1> HIDE DEF bytes
<1>6. Len(bytes) = 56
  <2> DEFINE l == Len(bytes)
  <2>1. 1 + l = 57 /\ l \in Nat
    BY <1>3, <1>4, <1>5, LenProperties DEF Size
  <2> HIDE DEF l
  <2>2. l = 56
    BY <2>1
  <2> QED BY <2>2 DEF l
<1>7. DecodeBuildingRecord(bytes) = b
  BY <1>3, <1>6 DEF DecodeBuildingRecord, kBuildingRecordSize, WholeRecordAt, With, Fields, RecordAt, SlotAt
<1> QED BY <1>4, <1>6, <1>7 DEF DecodeAnnounce, kBuildingRecordSize

(* The length of a text, if it is short enough for its bytes.               *)
LEMMA LengthBack ==
    ASSUME NEW m \in Nat, NEW width \in Nat \ {0}
    PROVE  /\ Number(Bytes(m, width)) \in Nat
           /\ m <= Weight(width) - 1 => Number(Bytes(m, width)) = m
<1> DEFINE w == Weight(width)
<1>1. w \in Nat \ {0} /\ width \in Nat /\ m \in Int
  BY Weights
<1> HIDE DEF w
<1>2. Number(Bytes(m, width)) = m % w
  BY <1>1, NumberOfBytes DEF w
<1>3. m % w \in Nat
  BY <1>1
<1>4. ASSUME m <= w - 1
      PROVE  m % w = m
  <2>1. m \in 0 .. w - 1 /\ m = m + w * 0 /\ 0 \in Int
    BY <1>1, <1>4
  <2> QED BY <1>1, <2>1, Remainder
<1> QED BY <1>2, <1>3, <1>4 DEF w

LEMMA SmallWeights == Weight(1) = Base /\ Weight(2) = Base * Base
<1>1. 0 \in Nat /\ 1 \in Nat /\ 0 + 1 = 1 /\ 1 + 1 = 2
  OBVIOUS
<1>2. Weight(0) = 1 /\ Weight(0 + 1) = Base * Weight(0) /\ Weight(1 + 1) = Base * Weight(1)
  BY <1>1, Weights, Zenon
<1> QED BY <1>1, <1>2, BaseIsEven

(* What is written, one field after the other, is found again.              *)
StackedAt(struct, layout, cuts, i) ==
    /\ cuts[i] = cuts[i - 1] + Len(PutField(struct, layout[i][1], layout[i][2]))
    /\ SubSeq(Put(struct, layout), cuts[i - 1] + 1, cuts[i]) =
           PutField(struct, layout[i][1], layout[i][2])

Stacked(struct, layout, n, cuts) ==
    /\ cuts[0] = 0
    /\ cuts[n] = Len(Put(struct, layout))
    /\ \A i \in 1 .. n : StackedAt(struct, layout, cuts, i)

LEMMA PutStacks ==
    ASSUME NEW struct, NEW layout, Writable(struct, layout)
    PROVE  /\ Put(struct, layout) \in Seq(Byte)
           /\ \E cuts : Stacked(struct, layout, Len(layout), cuts)
<1> DEFINE n == Len(layout)
           parts == Written(struct, layout)
           bytes == Put(struct, layout)
<1>1. n \in Nat \ {0} /\ Len(parts) = n
  BY DEF Writable, Written
<1>2. ASSUME NEW i \in 1 .. n
      PROVE  parts[i] = PutField(struct, layout[i][1], layout[i][2]) /\ parts[i] \in Seq(Byte)
  <2>1. parts[i] = PutField(struct, layout[i][1], layout[i][2])
    BY DEF Written
  <2>2. layout[i][2] \in Nat /\ IF layout[i][1] \in Arrays THEN struct[layout[i][1]] \in Seq(Byte)
                                                          ELSE struct[layout[i][1]] \in Int
    BY DEF Writable
  <2> QED BY <2>1, <2>2, PutFieldTyped
<1>3. bytes = FlattenSeq(parts)
  BY DEF Put, Written
<1> HIDE DEF n, parts, bytes
<1>4. PICK cuts \in [0 .. n -> Nat] :
          /\ Ends(parts, n, cuts) /\ cuts[n] = Len(bytes) /\ Slices(parts, n, bytes, cuts)
          /\ bytes \in Seq(Byte)
  BY <1>1, <1>2, <1>3, FlattenParts
<1>5. ASSUME NEW i \in 1 .. n
      PROVE  StackedAt(struct, layout, cuts, i)
  <2>2. parts[i] = SubSeq(bytes, cuts[i - 1] + 1, cuts[i])
    BY <1>4 DEF Slices
  <2>3. cuts[i] = cuts[i - 1] + Len(parts[i])
    BY <1>4 DEF Ends
  <2> QED BY <1>2, <2>2, <2>3 DEF StackedAt, bytes
<1>6. cuts[0] = 0
  BY <1>4 DEF Ends
<1>7. Stacked(struct, layout, n, cuts)
  BY <1>4, <1>5, <1>6 DEF Stacked, bytes
<1> QED BY <1>4, <1>7 DEF bytes, n

LEMMA ChatArrives ==
    ASSUME NEW b, IsStruct(b, ChatAt, {"message"}), NEW f, f = Frame("CHAT", Put(b, ChatLayout))
    PROVE  IF Len(b.message) \in 1 .. kMaxChatBytes THEN DecodeChat(f) = Message("CHAT", b)
                                                    ELSE DecodeChat(f).type = "error"
<1> DEFINE bytes == Put(b, ChatLayout)
           m == Len(b.message)
           length == bytes[3]
<1>1. /\ b.seq \in FieldValues("seq", 2) /\ b.message \in Seq(Byte)
      /\ b = [g \in {"seq", "message"} |-> b[g]]
  BY DEF IsStruct, ChatAt
<1>2. m \in Nat /\ Len(Bytes(m, 1)) = 1
  <2>1. m \in Nat
    BY <1>1, LenProperties
  <2>2. m \in Int /\ 1 \in Nat
    BY <2>1
  <2> HIDE DEF m
  <2> QED BY <2>1, <2>2, BytesTyped, Zenon
<1>3. Value("seq", Bytes(b.seq, 2)) = b.seq /\ Len(Bytes(b.seq, 2)) = 2
  <2>1. "seq" \notin Arrays /\ 2 \in Nat \ {0} /\ 2 \in Nat
    BY DEF Arrays
  <2>2. b.seq \in Int /\ Value("seq", Bytes(b.seq, 2)) = b.seq
    BY <1>1, <2>1, ValueBack, Zenon
  <2> QED BY <2>1, <2>2, BytesTyped, Zenon
<1>4. PICK cuts : Stacked(b, ChatLayout, 3, cuts) /\ bytes \in Seq(Byte)
  <2>1. Served(ChatLayout, ChatAt, {"message"}) /\ Len(ChatLayout) = 3
    BY DEF Served, ChatLayout, ChatAt, Arrays
  <2> QED BY <2>1, StructWritable, PutStacks
<1>5. /\ PutField(b, "seq", 2) = Bytes(b.seq, 2)
      /\ PutField(b, "message", 1) = Bytes(m, 1)
      /\ PutField(b, "message", 0) = b.message
  BY DEF PutField, Arrays
<1> HIDE DEF bytes, m
<1>6. /\ Len(bytes) = 3 + m
      /\ SubSeq(bytes, 1, 2) = Bytes(b.seq, 2)
      /\ SubSeq(bytes, 3, 3) = Bytes(m, 1)
      /\ SubSeq(bytes, 4, Len(bytes)) = b.message
  <2>1. /\ 1 \in 1 .. 3 /\ 2 \in 1 .. 3 /\ 3 \in 1 .. 3
        /\ ChatLayout[1][1] = "seq" /\ ChatLayout[1][2] = 2
        /\ ChatLayout[2][1] = "message" /\ ChatLayout[2][2] = 1
        /\ ChatLayout[3][1] = "message" /\ ChatLayout[3][2] = 0
    BY DEF ChatLayout
  <2>2. cuts[0] = 0 /\ cuts[3] = Len(bytes)
    BY <1>4 DEF Stacked, bytes
  <2>3. /\ cuts[1] = cuts[0] + 2 /\ cuts[2] = cuts[1] + 1 /\ cuts[3] = cuts[2] + m
        /\ SubSeq(bytes, cuts[0] + 1, cuts[1]) = Bytes(b.seq, 2)
        /\ SubSeq(bytes, cuts[1] + 1, cuts[2]) = Bytes(m, 1)
        /\ SubSeq(bytes, cuts[2] + 1, cuts[3]) = b.message
    <3>1. /\ StackedAt(b, ChatLayout, cuts, 1)
          /\ StackedAt(b, ChatLayout, cuts, 2)
          /\ StackedAt(b, ChatLayout, cuts, 3)
      BY <1>4, <2>1 DEF Stacked
    <3>2. 1 - 1 = 0 /\ 2 - 1 = 1 /\ 3 - 1 = 2
      OBVIOUS
    <3> QED BY <1>2, <1>3, <1>5, <2>1, <3>1, <3>2 DEF StackedAt, bytes, m
  <2> QED BY <1>2, <2>2, <2>3
<1>7. length = Number(Bytes(m, 1))
  <2>1. 3 \in 1 .. Len(bytes)
    BY <1>2, <1>6
  <2> QED BY <1>4, <1>6, <2>1, OneByte
<1>8. length \in Nat /\ (m <= Base - 1 => length = m)
  <2>1. 1 \in Nat \ {0}
    OBVIOUS
  <2>2. Number(Bytes(m, 1)) \in Nat /\ (m <= Weight(1) - 1 => Number(Bytes(m, 1)) = m)
    BY <1>2, <2>1, LengthBack, Zenon
  <2> QED BY <1>7, <2>2, SmallWeights
<1>9. f.bytes = bytes
  BY DEF Frame, bytes
<1>10. Size(f) = 4 + m
  BY <1>2, <1>6, <1>9 DEF Size
<1>11. With(Fields(bytes, 0, ChatAt), "message", Rest(f, 4)) = b
  <2>1. Rest(f, 4) = b.message
    BY <1>6, <1>9 DEF Rest
  <2>2. DOMAIN Fields(bytes, 0, ChatAt) = {"seq"} /\ Fields(bytes, 0, ChatAt)["seq"] = b.seq
    <3>1. Fields(bytes, 0, ChatAt)["seq"] = Value("seq", SubSeq(bytes, 1, 2))
      BY DEF Fields, ChatAt
    <3>2. DOMAIN Fields(bytes, 0, ChatAt) = {"seq"}
      BY DEF Fields, ChatAt
    <3> QED BY <1>3, <1>6, <3>1, <3>2
  <2> QED BY <1>1, <2>1, <2>2 DEF With
<1>12. HasRest(f, 4, length) <=> length = m
  BY <1>2, <1>8, <1>10 DEF HasRest
<1>13. ~(Size(f) < 4)
  BY <1>2, <1>10
<1> HIDE DEF length
<1>14. CASE m \in 1 .. kMaxChatBytes
  <2>1. length = m
    BY <1>8, <1>14, LimitsAssumption
  <2>2. DecodeChat(f) = Message("CHAT", b)
    BY <1>9, <1>11, <1>12, <1>13, <1>14, <2>1 DEF DecodeChat, kChatHeaderSize, length
  <2> QED BY <1>14, <2>2 DEF m
<1>15. CASE m \notin 1 .. kMaxChatBytes
  <2>1. ~(length \in 1 .. kMaxChatBytes /\ HasRest(f, 4, length))
    BY <1>12, <1>15
  <2>2. DecodeChat(f) = BadLength
    BY <1>9, <1>13, <2>1 DEF DecodeChat, kChatHeaderSize, length
  <2> QED BY <1>15, <2>2 DEF m, BadLength, Refused
<1> QED BY <1>14, <1>15

LEMMA IdentityArrives ==
    ASSUME NEW b, IsStruct(b, <<>>, {"display_name"}),
           NEW f, f = Frame("PLAYER_IDENTITY", Put(b, IdentityLayout))
    PROVE  IF Len(b.display_name) <= kMaxPlayerIdentityNameBytes
           THEN DecodePlayerIdentity(f) = Message("PLAYER_IDENTITY", b)
           ELSE DecodePlayerIdentity(f).type = "error"
<1> DEFINE bytes == Put(b, IdentityLayout)
           m == Len(b.display_name)
           length == bytes[1]
<1>1. b.display_name \in Seq(Byte) /\ b = [display_name |-> b.display_name]
  <2>1. DOMAIN <<>> \cup {"display_name"} = {"display_name"}
    OBVIOUS
  <2>2. b.display_name \in Seq(Byte) /\ b = [g \in DOMAIN <<>> \cup {"display_name"} |-> b[g]]
    BY DEF IsStruct
  <2> QED BY <2>1, <2>2
<1>2. m \in Nat /\ Len(Bytes(m, 1)) = 1
  <2>1. m \in Nat
    BY <1>1, LenProperties
  <2>2. m \in Int /\ 1 \in Nat
    BY <2>1
  <2> HIDE DEF m
  <2> QED BY <2>1, <2>2, BytesTyped, Zenon
<1>3. PICK cuts : Stacked(b, IdentityLayout, 2, cuts) /\ bytes \in Seq(Byte)
  <2>1. Served(IdentityLayout, <<>>, {"display_name"}) /\ Len(IdentityLayout) = 2
    BY DEF Served, IdentityLayout, Arrays
  <2> QED BY <2>1, StructWritable, PutStacks
<1>4. /\ PutField(b, "display_name", 1) = Bytes(m, 1)
      /\ PutField(b, "display_name", 0) = b.display_name
  BY DEF PutField, Arrays
<1> HIDE DEF bytes, m
<1>5. /\ Len(bytes) = 1 + m
      /\ SubSeq(bytes, 1, 1) = Bytes(m, 1)
      /\ SubSeq(bytes, 2, Len(bytes)) = b.display_name
  <2>1. /\ 1 \in 1 .. 2 /\ 2 \in 1 .. 2
        /\ IdentityLayout[1][1] = "display_name" /\ IdentityLayout[1][2] = 1
        /\ IdentityLayout[2][1] = "display_name" /\ IdentityLayout[2][2] = 0
    BY DEF IdentityLayout
  <2>2. cuts[0] = 0 /\ cuts[2] = Len(bytes)
    BY <1>3 DEF Stacked, bytes
  <2>3. /\ cuts[1] = cuts[0] + 1 /\ cuts[2] = cuts[1] + m
        /\ SubSeq(bytes, cuts[0] + 1, cuts[1]) = Bytes(m, 1)
        /\ SubSeq(bytes, cuts[1] + 1, cuts[2]) = b.display_name
    <3>1. StackedAt(b, IdentityLayout, cuts, 1) /\ StackedAt(b, IdentityLayout, cuts, 2)
      BY <1>3, <2>1 DEF Stacked
    <3>2. 1 - 1 = 0 /\ 2 - 1 = 1
      OBVIOUS
    <3> QED BY <1>2, <1>4, <2>1, <3>1, <3>2 DEF StackedAt, bytes, m
  <2> QED BY <1>2, <2>2, <2>3
<1>6. length = Number(Bytes(m, 1))
  <2>1. 1 \in 1 .. Len(bytes)
    BY <1>2, <1>5
  <2> QED BY <1>3, <1>5, <2>1, OneByte
<1>7. length \in Nat /\ (m <= Base - 1 => length = m)
  <2>1. 1 \in Nat \ {0}
    OBVIOUS
  <2>2. Number(Bytes(m, 1)) \in Nat /\ (m <= Weight(1) - 1 => Number(Bytes(m, 1)) = m)
    BY <1>2, <2>1, LengthBack, Zenon
  <2> QED BY <1>6, <2>2, SmallWeights
<1>8. f.bytes = bytes
  BY DEF Frame, bytes
<1>9. Size(f) = 2 + m
  BY <1>2, <1>5, <1>8 DEF Size
<1>10. [display_name |-> Rest(f, 2)] = b
  <2>1. Rest(f, 2) = b.display_name
    BY <1>5, <1>8 DEF Rest
  <2> QED BY <1>1, <2>1
<1>11. HasRest(f, 2, length) <=> length = m
  BY <1>2, <1>7, <1>9 DEF HasRest
<1>12. ~(Size(f) < 2)
  BY <1>2, <1>9
<1> HIDE DEF length
<1>13. CASE m <= kMaxPlayerIdentityNameBytes
  <2>1. length = m
    BY <1>2, <1>7, <1>13, BaseIsEven, LimitsAssumption
  <2>2. DecodePlayerIdentity(f) = Message("PLAYER_IDENTITY", b)
    BY <1>8, <1>10, <1>11, <1>12, <1>13, <2>1 DEF DecodePlayerIdentity, kPlayerIdentityHeaderSize, length
  <2> QED BY <1>13, <2>2 DEF m
<1>14. CASE ~(m <= kMaxPlayerIdentityNameBytes)
  <2>1. ~(length <= kMaxPlayerIdentityNameBytes /\ HasRest(f, 2, length))
    BY <1>11, <1>14
  <2>2. DecodePlayerIdentity(f) = BadLength
    BY <1>8, <1>12, <2>1 DEF DecodePlayerIdentity, kPlayerIdentityHeaderSize, length
  <2> QED BY <1>14, <2>2 DEF m, BadLength, Refused
<1> QED BY <1>13, <1>14

(* A number in the bytes that are written of it. *)
GoesBack(struct, g, w) ==
    Len(PutField(struct, g, w)) = w /\ Value(g, PutField(struct, g, w)) = struct[g]

LEMMA FieldWritten ==
    ASSUME NEW struct, NEW g, g \notin Arrays, NEW w \in Nat \ {0}, struct[g] \in FieldValues(g, w)
    PROVE  GoesBack(struct, g, w)
<1> DEFINE v == struct[g]
<1>1. PutField(struct, g, w) = Bytes(v, w) /\ v \in FieldValues(g, w) /\ w \in Nat
  BY DEF PutField
<1> HIDE DEF v
<1>2. v \in Int /\ Value(g, Bytes(v, w)) = v
  BY <1>1, ValueBack
<1>3. Len(Bytes(v, w)) = w
  BY <1>1, <1>2, BytesTyped
<1> QED BY <1>1, <1>2, <1>3 DEF v, GoesBack

LEMMA EquipmentArrives ==
    ASSUME NEW b, IsStruct(b, EquipmentAt, {"payload"}),
           NEW f, f = Frame("EQUIPMENT", Put(b, EquipmentLayout))
    PROVE  IF Len(b.payload) <= kMaxEquipmentPayloadBytes /\ b.right_hand_kind <= 3
           THEN DecodeEquipment(f) = Message("EQUIPMENT", b)
           ELSE DecodeEquipment(f).type = "error"
<1> DEFINE bytes == Put(b, EquipmentLayout)
           m == Len(b.payload)
           length == Number(SubSeq(bytes, 6, 7))
<1>1. /\ b.seq \in FieldValues("seq", 2)
      /\ b.right_hand_kind \in FieldValues("right_hand_kind", 1)
      /\ b.right_hand_variant \in FieldValues("right_hand_variant", 1)
      /\ b.flags \in FieldValues("flags", 1)
      /\ b.design_hash \in FieldValues("design_hash", 4)
      /\ b.payload \in Seq(Byte)
      /\ b = [g \in {"seq", "right_hand_kind", "right_hand_variant", "flags", "design_hash",
                     "payload"} |-> b[g]]
  BY DEF IsStruct, EquipmentAt
<1>2. m \in Nat /\ Len(Bytes(m, 2)) = 2
  <2>1. m \in Nat
    BY <1>1, LenProperties
  <2>2. m \in Int /\ 2 \in Nat
    BY <2>1
  <2> HIDE DEF m
  <2> QED BY <2>1, <2>2, BytesTyped, Zenon
<1>3. /\ "seq" \notin Arrays /\ "right_hand_kind" \notin Arrays /\ "right_hand_variant" \notin Arrays
      /\ "flags" \notin Arrays /\ "design_hash" \notin Arrays /\ "payload" \in Arrays
      /\ 1 \in Nat \ {0} /\ 2 \in Nat \ {0} /\ 4 \in Nat \ {0}
  BY DEF Arrays
<1> DEFINE at(g, w) == PutField(b, g, w)
<1>4. /\ Len(at("seq", 2)) = 2 /\ Value("seq", at("seq", 2)) = b.seq
      /\ Len(at("right_hand_kind", 1)) = 1
      /\ Value("right_hand_kind", at("right_hand_kind", 1)) = b.right_hand_kind
      /\ Len(at("right_hand_variant", 1)) = 1
      /\ Value("right_hand_variant", at("right_hand_variant", 1)) = b.right_hand_variant
      /\ Len(at("flags", 1)) = 1 /\ Value("flags", at("flags", 1)) = b.flags
      /\ Len(at("design_hash", 4)) = 4 /\ Value("design_hash", at("design_hash", 4)) = b.design_hash
  <2>1. /\ GoesBack(b, "seq", 2) /\ GoesBack(b, "right_hand_kind", 1)
        /\ GoesBack(b, "right_hand_variant", 1) /\ GoesBack(b, "flags", 1)
        /\ GoesBack(b, "design_hash", 4)
    BY <1>1, <1>3, FieldWritten, Zenon
  <2> QED BY <2>1 DEF GoesBack
<1>5. at("payload", 2) = Bytes(m, 2) /\ at("payload", 0) = b.payload
  BY <1>3 DEF PutField
<1>6. PICK cuts : Stacked(b, EquipmentLayout, 7, cuts) /\ bytes \in Seq(Byte)
  <2>1. Served(EquipmentLayout, EquipmentAt, {"payload"}) /\ Len(EquipmentLayout) = 7
    BY DEF Served, EquipmentLayout, EquipmentAt, Arrays
  <2> QED BY <2>1, StructWritable, PutStacks
<1> HIDE DEF bytes, m
<1>7. /\ Len(bytes) = 11 + m
      /\ SubSeq(bytes, 1, 2) = at("seq", 2)
      /\ SubSeq(bytes, 3, 3) = at("right_hand_kind", 1)
      /\ SubSeq(bytes, 4, 4) = at("right_hand_variant", 1)
      /\ SubSeq(bytes, 5, 5) = at("flags", 1)
      /\ SubSeq(bytes, 6, 7) = Bytes(m, 2)
      /\ SubSeq(bytes, 8, 11) = at("design_hash", 4)
      /\ SubSeq(bytes, 12, Len(bytes)) = b.payload
  <2>1. /\ \A i \in {1, 2, 3, 4, 5, 6, 7} : i \in 1 .. 7
        /\ EquipmentLayout[1][1] = "seq" /\ EquipmentLayout[1][2] = 2
        /\ EquipmentLayout[2][1] = "right_hand_kind" /\ EquipmentLayout[2][2] = 1
        /\ EquipmentLayout[3][1] = "right_hand_variant" /\ EquipmentLayout[3][2] = 1
        /\ EquipmentLayout[4][1] = "flags" /\ EquipmentLayout[4][2] = 1
        /\ EquipmentLayout[5][1] = "payload" /\ EquipmentLayout[5][2] = 2
        /\ EquipmentLayout[6][1] = "design_hash" /\ EquipmentLayout[6][2] = 4
        /\ EquipmentLayout[7][1] = "payload" /\ EquipmentLayout[7][2] = 0
    BY DEF EquipmentLayout
  <2>2. cuts[0] = 0 /\ cuts[7] = Len(bytes)
    BY <1>6 DEF Stacked, bytes
  <2>3. \A i \in {1, 2, 3, 4, 5, 6, 7} : StackedAt(b, EquipmentLayout, cuts, i)
    BY <1>6, <2>1 DEF Stacked
  <2> HIDE DEF at
  <2>4. cuts[1] = 2 /\ SubSeq(bytes, 1, 2) = at("seq", 2)
    <3>1. StackedAt(b, EquipmentLayout, cuts, 1) /\ 1 - 1 = 0
      BY <2>3
    <3>2. cuts[1] = cuts[0] + Len(at("seq", 2)) /\ SubSeq(bytes, cuts[0] + 1, cuts[1]) = at("seq", 2)
      BY <2>1, <3>1 DEF StackedAt, bytes, at
    <3>3. cuts[1] = 2 /\ 0 + 1 = 1
      <4>1. Len(at("seq", 2)) = 2
        BY <1>4
      <4>2. cuts[0] = 0 /\ cuts[1] = cuts[0] + Len(at("seq", 2))
        BY <2>2, <3>2
      <4>3. cuts[1] = 0 + 2
        BY <4>1, <4>2, Zenon
      <4>4. 0 + 2 = 2 /\ 0 + 1 = 1
        OBVIOUS
      <4> QED BY <4>3, <4>4, Zenon
    <3> QED BY <1>5, <2>2, <3>2, <3>3, Zenon
  <2>5. cuts[2] = 3 /\ SubSeq(bytes, 3, 3) = at("right_hand_kind", 1)
    <3>1. StackedAt(b, EquipmentLayout, cuts, 2) /\ 2 - 1 = 1
      BY <2>3
    <3>2. cuts[2] = cuts[1] + Len(at("right_hand_kind", 1)) /\ SubSeq(bytes, cuts[1] + 1, cuts[2]) = at("right_hand_kind", 1)
      BY <2>1, <3>1 DEF StackedAt, bytes, at
    <3>3. cuts[2] = 3 /\ 2 + 1 = 3
      <4>1. Len(at("right_hand_kind", 1)) = 1
        BY <1>4
      <4>2. cuts[1] = 2 /\ cuts[2] = cuts[1] + Len(at("right_hand_kind", 1))
        BY <2>4, <3>2
      <4>3. cuts[2] = 2 + 1
        BY <4>1, <4>2, Zenon
      <4>4. 2 + 1 = 3 /\ 2 + 1 = 3
        OBVIOUS
      <4> QED BY <4>3, <4>4, Zenon
    <3> QED BY <1>5, <2>4, <3>2, <3>3, Zenon
  <2>6. cuts[3] = 4 /\ SubSeq(bytes, 4, 4) = at("right_hand_variant", 1)
    <3>1. StackedAt(b, EquipmentLayout, cuts, 3) /\ 3 - 1 = 2
      BY <2>3
    <3>2. cuts[3] = cuts[2] + Len(at("right_hand_variant", 1)) /\ SubSeq(bytes, cuts[2] + 1, cuts[3]) = at("right_hand_variant", 1)
      BY <2>1, <3>1 DEF StackedAt, bytes, at
    <3>3. cuts[3] = 4 /\ 3 + 1 = 4
      <4>1. Len(at("right_hand_variant", 1)) = 1
        BY <1>4
      <4>2. cuts[2] = 3 /\ cuts[3] = cuts[2] + Len(at("right_hand_variant", 1))
        BY <2>5, <3>2
      <4>3. cuts[3] = 3 + 1
        BY <4>1, <4>2, Zenon
      <4>4. 3 + 1 = 4 /\ 3 + 1 = 4
        OBVIOUS
      <4> QED BY <4>3, <4>4, Zenon
    <3> QED BY <1>5, <2>5, <3>2, <3>3, Zenon
  <2>7. cuts[4] = 5 /\ SubSeq(bytes, 5, 5) = at("flags", 1)
    <3>1. StackedAt(b, EquipmentLayout, cuts, 4) /\ 4 - 1 = 3
      BY <2>3
    <3>2. cuts[4] = cuts[3] + Len(at("flags", 1)) /\ SubSeq(bytes, cuts[3] + 1, cuts[4]) = at("flags", 1)
      BY <2>1, <3>1 DEF StackedAt, bytes, at
    <3>3. cuts[4] = 5 /\ 4 + 1 = 5
      <4>1. Len(at("flags", 1)) = 1
        BY <1>4
      <4>2. cuts[3] = 4 /\ cuts[4] = cuts[3] + Len(at("flags", 1))
        BY <2>6, <3>2
      <4>3. cuts[4] = 4 + 1
        BY <4>1, <4>2, Zenon
      <4>4. 4 + 1 = 5 /\ 4 + 1 = 5
        OBVIOUS
      <4> QED BY <4>3, <4>4, Zenon
    <3> QED BY <1>5, <2>6, <3>2, <3>3, Zenon
  <2>8. cuts[5] = 7 /\ SubSeq(bytes, 6, 7) = Bytes(m, 2)
    <3>1. StackedAt(b, EquipmentLayout, cuts, 5) /\ 5 - 1 = 4
      BY <2>3
    <3>2. cuts[5] = cuts[4] + Len(at("payload", 2)) /\ SubSeq(bytes, cuts[4] + 1, cuts[5]) = at("payload", 2)
      BY <2>1, <3>1 DEF StackedAt, bytes, at
    <3>3. cuts[5] = 7 /\ 5 + 1 = 6
      <4>1. Len(at("payload", 2)) = 2
        BY <1>2, <1>5
      <4>2. cuts[4] = 5 /\ cuts[5] = cuts[4] + Len(at("payload", 2))
        BY <2>7, <3>2
      <4>3. cuts[5] = 5 + 2
        BY <4>1, <4>2, Zenon
      <4>4. 5 + 2 = 7 /\ 5 + 1 = 6
        OBVIOUS
      <4> QED BY <4>3, <4>4, Zenon
    <3> QED BY <1>5, <2>7, <3>2, <3>3, Zenon
  <2>9. cuts[6] = 11 /\ SubSeq(bytes, 8, 11) = at("design_hash", 4)
    <3>1. StackedAt(b, EquipmentLayout, cuts, 6) /\ 6 - 1 = 5
      BY <2>3
    <3>2. cuts[6] = cuts[5] + Len(at("design_hash", 4)) /\ SubSeq(bytes, cuts[5] + 1, cuts[6]) = at("design_hash", 4)
      BY <2>1, <3>1 DEF StackedAt, bytes, at
    <3>3. cuts[6] = 11 /\ 7 + 1 = 8
      <4>1. Len(at("design_hash", 4)) = 4
        BY <1>4
      <4>2. cuts[5] = 7 /\ cuts[6] = cuts[5] + Len(at("design_hash", 4))
        BY <2>8, <3>2
      <4>3. cuts[6] = 7 + 4
        BY <4>1, <4>2, Zenon
      <4>4. 7 + 4 = 11 /\ 7 + 1 = 8
        OBVIOUS
      <4> QED BY <4>3, <4>4, Zenon
    <3> QED BY <1>5, <2>8, <3>2, <3>3, Zenon
  <2>10. cuts[7] = 11 + m /\ SubSeq(bytes, 12, cuts[7]) = b.payload
    <3>1. StackedAt(b, EquipmentLayout, cuts, 7) /\ 7 - 1 = 6
      BY <2>3
    <3>2. cuts[7] = cuts[6] + Len(at("payload", 0)) /\ SubSeq(bytes, cuts[6] + 1, cuts[7]) = at("payload", 0)
      BY <2>1, <3>1 DEF StackedAt, bytes, at
    <3> QED BY <1>2, <1>5, <2>9, <3>2 DEF m
  <2> QED BY <2>2, <2>4, <2>5, <2>6, <2>7, <2>8, <2>9, <2>10
<1> HIDE DEF at
<1>8. length \in Nat /\ (m <= Base * Base - 1 => length = m)
  <2>1. Number(Bytes(m, 2)) \in Nat /\ (m <= Weight(2) - 1 => Number(Bytes(m, 2)) = m)
    BY <1>2, <1>3, LengthBack, Zenon
  <2> QED BY <1>7, <2>1, SmallWeights
<1>9. b.right_hand_kind = bytes[3]
  <2>1. 3 \in 1 .. Len(bytes)
    BY <1>2, <1>7
  <2>2. Number(SubSeq(bytes, 3, 3)) = bytes[3]
    BY <1>6, <2>1, OneByte
  <2>3. Value("right_hand_kind", SubSeq(bytes, 3, 3)) = Number(SubSeq(bytes, 3, 3))
    BY DEF Value, Arrays, SignedFields
  <2> QED BY <1>4, <1>7, <2>2, <2>3
<1>10. f.bytes = bytes
  BY DEF Frame, bytes
<1>11. Size(f) = 12 + m
  BY <1>2, <1>7, <1>10 DEF Size
<1>12. With(Fields(bytes, 0, EquipmentAt), "payload", Rest(f, 12)) = b
  <2> DEFINE read == Fields(bytes, 0, EquipmentAt)
             fields == {"seq", "right_hand_kind", "right_hand_variant", "flags", "design_hash"}
  <2>1. Rest(f, 12) = b.payload
    BY <1>7, <1>10 DEF Rest
  <2>2. /\ DOMAIN read = fields
        /\ read["seq"] = Value("seq", SubSeq(bytes, 1, 2))
        /\ read["right_hand_kind"] = Value("right_hand_kind", SubSeq(bytes, 3, 3))
        /\ read["right_hand_variant"] = Value("right_hand_variant", SubSeq(bytes, 4, 4))
        /\ read["flags"] = Value("flags", SubSeq(bytes, 5, 5))
        /\ read["design_hash"] = Value("design_hash", SubSeq(bytes, 8, 11))
    BY DEF Fields, EquipmentAt
  <2> HIDE DEF read
  <2>3. DOMAIN read = fields /\ \A g \in fields : read[g] = b[g]
    BY <1>4, <1>7, <2>2
  <2> QED BY <1>1, <2>1, <2>3 DEF With, read
<1>13. HasRest(f, 12, length) <=> length = m
  BY <1>2, <1>8, <1>11 DEF HasRest
<1>14. ~(Size(f) < 12)
  BY <1>2, <1>11
<1> HIDE DEF length
<1> DEFINE fits == m <= kMaxEquipmentPayloadBytes /\ b.right_hand_kind <= 3
<1>15. CASE fits
  <2>1. length = m
    BY <1>2, <1>8, <1>15, BaseIsEven, LimitsAssumption
  <2>2. DecodeEquipment(f) = Message("EQUIPMENT", b)
    BY <1>9, <1>10, <1>12, <1>13, <1>14, <1>15, <2>1 DEF DecodeEquipment, kEquipmentHeaderSize, length
  <2> QED BY <1>15, <2>2 DEF m
<1>16. CASE ~fits
  <2>1. ~(length <= kMaxEquipmentPayloadBytes /\ HasRest(f, 12, length) /\ bytes[3] <= 3)
    BY <1>9, <1>13, <1>16
  <2>2. DecodeEquipment(f) = BadLength
    BY <1>10, <1>14, <2>1 DEF DecodeEquipment, kEquipmentHeaderSize, length
  <2> QED BY <1>16, <2>2 DEF m, BadLength, Refused
<1> QED BY <1>15, <1>16

LEMMA DigTable ==
    /\ Agreeing(DigLayout, DigItemAt) /\ Covers(DigLayout, DigItemAt)
    /\ DigItemAt[DigLayout[1][1]][1] = 0
    /\ Behind(DigLayout, DigItemAt, Len(DigLayout)) = 10
BY DEF Agreeing, Fit, Covers, Behind, DigLayout, DigItemAt, Arrays

(* Digs that follow each other are ten bytes each.                          *)
LEMMA DigsStack ==
    ASSUME NEW digs, NEW n \in Nat \ {0}, Len(digs) = n,
           \A i \in 1 .. n : IsStruct(digs[i], DigItemAt, {})
    PROVE  /\ PutAll(digs, DigLayout) \in Seq(Byte)
           /\ Len(PutAll(digs, DigLayout)) = 10 * n
           /\ \A i \in 1 .. n :
                 Sliced(Put(digs[i], DigLayout), PutAll(digs, DigLayout),
                        10 * (i - 1) + 1, 10 * i)
<1> DEFINE parts == [i \in 1 .. Len(digs) |-> Put(digs[i], DigLayout)]
           all == PutAll(digs, DigLayout)
<1>1. ASSUME NEW i \in 1 .. n
      PROVE  parts[i] = Put(digs[i], DigLayout) /\ parts[i] \in Seq(Byte) /\ Len(parts[i]) = 10
  <2> DEFINE dig == digs[i]
  <2>1. Agreeing(DigLayout, DigItemAt)
    BY DigTable
  <2>2. DigItemAt[DigLayout[1][1]][1] = 0 /\ Behind(DigLayout, DigItemAt, Len(DigLayout)) = 10
    BY DigTable
  <2>3. Valued(dig, DigItemAt)
    BY StructWhole
  <2> HIDE DEF dig
  <2>4. /\ Put(dig, DigLayout) \in Seq(Byte)
        /\ Len(Put(dig, DigLayout)) =
               Behind(DigLayout, DigItemAt, Len(DigLayout)) - DigItemAt[DigLayout[1][1]][1]
    BY <2>1, <2>3, PutLong
  <2>5. Len(Put(dig, DigLayout)) = 10
    BY <2>2, <2>4
  <2> QED BY <2>4, <2>5 DEF dig
<1>2. Len(parts) = n
  OBVIOUS
<1>3. all = FlattenSeq(parts)
  BY DEF PutAll
<1> HIDE DEF parts, all
<1>4. PICK cuts \in [0 .. n -> Nat] :
          /\ Ends(parts, n, cuts) /\ cuts[n] = Len(all) /\ Slices(parts, n, all, cuts)
          /\ all \in Seq(Byte)
  BY <1>1, <1>2, <1>3, FlattenParts
<1> DEFINE D == {k \in 0 .. n : cuts[k] = 10 * k}
<1>5. \A k \in 0 .. n : k \in D
  <2>1. 0 \in D
    BY <1>4 DEF Ends
  <2>2. ASSUME NEW k \in 0 .. n - 1, k \in D
        PROVE  k + 1 \in D
    <3> DEFINE j == k + 1
    <3>1. j \in 1 .. n /\ j - 1 = k /\ k \in Nat /\ j \in 0 .. n
      OBVIOUS
    <3>2. cuts[j] = cuts[j - 1] + Len(parts[j]) /\ Len(parts[j]) = 10
      BY <1>1, <1>4, <3>1 DEF Ends
    <3>3. cuts[k] = 10 * k
      BY <2>2
    <3>4. cuts[j] = 10 * j
      BY <3>1, <3>2, <3>3
    <3> QED BY <3>1, <3>4
  <2> HIDE DEF D
  <2>3. \A k \in 0 .. n - 1 : k \in D => k + 1 \in D
    BY <2>2
  <2> QED BY <2>1, <2>3, UpTo, Zenon
<1>6. Len(all) = 10 * n
  <2>1. n \in 0 .. n
    OBVIOUS
  <2> QED BY <1>4, <1>5, <2>1
<1>7. ASSUME NEW i \in 1 .. n
      PROVE  Sliced(Put(digs[i], DigLayout), all, 10 * (i - 1) + 1, 10 * i)
  <2>1. i - 1 \in 0 .. n /\ i \in 0 .. n
    OBVIOUS
  <2>2. cuts[i - 1] = 10 * (i - 1) /\ cuts[i] = 10 * i
    BY <1>5, <2>1
  <2>3. parts[i] = SubSeq(all, cuts[i - 1] + 1, cuts[i])
    BY <1>4 DEF Slices
  <2> QED BY <1>1, <2>2, <2>3 DEF Sliced
<1> QED BY <1>4, <1>6, <1>7 DEF all

(* A dig in a batch of end bytes. *)
DigIn(bytes, all, part, end, first, last, c, d, offset) ==
    /\ offset \in Nat /\ c = offset /\ d = offset + 9 /\ c >= 1 /\ d <= end
    /\ first \in Nat \ {0} /\ last \in Nat /\ c = 2 + first - 1 /\ d = 2 + last - 1
    /\ end \in Nat /\ Len(bytes) = end
    /\ Sliced(part, all, first, last) /\ Sliced(all, bytes, 2, end)

LEMMA DigPlaces ==
    ASSUME NEW n \in Nat \ {0}, NEW i \in 1 .. n
    PROVE  LET offset == 2 + (i - 1) * 10
               first == 10 * (i - 1) + 1
               last == 10 * i
               c == 10 * (i - 1) + 2
               d == 10 * i + 1
               end == 1 + 10 * n
           IN  /\ offset \in Nat /\ c = offset /\ d = offset + 9 /\ c >= 1 /\ d <= end
               /\ first \in Nat \ {0} /\ last \in Nat /\ c = 2 + first - 1 /\ d = 2 + last - 1
               /\ end \in Nat
OBVIOUS

LEMMA DigBack ==
    ASSUME NEW bytes \in Seq(Byte), NEW all, NEW dig, IsStruct(dig, DigItemAt, {}),
           NEW end, NEW first, NEW last, NEW c, NEW d, NEW offset,
           DigIn(bytes, all, Put(dig, DigLayout), end, first, last, c, d, offset)
    PROVE  Fields(bytes, offset, DigItemAt) = dig
<1> DEFINE part == Put(dig, DigLayout)
<1> HIDE DEF part
<1>1. DigIn(bytes, all, part, end, first, last, c, d, offset)
  BY DEF part
<1>2. Sliced(part, bytes, c, d)
  <2>1. IsPart(bytes, 2, end, first, last, c, d)
    BY <1>1 DEF IsPart, DigIn
  <2>2. Sliced(part, all, first, last) /\ Sliced(all, bytes, 2, end)
    BY <1>1 DEF DigIn
  <2> QED BY <2>1, <2>2, SliceOfSlice
<1>3. Holds(bytes, dig, DigLayout, c, d)
  <2>1. d <= Len(bytes)
    BY <1>1 DEF DigIn
  <2> QED BY <1>2, <2>1 DEF Holds, Sliced, part
<1>4. Spans(DigLayout, DigItemAt, offset, c, d)
  <2>1. offset \in Nat /\ c = offset /\ d = offset + 9 /\ c >= 1
    BY <1>1 DEF DigIn
  <2>2. c = offset + 0 /\ d = offset + 10 - 1
    BY <2>1
  <2> QED BY <2>1, <2>2, DigTable DEF Spans
<1>5. Valued(dig, DigItemAt) /\ [g \in DOMAIN DigItemAt |-> dig[g]] = dig
  BY StructWhole
<1>6. Agreeing(DigLayout, DigItemAt) /\ Covers(DigLayout, DigItemAt)
  BY DigTable
<1>7. Fields(bytes, offset, DigItemAt) = [g \in DOMAIN DigItemAt |-> dig[g]]
  BY <1>3, <1>4, <1>5, <1>6, FieldsBack
<1> QED BY <1>5, <1>7

(* The first of them that one byte can count arrive. *)
LEMMA DigBatchArrives ==
    ASSUME NEW b, NEW S, b.items \in Seq(S), \A dig \in S : IsStruct(dig, DigItemAt, {}),
           b = [items |-> b.items],
           NEW f, f = Frame("DIG_BATCH", Counted(b.items, DigLayout))
    PROVE  /\ Len(b.items) = 0 => DecodeDigBatch(f).type = "error"
           /\ Len(b.items) \in 1 .. Base - 1 => DecodeDigBatch(f) = Message("DIG_BATCH", b)
           /\ Len(b.items) > Base - 1 =>
                 DecodeDigBatch(f).body.items = SubSeq(b.items, 1, Base - 1)
<1> DEFINE items == b.items
           l == Len(items)
           n == IF l > Base - 1 THEN Base - 1 ELSE l
           digs == SubSeq(items, 1, n)
           all == PutAll(digs, DigLayout)
           bytes == f.bytes
<1>1. l \in Nat /\ n \in Nat /\ n <= l /\ n <= Base - 1
  <2>1. l \in Nat
    BY LenProperties
  <2> HIDE DEF l
  <2> QED BY <2>1, BaseIsEven
<1>2. bytes = Bytes(n, 1) \o all
  BY DEF Counted, Frame
<1>3. items \in Seq(S)
  OBVIOUS
<1>4. (l \in 1 .. Base - 1 => n = l) /\ (l > Base - 1 => n = Base - 1) /\ (l = 0 => n = 0)
  <2>1. l \in Nat
    BY <1>1
  <2> HIDE DEF l
  <2> QED BY <2>1, BaseIsEven
<1> HIDE DEF n
<1>5. digs \in Seq(S) /\ Len(digs) = n /\ \A i \in 1 .. n : digs[i] \in S
  <2>1. \A i \in 1 .. n : items[i] \in S
    BY <1>1, <1>3, ElementOfSeq
  <2> HIDE DEF items
  <2>2. digs \in Seq(S) /\ Len(digs) = n
    BY <1>1, <1>3, <2>1, SubSeqProperties DEF l
  <2> HIDE DEF digs
  <2> QED BY <2>2, ElementOfSeq
<1>6. l = n => digs = items
  <2> HIDE DEF items
  <2> QED BY <1>3, SubSeqFull DEF l
<1> HIDE DEF items, l, digs, all, bytes
<1>7. Bytes(n, 1) \in Seq(Byte) /\ Len(Bytes(n, 1)) = 1 /\ Number(Bytes(n, 1)) = n
  <2>1. n \in Int /\ 1 \in Nat /\ 1 \in Nat \ {0}
    BY <1>1
  <2>2. Bytes(n, 1) \in Seq(Byte) /\ Len(Bytes(n, 1)) = 1
    BY <2>1, BytesTyped, Zenon
  <2>3. n <= Weight(1) - 1 => Number(Bytes(n, 1)) = n
    BY <1>1, <2>1, LengthBack, Zenon
  <2> QED BY <1>1, <2>2, <2>3, SmallWeights
<1>8. CASE n = 0
  <2>1. all = <<>>
    <3>1. PutAll(digs, DigLayout) = FlattenSeq([i \in 1 .. Len(digs) |-> Put(digs[i], DigLayout)])
      BY DEF PutAll
    <3>2. [i \in 1 .. Len(digs) |-> Put(digs[i], DigLayout)] = <<>>
      BY <1>5, <1>8
    <3>3. FlattenSeq(<<>>) = <<>>
      BY DEF FlattenSeq
    <3> QED BY <3>1, <3>2, <3>3 DEF all
  <2>2. bytes = Bytes(n, 1)
    BY <1>2, <1>7, <2>1, ConcatEmptySeq
  <2>3. bytes[1] = 0 /\ ~(Size(f) < 2)
    <3>1. bytes \in Seq(Byte) /\ Len(bytes) = 1 /\ Number(bytes) = 0
      BY <1>7, <1>8, <2>2
    <3>2. 1 \in 1 .. Len(bytes)
      BY <3>1
    <3>3. Number(SubSeq(bytes, 1, 1)) = bytes[1]
      BY <3>1, <3>2, OneByte
    <3>4. SubSeq(bytes, 1, 1) = bytes
      BY <3>1, SubSeqFull
    <3>5. bytes[1] = 0
      BY <3>1, <3>3, <3>4, Zenon
    <3> DEFINE size == Size(f)
    <3>6. size = 1 + 1
      BY <3>1 DEF Size, bytes
    <3> HIDE DEF size
    <3>7. ~(size < 2)
      BY <3>6
    <3> QED BY <3>5, <3>7 DEF size
  <2>4. DecodeDigBatch(f) = BadLength
    BY <2>3 DEF DecodeDigBatch, kDigBatchHeaderSize, bytes
  <2>5. DecodeDigBatch(f).type = "error"
    BY <2>4 DEF BadLength, Refused
  <2>6. l = 0
    BY <1>1, <1>4, <1>8, BaseIsEven
  <2>7. ~(l \in 1 .. Base - 1) /\ ~(l > Base - 1)
    BY <2>6, BaseIsEven
  <2> QED BY <2>5, <2>7 DEF l, items
<1>9. CASE n # 0
  <2>1. /\ n \in Nat \ {0} /\ all \in Seq(Byte) /\ Len(all) = 10 * n
        /\ \A i \in 1 .. n :
              Sliced(Put(digs[i], DigLayout), all, 10 * (i - 1) + 1, 10 * i)
    <3>1. n \in Nat \ {0}
      BY <1>1, <1>9
    <3>2. \A i \in 1 .. n : IsStruct(digs[i], DigItemAt, {})
      BY <1>5
    <3> QED BY <1>5, <3>1, <3>2, DigsStack DEF all
  <2>2. bytes \in Seq(Byte) /\ Len(bytes) = 1 + 10 * n
    <3>1. bytes \in Seq(Byte) /\ Len(bytes) = Len(Bytes(n, 1)) + Len(all)
      BY <1>2, <1>7, <2>1, ConcatProperties
    <3> QED BY <1>7, <2>1, <3>1
  <2>3. bytes[1] = n
    <3>1. 1 \in 1 .. 1 + 10 * n
      BY <2>1
    <3>2. 1 \in 1 .. Len(bytes)
      BY <2>2, <3>1
    <3>3. Number(SubSeq(bytes, 1, 1)) = bytes[1]
      BY <2>2, <3>2, OneByte
    <3>4. SubSeq(bytes, 1, 1) = Bytes(n, 1)
      <4> DEFINE head == Bytes(n, 1)
      <4>1. head \in Seq(Byte) /\ Len(head) = 1 /\ bytes = head \o all
        BY <1>2, <1>7
      <4> HIDE DEF head
      <4>2. 1 \in 1 .. Len(head)
        BY <4>1
      <4>3. SubSeq(head \o all, 1, 1) = SubSeq(head, 1, 1)
        BY <2>1, <4>1, <4>2, SubSeqOfConcat1
      <4>4. SubSeq(head, 1, 1) = head
        BY <4>1, SubSeqFull
      <4> QED BY <4>1, <4>3, <4>4 DEF head
    <3> QED BY <1>7, <3>3, <3>4
  <2>4. Sliced(all, bytes, 2, 1 + 10 * n)
    <3>1. SubSeq(Bytes(n, 1) \o all, Len(Bytes(n, 1)) + 1, Len(Bytes(n, 1)) + Len(all)) = all
      BY <1>7, <2>1, SecondOfConcat
    <3>2. Len(Bytes(n, 1)) = 1 /\ Len(all) = 10 * n /\ 1 + 1 = 2
      BY <1>7, <2>1
    <3> QED BY <1>2, <3>1, <3>2 DEF Sliced
  <2>5. ASSUME NEW i \in 1 .. n
        PROVE  Fields(bytes, 2 + (i - 1) * 10, DigItemAt) = digs[i]
    <3> DEFINE dig == digs[i]
               offset == 2 + (i - 1) * 10
               first == 10 * (i - 1) + 1
               last == 10 * i
               c == 10 * (i - 1) + 2
               d == 10 * i + 1
               end == 1 + 10 * n
    <3>1. /\ offset \in Nat /\ c = offset /\ d = offset + 9 /\ c >= 1 /\ d <= end
          /\ first \in Nat \ {0} /\ last \in Nat /\ c = 2 + first - 1 /\ d = 2 + last - 1
          /\ end \in Nat
      <4>1. n \in Nat \ {0}
        BY <2>1
      <4> QED BY <4>1, DigPlaces
    <3>2. Sliced(Put(dig, DigLayout), all, first, last)
      BY <2>1
    <3>3. Sliced(all, bytes, 2, end) /\ Len(bytes) = end
      BY <2>2, <2>4
    <3>4. IsStruct(dig, DigItemAt, {})
      BY <1>5
    <3> HIDE DEF dig, offset, first, last, c, d, end
    <3>5. DigIn(bytes, all, Put(dig, DigLayout), end, first, last, c, d, offset)
      BY <3>1, <3>2, <3>3 DEF DigIn
    <3>6. Fields(bytes, offset, DigItemAt) = dig
      BY <2>2, <3>4, <3>5, DigBack
    <3> QED BY <3>6 DEF dig, offset
  <2>6. DecodeDigBatch(f) = Message("DIG_BATCH", [items |-> digs])
    <3> DEFINE read == [i \in 1 .. n |-> Fields(bytes, 2 + (i - 1) * 10, DigItemAt)]
    <3>1. ~(Size(f) < 2) /\ HasRest(f, 2, n * 10) /\ n > 0
      <4>1. Size(f) = 1 + (1 + 10 * n)
        BY <2>2 DEF Size, bytes
      <4> QED BY <2>1, <4>1 DEF HasRest
    <3>2. read = digs
      <4>1. digs = [i \in 1 .. n |-> digs[i]]
        BY <1>5, SeqDef
      <4> QED BY <2>5, <4>1
    <3>3. DecodeDigBatch(f) = Message("DIG_BATCH", [items |-> read])
      BY <2>3, <3>1 DEF DecodeDigBatch, kDigBatchHeaderSize, kDigBatchItemSize, bytes
    <3> HIDE DEF read
    <3> QED BY <3>2, <3>3
  <2>7. l \in 1 .. Base - 1 => DecodeDigBatch(f) = Message("DIG_BATCH", b)
    BY <1>4, <1>6, <2>6 DEF items
  <2>8. l > Base - 1 => DecodeDigBatch(f).body.items = SubSeq(items, 1, Base - 1)
    BY <1>4, <2>6 DEF digs, Message
  <2>9. l # 0
    BY <1>4, <1>9
  <2> QED BY <2>7, <2>8, <2>9 DEF l, items
<1> QED BY <1>8, <1>9

(* What MessagesArriveIntact says of a message and what is made of it.      *)
Arrives(m, r) ==
    \/ WithinLimits(m) /\ r = m
    \/ ~WithinLimits(m) /\ r.type = "error"
    \/ /\ m.type = "DIG_BATCH"
       /\ Len(m.body.items) > Base - 1
       /\ r.body.items = SubSeq(m.body.items, 1, Base - 1)

LEMMA ReceivedByType ==
    ASSUME NEW f
    PROVE  /\ f.type = "HELLO" => Received(f) = DecodeHello(f)
           /\ f.type = "MOVE" => Received(f) = DecodeMove(f)
           /\ f.type = "DIG" => Received(f) = DecodeDig(f)
           /\ f.type = "DIG_BATCH" => Received(f) = DecodeDigBatch(f)
           /\ f.type = "CHAT" => Received(f) = DecodeChat(f)
           /\ f.type = "PLAYER_IDENTITY" => Received(f) = DecodePlayerIdentity(f)
           /\ f.type = "EQUIPMENT" => Received(f) = DecodeEquipment(f)
           /\ f.type = "BUILDING_MANIFEST_REQUEST" => Received(f) = DecodeRequest(f)
           /\ f.type = "BUILDING_ANNOUNCE" => Received(f) = DecodeAnnounce(f)
           /\ f.type = "PONG" => Received(f) = DecodePong(f)
<1>1. f.type = "HELLO" => Received(f) = DecodeHello(f)
  BY DEF Received
<1>2. f.type = "MOVE" => Received(f) = DecodeMove(f)
  BY DEF Received
<1>3. f.type = "DIG" => Received(f) = DecodeDig(f)
  BY DEF Received
<1>4. f.type = "DIG_BATCH" => Received(f) = DecodeDigBatch(f)
  BY DEF Received
<1>5. f.type = "CHAT" => Received(f) = DecodeChat(f)
  BY DEF Received
<1>6. f.type = "PLAYER_IDENTITY" => Received(f) = DecodePlayerIdentity(f)
  BY DEF Received
<1>7. f.type = "EQUIPMENT" => Received(f) = DecodeEquipment(f)
  BY DEF Received
<1>8. f.type = "BUILDING_MANIFEST_REQUEST" => Received(f) = DecodeRequest(f)
  BY DEF Received
<1>9. f.type = "BUILDING_ANNOUNCE" => Received(f) = DecodeAnnounce(f)
  BY DEF Received
<1>10. f.type = "PONG" => Received(f) = DecodePong(f)
  BY DEF Received
<1> QED BY <1>1, <1>2, <1>3, <1>4, <1>5, <1>6, <1>7, <1>8, <1>9, <1>10

LEMMA MessageArrives ==
    ASSUME NEW m, IsMessage(m)
    PROVE  Arrives(m, Received(ClientFrame(m)))
<1> DEFINE b == m.body
           f == ClientFrame(m)
<1>1. m = Message(m.type, b)
  BY DEF IsMessage
<1>2. ASSUME WithinLimits(m), Received(f) = m
      PROVE  Arrives(m, Received(f))
  BY <1>2 DEF Arrives
<1>3. ASSUME ~WithinLimits(m), Received(f).type = "error"
      PROVE  Arrives(m, Received(f))
  BY <1>3 DEF Arrives
<1> HIDE DEF b, f
<1>4. CASE m.type = "HELLO"
  <2>1. IsStruct(b, HelloAt, {})
    BY <1>4 DEF IsMessage, b
  <2>2. f = Frame("HELLO", Put(b, HelloLayout)) /\ f.type = "HELLO"
    <3>1. f = Frame("HELLO", Put(b, HelloLayout))
      BY <1>1, <1>4, FrameByType, Zenon DEF f
    <3> QED BY <3>1 DEF Frame
  <2>3. Received(f) = DecodeHello(f)
    BY <2>2, ReceivedByType
  <2>4. IF b.protocol_version = 1 /\ ~WalletIsEmpty(b.wallet_pubkey)
        THEN DecodeHello(f) = Message("HELLO", b)
        ELSE DecodeHello(f).type = "error"
    BY <2>1, <2>2, HelloArrives, Zenon
  <2>5. WithinLimits(m) <=> (b.protocol_version = 1 /\ ~WalletIsEmpty(b.wallet_pubkey))
    BY <1>4 DEF WithinLimits, b
  <2> QED BY <1>1, <1>2, <1>3, <1>4, <2>3, <2>4, <2>5 DEF f
<1>5. CASE m.type = "MOVE"
  <2>1. IsStruct(b, MoveAt, {})
    BY <1>5 DEF IsMessage, b
  <2>2. f = Frame("MOVE", Put(b, MoveLayout)) /\ f.type = "MOVE"
    <3>1. f = Frame("MOVE", Put(b, MoveLayout))
      BY <1>1, <1>5, FrameByType, Zenon DEF f
    <3> QED BY <3>1 DEF Frame
  <2>3. Received(f) = DecodeMove(f)
    BY <2>2, ReceivedByType
  <2>4. DecodeMove(f) = Message("MOVE", b)
    BY <2>1, <2>2, MoveArrives, Zenon
  <2>5. WithinLimits(m)
    BY <1>5 DEF WithinLimits
  <2> QED BY <1>1, <1>2, <1>5, <2>3, <2>4, <2>5 DEF f
<1>6. CASE m.type = "DIG"
  <2>1. IsStruct(b, DigAt, {})
    BY <1>6 DEF IsMessage, b
  <2>2. f = Frame("DIG", Put(b, DigLayout)) /\ f.type = "DIG"
    <3>1. f = Frame("DIG", Put(b, DigLayout))
      BY <1>1, <1>6, FrameByType, Zenon DEF f
    <3> QED BY <3>1 DEF Frame
  <2>3. Received(f) = DecodeDig(f)
    BY <2>2, ReceivedByType
  <2>4. DecodeDig(f) = Message("DIG", b)
    BY <2>1, <2>2, DigArrives, Zenon
  <2>5. WithinLimits(m)
    BY <1>6 DEF WithinLimits
  <2> QED BY <1>1, <1>2, <1>6, <2>3, <2>4, <2>5 DEF f
<1>7. CASE m.type = "DIG_BATCH"
  <2>1. /\ b.items \in Seq(Range(b.items)) /\ b = [items |-> b.items]
        /\ \A dig \in Range(b.items) : IsStruct(dig, DigItemAt, {})
    BY <1>7 DEF IsMessage, b
  <2>2. f = Frame("DIG_BATCH", Counted(b.items, DigLayout)) /\ f.type = "DIG_BATCH"
    <3>1. f = Frame("DIG_BATCH", Counted(b.items, DigLayout))
      BY <1>1, <1>7, FrameByType, Zenon DEF f
    <3> QED BY <3>1 DEF Frame
  <2>3. Received(f) = DecodeDigBatch(f)
    BY <2>2, ReceivedByType
  <2>4. /\ Len(b.items) = 0 => DecodeDigBatch(f).type = "error"
        /\ Len(b.items) \in 1 .. Base - 1 => DecodeDigBatch(f) = Message("DIG_BATCH", b)
        /\ Len(b.items) > Base - 1 =>
              DecodeDigBatch(f).body.items = SubSeq(b.items, 1, Base - 1)
    BY <2>1, <2>2, DigBatchArrives, Zenon
  <2>5. WithinLimits(m) <=> Len(b.items) \in 1 .. Base - 1
    BY <1>7 DEF WithinLimits, b
  <2>6. Len(b.items) = 0 \/ Len(b.items) \in 1 .. Base - 1 \/ Len(b.items) > Base - 1
    <3> DEFINE l == Len(b.items)
    <3>1. l \in Nat
      BY <2>1, LenProperties
    <3> HIDE DEF l
    <3>2. l = 0 \/ l \in 1 .. Base - 1 \/ l > Base - 1
      BY <3>1, BaseIsEven
    <3> QED BY <3>2 DEF l
  <2>7. CASE Len(b.items) = 0
    <3>1. ~(Len(b.items) \in 1 .. Base - 1)
      BY <2>7, BaseIsEven
    <3> QED BY <1>3, <2>3, <2>4, <2>5, <2>7, <3>1 DEF f
  <2>8. CASE Len(b.items) \in 1 .. Base - 1
    BY <1>1, <1>2, <1>7, <2>3, <2>4, <2>5, <2>8 DEF f
  <2>9. CASE Len(b.items) > Base - 1
    BY <1>7, <2>3, <2>4, <2>9 DEF f, b, Arrives
  <2> QED BY <2>6, <2>7, <2>8, <2>9
<1>8. CASE m.type = "CHAT"
  <2>1. IsStruct(b, ChatAt, {"message"})
    BY <1>8 DEF IsMessage, b
  <2>2. f = Frame("CHAT", Put(b, ChatLayout)) /\ f.type = "CHAT"
    <3>1. f = Frame("CHAT", Put(b, ChatLayout))
      BY <1>1, <1>8, FrameByType, Zenon DEF f
    <3> QED BY <3>1 DEF Frame
  <2>3. Received(f) = DecodeChat(f)
    BY <2>2, ReceivedByType
  <2>4. IF Len(b.message) \in 1 .. kMaxChatBytes THEN DecodeChat(f) = Message("CHAT", b)
        ELSE DecodeChat(f).type = "error"
    BY <2>1, <2>2, ChatArrives, Zenon
  <2>5. WithinLimits(m) <=> Len(b.message) \in 1 .. kMaxChatBytes
    BY <1>8 DEF WithinLimits, b
  <2> QED BY <1>1, <1>2, <1>3, <1>8, <2>3, <2>4, <2>5 DEF f
<1>9. CASE m.type = "PLAYER_IDENTITY"
  <2>1. IsStruct(b, <<>>, {"display_name"})
    BY <1>9 DEF IsMessage, b
  <2>2. f = Frame("PLAYER_IDENTITY", Put(b, IdentityLayout)) /\ f.type = "PLAYER_IDENTITY"
    <3>1. f = Frame("PLAYER_IDENTITY", Put(b, IdentityLayout))
      BY <1>1, <1>9, FrameByType, Zenon DEF f
    <3> QED BY <3>1 DEF Frame
  <2>3. Received(f) = DecodePlayerIdentity(f)
    BY <2>2, ReceivedByType
  <2>4. IF Len(b.display_name) <= kMaxPlayerIdentityNameBytes THEN DecodePlayerIdentity(f) = Message("PLAYER_IDENTITY", b)
        ELSE DecodePlayerIdentity(f).type = "error"
    BY <2>1, <2>2, IdentityArrives, Zenon
  <2>5. WithinLimits(m) <=> Len(b.display_name) <= kMaxPlayerIdentityNameBytes
    BY <1>9 DEF WithinLimits, b
  <2> QED BY <1>1, <1>2, <1>3, <1>9, <2>3, <2>4, <2>5 DEF f
<1>10. CASE m.type = "EQUIPMENT"
  <2>1. IsStruct(b, EquipmentAt, {"payload"})
    BY <1>10 DEF IsMessage, b
  <2>2. f = Frame("EQUIPMENT", Put(b, EquipmentLayout)) /\ f.type = "EQUIPMENT"
    <3>1. f = Frame("EQUIPMENT", Put(b, EquipmentLayout))
      BY <1>1, <1>10, FrameByType, Zenon DEF f
    <3> QED BY <3>1 DEF Frame
  <2>3. Received(f) = DecodeEquipment(f)
    BY <2>2, ReceivedByType
  <2>4. IF Len(b.payload) <= kMaxEquipmentPayloadBytes /\ b.right_hand_kind <= 3 THEN DecodeEquipment(f) = Message("EQUIPMENT", b)
        ELSE DecodeEquipment(f).type = "error"
    BY <2>1, <2>2, EquipmentArrives, Zenon
  <2>5. WithinLimits(m) <=> (Len(b.payload) <= kMaxEquipmentPayloadBytes /\ b.right_hand_kind <= 3)
    BY <1>10 DEF WithinLimits, b
  <2> QED BY <1>1, <1>2, <1>3, <1>10, <2>3, <2>4, <2>5 DEF f
<1>11. CASE m.type = "BUILDING_MANIFEST_REQUEST"
  <2>1. IsStruct(b, RequestAt, {})
    BY <1>11 DEF IsMessage, b
  <2>2. f = Frame("BUILDING_MANIFEST_REQUEST", Put(b, RequestLayout)) /\ f.type = "BUILDING_MANIFEST_REQUEST"
    <3>1. f = Frame("BUILDING_MANIFEST_REQUEST", Put(b, RequestLayout))
      BY <1>1, <1>11, FrameByType, Zenon DEF f
    <3> QED BY <3>1 DEF Frame
  <2>3. Received(f) = DecodeRequest(f)
    BY <2>2, ReceivedByType
  <2>4. DecodeRequest(f) = Message("BUILDING_MANIFEST_REQUEST", b)
    BY <2>1, <2>2, RequestArrives, Zenon
  <2>5. WithinLimits(m)
    BY <1>11 DEF WithinLimits
  <2> QED BY <1>1, <1>2, <1>11, <2>3, <2>4, <2>5 DEF f
<1>12. CASE m.type = "BUILDING_ANNOUNCE"
  <2>1. IsStruct(b, WholeRecordAt, {})
    BY <1>12 DEF IsMessage, b, WholeRecordAt
  <2>2. f = Frame("BUILDING_ANNOUNCE", Put(b, RecordLayout)) /\ f.type = "BUILDING_ANNOUNCE"
    <3>1. f = Frame("BUILDING_ANNOUNCE", Put(b, RecordLayout))
      BY <1>1, <1>12, FrameByType, Zenon DEF f
    <3> QED BY <3>1 DEF Frame
  <2>3. Received(f) = DecodeAnnounce(f)
    BY <2>2, ReceivedByType
  <2>4. DecodeAnnounce(f) = Message("BUILDING_ANNOUNCE", b)
    BY <2>1, <2>2, AnnounceArrives, Zenon
  <2>5. WithinLimits(m)
    BY <1>12 DEF WithinLimits
  <2> QED BY <1>1, <1>2, <1>12, <2>3, <2>4, <2>5 DEF f
<1>13. CASE m.type = "PONG"
  <2>1. f = Frame("PONG", <<>>) /\ f.type = "PONG"
    <3>1. f = Frame("PONG", <<>>)
      BY <1>1, <1>13, FrameByType, Zenon DEF f
    <3> QED BY <3>1 DEF Frame
  <2>2. Received(f) = DecodePong(f)
    BY <2>1, ReceivedByType
  <2>3. DecodePong(f) = Message("PONG", [pong |-> TRUE])
    BY <2>1, PongArrives, Zenon
  <2>4. WithinLimits(m)
    BY <1>13 DEF WithinLimits
  <2>5. b = [pong |-> TRUE]
    BY <1>13 DEF IsMessage, b
  <2> QED BY <1>1, <1>2, <1>13, <2>2, <2>3, <2>4, <2>5 DEF f
<1>14. \/ m.type \in {"HELLO", "MOVE", "DIG", "DIG_BATCH", "CHAT", "EQUIPMENT", "PLAYER_IDENTITY"}
       \/ m.type \in {"BUILDING_MANIFEST_REQUEST", "BUILDING_ANNOUNCE", "PONG"}
  BY DEF IsMessage
<1> QED BY <1>4, <1>5, <1>6, <1>7, <1>8, <1>9, <1>10, <1>11, <1>12, <1>13, <1>14 DEF f

(* ... and what a client means is what its frame stands for. *)
MeaningInv == FramesInv /\ (meant # NoMessage => meant \in Messages /\ wire = ClientFrame(meant))

LEMMA MeaningInvInductive ==
    /\ FramesInit => MeaningInv
    /\ MeaningInv /\ [FramesNext]_frameVars => MeaningInv'
<1>1. FramesInit => MeaningInv
  BY FramesInvInductive DEF FramesInit, MeaningInv
<1>2. ASSUME MeaningInv, [FramesNext]_frameVars
      PROVE  MeaningInv'
  <2>1. FramesInv'
    BY <1>2, FramesInvInductive DEF MeaningInv
  <2>2. (meant # NoMessage => meant \in Messages /\ wire = ClientFrame(meant))'
    <3>1. CASE ClientSends
      BY <3>1 DEF ClientSends
    <3>2. CASE ClientSendsOther
      BY <3>2 DEF ClientSendsOther
    <3>3. CASE Receive \/ Relay \/ Say
      <4>1. meant' = meant /\ wire' = wire
        BY <3>3 DEF Receive, Relay, Say
      <4> QED BY <1>2, <4>1 DEF MeaningInv
    <3>4. CASE Proceed
      BY <3>4 DEF Proceed
    <3>5. CASE UNCHANGED frameVars
      <4>1. meant' = meant /\ wire' = wire
        BY <3>5 DEF frameVars
      <4> QED BY <1>2, <4>1 DEF MeaningInv
    <3> QED BY <1>2, <3>1, <3>2, <3>3, <3>4, <3>5 DEF FramesNext
  <2> QED BY <2>1, <2>2 DEF MeaningInv
<1> QED BY <1>1, <1>2

-----------------------------------------------------------------------------
(* What is said differently is sent differently. *)

(* Parts of which each is as long as its counterpart, if all before it are  *)
(* the same.                                                                *)
InStep(p, q, n) ==
    \A i \in 1 .. n : (\A j \in 1 .. i - 1 : p[j] = q[j]) => Len(p[i]) = Len(q[i])

AreParts(p, n, S) == Len(p) = n /\ \A i \in 1 .. n : p[i] \in Seq(S)

LEMMA FlattenTells ==
    ASSUME NEW S, NEW n \in Nat \ {0}, NEW p, AreParts(p, n, S), NEW q, AreParts(q, n, S),
           InStep(p, q, n), FlattenSeq(p) = FlattenSeq(q)
    PROVE  \A i \in 1 .. n : p[i] = q[i]
<1> DEFINE whole == FlattenSeq(p)
<1>1. PICK a \in [0 .. n -> Nat] : Ends(p, n, a) /\ Slices(p, n, whole, a)
  BY FlattenParts DEF AreParts
<1>2. PICK b \in [0 .. n -> Nat] : Ends(q, n, b) /\ Slices(q, n, whole, b)
  BY FlattenParts DEF AreParts
<1> HIDE DEF whole
<1> DEFINE T == {k \in 0 .. n : a[k] = b[k] /\ \A j \in 1 .. k : p[j] = q[j]}
<1>3. 0 \in T
  BY <1>1, <1>2 DEF Ends
<1>4. ASSUME NEW k \in 0 .. n - 1, k \in T
      PROVE  k + 1 \in T
  <2> DEFINE i == k + 1
  <2>1. i \in 1 .. n /\ i - 1 = k /\ i \in 0 .. n
    OBVIOUS
  <2>2. a[k] = b[k] /\ \A j \in 1 .. k : p[j] = q[j]
    BY <1>4
  <2> HIDE DEF i
  <2>3. Len(p[i]) = Len(q[i])
    BY <2>1, <2>2 DEF InStep
  <2>4. a[i] = b[i]
    BY <1>1, <1>2, <2>1, <2>2, <2>3 DEF Ends
  <2>5. p[i] = q[i]
    <3>1. p[i] = SubSeq(whole, a[i - 1] + 1, a[i]) /\ q[i] = SubSeq(whole, b[i - 1] + 1, b[i])
      BY <1>1, <1>2, <2>1 DEF Slices
    <3> QED BY <2>1, <2>2, <2>4, <3>1
  <2>6. \A j \in 1 .. i : j = i \/ j \in 1 .. k
    BY <2>1
  <2> QED BY <2>1, <2>2, <2>4, <2>5, <2>6 DEF i
<1> HIDE DEF T
<1>5. \A k \in 0 .. n - 1 : k \in T => k + 1 \in T
  BY <1>4
<1>6. \A k \in 0 .. n : k \in T
  BY <1>3, <1>5, UpTo, Zenon
<1>7. n \in 0 .. n
  OBVIOUS
<1> QED BY <1>6, <1>7 DEF T

(* Parts that are as long make a whole that is as long.                     *)
LEMMA FlattenLong ==
    ASSUME NEW S, NEW n \in Nat \ {0}, NEW p, AreParts(p, n, S), NEW q, AreParts(q, n, S),
           \A i \in 1 .. n : Len(p[i]) = Len(q[i])
    PROVE  Len(FlattenSeq(p)) = Len(FlattenSeq(q))
<1>1. PICK a \in [0 .. n -> Nat] : Ends(p, n, a) /\ a[n] = Len(FlattenSeq(p))
  BY FlattenParts DEF AreParts
<1>2. PICK b \in [0 .. n -> Nat] : Ends(q, n, b) /\ b[n] = Len(FlattenSeq(q))
  BY FlattenParts DEF AreParts
<1>3. a[0] = b[0] /\ \A i \in 1 .. n : a[i - 1] = b[i - 1] => a[i] = b[i]
  BY <1>1, <1>2 DEF Ends
<1>4. a[n] = b[n]
  BY <1>3, Agree
<1> QED BY <1>1, <1>2, <1>4

(* Two parts, of which the first are as long.                               *)
LEMMA ConcatTells ==
    ASSUME NEW S, NEW s \in Seq(S), NEW t \in Seq(S), NEW u \in Seq(S), NEW v \in Seq(S),
           Len(s) = Len(u), s \o t = u \o v
    PROVE  s = u /\ t = v
<1>1. Len(s) \in Nat /\ Len(t) \in Nat /\ Len(u) \in Nat /\ Len(v) \in Nat
  BY LenProperties
<1>2. Len(t) = Len(v)
  <2>1. Len(s \o t) = Len(s) + Len(t) /\ Len(u \o v) = Len(u) + Len(v)
    BY ConcatProperties
  <2> QED BY <1>1, <2>1
<1>3. t = v
  <2>1. SubSeq(s \o t, Len(s) + 1, Len(s) + Len(t)) = t
    BY SecondOfConcat
  <2>2. SubSeq(u \o v, Len(u) + 1, Len(u) + Len(v)) = v
    BY SecondOfConcat
  <2> QED BY <1>2, <2>1, <2>2
<1>4. s = u
  <2>1. ASSUME NEW i \in 1 .. Len(s)
        PROVE  s[i] = u[i]
    <3>1. (s \o t)[i] = s[i] /\ (u \o v)[i] = u[i]
      BY <1>1
    <3> QED BY <3>1
  <2> QED BY <2>1, SeqEqual
<1> QED BY <1>3, <1>4

(* A field of a struct that is written whole, or a length that its bytes    *)
(* can hold.                                                                *)
Tellable(struct, f, width) ==
    IF f \in Arrays
    THEN /\ struct[f] \in Seq(Byte) /\ width \in Nat
         /\ width # 0 => Len(struct[f]) <= Weight(width) - 1
    ELSE width \in Nat \ {0} /\ struct[f] \in FieldValues(f, width)

(* What of a field is told. *)
SameField(a, b, f, width) ==
    IF f \in Arrays /\ width # 0 THEN Len(a[f]) = Len(b[f]) ELSE a[f] = b[f]

LEMMA FieldLong ==
    ASSUME NEW struct, NEW f, NEW width, Tellable(struct, f, width)
    PROVE  /\ PutField(struct, f, width) \in Seq(Byte)
           /\ Len(PutField(struct, f, width)) =
                  IF f \in Arrays /\ width = 0 THEN Len(struct[f]) ELSE width
<1>1. CASE f \in Arrays /\ width = 0
  BY <1>1 DEF Tellable, PutField
<1>2. CASE f \in Arrays /\ width # 0
  <2>1. Len(struct[f]) \in Int /\ width \in Nat
    BY <1>2, LenProperties DEF Tellable
  <2>2. Bytes(Len(struct[f]), width) \in Seq(Byte) /\ Len(Bytes(Len(struct[f]), width)) = width
    BY <2>1, BytesTyped
  <2> QED BY <1>2, <2>2 DEF PutField
<1>3. CASE f \notin Arrays
  <2>1. struct[f] \in Int /\ width \in Nat
    BY <1>3, FieldTyped DEF Tellable
  <2>2. Bytes(struct[f], width) \in Seq(Byte) /\ Len(Bytes(struct[f], width)) = width
    BY <2>1, BytesTyped
  <2> QED BY <1>3, <2>2 DEF PutField
<1> QED BY <1>1, <1>2, <1>3

LEMMA FieldTells ==
    ASSUME NEW f, NEW width, NEW a, Tellable(a, f, width), NEW b, Tellable(b, f, width),
           PutField(a, f, width) = PutField(b, f, width)
    PROVE  SameField(a, b, f, width)
<1>1. CASE f \in Arrays /\ width = 0
  BY <1>1 DEF PutField, SameField
<1>2. CASE f \in Arrays /\ width # 0
  <2> DEFINE m == Len(a[f])
             n == Len(b[f])
  <2>1. /\ m \in Nat /\ n \in Nat /\ width \in Nat \ {0}
        /\ m <= Weight(width) - 1 /\ n <= Weight(width) - 1
    BY <1>2, LenProperties DEF Tellable
  <2>2. Bytes(m, width) = Bytes(n, width)
    BY <1>2 DEF PutField
  <2> HIDE DEF m, n
  <2>3. Number(Bytes(m, width)) = m /\ Number(Bytes(n, width)) = n
    BY <2>1, LengthBack
  <2> QED BY <1>2, <2>2, <2>3 DEF SameField, m, n
<1>3. CASE f \notin Arrays
  <2>1. Bytes(a[f], width) = Bytes(b[f], width)
    BY <1>3 DEF PutField
  <2>2. Value(f, Bytes(a[f], width)) = a[f] /\ Value(f, Bytes(b[f], width)) = b[f]
    BY <1>3, ValueBack DEF Tellable
  <2> QED BY <1>3, <2>1, <2>2 DEF SameField
<1> QED BY <1>1, <1>2, <1>3

(* A struct of which a layout loses nothing. *)
AllTellable(struct, layout) ==
    /\ Len(layout) \in Nat \ {0}
    /\ \A i \in 1 .. Len(layout) : Tellable(struct, layout[i][1], layout[i][2])

(* An array is of one length, or its length is written before it.           *)
Announced(a, b, layout) ==
    \A i \in 1 .. Len(layout) :
        layout[i][1] \in Arrays /\ layout[i][2] = 0 =>
            \/ Len(a[layout[i][1]]) = Len(b[layout[i][1]])
            \/ \E j \in 1 .. i - 1 : layout[j][1] = layout[i][1] /\ layout[j][2] # 0

LEMMA WrittenParts ==
    ASSUME NEW struct, NEW layout, AllTellable(struct, layout)
    PROVE  /\ AreParts(Written(struct, layout), Len(layout), Byte)
           /\ Put(struct, layout) = FlattenSeq(Written(struct, layout))
           /\ Put(struct, layout) \in Seq(Byte)
<1> DEFINE n == Len(layout)
           p == Written(struct, layout)
<1>1. n \in Nat \ {0} /\ Len(p) = n
  BY DEF AllTellable, Written
<1>2. ASSUME NEW i \in 1 .. n
      PROVE  p[i] \in Seq(Byte)
  <2>1. p[i] = PutField(struct, layout[i][1], layout[i][2])
    BY DEF Written
  <2> QED BY <2>1, FieldLong DEF AllTellable
<1>3. Put(struct, layout) = FlattenSeq(p)
  BY DEF Put, Written
<1> HIDE DEF n, p
<1>4. FlattenSeq(p) \in Seq(Byte)
  BY <1>1, <1>2, FlattenParts
<1> QED BY <1>1, <1>2, <1>3, <1>4 DEF AreParts, n, p

LEMMA PutTells ==
    ASSUME NEW layout, NEW a, AllTellable(a, layout), NEW b, AllTellable(b, layout),
           Announced(a, b, layout), Put(a, layout) = Put(b, layout)
    PROVE  \A i \in 1 .. Len(layout) : SameField(a, b, layout[i][1], layout[i][2])
<1> DEFINE n == Len(layout)
           p == Written(a, layout)
           q == Written(b, layout)
<1>1. n \in Nat \ {0}
  BY DEF AllTellable
<1>2. AreParts(p, n, Byte) /\ AreParts(q, n, Byte) /\ FlattenSeq(p) = FlattenSeq(q)
  BY WrittenParts
<1>3. ASSUME NEW i \in 1 .. n
      PROVE  /\ p[i] = PutField(a, layout[i][1], layout[i][2])
             /\ q[i] = PutField(b, layout[i][1], layout[i][2])
             /\ Tellable(a, layout[i][1], layout[i][2])
             /\ Tellable(b, layout[i][1], layout[i][2])
  BY DEF Written, AllTellable
<1> HIDE DEF p, q, n
<1>4. ASSUME NEW i \in 1 .. n, p[i] = q[i]
      PROVE  SameField(a, b, layout[i][1], layout[i][2])
  BY <1>3, <1>4, FieldTells
<1>5. ASSUME NEW i \in 1 .. n, \A j \in 1 .. i - 1 : p[j] = q[j]
      PROVE  Len(p[i]) = Len(q[i])
  <2> DEFINE f == layout[i][1]
             w == layout[i][2]
  <2>1. /\ Len(p[i]) = IF f \in Arrays /\ w = 0 THEN Len(a[f]) ELSE w
        /\ Len(q[i]) = IF f \in Arrays /\ w = 0 THEN Len(b[f]) ELSE w
    BY <1>3, FieldLong
  <2>2. ASSUME f \in Arrays, w = 0
        PROVE  Len(a[f]) = Len(b[f])
    <3>1. \/ Len(a[f]) = Len(b[f])
          \/ \E j \in 1 .. i - 1 : layout[j][1] = f /\ layout[j][2] # 0
      BY <2>2 DEF Announced, n
    <3>2. ASSUME NEW j \in 1 .. i - 1, layout[j][1] = f, layout[j][2] # 0
          PROVE  Len(a[f]) = Len(b[f])
      <4>1. j \in 1 .. n /\ p[j] = q[j]
        BY <1>1, <1>5
      <4>2. SameField(a, b, f, layout[j][2])
        BY <1>4, <3>2, <4>1
      <4> QED BY <2>2, <3>2, <4>2 DEF SameField
    <3> QED BY <3>1, <3>2
  <2> QED BY <2>1, <2>2
<1>6. InStep(p, q, n)
  BY <1>5 DEF InStep
<1>7. \A i \in 1 .. n : p[i] = q[i]
  BY <1>1, <1>2, <1>6, FlattenTells
<1> QED BY <1>4, <1>7 DEF n

(* Structs without texts are as long. *)
LEMMA PutsLong ==
    ASSUME NEW layout, NEW a, AllTellable(a, layout), NEW b, AllTellable(b, layout),
           \A i \in 1 .. Len(layout) :
               layout[i][1] \in Arrays => Len(a[layout[i][1]]) = Len(b[layout[i][1]])
    PROVE  Len(Put(a, layout)) = Len(Put(b, layout))
<1> DEFINE n == Len(layout)
           p == Written(a, layout)
           q == Written(b, layout)
<1>1. n \in Nat \ {0}
  BY DEF AllTellable
<1>2. /\ AreParts(p, n, Byte) /\ AreParts(q, n, Byte)
      /\ Put(a, layout) = FlattenSeq(p) /\ Put(b, layout) = FlattenSeq(q)
  BY WrittenParts
<1>3. ASSUME NEW i \in 1 .. n
      PROVE  Len(p[i]) = Len(q[i])
  <2>1. /\ p[i] = PutField(a, layout[i][1], layout[i][2])
        /\ q[i] = PutField(b, layout[i][1], layout[i][2])
    BY DEF Written
  <2> DEFINE f == layout[i][1]
             w == layout[i][2]
  <2>2. Tellable(a, f, w) /\ Tellable(b, f, w)
    BY DEF AllTellable
  <2>3. f \in Arrays => Len(a[f]) = Len(b[f])
    OBVIOUS
  <2> HIDE DEF f, w, p, q
  <2>4. /\ Len(PutField(a, f, w)) = IF f \in Arrays /\ w = 0 THEN Len(a[f]) ELSE w
        /\ Len(PutField(b, f, w)) = IF f \in Arrays /\ w = 0 THEN Len(b[f]) ELSE w
    BY <2>2, FieldLong
  <2>5. Len(PutField(a, f, w)) = Len(PutField(b, f, w))
    BY <2>3, <2>4
  <2> QED BY <2>1, <2>5 DEF f, w
<1> HIDE DEF p, q, n
<1> QED BY <1>1, <1>2, <1>3, FlattenLong

(* A layout of which every field is told: an array is written once and is   *)
(* as long as its type says, a text is written behind its length.           *)
ProperText(layout, i) ==
    /\ layout[i][1] \in Arrays /\ layout[i][2] \in Nat
    /\ layout[i][2] = 0 =>
           \E j \in 1 .. i - 1 : layout[j][1] = layout[i][1] /\ layout[j][2] # 0
    /\ \E j \in 1 .. Len(layout) : layout[j][1] = layout[i][1] /\ layout[j][2] = 0

ProperField(layout, i) ==
    /\ layout[i][1] \in Texts => ProperText(layout, i)
    /\ layout[i][1] \in Arrays \ Texts =>
           layout[i][2] = 0 /\ ArraySize[layout[i][1]] \in Nat
    /\ layout[i][1] \notin Arrays => layout[i][2] \in Nat \ {0}

Proper(layout) ==
    Len(layout) \in Nat \ {0} /\ \A i \in 1 .. Len(layout) : ProperField(layout, i)

(* Texts whose lengths the bytes of the layout can hold.                    *)
Short(struct, layout) ==
    \A i \in 1 .. Len(layout) :
        layout[i][1] \in Texts /\ layout[i][2] # 0 =>
            Len(struct[layout[i][1]]) <= Weight(layout[i][2]) - 1

LEMMA FieldFills ==
    ASSUME NEW struct, NEW layout, NEW lists, Proper(layout), Fills(struct, layout, lists),
           Short(struct, layout), NEW i \in 1 .. Len(layout)
    PROVE  /\ Tellable(struct, layout[i][1], layout[i][2])
           /\ layout[i][1] \in Arrays \ Texts =>
                  Len(struct[layout[i][1]]) = ArraySize[layout[i][1]]
<1> DEFINE f == layout[i][1]
           w == layout[i][2]
           v == struct[f]
<1>1. CASE f \in Texts
  <2>1. v \in Seq(Byte)
    BY <1>1 DEF Fills
  <2>2. f \in Arrays /\ w \in Nat /\ (w # 0 => Len(v) <= Weight(w) - 1)
    BY <1>1 DEF Proper, ProperField, ProperText, Short
  <2> QED BY <1>1, <2>1, <2>2 DEF Tellable
<1>2. CASE f \in Arrays \ Texts
  <2>1. v \in FieldValues(f, ArraySize[f])
    BY <1>2 DEF Fills
  <2>2. w = 0 /\ ArraySize[f] \in Nat
    BY <1>2 DEF Proper, ProperField
  <2>3. v \in Seq(Byte) /\ Len(v) = ArraySize[f]
    BY <1>2, <2>1, <2>2, FieldTyped
  <2> QED BY <1>2, <2>2, <2>3 DEF Tellable
<1>3. CASE f \notin Arrays
  <2>1. w \in Nat \ {0} /\ f \notin Texts
    BY <1>3 DEF Proper, ProperField, ProperText
  <2>2. v \in FieldValues(f, w)
    BY <1>3, <2>1 DEF Fills
  <2> QED BY <1>3, <2>1, <2>2 DEF Tellable
<1> QED BY <1>1, <1>2, <1>3

LEMMA FillsTellable ==
    ASSUME NEW struct, NEW layout, NEW lists, Proper(layout), Fills(struct, layout, lists),
           Short(struct, layout)
    PROVE  AllTellable(struct, layout)
<1>1. \A i \in 1 .. Len(layout) : Tellable(struct, layout[i][1], layout[i][2])
  BY FieldFills
<1> QED BY <1>1 DEF AllTellable, Proper

(* The frame of a struct tells all of its fields.                           *)
LEMMA StructTells ==
    ASSUME NEW layout, NEW lists, Proper(layout),
           NEW a, Fills(a, layout, lists), Short(a, layout),
           NEW b, Fills(b, layout, lists), Short(b, layout),
           Put(a, layout) = Put(b, layout),
           \A l \in lists : a[l] = b[l]
    PROVE  a = b
<1>1. AllTellable(a, layout) /\ AllTellable(b, layout)
  BY FillsTellable
<1>2. Announced(a, b, layout)
  <2>1. ASSUME NEW i \in 1 .. Len(layout), layout[i][1] \in Arrays, layout[i][2] = 0
        PROVE  \/ Len(a[layout[i][1]]) = Len(b[layout[i][1]])
               \/ \E j \in 1 .. i - 1 : layout[j][1] = layout[i][1] /\ layout[j][2] # 0
    <3>1. CASE layout[i][1] \in Texts
      BY <2>1, <3>1 DEF Proper, ProperField, ProperText
    <3>2. CASE layout[i][1] \notin Texts
      <4>1. /\ Len(a[layout[i][1]]) = ArraySize[layout[i][1]]
            /\ Len(b[layout[i][1]]) = ArraySize[layout[i][1]]
        BY <2>1, <3>2, FieldFills
      <4> QED BY <4>1
    <3> QED BY <3>1, <3>2
  <2> QED BY <2>1 DEF Announced
<1>3. \A i \in 1 .. Len(layout) : SameField(a, b, layout[i][1], layout[i][2])
  BY <1>1, <1>2, PutTells
<1>4. ASSUME NEW i \in 1 .. Len(layout)
      PROVE  a[layout[i][1]] = b[layout[i][1]]
  <2>1. CASE layout[i][1] \in Texts
    <3>1. PICK j \in 1 .. Len(layout) : layout[j][1] = layout[i][1] /\ layout[j][2] = 0
      BY <2>1 DEF Proper, ProperField, ProperText
    <3>2. SameField(a, b, layout[j][1], layout[j][2])
      BY <1>3
    <3> QED BY <3>1, <3>2 DEF SameField
  <2>2. CASE layout[i][1] \notin Texts
    <3>1. ~(layout[i][1] \in Arrays /\ layout[i][2] # 0)
      BY <2>2 DEF Proper, ProperField
    <3>2. SameField(a, b, layout[i][1], layout[i][2])
      BY <1>3
    <3> QED BY <3>1, <3>2 DEF SameField
  <2> QED BY <2>1, <2>2
<1> DEFINE fields == {layout[i][1] : i \in 1 .. Len(layout)} \cup lists
<1>5. \A f \in fields : a[f] = b[f]
  BY <1>4
<1>6. a = [f \in fields |-> a[f]] /\ b = [f \in fields |-> b[f]]
  BY DEF Fills
<1> HIDE DEF fields
<1> QED BY <1>5, <1>6

(* Without texts there is nothing that could be too long.                   *)
Plain(layout) == Proper(layout) /\ \A i \in 1 .. Len(layout) : layout[i][1] \notin Texts

LEMMA PlainFrames ==
    ASSUME NEW layout, Plain(layout), NEW lists, NEW struct, Fills(struct, layout, lists)
    PROVE  Short(struct, layout) /\ Put(struct, layout) \in Seq(Byte)
<1>1. Short(struct, layout)
  BY DEF Plain, Short
<1>2. AllTellable(struct, layout)
  BY <1>1, FillsTellable DEF Plain
<1> QED BY <1>1, <1>2, WrittenParts

LEMMA PlainLong ==
    ASSUME NEW layout, Plain(layout), NEW lists,
           NEW a, Fills(a, layout, lists), NEW b, Fills(b, layout, lists)
    PROVE  Len(Put(a, layout)) = Len(Put(b, layout))
<1>1. Short(a, layout) /\ Short(b, layout) /\ Proper(layout)
  BY PlainFrames DEF Plain
<1>2. AllTellable(a, layout) /\ AllTellable(b, layout)
  BY <1>1, FillsTellable
<1>3. ASSUME NEW i \in 1 .. Len(layout), layout[i][1] \in Arrays
      PROVE  Len(a[layout[i][1]]) = Len(b[layout[i][1]])
  <2>1. layout[i][1] \in Arrays \ Texts
    BY <1>3 DEF Plain
  <2>2. /\ Len(a[layout[i][1]]) = ArraySize[layout[i][1]]
        /\ Len(b[layout[i][1]]) = ArraySize[layout[i][1]]
    BY <1>1, <2>1, FieldFills
  <2> QED BY <2>2
<1> QED BY <1>2, <1>3, PutsLong

LEMMA PlainTells ==
    ASSUME NEW layout, Plain(layout), NEW lists,
           NEW a, Fills(a, layout, lists), NEW b, Fills(b, layout, lists),
           Put(a, layout) = Put(b, layout), \A l \in lists : a[l] = b[l]
    PROVE  a = b
<1>1. Short(a, layout) /\ Short(b, layout) /\ Proper(layout)
  BY PlainFrames DEF Plain
<1> QED BY <1>1, StructTells

-----------------------------------------------------------------------------
(* Batches *)

LEMMA PutAllTells ==
    ASSUME NEW layout, Plain(layout), NEW n \in Nat \ {0},
           NEW a, Len(a) = n, \A i \in 1 .. n : Fills(a[i], layout, {}),
           NEW b, Len(b) = n, \A i \in 1 .. n : Fills(b[i], layout, {}),
           PutAll(a, layout) = PutAll(b, layout)
    PROVE  \A i \in 1 .. n : a[i] = b[i]
<1> DEFINE p == [i \in 1 .. Len(a) |-> Put(a[i], layout)]
           q == [i \in 1 .. Len(b) |-> Put(b[i], layout)]
<1>1. FlattenSeq(p) = FlattenSeq(q)
  BY DEF PutAll
<1>2. /\ Len(p) = n /\ Len(q) = n
      /\ \A i \in 1 .. n : p[i] = Put(a[i], layout) /\ q[i] = Put(b[i], layout)
  OBVIOUS
<1> HIDE DEF p, q
<1>3. ASSUME NEW i \in 1 .. n
      PROVE  p[i] \in Seq(Byte) /\ q[i] \in Seq(Byte) /\ Len(p[i]) = Len(q[i])
  <2> DEFINE x == a[i]
             y == b[i]
  <2>1. Fills(x, layout, {}) /\ Fills(y, layout, {})
    OBVIOUS
  <2> HIDE DEF x, y
  <2>2. Put(x, layout) \in Seq(Byte) /\ Put(y, layout) \in Seq(Byte)
    BY <2>1, PlainFrames
  <2>3. Len(Put(x, layout)) = Len(Put(y, layout))
    BY <2>1, PlainLong
  <2> QED BY <1>2, <2>2, <2>3 DEF x, y
<1>4. AreParts(p, n, Byte) /\ AreParts(q, n, Byte) /\ InStep(p, q, n)
  BY <1>2, <1>3 DEF AreParts, InStep
<1>5. \A i \in 1 .. n : p[i] = q[i]
  BY <1>1, <1>4, FlattenTells
<1>6. ASSUME NEW i \in 1 .. n
      PROVE  a[i] = b[i]
  <2> DEFINE x == a[i]
             y == b[i]
  <2>1. Fills(x, layout, {}) /\ Fills(y, layout, {}) /\ Put(x, layout) = Put(y, layout)
    BY <1>2, <1>5
  <2> HIDE DEF x, y
  <2>2. x = y
    BY <2>1, PlainTells
  <2> QED BY <2>2 DEF x, y
<1> QED BY <1>6

(* Structs of a list, whose frame has no texts. *)
AllFill(list, layout) == \A i \in 1 .. Len(list) : Fills(list[i], layout, {})

LEMMA PutAllOfNone ==
    ASSUME NEW layout, NEW list, Len(list) = 0
    PROVE  PutAll(list, layout) = <<>>
<1> DEFINE p == [i \in 1 .. Len(list) |-> Put(list[i], layout)]
<1>1. p = <<>>
  OBVIOUS
<1>2. FlattenSeq(<<>>) = <<>>
  BY DEF FlattenSeq
<1> HIDE DEF p
<1>3. FlattenSeq(p) = <<>>
  BY <1>1, <1>2
<1> QED BY <1>3 DEF PutAll, p

LEMMA PutAllTyped ==
    ASSUME NEW layout, Plain(layout), NEW S, NEW list \in Seq(S), AllFill(list, layout)
    PROVE  PutAll(list, layout) \in Seq(Byte)
<1> DEFINE n == Len(list)
           p == [i \in 1 .. Len(list) |-> Put(list[i], layout)]
<1>1. n \in Nat
  BY LenProperties
<1>2. CASE n = 0
  BY <1>2, PutAllOfNone, EmptySeq
<1>3. CASE n # 0
  <2>1. n \in Nat \ {0}
    BY <1>1, <1>3
  <2>2. Len(p) = n /\ \A i \in 1 .. n : p[i] = Put(list[i], layout)
    BY <1>1
  <2>3. PutAll(list, layout) = FlattenSeq(p)
    BY DEF PutAll
  <2> HIDE DEF p
  <2>4. ASSUME NEW i \in 1 .. n
        PROVE  p[i] \in Seq(Byte)
    <3> DEFINE x == list[i]
    <3>1. Fills(x, layout, {})
      BY DEF AllFill
    <3> HIDE DEF x
    <3>2. Put(x, layout) \in Seq(Byte)
      BY <3>1, PlainFrames
    <3> QED BY <2>2, <3>2 DEF x
  <2> HIDE DEF n
  <2>5. FlattenSeq(p) \in Seq(Byte)
    BY <2>1, <2>2, <2>4, FlattenParts
  <2> QED BY <2>3, <2>5
<1> QED BY <1>2, <1>3

LEMMA ListTells ==
    ASSUME NEW layout, Plain(layout), NEW S,
           NEW a \in Seq(S), AllFill(a, layout), NEW b \in Seq(S), AllFill(b, layout),
           Len(a) = Len(b), PutAll(a, layout) = PutAll(b, layout)
    PROVE  a = b
<1> DEFINE n == Len(a)
<1>1. n \in Nat /\ Len(a) = n /\ Len(b) = n
  BY LenProperties
<1>2. (\A i \in 1 .. n : Fills(a[i], layout, {})) /\ (\A i \in 1 .. n : Fills(b[i], layout, {}))
  BY <1>1 DEF AllFill
<1> HIDE DEF n
<1>3. CASE n = 0
  BY <1>1, <1>3, SeqEqual
<1>4. CASE n # 0
  <2>1. n \in Nat \ {0}
    BY <1>1, <1>4
  <2>2. \A i \in 1 .. n : a[i] = b[i]
    BY <1>1, <1>2, <2>1, PutAllTells
  <2> QED BY <1>1, <2>2, SeqEqual
<1> QED BY <1>3, <1>4

(* One run of a batch: the count says how many there are. *)
LEMMA CountedPlain ==
    ASSUME NEW layout, Plain(layout), NEW S, NEW list \in Seq(S), AllFill(list, layout),
           Len(list) <= Base - 1
    PROVE  /\ Counted(list, layout) = Bytes(Len(list), 1) \o PutAll(list, layout)
           /\ Bytes(Len(list), 1) \in Seq(Byte) /\ Len(Bytes(Len(list), 1)) = 1
           /\ PutAll(list, layout) \in Seq(Byte)
           /\ Number(Bytes(Len(list), 1)) = Len(list)
<1> DEFINE n == Len(list)
<1>1. n \in Nat /\ n <= Base - 1
  BY LenProperties
<1>2. SubSeq(list, 1, n) = list
  BY SubSeqFull
<1>3. Counted(list, layout) = Bytes(n, 1) \o PutAll(list, layout)
  <2> DEFINE count == IF Len(list) > Base - 1 THEN Base - 1 ELSE Len(list)
  <2>1. count = n
    <3>1. ~(n > Base - 1)
      <4> HIDE DEF n
      <4> QED BY <1>1, BaseIsEven
    <3> QED BY <3>1
  <2>2. Counted(list, layout) = Bytes(count, 1) \o PutAll(SubSeq(list, 1, count), layout)
    BY DEF Counted
  <2> HIDE DEF count, n
  <2> QED BY <1>2, <2>1, <2>2
<1> HIDE DEF n
<1>4. Bytes(n, 1) \in Seq(Byte) /\ Len(Bytes(n, 1)) = 1
  <2>1. n \in Int /\ 1 \in Nat
    BY <1>1
  <2> QED BY <2>1, BytesTyped
<1>5. Number(Bytes(n, 1)) = n
  <2>1. n <= Weight(1) - 1
    BY <1>1, SmallWeights
  <2> QED BY <1>1, <2>1, LengthBack
<1>6. PutAll(list, layout) \in Seq(Byte)
  BY PutAllTyped
<1> QED BY <1>3, <1>4, <1>5, <1>6 DEF n

LEMMA CountedTells ==
    ASSUME NEW layout, Plain(layout), NEW S,
           NEW a \in Seq(S), AllFill(a, layout), Len(a) <= Base - 1,
           NEW b \in Seq(S), AllFill(b, layout), Len(b) <= Base - 1,
           Counted(a, layout) = Counted(b, layout)
    PROVE  a = b
<1> DEFINE s == Bytes(Len(a), 1)
           t == PutAll(a, layout)
           u == Bytes(Len(b), 1)
           v == PutAll(b, layout)
<1>1. /\ Counted(a, layout) = s \o t /\ s \in Seq(Byte) /\ Len(s) = 1 /\ t \in Seq(Byte)
      /\ Number(s) = Len(a)
  BY CountedPlain
<1>2. /\ Counted(b, layout) = u \o v /\ u \in Seq(Byte) /\ Len(u) = 1 /\ v \in Seq(Byte)
      /\ Number(u) = Len(b)
  BY CountedPlain
<1>3. s = u /\ t = v
  <2> HIDE DEF s, t, u, v
  <2>1. s \o t = u \o v /\ Len(s) = Len(u)
    BY <1>1, <1>2
  <2> QED BY <1>1, <1>2, <2>1, ConcatTells
<1>4. Len(a) = Len(b) /\ PutAll(a, layout) = PutAll(b, layout)
  BY <1>1, <1>2, <1>3
<1> QED BY <1>4, ListTells

LEMMA CountedLike ==
    ASSUME NEW layout, Plain(layout), NEW S, NEW list \in Seq(S), AllFill(list, layout),
           Len(list) <= Base - 1
    PROVE  Counted(list, layout) \in Seq(Byte)
<1> DEFINE s == Bytes(Len(list), 1)
           t == PutAll(list, layout)
<1>1. Counted(list, layout) = s \o t /\ s \in Seq(Byte) /\ t \in Seq(Byte)
  BY CountedPlain
<1> HIDE DEF s, t
<1>2. s \o t \in Seq(Byte)
  BY <1>1, ConcatProperties
<1> QED BY <1>1, <1>2

(* A list that is sent in runs. *)
LEMMA RunOfList ==
    ASSUME NEW S, NEW list \in Seq(S), NEW layout, AllFill(list, layout),
           NEW size \in Nat \ {0}, NEW k \in Nat \ {0}
    PROVE  LET run == Run(list, size, k)
           IN  run \in Seq(S) /\ AllFill(run, layout) /\ Len(run) <= size
<1> DEFINE l == Len(list)
           a == size * (k - 1) + 1
           b == IF size * k < l THEN size * k ELSE l
           run == SubSeq(list, a, b)
<1>1. Run(list, size, k) = run
  BY DEF Run
<1>2. l \in Nat
  BY LenProperties
<1>3. a \in Nat \ {0} /\ b \in Nat /\ b <= l /\ b - a + 1 <= size
  <2>1. size * (k - 1) \in Nat /\ size * k \in Nat /\ size * k = size * (k - 1) + size
    OBVIOUS
  <2>2. b <= size * k
    <3> HIDE DEF l
    <3> QED BY <1>2, <2>1
  <2> HIDE DEF l
  <2> QED BY <1>2, <2>1, <2>2
<1>4. \A i \in a .. b : i \in 1 .. l
  <2> HIDE DEF a, b, l
  <2> QED BY <1>2, <1>3
<1>5. \A i \in a .. b : list[i] \in S
  BY <1>4, ElementOfSeq
<1> HIDE DEF a, b, l
<1>6. /\ run \in Seq(S) /\ Len(run) = (IF a <= b THEN b - a + 1 ELSE 0)
      /\ \A i \in 1 .. b - a + 1 : run[i] = list[a + i - 1]
  BY <1>3, <1>5, SubSeqProperties
<1> HIDE DEF run
<1>7. Len(run) <= size
  BY <1>3, <1>6
<1>8. ASSUME NEW i \in 1 .. Len(run)
      PROVE  Fills(run[i], layout, {})
  <2> DEFINE j == a + i - 1
  <2>1. i \in 1 .. b - a + 1 /\ j \in a .. b
    BY <1>3, <1>6
  <2>2. run[i] = list[j] /\ j \in 1 .. l
    BY <1>4, <1>6, <2>1
  <2> HIDE DEF j
  <2>3. Fills(list[j], layout, {})
    BY <2>2 DEF AllFill, l
  <2> QED BY <2>2, <2>3
<1>9. AllFill(run, layout)
  BY <1>8 DEF AllFill
<1> QED BY <1>1, <1>6, <1>7, <1>9

LEMMA RunsTell ==
    ASSUME NEW S, NEW size \in Nat \ {0},
           NEW a \in Seq(S), a # <<>>, NEW b \in Seq(S), b # <<>>,
           Len(Runs(a, size)) = Len(Runs(b, size)),
           \A k \in 1 .. Len(Runs(a, size)) : Runs(a, size)[k] = Runs(b, size)[k]
    PROVE  a = b
<1> DEFINE p == Runs(a, size)
           q == Runs(b, size)
<1>1. Len(p) \in Nat \ {0} /\ FlattenSeq(p) = a
  BY FlattenRuns
<1>2. Len(q) \in Nat \ {0} /\ FlattenSeq(q) = b
  BY FlattenRuns
<1>3. p = [k \in 1 .. Len(p) |-> p[k]] /\ q = [k \in 1 .. Len(q) |-> q[k]]
  <2> DEFINE m == (Len(a) + size - 1) \div size
             n == (Len(b) + size - 1) \div size
  <2>1. p = [k \in 1 .. m |-> Run(a, size, k)] /\ q = [k \in 1 .. n |-> Run(b, size, k)]
    BY DEF Runs
  <2>2. m \in Nat /\ n \in Nat
    <3> DEFINE l == Len(a)
               r == Len(b)
    <3>1. l \in Nat \ {0} /\ r \in Nat \ {0}
      BY EmptySeq
    <3> HIDE DEF l, r
    <3>2. (l + size - 1) \div size \in Nat /\ (r + size - 1) \div size \in Nat
      BY <3>1, NumberOfRuns
    <3> QED BY <3>2 DEF l, r
  <2> HIDE DEF m, n, p, q
  <2>3. Len(p) = m /\ Len(q) = n
    BY <2>1, <2>2
  <2> QED BY <2>1, <2>3
<1>4. p = q
  <2>1. Len(p) = Len(q) /\ \A k \in 1 .. Len(p) : p[k] = q[k]
    OBVIOUS
  <2> HIDE DEF p, q
  <2> QED BY <1>3, <2>1
<1> QED BY <1>1, <1>2, <1>4

(* The frames of a batch, the same head before every run of it. *)
BatchFrames(type, head, items, layout) ==
    [k \in 1 .. Len(Runs(items, Base - 1)) |->
        Frame(type, head \o Counted(Runs(items, Base - 1)[k], layout))]

LEMMA RunsOfList ==
    ASSUME NEW S, NEW list \in Seq(S), list # <<>>, NEW layout, AllFill(list, layout),
           NEW size \in Nat \ {0}
    PROVE  /\ Len(Runs(list, size)) \in Nat \ {0}
           /\ \A k \in 1 .. Len(Runs(list, size)) :
                 LET run == Runs(list, size)[k]
                 IN  run \in Seq(S) /\ AllFill(run, layout) /\ Len(run) <= size
<1> DEFINE n == (Len(list) + size - 1) \div size
           runs == Runs(list, size)
<1>1. n \in Nat \ {0}
  <2> DEFINE l == Len(list)
  <2>1. l \in Nat \ {0}
    BY EmptySeq
  <2> HIDE DEF l
  <2>2. (l + size - 1) \div size \in Nat \ {0}
    BY <2>1, NumberOfRuns
  <2> QED BY <2>2 DEF l
<1>2. runs = [k \in 1 .. n |-> Run(list, size, k)]
  BY DEF Runs
<1> HIDE DEF n, runs
<1>3. Len(runs) = n /\ \A k \in 1 .. n : runs[k] = Run(list, size, k)
  BY <1>1, <1>2
<1>4. ASSUME NEW k \in 1 .. n
      PROVE  runs[k] \in Seq(S) /\ AllFill(runs[k], layout) /\ Len(runs[k]) <= size
  <2> DEFINE run == Run(list, size, k)
  <2>1. k \in Nat \ {0}
    BY <1>1
  <2>2. run \in Seq(S) /\ AllFill(run, layout) /\ Len(run) <= size
    BY <2>1, RunOfList
  <2> QED BY <1>3, <2>2
<1> QED BY <1>1, <1>3, <1>4 DEF runs

LEMMA BatchTells ==
    ASSUME NEW layout, Plain(layout), NEW S,
           NEW a \in Seq(S), a # <<>>, AllFill(a, layout), NEW g \in Seq(Byte),
           NEW b \in Seq(S), b # <<>>, AllFill(b, layout), NEW h \in Seq(Byte),
           Len(g) = Len(h), NEW type,
           BatchFrames(type, g, a, layout) = BatchFrames(type, h, b, layout)
    PROVE  g = h /\ a = b
<1> DEFINE size == Base - 1
           p == Runs(a, size)
           q == Runs(b, size)
           fa == BatchFrames(type, g, a, layout)
           fb == BatchFrames(type, h, b, layout)
<1>1. size \in Nat \ {0}
  BY BaseIsEven
<1>2. /\ fa = [k \in 1 .. Len(p) |-> Frame(type, g \o Counted(p[k], layout))]
      /\ fb = [k \in 1 .. Len(q) |-> Frame(type, h \o Counted(q[k], layout))]
      /\ fa = fb
  BY DEF BatchFrames
<1> HIDE DEF size, fa, fb
<1>3. /\ Len(p) \in Nat \ {0}
      /\ \A k \in 1 .. Len(p) : p[k] \in Seq(S) /\ AllFill(p[k], layout) /\ Len(p[k]) <= size
  BY <1>1, RunsOfList
<1>4. /\ Len(q) \in Nat \ {0}
      /\ \A k \in 1 .. Len(q) : q[k] \in Seq(S) /\ AllFill(q[k], layout) /\ Len(q[k]) <= size
  BY <1>1, RunsOfList
<1> HIDE DEF p, q
<1>5. Len(p) = Len(q)
  <2>1. Len(fa) = Len(p) /\ Len(fb) = Len(q)
    BY <1>2, <1>3, <1>4
  <2> QED BY <1>2, <2>1
<1>6. ASSUME NEW k \in 1 .. Len(p)
      PROVE  g = h /\ p[k] = q[k]
  <2> DEFINE x == p[k]
             y == q[k]
             s == Counted(x, layout)
             t == Counted(y, layout)
  <2>1. x \in Seq(S) /\ AllFill(x, layout) /\ Len(x) <= Base - 1
    BY <1>3 DEF size
  <2>2. y \in Seq(S) /\ AllFill(y, layout) /\ Len(y) <= Base - 1
    BY <1>4, <1>5 DEF size
  <2>3. g \o s = h \o t
    <3>1. fa[k] = Frame(type, g \o s) /\ fb[k] = Frame(type, h \o t)
      BY <1>2, <1>5
    <3>2. fa[k] = fb[k]
      BY <1>2
    <3> DEFINE c == g \o s
               d == h \o t
    <3> HIDE DEF s, t, c, d
    <3>3. Frame(type, c) = Frame(type, d)
      BY <3>1, <3>2 DEF c, d
    <3>4. Frame(type, c).bytes = c /\ Frame(type, d).bytes = d
      BY DEF Frame
    <3>5. c = d
      BY <3>3, <3>4
    <3> QED BY <3>5 DEF c, d
  <2> HIDE DEF x, y
  <2>4. s \in Seq(Byte) /\ t \in Seq(Byte)
    BY <2>1, <2>2, CountedLike
  <2>5. g = h /\ s = t
    <3> HIDE DEF s, t
    <3> QED BY <2>3, <2>4, ConcatTells
  <2>6. x = y
    BY <2>1, <2>2, <2>5, CountedTells
  <2> QED BY <2>5, <2>6 DEF x, y
<1>7. g = h
  <2>1. 1 \in 1 .. Len(p)
    BY <1>3
  <2> QED BY <1>6, <2>1
<1>8. a = b
  <2>1. Len(p) = Len(q) /\ \A k \in 1 .. Len(p) : p[k] = q[k]
    BY <1>5, <1>6
  <2> QED BY <1>1, <2>1, RunsTell DEF p, q
<1> QED BY <1>7, <1>8

(* Two lists are lists of the same set. *)
LEMMA TwoLists ==
    ASSUME NEW a, NEW b, NEW layout, IsList(a, layout), IsList(b, layout)
    PROVE  LET S == Range(a) \cup Range(b)
           IN  /\ a \in Seq(S) /\ b \in Seq(S)
               /\ AllFill(a, layout) /\ AllFill(b, layout)
<1> DEFINE S == Range(a) \cup Range(b)
<1>1. a \in Seq(Range(a)) /\ b \in Seq(Range(b))
  BY DEF IsList
<1>2. a \in Seq(S) /\ b \in Seq(S)
  <2>1. Range(a) \subseteq S /\ Range(b) \subseteq S
    OBVIOUS
  <2> HIDE DEF S
  <2> QED BY <1>1, <2>1, SeqMonotonic
<1>3. ASSUME NEW i \in 1 .. Len(a)
      PROVE  Fills(a[i], layout, {})
  BY <1>1, ElementOfSeq DEF IsList
<1>4. ASSUME NEW i \in 1 .. Len(b)
      PROVE  Fills(b[i], layout, {})
  BY <1>1, ElementOfSeq DEF IsList
<1> QED BY <1>2, <1>3, <1>4 DEF AllFill


-----------------------------------------------------------------------------
(* The layouts of what the Guardian says *)

(* A field that is no text. *)
PlainField(f, w) ==
    /\ f \notin Texts
    /\ f \in Arrays => w = 0 /\ ArraySize[f] \in Nat
    /\ f \notin Arrays => w \in Nat \ {0}

LEMMA PlainFields ==
    ASSUME NEW layout, Len(layout) \in Nat \ {0},
           \A i \in 1 .. Len(layout) : PlainField(layout[i][1], layout[i][2])
    PROVE  Plain(layout)
BY DEF Plain, Proper, ProperField, PlainField

LEMMA SizesOfArrays ==
    /\ ArraySize["wallet_pubkey"] = 32 /\ ArraySize["owner_wallet"] = 32
    /\ ArraySize["content_hash"] = 16 /\ ArraySize["hash"] = 16
BY DEF ArraySize

CodeLayout == << <<"code", 2>> >>

LEMMA PlainLayouts ==
    /\ Plain(HelloAckLayout)
    /\ Plain(CodeLayout)
    /\ Plain(MoveBatchLayout)
    /\ Plain(DigBatchLayout)
    /\ Plain(DigEventItemLayout)
    /\ Plain(DigestLayout)
    /\ Plain(PageLayout)
    /\ Plain(RecordLayout)
    /\ Plain(MoveItemLayout)
    /\ Plain(PlayerJoinLayout)
    /\ Plain(PlayerLeaveLayout)
    /\ Plain(DigEventLayout)
<1>1. Plain(HelloAckLayout)
  <2> DEFINE n == Len(HelloAckLayout)
  <2>1. n \in Nat \ {0}
    BY DEF HelloAckLayout
  <2>2. \A i \in 1 .. Len(HelloAckLayout) : PlainField(HelloAckLayout[i][1], HelloAckLayout[i][2])
    BY SizesOfArrays DEF HelloAckLayout, PlainField, Texts, Arrays
  <2> QED BY <2>1, <2>2, PlainFields
<1>2. Plain(CodeLayout)
  <2> DEFINE n == Len(CodeLayout)
  <2>1. n \in Nat \ {0}
    BY DEF CodeLayout
  <2>2. \A i \in 1 .. Len(CodeLayout) : PlainField(CodeLayout[i][1], CodeLayout[i][2])
    BY SizesOfArrays DEF CodeLayout, PlainField, Texts, Arrays
  <2> QED BY <2>1, <2>2, PlainFields
<1>3. Plain(MoveBatchLayout)
  <2> DEFINE n == Len(MoveBatchLayout)
  <2>1. n \in Nat \ {0}
    BY DEF MoveBatchLayout
  <2>2. \A i \in 1 .. Len(MoveBatchLayout) :
            PlainField(MoveBatchLayout[i][1], MoveBatchLayout[i][2])
    BY SizesOfArrays DEF MoveBatchLayout, PlainField, Texts, Arrays
  <2> QED BY <2>1, <2>2, PlainFields
<1>4. Plain(DigBatchLayout)
  <2> DEFINE n == Len(DigBatchLayout)
  <2>1. n \in Nat \ {0}
    BY DEF DigBatchLayout
  <2>2. \A i \in 1 .. Len(DigBatchLayout) : PlainField(DigBatchLayout[i][1], DigBatchLayout[i][2])
    BY SizesOfArrays DEF DigBatchLayout, PlainField, Texts, Arrays
  <2> QED BY <2>1, <2>2, PlainFields
<1>5. Plain(DigEventItemLayout)
  <2> DEFINE n == Len(DigEventItemLayout)
  <2>1. n \in Nat \ {0}
    BY DEF DigEventItemLayout
  <2>2. \A i \in 1 .. Len(DigEventItemLayout) :
            PlainField(DigEventItemLayout[i][1], DigEventItemLayout[i][2])
    BY SizesOfArrays DEF DigEventItemLayout, PlainField, Texts, Arrays
  <2> QED BY <2>1, <2>2, PlainFields
<1>6. Plain(DigestLayout)
  <2> DEFINE n == Len(DigestLayout)
  <2>1. n \in Nat \ {0}
    BY DEF DigestLayout
  <2>2. \A i \in 1 .. Len(DigestLayout) : PlainField(DigestLayout[i][1], DigestLayout[i][2])
    BY SizesOfArrays DEF DigestLayout, PlainField, Texts, Arrays
  <2> QED BY <2>1, <2>2, PlainFields
<1>7. Plain(PageLayout)
  <2> DEFINE n == Len(PageLayout)
  <2>1. n \in Nat \ {0}
    BY DEF PageLayout
  <2>2. \A i \in 1 .. Len(PageLayout) : PlainField(PageLayout[i][1], PageLayout[i][2])
    BY SizesOfArrays DEF PageLayout, PlainField, Texts, Arrays
  <2> QED BY <2>1, <2>2, PlainFields
<1>8. Plain(RecordLayout)
  <2> DEFINE n == Len(RecordLayout)
  <2>1. n \in Nat \ {0}
    BY DEF RecordLayout
  <2>2. \A i \in 1 .. Len(RecordLayout) : PlainField(RecordLayout[i][1], RecordLayout[i][2])
    BY SizesOfArrays DEF RecordLayout, PlainField, Texts, Arrays
  <2> QED BY <2>1, <2>2, PlainFields
<1>9. Plain(MoveItemLayout)
  <2> DEFINE n == Len(MoveItemLayout)
  <2>1. n \in Nat \ {0}
    BY DEF MoveItemLayout, PoseLayout
  <2>2. \A i \in 1 .. Len(MoveItemLayout) : PlainField(MoveItemLayout[i][1], MoveItemLayout[i][2])
    BY SizesOfArrays DEF MoveItemLayout, PoseLayout, PlainField, Texts, Arrays
  <2> QED BY <2>1, <2>2, PlainFields
<1>10. Plain(PlayerJoinLayout)
  <2> DEFINE n == Len(PlayerJoinLayout)
  <2>1. n \in Nat \ {0}
    BY DEF PlayerJoinLayout, OwnerLayout, PoseLayout
  <2>2. \A i \in 1 .. Len(PlayerJoinLayout) : PlainField(PlayerJoinLayout[i][1], PlayerJoinLayout[i][2])
    BY SizesOfArrays DEF PlayerJoinLayout, OwnerLayout, PoseLayout, PlainField, Texts, Arrays
  <2> QED BY <2>1, <2>2, PlainFields
<1>11. Plain(PlayerLeaveLayout)
  <2> DEFINE n == Len(PlayerLeaveLayout)
  <2>1. n \in Nat \ {0}
    BY DEF PlayerLeaveLayout, OwnerLayout
  <2>2. \A i \in 1 .. Len(PlayerLeaveLayout) : PlainField(PlayerLeaveLayout[i][1], PlayerLeaveLayout[i][2])
    BY SizesOfArrays DEF PlayerLeaveLayout, OwnerLayout, PlainField, Texts, Arrays
  <2> QED BY <2>1, <2>2, PlainFields
<1>12. Plain(DigEventLayout)
  <2> DEFINE n == Len(DigEventLayout)
  <2>1. n \in Nat \ {0}
    BY DEF DigEventLayout, DigEventItemLayout
  <2>2. \A i \in 1 .. Len(DigEventLayout) : PlainField(DigEventLayout[i][1], DigEventLayout[i][2])
    BY SizesOfArrays DEF DigEventLayout, DigEventItemLayout, PlainField, Texts, Arrays
  <2> QED BY <2>1, <2>2, PlainFields
<1> QED BY <1>1, <1>2, <1>3, <1>4, <1>5, <1>6, <1>7, <1>8, <1>9, <1>10, <1>11, <1>12


(* Texts, with their lengths before them. *)
TextField(layout, text, i, j) ==
    /\ i \in 1 .. Len(layout) /\ j \in 1 .. Len(layout) /\ i < j
    /\ layout[i][1] = text /\ layout[i][2] \in Nat \ {0}
    /\ layout[j][1] = text /\ layout[j][2] = 0
    /\ text \in Texts /\ text \in Arrays
    /\ \A k \in 1 .. Len(layout) :
           k # i /\ k # j => PlainField(layout[k][1], layout[k][2])

LEMMA TextFields ==
    ASSUME NEW layout, Len(layout) \in Nat \ {0}, NEW text, NEW i, NEW j,
           TextField(layout, text, i, j)
    PROVE  /\ Proper(layout)
           /\ \A struct : Len(struct[text]) <= Weight(layout[i][2]) - 1 => Short(struct, layout)
<1>1. \A k \in 1 .. Len(layout) : k # i /\ k # j => ProperField(layout, k)
  BY DEF TextField, PlainField, ProperField
<1>2. ProperField(layout, i) /\ ProperField(layout, j)
  <2>1. ProperText(layout, i)
    BY DEF TextField, ProperText
  <2>2. ProperText(layout, j)
    <3>1. i \in 1 .. j - 1
      BY DEF TextField
    <3> QED BY <3>1 DEF TextField, ProperText
  <2> QED BY <2>1, <2>2 DEF TextField, ProperField
<1>3. ASSUME NEW struct, Len(struct[text]) <= Weight(layout[i][2]) - 1
      PROVE  Short(struct, layout)
  BY <1>3 DEF TextField, PlainField, Short
<1> QED BY <1>1, <1>2, <1>3 DEF Proper

LEMMA TextLayouts ==
    /\ Proper(ChatEventLayout) /\ Proper(EquipmentEventLayout) /\ Proper(IdentityEventLayout)
    /\ \A struct : /\ Len(struct["message"]) <= Base - 1 => Short(struct, ChatEventLayout)
                   /\ Len(struct["payload"]) <= Base * Base - 1 =>
                          Short(struct, EquipmentEventLayout)
                   /\ Len(struct["display_name"]) <= Base - 1 =>
                          Short(struct, IdentityEventLayout)
<1>1. /\ Proper(ChatEventLayout)
      /\ \A struct : Len(struct["message"]) <= Base - 1 => Short(struct, ChatEventLayout)
  <2>1. Len(ChatEventLayout) \in Nat \ {0} /\ ChatEventLayout[3][2] = 1
    BY DEF ChatEventLayout, ChatLayout
  <2>2. TextField(ChatEventLayout, "message", 3, 4)
    BY SizesOfArrays DEF TextField, ChatEventLayout, ChatLayout, PlainField, Texts, Arrays
  <2>3. \A struct : Len(struct["message"]) <= Weight(1) - 1 => Short(struct, ChatEventLayout)
    BY <2>1, <2>2, TextFields
  <2>4. Proper(ChatEventLayout)
    BY <2>1, <2>2, TextFields
  <2> QED BY <2>3, <2>4, SmallWeights
<1>2. /\ Proper(EquipmentEventLayout)
      /\ \A struct : Len(struct["payload"]) <= Base * Base - 1 => Short(struct, EquipmentEventLayout)
  <2>1. Len(EquipmentEventLayout) \in Nat \ {0} /\ EquipmentEventLayout[6][2] = 2
    BY DEF EquipmentEventLayout, EquipmentLayout
  <2>2. TextField(EquipmentEventLayout, "payload", 6, 8)
    BY SizesOfArrays DEF TextField, EquipmentEventLayout, EquipmentLayout, PlainField, Texts, Arrays
  <2>3. \A struct : Len(struct["payload"]) <= Weight(2) - 1 => Short(struct, EquipmentEventLayout)
    BY <2>1, <2>2, TextFields
  <2>4. Proper(EquipmentEventLayout)
    BY <2>1, <2>2, TextFields
  <2> QED BY <2>3, <2>4, SmallWeights
<1>3. /\ Proper(IdentityEventLayout)
      /\ \A struct : Len(struct["display_name"]) <= Base - 1 => Short(struct, IdentityEventLayout)
  <2>1. Len(IdentityEventLayout) \in Nat \ {0} /\ IdentityEventLayout[3][2] = 1
    BY DEF IdentityEventLayout, IdentityLayout
  <2>2. TextField(IdentityEventLayout, "display_name", 3, 4)
    BY SizesOfArrays DEF TextField, IdentityEventLayout, IdentityLayout, PlainField, Texts, Arrays
  <2>3. \A struct : Len(struct["display_name"]) <= Weight(1) - 1 => Short(struct, IdentityEventLayout)
    BY <2>1, <2>2, TextFields
  <2>4. Proper(IdentityEventLayout)
    BY <2>1, <2>2, TextFields
  <2> QED BY <2>3, <2>4, SmallWeights
<1> QED BY <1>1, <1>2, <1>3

-----------------------------------------------------------------------------
(* The pages of a manifest *)

LEMMA PagesOfList ==
    ASSUME NEW S, NEW list \in Seq(S), NEW layout, AllFill(list, layout)
    PROVE  /\ Len(Pages(list)) \in Nat \ {0}
           /\ \A k \in 1 .. Len(Pages(list)) :
                 LET page == Pages(list)[k]
                 IN  /\ page \in Seq(S) /\ AllFill(page, layout)
                     /\ Len(page) <= kBuildingManifestPageRecords
<1>1. CASE list = <<>>
  <2> DEFINE page == Pages(list)[1]
  <2>1. Len(Pages(list)) = 1 /\ page = <<>>
    BY <1>1 DEF Pages
  <2> HIDE DEF page
  <2>2. page \in Seq(S) /\ Len(page) = 0
    BY <2>1, EmptySeq
  <2>3. AllFill(page, layout)
    BY <2>2 DEF AllFill
  <2>4. Len(page) <= kBuildingManifestPageRecords
    BY <2>2, PageAssumption
  <2> DEFINE n == Len(Pages(list))
  <2>5. n \in Nat \ {0} /\ \A k \in 1 .. n : k = 1
    BY <2>1
  <2> HIDE DEF n
  <2> QED BY <2>2, <2>3, <2>4, <2>5, Zenon DEF n, page
<1>2. CASE list # <<>>
  <2>1. Pages(list) = Runs(list, kBuildingManifestPageRecords)
    BY <1>2 DEF Pages
  <2> QED BY <1>2, <2>1, RunsOfList, PageAssumption
<1> QED BY <1>1, <1>2

LEMMA PagesTell ==
    ASSUME NEW S, NEW a \in Seq(S), NEW b \in Seq(S), Len(Pages(a)) = Len(Pages(b)),
           \A k \in 1 .. Len(Pages(a)) : Pages(a)[k] = Pages(b)[k]
    PROVE  a = b
<1> DEFINE p == Pages(a)
           q == Pages(b)
           T == Seq(S)
<1>1. p \in Seq(T) /\ q \in Seq(T)
  BY PagesTyped
<1>2. FlattenSeq(p) = a /\ FlattenSeq(q) = b
  BY FlattenPages
<1>3. Len(p) = Len(q) /\ \A k \in 1 .. Len(p) : p[k] = q[k]
  OBVIOUS
<1> HIDE DEF p, q, T
<1>4. p = q
  BY <1>1, <1>3, SeqEqual
<1> QED BY <1>2, <1>4

LEMMA ConcatBytes ==
    ASSUME NEW s \in Seq(Byte), NEW t \in Seq(Byte)
    PROVE  s \o t \in Seq(Byte) /\ Len(s \o t) = Len(s) + Len(t)
BY ConcatProperties

(* Parts that are as long. *)
Alike(s, u) == s \in Seq(Byte) /\ u \in Seq(Byte) /\ Len(s) = Len(u)

LEMMA AsLong ==
    ASSUME NEW s, NEW u, Alike(s, u), NEW t, NEW v, Alike(t, v)
    PROVE  Alike(s \o t, u \o v)
<1>1. s \o t \in Seq(Byte) /\ Len(s \o t) = Len(s) + Len(t)
  BY ConcatBytes, Zenon DEF Alike
<1>2. u \o v \in Seq(Byte) /\ Len(u \o v) = Len(u) + Len(v)
  BY ConcatBytes, Zenon DEF Alike
<1>3. Len(s) + Len(t) = Len(u) + Len(v)
  BY DEF Alike
<1> QED BY <1>1, <1>2, <1>3, Zenon DEF Alike

SameWhole(s, t, u, v) == s \o t = u \o v

LEMMA AlikeTells ==
    ASSUME NEW s, NEW u, Alike(s, u), NEW t \in Seq(Byte), NEW v \in Seq(Byte),
           SameWhole(s, t, u, v)
    PROVE  s = u /\ t = v
BY ConcatTells DEF Alike, SameWhole

(* Parts behind the same head, of which all but the last are as long.       *)
SameParts(h, l, p, r, m, q, s) == h \o l \o p \o r = h \o m \o q \o s

LEMMA PartsTell ==
    ASSUME NEW h, Alike(h, h), NEW l, NEW m, Alike(l, m), NEW p, NEW q, Alike(p, q),
           NEW r \in Seq(Byte), NEW s \in Seq(Byte),
           SameParts(h, l, p, r, m, q, s)
    PROVE  l = m /\ p = q /\ r = s
<1> DEFINE c == h \o l
           d == h \o m
           e == c \o p
           f == d \o q
<1>1. Alike(c, d)
  BY AsLong, Zenon
<1>2. c = d => l = m
  <2>1. l \in Seq(Byte) /\ m \in Seq(Byte)
    BY DEF Alike
  <2>2. c = d => SameWhole(h, l, h, m)
    BY DEF SameWhole
  <2> HIDE DEF c, d
  <2> QED BY <2>1, <2>2, AlikeTells, Zenon
<1>3. SameWhole(e, r, f, s)
  BY DEF SameParts, SameWhole
<1> HIDE DEF c, d
<1>4. Alike(e, f)
  BY <1>1, AsLong, Zenon
<1>5. e = f => c = d /\ p = q
  <2>1. p \in Seq(Byte) /\ q \in Seq(Byte)
    BY DEF Alike
  <2>2. e = f => SameWhole(c, p, d, q)
    BY DEF SameWhole
  <2> HIDE DEF e, f
  <2> QED BY <1>1, <2>1, <2>2, AlikeTells, Zenon
<1> HIDE DEF e, f
<1>6. e = f /\ r = s
  BY <1>3, <1>4, AlikeTells, Zenon
<1> QED BY <1>2, <1>5, <1>6

IsManifest(e) == Fills(e, PageLayout, {"records"}) /\ IsList(e.records, RecordLayout)

LEMMA PageFramesTell ==
    ASSUME NEW a, IsManifest(a), NEW b, IsManifest(b), PageFrames(a) = PageFrames(b)
    PROVE  a = b
<1> DEFINE S == Range(a.records) \cup Range(b.records)
           p == Pages(a.records)
           q == Pages(b.records)
           n == Len(p)
           head(k) == <<3>> \o Bytes(k - 1, 2) \o Bytes(n, 2)
           fa == PageFrames(a)
           fb == PageFrames(b)
           da == Put(a, PageLayout)
           db == Put(b, PageLayout)
<1>1. /\ a.records \in Seq(S) /\ b.records \in Seq(S)
      /\ AllFill(a.records, RecordLayout) /\ AllFill(b.records, RecordLayout)
  BY TwoLists DEF IsManifest
<1> HIDE DEF S
<1>2. /\ n \in Nat \ {0}
      /\ \A k \in 1 .. n : /\ p[k] \in Seq(S) /\ AllFill(p[k], RecordLayout)
                           /\ Len(p[k]) <= kBuildingManifestPageRecords
  BY <1>1, PagesOfList
<1>3. /\ Len(q) \in Nat \ {0}
      /\ \A k \in 1 .. Len(q) : /\ q[k] \in Seq(S) /\ AllFill(q[k], RecordLayout)
                                /\ Len(q[k]) <= kBuildingManifestPageRecords
  BY <1>1, PagesOfList
<1>4. /\ fa = [k \in 1 .. n |-> Frame("BUILDING_MANIFEST_PAGE", PageBytes(a, p, k))]
      /\ fb = [k \in 1 .. Len(q) |-> Frame("BUILDING_MANIFEST_PAGE", PageBytes(b, q, k))]
      /\ fa = fb
  BY DEF PageFrames
<1>5. Len(q) = n
  <2> HIDE DEF n, p, q, fa, fb
  <2>1. Len(fa) = n /\ Len(fb) = Len(q)
    BY <1>2, <1>3, <1>4
  <2> QED BY <1>4, <2>1
<1>6. da \in Seq(Byte) /\ db \in Seq(Byte) /\ Len(da) = Len(db)
  <2>1. Fills(a, PageLayout, {"records"}) /\ Fills(b, PageLayout, {"records"}) /\ Plain(PageLayout)
    BY PlainLayouts DEF IsManifest
  <2> QED BY <2>1, PlainFrames, PlainLong
<1>7. ASSUME NEW k \in 1 .. n
      PROVE  p[k] = q[k] /\ da = db
  <2> DEFINE x == p[k]
             y == q[k]
             h == head(k)
             l == Bytes(Len(x), 2)
             m == Bytes(Len(y), 2)
             r == PutAll(x, RecordLayout)
             s == PutAll(y, RecordLayout)
             c == PageBytes(a, p, k)
             d == PageBytes(b, q, k)
  <2>1. /\ x \in Seq(S) /\ AllFill(x, RecordLayout) /\ Len(x) <= kBuildingManifestPageRecords
        /\ y \in Seq(S) /\ AllFill(y, RecordLayout) /\ Len(y) <= kBuildingManifestPageRecords
    BY <1>2, <1>3, <1>5
  <2>2. c = h \o l \o da \o r /\ d = h \o m \o db \o s
    <3> HIDE DEF da, db
    <3> QED BY <1>5 DEF PageBytes, da, db
  <2>3. c = d
    <3>1. fa[k] = Frame("BUILDING_MANIFEST_PAGE", c) /\ fb[k] = Frame("BUILDING_MANIFEST_PAGE", d)
      <4> HIDE DEF fa, fb, p, q, n
      <4> QED BY <1>4, <1>5
    <3>2. fa[k] = fb[k]
      BY <1>4
    <3> HIDE DEF c, d, fa, fb
    <3>3. Frame("BUILDING_MANIFEST_PAGE", c) = Frame("BUILDING_MANIFEST_PAGE", d)
      BY <3>1, <3>2
    <3>4. /\ Frame("BUILDING_MANIFEST_PAGE", c).bytes = c
          /\ Frame("BUILDING_MANIFEST_PAGE", d).bytes = d
      BY DEF Frame
    <3> QED BY <3>3, <3>4
  <2>4. h \in Seq(Byte)
    <3> DEFINE i == Bytes(k - 1, 2)
               j == Bytes(n, 2)
    <3> HIDE DEF p, n
    <3>1. k - 1 \in Int /\ n \in Int /\ 2 \in Nat
      BY <1>2
    <3>2. i \in Seq(Byte) /\ j \in Seq(Byte)
      BY <3>1, BytesTyped
    <3>3. <<3>> \in Seq(Byte)
      BY BaseIsEven DEF Byte
    <3> HIDE DEF i, j
    <3>4. <<3>> \o i \in Seq(Byte)
      BY <3>2, <3>3, ConcatBytes
    <3>5. <<3>> \o i \o j \in Seq(Byte)
      BY <3>2, <3>4, ConcatBytes
    <3> QED BY <3>5 DEF i, j
  <2> HIDE DEF x, y, h
  <2>5. /\ Len(x) \in Nat /\ Len(x) <= Weight(2) - 1
        /\ Len(y) \in Nat /\ Len(y) <= Weight(2) - 1
    <3>1. Len(x) \in Nat /\ Len(y) \in Nat
      BY <2>1, LenProperties
    <3>2. Weight(2) = Base * Base /\ Base \in Nat
      BY SmallWeights, BaseIsEven
    <3>3. kBuildingManifestPageRecords \in Nat /\ kBuildingManifestPageRecords < Base * Base
      BY PageAssumption, LimitsAssumption
    <3> DEFINE w == Base * Base
               u == Len(x)
               v == Len(y)
    <3>4. w \in Nat
      BY <3>2
    <3> HIDE DEF u, v, w
    <3>5. u <= w - 1 /\ v <= w - 1
      BY <2>1, <3>1, <3>3, <3>4 DEF u, v, w
    <3> QED BY <3>1, <3>2, <3>5 DEF u, v, w
  <2>6. /\ l \in Seq(Byte) /\ Len(l) = 2 /\ Number(l) = Len(x)
        /\ m \in Seq(Byte) /\ Len(m) = 2 /\ Number(m) = Len(y)
    <3>1. Len(x) \in Int /\ Len(y) \in Int /\ 2 \in Nat /\ 2 \in Nat \ {0}
      BY <2>5
    <3>2. l \in Seq(Byte) /\ Len(l) = 2 /\ m \in Seq(Byte) /\ Len(m) = 2
      BY <3>1, BytesTyped
    <3>3. Number(l) = Len(x) /\ Number(m) = Len(y)
      BY <2>5, <3>1, LengthBack
    <3> QED BY <3>2, <3>3
  <2>7. r \in Seq(Byte) /\ s \in Seq(Byte)
    BY <2>1, PutAllTyped, PlainLayouts
  <2>8. l = m /\ da = db /\ r = s
    <3> HIDE DEF l, m, r, s, da, db, c, d
    <3>1. SameParts(h, l, da, r, m, db, s)
      BY <2>2, <2>3 DEF SameParts
    <3>2. Alike(h, h) /\ Alike(l, m) /\ Alike(da, db)
      BY <1>6, <2>4, <2>6 DEF Alike
    <3> QED BY <2>7, <3>1, <3>2, PartsTell, Zenon
  <2>9. Len(x) = Len(y)
    BY <2>6, <2>8
  <2>10. x = y
    BY <2>1, <2>8, <2>9, ListTells, PlainLayouts
  <2> QED BY <2>8, <2>10 DEF x, y
<1>8. a.records = b.records
  <2>1. Len(p) = Len(q) /\ \A k \in 1 .. Len(p) : p[k] = q[k]
    BY <1>5, <1>7
  <2> QED BY <1>1, <2>1, PagesTell
<1>9. da = db
  <2>1. 1 \in 1 .. n
    BY <1>2
  <2> QED BY <1>7, <2>1
<1>10. \A f \in {"records"} : a[f] = b[f]
  BY <1>8
<1> QED BY <1>9, <1>10, PlainTells, PlainLayouts DEF IsManifest

-----------------------------------------------------------------------------
(* Events *)

LEMMA NumberTells ==
    ASSUME NEW f, f \notin Arrays, NEW width \in Nat \ {0},
           NEW u \in FieldValues(f, width), NEW v \in FieldValues(f, width),
           Bytes(u, width) = Bytes(v, width)
    PROVE  u = v
BY ValueBack

LEMMA NumberBytes ==
    ASSUME NEW f, f \notin Arrays, NEW width \in Nat \ {0}, NEW v \in FieldValues(f, width)
    PROVE  Bytes(v, width) \in Seq(Byte) /\ Len(Bytes(v, width)) = width
<1>1. v \in Int /\ width \in Nat
  BY FieldTyped
<1> QED BY <1>1, BytesTyped

LEMMA FieldOfStruct ==
    ASSUME NEW struct, NEW layout, NEW lists, Fills(struct, layout, lists),
           NEW i \in 1 .. Len(layout)
    PROVE  /\ layout[i][1] \in Texts => struct[layout[i][1]] \in Seq(Byte)
           /\ layout[i][1] \notin Arrays /\ layout[i][1] \notin Texts =>
                  struct[layout[i][1]] \in FieldValues(layout[i][1], layout[i][2])
BY DEF Fills

IsMoveBatch(e) ==
    /\ Fills(e, MoveBatchLayout, {"items"})
    /\ IsList(e.items, MoveItemLayout)
    /\ e.items # <<>>

LEMMA MoveFramesTell ==
    ASSUME NEW a, IsMoveBatch(a), NEW b, IsMoveBatch(b), MoveFrames(a) = MoveFrames(b)
    PROVE  a = b
<1> DEFINE S == Range(a.items) \cup Range(b.items)
           g == Bytes(a.server_tick, 2)
           h == Bytes(b.server_tick, 2)
<1>1. /\ a = [f \in {"server_tick", "items"} |-> a[f]]
      /\ b = [f \in {"server_tick", "items"} |-> b[f]]
      /\ a.server_tick \in FieldValues("server_tick", 2)
      /\ b.server_tick \in FieldValues("server_tick", 2)
      /\ "server_tick" \notin Arrays
  BY DEF IsMoveBatch, Fills, MoveBatchLayout, Texts, Arrays
<1>2. g \in Seq(Byte) /\ h \in Seq(Byte) /\ Len(g) = Len(h)
  BY <1>1, NumberBytes
<1>3. /\ a.items \in Seq(S) /\ AllFill(a.items, MoveItemLayout) /\ a.items # <<>>
      /\ b.items \in Seq(S) /\ AllFill(b.items, MoveItemLayout) /\ b.items # <<>>
  BY TwoLists DEF IsMoveBatch
<1>4. BatchFrames("MOVE_BATCH", g, a.items, MoveItemLayout)
          = BatchFrames("MOVE_BATCH", h, b.items, MoveItemLayout)
  BY DEF MoveFrames, BatchFrames
<1> HIDE DEF S, g, h
<1>5. g = h /\ a.items = b.items
  BY <1>2, <1>3, <1>4, BatchTells, PlainLayouts
<1>6. a.server_tick = b.server_tick
  BY <1>1, <1>5, NumberTells DEF g, h
<1> QED BY <1>1, <1>5, <1>6

IsDigBatch(e) ==
    /\ Fills(e, DigBatchLayout, {"items"})
    /\ IsList(e.items, DigEventItemLayout)
    /\ e.items # <<>>

LEMMA DigFramesTell ==
    ASSUME NEW a, IsDigBatch(a), NEW b, IsDigBatch(b), DigFrames(a) = DigFrames(b)
    PROVE  a = b
<1> DEFINE S == Range(a.items) \cup Range(b.items)
           p == Bytes(a.local_player_id, 2)
           q == Bytes(b.local_player_id, 2)
           r == Bytes(a.server_tick, 2)
           s == Bytes(b.server_tick, 2)
           g == p \o r
           h == q \o s
<1>1. /\ a = [f \in {"local_player_id", "server_tick", "items"} |-> a[f]]
      /\ b = [f \in {"local_player_id", "server_tick", "items"} |-> b[f]]
      /\ a.local_player_id \in FieldValues("local_player_id", 2)
      /\ b.local_player_id \in FieldValues("local_player_id", 2)
      /\ a.server_tick \in FieldValues("server_tick", 2)
      /\ b.server_tick \in FieldValues("server_tick", 2)
      /\ "server_tick" \notin Arrays /\ "local_player_id" \notin Arrays
  <2>1. Fills(a, DigBatchLayout, {"items"}) /\ Fills(b, DigBatchLayout, {"items"})
    BY DEF IsDigBatch
  <2>2. {DigBatchLayout[i][1] : i \in 1 .. Len(DigBatchLayout)} \cup {"items"}
            = {"local_player_id", "server_tick", "items"}
    BY DEF DigBatchLayout
  <2>3. /\ a = [f \in {"local_player_id", "server_tick", "items"} |-> a[f]]
        /\ b = [f \in {"local_player_id", "server_tick", "items"} |-> b[f]]
    BY <2>1, <2>2 DEF Fills
  <2>4. /\ 1 \in 1 .. Len(DigBatchLayout) /\ 2 \in 1 .. Len(DigBatchLayout)
        /\ DigBatchLayout[1][1] = "local_player_id" /\ DigBatchLayout[1][2] = 2
        /\ DigBatchLayout[2][1] = "server_tick" /\ DigBatchLayout[2][2] = 2
    BY DEF DigBatchLayout
  <2>5. /\ "server_tick" \notin Arrays /\ "local_player_id" \notin Arrays
        /\ "server_tick" \notin Texts /\ "local_player_id" \notin Texts
    BY DEF Arrays, Texts
  <2>6. /\ a.local_player_id \in FieldValues("local_player_id", 2)
        /\ b.local_player_id \in FieldValues("local_player_id", 2)
    BY <2>1, <2>4, <2>5, FieldOfStruct
  <2>7. /\ a.server_tick \in FieldValues("server_tick", 2)
        /\ b.server_tick \in FieldValues("server_tick", 2)
    BY <2>1, <2>4, <2>5, FieldOfStruct
  <2> QED BY <2>3, <2>5, <2>6, <2>7
<1>2. Alike(p, q) /\ Alike(r, s)
  BY <1>1, NumberBytes DEF Alike
<1>3. /\ a.items \in Seq(S) /\ AllFill(a.items, DigEventItemLayout) /\ a.items # <<>>
      /\ b.items \in Seq(S) /\ AllFill(b.items, DigEventItemLayout) /\ b.items # <<>>
  BY TwoLists DEF IsDigBatch
<1>4. BatchFrames("DIG_EVENT_BATCH", g, a.items, DigEventItemLayout)
          = BatchFrames("DIG_EVENT_BATCH", h, b.items, DigEventItemLayout)
  BY DEF DigFrames, BatchFrames
<1> HIDE DEF S, p, q, r, s
<1>5. g \in Seq(Byte) /\ h \in Seq(Byte) /\ Len(g) = Len(h)
  BY <1>2, AsLong DEF Alike
<1>6. g = h => p = q /\ r = s
  <2>1. g = h => SameWhole(p, r, q, s)
    BY DEF SameWhole
  <2>2. r \in Seq(Byte) /\ s \in Seq(Byte)
    BY <1>2 DEF Alike
  <2> HIDE DEF g, h
  <2> QED BY <1>2, <2>1, <2>2, AlikeTells, Zenon
<1> HIDE DEF g, h
<1>7. g = h /\ a.items = b.items
  BY <1>3, <1>4, <1>5, BatchTells, PlainLayouts
<1>8. a.server_tick = b.server_tick /\ a.local_player_id = b.local_player_id
  BY <1>1, <1>6, <1>7, NumberTells DEF p, q, r, s
<1> QED BY <1>1, <1>7, <1>8

(* One frame for a struct. *)
LEMMA OneTells ==
    ASSUME NEW type, NEW x, NEW y, One(type, x) = One(type, y)
    PROVE  x = y
<1>1. One(type, x)[1].bytes = x /\ One(type, y)[1].bytes = y
  BY DEF One, Frame
<1> QED BY <1>1

(* A text that is not longer than its limit is not cut.                     *)
LEMMA NotCut ==
    ASSUME NEW struct, NEW f, NEW limit \in Nat, Len(struct[f]) \in Nat, Len(struct[f]) <= limit
    PROVE  Cut(struct, f, limit) = struct
<1>1. ~(Len(struct[f]) > limit)
  OBVIOUS
<1> QED BY <1>1 DEF Cut

LEMMA TextTells ==
    ASSUME NEW layout, Proper(layout), NEW type, NEW f, NEW limit \in Nat,
           NEW a, Fills(a, layout, {}), Short(a, layout), Len(a[f]) \in Nat, Len(a[f]) <= limit,
           NEW b, Fills(b, layout, {}), Short(b, layout), Len(b[f]) \in Nat, Len(b[f]) <= limit,
           One(type, Put(Cut(a, f, limit), layout)) = One(type, Put(Cut(b, f, limit), layout))
    PROVE  a = b
<1>1. Cut(a, f, limit) = a /\ Cut(b, f, limit) = b
  BY NotCut
<1>2. Put(a, layout) = Put(b, layout)
  BY <1>1, OneTells
<1> QED BY <1>2, StructTells

LEMMA StructOneTells ==
    ASSUME NEW layout, Plain(layout), NEW type,
           NEW a, Fills(a, layout, {}), NEW b, Fills(b, layout, {}),
           One(type, Put(a, layout)) = One(type, Put(b, layout))
    PROVE  a = b
<1>1. Put(a, layout) = Put(b, layout)
  BY OneTells
<1> QED BY <1>1, PlainTells

(* A code is all there is to an error. *)
LEMMA ErrorTells ==
    ASSUME NEW a, Fills(a, CodeLayout, {}), NEW b, Fills(b, CodeLayout, {}),
           One("ERROR", Bytes(a.code, 2)) = One("ERROR", Bytes(b.code, 2))
    PROVE  a = b
<1>1. /\ a = [f \in {"code"} |-> a[f]] /\ b = [f \in {"code"} |-> b[f]]
      /\ a.code \in FieldValues("code", 2) /\ b.code \in FieldValues("code", 2)
      /\ "code" \notin Arrays
  BY DEF Fills, CodeLayout, Texts, Arrays
<1>2. Bytes(a.code, 2) = Bytes(b.code, 2)
  BY OneTells
<1>3. a.code = b.code
  BY <1>1, <1>2, NumberTells
<1> QED BY <1>1, <1>3

LEMMA DigestTells ==
    ASSUME NEW a, Fills(a, DigestLayout, {}), NEW b, Fills(b, DigestLayout, {}),
           One("BUILDING_REGION_DIGEST", << 3 >> \o Put(a, DigestLayout))
               = One("BUILDING_REGION_DIGEST", << 3 >> \o Put(b, DigestLayout))
    PROVE  a = b
<1> DEFINE p == Put(a, DigestLayout)
           q == Put(b, DigestLayout)
           v == <<3>>
<1>1. p \in Seq(Byte) /\ q \in Seq(Byte)
  BY PlainFrames, PlainLayouts
<1>2. v \in Seq(Byte)
  BY BaseIsEven DEF Byte
<1>3. v \o p = v \o q
  BY OneTells
<1> HIDE DEF p, q, v
<1>4. p = q
  BY <1>1, <1>2, <1>3, ConcatTells
<1> QED BY <1>4, PlainTells, PlainLayouts DEF p, q

LEMMA TextOfChatEventLayout ==
    ASSUME NEW struct, Fills(struct, ChatEventLayout, {})
    PROVE  struct.message \in Seq(Byte)
<1>1. 3 \in 1 .. Len(ChatEventLayout) /\ ChatEventLayout[3][1] = "message"
  BY DEF ChatEventLayout, ChatLayout
<1>2. "message" \in Texts
  BY DEF Texts
<1> QED BY <1>1, <1>2, FieldOfStruct

LEMMA TextOfEquipmentEventLayout ==
    ASSUME NEW struct, Fills(struct, EquipmentEventLayout, {})
    PROVE  struct.payload \in Seq(Byte)
<1>1. 6 \in 1 .. Len(EquipmentEventLayout) /\ EquipmentEventLayout[6][1] = "payload"
  BY DEF EquipmentEventLayout, EquipmentLayout
<1>2. "payload" \in Texts
  BY DEF Texts
<1> QED BY <1>1, <1>2, FieldOfStruct

LEMMA TextOfIdentityEventLayout ==
    ASSUME NEW struct, Fills(struct, IdentityEventLayout, {})
    PROVE  struct.display_name \in Seq(Byte)
<1>1. 3 \in 1 .. Len(IdentityEventLayout) /\ IdentityEventLayout[3][1] = "display_name"
  BY DEF IdentityEventLayout, IdentityLayout
<1>2. "display_name" \in Texts
  BY DEF Texts
<1> QED BY <1>1, <1>2, FieldOfStruct

LEMMA FramesByType ==
    ASSUME NEW e
    PROVE  /\ e.type = "HELLO_ACK" =>
              EventFrames(e) = One("HELLO_ACK", Put(e.body, HelloAckLayout))
           /\ e.type = "ERROR" =>
              EventFrames(e) = One("ERROR", Bytes(e.body.code, 2))
           /\ e.type = "PING" =>
              EventFrames(e) = One("PING", <<>>)
           /\ e.type = "MOVE_BATCH" =>
              EventFrames(e) = MoveFrames(e.body)
           /\ e.type = "DIG_EVENT" =>
              EventFrames(e) = One("DIG_EVENT", Put(e.body, DigEventLayout))
           /\ e.type = "DIG_EVENT_BATCH" =>
              EventFrames(e) = DigFrames(e.body)
           /\ e.type = "PLAYER_JOIN" =>
              EventFrames(e) = One("PLAYER_JOIN", Put(e.body, PlayerJoinLayout))
           /\ e.type = "PLAYER_LEAVE" =>
              EventFrames(e) = One("PLAYER_LEAVE", Put(e.body, PlayerLeaveLayout))
           /\ e.type = "CHAT_EVENT" =>
              EventFrames(e) = One("CHAT_EVENT",
                  Put(Cut(e.body, "message", kMaxChatBytes), ChatEventLayout))
           /\ e.type = "EQUIPMENT_EVENT" =>
              EventFrames(e) = One("EQUIPMENT_EVENT",
                  Put(Cut(e.body, "payload", kMaxEquipmentPayloadBytes), EquipmentEventLayout))
           /\ e.type = "PLAYER_IDENTITY_EVENT" =>
              EventFrames(e) = One("PLAYER_IDENTITY_EVENT",
                  Put(Cut(e.body, "display_name", kMaxPlayerIdentityNameBytes),
                      IdentityEventLayout))
           /\ e.type = "BUILDING_REGION_DIGEST" =>
              EventFrames(e) = One("BUILDING_REGION_DIGEST", <<3>> \o Put(e.body, DigestLayout))
           /\ e.type = "BUILDING_MANIFEST_PAGE" =>
              EventFrames(e) = PageFrames(e.body)
<1>1. e.type = "HELLO_ACK" =>
          EventFrames(e) = One("HELLO_ACK", Put(e.body, HelloAckLayout))
  BY DEF EventFrames
<1>2. e.type = "ERROR" =>
          EventFrames(e) = One("ERROR", Bytes(e.body.code, 2))
  BY DEF EventFrames
<1>3. e.type = "PING" =>
          EventFrames(e) = One("PING", <<>>)
  BY DEF EventFrames
<1>4. e.type = "MOVE_BATCH" =>
          EventFrames(e) = MoveFrames(e.body)
  BY DEF EventFrames
<1>5. e.type = "DIG_EVENT" =>
          EventFrames(e) = One("DIG_EVENT", Put(e.body, DigEventLayout))
  BY DEF EventFrames
<1>6. e.type = "DIG_EVENT_BATCH" =>
          EventFrames(e) = DigFrames(e.body)
  BY DEF EventFrames
<1>7. e.type = "PLAYER_JOIN" =>
          EventFrames(e) = One("PLAYER_JOIN", Put(e.body, PlayerJoinLayout))
  BY DEF EventFrames
<1>8. e.type = "PLAYER_LEAVE" =>
          EventFrames(e) = One("PLAYER_LEAVE", Put(e.body, PlayerLeaveLayout))
  BY DEF EventFrames
<1>9. e.type = "CHAT_EVENT" =>
          EventFrames(e) = One("CHAT_EVENT",
                  Put(Cut(e.body, "message", kMaxChatBytes), ChatEventLayout))
  BY DEF EventFrames
<1>10. e.type = "EQUIPMENT_EVENT" =>
          EventFrames(e) = One("EQUIPMENT_EVENT",
                  Put(Cut(e.body, "payload", kMaxEquipmentPayloadBytes), EquipmentEventLayout))
  BY DEF EventFrames
<1>11. e.type = "PLAYER_IDENTITY_EVENT" =>
          EventFrames(e) = One("PLAYER_IDENTITY_EVENT",
                  Put(Cut(e.body, "display_name", kMaxPlayerIdentityNameBytes),
                      IdentityEventLayout))
  BY DEF EventFrames
<1>12. e.type = "BUILDING_REGION_DIGEST" =>
          EventFrames(e) = One("BUILDING_REGION_DIGEST", <<3>> \o Put(e.body, DigestLayout))
  BY DEF EventFrames
<1>13. e.type = "BUILDING_MANIFEST_PAGE" =>
          EventFrames(e) = PageFrames(e.body)
  BY DEF EventFrames
<1> QED BY <1>1, <1>2, <1>3, <1>4, <1>5, <1>6, <1>7, <1>8, <1>9, <1>10, <1>11, <1>12, <1>13

LEMMA EventsByType ==
    ASSUME NEW e, IsEvent(e)
    PROVE  /\ e = Message(e.type, e.body)
           /\ e.type \in {"HELLO_ACK", "ERROR", "PING", "MOVE_BATCH", "DIG_EVENT", "DIG_EVENT_BATCH",
                         "PLAYER_JOIN", "PLAYER_LEAVE", "CHAT_EVENT", "EQUIPMENT_EVENT",
                         "PLAYER_IDENTITY_EVENT", "BUILDING_REGION_DIGEST",
                         "BUILDING_MANIFEST_PAGE"}
           /\ e.type = "HELLO_ACK" => Fills(e.body, HelloAckLayout, {})
           /\ e.type = "ERROR" => Fills(e.body, CodeLayout, {})
           /\ e.type = "PING" => e.body = [ping |-> TRUE]
           /\ e.type = "MOVE_BATCH" => IsMoveBatch(e.body)
           /\ e.type = "DIG_EVENT" => Fills(e.body, DigEventLayout, {})
           /\ e.type = "DIG_EVENT_BATCH" => IsDigBatch(e.body)
           /\ e.type = "PLAYER_JOIN" => Fills(e.body, PlayerJoinLayout, {})
           /\ e.type = "PLAYER_LEAVE" => Fills(e.body, PlayerLeaveLayout, {})
           /\ e.type = "CHAT_EVENT" =>
                 Fills(e.body, ChatEventLayout, {}) /\ Len(e.body.message) <= kMaxChatBytes
           /\ e.type = "EQUIPMENT_EVENT" =>
                 Fills(e.body, EquipmentEventLayout, {}) /\ Len(e.body.payload) <= kMaxEquipmentPayloadBytes
           /\ e.type = "PLAYER_IDENTITY_EVENT" =>
                 Fills(e.body, IdentityEventLayout, {}) /\ Len(e.body.display_name) <= kMaxPlayerIdentityNameBytes
           /\ e.type = "BUILDING_REGION_DIGEST" => Fills(e.body, DigestLayout, {})
           /\ e.type = "BUILDING_MANIFEST_PAGE" => IsManifest(e.body)
<1>0. e = Message(e.type, e.body)
  BY DEF IsEvent
<1>1. e.type = "HELLO_ACK" => Fills(e.body, HelloAckLayout, {})
  BY DEF IsEvent, CodeLayout, IsMoveBatch, IsDigBatch, IsManifest
<1>2. e.type = "ERROR" => Fills(e.body, CodeLayout, {})
  BY DEF IsEvent, CodeLayout, IsMoveBatch, IsDigBatch, IsManifest
<1>3. e.type = "PING" => e.body = [ping |-> TRUE]
  BY DEF IsEvent, CodeLayout, IsMoveBatch, IsDigBatch, IsManifest
<1>4. e.type = "MOVE_BATCH" => IsMoveBatch(e.body)
  BY DEF IsEvent, CodeLayout, IsMoveBatch, IsDigBatch, IsManifest
<1>5. e.type = "DIG_EVENT" => Fills(e.body, DigEventLayout, {})
  BY DEF IsEvent, CodeLayout, IsMoveBatch, IsDigBatch, IsManifest
<1>6. e.type = "DIG_EVENT_BATCH" => IsDigBatch(e.body)
  BY DEF IsEvent, CodeLayout, IsMoveBatch, IsDigBatch, IsManifest
<1>7. e.type = "PLAYER_JOIN" => Fills(e.body, PlayerJoinLayout, {})
  BY DEF IsEvent, CodeLayout, IsMoveBatch, IsDigBatch, IsManifest
<1>8. e.type = "PLAYER_LEAVE" => Fills(e.body, PlayerLeaveLayout, {})
  BY DEF IsEvent, CodeLayout, IsMoveBatch, IsDigBatch, IsManifest
<1>9. e.type = "CHAT_EVENT" =>
      Fills(e.body, ChatEventLayout, {}) /\ Len(e.body.message) <= kMaxChatBytes
  BY DEF IsEvent, CodeLayout, IsMoveBatch, IsDigBatch, IsManifest
<1>10. e.type = "EQUIPMENT_EVENT" =>
      Fills(e.body, EquipmentEventLayout, {}) /\ Len(e.body.payload) <= kMaxEquipmentPayloadBytes
  BY DEF IsEvent, CodeLayout, IsMoveBatch, IsDigBatch, IsManifest
<1>11. e.type = "PLAYER_IDENTITY_EVENT" =>
      Fills(e.body, IdentityEventLayout, {}) /\ Len(e.body.display_name) <= kMaxPlayerIdentityNameBytes
  BY DEF IsEvent, CodeLayout, IsMoveBatch, IsDigBatch, IsManifest
<1>12. e.type = "BUILDING_REGION_DIGEST" => Fills(e.body, DigestLayout, {})
  BY DEF IsEvent, CodeLayout, IsMoveBatch, IsDigBatch, IsManifest
<1>13. e.type = "BUILDING_MANIFEST_PAGE" => IsManifest(e.body)
  BY DEF IsEvent, CodeLayout, IsMoveBatch, IsDigBatch, IsManifest
<1>14. e.type \in {"HELLO_ACK", "ERROR", "PING", "MOVE_BATCH", "DIG_EVENT", "DIG_EVENT_BATCH",
                 "PLAYER_JOIN", "PLAYER_LEAVE", "CHAT_EVENT", "EQUIPMENT_EVENT",
                 "PLAYER_IDENTITY_EVENT", "BUILDING_REGION_DIGEST", "BUILDING_MANIFEST_PAGE"}
  BY DEF IsEvent
<1> QED BY <1>0, <1>1, <1>2, <1>3, <1>4, <1>5, <1>6, <1>7, <1>8, <1>9, <1>10, <1>11, <1>12, <1>13, <1>14

(* Of two events of one type the frames are different. *)
LEMMA EventTells ==
    ASSUME NEW a, IsEvent(a), NEW b, IsEvent(b), a.type = b.type, EventFrames(a) = EventFrames(b)
    PROVE  a = b
<1> DEFINE x == a.body
           y == b.body
<1>0. a = Message(a.type, x) /\ b = Message(b.type, y)
  BY EventsByType
<1> SUFFICES x = y
  BY <1>0
<1> HIDE DEF x, y
<1>1. CASE a.type = "HELLO_ACK"
  <2>1. (Fills(x, HelloAckLayout, {})) /\ (Fills(y, HelloAckLayout, {}))
    BY <1>1, EventsByType DEF x, y
  <2>2. One("HELLO_ACK", Put(x, HelloAckLayout))
            = One("HELLO_ACK", Put(y, HelloAckLayout))
    BY <1>1, FramesByType DEF x, y
  <2> QED BY <2>1, <2>2, StructOneTells, PlainLayouts
<1>2. CASE a.type = "ERROR"
  <2>1. (Fills(x, CodeLayout, {})) /\ (Fills(y, CodeLayout, {}))
    BY <1>2, EventsByType DEF x, y
  <2>2. One("ERROR", Bytes(x.code, 2))
            = One("ERROR", Bytes(y.code, 2))
    BY <1>2, FramesByType DEF x, y
  <2> QED BY <2>1, <2>2, ErrorTells
<1>3. CASE a.type = "PING"
  <2>1. (x = [ping |-> TRUE]) /\ (y = [ping |-> TRUE])
    BY <1>3, EventsByType DEF x, y
  <2> QED BY <2>1
<1>4. CASE a.type = "MOVE_BATCH"
  <2>1. (IsMoveBatch(x)) /\ (IsMoveBatch(y))
    BY <1>4, EventsByType DEF x, y
  <2>2. MoveFrames(x)
            = MoveFrames(y)
    BY <1>4, FramesByType DEF x, y
  <2> QED BY <2>1, <2>2, MoveFramesTell
<1>5. CASE a.type = "DIG_EVENT"
  <2>1. (Fills(x, DigEventLayout, {})) /\ (Fills(y, DigEventLayout, {}))
    BY <1>5, EventsByType DEF x, y
  <2>2. One("DIG_EVENT", Put(x, DigEventLayout))
            = One("DIG_EVENT", Put(y, DigEventLayout))
    BY <1>5, FramesByType DEF x, y
  <2> QED BY <2>1, <2>2, StructOneTells, PlainLayouts
<1>6. CASE a.type = "DIG_EVENT_BATCH"
  <2>1. (IsDigBatch(x)) /\ (IsDigBatch(y))
    BY <1>6, EventsByType DEF x, y
  <2>2. DigFrames(x)
            = DigFrames(y)
    BY <1>6, FramesByType DEF x, y
  <2> QED BY <2>1, <2>2, DigFramesTell
<1>7. CASE a.type = "PLAYER_JOIN"
  <2>1. (Fills(x, PlayerJoinLayout, {})) /\ (Fills(y, PlayerJoinLayout, {}))
    BY <1>7, EventsByType DEF x, y
  <2>2. One("PLAYER_JOIN", Put(x, PlayerJoinLayout))
            = One("PLAYER_JOIN", Put(y, PlayerJoinLayout))
    BY <1>7, FramesByType DEF x, y
  <2> QED BY <2>1, <2>2, StructOneTells, PlainLayouts
<1>8. CASE a.type = "PLAYER_LEAVE"
  <2>1. (Fills(x, PlayerLeaveLayout, {})) /\ (Fills(y, PlayerLeaveLayout, {}))
    BY <1>8, EventsByType DEF x, y
  <2>2. One("PLAYER_LEAVE", Put(x, PlayerLeaveLayout))
            = One("PLAYER_LEAVE", Put(y, PlayerLeaveLayout))
    BY <1>8, FramesByType DEF x, y
  <2> QED BY <2>1, <2>2, StructOneTells, PlainLayouts
<1>9. CASE a.type = "CHAT_EVENT"
  <2>1. (Fills(x, ChatEventLayout, {}) /\ Len(x.message) <= kMaxChatBytes) /\
        (Fills(y, ChatEventLayout, {}) /\ Len(y.message) <= kMaxChatBytes)
    BY <1>9, EventsByType DEF x, y
  <2>2. One("CHAT_EVENT",
                  Put(Cut(x, "message", kMaxChatBytes), ChatEventLayout))
            = One("CHAT_EVENT",
                  Put(Cut(y, "message", kMaxChatBytes), ChatEventLayout))
    BY <1>9, FramesByType DEF x, y
  <2>3. kMaxChatBytes \in Nat /\ kMaxChatBytes <= Base - 1
    BY LimitsAssumption
  <2>4. x.message \in Seq(Byte) /\ y.message \in Seq(Byte)
    BY <2>1, TextOfChatEventLayout
  <2>5. Len(x.message) \in Nat /\ Len(y.message) \in Nat
    BY <2>4, LenProperties
  <2>6. Len(x.message) <= Base - 1 /\ Len(y.message) <= Base - 1
    <3> DEFINE m == Len(x.message)
               n == Len(y.message)
               w == Base
    <3>1. w \in Nat /\ m \in Nat /\ n \in Nat
      BY <2>5, BaseIsEven
    <3>2. m <= kMaxChatBytes /\ n <= kMaxChatBytes /\ kMaxChatBytes <= w - 1
      BY <2>1, <2>3
    <3> HIDE DEF m, n, w
    <3>3. m <= w - 1 /\ n <= w - 1
      BY <2>3, <3>1, <3>2
    <3> QED BY <3>3 DEF m, n, w
  <2>7. Proper(ChatEventLayout) /\ Short(x, ChatEventLayout) /\ Short(y, ChatEventLayout)
    BY <2>6, TextLayouts
  <2> QED BY <2>1, <2>2, <2>3, <2>5, <2>7, TextTells
<1>10. CASE a.type = "EQUIPMENT_EVENT"
  <2>1. (Fills(x, EquipmentEventLayout, {}) /\ Len(x.payload) <= kMaxEquipmentPayloadBytes) /\
        (Fills(y, EquipmentEventLayout, {}) /\ Len(y.payload) <= kMaxEquipmentPayloadBytes)
    BY <1>10, EventsByType DEF x, y
  <2>2. One("EQUIPMENT_EVENT",
                  Put(Cut(x, "payload", kMaxEquipmentPayloadBytes), EquipmentEventLayout))
            = One("EQUIPMENT_EVENT",
                  Put(Cut(y, "payload", kMaxEquipmentPayloadBytes), EquipmentEventLayout))
    BY <1>10, FramesByType DEF x, y
  <2>3. kMaxEquipmentPayloadBytes \in Nat /\ kMaxEquipmentPayloadBytes <= Base * Base - 1
    BY LimitsAssumption
  <2>4. x.payload \in Seq(Byte) /\ y.payload \in Seq(Byte)
    BY <2>1, TextOfEquipmentEventLayout
  <2>5. Len(x.payload) \in Nat /\ Len(y.payload) \in Nat
    BY <2>4, LenProperties
  <2>6. Len(x.payload) <= Base * Base - 1 /\ Len(y.payload) <= Base * Base - 1
    <3> DEFINE m == Len(x.payload)
               n == Len(y.payload)
               w == Base * Base
    <3>1. w \in Nat /\ m \in Nat /\ n \in Nat
      BY <2>5, BaseIsEven
    <3>2. m <= kMaxEquipmentPayloadBytes /\ n <= kMaxEquipmentPayloadBytes /\ kMaxEquipmentPayloadBytes <= w - 1
      BY <2>1, <2>3
    <3> HIDE DEF m, n, w
    <3>3. m <= w - 1 /\ n <= w - 1
      BY <2>3, <3>1, <3>2
    <3> QED BY <3>3 DEF m, n, w
  <2>7. Proper(EquipmentEventLayout) /\ Short(x, EquipmentEventLayout) /\ Short(y, EquipmentEventLayout)
    BY <2>6, TextLayouts
  <2> QED BY <2>1, <2>2, <2>3, <2>5, <2>7, TextTells
<1>11. CASE a.type = "PLAYER_IDENTITY_EVENT"
  <2>1. (Fills(x, IdentityEventLayout, {}) /\ Len(x.display_name) <= kMaxPlayerIdentityNameBytes) /\
        (Fills(y, IdentityEventLayout, {}) /\ Len(y.display_name) <= kMaxPlayerIdentityNameBytes)
    BY <1>11, EventsByType DEF x, y
  <2>2. One("PLAYER_IDENTITY_EVENT",
                  Put(Cut(x, "display_name", kMaxPlayerIdentityNameBytes),
                      IdentityEventLayout))
            = One("PLAYER_IDENTITY_EVENT",
                  Put(Cut(y, "display_name", kMaxPlayerIdentityNameBytes),
                      IdentityEventLayout))
    BY <1>11, FramesByType DEF x, y
  <2>3. kMaxPlayerIdentityNameBytes \in Nat /\ kMaxPlayerIdentityNameBytes <= Base - 1
    BY LimitsAssumption
  <2>4. x.display_name \in Seq(Byte) /\ y.display_name \in Seq(Byte)
    BY <2>1, TextOfIdentityEventLayout
  <2>5. Len(x.display_name) \in Nat /\ Len(y.display_name) \in Nat
    BY <2>4, LenProperties
  <2>6. Len(x.display_name) <= Base - 1 /\ Len(y.display_name) <= Base - 1
    <3> DEFINE m == Len(x.display_name)
               n == Len(y.display_name)
               w == Base
    <3>1. w \in Nat /\ m \in Nat /\ n \in Nat
      BY <2>5, BaseIsEven
    <3>2. m <= kMaxPlayerIdentityNameBytes /\ n <= kMaxPlayerIdentityNameBytes /\ kMaxPlayerIdentityNameBytes <= w - 1
      BY <2>1, <2>3
    <3> HIDE DEF m, n, w
    <3>3. m <= w - 1 /\ n <= w - 1
      BY <2>3, <3>1, <3>2
    <3> QED BY <3>3 DEF m, n, w
  <2>7. Proper(IdentityEventLayout) /\ Short(x, IdentityEventLayout) /\ Short(y, IdentityEventLayout)
    BY <2>6, TextLayouts
  <2> QED BY <2>1, <2>2, <2>3, <2>5, <2>7, TextTells
<1>12. CASE a.type = "BUILDING_REGION_DIGEST"
  <2>1. (Fills(x, DigestLayout, {})) /\ (Fills(y, DigestLayout, {}))
    BY <1>12, EventsByType DEF x, y
  <2>2. One("BUILDING_REGION_DIGEST", <<3>> \o Put(x, DigestLayout))
            = One("BUILDING_REGION_DIGEST", <<3>> \o Put(y, DigestLayout))
    BY <1>12, FramesByType DEF x, y
  <2> QED BY <2>1, <2>2, DigestTells
<1>13. CASE a.type = "BUILDING_MANIFEST_PAGE"
  <2>1. (IsManifest(x)) /\ (IsManifest(y))
    BY <1>13, EventsByType DEF x, y
  <2>2. PageFrames(x)
            = PageFrames(y)
    BY <1>13, FramesByType DEF x, y
  <2> QED BY <2>1, <2>2, PageFramesTell
<1> QED BY EventsByType, <1>1, <1>2, <1>3, <1>4, <1>5, <1>6, <1>7, <1>8, <1>9, <1>10, <1>11, <1>12, <1>13

-----------------------------------------------------------------------------
(* What is relayed is an event. *)

FieldRight(struct, f, w) ==
    /\ f \in Texts => struct[f] \in Seq(Byte)
    /\ f \in Arrays \ Texts => struct[f] \in FieldValues(f, ArraySize[f])
    /\ f \notin Arrays => struct[f] \in FieldValues(f, w)

LEMMA FillsByFields ==
    ASSUME NEW struct, NEW layout, NEW D, D = {layout[i][1] : i \in 1 .. Len(layout)},
           struct = [f \in D |-> struct[f]],
           \A i \in 1 .. Len(layout) : FieldRight(struct, layout[i][1], layout[i][2])
    PROVE  Fills(struct, layout, {})
<1>1. \A f \in Texts : f \in Arrays
  BY DEF Texts, Arrays
<1>2. ASSUME NEW i \in 1 .. Len(layout)
      PROVE  LET f == layout[i][1]
             IN  CASE f \in Texts           -> struct[f] \in Seq(Byte)
                   [] f \in Arrays \ Texts -> struct[f] \in FieldValues(f, ArraySize[f])
                   [] OTHER                -> struct[f] \in FieldValues(f, layout[i][2])
  BY <1>1 DEF FieldRight
<1>3. D = {layout[i][1] : i \in 1 .. Len(layout)} \cup {}
  OBVIOUS
<1> HIDE DEF FieldRight
<1> QED BY <1>2, <1>3 DEF Fills

Extended(r, struct, f, v) ==
    /\ r[f] = v
    /\ DOMAIN r = DOMAIN struct \cup {f}
    /\ r = [g \in DOMAIN struct \cup {f} |-> r[g]]
    /\ \A g \in DOMAIN struct : g # f => r[g] = struct[g]

LEMMA WithField ==
    ASSUME NEW struct, NEW f, NEW v
    PROVE  Extended(With(struct, f, v), struct, f, v)
BY DEF With, Extended

(* The speaker's, and no text or array but the wallet.                      *)
LEMMA SpeakerTyped ==
    /\ Speaker.local_player_id \in FieldValues("local_player_id", 2)
    /\ Speaker.server_tick \in FieldValues("server_tick", 2)
    /\ Speaker.owner_wallet \in FieldValues("owner_wallet", 32)
BY SpeakerAssumption

DigFields == {"seq", "local_chunk_x", "local_chunk_z", "block_x", "block_y", "block_z", "action"}

DigTyped(d) ==
    /\ d["seq"] \in FieldValues("seq", 2)
    /\ d["local_chunk_x"] \in FieldValues("local_chunk_x", 1)
    /\ d["local_chunk_z"] \in FieldValues("local_chunk_z", 1)
    /\ d["block_x"] \in FieldValues("block_x", 1)
    /\ d["block_y"] \in FieldValues("block_y", 2)
    /\ d["block_z"] \in FieldValues("block_z", 1)
    /\ d["action"] \in FieldValues("action", 1)

LEMMA DigOfStruct ==
    ASSUME NEW b
    PROVE  /\ IsStruct(b, DigAt, {}) => DigTyped(b)
           /\ IsStruct(b, DigItemAt, {}) => DigTyped(b)
<1>1. IsStruct(b, DigAt, {}) => DigTyped(b)
  BY DEF IsStruct, DigAt, DigTyped
<1>2. IsStruct(b, DigItemAt, {}) => DigTyped(b)
  BY DEF IsStruct, DigItemAt, DigTyped
<1> QED BY <1>1, <1>2

LEMMA ItemOfDig ==
    ASSUME NEW b, DigTyped(b)
    PROVE  /\ DigEventItem(b) = [f \in DigFields |-> DigEventItem(b)[f]]
           /\ DigTyped(DigEventItem(b))
           /\ Fills(DigEventItem(b), DigEventItemLayout, {})
<1> DEFINE r == DigEventItem(b)
<1>1. r = [f \in DigFields |-> b[f]]
  BY DEF DigEventItem, DigFields
<1>2. DigTyped(r)
  BY <1>1 DEF DigTyped, DigFields
<1>3. r = [f \in DigFields |-> r[f]]
  BY <1>1
<1> HIDE DEF r
<1>4. DigFields = {DigEventItemLayout[i][1] : i \in 1 .. Len(DigEventItemLayout)}
  BY DEF DigFields, DigEventItemLayout
<1>5. \A i \in 1 .. Len(DigEventItemLayout) :
         FieldRight(r, DigEventItemLayout[i][1], DigEventItemLayout[i][2])
  BY <1>2 DEF DigTyped, DigEventItemLayout, FieldRight, Texts, Arrays
<1>6. Fills(r, DigEventItemLayout, {})
  BY <1>3, <1>4, <1>5, FillsByFields
<1> QED BY <1>2, <1>3, <1>6 DEF r

LEMMA DigRelayed ==
    ASSUME NEW b, DigTyped(b)
    PROVE  Fills(With(BySpeaker(DigEventItem(b)), "server_tick", Speaker.server_tick),
                 DigEventLayout, {})
<1> DEFINE d == DigEventItem(b)
           s == BySpeaker(d)
           r == With(s, "server_tick", Speaker.server_tick)
           D == DigFields \cup {"local_player_id", "server_tick"}
<1>1. d = [f \in DigFields |-> d[f]] /\ DigTyped(d)
  BY ItemOfDig
<1>2. s = With(d, "local_player_id", Speaker.local_player_id)
  BY DEF BySpeaker
<1> HIDE DEF d, s
<1>3. DOMAIN d = DigFields
  BY <1>1
<1>4. /\ s["local_player_id"] = Speaker.local_player_id
      /\ DOMAIN s = DigFields \cup {"local_player_id"}
      /\ \A g \in DigFields : s[g] = d[g]
  <2>1. /\ s["local_player_id"] = Speaker.local_player_id
        /\ DOMAIN s = DOMAIN d \cup {"local_player_id"}
        /\ \A g \in DOMAIN d : g # "local_player_id" => s[g] = d[g]
    <3>1. Extended(s, d, "local_player_id", Speaker.local_player_id)
      BY <1>2, WithField, Zenon
    <3> QED BY <3>1 DEF Extended
  <2>2. "local_player_id" \notin DigFields
    BY DEF DigFields
  <2> QED BY <1>3, <2>1, <2>2
<1>5. /\ r["server_tick"] = Speaker.server_tick
      /\ DOMAIN r = D
      /\ r = [f \in D |-> r[f]]
      /\ r["local_player_id"] = Speaker.local_player_id
      /\ \A g \in DigFields : r[g] = d[g]
  <2>1. /\ r["server_tick"] = Speaker.server_tick
        /\ DOMAIN r = DOMAIN s \cup {"server_tick"}
        /\ r = [g \in DOMAIN s \cup {"server_tick"} |-> r[g]]
        /\ \A g \in DOMAIN s : g # "server_tick" => r[g] = s[g]
    <3>1. Extended(r, s, "server_tick", Speaker.server_tick)
      BY WithField, Zenon
    <3> HIDE DEF r
    <3> QED BY <3>1 DEF Extended
  <2>2. DOMAIN s \cup {"server_tick"} = D
    BY <1>4
  <2>3. "server_tick" \notin DOMAIN s
    BY <1>4 DEF DigFields
  <2> HIDE DEF r, D
  <2> QED BY <1>4, <2>1, <2>2, <2>3
<1> HIDE DEF r
<1>6. DigTyped(r)
  BY <1>1, <1>5 DEF DigTyped, DigFields
<1>7. D = {DigEventLayout[i][1] : i \in 1 .. Len(DigEventLayout)}
  BY DEF DigFields, DigEventLayout, DigEventItemLayout
<1>8. \A i \in 1 .. Len(DigEventLayout) : FieldRight(r, DigEventLayout[i][1], DigEventLayout[i][2])
  BY <1>5, <1>6, SpeakerTyped
     DEF DigTyped, DigEventLayout, DigEventItemLayout, FieldRight, Texts, Arrays
<1> HIDE DEF D
<1>9. Fills(r, DigEventLayout, {})
  BY <1>5, <1>7, <1>8, FillsByFields
<1> QED BY <1>9 DEF r, s, d

LEMMA DigBatchRelayed ==
    ASSUME NEW items, items \in Seq(Range(items)), items # <<>>,
           \A i \in 1 .. Len(items) : DigTyped(items[i])
    PROVE  IsDigBatch([ local_player_id |-> Speaker.local_player_id,
                        server_tick     |-> Speaker.server_tick,
                        items |-> [i \in 1 .. Len(items) |-> DigEventItem(items[i])] ])
<1> DEFINE list == [i \in 1 .. Len(items) |-> DigEventItem(items[i])]
           r == [ local_player_id |-> Speaker.local_player_id,
                  server_tick     |-> Speaker.server_tick,
                  items           |-> list ]
           n == Len(items)
<1>1. n \in Nat \ {0}
  BY EmptySeq
<1>2. Len(list) = n /\ DOMAIN list = 1 .. n /\ \A i \in 1 .. n : list[i] = DigEventItem(items[i])
  BY <1>1
<1>3. list = [i \in 1 .. n |-> list[i]]
  OBVIOUS
<1>4. IsList(list, DigEventItemLayout) /\ list # <<>>
  <2> HIDE DEF list, n
  <2>1. \A i \in 1 .. n : list[i] \in Range(list)
    BY <1>2 DEF Range
  <2>2. list \in Seq(Range(list))
    <3> DEFINE R == Range(list)
    <3> HIDE DEF R
    <3>1. list \in [1 .. n -> R]
      BY <1>3, <2>1 DEF R
    <3>2. list \in Seq(R)
      BY <1>1, <3>1
    <3> QED BY <3>2 DEF R
  <2>3. ASSUME NEW x \in Range(list)
        PROVE  Fills(x, DigEventItemLayout, {})
    <3>1. PICK i \in 1 .. n : x = list[i]
      BY <1>2 DEF Range
    <3>2. DigTyped(items[i])
      BY DEF n
    <3> DEFINE y == items[i]
    <3>3. x = DigEventItem(y) /\ DigTyped(y)
      BY <1>2, <3>1, <3>2
    <3> HIDE DEF y
    <3> QED BY <3>3, ItemOfDig
  <2>4. list # <<>>
    BY <1>1, <1>2
  <2> QED BY <2>2, <2>3, <2>4 DEF IsList
<1> HIDE DEF list
<1>5. Fills(r, DigBatchLayout, {"items"})
  <2>1. {DigBatchLayout[i][1] : i \in 1 .. Len(DigBatchLayout)} \cup {"items"}
            = {"local_player_id", "server_tick", "items"}
    BY DEF DigBatchLayout
  <2>2. r = [f \in {"local_player_id", "server_tick", "items"} |-> r[f]]
    OBVIOUS
  <2>3. \A i \in 1 .. Len(DigBatchLayout) :
           FieldRight(r, DigBatchLayout[i][1], DigBatchLayout[i][2])
    BY SpeakerTyped DEF DigBatchLayout, FieldRight, Texts, Arrays
  <2> HIDE DEF r
  <2>4. \A f \in Texts : f \in Arrays
    BY DEF Texts, Arrays
  <2>5. ASSUME NEW i \in 1 .. Len(DigBatchLayout)
        PROVE  LET f == DigBatchLayout[i][1]
               IN  CASE f \in Texts           -> r[f] \in Seq(Byte)
                     [] f \in Arrays \ Texts -> r[f] \in FieldValues(f, ArraySize[f])
                     [] OTHER                -> r[f] \in FieldValues(f, DigBatchLayout[i][2])
    BY <2>3, <2>4 DEF FieldRight
  <2> QED BY <2>1, <2>2, <2>5 DEF Fills
<1>6. r.items = list
  OBVIOUS
<1> HIDE DEF r
<1>7. IsDigBatch(r)
  BY <1>4, <1>5, <1>6 DEF IsDigBatch
<1> QED BY <1>7 DEF r, list

LEMMA BySpeakerTyped ==
    ASSUME NEW b, "local_player_id" \notin DOMAIN b
    PROVE  LET r == BySpeaker(b)
           IN  /\ r["local_player_id"] \in FieldValues("local_player_id", 2)
               /\ DOMAIN r = DOMAIN b \cup {"local_player_id"}
               /\ r = [f \in DOMAIN b \cup {"local_player_id"} |-> r[f]]
               /\ \A g \in DOMAIN b : r[g] = b[g]
<1> DEFINE r == BySpeaker(b)
<1>1. Extended(r, b, "local_player_id", Speaker.local_player_id)
  BY WithField, Zenon DEF BySpeaker
<1> HIDE DEF r
<1>2. /\ r["local_player_id"] \in FieldValues("local_player_id", 2)
      /\ DOMAIN r = DOMAIN b \cup {"local_player_id"}
      /\ r = [f \in DOMAIN b \cup {"local_player_id"} |-> r[f]]
      /\ \A g \in DOMAIN b : r[g] = b[g]
  BY <1>1, SpeakerTyped DEF Extended
<1> QED BY <1>2 DEF r

LEMMA ChatRelayed ==
    ASSUME NEW b, IsStruct(b, ChatAt, {"message"})
    PROVE  Fills(BySpeaker(b), ChatEventLayout, {}) /\ BySpeaker(b).message = b.message
<1> DEFINE r == BySpeaker(b)
           D == {"seq", "message", "local_player_id"}
<1>1. /\ b.seq \in FieldValues("seq", 2) /\ b.message \in Seq(Byte)
      /\ DOMAIN b = {"seq", "message"}
  BY DEF IsStruct, ChatAt
<1>2. /\ r["local_player_id"] \in FieldValues("local_player_id", 2)
      /\ DOMAIN b \cup {"local_player_id"} = D
      /\ r = [f \in DOMAIN b \cup {"local_player_id"} |-> r[f]]
      /\ \A g \in DOMAIN b : r[g] = b[g]
  <2>1. "local_player_id" \notin DOMAIN b
    BY <1>1
  <2>2. DOMAIN b \cup {"local_player_id"} = D
    BY <1>1
  <2> QED BY <2>1, <2>2, BySpeakerTyped, Zenon
<1> HIDE DEF r
<1>3. r.seq \in FieldValues("seq", 2) /\ r.message = b.message /\ r.message \in Seq(Byte)
  BY <1>1, <1>2
<1>4. D = {ChatEventLayout[i][1] : i \in 1 .. Len(ChatEventLayout)}
  BY DEF ChatEventLayout, ChatLayout
<1>5. \A i \in 1 .. Len(ChatEventLayout) :
         FieldRight(r, ChatEventLayout[i][1], ChatEventLayout[i][2])
  BY <1>2, <1>3 DEF ChatEventLayout, ChatLayout, FieldRight, Texts, Arrays
<1>6. r = [f \in D |-> r[f]]
  BY <1>2
<1> HIDE DEF D
<1>7. Fills(r, ChatEventLayout, {})
  BY <1>4, <1>5, <1>6, FillsByFields
<1> QED BY <1>3, <1>7 DEF r

LEMMA EquipmentRelayed ==
    ASSUME NEW b, IsStruct(b, EquipmentAt, {"payload"})
    PROVE  Fills(BySpeaker(b), EquipmentEventLayout, {}) /\ BySpeaker(b).payload = b.payload
<1> DEFINE r == BySpeaker(b)
           D == {"seq", "right_hand_kind", "right_hand_variant", "flags", "design_hash",
                 "payload", "local_player_id"}
<1>1. /\ b.seq \in FieldValues("seq", 2)
      /\ b.right_hand_kind \in FieldValues("right_hand_kind", 1)
      /\ b.right_hand_variant \in FieldValues("right_hand_variant", 1)
      /\ b.flags \in FieldValues("flags", 1)
      /\ b.design_hash \in FieldValues("design_hash", 4)
      /\ b.payload \in Seq(Byte)
      /\ DOMAIN b = {"seq", "right_hand_kind", "right_hand_variant", "flags", "design_hash",
                     "payload"}
  BY DEF IsStruct, EquipmentAt
<1>2. /\ r["local_player_id"] \in FieldValues("local_player_id", 2)
      /\ DOMAIN b \cup {"local_player_id"} = D
      /\ r = [f \in DOMAIN b \cup {"local_player_id"} |-> r[f]]
      /\ \A g \in DOMAIN b : r[g] = b[g]
  <2>1. "local_player_id" \notin DOMAIN b
    BY <1>1
  <2>2. DOMAIN b \cup {"local_player_id"} = D
    BY <1>1
  <2> QED BY <2>1, <2>2, BySpeakerTyped, Zenon
<1> HIDE DEF r
<1>3. /\ r.seq \in FieldValues("seq", 2)
      /\ r.right_hand_kind \in FieldValues("right_hand_kind", 1)
      /\ r.right_hand_variant \in FieldValues("right_hand_variant", 1)
      /\ r.flags \in FieldValues("flags", 1)
      /\ r.design_hash \in FieldValues("design_hash", 4)
      /\ r.payload = b.payload /\ r.payload \in Seq(Byte)
  BY <1>1, <1>2
<1>4. D = {EquipmentEventLayout[i][1] : i \in 1 .. Len(EquipmentEventLayout)}
  BY DEF EquipmentEventLayout, EquipmentLayout
<1>5. \A i \in 1 .. Len(EquipmentEventLayout) :
         FieldRight(r, EquipmentEventLayout[i][1], EquipmentEventLayout[i][2])
  BY <1>2, <1>3 DEF EquipmentEventLayout, EquipmentLayout, FieldRight, Texts, Arrays
<1>6. r = [f \in D |-> r[f]]
  BY <1>2
<1> HIDE DEF D
<1>7. Fills(r, EquipmentEventLayout, {})
  BY <1>4, <1>5, <1>6, FillsByFields
<1> QED BY <1>3, <1>7 DEF r

LEMMA IdentityRelayed ==
    ASSUME NEW b, IsStruct(b, <<>>, {"display_name"})
    PROVE  LET r == With(BySpeaker(b), "owner_wallet", Speaker.owner_wallet)
           IN  Fills(r, IdentityEventLayout, {}) /\ r.display_name = b.display_name
<1> DEFINE s == BySpeaker(b)
           r == With(s, "owner_wallet", Speaker.owner_wallet)
           D == {"display_name", "local_player_id", "owner_wallet"}
<1>1. b.display_name \in Seq(Byte) /\ DOMAIN b = {"display_name"}
  BY DEF IsStruct
<1>2. /\ s["local_player_id"] \in FieldValues("local_player_id", 2)
      /\ DOMAIN s = {"display_name", "local_player_id"}
      /\ s["display_name"] = b["display_name"]
  <2>1. "local_player_id" \notin DOMAIN b
    BY <1>1
  <2>2. /\ s["local_player_id"] \in FieldValues("local_player_id", 2)
        /\ DOMAIN s = DOMAIN b \cup {"local_player_id"}
        /\ \A g \in DOMAIN b : s[g] = b[g]
    BY <2>1, BySpeakerTyped, Zenon
  <2> HIDE DEF s
  <2> QED BY <1>1, <2>2
<1> HIDE DEF s
<1>3. Extended(r, s, "owner_wallet", Speaker.owner_wallet)
  BY WithField, Zenon
<1> HIDE DEF r
<1>4. /\ r["owner_wallet"] \in FieldValues("owner_wallet", 32)
      /\ r["local_player_id"] \in FieldValues("local_player_id", 2)
      /\ r["display_name"] = b["display_name"]
      /\ r["display_name"] \in Seq(Byte)
      /\ r = [f \in D |-> r[f]]
  <2>1. DOMAIN s \cup {"owner_wallet"} = D
    BY <1>2
  <2> HIDE DEF D
  <2> QED BY <1>1, <1>2, <1>3, <2>1, SpeakerTyped DEF Extended
<1>5. D = {IdentityEventLayout[i][1] : i \in 1 .. Len(IdentityEventLayout)}
  BY DEF IdentityEventLayout, IdentityLayout
<1>6. \A i \in 1 .. Len(IdentityEventLayout) :
         FieldRight(r, IdentityEventLayout[i][1], IdentityEventLayout[i][2])
  BY <1>4, SizesOfArrays DEF IdentityEventLayout, IdentityLayout, FieldRight, Texts, Arrays
<1> HIDE DEF D
<1>7. Fills(r, IdentityEventLayout, {})
  BY <1>4, <1>5, <1>6, FillsByFields
<1> QED BY <1>4, <1>7 DEF r, s

(* What the Guardian makes of a message that it relays.                     *)
LEMMA RelayedIsEvent ==
    ASSUME NEW m, IsMessage(m), WithinLimits(m), m.type \in HasRelay
    PROVE  IsEvent(Relayed(m))
<1> DEFINE b == m.body
           e == Relayed(m)
<1>1. CASE m.type = "DIG"
  <2> DEFINE r == With(BySpeaker(DigEventItem(b)), "server_tick", Speaker.server_tick)
  <2>1. e = Message("DIG_EVENT", r)
    BY <1>1 DEF Relayed
  <2>2. IsStruct(b, DigAt, {})
    BY <1>1 DEF IsMessage
  <2> HIDE DEF b
  <2>3. Fills(r, DigEventLayout, {})
    BY <2>2, DigOfStruct, DigRelayed
  <2> HIDE DEF r
  <2> QED BY <2>1, <2>3 DEF IsEvent, Message
<1>2. CASE m.type = "DIG_BATCH"
  <2> DEFINE items == b.items
             r == [ local_player_id |-> Speaker.local_player_id,
                    server_tick     |-> Speaker.server_tick,
                    items |-> [i \in 1 .. Len(items) |-> DigEventItem(items[i])] ]
  <2>1. e = Message("DIG_EVENT_BATCH", r)
    BY <1>2 DEF Relayed
  <2>2. /\ items \in Seq(Range(items))
        /\ \A dig \in Range(items) : IsStruct(dig, DigItemAt, {})
        /\ Len(items) \in 1 .. Base - 1
    BY <1>2 DEF IsMessage, WithinLimits
  <2> HIDE DEF items
  <2>3. items # <<>>
    BY <2>2, EmptySeq
  <2>4. ASSUME NEW i \in 1 .. Len(items)
        PROVE  DigTyped(items[i])
    <3>1. items[i] \in Range(items)
      BY <2>2, ElementOfSeq
    <3>2. IsStruct(items[i], DigItemAt, {})
      BY <2>2, <3>1
    <3> QED BY <3>2, DigOfStruct
  <2>5. IsDigBatch(r)
    BY <2>2, <2>3, <2>4, DigBatchRelayed
  <2> HIDE DEF r
  <2>6. /\ Fills(r, DigBatchLayout, {"items"}) /\ IsList(r.items, DigEventItemLayout)
        /\ r.items # <<>>
    BY <2>5 DEF IsDigBatch
  <2> QED BY <2>1, <2>6 DEF IsEvent, Message
<1>3. CASE m.type = "CHAT"
  <2> DEFINE r == BySpeaker(b)
  <2>1. e = Message("CHAT_EVENT", r)
    BY <1>3 DEF Relayed
  <2>2. IsStruct(b, ChatAt, {"message"}) /\ Len(b.message) \in 1 .. kMaxChatBytes
    BY <1>3 DEF IsMessage, WithinLimits
  <2> HIDE DEF b
  <2>3. Fills(r, ChatEventLayout, {}) /\ r.message = b.message
    BY <2>2, ChatRelayed
  <2>4. Len(b.message) <= kMaxChatBytes
    BY <2>2, LimitsAssumption
  <2> HIDE DEF r
  <2> QED BY <2>1, <2>3, <2>4 DEF IsEvent, Message
<1>4. CASE m.type = "EQUIPMENT"
  <2> DEFINE r == BySpeaker(b)
  <2>1. e = Message("EQUIPMENT_EVENT", r)
    BY <1>4 DEF Relayed
  <2>2. IsStruct(b, EquipmentAt, {"payload"}) /\ Len(b.payload) <= kMaxEquipmentPayloadBytes
    BY <1>4 DEF IsMessage, WithinLimits
  <2> HIDE DEF b
  <2>3. Fills(r, EquipmentEventLayout, {}) /\ r.payload = b.payload
    BY <2>2, EquipmentRelayed
  <2> HIDE DEF r
  <2> QED BY <2>1, <2>2, <2>3 DEF IsEvent, Message
<1>5. CASE m.type = "PLAYER_IDENTITY"
  <2> DEFINE r == With(BySpeaker(b), "owner_wallet", Speaker.owner_wallet)
  <2>1. e = Message("PLAYER_IDENTITY_EVENT", r)
    BY <1>5 DEF Relayed
  <2>2. /\ IsStruct(b, <<>>, {"display_name"})
        /\ Len(b.display_name) <= kMaxPlayerIdentityNameBytes
    BY <1>5 DEF IsMessage, WithinLimits
  <2> HIDE DEF b
  <2>3. Fills(r, IdentityEventLayout, {}) /\ r.display_name = b.display_name
    BY <2>2, IdentityRelayed
  <2> HIDE DEF r
  <2> QED BY <2>1, <2>2, <2>3 DEF IsEvent, Message
<1> QED BY <1>1, <1>2, <1>3, <1>4, <1>5 DEF HasRelay

-----------------------------------------------------------------------------
(* What is accepted is a message. *)

LEMMA ValueTyped ==
    ASSUME NEW f, NEW bytes \in Seq(Byte), NEW w \in Nat \ {0}, Len(bytes) = w
    PROVE  Value(f, bytes) \in FieldValues(f, w)
<1>1. CASE f \in Arrays
  <2>1. bytes \in [1 .. w -> Byte]
    OBVIOUS
  <2>2. Value(f, bytes) = bytes /\ FieldValues(f, w) = [1 .. w -> Byte]
    BY <1>1, FieldKinds DEF Value, FieldValues
  <2> QED BY <2>1, <2>2
<1>2. CASE f \notin Arrays /\ f \in SignedFields
  <2> DEFINE half == Weight(w) \div 2
             x == Number(bytes)
  <2>1. half \in Nat \ {0}
    BY Halves
  <2>2. x \in Int
    <3>1. Weight(w) \in Nat
      BY Weights
    <3>2. x \in 0 .. Weight(w) - 1
      BY NumberTyped
    <3> QED BY <3>1, <3>2
  <2>3. Value(f, bytes) = ((x + half) % (2 * half)) - half
    BY <1>2 DEF Value, SignedNumber
  <2>4. FieldValues(f, w) = -half .. half - 1
    BY <1>2 DEF FieldValues
  <2> HIDE DEF half, x
  <2>5. (x + half) % (2 * half) \in 0 .. 2 * half - 1
    <3> DEFINE m == 2 * half
               y == x + half
    <3>1. m \in Nat \ {0} /\ y \in Int
      BY <2>1, <2>2
    <3> HIDE DEF m, y
    <3>2. y % m \in 0 .. m - 1
      BY <3>1
    <3> QED BY <3>2 DEF m, y
  <2> DEFINE r == (x + half) % (2 * half)
  <2> HIDE DEF r
  <2>6. r \in 0 .. 2 * half - 1 /\ Value(f, bytes) = r - half
    BY <2>3, <2>5 DEF r
  <2> QED BY <2>1, <2>4, <2>6
<1>3. CASE f \notin Arrays /\ f \notin SignedFields
  BY <1>3, NumberTyped DEF Value, FieldValues
<1> QED BY <1>1, <1>2, <1>3

(* Fields that lie in the bytes. *)
Inside(bytes, offset, table) ==
    \A f \in DOMAIN table :
        /\ table[f][2] # 0
        /\ IsSlice(bytes, offset + table[f][1], offset + table[f][1] + table[f][2] - 1, table[f][2])

LEMMA FieldsTyped ==
    ASSUME NEW bytes \in Seq(Byte), NEW offset, NEW table, Inside(bytes, offset, table)
    PROVE  /\ DOMAIN Fields(bytes, offset, table) = DOMAIN table
           /\ \A f \in DOMAIN table :
                 Fields(bytes, offset, table)[f] \in FieldValues(f, table[f][2])
           /\ IsStruct(Fields(bytes, offset, table), table, {})
<1> DEFINE struct == Fields(bytes, offset, table)
<1>1. struct = [f \in DOMAIN table |-> struct[f]]
  BY DEF Fields
<1>2. ASSUME NEW f \in DOMAIN table
      PROVE  struct[f] \in FieldValues(f, table[f][2])
  <2> DEFINE a == offset + table[f][1]
             b == a + table[f][2] - 1
             w == table[f][2]
             slice == SubSeq(bytes, a, b)
  <2>1. struct[f] = Value(f, slice)
    BY DEF Fields
  <2>2. w # 0 /\ IsSlice(bytes, a, b, w)
    BY DEF Inside
  <2> HIDE DEF a, b, w
  <2>3. slice \in Seq(Byte) /\ Len(slice) = w
    BY <2>2, SliceLong, Zenon
  <2>4. w \in Nat \ {0}
    BY <2>2 DEF IsSlice
  <2> HIDE DEF struct, slice
  <2>5. Value(f, slice) \in FieldValues(f, w)
    BY <2>3, <2>4, ValueTyped
  <2> QED BY <2>1, <2>5 DEF w
<1>3. DOMAIN table \cup {} = DOMAIN table
  OBVIOUS
<1>4. DOMAIN struct = DOMAIN table
  BY DEF Fields
<1> HIDE DEF struct
<1>5. IsStruct(struct, table, {})
  BY <1>1, <1>2, <1>3 DEF IsStruct
<1> QED BY <1>2, <1>4, <1>5 DEF struct

(* What is between is a text. *)
LEMMA TextTyped ==
    ASSUME NEW bytes \in Seq(Byte), NEW first, NEW last, NEW width,
           IsSlice(bytes, first, last, width), NEW table, NEW struct, NEW f,
           IsStruct(struct, table, {}), DOMAIN struct = DOMAIN table, f \notin DOMAIN table
    PROVE  IsStruct(With(struct, f, SubSeq(bytes, first, last)), table, {f})
<1> DEFINE text == SubSeq(bytes, first, last)
           r == With(struct, f, text)
<1>1. text \in Seq(Byte)
  BY SliceLong
<1>2. Extended(r, struct, f, text)
  BY WithField, Zenon
<1> HIDE DEF r, text
<1>3. /\ r[f] \in Seq(Byte)
      /\ r = [g \in DOMAIN table \cup {f} |-> r[g]]
      /\ \A g \in DOMAIN table : r[g] = struct[g]
  BY <1>1, <1>2 DEF Extended
<1>4. \A g \in DOMAIN table : struct[g] \in FieldValues(g, table[g][2])
  BY DEF IsStruct
<1>5. IsStruct(r, table, {f})
  BY <1>3, <1>4 DEF IsStruct
<1> QED BY <1>5 DEF r, text

IsTaken(m) == m.type # "error" => IsMessage(m) /\ WithinLimits(m)

LEMMA RefusedIsTaken == IsTaken(BadLength) /\ \A error : IsTaken(Refused(error))
BY DEF IsTaken, BadLength, Refused

(* The fields of a table lie between the offsets first and end. *)
Between(table, first, end) ==
    \A f \in DOMAIN table :
        /\ table[f][1] \in Nat /\ table[f][2] \in Nat \ {0}
        /\ table[f][1] >= first /\ table[f][1] + table[f][2] <= end

LEMMA BetweenInside ==
    ASSUME NEW bytes \in Seq(Byte), NEW offset \in Nat, NEW table, NEW first \in Nat, NEW end \in Nat,
           Between(table, first, end), offset + first >= 1, offset + end - 1 <= Len(bytes)
    PROVE  Inside(bytes, offset, table)
<1> DEFINE l == Len(bytes)
<1>1. l \in Nat
  BY LenProperties
<1>2. ASSUME NEW f \in DOMAIN table
      PROVE  /\ table[f][2] # 0
             /\ IsSlice(bytes, offset + table[f][1], offset + table[f][1] + table[f][2] - 1,
                        table[f][2])
  <2> DEFINE a == table[f][1]
             w == table[f][2]
  <2>1. a \in Nat /\ w \in Nat \ {0} /\ a >= first /\ a + w <= end
    BY DEF Between
  <2>2. offset + end - 1 <= l
    OBVIOUS
  <2> HIDE DEF a, w, l
  <2>3. /\ w # 0 /\ offset + a \in Nat \ {0} /\ w \in Nat
        /\ offset + a + w - 1 = (offset + a - 1) + w /\ offset + a + w - 1 <= l
    BY <1>1, <2>1, <2>2
  <2>4. IsSlice(bytes, offset + a, offset + a + w - 1, w)
    BY <2>3 DEF IsSlice, l
  <2> QED BY <2>3, <2>4 DEF a, w
<1> QED BY <1>2 DEF Inside

LEMMA InsideTables ==
    ASSUME NEW bytes \in Seq(Byte)
    PROVE  /\ Len(bytes) = 51 => Inside(bytes, 0, HelloAt)
           /\ Len(bytes) = 12 => Inside(bytes, 0, MoveAt)
           /\ Len(bytes) = 10 => Inside(bytes, 0, DigAt)
           /\ Len(bytes) = 8 => Inside(bytes, 0, RequestAt)
           /\ Len(bytes) >= 2 => Inside(bytes, 0, ChatAt)
           /\ Len(bytes) >= 11 => Inside(bytes, 0, EquipmentAt)
           /\ Len(bytes) >= 48 => Inside(bytes, 1, RecordAt)
           /\ Len(bytes) = 56 => Inside(bytes, 1, SlotAt)
           /\ \A offset \in Nat : offset >= 1 /\ offset + 9 <= Len(bytes) =>
                 Inside(bytes, offset, DigItemAt)
<1>0. Len(bytes) \in Nat
  BY LenProperties
<1>1. ASSUME Len(bytes) = 51
      PROVE  Inside(bytes, 0, HelloAt)
  <2>1. Between(HelloAt, 1, 52)
    BY DEF Between, HelloAt
  <2>2. /\ 0 \in Nat /\ 1 \in Nat /\ 52 \in Nat
        /\ 0 + 1 >= 1 /\ 0 + 52 - 1 <= Len(bytes)
    BY <1>0, <1>1
  <2> QED BY <2>1, <2>2, BetweenInside, Zenon
<1>2. ASSUME Len(bytes) = 12
      PROVE  Inside(bytes, 0, MoveAt)
  <2>1. Between(MoveAt, 1, 13)
    BY DEF Between, MoveAt
  <2>2. /\ 0 \in Nat /\ 1 \in Nat /\ 13 \in Nat
        /\ 0 + 1 >= 1 /\ 0 + 13 - 1 <= Len(bytes)
    BY <1>0, <1>2
  <2> QED BY <2>1, <2>2, BetweenInside, Zenon
<1>3. ASSUME Len(bytes) = 10
      PROVE  Inside(bytes, 0, DigAt)
  <2>1. Between(DigAt, 1, 11)
    BY DEF Between, DigAt
  <2>2. /\ 0 \in Nat /\ 1 \in Nat /\ 11 \in Nat
        /\ 0 + 1 >= 1 /\ 0 + 11 - 1 <= Len(bytes)
    BY <1>0, <1>3
  <2> QED BY <2>1, <2>2, BetweenInside, Zenon
<1>4. ASSUME Len(bytes) = 8
      PROVE  Inside(bytes, 0, RequestAt)
  <2>1. Between(RequestAt, 1, 9)
    BY DEF Between, RequestAt
  <2>2. /\ 0 \in Nat /\ 1 \in Nat /\ 9 \in Nat
        /\ 0 + 1 >= 1 /\ 0 + 9 - 1 <= Len(bytes)
    BY <1>0, <1>4
  <2> QED BY <2>1, <2>2, BetweenInside, Zenon
<1>5. ASSUME Len(bytes) >= 2
      PROVE  Inside(bytes, 0, ChatAt)
  <2>1. Between(ChatAt, 1, 3)
    BY DEF Between, ChatAt
  <2>2. /\ 0 \in Nat /\ 1 \in Nat /\ 3 \in Nat
        /\ 0 + 1 >= 1 /\ 0 + 3 - 1 <= Len(bytes)
    BY <1>0, <1>5
  <2> QED BY <2>1, <2>2, BetweenInside, Zenon
<1>6. ASSUME Len(bytes) >= 11
      PROVE  Inside(bytes, 0, EquipmentAt)
  <2>1. Between(EquipmentAt, 1, 12)
    BY DEF Between, EquipmentAt
  <2>2. /\ 0 \in Nat /\ 1 \in Nat /\ 12 \in Nat
        /\ 0 + 1 >= 1 /\ 0 + 12 - 1 <= Len(bytes)
    BY <1>0, <1>6
  <2> QED BY <2>1, <2>2, BetweenInside, Zenon
<1>7. ASSUME Len(bytes) >= 48
      PROVE  Inside(bytes, 1, RecordAt)
  <2>1. Between(RecordAt, 0, 48)
    BY DEF Between, RecordAt
  <2>2. /\ 1 \in Nat /\ 0 \in Nat /\ 48 \in Nat
        /\ 1 + 0 >= 1 /\ 1 + 48 - 1 <= Len(bytes)
    BY <1>0, <1>7
  <2> QED BY <2>1, <2>2, BetweenInside, Zenon
<1>8. ASSUME Len(bytes) = 56
      PROVE  Inside(bytes, 1, SlotAt)
  <2>1. Between(SlotAt, 0, 56)
    BY DEF Between, SlotAt
  <2>2. /\ 1 \in Nat /\ 0 \in Nat /\ 56 \in Nat
        /\ 1 + 0 >= 1 /\ 1 + 56 - 1 <= Len(bytes)
    BY <1>0, <1>8
  <2> QED BY <2>1, <2>2, BetweenInside, Zenon
<1>9. ASSUME NEW offset \in Nat, offset >= 1, offset + 9 <= Len(bytes)
      PROVE  Inside(bytes, offset, DigItemAt)
  <2>1. Between(DigItemAt, 0, 10)
    BY DEF Between, DigItemAt
  <2>2. 0 \in Nat /\ 10 \in Nat /\ offset + 0 >= 1 /\ offset + 10 - 1 <= Len(bytes)
    BY <1>0, <1>9
  <2> QED BY <2>1, <2>2, BetweenInside, Zenon
<1> QED BY <1>1, <1>2, <1>3, <1>4, <1>5, <1>6, <1>7, <1>8, <1>9

LEMMA MoveTaken ==
    ASSUME NEW bytes \in Seq(Byte), NEW f, f = Frame("MOVE", bytes)
    PROVE  IsTaken(DecodeMove(f))
<1>1. f.bytes = bytes /\ Len(bytes) \in Nat /\ Size(f) = 1 + Len(bytes)
  BY InFrame
<1>2. CASE Size(f) = kMoveSize
  <2> DEFINE b == Fields(bytes, 0, MoveAt)
  <2>1. DecodeMove(f) = Message("MOVE", b)
    BY <1>1, <1>2 DEF DecodeMove
  <2>2. Len(bytes) = 12
    <3>1. Size(f) = 12 + 1 /\ 12 \in Nat
      BY <1>2 DEF kMoveSize
    <3> QED BY <3>1, BytesOfSize, Zenon
  <2>3. IsStruct(b, MoveAt, {})
    BY <2>2, InsideTables, FieldsTyped
  <2> HIDE DEF b
  <2> QED BY <2>1, <2>3 DEF IsTaken, IsMessage, WithinLimits, Message
<1>3. CASE Size(f) # kMoveSize
  <2>1. DecodeMove(f) = BadLength
    BY <1>3 DEF DecodeMove
  <2> QED BY <2>1, RefusedIsTaken
<1> QED BY <1>2, <1>3

LEMMA DigTaken ==
    ASSUME NEW bytes \in Seq(Byte), NEW f, f = Frame("DIG", bytes)
    PROVE  IsTaken(DecodeDig(f))
<1>1. f.bytes = bytes /\ Len(bytes) \in Nat /\ Size(f) = 1 + Len(bytes)
  BY InFrame
<1>2. CASE Size(f) = kDigSize
  <2> DEFINE b == Fields(bytes, 0, DigAt)
  <2>1. DecodeDig(f) = Message("DIG", b)
    BY <1>1, <1>2 DEF DecodeDig
  <2>2. Len(bytes) = 10
    <3>1. Size(f) = 10 + 1 /\ 10 \in Nat
      BY <1>2 DEF kDigSize
    <3> QED BY <3>1, BytesOfSize, Zenon
  <2>3. IsStruct(b, DigAt, {})
    BY <2>2, InsideTables, FieldsTyped
  <2> HIDE DEF b
  <2> QED BY <2>1, <2>3 DEF IsTaken, IsMessage, WithinLimits, Message
<1>3. CASE Size(f) # kDigSize
  <2>1. DecodeDig(f) = BadLength
    BY <1>3 DEF DecodeDig
  <2> QED BY <2>1, RefusedIsTaken
<1> QED BY <1>2, <1>3

LEMMA RequestTaken ==
    ASSUME NEW bytes \in Seq(Byte), NEW f, f = Frame("BUILDING_MANIFEST_REQUEST", bytes)
    PROVE  IsTaken(DecodeRequest(f))
<1>1. f.bytes = bytes /\ Len(bytes) \in Nat /\ Size(f) = 1 + Len(bytes)
  BY InFrame
<1>2. CASE Size(f) = kBuildingManifestRequestSize
  <2> DEFINE b == Fields(bytes, 0, RequestAt)
  <2>1. DecodeRequest(f) = Message("BUILDING_MANIFEST_REQUEST", b)
    BY <1>1, <1>2 DEF DecodeRequest
  <2>2. Len(bytes) = 8
    <3>1. Size(f) = 8 + 1 /\ 8 \in Nat
      BY <1>2 DEF kBuildingManifestRequestSize
    <3> QED BY <3>1, BytesOfSize, Zenon
  <2>3. IsStruct(b, RequestAt, {})
    BY <2>2, InsideTables, FieldsTyped
  <2> HIDE DEF b
  <2> QED BY <2>1, <2>3 DEF IsTaken, IsMessage, WithinLimits, Message
<1>3. CASE Size(f) # kBuildingManifestRequestSize
  <2>1. DecodeRequest(f) = BadLength
    BY <1>3 DEF DecodeRequest
  <2> QED BY <2>1, RefusedIsTaken
<1> QED BY <1>2, <1>3

LEMMA HelloTaken ==
    ASSUME NEW bytes \in Seq(Byte), NEW f, f = Frame("HELLO", bytes)
    PROVE  IsTaken(DecodeHello(f))
<1>1. f.bytes = bytes /\ Len(bytes) \in Nat /\ Size(f) = 1 + Len(bytes)
  BY InFrame
<1> DEFINE b == Fields(bytes, 0, HelloAt)
<1>2. CASE Size(f) = kHelloSize /\ bytes[1] = 1 /\ ~WalletIsEmpty(b.wallet_pubkey)
  <2>1. DecodeHello(f) = Message("HELLO", b)
    BY <1>1, <1>2 DEF DecodeHello
  <2>2. Len(bytes) = 51
    <3>1. Size(f) = 51 + 1 /\ 51 \in Nat
      BY <1>2 DEF kHelloSize
    <3> QED BY <3>1, BytesOfSize, Zenon
  <2>3. IsStruct(b, HelloAt, {})
    BY <2>2, InsideTables, FieldsTyped
  <2>4. b.protocol_version = 1 /\ ~WalletIsEmpty(b.wallet_pubkey)
    <3>1. b.protocol_version = Value("protocol_version", SubSeq(bytes, 1, 1))
      BY DEF Fields, HelloAt
    <3>2. 1 \in 1 .. Len(bytes)
      BY <2>2
    <3>3. Number(SubSeq(bytes, 1, 1)) = bytes[1]
      BY <3>2, OneByte
    <3>4. "protocol_version" \notin Arrays /\ "protocol_version" \notin SignedFields
      BY DEF Arrays, SignedFields
    <3> HIDE DEF b
    <3> QED BY <1>2, <3>1, <3>3, <3>4 DEF Value
  <2> HIDE DEF b
  <2> QED BY <2>1, <2>3, <2>4 DEF IsTaken, IsMessage, WithinLimits, Message
<1>3. CASE ~(Size(f) = kHelloSize /\ bytes[1] = 1 /\ ~WalletIsEmpty(b.wallet_pubkey))
  <2>1. DecodeHello(f) = Refused("BAD_PROTOCOL")
    BY <1>1, <1>3 DEF DecodeHello
  <2> QED BY <2>1, RefusedIsTaken
<1> QED BY <1>2, <1>3

LEMMA PongTaken == \A f : IsTaken(DecodePong(f))
BY RefusedIsTaken DEF DecodePong, IsTaken, IsMessage, WithinLimits, Message

LEMMA ChatTaken ==
    ASSUME NEW bytes \in Seq(Byte), NEW f, f = Frame("CHAT", bytes)
    PROVE  IsTaken(DecodeChat(f))
<1> DEFINE length == bytes[3]
           l == Len(bytes)
           taken == /\ ~(Size(f) < kChatHeaderSize)
                    /\ length \in 1 .. kMaxChatBytes /\ HasRest(f, kChatHeaderSize, length)
<1>1. f.bytes = bytes /\ l \in Nat /\ Size(f) = 1 + l
  BY InFrame
<1>2. CASE taken
  <2> DEFINE s == Fields(bytes, 0, ChatAt)
             b == With(s, "message", SubSeq(bytes, 4, l))
  <2>1. DecodeChat(f) = Message("CHAT", b)
    BY <1>1, <1>2 DEF DecodeChat, Rest, kChatHeaderSize
  <2>2. length \in 1 .. kMaxChatBytes /\ length \in Nat /\ l = 3 + length /\ l >= 2
    <3>1. l \in Nat /\ 1 + l = 4 + length /\ length \in 1 .. kMaxChatBytes /\ kMaxChatBytes \in Nat
      BY <1>1, <1>2, LimitsAssumption DEF HasRest, kChatHeaderSize
    <3> HIDE DEF l, length
    <3> QED BY <3>1
  <2>3. IsSlice(bytes, 4, l, length)
    BY <2>2 DEF IsSlice
  <2>4. IsStruct(s, ChatAt, {}) /\ DOMAIN s = DOMAIN ChatAt
    BY <2>2, InsideTables, FieldsTyped
  <2>5. "message" \notin DOMAIN ChatAt
    BY DEF ChatAt
  <2>6. b.message = SubSeq(bytes, 4, l)
    BY DEF With
  <2> HIDE DEF s, l, length
  <2>7. IsStruct(b, ChatAt, {"message"})
    BY <2>3, <2>4, <2>5, TextTyped
  <2>8. Len(b.message) = length
    BY <2>3, <2>6, SliceLong
  <2> HIDE DEF b
  <2> QED BY <2>1, <2>2, <2>7, <2>8 DEF IsTaken, IsMessage, WithinLimits, Message
<1>3. CASE ~taken
  <2>1. DecodeChat(f) = BadLength
    BY <1>1, <1>3 DEF DecodeChat
  <2> QED BY <2>1, RefusedIsTaken
<1> QED BY <1>2, <1>3

LEMMA IdentityTaken ==
    ASSUME NEW bytes \in Seq(Byte), NEW f, f = Frame("PLAYER_IDENTITY", bytes)
    PROVE  IsTaken(DecodePlayerIdentity(f))
<1> DEFINE length == bytes[1]
           l == Len(bytes)
           taken == /\ ~(Size(f) < kPlayerIdentityHeaderSize)
                    /\ length <= kMaxPlayerIdentityNameBytes
                    /\ HasRest(f, kPlayerIdentityHeaderSize, length)
<1>1. f.bytes = bytes /\ l \in Nat /\ Size(f) = 1 + l
  BY InFrame
<1>2. CASE taken
  <2> DEFINE b == [display_name |-> SubSeq(bytes, 2, l)]
  <2>1. DecodePlayerIdentity(f) = Message("PLAYER_IDENTITY", b)
    BY <1>1, <1>2 DEF DecodePlayerIdentity, Rest, kPlayerIdentityHeaderSize
  <2>2. 1 \in 1 .. l
    <3>1. l \in Nat /\ 1 + l = Size(f) /\ ~(Size(f) < 2)
      BY <1>1, <1>2 DEF kPlayerIdentityHeaderSize
    <3> HIDE DEF l
    <3> QED BY <3>1
  <2>3. length \in Nat
    BY <2>2, OneByte
  <2>4. l = 1 + length /\ length <= kMaxPlayerIdentityNameBytes
    <3>1. 1 + l = 2 + length /\ l \in Nat /\ length \in Nat
      BY <1>1, <1>2, <2>3 DEF HasRest, kPlayerIdentityHeaderSize
    <3>2. length <= kMaxPlayerIdentityNameBytes
      BY <1>2
    <3> HIDE DEF l, length
    <3> QED BY <3>1, <3>2
  <2>5. IsSlice(bytes, 2, l, length)
    BY <2>3, <2>4 DEF IsSlice
  <2> HIDE DEF l, length
  <2>6. SubSeq(bytes, 2, l) \in Seq(Byte) /\ Len(SubSeq(bytes, 2, l)) = length
    BY <2>5, SliceLong, Zenon
  <2> DEFINE text == SubSeq(bytes, 2, l)
  <2> HIDE DEF text
  <2>7. b = [display_name |-> text]
    BY DEF text
  <2>8. text \in Seq(Byte) /\ Len(text) = length
    BY <2>6 DEF text
  <2> HIDE DEF b
  <2>9. b.display_name = text /\ b = [g \in {"display_name"} |-> b[g]]
    BY <2>7
  <2>10. IsStruct(b, <<>>, {"display_name"})
    BY <2>8, <2>9 DEF IsStruct
  <2>11. Len(b.display_name) <= kMaxPlayerIdentityNameBytes
    BY <2>4, <2>8, <2>9
  <2> QED BY <2>1, <2>10, <2>11 DEF IsTaken, IsMessage, WithinLimits, Message
<1>3. CASE ~taken
  <2>1. DecodePlayerIdentity(f) = BadLength
    BY <1>1, <1>3 DEF DecodePlayerIdentity
  <2> QED BY <2>1, RefusedIsTaken
<1> QED BY <1>2, <1>3

LEMMA EquipmentTaken ==
    ASSUME NEW bytes \in Seq(Byte), NEW f, f = Frame("EQUIPMENT", bytes)
    PROVE  IsTaken(DecodeEquipment(f))
<1> DEFINE length == Number(SubSeq(bytes, 6, 7))
           l == Len(bytes)
           taken == /\ ~(Size(f) < kEquipmentHeaderSize)
                    /\ length <= kMaxEquipmentPayloadBytes
                    /\ HasRest(f, kEquipmentHeaderSize, length)
                    /\ bytes[3] <= 3
<1>1. f.bytes = bytes /\ l \in Nat /\ Size(f) = 1 + l
  BY InFrame
<1>2. CASE taken
  <2> DEFINE s == Fields(bytes, 0, EquipmentAt)
             b == With(s, "payload", SubSeq(bytes, 12, l))
  <2>1. DecodeEquipment(f) = Message("EQUIPMENT", b)
    BY <1>1, <1>2 DEF DecodeEquipment, Rest, kEquipmentHeaderSize
  <2>2. l >= 11
    <3>1. l \in Nat /\ 1 + l = Size(f) /\ ~(Size(f) < 12)
      BY <1>1, <1>2 DEF kEquipmentHeaderSize
    <3> HIDE DEF l
    <3> QED BY <3>1
  <2>3. length \in Nat
    <3> DEFINE slice == SubSeq(bytes, 6, 7)
    <3>1. IsSlice(bytes, 6, 7, 2)
      BY <1>1, <2>2 DEF IsSlice
    <3>2. slice \in Seq(Byte) /\ Len(slice) = 2
      BY <3>1, SliceLong, Zenon
    <3> HIDE DEF slice
    <3>3. Number(slice) \in 0 .. Weight(2) - 1
      BY <3>2, NumberTyped
    <3>4. Weight(2) \in Nat
      BY Weights
    <3> QED BY <3>3, <3>4 DEF slice
  <2>4. l = 11 + length /\ length <= kMaxEquipmentPayloadBytes
    <3>1. 1 + l = 12 + length /\ l \in Nat /\ length \in Nat
      BY <1>1, <1>2, <2>3 DEF HasRest, kEquipmentHeaderSize
    <3>2. length <= kMaxEquipmentPayloadBytes
      BY <1>2
    <3> HIDE DEF l, length
    <3> QED BY <3>1, <3>2
  <2> HIDE DEF length
  <2>5. IsSlice(bytes, 12, l, length)
    BY <2>3, <2>4 DEF IsSlice
  <2>6. IsStruct(s, EquipmentAt, {}) /\ DOMAIN s = DOMAIN EquipmentAt
    BY <2>2, InsideTables, FieldsTyped
  <2>7. "payload" \notin DOMAIN EquipmentAt
    BY DEF EquipmentAt
  <2>8. b.payload = SubSeq(bytes, 12, l) /\ b.right_hand_kind <= 3
    <3>1. b.right_hand_kind = Value("right_hand_kind", SubSeq(bytes, 3, 3))
      BY DEF With, Fields, EquipmentAt
    <3>2. b.payload = SubSeq(bytes, 12, l)
      BY DEF With
    <3>3. 3 \in 1 .. Len(bytes)
      BY <1>1, <2>2
    <3>4. Number(SubSeq(bytes, 3, 3)) = bytes[3]
      BY <3>3, OneByte
    <3>5. "right_hand_kind" \notin Arrays /\ "right_hand_kind" \notin SignedFields
      BY DEF Arrays, SignedFields
    <3>6. bytes[3] <= 3
      BY <1>2
    <3> HIDE DEF b, s
    <3>7. b.right_hand_kind = bytes[3]
      BY <3>1, <3>4, <3>5 DEF Value
    <3> QED BY <3>2, <3>6, <3>7
  <2> HIDE DEF s, l
  <2>9. IsStruct(b, EquipmentAt, {"payload"})
    BY <2>5, <2>6, <2>7, TextTyped
  <2>10. Len(b.payload) = length
    BY <2>5, <2>8, SliceLong
  <2> HIDE DEF b
  <2>11. IsMessage(Message("EQUIPMENT", b))
    BY <2>9 DEF IsMessage, Message
  <2>12. WithinLimits(Message("EQUIPMENT", b))
    BY <2>4, <2>8, <2>10 DEF WithinLimits, Message
  <2> QED BY <2>1, <2>11, <2>12 DEF IsTaken
<1>3. CASE ~taken
  <2>1. DecodeEquipment(f) = BadLength
    BY <1>1, <1>3 DEF DecodeEquipment
  <2> QED BY <2>1, RefusedIsTaken
<1> QED BY <1>2, <1>3

LEMMA DigBatchTaken ==
    ASSUME NEW bytes \in Seq(Byte), NEW f, f = Frame("DIG_BATCH", bytes)
    PROVE  IsTaken(DecodeDigBatch(f))
<1> DEFINE count == bytes[1]
           l == Len(bytes)
           taken == /\ ~(Size(f) < kDigBatchHeaderSize)
                    /\ count > 0 /\ HasRest(f, kDigBatchHeaderSize, count * kDigBatchItemSize)
<1>1. f.bytes = bytes /\ l \in Nat /\ Size(f) = 1 + l
  BY InFrame
<1>2. CASE taken
  <2> DEFINE items == [i \in 1 .. count |->
                          Fields(bytes, kDigBatchHeaderSize + (i - 1) * kDigBatchItemSize, DigItemAt)]
             b == [items |-> items]
  <2>1. DecodeDigBatch(f) = Message("DIG_BATCH", b)
    BY <1>1, <1>2 DEF DecodeDigBatch
  <2>2. 1 \in 1 .. l
    <3>1. l \in Nat /\ 1 + l = Size(f) /\ ~(Size(f) < 2)
      BY <1>1, <1>2 DEF kDigBatchHeaderSize
    <3> HIDE DEF l
    <3> QED BY <3>1
  <2>3. count \in Nat /\ count <= Base - 1
    BY <2>2, OneByte
  <2>4. l = 1 + 10 * count /\ count \in 1 .. Base - 1
    <3>1. 1 + l = 2 + count * 10 /\ l \in Nat /\ count > 0
      BY <1>1, <1>2 DEF HasRest, kDigBatchHeaderSize, kDigBatchItemSize
    <3> HIDE DEF l, count
    <3> QED BY <2>3, <3>1, BaseIsEven
  <2>5. ASSUME NEW i \in 1 .. count
        PROVE  IsStruct(items[i], DigItemAt, {})
    <3> DEFINE offset == kDigBatchHeaderSize + (i - 1) * kDigBatchItemSize
    <3>1. offset \in Nat /\ offset >= 1 /\ offset + 9 <= l
      BY <2>3, <2>4 DEF kDigBatchHeaderSize, kDigBatchItemSize
    <3>2. items[i] = Fields(bytes, offset, DigItemAt)
      OBVIOUS
    <3> HIDE DEF offset, items
    <3>3. Inside(bytes, offset, DigItemAt)
      BY <3>1, InsideTables DEF l
    <3> QED BY <3>2, <3>3, FieldsTyped
  <2>6. b.items = items /\ items = [i \in 1 .. count |-> items[i]]
    OBVIOUS
  <2> HIDE DEF items, count
  <2>7. items \in Seq(Range(items)) /\ Len(items) = count
    <3> DEFINE R == Range(items)
    <3>1. DOMAIN items = 1 .. count
      BY <2>6
    <3>2. \A i \in 1 .. count : items[i] \in R
      BY <3>1 DEF Range
    <3> HIDE DEF R
    <3>3. items \in [1 .. count -> R]
      BY <2>6, <3>2
    <3>4. items \in Seq(R) /\ Len(items) = count
      BY <2>3, <3>3
    <3> QED BY <3>4 DEF R
  <2>8. \A dig \in Range(items) : IsStruct(dig, DigItemAt, {})
    BY <2>5, <2>6 DEF Range
  <2>9. b = [items |-> b.items]
    OBVIOUS
  <2> HIDE DEF b
  <2>10. IsMessage(Message("DIG_BATCH", b))
    BY <2>6, <2>7, <2>8, <2>9 DEF IsMessage, Message
  <2>11. WithinLimits(Message("DIG_BATCH", b))
    BY <2>4, <2>6, <2>7 DEF WithinLimits, Message
  <2> QED BY <2>1, <2>10, <2>11 DEF IsTaken
<1>3. CASE ~taken
  <2>1. DecodeDigBatch(f) = BadLength
    BY <1>1, <1>3 DEF DecodeDigBatch
  <2> QED BY <2>1, RefusedIsTaken
<1> QED BY <1>2, <1>3

LEMMA AnnounceTaken ==
    ASSUME NEW bytes \in Seq(Byte), NEW f, f = Frame("BUILDING_ANNOUNCE", bytes)
    PROVE  IsTaken(DecodeAnnounce(f))
<1>1. f.bytes = bytes /\ Len(bytes) \in Nat
  BY InFrame
<1>2. CASE Len(bytes) \in {kBuildingRecordSize, kLegacyBuildingRecordSize}
  <2> DEFINE s == Fields(bytes, 1, RecordAt)
             slots == Fields(bytes, 1, SlotAt)
             v == IF Len(bytes) = kBuildingRecordSize THEN slots.updated_slot ELSE 0
             b == With(s, "updated_slot", v)
  <2>1. DecodeAnnounce(f) = Message("BUILDING_ANNOUNCE", b)
    <3>1. b = DecodeBuildingRecord(bytes)
      BY DEF DecodeBuildingRecord
    <3> HIDE DEF b
    <3> QED BY <1>1, <1>2, <3>1 DEF DecodeAnnounce
  <2>2. Len(bytes) >= 48
    <3>1. Len(bytes) = 56 \/ Len(bytes) = 48
      BY <1>2 DEF kBuildingRecordSize, kLegacyBuildingRecordSize
    <3> DEFINE l == Len(bytes)
    <3> HIDE DEF l
    <3>2. l = 56 \/ l = 48
      BY <3>1 DEF l
    <3>3. l >= 48
      BY <3>2
    <3> QED BY <3>3 DEF l
  <2>3. /\ DOMAIN s = DOMAIN RecordAt
        /\ \A g \in DOMAIN RecordAt : s[g] \in FieldValues(g, RecordAt[g][2])
    BY <2>2, InsideTables, FieldsTyped
  <2>4. v \in FieldValues("updated_slot", 8)
    <3>1. CASE Len(bytes) = kBuildingRecordSize
      <4>1. Inside(bytes, 1, SlotAt)
        BY <3>1, InsideTables DEF kBuildingRecordSize
      <4>2. "updated_slot" \in DOMAIN SlotAt /\ SlotAt["updated_slot"][2] = 8
        BY DEF SlotAt
      <4>3. slots["updated_slot"] \in FieldValues("updated_slot", 8)
        BY <4>1, <4>2, FieldsTyped
      <4> QED BY <3>1, <4>3
    <3>2. CASE Len(bytes) # kBuildingRecordSize
      <4>1. v = 0
        BY <3>2
      <4>2. "updated_slot" \notin Arrays /\ "updated_slot" \notin SignedFields
        BY DEF Arrays, SignedFields
      <4>3. FieldValues("updated_slot", 8) = 0 .. Weight(8) - 1
        BY <4>2 DEF FieldValues
      <4>4. Weight(8) \in Nat \ {0}
        BY Weights
      <4> HIDE DEF v
      <4> QED BY <4>1, <4>3, <4>4
    <3> QED BY <3>1, <3>2
  <2> HIDE DEF s, v
  <2> DEFINE whole == With(RecordAt, "updated_slot", SlotAt.updated_slot)
  <2>5. Extended(b, s, "updated_slot", v)
    BY WithField, Zenon
  <2>6. Extended(whole, RecordAt, "updated_slot", SlotAt.updated_slot)
    BY WithField, Zenon
  <2>7. SlotAt.updated_slot[2] = 8
    BY DEF SlotAt
  <2> HIDE DEF b, whole
  <2>8. IsStruct(b, whole, {})
    <3>1. DOMAIN whole = DOMAIN RecordAt \cup {"updated_slot"}
      BY <2>6 DEF Extended
    <3>2. b = [g \in DOMAIN whole |-> b[g]]
      BY <2>3, <2>5, <3>1 DEF Extended
    <3>3. ASSUME NEW g \in DOMAIN whole
          PROVE  b[g] \in FieldValues(g, whole[g][2])
      <4>1. CASE g = "updated_slot"
        BY <2>4, <2>5, <2>6, <2>7, <4>1 DEF Extended
      <4>2. CASE g # "updated_slot"
        <5>1. g \in DOMAIN RecordAt
          BY <3>1, <4>2
        <5>2. b[g] = s[g] /\ whole[g] = RecordAt[g]
          BY <2>3, <2>5, <2>6, <4>2, <5>1 DEF Extended
        <5> QED BY <2>3, <5>1, <5>2
      <4> QED BY <4>1, <4>2
    <3> QED BY <3>2, <3>3 DEF IsStruct
  <2>9. IsMessage(Message("BUILDING_ANNOUNCE", b))
    BY <2>8 DEF IsMessage, Message, whole
  <2>10. WithinLimits(Message("BUILDING_ANNOUNCE", b))
    BY DEF WithinLimits, Message
  <2> QED BY <2>1, <2>9, <2>10 DEF IsTaken
<1>3. CASE ~(Len(bytes) \in {kBuildingRecordSize, kLegacyBuildingRecordSize})
  <2>1. DecodeAnnounce(f) = BadLength
    BY <1>1, <1>3 DEF DecodeAnnounce
  <2> QED BY <2>1, RefusedIsTaken
<1> QED BY <1>2, <1>3

LEMMA ReceivedTaken ==
    ASSUME NEW type, NEW bytes \in Seq(Byte), NEW f, f = Frame(type, bytes)
    PROVE  IsTaken(Received(f))
<1>0. f.type = type
  BY DEF Frame
<1>1. CASE type = "HELLO"
  <2>1. Received(f) = DecodeHello(f)
    BY <1>0, <1>1, ReceivedByType
  <2>2. IsTaken(DecodeHello(f))
    BY <1>1, HelloTaken
  <2> QED BY <2>1, <2>2
<1>2. CASE type = "MOVE"
  <2>1. Received(f) = DecodeMove(f)
    BY <1>0, <1>2, ReceivedByType
  <2>2. IsTaken(DecodeMove(f))
    BY <1>2, MoveTaken
  <2> QED BY <2>1, <2>2
<1>3. CASE type = "DIG"
  <2>1. Received(f) = DecodeDig(f)
    BY <1>0, <1>3, ReceivedByType
  <2>2. IsTaken(DecodeDig(f))
    BY <1>3, DigTaken
  <2> QED BY <2>1, <2>2
<1>4. CASE type = "DIG_BATCH"
  <2>1. Received(f) = DecodeDigBatch(f)
    BY <1>0, <1>4, ReceivedByType
  <2>2. IsTaken(DecodeDigBatch(f))
    BY <1>4, DigBatchTaken
  <2> QED BY <2>1, <2>2
<1>5. CASE type = "CHAT"
  <2>1. Received(f) = DecodeChat(f)
    BY <1>0, <1>5, ReceivedByType
  <2>2. IsTaken(DecodeChat(f))
    BY <1>5, ChatTaken
  <2> QED BY <2>1, <2>2
<1>6. CASE type = "PLAYER_IDENTITY"
  <2>1. Received(f) = DecodePlayerIdentity(f)
    BY <1>0, <1>6, ReceivedByType
  <2>2. IsTaken(DecodePlayerIdentity(f))
    BY <1>6, IdentityTaken
  <2> QED BY <2>1, <2>2
<1>7. CASE type = "EQUIPMENT"
  <2>1. Received(f) = DecodeEquipment(f)
    BY <1>0, <1>7, ReceivedByType
  <2>2. IsTaken(DecodeEquipment(f))
    BY <1>7, EquipmentTaken
  <2> QED BY <2>1, <2>2
<1>8. CASE type = "BUILDING_MANIFEST_REQUEST"
  <2>1. Received(f) = DecodeRequest(f)
    BY <1>0, <1>8, ReceivedByType
  <2>2. IsTaken(DecodeRequest(f))
    BY <1>8, RequestTaken
  <2> QED BY <2>1, <2>2
<1>9. CASE type = "BUILDING_ANNOUNCE"
  <2>1. Received(f) = DecodeAnnounce(f)
    BY <1>0, <1>9, ReceivedByType
  <2>2. IsTaken(DecodeAnnounce(f))
    BY <1>9, AnnounceTaken
  <2> QED BY <2>1, <2>2
<1>10. CASE type = "PONG"
  <2>1. Received(f) = DecodePong(f)
    BY <1>0, <1>10, ReceivedByType
  <2>2. IsTaken(DecodePong(f))
    BY <1>10, PongTaken
  <2> QED BY <2>1, <2>2
<1>11. CASE type \notin {"HELLO", "MOVE", "DIG", "DIG_BATCH", "CHAT", "PLAYER_IDENTITY", "EQUIPMENT",
                     "BUILDING_MANIFEST_REQUEST", "BUILDING_ANNOUNCE", "PONG"}
  <2>1. Received(f) \in {BadLength, Refused("BAD_PROTOCOL")}
    BY <1>0, <1>11 DEF Received
  <2> QED BY <2>1, RefusedIsTaken
<1> QED BY <1>1, <1>2, <1>3, <1>4, <1>5, <1>6, <1>7, <1>8, <1>9, <1>10, <1>11

(* Whatever the frame, what is accepted of it is a message within limits.   *)
LEMMA AcceptedIsMessage ==
    ASSUME FramesInv, got # NoMessage, got.type # "error"
    PROVE  IsMessage(got) /\ WithinLimits(got)
<1>1. got = Received(wire)
  BY DEF FramesInv
<1>2. IsTaken(Received(wire))
  BY ReceivedTaken DEF FramesInv
<1> QED BY <1>1, <1>2 DEF IsTaken

SayingInv == FramesInv /\ (event # NoMessage => IsEvent(event) /\ sent = EventFrames(event))

LEMMA SayingInvInductive ==
    /\ FramesInit => SayingInv
    /\ SayingInv /\ [FramesNext]_frameVars => SayingInv'
<1>1. FramesInit => SayingInv
  BY FramesInvInductive DEF FramesInit, SayingInv
<1>2. ASSUME SayingInv, [FramesNext]_frameVars
      PROVE  SayingInv'
  <2>1. FramesInv'
    BY <1>2, FramesInvInductive DEF SayingInv
  <2>2. CASE UNCHANGED <<event, sent>>
    BY <1>2, <2>1, <2>2 DEF SayingInv
  <2>3. CASE Relay
    <3>1. got # NoMessage /\ got.type # "error" /\ got.type \in HasRelay
      BY <2>3 DEF Relay, HasRelay, NoMessage
    <3>2. IsMessage(got) /\ WithinLimits(got)
      BY <1>2, <3>1, AcceptedIsMessage DEF SayingInv
    <3>3. IsEvent(Relayed(got))
      BY <3>1, <3>2, RelayedIsEvent
    <3>4. event' = Relayed(got) /\ sent' = EventFrames(event')
      BY <2>3 DEF Relay
    <3> QED BY <2>1, <3>3, <3>4 DEF SayingInv
  <2>4. CASE Say
    <3>1. event' \in Events /\ sent' = EventFrames(event')
      BY <2>4 DEF Say
    <3>2. IsEvent(event')
      BY <3>1, EventsAssumption
    <3> QED BY <2>1, <3>1, <3>2 DEF SayingInv
  <2>5. CASE Proceed
    <3>1. event' = NoMessage
      BY <2>5 DEF Proceed
    <3> QED BY <2>1, <3>1 DEF SayingInv
  <2>6. \/ Relay \/ Say \/ Proceed \/ UNCHANGED <<event, sent>>
    BY <1>2 DEF FramesNext, ClientSends, ClientSendsOther, Receive, frameVars
  <2> QED BY <2>2, <2>3, <2>4, <2>5, <2>6
<1> QED BY <1>1, <1>2

-----------------------------------------------------------------------------
(* Theorems *)

(* A client that has put a manifest together of pages                       *)
(* (building_manifest_pages) has the registry of that revision, for any     *)
(* number of pages, any limit of the buffer, and whatever was dropped, cut  *)
(* short by the end of a connection, or overtaken by a change.              *)
THEOREM AssembledManifestIsAlwaysExact == TransferSpec => []AssembledManifestIsExact
<1>1. TransferInv => AssembledManifestIsExact
  BY DEF TransferInv, HeldIsTrue, AssembledManifestIsExact
<1> QED BY <1>1, AlwaysTransferInv, PTL

(* Whatever bytes a client sends (the decoders of protocol.cpp and the      *)
(* dispatch of app.cpp), for any number of values of a byte and any limits of *)
(* the texts: what is accepted stands in the frame byte for byte, where the  *)
(* encoder of its message writes it, and nothing else is in it.             *)
THEOREM AcceptedFramesAreAlwaysExact == FramesSpec => []AcceptedFramesAreExact
<1>1. FramesInv => AcceptedFramesAreExact
  <2> SUFFICES ASSUME FramesInv, Accepted
               PROVE  LET whole == ClientFrame(got)
                      IN  IF IsLegacyAnnounce
                          THEN /\ got.body.updated_slot = 0
                               /\ wire.bytes = SubSeq(whole.bytes, 1, kLegacyBuildingRecordSize)
                          ELSE wire = whole
    BY DEF AcceptedFramesAreExact
  <2>1. got = Received(wire) /\ got.type # "error"
    BY DEF FramesInv, Accepted
  <2>2. Takes(wire, got)
    BY <2>1, ReceivedIsTaken DEF FramesInv
  <2> QED BY <2>1, <2>2 DEF Takes, IsLegacyAnnounce
<1> QED BY <1>1, AlwaysFramesInv, PTL

(* What a client says with the layouts of protocol.cpp arrives at the        *)
(* handlers of app.cpp as it was meant, whatever the values of its fields    *)
(* and for any limits of the texts, if it keeps those limits; what does not   *)
(* is turned down, and only a batch that its encoder has cut arrives short.  *)
THEOREM MessagesAlwaysArriveIntact == FramesSpec => []MessagesArriveIntact
<1>1. MeaningInv => MessagesArriveIntact
  <2> SUFFICES ASSUME MeaningInv, got # NoMessage, meant # NoMessage
               PROVE  Arrives(meant, got)
    BY DEF MessagesArriveIntact, Arrives
  <2>1. got = Received(ClientFrame(meant)) /\ IsMessage(meant)
    BY MessagesAssumption DEF MeaningInv, FramesInv
  <2> QED BY <2>1, MessageArrives
<1> QED BY <1>1, MeaningInvInductive, PTL DEF FramesSpec

(* Whatever bytes a client sends, what the decoders of protocol.cpp and the  *)
(* handlers of app.cpp take is a message that some client can mean, every     *)
(* field within its type, and within the limits of chat, equipment payload,   *)
(* name, batch and protocol version: nothing is relayed that is not.         *)
THEOREM AcceptedAreMessages == FramesSpec => [](Accepted => IsMessage(got) /\ WithinLimits(got))
<1>1. FramesInv => (Accepted => IsMessage(got) /\ WithinLimits(got))
  BY AcceptedIsMessage DEF Accepted
<1> QED BY <1>1, AlwaysFramesInv, PTL

(* The encoders of protocol.cpp, with flush_pending_moves, handle_dig_batch  *)
(* and building_manifest_pages, lose nothing: of any two things the Guardian  *)
(* has to say, whatever their fields, however many moves, digs or records      *)
(* they list and however long their texts, the frames are different.        *)
THEOREM EventsAlwaysToldApart == FramesSpec => []EventsTellApart
<1>1. SayingInv => EventsTellApart
  <2> SUFFICES ASSUME SayingInv, event # NoMessage,
                      NEW e \in Alternatives, EventFrames(e) = sent
               PROVE  e = event
    BY DEF EventsTellApart
  <2>1. IsEvent(event) /\ sent = EventFrames(event)
    BY DEF SayingInv
  <2>2. e.type = event.type
    BY DEF Alternatives
  <2>3. IsEvent(e)
    <3>1. CASE e \in Events
      BY <3>1, EventsAssumption
    <3>2. CASE e \notin Events
      <4>1. PICK m \in Messages : m.type \in HasRelay /\ WithinLimits(m) /\ e = Relayed(m)
        BY <3>2 DEF Alternatives
      <4>2. IsMessage(m)
        BY MessagesAssumption
      <4> QED BY <4>1, <4>2, RelayedIsEvent
    <3> QED BY <3>1, <3>2
  <2> QED BY <2>1, <2>2, <2>3, EventTells
<1> QED BY <1>1, SayingInvInductive, PTL DEF FramesSpec

=============================================================================
