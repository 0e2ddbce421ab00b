--------------------------- MODULE IndexDocProofs ---------------------------
(***************************************************************************)
(* What internal/index does to a list of entries, for any list that a file *)
(* can hold: the list that is left stands for the catalogue which module   *)
(* Catalogue gives for the operation, and it is in order.                  *)
(***************************************************************************)
EXTENDS IndexDoc, FiniteSetTheorems, SequenceTheorems, WellFoundedInduction, TLAPS

---------------------------------------------------------------------------
(* Vocabulary *)

Lists == Seq(Entry)

InList(list, v) == \E i \in DOMAIN list : list[i].version = v

Once(list) == \A i, j \in DOMAIN list : list[i].version = list[j].version => i = j

\* The artifact of a version and os-arch is that of the last entry that has one.
LastArt(list, v, oa, a) ==
    \E i \in DOMAIN list :
      /\ list[i].version = v
      /\ list[i].artifacts[oa] = a
      /\ a # None
      /\ \A j \in DOMAIN list : j > i /\ list[j].version = v => list[j].artifacts[oa] = None

NoArt(list, v, oa) == \A i \in DOMAIN list : list[i].version = v => list[i].artifacts[oa] = None

\* The publish time of a version is the earliest that one of its entries has.
FirstTime(list, v, t) ==
    \E i \in DOMAIN list :
      /\ list[i].version = v
      /\ list[i].created = t
      /\ t # 0
      /\ \A j \in DOMAIN list :
           list[j].version = v => list[j].created = 0 \/ t <= list[j].created

NoTime(list, v) == \A i \in DOMAIN list : list[i].version = v => list[i].created = 0

---------------------------------------------------------------------------
(* Least and greatest *)

LEMMA Least ==
    ASSUME NEW I \in SUBSET Nat, I # {}
    PROVE  \E i \in I : \A j \in I : i <= j
<1>1. PICK m \in I : \A l \in I : <<l, m>> \notin OpToRel(<, Nat)
  BY NatLessThanWellFounded, WFMin, Zenon
<1>2. ASSUME NEW l \in I, ~(m <= l) PROVE FALSE
  <2>1. l < m /\ l \in Nat /\ m \in Nat
    BY <1>2
  <2>2. <<l, m>> \in OpToRel(<, Nat)
    BY <2>1 DEF OpToRel
  <2> QED
    BY <1>1, <2>2
<1> QED
  BY <1>2

LEMMA Greatest ==
    ASSUME NEW n \in Nat, NEW I \in SUBSET (1..n), I # {}
    PROVE  \E i \in I : \A j \in I : j <= i
<1> DEFINE left == { m \in Nat : \E i \in I : m = n - i }
<1>1. left # {}
  <2>1. PICK i \in I : TRUE
    OBVIOUS
  <2>2. n - i \in Nat
    OBVIOUS
  <2> QED
    BY <2>2
<1>2. PICK m \in left : \A l \in left : m <= l
  <2>1. left \in SUBSET Nat
    OBVIOUS
  <2> HIDE DEF left
  <2> QED
    BY <1>1, <2>1, Least
<1>3. PICK i \in I : m = n - i
  OBVIOUS
<1>4. ASSUME NEW j \in I PROVE j <= i
  <2>1. n - j \in left
    OBVIOUS
  <2>2. m <= n - j
    BY <1>2, <2>1
  <2> QED
    BY <1>3, <2>2
<1> QED
  BY <1>4

---------------------------------------------------------------------------
(* One version of a list *)

LEMMA ListFacts ==
    ASSUME NEW list \in Lists
    PROVE  /\ Len(list) \in Nat
           /\ DOMAIN list = 1..Len(list)
           /\ \A i \in DOMAIN list : /\ list[i] \in Entry
                                     /\ list[i].version \in Versions
                                     /\ list[i].created \in Nat
                                     /\ list[i].artifacts \in [OsArches -> Artifact \cup {None}]
                                     /\ list[i] = [ version |-> list[i].version,
                                                    created |-> list[i].created,
                                                    artifacts |-> list[i].artifacts ]
<1>1. \A i \in DOMAIN list : list[i] \in Entry
  BY DEF Lists
<1>2. \A e \in Entry : /\ e.version \in Versions
                       /\ e.created \in Nat
                       /\ e.artifacts \in [OsArches -> Artifact \cup {None}]
                       /\ e = [ version |-> e.version, created |-> e.created,
                                artifacts |-> e.artifacts ]
  BY DEF Entry
<1> QED
  BY <1>1, <1>2 DEF Lists

\* findVersion finds the first entry of a version.
LEMMA Found ==
    ASSUME NEW list \in Lists, NEW v
    PROVE  \/ findVersion(list, v) = 0 /\ ~InList(list, v)
           \/ /\ InList(list, v)
              /\ findVersion(list, v) \in DOMAIN list
              /\ findVersion(list, v) # 0
              /\ list[findVersion(list, v)].version = v
              /\ \A j \in DOMAIN list : list[j].version = v => findVersion(list, v) <= j
<1> DEFINE same == { i \in DOMAIN list : list[i].version = v }
<1>1. same \in SUBSET Nat
  BY ListFacts
<1>2. findVersion(list, v) = IF same = {} THEN 0 ELSE CHOOSE i \in same : \A j \in same : i <= j
  BY DEF findVersion
<1>3. CASE same = {}
  BY <1>2, <1>3 DEF InList
<1>4. CASE same # {}
  <2> DEFINE n == findVersion(list, v)
  <2>1. n \in same /\ \A j \in same : n <= j
    <3> HIDE DEF same
    <3>1. \E i \in same : \A j \in same : i <= j
      BY <1>1, <1>4, Least
    <3> QED
      BY <1>2, <1>4, <3>1
  <2>2. n # 0
    BY <2>1, ListFacts
  <2> QED
    BY <2>1, <2>2 DEF InList
<1> QED
  BY <1>3, <1>4

LEMMA MergedArt ==
    ASSUME NEW list \in Lists, NEW v, NEW oa \in OsArches
    PROVE  LET a == Merge(list, v).artifacts[oa]
           IN  \/ NoArt(list, v, oa) /\ a = None
               \/ LastArt(list, v, oa, a)
<1> DEFINE a == Merge(list, v).artifacts[oa]
           has == { i \in { j \in DOMAIN list : list[j].version = v } :
                      list[i].artifacts[oa] # None }
<1>1. a = IF has = {} THEN None
          ELSE list[CHOOSE i \in has : \A j \in has : j <= i].artifacts[oa]
  BY DEF Merge
<1>2. CASE has = {}
  BY <1>1, <1>2 DEF NoArt
<1>3. CASE has # {}
  <2>1. has \in SUBSET (1..Len(list)) /\ Len(list) \in Nat
    BY ListFacts
  <2>2. PICK i \in has : a = list[i].artifacts[oa] /\ \A j \in has : j <= i
    <3> HIDE DEF has, a
    <3>1. \E i \in has : \A j \in has : j <= i
      BY <1>3, <2>1, Greatest
    <3> QED
      BY <1>1, <1>3, <3>1
  <2>3. \A j \in DOMAIN list : j > i => ~(j <= i)
    BY <2>1, ListFacts
  <2>4. LastArt(list, v, oa, a)
    BY <2>2, <2>3 DEF LastArt
  <2> QED
    BY <2>4
<1> QED
  BY <1>2, <1>3

LEMMA MergedTime ==
    ASSUME NEW list \in Lists, NEW v
    PROVE  LET t == Merge(list, v).created
           IN  \/ NoTime(list, v) /\ t = 0
               \/ FirstTime(list, v, t)
<1> DEFINE t == Merge(list, v).created
           times == { list[i].created : i \in { j \in DOMAIN list : list[j].version = v } } \ {0}
<1>1. t = IF times = {} THEN 0 ELSE CHOOSE u \in times : \A w \in times : u <= w
  BY DEF Merge
<1>2. times \in SUBSET Nat
  BY ListFacts
<1>3. CASE times = {}
  BY <1>1, <1>3 DEF NoTime
<1>4. CASE times # {}
  <2>1. t \in times /\ \A w \in times : t <= w
    <3> HIDE DEF times, t
    <3>1. \E u \in times : \A w \in times : u <= w
      BY <1>2, <1>4, Least
    <3> QED
      BY <1>1, <1>4, <3>1
  <2>2. FirstTime(list, v, t)
    BY <2>1 DEF FirstTime
  <2> QED
    BY <2>2
<1> QED
  BY <1>3, <1>4

\* The two are unique.
LEMMA ArtIs ==
    ASSUME NEW list \in Lists, NEW v, NEW oa \in OsArches, NEW a
    PROVE  /\ LastArt(list, v, oa, a) => Merge(list, v).artifacts[oa] = a
           /\ NoArt(list, v, oa) => Merge(list, v).artifacts[oa] = None
<1> DEFINE b == Merge(list, v).artifacts[oa]
<1>1. (NoArt(list, v, oa) /\ b = None) \/ LastArt(list, v, oa, b)
  BY MergedArt
<1> HIDE DEF b
<1>2. ASSUME LastArt(list, v, oa, a) PROVE b = a
  <2>1. PICK i \in DOMAIN list :
          /\ list[i].version = v /\ list[i].artifacts[oa] = a /\ a # None
          /\ \A j \in DOMAIN list : j > i /\ list[j].version = v => list[j].artifacts[oa] = None
    BY <1>2 DEF LastArt
  <2>2. LastArt(list, v, oa, b)
    BY <1>1, <2>1 DEF NoArt
  <2>3. PICK k \in DOMAIN list :
          /\ list[k].version = v /\ list[k].artifacts[oa] = b /\ b # None
          /\ \A j \in DOMAIN list : j > k /\ list[j].version = v => list[j].artifacts[oa] = None
    BY <2>2 DEF LastArt
  <2>4. ~(i > k) /\ ~(k > i)
    BY <2>1, <2>3
  <2>5. i = k
    BY <2>4, ListFacts
  <2> QED
    BY <2>1, <2>3, <2>5
<1>3. NoArt(list, v, oa) => b = None
  BY <1>1 DEF NoArt, LastArt
<1> QED
  BY <1>2, <1>3 DEF b

LEMMA TimeIs ==
    ASSUME NEW list \in Lists, NEW v, NEW t
    PROVE  /\ FirstTime(list, v, t) => Merge(list, v).created = t
           /\ NoTime(list, v) => Merge(list, v).created = 0
<1> DEFINE u == Merge(list, v).created
<1>1. (NoTime(list, v) /\ u = 0) \/ FirstTime(list, v, u)
  BY MergedTime
<1> HIDE DEF u
<1>2. ASSUME FirstTime(list, v, t) PROVE u = t
  <2>1. FirstTime(list, v, u)
    BY <1>1, <1>2 DEF NoTime, FirstTime
  <2>2. t \in Nat /\ u \in Nat /\ t <= u /\ u <= t
    BY <1>2, <2>1, ListFacts DEF FirstTime
  <2> QED
    BY <2>2
<1>3. NoTime(list, v) => u = 0
  BY <1>1 DEF NoTime, FirstTime
<1> QED
  BY <1>2, <1>3 DEF u

LEMMA MergedEntry ==
    ASSUME NEW list \in Lists, NEW v \in Versions
    PROVE  /\ Merge(list, v) \in Entry
           /\ Merge(list, v).version = v
           /\ Merge(list, v) = [ version |-> v, created |-> Merge(list, v).created,
                                 artifacts |-> Merge(list, v).artifacts ]
<1> DEFINE m == Merge(list, v)
<1>1. m.version = v /\ m = [version |-> v, created |-> m.created, artifacts |-> m.artifacts]
  BY DEF Merge
<1>2. m.created \in Nat
  BY MergedTime, ListFacts DEF FirstTime
<1>3. \A oa \in OsArches : m.artifacts[oa] \in Artifact \cup {None}
  BY MergedArt, ListFacts DEF LastArt
<1>4. m.artifacts = [oa \in OsArches |-> m.artifacts[oa]]
  BY DEF Merge
<1>5. m.artifacts \in [OsArches -> Artifact \cup {None}]
  BY <1>3, <1>4
<1> QED
  BY <1>1, <1>2, <1>5 DEF Entry

\* Where each version is there once, the merged entry is the entry.
LEMMA MergedOnce ==
    ASSUME NEW list \in Lists, Once(list), NEW i \in DOMAIN list
    PROVE  Merge(list, list[i].version) = list[i]
<1> DEFINE v == list[i].version
           m == Merge(list, v)
<1>1. ASSUME NEW oa \in OsArches PROVE m.artifacts[oa] = list[i].artifacts[oa]
  <2>1. CASE list[i].artifacts[oa] = None
    <3>1. NoArt(list, v, oa)
      BY <2>1 DEF NoArt, Once
    <3> QED
      BY <2>1, <3>1, ArtIs
  <2>2. CASE list[i].artifacts[oa] # None
    <3>1. LastArt(list, v, oa, list[i].artifacts[oa])
      BY <2>2, ListFacts DEF LastArt, Once
    <3> QED
      BY <3>1, ArtIs
  <2> QED
    BY <2>1, <2>2
<1>2. m.artifacts = list[i].artifacts
  BY <1>1, ListFacts DEF Merge
<1>3. m.created = list[i].created
  <2>1. CASE list[i].created = 0
    <3>1. NoTime(list, v)
      BY <2>1 DEF NoTime, Once
    <3> QED
      BY <2>1, <3>1, TimeIs
  <2>2. CASE list[i].created # 0
    <3>1. FirstTime(list, v, list[i].created)
      BY <2>2, ListFacts DEF FirstTime, Once
    <3> QED
      BY <3>1, TimeIs
  <2> QED
    BY <2>1, <2>2
<1>4. v \in Versions
  BY ListFacts
<1> QED
  BY <1>2, <1>3, <1>4, MergedEntry, ListFacts

---------------------------------------------------------------------------
(* Sorting *)

LEMMA NamesFinite ==
    ASSUME NEW list \in Lists
    PROVE  /\ IsFiniteSet(Seqs!ToSet(Names(list)))
           /\ \A v : v \in Seqs!ToSet(Names(list)) <=> InList(list, v)
           /\ Seqs!ToSet(Names(list)) \subseteq Versions
<1> DEFINE names == Seqs!ToSet(Names(list))
<1>1. /\ Len(list) \in Nat /\ DOMAIN list = 1..Len(list)
      /\ Names(list) = [i \in 1..Len(list) |-> list[i].version]
  BY ListFacts DEF Names
<1>2. names = { list[i].version : i \in 1..Len(list) }
  BY <1>1 DEF Seqs!ToSet
<1>3. Names(list) \in Surjection(1..Len(list), names)
  BY <1>1, <1>2 DEF Surjection
<1>4. IsFiniteSet(1..Len(list))
  BY <1>1, FS_Interval
<1>5. IsFiniteSet(names)
  BY <1>3, <1>4, FS_Surjection
<1> QED
  BY <1>1, <1>2, <1>5, ListFacts DEF InList

LEMMA SameCardinality == \A S : Seqs!Cardinality(S) = Cardinality(S)
BY Zenon DEF Seqs!Cardinality, Cardinality

\* A sequence of all elements of a finite set, each once.
LEMMA Enumeration ==
    ASSUME NEW S, IsFiniteSet(S), NEW s \in Seqs!SetToSeqs(S)
    PROVE  /\ s \in Seq(S)
           /\ DOMAIN s = 1..Cardinality(S)
           /\ Cardinality(S) \in Nat
           /\ \A i, j \in DOMAIN s : s[i] = s[j] => i = j
           /\ \A v : v \in S <=> \E i \in DOMAIN s : s[i] = v
<1> DEFINE n == Cardinality(S)
<1>1. n \in Nat
  BY FS_CardinalityType
<1>2. s \in [1..n -> S] /\ \A i, j \in 1..n : i # j => s[i] # s[j]
  BY SameCardinality DEF Seqs!SetToSeqs
<1>3. s \in Injection(1..n, S)
  BY <1>2 DEF Injection, IsInjective
<1>4. Cardinality(1..n) = n
  BY <1>1, FS_Interval
<1>5. s \in Surjection(1..n, S)
  BY <1>3, <1>4, FS_Injection
<1>6. \A v \in S : \E i \in 1..n : s[i] = v
  BY <1>5 DEF Surjection
<1> QED
  BY <1>1, <1>2, <1>6

\* What SortVersions leaves: the same versions, each merged into one entry, in order.
LEMMA Sorted ==
    ASSUME NEW list \in Lists, NEW new \in SortVersions(list)
    PROVE  /\ new \in Lists
           /\ Canonical(new)
           /\ \A v : InList(new, v) <=> InList(list, v)
           /\ \A i \in DOMAIN new : new[i] = Merge(list, new[i].version)
<1> DEFINE names == Seqs!ToSet(Names(list))
           good == { v \in names : Parseable(v) }
           bad  == { v \in names : ~Parseable(v) }
<1>1. IsFiniteSet(names) /\ names \subseteq Versions
  BY NamesFinite
<1>2. IsFiniteSet(good) /\ IsFiniteSet(bad)
  BY <1>1, FS_Subset
<1>3. PICK sorted \in SortAscending(names), rest \in Unparseable(list) :
        new = [i \in DOMAIN (sorted \o rest) |-> Merge(list, (sorted \o rest)[i])]
  BY DEF SortVersions
<1>4. /\ sorted \in Seqs!SetToSeqs(good)
      /\ \A i, j \in DOMAIN sorted : i < j => Rank[sorted[i]] <= Rank[sorted[j]]
      /\ rest \in Seqs!SetToSeqs(bad)
  BY DEF SortAscending, Unparseable
<1> DEFINE m == Cardinality(good)
           n == Cardinality(bad)
           order == sorted \o rest
<1>5. /\ sorted \in Seq(good) /\ DOMAIN sorted = 1..m /\ m \in Nat
      /\ \A i, j \in DOMAIN sorted : sorted[i] = sorted[j] => i = j
      /\ \A v : v \in good <=> \E i \in DOMAIN sorted : sorted[i] = v
  BY <1>2, <1>4, Enumeration
<1>6. /\ rest \in Seq(bad) /\ DOMAIN rest = 1..n /\ n \in Nat
      /\ \A i, j \in DOMAIN rest : rest[i] = rest[j] => i = j
      /\ \A v : v \in bad <=> \E i \in DOMAIN rest : rest[i] = v
  BY <1>2, <1>4, Enumeration
<1> HIDE DEF names
<1>7. Len(sorted) = m /\ Len(rest) = n
  BY <1>5, <1>6
<1>8. /\ DOMAIN order = 1..(m + n)
      /\ \A i \in 1..m : order[i] = sorted[i]
      /\ \A i \in m+1..m+n : order[i] = rest[i - m] /\ i - m \in 1..n
  <2>1. sorted \in Seq(names) /\ rest \in Seq(names)
    BY <1>5, <1>6, SeqMonotonic
  <2>2. /\ order \in Seq(names)
        /\ Len(order) = m + n
        /\ \A i \in 1..m+n : order[i] = IF i <= m THEN sorted[i] ELSE rest[i - m]
    <3>1. /\ order \in Seq(names) /\ Len(order) = Len(sorted) + Len(rest)
          /\ \A i \in 1..Len(sorted) + Len(rest) :
               order[i] = IF i <= Len(sorted) THEN sorted[i] ELSE rest[i - Len(sorted)]
      BY <2>1, ConcatProperties, Zenon
    <3> QED
      BY <3>1, <1>7
  <2>3. DOMAIN order = 1..(m + n)
    <3> HIDE DEF order
    <3> QED
      BY <2>2
  <2> HIDE DEF order
  <2>4. \A i \in 1..m : i \in 1..m+n /\ i <= m
    BY <1>5, <1>6
  <2>5. \A i \in m+1..m+n : i \in 1..m+n /\ ~(i <= m) /\ i - m \in 1..n
    BY <1>5, <1>6
  <2> QED
    BY <2>2, <2>3, <2>4, <2>5
<1>9. \A i \in 1..m : order[i] \in names /\ Parseable(order[i])
  BY <1>5, <1>8
<1>10. \A i \in m+1..m+n : order[i] \in names /\ ~Parseable(order[i])
  BY <1>6, <1>8
<1>11. \A i \in 1..m+n : i \in 1..m \/ i \in m+1..m+n
  BY <1>5, <1>6
<1>12. \A i \in 1..m+n : order[i] \in Versions
  BY <1>1, <1>9, <1>10, <1>11
<1>13. /\ DOMAIN new = 1..(m + n)
       /\ \A i \in 1..m+n : new[i] = Merge(list, order[i])
  BY <1>3, <1>8
<1>14. \A i \in 1..m+n : new[i] \in Entry /\ new[i].version = order[i]
  <2> HIDE DEF order
  <2> QED
    BY <1>12, <1>13, MergedEntry
<1>15. new \in Lists
  <2>1. new \in [1..m+n -> Entry]
    BY <1>3, <1>8, <1>14
  <2>2. m + n \in Nat
    BY <1>5, <1>6
  <2> HIDE DEF m, n
  <2> QED
    BY <2>1, <2>2 DEF Lists
<1>16. \A i, j \in 1..m+n : i < j => order[i] # order[j]
  <2> SUFFICES ASSUME NEW i \in 1..m+n, NEW j \in 1..m+n, i < j, order[i] = order[j]
               PROVE  FALSE
    OBVIOUS
  <2>1. CASE j \in 1..m
    <3>1. i \in 1..m
      BY <2>1, <1>5
    <3>2. sorted[i] = sorted[j] /\ i \in DOMAIN sorted /\ j \in DOMAIN sorted
      BY <2>1, <3>1, <1>5, <1>8
    <3>3. i = j
      BY <3>2, <1>5
    <3> QED
      BY <3>3, <1>5
  <2>2. CASE i \in 1..m /\ j \in m+1..m+n
    BY <2>2, <1>9, <1>10
  <2>3. CASE i \in m+1..m+n
    <3>1. j \in m+1..m+n
      BY <2>3, <1>5, <1>6
    <3>2. rest[i - m] = rest[j - m] /\ i - m \in DOMAIN rest /\ j - m \in DOMAIN rest
      BY <2>3, <3>1, <1>6, <1>8
    <3>3. i - m = j - m
      BY <3>2, <1>6
    <3> QED
      BY <3>3, <1>5, <1>6
  <2> QED
    BY <1>11, <2>1, <2>2, <2>3
<1>17. Canonical(new)
  <2> SUFFICES ASSUME NEW i \in 1..m+n, NEW j \in 1..m+n, i < j
               PROVE  /\ order[i] # order[j]
                      /\ Parseable(order[j]) => Parseable(order[i]) /\ Rank[order[i]] <= Rank[order[j]]
    <3> HIDE DEF m, n, order
    <3> QED
      BY <1>13, <1>14 DEF Canonical
  <2>1. CASE j \in 1..m
    <3>1. i \in 1..m
      BY <2>1, <1>5
    <3> QED
      BY <2>1, <3>1, <1>4, <1>5, <1>8, <1>9, <1>16
  <2>2. CASE j \in m+1..m+n
    BY <2>2, <1>10, <1>16
  <2> QED
    BY <1>11, <2>1, <2>2
<1>18. ASSUME NEW v PROVE InList(new, v) <=> InList(list, v)
  <2>1. InList(new, v) => v \in names
    BY <1>9, <1>10, <1>11, <1>13, <1>14 DEF InList
  <2>2. ASSUME v \in names PROVE InList(new, v)
    <3>1. CASE v \in good
      <4>1. PICK i \in 1..m : sorted[i] = v
        BY <3>1, <1>5
      <4>2. i \in 1..m+n /\ order[i] = v
        BY <4>1, <1>5, <1>6, <1>8
      <4> QED
        BY <4>2, <1>13, <1>14 DEF InList
    <3>2. CASE v \in bad
      <4>1. PICK i \in 1..n : rest[i] = v
        BY <3>2, <1>6
      <4>2. m + i \in m+1..m+n /\ m + i \in 1..m+n /\ (m + i) - m = i
        BY <1>5, <1>6
      <4>3. order[m + i] = v
        BY <4>1, <4>2, <1>8
      <4> QED
        BY <4>2, <4>3, <1>13, <1>14 DEF InList
    <3> QED
      BY <2>2, <3>1, <3>2
  <2> QED
    BY <2>1, <2>2, NamesFinite DEF names
<1> QED
  BY <1>13, <1>14, <1>15, <1>17, <1>18

LEMMA CanonicalOnce ==
    ASSUME NEW list \in Lists, Canonical(list)
    PROVE  Once(list)
BY ListFacts DEF Canonical, Once

\* So the list stands for the catalogue that it stood for.
LEMMA SortedSame ==
    ASSUME NEW list \in Lists, NEW new \in SortVersions(list), NEW v \in Versions
    PROVE  Merge(new, v) = Merge(list, v)
<1>1. /\ new \in Lists /\ Canonical(new)
      /\ InList(new, v) <=> InList(list, v)
      /\ \A i \in DOMAIN new : new[i] = Merge(list, new[i].version)
  BY Sorted
<1>2. CASE InList(list, v)
  <2>1. PICK i \in DOMAIN new : new[i].version = v
    BY <1>1, <1>2 DEF InList
  <2> QED
    BY <2>1, <1>1, CanonicalOnce, MergedOnce
<1>3. CASE ~InList(list, v)
  <2>1. NoTime(list, v) /\ NoTime(new, v)
    BY <1>1, <1>3 DEF InList, NoTime
  <2>2. \A oa \in OsArches : NoArt(list, v, oa) /\ NoArt(new, v, oa)
    BY <1>1, <1>3 DEF InList, NoArt
  <2>3. Merge(new, v).created = Merge(list, v).created
    BY <1>1, <2>1, TimeIs
  <2>4. \A oa \in OsArches : Merge(new, v).artifacts[oa] = Merge(list, v).artifacts[oa]
    BY <1>1, <2>2, ArtIs
  <2>5. Merge(new, v).artifacts = Merge(list, v).artifacts
    BY <2>4 DEF Merge
  <2> QED
    BY <2>3, <2>5, <1>1, MergedEntry
<1> QED
  BY <1>2, <1>3

---------------------------------------------------------------------------
(* Upsert, before it sorts *)

LEMMA HasArt ==
    ASSUME NEW list \in Lists, NEW v, NEW oa \in OsArches
    PROVE  Merge(list, v).artifacts[oa] # None
             <=> \E i \in DOMAIN list : list[i].version = v /\ list[i].artifacts[oa] # None
BY MergedArt DEF NoArt, LastArt

LEMMA SameMerge ==
    ASSUME NEW one \in Lists, NEW other \in Lists, NEW v \in Versions,
           \A oa \in OsArches : Merge(one, v).artifacts[oa] = Merge(other, v).artifacts[oa],
           Merge(one, v).created = Merge(other, v).created
    PROVE  Merge(one, v) = Merge(other, v)
<1>1. Merge(one, v).artifacts = Merge(other, v).artifacts
  BY DEF Merge
<1> QED
  BY <1>1, MergedEntry

\* A merged entry is made of the entries of its version, wherever they are.
LEMMA Moved ==
    ASSUME NEW one \in Lists, NEW other \in Lists, NEW v \in Versions, NEW f,
           \A i \in DOMAIN one : one[i].version = v => f[i] \in DOMAIN other /\ other[f[i]] = one[i],
           \A j \in DOMAIN other : other[j].version = v =>
             \E i \in DOMAIN one : f[i] = j /\ one[i].version = v,
           \A i, j \in DOMAIN one : i < j => f[i] < f[j]
    PROVE  Merge(one, v) = Merge(other, v)
<1>1. ASSUME NEW oa \in OsArches
      PROVE  Merge(one, v).artifacts[oa] = Merge(other, v).artifacts[oa]
  <2> DEFINE a == Merge(one, v).artifacts[oa]
  <2>1. CASE NoArt(one, v, oa) /\ a = None
    <3>1. NoArt(other, v, oa)
      BY <2>1 DEF NoArt
    <3> QED
      BY <2>1, <3>1, ArtIs
  <2>2. CASE LastArt(one, v, oa, a)
    <3> HIDE DEF a
    <3>1. PICK i \in DOMAIN one :
            /\ one[i].version = v /\ one[i].artifacts[oa] = a /\ a # None
            /\ \A j \in DOMAIN one : j > i /\ one[j].version = v => one[j].artifacts[oa] = None
      BY <2>2 DEF LastArt
    <3>2. f[i] \in DOMAIN other /\ other[f[i]] = one[i]
      BY <3>1
    <3>3. ASSUME NEW j \in DOMAIN other, j > f[i], other[j].version = v
          PROVE  other[j].artifacts[oa] = None
      <4>1. PICK k \in DOMAIN one : f[k] = j /\ one[k].version = v
        BY <3>3
      <4>2. other[j] = one[k]
        BY <4>1
      <4>3. ~(k < i) /\ k # i
        BY <3>2, <3>3, <4>1, ListFacts
      <4>4. k > i
        BY <4>3, ListFacts
      <4> QED
        BY <3>1, <4>1, <4>2, <4>4
    <3>4. LastArt(other, v, oa, a)
      BY <3>1, <3>2, <3>3 DEF LastArt
    <3> QED
      BY <3>4, ArtIs DEF a
  <2> QED
    BY <2>1, <2>2, MergedArt
<1>2. Merge(one, v).created = Merge(other, v).created
  <2> DEFINE t == Merge(one, v).created
  <2>1. CASE NoTime(one, v) /\ t = 0
    <3>1. NoTime(other, v)
      BY <2>1 DEF NoTime
    <3> QED
      BY <2>1, <3>1, TimeIs
  <2>2. CASE FirstTime(one, v, t)
    <3> HIDE DEF t
    <3>1. FirstTime(other, v, t)
      BY <2>2 DEF FirstTime
    <3> QED
      BY <3>1, TimeIs DEF t
  <2> QED
    BY <2>1, <2>2, MergedTime
<1> QED
  BY <1>1, <1>2, SameMerge

Put(list, art, now) ==
    LET slot == art.key.slot
        n    == findVersion(list, slot.version)
    IN  IF n = 0
        THEN Append(list, [ version |-> slot.version, created |-> now,
                            artifacts |-> [NoArtifacts EXCEPT ![slot.osArch] = art] ])
        ELSE [list EXCEPT ![n].artifacts[slot.osArch] = art]

LEMMA ArtifactFacts ==
    ASSUME NEW art \in Artifact
    PROVE  /\ art # None
           /\ art.key.slot.version \in Versions
           /\ art.key.slot.osArch \in OsArches
           /\ art.key.slot = [version |-> art.key.slot.version, osArch |-> art.key.slot.osArch]
           /\ art.key.slot \in Slot
BY CatalogueAssumption DEF Artifact, Key, Slot

\* art goes into entry n: the first of its version, or a new one at the end.
LEMMA PutAt ==
    ASSUME NEW list \in Lists, NEW art \in Artifact, NEW now \in Nat
    PROVE  LET put == Put(list, art, now)
               slot == art.key.slot
           IN  /\ put \in Lists
               /\ \E n \in DOMAIN put :
                    /\ DOMAIN list \subseteq DOMAIN put
                    /\ \A i \in DOMAIN put \ {n} : i \in DOMAIN list /\ put[i] = list[i]
                    /\ put[n].version = slot.version
                    /\ put[n].artifacts[slot.osArch] = art
                    /\ n \in DOMAIN list =>
                         /\ list[n].version = slot.version
                         /\ put[n].created = list[n].created
                         /\ \A oa \in OsArches \ {slot.osArch} :
                              put[n].artifacts[oa] = list[n].artifacts[oa]
                    /\ n \notin DOMAIN list =>
                         /\ ~InList(list, slot.version)
                         /\ put[n].created = now
                         /\ \A oa \in OsArches \ {slot.osArch} : put[n].artifacts[oa] = None
<1> DEFINE put == Put(list, art, now)
           slot == art.key.slot
           n == findVersion(list, slot.version)
           entry == [ version |-> slot.version, created |-> now,
                      artifacts |-> [NoArtifacts EXCEPT ![slot.osArch] = art] ]
<1>1. slot.version \in Versions /\ slot.osArch \in OsArches
  BY ArtifactFacts
<1>2. put = IF n = 0 THEN Append(list, entry) ELSE [list EXCEPT ![n].artifacts[slot.osArch] = art]
  BY DEF Put
<1> HIDE DEF put
<1>3. CASE n = 0
  <2>1. entry.artifacts \in [OsArches -> Artifact \cup {None}]
    BY <1>1 DEF NoArtifacts
  <2>2. entry \in Entry
    BY <1>1, <2>1 DEF Entry
  <2>3. /\ entry.artifacts[slot.osArch] = art
        /\ \A oa \in OsArches \ {slot.osArch} : entry.artifacts[oa] = None
    BY <1>1 DEF NoArtifacts
  <2>4. entry.version = slot.version /\ entry.created = now
    OBVIOUS
  <2> HIDE DEF entry
  <2>5. /\ put \in Lists
        /\ DOMAIN put = 1..Len(list) + 1
        /\ \A i \in 1..Len(list) : put[i] = list[i]
        /\ put[Len(list) + 1] = entry
    BY <1>2, <1>3, <2>2 DEF Lists
  <2>6. ~InList(list, slot.version)
    BY <1>3, Found
  <2>7. /\ DOMAIN list = 1..Len(list) /\ Len(list) \in Nat
        /\ Len(list) + 1 \in DOMAIN put
        /\ Len(list) + 1 \notin DOMAIN list
        /\ DOMAIN list \subseteq DOMAIN put
        /\ \A i \in DOMAIN put \ {Len(list) + 1} : i \in DOMAIN list
    BY <2>5, ListFacts
  <2>8. \A i \in DOMAIN put \ {Len(list) + 1} : i \in DOMAIN list /\ put[i] = list[i]
    BY <2>5, <2>7
  <2> HIDE DEF slot, n
  <2> QED
    BY <2>3, <2>4, <2>5, <2>6, <2>7, <2>8 DEF put, slot
<1>4. CASE n # 0
  <2>1. n \in DOMAIN list /\ list[n].version = slot.version
    BY <1>4, Found
  <2>2. put = [list EXCEPT ![n] = [list[n] EXCEPT !.artifacts = [@ EXCEPT ![slot.osArch] = art]]]
    BY <1>2, <1>4
  <2>3. /\ list[n] \in Entry
        /\ list[n].artifacts \in [OsArches -> Artifact \cup {None}]
    BY <2>1, ListFacts
  <2> DEFINE changed == [list[n] EXCEPT !.artifacts = [@ EXCEPT ![slot.osArch] = art]]
  <2>4. /\ changed.version = list[n].version
        /\ changed.created = list[n].created
        /\ changed.artifacts = [list[n].artifacts EXCEPT ![slot.osArch] = art]
        /\ changed \in Entry
    BY <1>1, <2>3 DEF Entry
  <2>5. /\ changed.artifacts[slot.osArch] = art
        /\ \A oa \in OsArches \ {slot.osArch} : changed.artifacts[oa] = list[n].artifacts[oa]
    BY <1>1, <2>3, <2>4
  <2> HIDE DEF changed
  <2>6. put = [list EXCEPT ![n] = changed]
    BY <2>2 DEF changed
  <2>7. /\ put \in Lists
        /\ DOMAIN put = DOMAIN list
        /\ put[n] = changed
        /\ \A i \in DOMAIN list \ {n} : put[i] = list[i]
    BY <2>1, <2>4, <2>6 DEF Lists
  <2> HIDE DEF slot, n
  <2> QED
    BY <2>1, <2>4, <2>5, <2>7 DEF put, slot
<1> QED
  BY <1>3, <1>4

\* What Put makes of the catalogue.
LEMMA Putted ==
    ASSUME NEW list \in Lists, NEW art \in Artifact, NEW now \in Nat, now # 0
    PROVE  LET put == Put(list, art, now)
               v == art.key.slot.version
               oa == art.key.slot.osArch
           IN  /\ put \in Lists
               /\ \A w : InList(put, w) <=> InList(list, w) \/ w = v
               /\ \A w \in Versions \ {v} : Merge(put, w) = Merge(list, w)
               /\ \A o \in OsArches \ {oa} : Merge(put, v).artifacts[o] = Merge(list, v).artifacts[o]
               /\ Merge(put, v).artifacts[oa] # None
               /\ Once(list) => Merge(put, v).artifacts[oa] = art
               /\ Merge(put, v).created = IF InList(list, v) THEN Merge(list, v).created ELSE now
<1> DEFINE put == Put(list, art, now)
           v == art.key.slot.version
           oa == art.key.slot.osArch
<1>1. put \in Lists /\ v \in Versions /\ oa \in OsArches /\ art # None
  BY PutAt, ArtifactFacts
<1>2. PICK n \in DOMAIN put :
        /\ DOMAIN list \subseteq DOMAIN put
        /\ \A i \in DOMAIN put \ {n} : i \in DOMAIN list /\ put[i] = list[i]
        /\ put[n].version = v
        /\ put[n].artifacts[oa] = art
        /\ n \in DOMAIN list =>
             /\ list[n].version = v
             /\ put[n].created = list[n].created
             /\ \A o \in OsArches \ {oa} : put[n].artifacts[o] = list[n].artifacts[o]
        /\ n \notin DOMAIN list =>
             /\ ~InList(list, v)
             /\ put[n].created = now
             /\ \A o \in OsArches \ {oa} : put[n].artifacts[o] = None
  BY PutAt
<1> HIDE DEF put, v, oa
<1>3. \A w : InList(put, w) <=> InList(list, w) \/ w = v
  BY <1>2 DEF InList
<1>4. ASSUME NEW w \in Versions \ {v} PROVE Merge(put, w) = Merge(list, w)
  <2> DEFINE f == [i \in DOMAIN put |-> i]
  <2>1. /\ \A i \in DOMAIN put : put[i].version = w => f[i] \in DOMAIN list /\ list[f[i]] = put[i]
        /\ \A j \in DOMAIN list : list[j].version = w =>
             \E i \in DOMAIN put : f[i] = j /\ put[i].version = w
        /\ \A i, j \in DOMAIN put : i < j => f[i] < f[j]
    BY <1>2
  <2> HIDE DEF f
  <2> QED
    BY <1>1, <2>1, Moved
<1>5. ASSUME NEW o \in OsArches \ {oa}
      PROVE  Merge(put, v).artifacts[o] = Merge(list, v).artifacts[o]
  <2> DEFINE a == Merge(list, v).artifacts[o]
  <2>1. \A i \in DOMAIN put : put[i].artifacts[o] # None =>
          i \in DOMAIN list /\ put[i].artifacts[o] = list[i].artifacts[o]
                            /\ put[i].version = list[i].version
    BY <1>2
  <2>2. \A i \in DOMAIN list : i \in DOMAIN put /\ put[i].artifacts[o] = list[i].artifacts[o]
                                                /\ put[i].version = list[i].version
    BY <1>2
  <2>3. CASE NoArt(list, v, o) /\ a = None
    <3>1. NoArt(put, v, o)
      BY <2>1, <2>3 DEF NoArt
    <3> QED
      BY <1>1, <2>3, <3>1, ArtIs
  <2>4. CASE LastArt(list, v, o, a)
    <3> HIDE DEF a
    <3>1. LastArt(put, v, o, a)
      BY <2>1, <2>2, <2>4 DEF LastArt
    <3> QED
      BY <1>1, <3>1, ArtIs DEF a
  <2> QED
    BY <2>3, <2>4, MergedArt
<1>6. Merge(put, v).artifacts[oa] # None
  BY <1>1, <1>2, HasArt
<1>7. ASSUME Once(list) PROVE Merge(put, v).artifacts[oa] = art
  <2>1. LastArt(put, v, oa, art)
    BY <1>1, <1>2, <1>7, ListFacts DEF LastArt, Once, InList
  <2> QED
    BY <1>1, <2>1, ArtIs
<1>8. Merge(put, v).created = IF InList(list, v) THEN Merge(list, v).created ELSE now
  <2>1. CASE n \notin DOMAIN list
    <3>1. \A j \in DOMAIN put : put[j].version = v => put[j].created = now
      BY <1>2, <2>1 DEF InList
    <3>2. put[n].version = v /\ put[n].created = now /\ now <= now
      BY <1>2, <2>1
    <3>3. FirstTime(put, v, now)
      BY <3>1, <3>2 DEF FirstTime
    <3> QED
      BY <1>1, <1>2, <2>1, <3>3, TimeIs
  <2>2. CASE n \in DOMAIN list
    <3>1. DOMAIN put = DOMAIN list
      BY <1>2, <2>2
    <3>2. \A i \in DOMAIN list : put[i].version = list[i].version /\ put[i].created = list[i].created
      BY <1>2, <2>2
    <3>3. InList(list, v)
      BY <1>2, <2>2 DEF InList
    <3>4. CASE NoTime(list, v) /\ Merge(list, v).created = 0
      <4>1. NoTime(put, v)
        BY <3>1, <3>2, <3>4 DEF NoTime
      <4> QED
        BY <1>1, <3>3, <3>4, <4>1, TimeIs
    <3>5. CASE FirstTime(list, v, Merge(list, v).created)
      <4> DEFINE t == Merge(list, v).created
      <4> HIDE DEF t
      <4>1. FirstTime(put, v, t)
        BY <3>1, <3>2, <3>5 DEF FirstTime, t
      <4> QED
        BY <1>1, <3>3, <4>1, TimeIs DEF t
    <3> QED
      BY <3>4, <3>5, MergedTime
  <2> QED
    BY <2>1, <2>2
<1> QED
  BY <1>1, <1>3, <1>4, <1>5, <1>6, <1>7, <1>8 DEF put, v, oa

---------------------------------------------------------------------------
(* Upsert *)

LEMMA Upserted ==
    ASSUME NEW list \in Lists, NEW art \in Artifact, NEW now \in Nat, now # 0,
           NEW new \in Upsert(list, art, now)
    PROVE  LET v == art.key.slot.version
               oa == art.key.slot.osArch
           IN  /\ new \in Lists
               /\ Canonical(new)
               /\ \A w : InList(new, w) <=> InList(list, w) \/ w = v
               /\ \A w \in Versions \ {v} : Merge(new, w) = Merge(list, w)
               /\ \A o \in OsArches \ {oa} : Merge(new, v).artifacts[o] = Merge(list, v).artifacts[o]
               /\ Merge(new, v).artifacts[oa] # None
               /\ Once(list) => Merge(new, v).artifacts[oa] = art
               /\ Merge(new, v).created = IF InList(list, v) THEN Merge(list, v).created ELSE now
<1> DEFINE put == Put(list, art, now)
           v == art.key.slot.version
           oa == art.key.slot.osArch
<1>1. new \in SortVersions(put)
  BY DEF Upsert, Put
<1>2. put \in Lists /\ v \in Versions
  BY PutAt, ArtifactFacts
<1>3. /\ \A w : InList(put, w) <=> InList(list, w) \/ w = v
      /\ \A w \in Versions \ {v} : Merge(put, w) = Merge(list, w)
      /\ \A o \in OsArches \ {oa} : Merge(put, v).artifacts[o] = Merge(list, v).artifacts[o]
      /\ Merge(put, v).artifacts[oa] # None
      /\ Once(list) => Merge(put, v).artifacts[oa] = art
      /\ Merge(put, v).created = IF InList(list, v) THEN Merge(list, v).created ELSE now
  BY Putted
<1> HIDE DEF put, v, oa
<1>4. new \in Lists /\ Canonical(new) /\ \A w : InList(new, w) <=> InList(put, w)
  BY <1>1, <1>2, Sorted
<1>5. \A w \in Versions : Merge(new, w) = Merge(put, w)
  BY <1>1, <1>2, SortedSame
<1> QED
  BY <1>2, <1>3, <1>4, <1>5 DEF v, oa

\* A version is in a tidy list if the list has an artifact of it.
LEMMA TidyVersions ==
    ASSUME NEW list \in Lists, Tidy(list), NEW v
    PROVE  InList(list, v) <=> \E oa \in OsArches : Merge(list, v).artifacts[oa] # None
<1>1. ASSUME InList(list, v) PROVE \E oa \in OsArches : Merge(list, v).artifacts[oa] # None
  <2>1. PICK i \in DOMAIN list : list[i].version = v
    BY <1>1 DEF InList
  <2>2. list[i].artifacts # NoArtifacts
    BY DEF Tidy
  <2>3. list[i].artifacts \in [OsArches -> Artifact \cup {None}]
    BY ListFacts
  <2>4. \E oa \in OsArches : list[i].artifacts[oa] # None
    BY <2>2, <2>3 DEF NoArtifacts
  <2> QED
    BY <2>1, <2>4, HasArt
<1>2. ASSUME NEW oa \in OsArches, Merge(list, v).artifacts[oa] # None PROVE InList(list, v)
  BY <1>2, HasArt DEF InList
<1> QED
  BY <1>1, <1>2

LEMMA CatalogueFacts ==
    ASSUME NEW d, d.versions \in Lists
    PROVE  LET c == CatalogueOf(d)
           IN  /\ c = [updated |-> d.updated, created |-> c.created, arts |-> c.arts]
               /\ c.created = [v \in Versions |-> Merge(d.versions, v).created]
               /\ c.arts = [s \in Slot |-> Merge(d.versions, s.version).artifacts[s.osArch]]
               /\ \A v \in Versions :
                    HasVersion(c, v) <=>
                      \E oa \in OsArches : Merge(d.versions, v).artifacts[oa] # None
<1> DEFINE c == CatalogueOf(d)
<1>1. /\ c = [updated |-> d.updated, created |-> c.created, arts |-> c.arts]
      /\ c.created = [v \in Versions |-> Merge(d.versions, v).created]
      /\ c.arts = [s \in Slot |-> Merge(d.versions, s.version).artifacts[s.osArch]]
  BY DEF CatalogueOf
<1> HIDE DEF c
<1>2. ASSUME NEW v \in Versions
      PROVE  HasVersion(c, v) <=> \E oa \in OsArches : Merge(d.versions, v).artifacts[oa] # None
  <2>1. ASSUME HasVersion(c, v) PROVE \E oa \in OsArches : Merge(d.versions, v).artifacts[oa] # None
    <3>1. PICK s \in Slot : s.version = v /\ c.arts[s] # None
      BY <2>1 DEF HasVersion
    <3>2. s.osArch \in OsArches
      BY DEF Slot
    <3> QED
      BY <1>1, <3>1, <3>2
  <2>2. ASSUME NEW oa \in OsArches, Merge(d.versions, v).artifacts[oa] # None PROVE HasVersion(c, v)
    <3> DEFINE s == [version |-> v, osArch |-> oa]
    <3>1. s \in Slot /\ s.version = v /\ s.osArch = oa
      BY DEF Slot
    <3> HIDE DEF s
    <3> QED
      BY <1>1, <2>2, <3>1 DEF HasVersion
  <2> QED
    BY <2>1, <2>2
<1> QED
  BY <1>1, <1>2 DEF c

\* UpsertAll of one artifact.
With(c, art, now) ==
    [ updated |-> now,
      created |-> [ w \in Versions |->
        IF ~HasVersion(c, w) /\ art.key.slot.version = w THEN now ELSE c.created[w] ],
      arts    |-> [ s \in Slot |-> IF art.key.slot = s THEN art ELSE c.arts[s] ] ]

LEMMA UpsertOne ==
    ASSUME NEW c, NEW art, NEW now \in Nat
    PROVE  UpsertAll(c, <<art>>, now) = With(c, art, now)
<1> DEFINE u == UpsertAll(c, <<art>>, now)
<1>1. Landed(<<art>>) = {art}
  BY DEF Landed
<1>2. /\ u = [updated |-> now, created |-> u.created, arts |-> u.arts]
      /\ u.created = [ v \in Versions |->
              IF ~HasVersion(c, v) /\ \E a \in Landed(<<art>>) : a.key.slot.version = v
              THEN now ELSE c.created[v] ]
      /\ u.arts = [ s \in Slot |-> IF LandsIn(<<art>>, s)
                                   THEN CHOOSE a \in Landed(<<art>>) : a.key.slot = s
                                   ELSE c.arts[s] ]
  BY DEF UpsertAll
<1> HIDE DEF u
<1>3. \A s : LandsIn(<<art>>, s) <=> art.key.slot = s
  BY <1>1 DEF LandsIn
<1>4. ASSUME NEW v \in Versions
      PROVE  u.created[v] = IF ~HasVersion(c, v) /\ art.key.slot.version = v
                            THEN now ELSE c.created[v]
  <2>1. (\E a \in Landed(<<art>>) : a.key.slot.version = v) <=> art.key.slot.version = v
    BY <1>1
  <2>2. u.created[v] = IF ~HasVersion(c, v) /\ \E a \in Landed(<<art>>) : a.key.slot.version = v
                       THEN now ELSE c.created[v]
    BY <1>2
  <2>3. CASE HasVersion(c, v)
    BY <2>2, <2>3
  <2>4. CASE ~HasVersion(c, v)
    BY <2>1, <2>2, <2>4
  <2> QED
    BY <2>3, <2>4
<1>5. ASSUME NEW s \in Slot PROVE u.arts[s] = IF art.key.slot = s THEN art ELSE c.arts[s]
  <2>1. CASE art.key.slot = s
    <3>1. u.arts[s] = CHOOSE a \in Landed(<<art>>) : a.key.slot = s
      BY <1>2, <1>3, <2>1
    <3>2. \E a \in Landed(<<art>>) : a.key.slot = s
      BY <1>1, <2>1
    <3>3. u.arts[s] \in Landed(<<art>>)
      BY <3>1, <3>2
    <3> QED
      BY <1>1, <2>1, <3>3
  <2>2. CASE art.key.slot # s
    BY <1>2, <1>3, <2>2
  <2> QED
    BY <2>1, <2>2
<1>6. u.created = [ w \in Versions |->
        IF ~HasVersion(c, w) /\ art.key.slot.version = w THEN now ELSE c.created[w] ]
  <2>1. u.created = [w \in Versions |-> u.created[w]]
    BY <1>2
  <2> QED
    BY <1>4, <2>1
<1>7. u.arts = [s \in Slot |-> IF art.key.slot = s THEN art ELSE c.arts[s]]
  <2>1. u.arts = [s \in Slot |-> u.arts[s]]
    BY <1>2
  <2> QED
    BY <1>5, <2>1
<1> QED
  BY <1>2, <1>6, <1>7 DEF u, With

\* Upsert makes the change to the catalogue that publish means it to make.
LEMMA UpsertCatalogue ==
    ASSUME NEW d, d.versions \in Lists, Tidy(d.versions),
           NEW art \in Artifact, NEW now \in Nat, now # 0,
           NEW e, e.updated = now, e.versions \in Upsert(d.versions, art, now)
    PROVE  /\ Tidy(e.versions)
           /\ CatalogueOf(e) = UpsertAll(CatalogueOf(d), <<art>>, now)
<1> DEFINE list == d.versions
           new == e.versions
           v == art.key.slot.version
           oa == art.key.slot.osArch
           c == CatalogueOf(d)
           u == UpsertAll(c, <<art>>, now)
<1>1. Once(list)
  BY CanonicalOnce DEF Tidy
<1>2. /\ new \in Lists /\ Canonical(new)
      /\ \A w : InList(new, w) <=> InList(list, w) \/ w = v
      /\ \A w \in Versions \ {v} : Merge(new, w) = Merge(list, w)
      /\ \A o \in OsArches \ {oa} : Merge(new, v).artifacts[o] = Merge(list, v).artifacts[o]
      /\ Merge(new, v).artifacts[oa] = art
      /\ Merge(new, v).created = IF InList(list, v) THEN Merge(list, v).created ELSE now
  BY <1>1, Upserted
<1>3. /\ art # None /\ v \in Versions /\ oa \in OsArches
      /\ art.key.slot = [version |-> v, osArch |-> oa]
  BY ArtifactFacts
<1>4. Tidy(new)
  <2> SUFFICES ASSUME NEW i \in DOMAIN new PROVE new[i].artifacts # NoArtifacts
    BY <1>2 DEF Tidy
  <2> DEFINE w == new[i].version
  <2>1. w \in Versions /\ InList(new, w) /\ new[i] = Merge(new, w)
    BY <1>2, ListFacts, CanonicalOnce, MergedOnce DEF InList
  <2>2. \E o \in OsArches : Merge(new, w).artifacts[o] # None
    <3>1. CASE w = v
      BY <1>2, <1>3, <3>1
    <3>2. CASE w # v
      <4>1. \E o \in OsArches : Merge(list, w).artifacts[o] # None
        BY <1>2, <2>1, <3>2, TidyVersions
      <4> QED
        BY <1>2, <2>1, <3>2, <4>1
    <3> QED
      BY <3>1, <3>2
  <2> QED
    BY <2>1, <2>2 DEF NoArtifacts
<1>5. /\ u = [updated |-> now, created |-> u.created, arts |-> u.arts]
      /\ u.created = [w \in Versions |-> u.created[w]]
      /\ u.arts = [s \in Slot |-> u.arts[s]]
      /\ \A w \in Versions :
           u.created[w] = IF ~HasVersion(c, w) /\ v = w THEN now ELSE c.created[w]
      /\ \A s \in Slot : u.arts[s] = IF art.key.slot = s THEN art ELSE c.arts[s]
  <2> HIDE DEF c
  <2>1. u = With(c, art, now)
    BY UpsertOne DEF u
  <2> HIDE DEF u
  <2> QED
    BY <2>1 DEF With
<1>6. /\ c.created = [w \in Versions |-> Merge(list, w).created]
      /\ c.arts = [s \in Slot |-> Merge(list, s.version).artifacts[s.osArch]]
      /\ \A w \in Versions : HasVersion(c, w) <=> InList(list, w)
  <2> HIDE DEF c
  <2>1. /\ c.created = [w \in Versions |-> Merge(list, w).created]
        /\ c.arts = [s \in Slot |-> Merge(list, s.version).artifacts[s.osArch]]
        /\ \A w \in Versions :
             HasVersion(c, w) <=> \E o \in OsArches : Merge(list, w).artifacts[o] # None
    BY CatalogueFacts DEF c
  <2> QED
    BY <2>1, TidyVersions
<1>7. /\ CatalogueOf(e) = [ updated |-> now,
                            created |-> [w \in Versions |-> Merge(new, w).created],
                            arts |-> [s \in Slot |-> Merge(new, s.version).artifacts[s.osArch]] ]
  BY DEF CatalogueOf
<1> HIDE DEF c, u, v, oa, list, new
<1>8. ASSUME NEW w \in Versions PROVE u.created[w] = Merge(new, w).created
  <2>1. u.created[w] = IF ~HasVersion(c, w) /\ v = w THEN now ELSE c.created[w]
    BY <1>5
  <2>2. (HasVersion(c, w) <=> InList(list, w)) /\ c.created[w] = Merge(list, w).created
    BY <1>6
  <2>3. CASE w = v
    BY <1>2, <2>1, <2>2, <2>3
  <2>4. CASE w # v
    BY <1>2, <2>1, <2>2, <2>4
  <2> QED
    BY <2>3, <2>4
<1>9. ASSUME NEW s \in Slot PROVE u.arts[s] = Merge(new, s.version).artifacts[s.osArch]
  <2>1. s = [version |-> s.version, osArch |-> s.osArch] /\ s.version \in Versions /\ s.osArch \in OsArches
    BY DEF Slot
  <2>2. CASE s = art.key.slot
    <3>1. s.version = v /\ s.osArch = oa
      BY <2>2 DEF v, oa
    <3>2. u.arts[s] = art
      BY <1>5, <2>2
    <3> QED
      BY <1>2, <3>1, <3>2
  <2>3. CASE s # art.key.slot
    <3>1. u.arts[s] = Merge(list, s.version).artifacts[s.osArch]
      BY <1>5, <1>6, <2>3
    <3>2. s.version # v \/ s.osArch # oa
      BY <1>3, <2>1, <2>3
    <3> QED
      BY <1>2, <2>1, <3>1, <3>2
  <2> QED
    BY <2>2, <2>3
<1>10. u.created = [w \in Versions |-> Merge(new, w).created]
  BY <1>5, <1>8
<1>11. u.arts = [s \in Slot |-> Merge(new, s.version).artifacts[s.osArch]]
  BY <1>5, <1>9
<1> QED
  BY <1>4, <1>5, <1>7, <1>10, <1>11 DEF c, u, new

LEMMA LandedAppend ==
    ASSUME NEW staged \in Seq(Artifact), NEW art \in Artifact
    PROVE  /\ Landed(Append(staged, art)) =
                { a \in Landed(staged) : a.key.slot # art.key.slot } \cup {art}
           /\ \A a, b \in Landed(staged) : a.key.slot = b.key.slot => a = b
<1> DEFINE n == Len(staged)
           more == Append(staged, art)
<1>1. /\ n \in Nat /\ DOMAIN staged = 1..n
      /\ DOMAIN more = 1..n + 1
      /\ \A i \in 1..n : more[i] = staged[i]
      /\ more[n + 1] = art
  OBVIOUS
<1> HIDE DEF n, more
<1>2. ASSUME NEW a \in Landed(more)
      PROVE  a = art \/ (a \in Landed(staged) /\ a.key.slot # art.key.slot)
  <2>1. PICK i \in 1..n + 1 :
          /\ a = more[i]
          /\ \A k \in 1..n + 1 : k > i => more[k].key.slot # more[i].key.slot
    BY <1>1 DEF Landed
  <2>2. CASE i = n + 1
    BY <1>1, <2>1, <2>2
  <2>3. CASE i # n + 1
    <3>1. i \in 1..n /\ n + 1 \in 1..n + 1 /\ n + 1 > i
      BY <1>1, <2>3
    <3>2. a.key.slot # art.key.slot
      BY <1>1, <2>1, <3>1
    <3>3. a = staged[i] /\ \A k \in 1..n : k > i => staged[k].key.slot # staged[i].key.slot
      BY <1>1, <2>1, <3>1
    <3>4. a \in Landed(staged)
      BY <1>1, <3>1, <3>3 DEF Landed
    <3> QED
      BY <3>2, <3>4
  <2> QED
    BY <2>2, <2>3
<1>3. art \in Landed(more)
  <2>1. n + 1 \in DOMAIN more /\ \A k \in DOMAIN more : ~(k > n + 1)
    BY <1>1
  <2> QED
    BY <1>1, <2>1 DEF Landed
<1>4. ASSUME NEW a \in Landed(staged), a.key.slot # art.key.slot PROVE a \in Landed(more)
  <2>1. PICK i \in 1..n :
          /\ a = staged[i]
          /\ \A k \in 1..n : k > i => staged[k].key.slot # staged[i].key.slot
    BY <1>1 DEF Landed
  <2>2. i \in DOMAIN more /\ more[i] = a
    BY <1>1, <2>1
  <2>3. \A k \in 1..n + 1 : k > i => more[k].key.slot # more[i].key.slot
    <3>1. \A k \in 1..n + 1 : k \in 1..n \/ k = n + 1
      BY <1>1
    <3> QED
      BY <1>1, <1>4, <2>1, <2>2, <3>1
  <2> QED
    BY <1>1, <2>2, <2>3 DEF Landed
<1>5. ASSUME NEW a \in Landed(staged), NEW b \in Landed(staged), a.key.slot = b.key.slot
      PROVE  a = b
  <2>1. PICK i \in 1..n :
          a = staged[i] /\ \A k \in 1..n : k > i => staged[k].key.slot # staged[i].key.slot
    BY <1>1 DEF Landed
  <2>2. PICK j \in 1..n :
          b = staged[j] /\ \A k \in 1..n : k > j => staged[k].key.slot # staged[j].key.slot
    BY <1>1 DEF Landed
  <2>3. ~(i > j) /\ ~(j > i)
    BY <1>5, <2>1, <2>2
  <2>4. i = j
    BY <2>3, <1>1
  <2> QED
    BY <2>1, <2>2, <2>4
<1> QED
  BY <1>2, <1>3, <1>4, <1>5 DEF more

\* A loop of Upserts at one time is an UpsertAll.
LEMMA UpsertMore ==
    ASSUME NEW c, NEW staged \in Seq(Artifact), NEW art \in Artifact, NEW now \in Nat
    PROVE  UpsertAll(UpsertAll(c, staged, now), <<art>>, now) = UpsertAll(c, Append(staged, art), now)
<1> DEFINE more == Append(staged, art)
           u == UpsertAll(c, staged, now)
           one == UpsertAll(u, <<art>>, now)
           all == UpsertAll(c, more, now)
<1>1. /\ Landed(more) = { a \in Landed(staged) : a.key.slot # art.key.slot } \cup {art}
      /\ \A a, b \in Landed(staged) : a.key.slot = b.key.slot => a = b
  BY LandedAppend
<1>2. /\ u.created = [ v \in Versions |->
              IF ~HasVersion(c, v) /\ \E a \in Landed(staged) : a.key.slot.version = v
              THEN now ELSE c.created[v] ]
      /\ u.arts = [ s \in Slot |-> IF LandsIn(staged, s)
                                   THEN CHOOSE a \in Landed(staged) : a.key.slot = s
                                   ELSE c.arts[s] ]
  BY DEF UpsertAll
<1>3. /\ one = [updated |-> now, created |-> one.created, arts |-> one.arts]
      /\ one.created = [v \in Versions |-> one.created[v]]
      /\ one.arts = [s \in Slot |-> one.arts[s]]
      /\ \A v \in Versions :
           one.created[v] = IF ~HasVersion(u, v) /\ art.key.slot.version = v
                            THEN now ELSE u.created[v]
      /\ \A s \in Slot : one.arts[s] = IF art.key.slot = s THEN art ELSE u.arts[s]
  <2> HIDE DEF u
  <2>1. one = With(u, art, now)
    BY UpsertOne DEF one
  <2> HIDE DEF one
  <2> QED
    BY <2>1 DEF With
<1>4. /\ all = [updated |-> now, created |-> all.created, arts |-> all.arts]
      /\ all.created = [ v \in Versions |->
              IF ~HasVersion(c, v) /\ \E a \in Landed(more) : a.key.slot.version = v
              THEN now ELSE c.created[v] ]
      /\ all.arts = [ s \in Slot |-> IF LandsIn(more, s)
                                     THEN CHOOSE a \in Landed(more) : a.key.slot = s
                                     ELSE c.arts[s] ]
  BY DEF UpsertAll
<1> HIDE DEF u, one, all, more
<1>5. ASSUME NEW s \in Slot
      PROVE  /\ LandsIn(staged, s) => u.arts[s] \in Landed(staged) /\ u.arts[s].key.slot = s
             /\ ~LandsIn(staged, s) => u.arts[s] = c.arts[s]
  <2>1. CASE LandsIn(staged, s)
    <3>1. \E a \in Landed(staged) : a.key.slot = s
      BY <2>1 DEF LandsIn
    <3> QED
      BY <1>2, <2>1, <3>1
  <2>2. CASE ~LandsIn(staged, s)
    BY <1>2, <2>2
  <2> QED
    BY <2>1, <2>2
<1>6. \A a \in Landed(staged) : a \in Artifact /\ a # None /\ a.key.slot \in Slot
  <2>1. \A a \in Landed(staged) : a \in Artifact
    BY DEF Landed
  <2> QED
    BY <2>1, ArtifactFacts
<1>7. ASSUME NEW v \in Versions
      PROVE  HasVersion(u, v) <=>
               HasVersion(c, v) \/ \E a \in Landed(staged) : a.key.slot.version = v
  <2>1. ASSUME HasVersion(u, v)
        PROVE  HasVersion(c, v) \/ \E a \in Landed(staged) : a.key.slot.version = v
    BY <1>5, <2>1 DEF HasVersion
  <2>2. ASSUME NEW a \in Landed(staged), a.key.slot.version = v PROVE HasVersion(u, v)
    BY <1>5, <1>6, <2>2 DEF HasVersion, LandsIn
  <2>3. ASSUME HasVersion(c, v) PROVE HasVersion(u, v)
    BY <1>5, <1>6, <2>3 DEF HasVersion
  <2> QED
    BY <2>1, <2>2, <2>3
<1>8. ASSUME NEW v \in Versions PROVE one.created[v] = all.created[v]
  <2>1. (\E a \in Landed(more) : a.key.slot.version = v) <=>
          (\E a \in Landed(staged) : a.key.slot.version = v) \/ art.key.slot.version = v
    BY <1>1
  <2> QED
    BY <1>2, <1>3, <1>4, <1>7, <2>1
<1>9. ASSUME NEW s \in Slot PROVE one.arts[s] = all.arts[s]
  <2>1. CASE art.key.slot = s
    <3>1. art \in Landed(more) /\ \A a \in Landed(more) : a.key.slot = s => a = art
      BY <1>1, <2>1
    <3>2. all.arts[s] = art
      BY <1>4, <2>1, <3>1 DEF LandsIn
    <3>3. one.arts[s] = art
      BY <1>3, <2>1
    <3> QED
      BY <3>2, <3>3
  <2>2. CASE art.key.slot # s
    <3>1. one.arts[s] = u.arts[s]
      BY <1>3, <2>2
    <3>2. \A a : a.key.slot = s => (a \in Landed(more) <=> a \in Landed(staged))
      BY <1>1, <2>2
    <3>3. CASE LandsIn(staged, s)
      <4>1. u.arts[s] \in Landed(more) /\ u.arts[s].key.slot = s
        BY <1>5, <3>2, <3>3
      <4>2. \A a \in Landed(more) : a.key.slot = s => a = u.arts[s]
        BY <1>1, <1>5, <3>2, <3>3
      <4>3. all.arts[s] = u.arts[s]
        BY <1>4, <4>1, <4>2 DEF LandsIn
      <4> QED
        BY <3>1, <4>3
    <3>4. CASE ~LandsIn(staged, s)
      BY <1>4, <1>5, <3>1, <3>2, <3>4 DEF LandsIn
    <3> QED
      BY <3>3, <3>4
  <2> QED
    BY <2>1, <2>2
<1>10. all.created = [v \in Versions |-> all.created[v]] /\ all.arts = [s \in Slot |-> all.arts[s]]
  BY <1>4
<1>11. one.created = all.created
  BY <1>3, <1>8, <1>10
<1>12. one.arts = all.arts
  BY <1>3, <1>9, <1>10
<1> QED
  BY <1>3, <1>4, <1>11, <1>12 DEF one, all, u, more

---------------------------------------------------------------------------
(* Remove *)

LEMMA Dropped ==
    ASSUME NEW list \in Lists, NEW n \in DOMAIN list
    PROVE  LET new == Seqs!RemoveAt(list, n)
               v == list[n].version
           IN  /\ new \in Lists
               /\ new # list
               /\ DOMAIN new = 1..Len(list) - 1
               /\ \A i \in DOMAIN new : new[i] = IF i < n THEN list[i] ELSE list[i + 1]
<1> DEFINE new == Seqs!RemoveAt(list, n)
           front == SubSeq(list, 1, n - 1)
           back == SubSeq(list, n + 1, Len(list))
<1>1. /\ Len(list) \in Nat /\ DOMAIN list = 1..Len(list)
      /\ n \in 1..Len(list) /\ n - 1 \in Int /\ n + 1 \in Int
      /\ \A i \in DOMAIN list : list[i] \in Entry
  BY ListFacts
<1>2. /\ front \in Lists /\ Len(front) = n - 1
      /\ \A i \in 1..n - 1 : front[i] = list[i]
  <2>1. \A i \in 1..n - 1 : list[i] \in Entry
    BY <1>1
  <2>2. front \in Lists /\ Len(front) = n - 1
    BY <1>1, <2>1, SubSeqProperties DEF Lists
  <2>3. \A i \in 1..n - 1 : front[i] = list[i]
    BY <1>1
  <2> QED
    BY <2>2, <2>3
<1>3. /\ back \in Lists /\ Len(back) = Len(list) - n
      /\ \A i \in 1..Len(list) - n : back[i] = list[n + i]
  <2>1. \A i \in n + 1..Len(list) : list[i] \in Entry
    BY <1>1
  <2>2. back \in Lists /\ Len(back) = Len(list) - n
    BY <1>1, <2>1, SubSeqProperties DEF Lists
  <2>3. \A i \in 1..Len(list) - n : back[i] = list[n + i]
    BY <1>1
  <2> QED
    BY <2>2, <2>3
<1>4. new = front \o back
  BY DEF Seqs!RemoveAt
<1> HIDE DEF front, back, new
<1>5. /\ new \in Lists
      /\ Len(new) = Len(front) + Len(back)
      /\ \A i \in 1..Len(front) + Len(back) :
           new[i] = IF i <= Len(front) THEN front[i] ELSE back[i - Len(front)]
  BY <1>2, <1>3, <1>4, ConcatProperties DEF Lists
<1>6. Len(new) = Len(list) - 1
  BY <1>1, <1>2, <1>3, <1>5
<1>7. DOMAIN new = 1..Len(list) - 1 /\ new # list
  <2>1. DOMAIN new = 1..Len(new)
    BY <1>5, ListFacts
  <2>2. Len(list) \in Nat /\ Len(new) = Len(list) - 1
    BY <1>1, <1>6
  <2>3. \A k, l \in Int : l = k - 1 => l # k
    OBVIOUS
  <2>4. Len(new) # Len(list)
    BY <2>2, <2>3
  <2> QED
    BY <1>6, <2>1, <2>4
<1>8. ASSUME NEW i \in DOMAIN new PROVE new[i] = IF i < n THEN list[i] ELSE list[i + 1]
  <2>1. i \in 1..Len(list) - 1 /\ i \in 1..Len(front) + Len(back)
    BY <1>5, <1>6, <1>7
  <2>2. CASE i < n
    BY <1>1, <1>2, <1>5, <2>1, <2>2
  <2>3. CASE ~(i < n)
    <3>1. /\ ~(i <= Len(front))
          /\ i - Len(front) = i - (n - 1)
          /\ i - (n - 1) \in 1..Len(list) - n
          /\ n + (i - (n - 1)) = i + 1
      BY <1>1, <1>2, <2>1, <2>3
    <3> QED
      BY <1>3, <1>5, <2>1, <2>3, <3>1
  <2> QED
    BY <2>2, <2>3
<1> QED
  BY <1>5, <1>7, <1>8 DEF new

\* The other entries stay, in their order.
LEMMA DroppedKeeps ==
    ASSUME NEW list \in Lists, NEW n \in DOMAIN list
    PROVE  LET new == Seqs!RemoveAt(list, n)
               v == list[n].version
           IN  /\ \A i \in DOMAIN new : \E j \in DOMAIN list \ {n} : new[i] = list[j]
               /\ \A j \in DOMAIN list \ {n} : \E i \in DOMAIN new : new[i] = list[j]
               /\ \A w \in Versions \ {v} : Merge(new, w) = Merge(list, w)
               /\ Canonical(list) => Canonical(new)
<1> DEFINE new == Seqs!RemoveAt(list, n)
           v == list[n].version
           f == [i \in 1..Len(list) - 1 |-> IF i < n THEN i ELSE i + 1]
<1>1. /\ new \in Lists
      /\ DOMAIN new = 1..Len(list) - 1
      /\ \A i \in DOMAIN new : new[i] = IF i < n THEN list[i] ELSE list[i + 1]
  BY Dropped
<1>2. Len(list) \in Nat /\ DOMAIN list = 1..Len(list) /\ n \in 1..Len(list)
  BY ListFacts
<1> HIDE DEF new, v
<1>3. /\ \A i \in DOMAIN new : f[i] \in DOMAIN list \ {n} /\ list[f[i]] = new[i]
      /\ \A i, j \in DOMAIN new : i < j => f[i] < f[j]
  BY <1>1, <1>2
<1>4. \A j \in DOMAIN list \ {n} : \E i \in DOMAIN new : f[i] = j
  <2> SUFFICES ASSUME NEW j \in DOMAIN list \ {n} PROVE \E i \in DOMAIN new : f[i] = j
    OBVIOUS
  <2>1. CASE j < n
    <3>1. j \in 1..Len(list) - 1
      BY <1>2, <2>1
    <3> QED
      BY <1>1, <2>1, <3>1
  <2>2. CASE ~(j < n)
    <3>1. j - 1 \in 1..Len(list) - 1 /\ ~(j - 1 < n) /\ (j - 1) + 1 = j
      BY <1>2, <2>2
    <3> QED
      BY <1>1, <3>1
  <2> QED
    BY <2>1, <2>2
<1> HIDE DEF f
<1>5. ASSUME NEW w \in Versions \ {v} PROVE Merge(new, w) = Merge(list, w)
  <2>1. /\ \A i \in DOMAIN new : new[i].version = w => f[i] \in DOMAIN list /\ list[f[i]] = new[i]
        /\ \A j \in DOMAIN list : list[j].version = w =>
             \E i \in DOMAIN new : f[i] = j /\ new[i].version = w
        /\ \A i, j \in DOMAIN new : i < j => f[i] < f[j]
    BY <1>3, <1>4 DEF v
  <2> QED
    BY <1>1, <2>1, Moved
<1>6. ASSUME Canonical(list) PROVE Canonical(new)
  <2> SUFFICES ASSUME NEW i \in DOMAIN new, NEW j \in DOMAIN new, i < j
               PROVE  /\ new[i].version # new[j].version
                      /\ Parseable(new[j].version) =>
                           /\ Parseable(new[i].version)
                           /\ Rank[new[i].version] <= Rank[new[j].version]
    BY DEF Canonical
  <2>1. f[i] \in DOMAIN list /\ f[j] \in DOMAIN list /\ f[i] < f[j]
    BY <1>3
  <2>2. list[f[i]] = new[i] /\ list[f[j]] = new[j]
    BY <1>3
  <2>3. /\ list[f[i]].version # list[f[j]].version
        /\ Parseable(list[f[j]].version) =>
             /\ Parseable(list[f[i]].version)
             /\ Rank[list[f[i]].version] <= Rank[list[f[j]].version]
    BY <1>6, <2>1 DEF Canonical
  <2> QED
    BY <2>2, <2>3
<1>7. /\ \A i \in DOMAIN new : \E j \in DOMAIN list \ {n} : new[i] = list[j]
      /\ \A j \in DOMAIN list \ {n} : \E i \in DOMAIN new : new[i] = list[j]
  BY <1>3, <1>4
<1> QED
  BY <1>5, <1>6, <1>7 DEF new, v

\* The other case: one os-arch of an entry goes.
Clear(list, n, oa) == [list EXCEPT ![n].artifacts[oa] = None]

LEMMA Cleared ==
    ASSUME NEW list \in Lists, NEW n \in DOMAIN list, NEW oa \in OsArches
    PROVE  LET new == Clear(list, n, oa)
           IN  /\ new \in Lists
               /\ DOMAIN new = DOMAIN list
               /\ \A i \in DOMAIN list :
                    /\ new[i].version = list[i].version
                    /\ new[i].created = list[i].created
                    /\ i # n => new[i] = list[i]
                    /\ \A o \in OsArches \ {oa} : new[i].artifacts[o] = list[i].artifacts[o]
               /\ new[n].artifacts[oa] = None
               /\ \A w \in Versions : w # list[n].version => Merge(new, w) = Merge(list, w)
               /\ Canonical(list) => Canonical(new)
<1> DEFINE new == Clear(list, n, oa)
           changed == [list[n] EXCEPT !.artifacts = [@ EXCEPT ![oa] = None]]
<1>1. list[n] \in Entry /\ list[n].artifacts \in [OsArches -> Artifact \cup {None}]
  BY ListFacts
<1>2. /\ changed \in Entry
      /\ changed.version = list[n].version
      /\ changed.created = list[n].created
      /\ changed.artifacts[oa] = None
      /\ \A o \in OsArches \ {oa} : changed.artifacts[o] = list[n].artifacts[o]
  BY <1>1 DEF Entry
<1>3. new = [list EXCEPT ![n] = changed]
  BY DEF Clear
<1> HIDE DEF new, changed
<1>4. /\ new \in Lists /\ DOMAIN new = DOMAIN list /\ new[n] = changed
      /\ \A i \in DOMAIN list : i # n => new[i] = list[i]
  BY <1>2, <1>3 DEF Lists
<1>5. \A i \in DOMAIN list :
        /\ new[i].version = list[i].version
        /\ new[i].created = list[i].created
        /\ i # n => new[i] = list[i]
        /\ \A o \in OsArches \ {oa} : new[i].artifacts[o] = list[i].artifacts[o]
  BY <1>2, <1>4
<1>6. ASSUME NEW w \in Versions, w # list[n].version PROVE Merge(new, w) = Merge(list, w)
  <2> DEFINE f == [i \in DOMAIN new |-> i]
  <2>1. /\ \A i \in DOMAIN new : new[i].version = w => f[i] \in DOMAIN list /\ list[f[i]] = new[i]
        /\ \A j \in DOMAIN list : list[j].version = w =>
             \E i \in DOMAIN new : f[i] = j /\ new[i].version = w
        /\ \A i, j \in DOMAIN new : i < j => f[i] < f[j]
    BY <1>4, <1>5, <1>6
  <2> HIDE DEF f
  <2> QED
    BY <1>4, <2>1, Moved
<1>7. Canonical(list) => Canonical(new)
  BY <1>4, <1>5 DEF Canonical
<1> QED
  BY <1>2, <1>4, <1>5, <1>6, <1>7 DEF new

\* Remove leaves the list alone, drops the first entry of the version, or clears one
\* os-arch of it.
RemovesNothing(list, v, oa) ==
    \/ ~InList(list, v)
    \/ oa # None /\ list[findVersion(list, v)].artifacts[oa] = None

LEMMA RemoveCases ==
    ASSUME NEW list \in Lists, NEW v, NEW oa \in OsArches \cup {None}
    PROVE  LET new == RemoveEntry(list, v, oa)
               n == findVersion(list, v)
           IN  \/ RemovesNothing(list, v, oa) /\ new = list
               \/ /\ ~RemovesNothing(list, v, oa)
                  /\ n \in DOMAIN list /\ list[n].version = v
                  /\ oa = None \/ \A o \in OsArches \ {oa} : list[n].artifacts[o] = None
                  /\ new = Seqs!RemoveAt(list, n)
               \/ /\ ~RemovesNothing(list, v, oa)
                  /\ n \in DOMAIN list /\ list[n].version = v
                  /\ oa \in OsArches
                  /\ \E o \in OsArches \ {oa} : list[n].artifacts[o] # None
                  /\ new = Clear(list, n, oa)
<1> DEFINE n == findVersion(list, v)
<1>1. (n = 0 /\ ~InList(list, v)) \/ (n # 0 /\ InList(list, v) /\ n \in DOMAIN list /\ list[n].version = v)
  BY Found
<1>2. RemovesNothing(list, v, oa) <=> n = 0 \/ (oa # None /\ list[n].artifacts[oa] = None)
  BY <1>1 DEF RemovesNothing
<1>3. RemoveEntry(list, v, oa) =
        IF RemovesNothing(list, v, oa) THEN list
        ELSE IF oa = None \/ \A other \in OsArches \ {oa} : list[n].artifacts[other] = None
        THEN Seqs!RemoveAt(list, n)
        ELSE Clear(list, n, oa)
  BY <1>2 DEF RemoveEntry, Clear
<1> HIDE DEF n
<1>4. CASE RemovesNothing(list, v, oa)
  BY <1>3, <1>4
<1>5. CASE ~RemovesNothing(list, v, oa)
           /\ (oa = None \/ \A other \in OsArches \ {oa} : list[n].artifacts[other] = None)
  BY <1>1, <1>2, <1>3, <1>5 DEF n
<1>6. CASE ~RemovesNothing(list, v, oa)
           /\ ~(oa = None \/ \A other \in OsArches \ {oa} : list[n].artifacts[other] = None)
  BY <1>1, <1>2, <1>3, <1>6 DEF n
<1> QED
  BY <1>4, <1>5, <1>6

\* What Remove leaves, of any list.
LEMMA Removed ==
    ASSUME NEW list \in Lists, NEW v \in Versions, NEW oa \in OsArches \cup {None}
    PROVE  LET new == RemoveEntry(list, v, oa)
           IN  /\ new \in Lists
               /\ \A w \in Versions \ {v} : Merge(new, w) = Merge(list, w)
               /\ oa # None => \A o \in OsArches \ {oa} :
                    Merge(list, v).artifacts[o] # None => Merge(new, v).artifacts[o] # None
               /\ Canonical(list) => Canonical(new)
<1> DEFINE new == RemoveEntry(list, v, oa)
           n == findVersion(list, v)
<1>1. CASE new = list
  BY <1>1
<1>2. CASE /\ n \in DOMAIN list /\ list[n].version = v
           /\ oa = None \/ \A o \in OsArches \ {oa} : list[n].artifacts[o] = None
           /\ new = Seqs!RemoveAt(list, n)
  <2> HIDE DEF new, n
  <2>1. new \in Lists
    BY <1>2, Dropped
  <2>2. /\ \A w \in Versions \ {v} : Merge(new, w) = Merge(list, w)
        /\ Canonical(list) => Canonical(new)
        /\ \A j \in DOMAIN list \ {n} : \E i \in DOMAIN new : new[i] = list[j]
    BY <1>2, DroppedKeeps
  <2>3. ASSUME oa # None, NEW o \in OsArches \ {oa}, Merge(list, v).artifacts[o] # None
        PROVE  Merge(new, v).artifacts[o] # None
    <3>1. PICK j \in DOMAIN list : list[j].version = v /\ list[j].artifacts[o] # None
      BY <2>3, HasArt
    <3>2. j # n
      BY <1>2, <2>3, <3>1
    <3>3. PICK i \in DOMAIN new : new[i] = list[j]
      BY <2>2, <3>2
    <3> QED
      BY <2>1, <3>1, <3>3, HasArt
  <2> QED
    BY <2>1, <2>2, <2>3 DEF new
<1>3. CASE /\ n \in DOMAIN list /\ list[n].version = v
           /\ oa \in OsArches
           /\ new = Clear(list, n, oa)
  <2> HIDE DEF new, n
  <2>1. /\ new \in Lists
        /\ DOMAIN new = DOMAIN list
        /\ \A i \in DOMAIN list :
             /\ new[i].version = list[i].version
             /\ \A o \in OsArches \ {oa} : new[i].artifacts[o] = list[i].artifacts[o]
        /\ \A w \in Versions : w # list[n].version => Merge(new, w) = Merge(list, w)
        /\ Canonical(list) => Canonical(new)
    BY <1>3, Cleared
  <2>2. ASSUME NEW o \in OsArches \ {oa}, Merge(list, v).artifacts[o] # None
        PROVE  Merge(new, v).artifacts[o] # None
    BY <2>1, <2>2, HasArt
  <2> QED
    BY <1>3, <2>1, <2>2 DEF new
<1> QED
  BY <1>1, <1>2, <1>3, RemoveCases

\* And of a list in which each version is there once.
LEMMA RemovedOnce ==
    ASSUME NEW list \in Lists, Once(list), NEW v \in Versions, NEW oa \in OsArches \cup {None}
    PROVE  LET new == RemoveEntry(list, v, oa)
           IN  /\ \A o \in OsArches :
                    Merge(new, v).artifacts[o] =
                      IF oa \in {None, o} THEN None ELSE Merge(list, v).artifacts[o]
               /\ InList(new, v) => Merge(new, v).created = Merge(list, v).created
               /\ ~RemovesNothing(list, v, oa) => new # list
<1> DEFINE new == RemoveEntry(list, v, oa)
           n == findVersion(list, v)
<1>1. CASE RemovesNothing(list, v, oa) /\ new = list
  <2>1. CASE ~InList(list, v)
    <3>1. \A o \in OsArches : Merge(list, v).artifacts[o] = None
      BY <2>1, HasArt DEF InList
    <3> QED
      BY <1>1, <3>1
  <2>2. CASE oa # None /\ InList(list, v) /\ list[n].artifacts[oa] = None
    <3>1. n \in DOMAIN list /\ list[n].version = v
      BY <2>2, Found
    <3>2. Merge(list, v) = list[n]
      BY <3>1, MergedOnce
    <3> QED
      BY <1>1, <2>2, <3>2
  <2> QED
    BY <1>1, <2>1, <2>2 DEF RemovesNothing
<1>2. CASE /\ ~RemovesNothing(list, v, oa)
           /\ n \in DOMAIN list /\ list[n].version = v
           /\ oa = None \/ \A o \in OsArches \ {oa} : list[n].artifacts[o] = None
           /\ new = Seqs!RemoveAt(list, n)
  <2>1. Merge(list, v) = list[n]
    BY <1>2, MergedOnce
  <2> HIDE DEF new, n
  <2>2. new \in Lists /\ new # list
    BY <1>2, Dropped
  <2>3. \A i \in DOMAIN new : \E j \in DOMAIN list \ {n} : new[i] = list[j]
    BY <1>2, DroppedKeeps
  <2>4. ~InList(new, v)
    BY <1>2, <2>3 DEF InList, Once
  <2>5. \A o \in OsArches : Merge(new, v).artifacts[o] = None
    BY <2>2, <2>4, HasArt DEF InList
  <2>6. \A o \in OsArches : oa \in {None, o} \/ Merge(list, v).artifacts[o] = None
    BY <1>2, <2>1
  <2> QED
    BY <2>2, <2>4, <2>5, <2>6 DEF new
<1>3. CASE /\ ~RemovesNothing(list, v, oa)
           /\ n \in DOMAIN list /\ list[n].version = v
           /\ oa \in OsArches
           /\ new = Clear(list, n, oa)
  <2>1. Merge(list, v) = list[n]
    BY <1>3, MergedOnce
  <2>2. oa # None
    BY <1>3, IndexDocAssumption
  <2>3. list[n].artifacts[oa] # None
    BY <1>3, <2>2 DEF RemovesNothing
  <2> HIDE DEF new, n
  <2>4. /\ new \in Lists
        /\ DOMAIN new = DOMAIN list
        /\ \A i \in DOMAIN list :
             /\ new[i].version = list[i].version
             /\ new[i].created = list[i].created
             /\ \A o \in OsArches \ {oa} : new[i].artifacts[o] = list[i].artifacts[o]
        /\ new[n].artifacts[oa] = None
    BY <1>3, Cleared
  <2>5. Once(new)
    BY <2>4 DEF Once
  <2>6. Merge(new, v) = new[n]
    BY <1>3, <2>4, <2>5, MergedOnce
  <2>7. ASSUME NEW o \in OsArches
        PROVE  new[n].artifacts[o] = IF oa \in {None, o} THEN None ELSE list[n].artifacts[o]
    <3>1. CASE o = oa
      BY <2>4, <3>1
    <3>2. CASE o # oa
      BY <1>3, <2>2, <2>4, <3>2
    <3> QED
      BY <3>1, <3>2
  <2>8. new # list
    BY <2>3, <2>4
  <2> QED
    BY <1>3, <2>1, <2>4, <2>6, <2>7, <2>8 DEF new
<1> QED
  BY <1>1, <1>2, <1>3, RemoveCases

LEMMA RemovedTidy ==
    ASSUME NEW list \in Lists, Tidy(list), NEW v \in Versions, NEW oa \in OsArches \cup {None}
    PROVE  Tidy(RemoveEntry(list, v, oa))
<1> DEFINE new == RemoveEntry(list, v, oa)
           n == findVersion(list, v)
<1>1. Canonical(new)
  BY Removed DEF Tidy
<1>2. CASE new = list
  BY <1>2
<1>3. CASE n \in DOMAIN list /\ new = Seqs!RemoveAt(list, n)
  <2>1. \A i \in DOMAIN new : \E j \in DOMAIN list : new[i] = list[j]
    BY <1>3, DroppedKeeps
  <2> HIDE DEF new
  <2> QED
    BY <1>1, <2>1 DEF Tidy, new
<1>4. CASE /\ n \in DOMAIN list
           /\ oa \in OsArches
           /\ \E o \in OsArches \ {oa} : list[n].artifacts[o] # None
           /\ new = Clear(list, n, oa)
  <2> HIDE DEF new, n
  <2>1. /\ DOMAIN new = DOMAIN list
        /\ \A i \in DOMAIN list :
             /\ i # n => new[i] = list[i]
             /\ \A o \in OsArches \ {oa} : new[i].artifacts[o] = list[i].artifacts[o]
    <3>1. n \in DOMAIN list /\ oa \in OsArches /\ new = Clear(list, n, oa)
      BY <1>4
    <3> QED
      BY <3>1, Cleared
  <2>2. new[n].artifacts # NoArtifacts
    BY <1>4, <2>1 DEF NoArtifacts
  <2>3. \A i \in DOMAIN new : new[i].artifacts # NoArtifacts
    BY <2>1, <2>2 DEF Tidy
  <2> QED
    BY <1>1, <2>3 DEF Tidy, new
<1> QED
  BY <1>2, <1>3, <1>4, RemoveCases

\* The slots that a Remove names.
NamedBy(v, oa) == { s \in Slot : s.version = v /\ oa \in {None, s.osArch} }

\* Remove makes the change to the catalogue that rm means it to make.
LEMMA RemoveCatalogue ==
    ASSUME NEW d, d.versions \in Lists, Tidy(d.versions),
           NEW v \in Versions, NEW oa \in OsArches \cup {None}, NEW now \in Nat,
           NEW e, e.versions = RemoveEntry(d.versions, v, oa),
           e.updated = IF e.versions = d.versions THEN d.updated ELSE now
    PROVE  CatalogueOf(e) = Remove(CatalogueOf(d), NamedBy(v, oa), now)
<1> DEFINE list == d.versions
           new == e.versions
           c == CatalogueOf(d)
           b == CatalogueOf(e)
           slots == NamedBy(v, oa)
           kept == [s \in Slot |-> IF s \in slots THEN None ELSE c.arts[s]]
<1>1. Once(list)
  BY CanonicalOnce DEF Tidy
<1>2. new \in Lists /\ Tidy(new) /\ \A w \in Versions \ {v} : Merge(new, w) = Merge(list, w)
  BY Removed, RemovedTidy
<1>3. /\ \A o \in OsArches :
           Merge(new, v).artifacts[o] = IF oa \in {None, o} THEN None ELSE Merge(list, v).artifacts[o]
      /\ InList(new, v) => Merge(new, v).created = Merge(list, v).created
      /\ ~RemovesNothing(list, v, oa) => new # list
  BY <1>1, RemovedOnce
<1>4. /\ c = [updated |-> d.updated, created |-> c.created, arts |-> c.arts]
      /\ c.created = [w \in Versions |-> Merge(list, w).created]
      /\ c.arts = [s \in Slot |-> Merge(list, s.version).artifacts[s.osArch]]
  BY CatalogueFacts
<1>5. /\ b = [updated |-> e.updated, created |-> b.created, arts |-> b.arts]
      /\ b.created = [w \in Versions |-> Merge(new, w).created]
      /\ b.arts = [s \in Slot |-> Merge(new, s.version).artifacts[s.osArch]]
  BY <1>2, CatalogueFacts
<1>6. \A s \in Slot : s.version \in Versions /\ s.osArch \in OsArches
  BY DEF Slot
<1>7. \A s \in slots : s \in Slot /\ s.version = v /\ oa \in {None, s.osArch}
  BY DEF NamedBy
<1>8. \A s \in Slot \ slots : s.version # v \/ oa \notin {None, s.osArch}
  BY DEF NamedBy
<1>9. RemovesNothing(list, v, oa) <=> \A s \in slots : c.arts[s] = None
  <2>1. ASSUME RemovesNothing(list, v, oa), NEW s \in slots PROVE c.arts[s] = None
    <3>1. new = list
      BY <2>1, RemoveCases
    <3>2. Merge(new, v).artifacts[s.osArch] = None
      BY <1>3, <1>6, <1>7
    <3> QED
      BY <1>4, <1>7, <3>1, <3>2
  <2>2. ASSUME ~RemovesNothing(list, v, oa) PROVE \E s \in slots : c.arts[s] # None
    <3>1. InList(list, v)
      BY <2>2 DEF RemovesNothing
    <3>2. PICK o \in OsArches : oa \in {None, o} /\ Merge(list, v).artifacts[o] # None
      <4>1. CASE oa = None
        BY <3>1, <4>1, TidyVersions
      <4>2. CASE oa # None
        <5> DEFINE n == findVersion(list, v)
        <5>1. n \in DOMAIN list /\ list[n].version = v /\ list[n].artifacts[oa] # None
          BY <2>2, <3>1, <4>2, Found DEF RemovesNothing
        <5> QED
          BY <4>2, <5>1, HasArt
      <4> QED
        BY <4>1, <4>2
    <3> DEFINE s == [version |-> v, osArch |-> o]
    <3>3. s \in Slot /\ s.version = v /\ s.osArch = o
      BY DEF Slot
    <3> HIDE DEF s, c, list
    <3>4. s \in slots
      BY <3>2, <3>3 DEF NamedBy
    <3> QED
      BY <1>4, <3>2, <3>3, <3>4
  <2> QED
    BY <2>1, <2>2
<1> HIDE DEF list, new, c, b, slots
<1>10. CASE RemovesNothing(list, v, oa)
  <2>1. new = list
    BY <1>10, RemoveCases DEF new, list
  <2>2. e.updated = d.updated
    BY <2>1 DEF new, list
  <2>3. b = c
    BY <1>4, <1>5, <2>1, <2>2
  <2>4. Remove(c, slots, now) = c
    BY <1>9, <1>10 DEF Remove
  <2> QED
    BY <2>3, <2>4 DEF b, c, slots
<1>11. CASE ~RemovesNothing(list, v, oa)
  <2>1. e.updated = now
    BY <1>3, <1>11 DEF new, list
  <2>2. Remove(c, slots, now) =
          [ updated |-> now,
            created |-> [ w \in Versions |-> IF \E s \in Slot : s.version = w /\ kept[s] # None
                                             THEN c.created[w] ELSE 0 ],
            arts    |-> kept ]
    BY <1>9, <1>11 DEF Remove
  <2>3. ASSUME NEW s \in Slot PROVE kept[s] = Merge(new, s.version).artifacts[s.osArch]
    <3>1. CASE s \in slots
      BY <1>3, <1>6, <1>7, <3>1
    <3>2. CASE s \notin slots
      <4>1. kept[s] = Merge(list, s.version).artifacts[s.osArch]
        BY <1>4, <3>2
      <4> QED
        BY <1>2, <1>3, <1>6, <1>8, <3>2, <4>1
    <3> QED
      BY <3>1, <3>2
  <2>4. b.arts = kept
    BY <1>5, <2>3
  <2> HIDE DEF kept
  <2>5. ASSUME NEW w \in Versions
        PROVE  Merge(new, w).created = IF \E s \in Slot : s.version = w /\ kept[s] # None
                                       THEN c.created[w] ELSE 0
    <3>1. (\E s \in Slot : s.version = w /\ kept[s] # None) <=> InList(new, w)
      <4>1. ASSUME NEW s \in Slot, s.version = w, kept[s] # None PROVE InList(new, w)
        BY <1>2, <1>6, <2>3, <4>1, TidyVersions
      <4>2. ASSUME InList(new, w) PROVE \E s \in Slot : s.version = w /\ kept[s] # None
        <5>1. PICK o \in OsArches : Merge(new, w).artifacts[o] # None
          BY <1>2, <4>2, TidyVersions
        <5> DEFINE s == [version |-> w, osArch |-> o]
        <5>2. s \in Slot /\ s.version = w /\ s.osArch = o
          BY DEF Slot
        <5> HIDE DEF s
        <5> QED
          BY <2>3, <5>1, <5>2
      <4> QED
        BY <4>1, <4>2
    <3>2. CASE InList(new, w)
      <4>1. Merge(new, w).created = Merge(list, w).created
        BY <1>2, <1>3, <3>2
      <4> QED
        BY <1>4, <3>1, <3>2, <4>1
    <3>3. CASE ~InList(new, w)
      <4>1. Merge(new, w).created = 0
        BY <1>2, <3>3, TimeIs DEF InList, NoTime
      <4> QED
        BY <3>1, <3>3, <4>1
    <3> QED
      BY <3>2, <3>3
  <2>6. b.created = [ w \in Versions |-> IF \E s \in Slot : s.version = w /\ kept[s] # None
                                         THEN c.created[w] ELSE 0 ]
    BY <1>5, <2>5
  <2> QED
    BY <1>5, <2>1, <2>2, <2>4, <2>6 DEF b, c, slots
<1> QED
  BY <1>10, <1>11

---------------------------------------------------------------------------
(* Every artifact stays under its version and os-arch *)

Placed(list) ==
    \A i \in DOMAIN list : \A oa \in OsArches :
      list[i].artifacts[oa] # None =>
        list[i].artifacts[oa].key.slot = [version |-> list[i].version, osArch |-> oa]

LEMMA IsListFacts ==
    ASSUME NEW list
    PROVE  IsList(list) <=> list \in Lists /\ Placed(list)
BY DEF IsList, Lists, Placed

LEMMA SortedPlaced ==
    ASSUME NEW list, IsList(list), NEW new \in SortVersions(list)
    PROVE  IsList(new)
<1>1. list \in Lists /\ Placed(list)
  BY IsListFacts
<1>2. new \in Lists /\ \A i \in DOMAIN new : new[i] = Merge(list, new[i].version)
  BY <1>1, Sorted
<1>3. ASSUME NEW i \in DOMAIN new, NEW oa \in OsArches, new[i].artifacts[oa] # None
      PROVE  new[i].artifacts[oa].key.slot = [version |-> new[i].version, osArch |-> oa]
  <2> DEFINE a == new[i].artifacts[oa]
             v == new[i].version
  <2>1. a = Merge(list, v).artifacts[oa]
    BY <1>2
  <2> HIDE DEF a, v
  <2>2. LastArt(list, v, oa, a)
    BY <1>1, <1>3, <2>1, MergedArt DEF a
  <2>3. PICK k \in DOMAIN list : list[k].version = v /\ list[k].artifacts[oa] = a /\ a # None
    BY <2>2 DEF LastArt
  <2>4. a.key.slot = [version |-> v, osArch |-> oa]
    BY <1>1, <2>3 DEF Placed
  <2> QED
    BY <2>4 DEF a, v
<1> QED
  BY <1>2, <1>3, IsListFacts DEF Placed

LEMMA UpsertedPlaced ==
    ASSUME NEW list, IsList(list), NEW art \in Artifact, NEW now \in Nat,
           NEW new \in Upsert(list, art, now)
    PROVE  IsList(new)
<1> DEFINE put == Put(list, art, now)
           v == art.key.slot.version
           oa == art.key.slot.osArch
<1>1. list \in Lists /\ Placed(list)
  BY IsListFacts
<1>2. /\ art.key.slot = [version |-> v, osArch |-> oa]
      /\ v \in Versions /\ oa \in OsArches
  BY ArtifactFacts
<1>3. new \in SortVersions(put)
  BY DEF Upsert, Put
<1>4. /\ put \in Lists
      /\ \E n \in DOMAIN put :
           /\ DOMAIN list \subseteq DOMAIN put
           /\ \A i \in DOMAIN put \ {n} : i \in DOMAIN list /\ put[i] = list[i]
           /\ put[n].version = v
           /\ put[n].artifacts[oa] = art
           /\ n \in DOMAIN list =>
                /\ list[n].version = v
                /\ \A o \in OsArches \ {oa} : put[n].artifacts[o] = list[n].artifacts[o]
           /\ n \notin DOMAIN list =>
                \A o \in OsArches \ {oa} : put[n].artifacts[o] = None
  BY <1>1, PutAt
<1> HIDE DEF put, v, oa
<1>5. PICK n \in DOMAIN put :
        /\ \A i \in DOMAIN put \ {n} : i \in DOMAIN list /\ put[i] = list[i]
        /\ put[n].version = v
        /\ put[n].artifacts[oa] = art
        /\ n \in DOMAIN list =>
             /\ list[n].version = v
             /\ \A o \in OsArches \ {oa} : put[n].artifacts[o] = list[n].artifacts[o]
        /\ n \notin DOMAIN list =>
             \A o \in OsArches \ {oa} : put[n].artifacts[o] = None
  BY <1>4
<1>6. ASSUME NEW i \in DOMAIN put, NEW o \in OsArches, put[i].artifacts[o] # None
      PROVE  put[i].artifacts[o].key.slot = [version |-> put[i].version, osArch |-> o]
  <2>1. CASE i # n
    <3>1. i \in DOMAIN list /\ put[i] = list[i]
      BY <1>5, <2>1
    <3> QED
      BY <1>1, <1>6, <3>1 DEF Placed
  <2>2. CASE i = n /\ o = oa
    BY <1>2, <1>5, <2>2
  <2>3. CASE i = n /\ o # oa
    <3>1. n \in DOMAIN list /\ list[n].version = v /\ put[n].artifacts[o] = list[n].artifacts[o]
      BY <1>5, <1>6, <2>3
    <3> QED
      BY <1>1, <1>5, <1>6, <2>3, <3>1 DEF Placed
  <2> QED
    BY <2>1, <2>2, <2>3
<1>7. IsList(put)
  BY <1>4, <1>6, IsListFacts DEF Placed
<1> QED
  BY <1>3, <1>7, SortedPlaced

LEMMA RemovedPlaced ==
    ASSUME NEW list, IsList(list), NEW v \in Versions, NEW oa \in OsArches \cup {None}
    PROVE  IsList(RemoveEntry(list, v, oa))
<1> DEFINE new == RemoveEntry(list, v, oa)
           n == findVersion(list, v)
<1>1. list \in Lists /\ Placed(list)
  BY IsListFacts
<1>2. new \in Lists
  BY <1>1, Removed
<1>3. CASE new = list
  BY <1>3
<1>4. CASE n \in DOMAIN list /\ new = Seqs!RemoveAt(list, n)
  <2>1. \A i \in DOMAIN new : \E j \in DOMAIN list : new[i] = list[j]
    BY <1>1, <1>4, DroppedKeeps
  <2> HIDE DEF new
  <2>2. Placed(new)
    BY <1>1, <2>1 DEF Placed
  <2> QED
    BY <1>2, <2>2, IsListFacts DEF new
<1>5. CASE n \in DOMAIN list /\ oa \in OsArches /\ new = Clear(list, n, oa)
  <2> HIDE DEF new, n
  <2>1. /\ DOMAIN new = DOMAIN list
        /\ \A i \in DOMAIN list :
             /\ new[i].version = list[i].version
             /\ i # n => new[i] = list[i]
             /\ \A o \in OsArches \ {oa} : new[i].artifacts[o] = list[i].artifacts[o]
        /\ new[n].artifacts[oa] = None
    BY <1>1, <1>5, Cleared
  <2>2. ASSUME NEW i \in DOMAIN new, NEW o \in OsArches, new[i].artifacts[o] # None
        PROVE  new[i].artifacts[o].key.slot = [version |-> new[i].version, osArch |-> o]
    <3>1. new[i].artifacts[o] = list[i].artifacts[o]
      BY <2>1, <2>2
    <3> QED
      BY <1>1, <2>1, <2>2, <3>1 DEF Placed
  <2>3. Placed(new)
    BY <2>2 DEF Placed
  <2> QED
    BY <1>2, <2>3, IsListFacts DEF new
<1> QED
  BY <1>1, <1>3, <1>4, <1>5, RemoveCases

\* Another publish time for an entry leaves what it has.
LEMMA Stamped ==
    ASSUME NEW list, IsList(list), NEW v \in Versions, NEW t \in Nat
    PROVE  LET new == SetCreated(list, v, t)
           IN  /\ IsList(new)
               /\ DOMAIN new = DOMAIN list
               /\ \A i \in DOMAIN list : /\ new[i].version = list[i].version
                                         /\ new[i].artifacts = list[i].artifacts
<1> DEFINE new == SetCreated(list, v, t)
           n == findVersion(list, v)
           changed == [list[n] EXCEPT !.created = t]
<1>1. list \in Lists /\ Placed(list)
  BY IsListFacts
<1>2. new = IF n = 0 THEN list ELSE [list EXCEPT ![n] = changed]
  BY DEF SetCreated
<1>3. CASE n = 0
  BY <1>2, <1>3
<1>4. CASE n # 0
  <2>1. n \in DOMAIN list /\ list[n] \in Entry
    BY <1>1, <1>4, Found, ListFacts
  <2>2. /\ changed \in Entry
        /\ changed.version = list[n].version
        /\ changed.artifacts = list[n].artifacts
    BY <2>1 DEF Entry
  <2> HIDE DEF new, n, changed
  <2>3. /\ new \in Lists /\ DOMAIN new = DOMAIN list /\ new[n] = changed
        /\ \A i \in DOMAIN list : i # n => new[i] = list[i]
    BY <1>1, <1>2, <1>4, <2>1, <2>2 DEF Lists
  <2>4. \A i \in DOMAIN list : /\ new[i].version = list[i].version
                               /\ new[i].artifacts = list[i].artifacts
    BY <2>2, <2>3
  <2>5. IsList(new)
    BY <1>1, <2>3, <2>4, IsListFacts DEF Placed
  <2> QED
    BY <2>3, <2>4, <2>5 DEF new
<1> QED
  BY <1>3, <1>4

---------------------------------------------------------------------------
(* The inductive invariant *)

IsDoc(d) == d = [updated |-> d.updated, versions |-> d.versions] /\ IsList(d.versions)

OpOK ==
    /\ op.kind = "publish" =>
         /\ op \in [kind: {"publish"}, staged: Seq(Artifact), left: Seq(Artifact)]
         /\ clock # 0
    /\ op.kind = "remove" =>
         /\ op.version \in Versions
         /\ op.osArch \in OsArches \cup {None}

\* The Upserts of a publish each leave a tidy list to the next.
StaysTidy == op.kind = "publish" /\ Tidy(before.versions) => Tidy(doc.versions)

\* NothingLost, of the lists.
ArtsKept ==
    \A v \in Versions, oa \in OsArches :
      /\ Merge(before.versions, v).artifacts[oa] # None
      /\ ~(op.kind = "remove" /\ op.version = v /\ op.osArch \in {None, oa})
      => Merge(doc.versions, v).artifacts[oa] # None

TimesKept ==
    \A v \in Versions :
      op.kind = "publish" /\ Merge(before.versions, v).created # 0 =>
        Merge(doc.versions, v).created = Merge(before.versions, v).created

Shape == TypeOK /\ IsDoc(doc) /\ IsDoc(before) /\ OpOK

IndexDocInv ==
    /\ Shape
    /\ StaysCanonical
    /\ StaysTidy
    /\ PublishIsUpsertAll
    /\ RemoveIsRemove
    /\ ArtsKept
    /\ TimesKept

LEMMA InitInv == Init => IndexDocInv
<1> SUFFICES ASSUME Init PROVE IndexDocInv
  OBVIOUS
<1>1. PICK list \in Documents : doc = [updated |-> 0, versions |-> list]
  BY DEF Init
<1>2. before = doc /\ op.kind = "load" /\ clock = 0
  BY DEF Init
<1>3. IsDoc(doc) /\ IsDoc(before)
  BY <1>1, <1>2, IndexDocAssumption DEF IsDoc
<1>4. MaxTime \in Nat /\ doc.updated = 0
  BY <1>1, IndexDocAssumption
<1>5. TypeOK
  BY <1>2, <1>3, <1>4 DEF TypeOK, IsDoc
<1>6. OpOK
  BY <1>2 DEF OpOK
<1> QED
  BY <1>2, <1>3, <1>5, <1>6
     DEF IndexDocInv, Shape, StaysCanonical, StaysTidy, PublishIsUpsertAll, RemoveIsRemove,
         ArtsKept, TimesKept

\* One Upsert, whatever it is that the document was before.
LEMMA UpsertStep ==
    ASSUME Shape, NEW art \in Artifact, NEW now \in Nat, now # 0,
           NEW list \in Upsert(doc.versions, art, now),
           doc' = [updated |-> now, versions |-> list]
    PROVE  /\ IsDoc(doc') /\ doc'.updated = now
           /\ Canonical(doc'.versions)
           /\ Tidy(doc.versions) =>
                /\ Tidy(doc'.versions)
                /\ CatalogueOf(doc') = UpsertAll(CatalogueOf(doc), <<art>>, now)
           /\ \A v \in Versions, oa \in OsArches :
                Merge(doc.versions, v).artifacts[oa] # None =>
                  Merge(doc'.versions, v).artifacts[oa] # None
           /\ \A v \in Versions :
                Merge(doc.versions, v).created # 0 =>
                  Merge(doc'.versions, v).created = Merge(doc.versions, v).created
<1> DEFINE old == doc.versions
           v == art.key.slot.version
           oa == art.key.slot.osArch
<1>1. IsList(old) /\ old \in Lists
  BY IsListFacts DEF Shape, TypeOK
<1>2. doc'.versions = list /\ doc'.updated = now
  OBVIOUS
<1>3. IsList(list)
  BY <1>1, UpsertedPlaced
<1>4. IsDoc(doc')
  BY <1>2, <1>3 DEF IsDoc
<1>5. /\ Canonical(list)
      /\ \A w \in Versions \ {v} : Merge(list, w) = Merge(old, w)
      /\ \A o \in OsArches \ {oa} : Merge(list, v).artifacts[o] = Merge(old, v).artifacts[o]
      /\ Merge(list, v).artifacts[oa] # None
      /\ Merge(list, v).created = IF InList(old, v) THEN Merge(old, v).created ELSE now
  BY <1>1, Upserted
<1>6. ASSUME Tidy(old)
      PROVE  /\ Tidy(doc'.versions)
             /\ CatalogueOf(doc') = UpsertAll(CatalogueOf(doc), <<art>>, now)
  BY <1>1, <1>2, <1>6, UpsertCatalogue
<1>7. ASSUME NEW w \in Versions, NEW o \in OsArches, Merge(old, w).artifacts[o] # None
      PROVE  Merge(list, w).artifacts[o] # None
  BY <1>5, <1>7
<1>8. ASSUME NEW w \in Versions, Merge(old, w).created # 0
      PROVE  Merge(list, w).created = Merge(old, w).created
  <2>1. CASE w # v
    BY <1>5, <2>1
  <2>2. CASE w = v
    <3>1. InList(old, v)
      BY <1>1, <1>8, <2>2, TimeIs DEF InList, NoTime
    <3> QED
      BY <1>5, <2>2, <3>1
  <2> QED
    BY <2>1, <2>2
<1> QED
  BY <1>2, <1>4, <1>5, <1>6, <1>7, <1>8

LEMMA PublishInv == ASSUME IndexDocInv, Publish PROVE IndexDocInv'
<1>1. PICK staged \in Stagings :
        /\ staged # << >>
        /\ Begin([kind |-> "publish", staged |-> <<Head(staged)>>, left |-> Tail(staged)])
        /\ \E list \in Upsert(doc.versions, Head(staged), clock + 1) :
             doc' = [updated |-> clock + 1, versions |-> list]
  BY DEF Publish
<1> DEFINE art == Head(staged)
           now == clock + 1
<1>2. staged \in Seq(Artifact)
  BY IndexDocAssumption
<1>3. art \in Artifact /\ Tail(staged) \in Seq(Artifact) /\ <<art>> \in Seq(Artifact)
  BY <1>1, <1>2
<1>4. /\ clock < MaxTime /\ clock' = now /\ before' = doc
      /\ op' = [kind |-> "publish", staged |-> <<art>>, left |-> Tail(staged)]
  BY <1>1 DEF Begin
<1>5. clock \in 0..MaxTime /\ MaxTime \in Nat
  BY IndexDocAssumption DEF IndexDocInv, Shape, TypeOK
<1>6. now \in Nat /\ now # 0 /\ now \in 0..MaxTime
  BY <1>4, <1>5
<1>7. PICK list \in Upsert(doc.versions, art, now) : doc' = [updated |-> now, versions |-> list]
  BY <1>1
<1>8. Shape
  BY DEF IndexDocInv
<1> HIDE DEF art, now
<1>9. /\ IsDoc(doc') /\ doc'.updated = now
      /\ Canonical(doc'.versions)
      /\ Tidy(doc.versions) =>
           /\ Tidy(doc'.versions)
           /\ CatalogueOf(doc') = UpsertAll(CatalogueOf(doc), <<art>>, now)
      /\ \A v \in Versions, oa \in OsArches :
           Merge(doc.versions, v).artifacts[oa] # None =>
             Merge(doc'.versions, v).artifacts[oa] # None
      /\ \A v \in Versions :
           Merge(doc.versions, v).created # 0 =>
             Merge(doc'.versions, v).created = Merge(doc.versions, v).created
  BY <1>3, <1>6, <1>7, <1>8, UpsertStep
<1>10. op'.kind = "publish" /\ op'.staged = <<art>>
  BY <1>4
<1>11. OpOK'
  <2>1. op' \in [kind: {"publish"}, staged: Seq(Artifact), left: Seq(Artifact)]
    BY <1>3, <1>4
  <2> QED
    BY <1>4, <1>6, <1>10, <2>1 DEF OpOK
<1>12. Shape'
  BY <1>4, <1>6, <1>8, <1>9, <1>11 DEF Shape, TypeOK, IsDoc
<1>13. StaysCanonical' /\ StaysTidy' /\ RemoveIsRemove'
  BY <1>4, <1>9, <1>10 DEF StaysCanonical, StaysTidy, RemoveIsRemove
<1>14. PublishIsUpsertAll'
  BY <1>4, <1>9, <1>10 DEF PublishIsUpsertAll
<1>15. ArtsKept' /\ TimesKept'
  BY <1>4, <1>9, <1>10 DEF ArtsKept, TimesKept
<1> QED
  BY <1>12, <1>13, <1>14, <1>15 DEF IndexDocInv

LEMMA PublishMoreInv == ASSUME IndexDocInv, PublishMore PROVE IndexDocInv'
<1> DEFINE art == Head(op.left)
<1>1. /\ op.kind = "publish" /\ op.left # << >>
      /\ op' = [op EXCEPT !.staged = Append(@, art), !.left = Tail(@)]
      /\ before' = before /\ clock' = clock
  BY DEF PublishMore
<1>2. Shape
  BY DEF IndexDocInv
<1>3. /\ op \in [kind: {"publish"}, staged: Seq(Artifact), left: Seq(Artifact)]
      /\ clock # 0 /\ clock \in 0..MaxTime /\ MaxTime \in Nat
  BY <1>1, <1>2, IndexDocAssumption DEF Shape, OpOK, TypeOK
<1>4. art \in Artifact /\ op.staged \in Seq(Artifact) /\ clock \in Nat
  BY <1>1, <1>3
<1>5. PICK list \in Upsert(doc.versions, art, clock) : doc' = [updated |-> clock, versions |-> list]
  BY DEF PublishMore
<1>6. /\ op' \in [kind: {"publish"}, staged: Seq(Artifact), left: Seq(Artifact)]
      /\ op'.kind = "publish" /\ op'.staged = Append(op.staged, art)
  <2>1. Append(op.staged, art) \in Seq(Artifact) /\ Tail(op.left) \in Seq(Artifact)
    BY <1>1, <1>3, <1>4
  <2>2. op' = [kind |-> "publish", staged |-> Append(op.staged, art), left |-> Tail(op.left)]
    <3> HIDE DEF art
    <3>1. op = [kind |-> op.kind, staged |-> op.staged, left |-> op.left]
      BY <1>3
    <3> QED
      BY <1>1, <3>1
  <2> QED
    BY <2>1, <2>2
<1> HIDE DEF art
<1>7. /\ IsDoc(doc') /\ doc'.updated = clock
      /\ Canonical(doc'.versions)
      /\ Tidy(doc.versions) =>
           /\ Tidy(doc'.versions)
           /\ CatalogueOf(doc') = UpsertAll(CatalogueOf(doc), <<art>>, clock)
      /\ \A v \in Versions, oa \in OsArches :
           Merge(doc.versions, v).artifacts[oa] # None =>
             Merge(doc'.versions, v).artifacts[oa] # None
      /\ \A v \in Versions :
           Merge(doc.versions, v).created # 0 =>
             Merge(doc'.versions, v).created = Merge(doc.versions, v).created
  BY <1>2, <1>3, <1>4, <1>5, UpsertStep
<1>8. OpOK'
  BY <1>1, <1>3, <1>6 DEF OpOK
<1>9. Shape'
  BY <1>1, <1>2, <1>3, <1>7, <1>8 DEF Shape, TypeOK, IsDoc
<1>10. StaysCanonical' /\ RemoveIsRemove'
  BY <1>6, <1>7 DEF StaysCanonical, RemoveIsRemove
<1>11. StaysTidy'
  BY <1>1, <1>7 DEF IndexDocInv, StaysTidy
<1>12. ASSUME Tidy(before.versions)
       PROVE  CatalogueOf(doc') = UpsertAll(CatalogueOf(before), Append(op.staged, art), clock)
  <2>1. CatalogueOf(doc) = UpsertAll(CatalogueOf(before), op.staged, clock)
    BY <1>1, <1>12 DEF IndexDocInv, PublishIsUpsertAll
  <2>2. CatalogueOf(doc') = UpsertAll(CatalogueOf(doc), <<art>>, clock)
    BY <1>1, <1>7, <1>12 DEF IndexDocInv, StaysTidy
  <2> QED
    BY <1>4, <2>1, <2>2, UpsertMore
<1>13. PublishIsUpsertAll'
  BY <1>1, <1>6, <1>12 DEF PublishIsUpsertAll
<1>14. ArtsKept'
  BY <1>1, <1>6, <1>7 DEF IndexDocInv, ArtsKept
<1>15. TimesKept'
  BY <1>1, <1>6, <1>7 DEF IndexDocInv, TimesKept
<1> QED
  BY <1>9, <1>10, <1>11, <1>13, <1>14, <1>15 DEF IndexDocInv

LEMMA RemoveFromInv == ASSUME IndexDocInv, RemoveFrom PROVE IndexDocInv'
<1>1. PICK v \in Versions, oa \in OsArches \cup {None} :
        LET list == RemoveEntry(doc.versions, v, oa)
        IN  /\ Begin([kind |-> "remove", version |-> v, osArch |-> oa])
            /\ doc' = [ updated  |-> IF list = doc.versions THEN doc.updated ELSE clock + 1,
                        versions |-> list ]
  BY DEF RemoveFrom
<1> DEFINE list == RemoveEntry(doc.versions, v, oa)
<1>2. /\ clock < MaxTime /\ clock' = clock + 1 /\ before' = doc
      /\ op' = [kind |-> "remove", version |-> v, osArch |-> oa]
      /\ doc'.versions = list
      /\ doc'.updated = IF list = doc.versions THEN doc.updated ELSE clock + 1
      /\ doc' = [updated |-> doc'.updated, versions |-> doc'.versions]
  BY <1>1 DEF Begin
<1>3. op'.kind = "remove" /\ op'.version = v /\ op'.osArch = oa
  BY <1>2
<1>4. Shape /\ IsList(doc.versions) /\ doc.versions \in Lists
  BY IsListFacts DEF IndexDocInv, Shape, TypeOK
<1>5. /\ clock \in 0..MaxTime /\ doc.updated \in 0..MaxTime /\ MaxTime \in Nat
      /\ clock + 1 \in Nat /\ clock + 1 \in 0..MaxTime
  BY <1>2, IndexDocAssumption DEF IndexDocInv, Shape, TypeOK
<1>6. IsList(list)
  BY <1>4, RemovedPlaced
<1>7. /\ \A w \in Versions \ {v} : Merge(list, w) = Merge(doc.versions, w)
      /\ oa # None => \A o \in OsArches \ {oa} :
           Merge(doc.versions, v).artifacts[o] # None => Merge(list, v).artifacts[o] # None
      /\ Canonical(doc.versions) => Canonical(list)
  BY <1>4, Removed
<1>8. ASSUME Tidy(doc.versions)
      PROVE  /\ Tidy(list)
             /\ CatalogueOf(doc') = Remove(CatalogueOf(doc), NamedBy(v, oa), clock + 1)
  BY <1>2, <1>4, <1>5, <1>8, RemovedTidy, RemoveCatalogue
<1> HIDE DEF list
<1>9. OpOK'
  BY <1>3 DEF OpOK
<1>10. Shape'
  BY <1>2, <1>4, <1>5, <1>6, <1>9 DEF Shape, TypeOK, IsDoc
<1>11. StaysCanonical' /\ StaysTidy' /\ PublishIsUpsertAll' /\ TimesKept'
  BY <1>2, <1>3, <1>7 DEF StaysCanonical, StaysTidy, PublishIsUpsertAll, TimesKept
<1>12. RemoveIsRemove'
  <2>1. NamedBy(v, oa) = { s \in Slot : s.version = v /\ oa \in {None, s.osArch} }
    BY DEF NamedBy
  <2> QED
    BY <1>2, <1>3, <1>8, <2>1 DEF RemoveIsRemove, Tidy
<1>13. ArtsKept'
  BY <1>2, <1>3, <1>7 DEF ArtsKept
<1> QED
  BY <1>10, <1>11, <1>12, <1>13 DEF IndexDocInv

LEMMA RestampInv == ASSUME IndexDocInv, Restamp PROVE IndexDocInv'
<1>1. PICK v \in Versions, t \in {0, clock} :
        /\ Begin([kind |-> "restamp", version |-> v, time |-> t])
        /\ \E list \in SortVersions(SetCreated(doc.versions, v, t)) :
             doc' = [doc EXCEPT !.versions = list]
  BY DEF Restamp
<1> DEFINE stamped == SetCreated(doc.versions, v, t)
<1>2. PICK list \in SortVersions(stamped) : doc' = [doc EXCEPT !.versions = list]
  BY <1>1
<1>3. /\ clock < MaxTime /\ clock' = clock + 1 /\ before' = doc
      /\ op' = [kind |-> "restamp", version |-> v, time |-> t]
  BY <1>1 DEF Begin
<1>4. op'.kind = "restamp"
  BY <1>3
<1>5. Shape /\ IsList(doc.versions) /\ doc.versions \in Lists /\ IsDoc(doc)
  BY IsListFacts DEF IndexDocInv, Shape, TypeOK
<1>6. /\ clock \in 0..MaxTime /\ doc.updated \in 0..MaxTime /\ MaxTime \in Nat
      /\ t \in Nat /\ clock + 1 \in 0..MaxTime
  BY <1>3, IndexDocAssumption DEF IndexDocInv, Shape, TypeOK
<1>7. /\ doc'.versions = list /\ doc'.updated = doc.updated
      /\ doc' = [updated |-> doc'.updated, versions |-> doc'.versions]
  BY <1>2, <1>5 DEF IsDoc
<1>8. /\ IsList(stamped)
      /\ DOMAIN stamped = DOMAIN doc.versions
      /\ \A i \in DOMAIN doc.versions : /\ stamped[i].version = doc.versions[i].version
                                        /\ stamped[i].artifacts = doc.versions[i].artifacts
  BY <1>5, <1>6, Stamped
<1> HIDE DEF stamped
<1>9. stamped \in Lists
  BY <1>8, IsListFacts
<1>10. IsList(list) /\ Canonical(list)
  BY <1>8, <1>9, SortedPlaced, Sorted
<1>11. ASSUME NEW w \in Versions, NEW o \in OsArches, Merge(doc.versions, w).artifacts[o] # None
       PROVE  Merge(list, w).artifacts[o] # None
  <2>1. PICK i \in DOMAIN doc.versions :
          doc.versions[i].version = w /\ doc.versions[i].artifacts[o] # None
    BY <1>5, <1>11, HasArt
  <2>2. Merge(stamped, w).artifacts[o] # None
    BY <1>8, <1>9, <2>1, HasArt
  <2> QED
    BY <1>9, <2>2, SortedSame
<1>12. Shape'
  BY <1>3, <1>4, <1>5, <1>6, <1>7, <1>10 DEF Shape, TypeOK, IsDoc, OpOK
<1>13. StaysCanonical' /\ StaysTidy' /\ PublishIsUpsertAll' /\ RemoveIsRemove' /\ TimesKept'
  BY <1>4, <1>7, <1>10
     DEF StaysCanonical, StaysTidy, PublishIsUpsertAll, RemoveIsRemove, TimesKept
<1>14. ArtsKept'
  BY <1>3, <1>7, <1>11 DEF ArtsKept
<1> QED
  BY <1>12, <1>13, <1>14 DEF IndexDocInv

LEMMA NextInv == ASSUME IndexDocInv, [Next]_vars PROVE IndexDocInv'
<1>1. CASE UNCHANGED vars
  <2>1. doc' = doc /\ before' = before /\ op' = op /\ clock' = clock
    BY <1>1 DEF vars
  <2> QED
    BY <2>1 DEF IndexDocInv, Shape, TypeOK, IsDoc, OpOK, StaysCanonical, StaysTidy,
                PublishIsUpsertAll, RemoveIsRemove, ArtsKept, TimesKept
<1> QED
  BY <1>1, PublishInv, PublishMoreInv, RemoveFromInv, RestampInv DEF Next, Done

THEOREM IndexDocInvariant == Spec => []IndexDocInv
<1> QED
  BY InitInv, NextInv, PTL DEF Spec

---------------------------------------------------------------------------
(* Resolution: the strings of a finite set can be put in ascending order, and in *)
(* any order of those that rank alike *)

Ascending(s, R) == \A i, j \in DOMAIN s : i < j => R[s[i]] <= R[s[j]]

Orderable(S, R) == \E s \in Seqs!SetToSeqs(S) : Ascending(s, R)

LEMMA IsEnumeration ==
    ASSUME NEW S, NEW n \in Nat, Cardinality(S) = n, NEW s \in [1..n -> S],
           \A i, j \in 1..n : i # j => s[i] # s[j]
    PROVE  s \in Seqs!SetToSeqs(S)
BY SameCardinality DEF Seqs!SetToSeqs

LEMMA OrderExists ==
    ASSUME NEW T, NEW R \in [T -> Nat], NEW S \in SUBSET T, IsFiniteSet(S)
    PROVE  Orderable(S, R)
<1> DEFINE bad == { n \in Nat : \E U \in SUBSET T :
                      IsFiniteSet(U) /\ Cardinality(U) = n /\ ~Orderable(U, R) }
<1>1. Cardinality(S) \in Nat
  BY FS_CardinalityType
<1> SUFFICES ASSUME bad # {} PROVE FALSE
  BY <1>1
<1>2. PICK n \in bad : \A k \in bad : n <= k
  <2> bad \in SUBSET Nat
    OBVIOUS
  <2> HIDE DEF bad
  <2> QED
    BY Least
<1>3. PICK U \in SUBSET T : IsFiniteSet(U) /\ Cardinality(U) = n /\ ~Orderable(U, R)
  OBVIOUS
<1>4. n \in Nat
  OBVIOUS
<1>5. CASE U = {}
  <2> DEFINE s == [i \in 1..0 |-> i]
  <2>1. Cardinality(U) = 0
    BY <1>5, FS_EmptySet
  <2>2. s \in [1..0 -> U] /\ DOMAIN s = {}
    OBVIOUS
  <2> HIDE DEF s
  <2>3. s \in Seqs!SetToSeqs(U)
    <3>1. \A i, j \in 1..0 : i # j => s[i] # s[j]
      OBVIOUS
    <3>2. 0 \in Nat
      OBVIOUS
    <3> QED
      BY <2>1, <2>2, <3>1, <3>2, IsEnumeration
  <2> QED
    BY <1>3, <2>2, <2>3 DEF Orderable, Ascending
<1>6. CASE U # {}
  <2> DEFINE ranks == { R[u] : u \in U }
  <2>1. PICK m \in U : \A u \in U : R[m] <= R[u]
    <3>1. ranks \in SUBSET Nat /\ ranks # {}
      BY <1>6
    <3> HIDE DEF ranks
    <3>2. PICK r \in ranks : \A q \in ranks : r <= q
      BY <3>1, Least
    <3> QED
      BY <3>2 DEF ranks
  <2> DEFINE W == U \ {m}
  <2>2. IsFiniteSet(W) /\ Cardinality(W) = n - 1 /\ W \in SUBSET T
    BY <1>3, <2>1, FS_RemoveElement
  <2>3. n - 1 \in Nat
    BY <2>2, FS_CardinalityType
  <2>4. Orderable(W, R)
    <3>1. n - 1 \notin bad
      <4> HIDE DEF bad
      <4> QED
        BY <1>2, <1>4
    <3> QED
      BY <2>2, <2>3, <3>1
  <2>5. PICK w \in Seqs!SetToSeqs(W) : Ascending(w, R)
    BY <2>4 DEF Orderable
  <2>6. /\ DOMAIN w = 1..n - 1
        /\ \A i, j \in DOMAIN w : w[i] = w[j] => i = j
        /\ \A i \in DOMAIN w : w[i] \in W
    <3> HIDE DEF W
    <3>1. /\ DOMAIN w = 1..Cardinality(W)
          /\ \A i, j \in DOMAIN w : w[i] = w[j] => i = j
          /\ \A u : u \in W <=> \E i \in DOMAIN w : w[i] = u
      BY <2>2, Enumeration, Zenon
    <3> QED
      BY <2>2, <3>1
  <2> DEFINE s == [i \in 1..n |-> IF i = 1 THEN m ELSE w[i - 1]]
  <2> HIDE DEF bad, W
  <2>7. \A i \in 1..n : i # 1 => i - 1 \in DOMAIN w
    BY <1>4, <2>6
  <2>8. \A u \in W : u \in U /\ u # m
    BY DEF W
  <2>9. s \in [1..n -> U]
    BY <2>1, <2>6, <2>7, <2>8
  <2>10. ASSUME NEW i \in 1..n, NEW j \in 1..n, i < j
         PROVE  s[i] # s[j] /\ R[s[i]] <= R[s[j]]
    <3>1. j # 1 /\ j - 1 \in DOMAIN w /\ s[j] = w[j - 1] /\ w[j - 1] \in W
      BY <1>4, <2>6, <2>7, <2>10
    <3>2. CASE i = 1
      BY <2>1, <2>8, <3>1, <3>2
    <3>3. CASE i # 1
      <4>1. i - 1 \in DOMAIN w /\ s[i] = w[i - 1]
        BY <2>7, <3>3
      <4>2. i - 1 < j - 1 /\ i - 1 # j - 1
        BY <2>10
      <4> QED
        BY <2>5, <2>6, <3>1, <4>1, <4>2 DEF Ascending
    <3> QED
      BY <3>2, <3>3
  <2>11. DOMAIN s = 1..n
    OBVIOUS
  <2> HIDE DEF s
  <2>12. \A i, j \in 1..n : i # j => s[i] # s[j]
    <3> SUFFICES ASSUME NEW i \in 1..n, NEW j \in 1..n, i # j PROVE s[i] # s[j]
      OBVIOUS
    <3>1. i < j \/ j < i
      OBVIOUS
    <3> QED
      BY <2>10, <3>1
  <2>13. s \in Seqs!SetToSeqs(U)
    BY <1>3, <1>4, <2>9, <2>12, IsEnumeration
  <2>14. Ascending(s, R)
    BY <2>10, <2>11 DEF Ascending
  <2> QED
    BY <1>3, <2>13, <2>14 DEF Orderable
<1> QED
  BY <1>5, <1>6

\* The strings that Resolve may answer.
Highest(names, accepts) ==
    { v \in names \cap accepts : \A w \in names \cap accepts : Rank[w] <= Rank[v] }

\* In every ascending order the last that fits is one that no other fitting one exceeds.
LEMMA LastFits ==
    ASSUME NEW names \in SUBSET Versions, IsFiniteSet(names), NEW accepts \in Constraints,
           NEW s \in SortAscending(names), NEW k \in DOMAIN s, s[k] \in accepts
    PROVE  \E i \in DOMAIN s :
             /\ s[i] \in accepts
             /\ \A j \in DOMAIN s : j > i => s[j] \notin accepts
             /\ s[i] \in Highest(names, accepts)
<1> DEFINE good == { v \in names : Parseable(v) }
           fits == { i \in DOMAIN s : s[i] \in accepts }
<1>1. IsFiniteSet(good) /\ s \in Seqs!SetToSeqs(good)
  BY FS_Subset DEF SortAscending
<1>2. \A i, j \in DOMAIN s : i < j => Rank[s[i]] <= Rank[s[j]]
  BY DEF SortAscending
<1>3. /\ DOMAIN s = 1..Cardinality(good) /\ Cardinality(good) \in Nat
      /\ \A v : v \in good <=> \E i \in DOMAIN s : s[i] = v
  BY <1>1, Enumeration, Zenon
<1>4. PICK i \in fits : \A j \in fits : j <= i
  <2>1. fits \in SUBSET (1..Cardinality(good)) /\ fits # {}
    BY <1>3
  <2> HIDE DEF fits, good
  <2> QED
    BY <1>3, <2>1, Greatest
<1>5. \A j \in DOMAIN s : j > i => s[j] \notin accepts
  <2> SUFFICES ASSUME NEW j \in DOMAIN s, j > i, s[j] \in accepts PROVE FALSE
    OBVIOUS
  <2>1. j <= i
    BY <1>4
  <2>2. i \in Nat /\ j \in Nat
    BY <1>3
  <2> QED
    BY <2>1, <2>2
<1>6. \A w \in Versions : Rank[w] \in Nat
  BY IndexDocAssumption
<1>7. ASSUME NEW w \in names \cap accepts PROVE Rank[w] <= Rank[s[i]]
  <2>1. Parseable(w)
    BY IndexDocAssumption DEF Parseable
  <2>2. PICK j \in DOMAIN s : s[j] = w
    BY <1>3, <2>1
  <2>3. j <= i
    BY <1>4, <2>2
  <2>4. j < i \/ j = i
    BY <1>3, <2>3
  <2> QED
    BY <1>2, <1>6, <2>2, <2>4
<1>8. s[i] \in names
  BY <1>3
<1> QED
  BY <1>4, <1>5, <1>7, <1>8 DEF Highest

\* And each of those is the last that fits in some order.
LEMMA CanBeLast ==
    ASSUME NEW names \in SUBSET Versions, IsFiniteSet(names), NEW accepts \in Constraints,
           NEW v \in Highest(names, accepts)
    PROVE  \E s \in SortAscending(names) : \E i \in DOMAIN s :
             s[i] = v /\ \A j \in DOMAIN s : j > i => s[j] \notin accepts
<1> DEFINE good == { w \in names : Parseable(w) }
           R == [w \in Versions |-> IF w = v THEN 2 * Rank[w] + 1 ELSE 2 * Rank[w]]
<1>1. \A w \in Versions : Rank[w] \in Nat
  BY IndexDocAssumption
<1>2. R \in [Versions -> Nat]
  BY <1>1
<1>3. v \in good /\ v \in accepts
  BY IndexDocAssumption DEF Highest, Parseable
<1>4. IsFiniteSet(good) /\ good \in SUBSET Versions
  BY FS_Subset
<1>5. ASSUME NEW x \in good, NEW y \in good, R[x] <= R[y]
      PROVE  /\ Rank[x] <= Rank[y]
             /\ x = v /\ y # v => ~(Rank[y] <= Rank[v])
  <2>1. Rank[x] \in Nat /\ Rank[y] \in Nat /\ Rank[v] \in Nat
    BY <1>1, <1>3
  <2>2. /\ R[x] = IF x = v THEN 2 * Rank[x] + 1 ELSE 2 * Rank[x]
        /\ R[y] = IF y = v THEN 2 * Rank[y] + 1 ELSE 2 * Rank[y]
    OBVIOUS
  <2> HIDE DEF R
  <2> QED
    BY <1>5, <2>1, <2>2
<1> HIDE DEF R
<1>6. PICK s \in Seqs!SetToSeqs(good) : Ascending(s, R)
  <2> HIDE DEF good
  <2> QED
    BY <1>2, <1>4, OrderExists DEF Orderable
<1>7. /\ DOMAIN s = 1..Cardinality(good) /\ Cardinality(good) \in Nat
      /\ \A i, j \in DOMAIN s : s[i] = s[j] => i = j
      /\ \A w : w \in good <=> \E i \in DOMAIN s : s[i] = w
  BY <1>4, <1>6, Enumeration, Zenon
<1>8. s \in SortAscending(names)
  <2>1. \A i, j \in DOMAIN s : i < j => Rank[s[i]] <= Rank[s[j]]
    BY <1>5, <1>6, <1>7 DEF Ascending
  <2> QED
    BY <1>6, <2>1 DEF SortAscending
<1>9. PICK i \in DOMAIN s : s[i] = v
  BY <1>3, <1>7
<1>10. ASSUME NEW j \in DOMAIN s, j > i, s[j] \in accepts PROVE FALSE
  <2>1. i < j /\ i # j
    BY <1>7, <1>10
  <2>2. R[v] <= R[s[j]] /\ s[j] # v
    BY <1>6, <1>7, <1>9, <2>1 DEF Ascending
  <2>3. s[j] \in good
    BY <1>7
  <2>4. ~(Rank[s[j]] <= Rank[v])
    BY <1>3, <1>5, <2>2, <2>3
  <2> QED
    BY <1>10, <2>3, <2>4 DEF Highest
<1> QED
  BY <1>8, <1>9, <1>10

LEMMA ResolveIsHighest ==
    ASSUME NEW names \in SUBSET Versions, IsFiniteSet(names), NEW accepts \in Constraints
    PROVE  /\ Resolve(names, accepts) = Highest(names, accepts)
           /\ names \cap accepts # {} => Highest(names, accepts) # {}
<1> DEFINE sortings == { s \in SortAscending(names) : \E i \in DOMAIN s : s[i] \in accepts }
           last(s, i) == s[i] \in accepts /\ \A j \in DOMAIN s : j > i => s[j] \notin accepts
           answer(s) == s[CHOOSE i \in DOMAIN s : last(s, i)]
<1>1. Resolve(names, accepts) = { answer(s) : s \in sortings }
  BY DEF Resolve
<1>2. ASSUME NEW s \in SortAscending(names) PROVE DOMAIN s \in SUBSET Nat
  <2> DEFINE good == { w \in names : Parseable(w) }
  <2>1. IsFiniteSet(good) /\ s \in Seqs!SetToSeqs(good)
    BY FS_Subset DEF SortAscending
  <2>2. DOMAIN s = 1..Cardinality(good) /\ Cardinality(good) \in Nat
    BY <2>1, Enumeration, Zenon
  <2> QED
    BY <2>2
<1>3. ASSUME NEW s \in SortAscending(names), NEW i \in DOMAIN s, last(s, i)
      PROVE  s \in sortings /\ answer(s) = s[i]
  <2>1. \A j \in DOMAIN s : last(s, j) => j = i
    <3> SUFFICES ASSUME NEW j \in DOMAIN s, last(s, j), j # i PROVE FALSE
      OBVIOUS
    <3>1. i < j \/ j < i
      BY <1>2
    <3> QED
      BY <1>3, <3>1
  <2> QED
    BY <1>3, <2>1
<1>4. ASSUME NEW s \in sortings PROVE answer(s) \in Highest(names, accepts)
  <2>1. PICK k \in DOMAIN s : s[k] \in accepts
    OBVIOUS
  <2>2. PICK i \in DOMAIN s : last(s, i) /\ s[i] \in Highest(names, accepts)
    BY <2>1, LastFits
  <2> QED
    BY <1>3, <2>2
<1>5. ASSUME NEW v \in Highest(names, accepts) PROVE \E s \in sortings : answer(s) = v
  <2>1. PICK s \in SortAscending(names) : \E i \in DOMAIN s :
          s[i] = v /\ \A j \in DOMAIN s : j > i => s[j] \notin accepts
    BY CanBeLast
  <2>2. PICK i \in DOMAIN s : s[i] = v /\ \A j \in DOMAIN s : j > i => s[j] \notin accepts
    BY <2>1
  <2>3. last(s, i)
    BY <2>2 DEF Highest
  <2> QED
    BY <1>3, <2>2, <2>3
<1>6. ASSUME NEW w \in names \cap accepts PROVE Highest(names, accepts) # {}
  <2> DEFINE good == { x \in names : Parseable(x) }
  <2>1. IsFiniteSet(good) /\ good \in SUBSET Versions /\ Rank \in [Versions -> Nat]
    BY FS_Subset, IndexDocAssumption
  <2>2. w \in good
    BY IndexDocAssumption DEF Parseable
  <2>3. PICK s \in Seqs!SetToSeqs(good) : Ascending(s, Rank)
    <3> HIDE DEF good
    <3> QED
      BY <2>1, OrderExists DEF Orderable
  <2>4. s \in SortAscending(names)
    BY <2>3 DEF SortAscending, Ascending
  <2>5. PICK k \in DOMAIN s : s[k] = w
    <3> HIDE DEF good
    <3>1. \A u : u \in good <=> \E i \in DOMAIN s : s[i] = u
      BY <2>1, <2>3, Enumeration, Zenon
    <3> QED
      BY <2>2, <3>1
  <2>6. \E i \in DOMAIN s : s[i] \in Highest(names, accepts)
    BY <2>4, <2>5, LastFits
  <2> QED
    BY <2>6
<1> HIDE DEF sortings, answer
<1> QED
  BY <1>1, <1>4, <1>5, <1>6

LEMMA ResolvesHighestHolds == IndexDocInv => ResolvesHighest
<1> SUFFICES ASSUME IndexDocInv, NEW accepts \in Constraints
             PROVE  LET names  == Seqs!ToSet(Names(doc.versions))
                        answer == Highest(names, accepts)
                    IN  /\ Resolve(names, accepts) = answer
                        /\ Canonical(doc.versions) /\ names \cap accepts # {} =>
                             \A oa \in OsArches :
                               ResolveVersion(doc.versions, accepts, oa) =
                                 { CatalogueOf(doc).arts[[version |-> v, osArch |-> oa]] : v \in answer }
  BY DEF ResolvesHighest, Highest
<1> DEFINE list == doc.versions
           names == Seqs!ToSet(Names(list))
           answer == Highest(names, accepts)
           resolved == Resolve(names, accepts)
<1>1. list \in Lists
  BY IsListFacts DEF IndexDocInv, Shape, TypeOK
<1>2. IsFiniteSet(names) /\ names \in SUBSET Versions /\ \A v : v \in names <=> InList(list, v)
  BY <1>1, NamesFinite
<1>3. resolved = answer /\ (names \cap accepts # {} => answer # {})
  <2> HIDE DEF names
  <2> QED
    BY <1>2, ResolveIsHighest
<1>4. ASSUME Canonical(list), names \cap accepts # {}, NEW oa \in OsArches
      PROVE  ResolveVersion(list, accepts, oa) =
               { CatalogueOf(doc).arts[[version |-> v, osArch |-> oa]] : v \in answer }
  <2>1. ResolveVersion(list, accepts, oa) =
          { list[findVersion(list, v)].artifacts[oa] : v \in answer }
    BY <1>3, <1>4 DEF ResolveVersion
  <2>2. ASSUME NEW v \in answer
        PROVE  list[findVersion(list, v)].artifacts[oa] =
                 CatalogueOf(doc).arts[[version |-> v, osArch |-> oa]]
    <3>1. v \in names /\ v \in Versions
      BY <1>2 DEF Highest
    <3>2. /\ findVersion(list, v) \in DOMAIN list
          /\ list[findVersion(list, v)].version = v
      BY <1>1, <1>2, <3>1, Found
    <3>3. Merge(list, v) = list[findVersion(list, v)]
      BY <1>1, <1>4, <3>2, CanonicalOnce, MergedOnce
    <3>4. CatalogueOf(doc).arts = [s \in Slot |-> Merge(list, s.version).artifacts[s.osArch]]
      BY <1>1, CatalogueFacts
    <3> DEFINE slot == [version |-> v, osArch |-> oa]
    <3>5. slot \in Slot /\ slot.version = v /\ slot.osArch = oa
      BY <3>1 DEF Slot
    <3> HIDE DEF slot, list, names, answer
    <3>6. CatalogueOf(doc).arts[slot] = Merge(list, v).artifacts[oa]
      BY <3>4, <3>5
    <3> QED
      BY <3>3, <3>6 DEF slot
  <2> HIDE DEF answer, list
  <2> QED
    BY <2>1, <2>2
<1> QED
  BY <1>3, <1>4

---------------------------------------------------------------------------
(* The theorems *)

\* The index stays a list of entries whose artifacts are of the entry's version and
\* under their os-arches, for any list in the file at first.
THEOREM DocumentTypeCorrect == Spec => []TypeOK
<1>1. IndexDocInv => TypeOK
  BY DEF IndexDocInv, Shape
<1> QED
  BY <1>1, IndexDocInvariant, PTL

\* index.go:131-169: Upsert and SortVersions put any list in order, and no operation
\* puts an ordered one out of order.
THEOREM ListStaysCanonical == Spec => []StaysCanonical
<1>1. IndexDocInv => StaysCanonical
  BY DEF IndexDocInv
<1> QED
  BY <1>1, IndexDocInvariant, PTL

\* publish.go:187-192: any number of Upserts with a sort after each, whatever order
\* the sorts leave equal versions in, make the one change that Catalogue's UpsertAll is.
THEOREM PublishUpsertsAll == Spec => []PublishIsUpsertAll
<1>1. IndexDocInv => PublishIsUpsertAll
  BY DEF IndexDocInv
<1> QED
  BY <1>1, IndexDocInvariant, PTL

\* rm.go:66-68, index.go:109-129: Remove of the list is Catalogue's Remove, and no
\* entry is left without artifacts.
THEOREM RmRemoves == Spec => []RemoveIsRemove
<1>1. IndexDocInv => RemoveIsRemove
  BY DEF IndexDocInv
<1> QED
  BY <1>1, IndexDocInvariant, PTL

\* index.go:109-134: of any list, with duplicates too, no operation loses an artifact
\* that it was not to remove, and no publish a known publish time.
THEOREM NoneLost == Spec => []NothingLost
<1>1. IndexDocInv => NothingLost
  <2> SUFFICES ASSUME IndexDocInv PROVE NothingLost
    OBVIOUS
  <2>1. doc.versions \in Lists /\ before.versions \in Lists
    BY IsListFacts DEF IndexDocInv, Shape, IsDoc
  <2>2. /\ CatalogueOf(doc).created = [v \in Versions |-> Merge(doc.versions, v).created]
        /\ CatalogueOf(doc).arts =
             [s \in Slot |-> Merge(doc.versions, s.version).artifacts[s.osArch]]
        /\ CatalogueOf(before).created = [v \in Versions |-> Merge(before.versions, v).created]
        /\ CatalogueOf(before).arts =
             [s \in Slot |-> Merge(before.versions, s.version).artifacts[s.osArch]]
    BY <2>1, CatalogueFacts
  <2>3. \A s \in Slot : s.version \in Versions /\ s.osArch \in OsArches
    BY DEF Slot
  <2>4. ArtsKept /\ TimesKept
    BY DEF IndexDocInv
  <2> QED
    BY <2>2, <2>3, <2>4 DEF NothingLost, ArtsKept, TimesKept
<1> QED
  BY <1>1, IndexDocInvariant, PTL

\* semver.go:28-59, index.go:193-210: a constraint resolves to a version that it
\* accepts and that none it accepts exceeds; where two rank alike, either can come out.
THEOREM ResolutionIsHighest == Spec => []ResolvesHighest
<1> QED
  BY ResolvesHighestHolds, IndexDocInvariant, PTL

=============================================================================
