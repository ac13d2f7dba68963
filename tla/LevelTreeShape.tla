--------------------------- MODULE LevelTreeShape ---------------------------
(***************************************************************************)
(* What the operations of the red-black tree do to its shape, whatever the *)
(* colours: the subtrees and the order of the levels under a rotation, an  *)
(* added leaf, a level taken out or replaced, and a search; and lists that *)
(* hold the elements of a set once each, as a walk meets them.             *)
(***************************************************************************)
EXTENDS LevelTreeInv, Integers, SequencesExt, TLAPS, FiniteSetTheorems,
        SequenceTheorems, WellFoundedInduction

-----------------------------------------------------------------------------
(* Lists that hold the elements of a set once each, in the order of their  *)
(* ranks.                                                                  *)

\* A nonempty set of naturals has a least element.
LEMMA Least ==
  ASSUME NEW T \in SUBSET Nat, T # {}
  PROVE  \E n \in T : \A m \in T : n <= m
<1>1. IsWellFoundedOn(OpToRel(<, Nat), Nat)
  BY NatLessThanWellFounded
<1>2. PICK n \in T : \A m \in T : ~ (<<m, n>> \in OpToRel(<, Nat))
  BY <1>1, WFMin
<1>3. \A m \in T : ~ (m < n)
  BY <1>2 DEF OpToRel
<1> QED BY <1>3

\* An enumeration of S by the ranks key.
Enumerates(s, S, key) ==
  /\ s \in Seq(S)
  /\ \A v \in S : \E i \in 1 .. Len(s) : s[i] = v
  /\ \A i, j \in 1 .. Len(s) : i < j => key[s[i]] < key[s[j]]

\* The empty set.
LEMMA EnumNone ==
  ASSUME NEW key PROVE Enumerates(<<>>, {}, key)
BY DEF Enumerates

\* A single element.
LEMMA EnumOne ==
  ASSUME NEW v, NEW key, key[v] \in Int PROVE Enumerates(<<v>>, {v}, key)
BY DEF Enumerates

\* All of one set before all of another.
LEMMA EnumJoin ==
  ASSUME NEW s, NEW S, NEW o, NEW T, NEW key,
         Enumerates(s, S, key), Enumerates(o, T, key),
         \A v \in S, y \in T : key[v] < key[y]
  PROVE  Enumerates(s \o o, S \union T, key)
<1> DEFINE u == s \o o
<1>1. s \in Seq(S) /\ o \in Seq(T)
  BY DEF Enumerates
<1>2. s \in Seq(S \union T) /\ o \in Seq(S \union T)
  BY <1>1
<1>3. /\ u \in Seq(S \union T) /\ Len(u) = Len(s) + Len(o)
      /\ Len(s) \in Nat /\ Len(o) \in Nat
      /\ \A i \in 1 .. Len(u) :
           u[i] = IF i <= Len(s) THEN s[i] ELSE o[i - Len(s)]
  BY <1>2, ConcatProperties, LenProperties
<1> HIDE DEF u
<1>4. ASSUME NEW v \in S \union T PROVE \E i \in 1 .. Len(u) : u[i] = v
  <2>1. CASE v \in S
    <3>1. PICK i \in 1 .. Len(s) : s[i] = v
      BY <2>1 DEF Enumerates
    <3>2. i \in 1 .. Len(u) /\ u[i] = v
      BY <3>1, <1>3
    <3> QED BY <3>2
  <2>2. CASE v \in T
    <3>1. PICK i \in 1 .. Len(o) : o[i] = v
      BY <2>2 DEF Enumerates
    <3>2. PICK a \in Nat : a = Len(s)
      BY <1>3
    <3>3. PICK b \in Nat : b = Len(o)
      BY <1>3
    <3>4. i + a \in 1 .. (a + b) /\ ~ (i + a <= a) /\ (i + a) - a = i
      BY <3>1, <3>2, <3>3
    <3>5. i + a \in 1 .. Len(u)
      BY <3>2, <3>3, <3>4, <1>3
    <3>6. u[i + a] = v
      BY <3>1, <3>2, <3>4, <3>5, <1>3
    <3> QED BY <3>5, <3>6
  <2> QED BY <1>4, <2>1, <2>2
<1>5. ASSUME NEW i \in 1 .. Len(u), NEW j \in 1 .. Len(u), i < j
      PROVE  key[u[i]] < key[u[j]]
  <2>1. CASE j <= Len(s)
    <3>1. i \in 1 .. Len(s) /\ j \in 1 .. Len(s)
      BY <2>1, <1>3, <1>5
    <3>2. key[s[i]] < key[s[j]]
      BY <3>1, <1>5 DEF Enumerates
    <3> QED BY <3>1, <3>2, <1>3
  <2>2. CASE i <= Len(s) /\ ~ (j <= Len(s))
    <3>1. i \in 1 .. Len(s) /\ j - Len(s) \in 1 .. Len(o)
      BY <2>2, <1>3
    <3>2. s[i] \in S /\ o[j - Len(s)] \in T
      BY <3>1, <1>1
    <3> QED BY <3>1, <3>2, <2>2, <1>3
  <2>3. CASE ~ (i <= Len(s))
    <3>1. /\ i - Len(s) \in 1 .. Len(o) /\ j - Len(s) \in 1 .. Len(o)
          /\ i - Len(s) < j - Len(s)
      BY <2>3, <1>3, <1>5
    <3>2. key[o[i - Len(s)]] < key[o[j - Len(s)]]
      BY <3>1 DEF Enumerates
    <3>3. ~ (j <= Len(s))
      BY <2>3, <1>5, <1>3
    <3> QED BY <3>2, <3>3, <2>3, <1>3
  <2> QED BY <2>1, <2>2, <2>3
<1> QED BY <1>3, <1>4, <1>5 DEF Enumerates, u

\* Two enumerations of a set that agree up to i: the second is no further on at i.
LEMMA EnumPrefix ==
  ASSUME NEW S, NEW key, NEW s, NEW o,
         Enumerates(s, S, key), Enumerates(o, S, key),
         \A v \in S : key[v] \in Int,
         NEW i \in 1 .. Len(s),
         \A j \in 1 .. i - 1 : j <= Len(o) /\ s[j] = o[j]
  PROVE  i <= Len(o) /\ key[o[i]] <= key[s[i]]
<1>1. s \in Seq(S) /\ o \in Seq(S) /\ Len(s) \in Nat /\ Len(o) \in Nat
  BY LenProperties DEF Enumerates
<1>2. s[i] \in S
  BY <1>1
<1>3. PICK k \in 1 .. Len(o) : o[k] = s[i]
  BY <1>2 DEF Enumerates
<1>4. k >= i
  <2> SUFFICES ASSUME k < i PROVE FALSE
    BY <1>1
  <2>1. k \in 1 .. i - 1 /\ k \in 1 .. Len(s)
    BY <1>1
  <2>2. s[k] = s[i]
    BY <2>1, <1>3
  <2>3. key[s[k]] < key[s[i]]
    BY <2>1 DEF Enumerates
  <2> QED BY <2>2, <2>3, <1>2
<1>5. i <= Len(o) /\ i \in 1 .. Len(o)
  BY <1>1, <1>4
<1>6. CASE k = i
  BY <1>6, <1>5, <1>3, <1>2
<1>7. CASE k > i
  <2>1. key[o[i]] < key[o[k]]
    BY <1>7, <1>5 DEF Enumerates
  <2>2. o[i] \in S
    BY <1>1, <1>5
  <2> QED BY <2>1, <2>2, <1>3, <1>5, <1>2
<1> QED BY <1>4, <1>6, <1>7, <1>1

\* A set has only one enumeration.
LEMMA EnumUnique ==
  ASSUME NEW S, NEW key, NEW s, NEW o,
         Enumerates(s, S, key), Enumerates(o, S, key),
         \A v \in S : key[v] \in Int,
         \A v, y \in S : key[v] = key[y] => v = y
  PROVE  s = o
<1> DEFINE Same(i) == i <= Len(s) /\ i <= Len(o) /\ s[i] = o[i]
           Bad == {i \in Nat \ {0} : (i <= Len(s) \/ i <= Len(o)) /\ ~ Same(i)}
<1>1. s \in Seq(S) /\ o \in Seq(S) /\ Len(s) \in Nat /\ Len(o) \in Nat
  BY LenProperties DEF Enumerates
<1>2. Bad = {}
  <2> SUFFICES ASSUME Bad # {} PROVE FALSE
    OBVIOUS
  <2>1. PICK i \in Bad : \A j \in Bad : i <= j
    <3>1. Bad \in SUBSET Nat
      OBVIOUS
    <3> QED BY <3>1, Least
  <2>2. i \in Nat \ {0} /\ (i <= Len(s) \/ i <= Len(o)) /\ ~ Same(i)
    BY <2>1
  <2>3. ASSUME NEW j \in 1 .. i - 1 PROVE Same(j)
    <3>1. j \in Nat \ {0} /\ j < i
      BY <2>2
    <3>2. j \notin Bad
      BY <3>1, <2>1, <2>2
    <3>3. j <= Len(s) \/ j <= Len(o)
      BY <3>1, <2>2, <1>1
    <3> QED BY <3>1, <3>2, <3>3
  <2>4. i \in 1 .. Len(s) => i <= Len(o) /\ key[o[i]] <= key[s[i]]
    BY <2>3, EnumPrefix
  <2>5. i \in 1 .. Len(o) => i <= Len(s) /\ key[s[i]] <= key[o[i]]
    BY <2>3, EnumPrefix
  <2>6. i \in 1 .. Len(s) /\ i \in 1 .. Len(o)
    BY <2>2, <2>4, <2>5, <1>1
  <2>7. s[i] \in S /\ o[i] \in S
    BY <2>6, <1>1
  <2>8. key[s[i]] = key[o[i]]
    BY <2>4, <2>5, <2>6, <2>7
  <2>9. s[i] = o[i]
    BY <2>7, <2>8
  <2> QED BY <2>9, <2>6, <2>2
<1>3. \A i \in Nat \ {0} : (i <= Len(s) \/ i <= Len(o)) => Same(i)
  BY <1>2
<1>4. Len(s) <= Len(o) /\ Len(o) <= Len(s)
  BY <1>3, <1>1
<1>5. Len(s) = Len(o)
  BY <1>4, <1>1
<1>6. \A i \in 1 .. Len(s) : s[i] = o[i]
  BY <1>3, <1>1
<1> QED BY <1>1, <1>5, <1>6, SeqEqual

\* What an enumeration says of the set.
LEMMA EnumFacts ==
  ASSUME NEW s, NEW S, NEW key, Enumerates(s, S, key), \A v \in S : key[v] \in Int
  PROVE  /\ Len(s) \in Nat /\ DOMAIN s = 1 .. Len(s) /\ ToSet(s) = S
         /\ \A i \in DOMAIN s : s[i] \in S
         /\ \A i, j \in DOMAIN s : i < j <=> key[s[i]] < key[s[j]]
         /\ \A i, j \in DOMAIN s : s[i] = s[j] => i = j
         /\ IsFiniteSet(S) /\ Cardinality(S) = Len(s)
<1>1. Len(s) \in Nat /\ DOMAIN s = 1 .. Len(s) /\ \A i \in DOMAIN s : s[i] \in S
  BY LenProperties DEF Enumerates
<1>2. ToSet(s) = S
  BY <1>1 DEF Enumerates, ToSet
<1>3. \A i, j \in DOMAIN s : i < j => key[s[i]] < key[s[j]]
  BY <1>1 DEF Enumerates
<1>4. \A i, j \in DOMAIN s : s[i] = s[j] => i = j
  <2> TAKE i, j \in DOMAIN s
  <2> HAVE s[i] = s[j]
  <2>1. key[s[i]] \in Int
    BY <1>1
  <2>2. ~ (i < j) /\ ~ (j < i)
    BY <2>1, <1>3
  <2> QED BY <2>2, <1>1
<1>5. \A i, j \in DOMAIN s : key[s[i]] < key[s[j]] => i < j
  <2> TAKE i, j \in DOMAIN s
  <2> HAVE key[s[i]] < key[s[j]]
  <2>1. key[s[i]] \in Int /\ key[s[j]] \in Int
    BY <1>1
  <2>2. ~ (j < i) /\ i # j
    BY <2>1, <1>3
  <2> QED BY <2>2, <1>1
<1>6. s \in Bijection(1 .. Len(s), S)
  <2>1. s \in [1 .. Len(s) -> S]
    BY <1>1 DEF Enumerates
  <2>2. \A i, j \in 1 .. Len(s) : s[i] = s[j] => i = j
    BY <1>1, <1>4
  <2>3. \A v \in S : \E i \in 1 .. Len(s) : s[i] = v
    BY DEF Enumerates
  <2> QED BY <2>1, <2>2, <2>3 DEF Bijection, Injection, Surjection, IsInjective
<1>7. ExistsBijection(1 .. Len(s), S)
  BY <1>6 DEF ExistsBijection
<1>8. IsFiniteSet(S) /\ Cardinality(S) = Len(s)
  <2>1. IsFiniteSet(1 .. Len(s)) /\ Cardinality(1 .. Len(s)) = Len(s)
    <3>1. 1 \in Int /\ Len(s) \in Int
      BY <1>1
    <3>2. IsFiniteSet(1 .. Len(s))
          /\ Cardinality(1 .. Len(s)) = IF 1 > Len(s) THEN 0 ELSE Len(s) - 1 + 1
      BY <3>1, FS_Interval
    <3> QED BY <3>2, <1>1
  <2> QED BY <2>1, <1>7, FS_Bijection
<1> QED BY <1>1, <1>2, <1>3, <1>4, <1>5, <1>8

\* A part of an enumeration.
LEMMA EnumSub ==
  ASSUME NEW s, NEW S, NEW key, Enumerates(s, S, key),
         NEW a \in Nat, NEW b \in Nat, 1 <= a, b <= Len(s)
  PROVE  Enumerates(SubSeq(s, a, b), {s[i] : i \in a .. b}, key)
<1> DEFINE T == {s[i] : i \in a .. b}
           u == SubSeq(s, a, b)
<1>1. /\ u \in Seq(T) /\ Len(u) = (IF a <= b THEN b - a + 1 ELSE 0)
      /\ \A i \in 1 .. b - a + 1 : u[i] = s[a + i - 1]
  <2>1. a \in Int /\ b \in Int /\ \A i \in a .. b : s[i] \in T
    OBVIOUS
  <2> HIDE DEF T
  <2> QED BY <2>1, SubSeqProperties
<1>2. /\ Len(s) \in Nat
      /\ \A i, j \in 1 .. Len(s) : i < j => key[s[i]] < key[s[j]]
  BY LenProperties DEF Enumerates
<1> HIDE DEF u
<1>3. ASSUME NEW v \in T PROVE \E i \in 1 .. Len(u) : u[i] = v
  <2>1. PICK j \in a .. b : v = s[j]
    OBVIOUS
  <2>2. a <= b /\ j - a + 1 \in 1 .. b - a + 1
    BY <2>1
  <2>3. j - a + 1 \in 1 .. Len(u)
    BY <2>2, <1>1
  <2>4. a + (j - a + 1) - 1 = j
    BY <2>1
  <2>5. u[j - a + 1] = v
    BY <2>1, <2>2, <2>4, <1>1
  <2> QED BY <2>3, <2>5
<1>4. ASSUME NEW i \in 1 .. Len(u), NEW j \in 1 .. Len(u), i < j
      PROVE  key[u[i]] < key[u[j]]
  <2>1. i \in 1 .. b - a + 1 /\ j \in 1 .. b - a + 1
    BY <1>1
  <2>2. a + i - 1 \in 1 .. Len(s) /\ a + j - 1 \in 1 .. Len(s)
        /\ a + i - 1 < a + j - 1
    BY <2>1, <1>2, <1>4
  <2> QED BY <2>1, <2>2, <1>1, <1>2
<1> QED BY <1>1, <1>3, <1>4 DEF Enumerates, u

\* An element less: it is taken out of the list.
LEMMA EnumLess ==
  ASSUME NEW s, NEW S, NEW o, NEW key, NEW e \in S,
         Enumerates(s, S, key), Enumerates(o, S \ {e}, key),
         \A v \in S : key[v] \in Int,
         \A v, y \in S : key[v] = key[y] => v = y
  PROVE  \E i \in DOMAIN s : o = RemoveAt(s, i)
<1>1. /\ Len(s) \in Nat /\ DOMAIN s = 1 .. Len(s)
      /\ \A i \in DOMAIN s : s[i] \in S
      /\ \A i, j \in DOMAIN s : i < j <=> key[s[i]] < key[s[j]]
      /\ \A i, j \in DOMAIN s : s[i] = s[j] => i = j
  BY EnumFacts
<1>2. \A v \in S : \E i \in 1 .. Len(s) : s[i] = v
  BY DEF Enumerates
<1>3. PICK i \in 1 .. Len(s) : s[i] = e
  BY <1>2
<1> DEFINE A == {s[j] : j \in 1 .. i - 1}
           B == {s[j] : j \in i + 1 .. Len(s)}
<1>4. /\ 1 \in Nat /\ i - 1 \in Nat /\ i - 1 <= Len(s)
      /\ i + 1 \in Nat /\ 1 <= i + 1 /\ 1 <= 1 /\ Len(s) <= Len(s)
  BY <1>1, <1>3
<1>5. Enumerates(SubSeq(s, 1, i - 1), A, key)
  BY <1>4, EnumSub
<1>6. Enumerates(SubSeq(s, i + 1, Len(s)), B, key)
  BY <1>1, <1>4, EnumSub
<1>7. \A v \in A, y \in B : key[v] < key[y]
  <2> TAKE v \in A, y \in B
  <2>1. PICK j \in 1 .. i - 1 : v = s[j]
    OBVIOUS
  <2>2. PICK k \in i + 1 .. Len(s) : y = s[k]
    OBVIOUS
  <2>3. j \in DOMAIN s /\ k \in DOMAIN s /\ j < k
    BY <1>1, <1>3, <2>1, <2>2
  <2> QED BY <2>1, <2>2, <2>3, <1>1
<1>8. A \union B = S \ {e}
  <2>1. ASSUME NEW j \in 1 .. Len(s), j # i PROVE s[j] \in S \ {e}
    BY <1>1, <1>3, <2>1
  <2>2. ASSUME NEW v \in S \ {e} PROVE v \in A \union B
    <3>1. PICK j \in 1 .. Len(s) : s[j] = v
      BY <1>2
    <3>2. j # i
      BY <3>1, <1>3
    <3>3. j \in 1 .. i - 1 \/ j \in i + 1 .. Len(s)
      BY <3>2, <1>1, <1>3
    <3> QED BY <3>1, <3>3
  <2>3. A \subseteq S \ {e}
    <3>1. \A j \in 1 .. i - 1 : j \in 1 .. Len(s) /\ j # i
      BY <1>1, <1>3
    <3> QED BY <3>1, <2>1
  <2>4. B \subseteq S \ {e}
    <3>1. \A j \in i + 1 .. Len(s) : j \in 1 .. Len(s) /\ j # i
      BY <1>1, <1>3
    <3> QED BY <3>1, <2>1
  <2> HIDE DEF A, B
  <2> QED BY <2>2, <2>3, <2>4
<1> HIDE DEF A, B
<1>9. Enumerates(SubSeq(s, 1, i - 1) \o SubSeq(s, i + 1, Len(s)), S \ {e}, key)
  BY <1>5, <1>6, <1>7, <1>8, EnumJoin
<1>10. RemoveAt(s, i) = o
  <2> DEFINE U == S \ {e}
  <2>1. /\ \A v \in U : key[v] \in Int
        /\ \A v, y \in U : key[v] = key[y] => v = y
    OBVIOUS
  <2>2. Enumerates(RemoveAt(s, i), U, key) /\ Enumerates(o, U, key)
    BY <1>9 DEF RemoveAt
  <2> HIDE DEF U
  <2> QED BY <2>1, <2>2, EnumUnique
<1> QED BY <1>1, <1>3, <1>10

\* Those ranked lower than r come first.
LEMMA EnumCut ==
  ASSUME NEW s, NEW S, NEW key, Enumerates(s, S, key), \A v \in S : key[v] \in Int,
         NEW r \in Int
  PROVE  \E k \in 0 .. Len(s) : \A i \in DOMAIN s : i <= k <=> key[s[i]] < r
<1>1. /\ Len(s) \in Nat /\ DOMAIN s = 1 .. Len(s)
      /\ \A i \in DOMAIN s : s[i] \in S
      /\ \A i, j \in DOMAIN s : i < j <=> key[s[i]] < key[s[j]]
  BY EnumFacts
<1>2. \A i \in 1 .. Len(s) : key[s[i]] \in Int
  BY <1>1
<1> DEFINE Past == {k \in Nat : \A i \in 1 .. Len(s) : i > k => ~ (key[s[i]] < r)}
<1>3. PICK k \in Past : \A m \in Past : k <= m
  <2>1. Past \in SUBSET Nat
    OBVIOUS
  <2>2. Len(s) \in Past
    BY <1>1
  <2> HIDE DEF Past
  <2> QED BY <2>1, <2>2, Least
<1>4. /\ k \in Nat /\ k <= Len(s)
      /\ \A i \in 1 .. Len(s) : i > k => ~ (key[s[i]] < r)
  <2>1. Len(s) \in Past
    BY <1>1
  <2> QED BY <2>1, <1>3
<1>5. \A i \in 1 .. Len(s) : i <= k => key[s[i]] < r
  <2> TAKE i \in 1 .. Len(s)
  <2> HAVE i <= k
  <2>1. k - 1 \in Nat /\ ~ (k <= k - 1)
    BY <1>1, <1>4
  <2>2. k - 1 \notin Past
    BY <2>1, <1>3
  <2>3. PICK j \in 1 .. Len(s) : j > k - 1 /\ key[s[j]] < r
    BY <2>1, <2>2
  <2>4. j = k
    BY <2>3, <1>4, <1>1
  <2>5. CASE i = k
    BY <2>3, <2>4, <2>5
  <2>6. CASE i < k
    <3>1. key[s[i]] < key[s[k]]
      BY <2>3, <2>4, <2>6, <1>1
    <3> QED BY <3>1, <2>3, <2>4, <1>2
  <2> QED BY <2>5, <2>6, <1>1, <1>4
<1> HIDE DEF Past
<1>6. \A i \in DOMAIN s : i <= k <=> key[s[i]] < r
  <2> TAKE i \in DOMAIN s
  <2>1. i \in 1 .. Len(s)
    BY <1>1
  <2> QED BY <2>1, <1>1, <1>4, <1>5
<1> QED BY <1>1, <1>4, <1>6

\* An element more: it is put behind those ranked lower.
LEMMA EnumMore ==
  ASSUME NEW s, NEW S, NEW o, NEW key, NEW e, e \notin S,
         Enumerates(s, S, key), Enumerates(o, S \union {e}, key),
         \A v \in S \union {e} : key[v] \in Int,
         \A v, y \in S \union {e} : key[v] = key[y] => v = y
  PROVE  \E k \in 0 .. Len(s) :
           /\ \A i \in DOMAIN s : i <= k <=> key[s[i]] < key[e]
           /\ o = InsertAt(s, k + 1, e)
<1>1. /\ Len(s) \in Nat /\ DOMAIN s = 1 .. Len(s)
      /\ \A i \in DOMAIN s : s[i] \in S
      /\ \A i, j \in DOMAIN s : i < j <=> key[s[i]] < key[s[j]]
  <2>1. \A v \in S : key[v] \in Int
    OBVIOUS
  <2> QED BY <2>1, EnumFacts
<1>2. \A v \in S : \E i \in 1 .. Len(s) : s[i] = v
  BY DEF Enumerates
<1>3. key[e] \in Int /\ \A i \in 1 .. Len(s) : key[s[i]] \in Int /\ key[s[i]] # key[e]
  <2>1. \A v \in S : v # e /\ key[v] \in Int
    OBVIOUS
  <2>2. \A i \in 1 .. Len(s) : s[i] \in S
    BY <1>1
  <2> QED BY <2>1, <2>2
<1>4. PICK k \in 0 .. Len(s) : \A i \in DOMAIN s : i <= k <=> key[s[i]] < key[e]
  <2>1. \A v \in S : key[v] \in Int
    OBVIOUS
  <2> QED BY <1>3, <2>1, EnumCut
<1>5. /\ k \in Nat /\ k <= Len(s)
      /\ \A i \in 1 .. Len(s) : i > k => ~ (key[s[i]] < key[e])
  BY <1>1, <1>4
<1>6. \A i \in 1 .. Len(s) : i <= k => key[s[i]] < key[e]
  BY <1>1, <1>4
<1> DEFINE A == {s[j] : j \in 1 .. k}
           B == {s[j] : j \in k + 1 .. Len(s)}
<1>7. 1 \in Nat /\ 1 <= 1 /\ k + 1 \in Nat /\ 1 <= k + 1 /\ Len(s) <= Len(s)
  BY <1>1, <1>5
<1>8. Enumerates(SubSeq(s, 1, (k + 1) - 1), A, key)
  <2>1. (k + 1) - 1 = k
    BY <1>5
  <2>2. Enumerates(SubSeq(s, 1, k), A, key)
    BY <1>5, <1>7, EnumSub
  <2> QED BY <2>1, <2>2
<1>9. Enumerates(SubSeq(s, k + 1, Len(s)), B, key)
  BY <1>1, <1>7, EnumSub
<1>10. \A v \in A : key[v] < key[e]
  <2>1. \A j \in 1 .. k : j \in 1 .. Len(s) /\ j <= k
    BY <1>1, <1>5
  <2> QED BY <2>1, <1>6
<1>11. \A v \in B : key[e] < key[v]
  <2>1. \A j \in k + 1 .. Len(s) : j \in 1 .. Len(s) /\ j > k
    BY <1>1, <1>5
  <2> TAKE v \in B
  <2>2. PICK j \in k + 1 .. Len(s) : v = s[j]
    OBVIOUS
  <2>3. /\ ~ (key[s[j]] < key[e]) /\ key[s[j]] # key[e]
        /\ key[s[j]] \in Int /\ key[e] \in Int
    BY <2>1, <2>2, <1>3, <1>5
  <2> QED BY <2>2, <2>3
<1>12. A \union B = S
  <2>1. A \subseteq S /\ B \subseteq S
    <3>1. /\ \A j \in 1 .. k : j \in 1 .. Len(s)
          /\ \A j \in k + 1 .. Len(s) : j \in 1 .. Len(s)
      BY <1>1, <1>5
    <3> QED BY <3>1, <1>1
  <2>2. ASSUME NEW v \in S PROVE v \in A \union B
    <3>1. PICK j \in 1 .. Len(s) : s[j] = v
      BY <1>2
    <3>2. j \in 1 .. k \/ j \in k + 1 .. Len(s)
      BY <1>1, <1>5
    <3> QED BY <3>1, <3>2
  <2> HIDE DEF A, B
  <2> QED BY <2>1, <2>2
<1>13. \A v \in A \union {e}, y \in B : key[v] < key[y]
  <2> TAKE v \in A \union {e}, y \in B
  <2>1. v \in S \union {e} /\ y \in S \union {e}
    BY <1>12
  <2>2. key[v] \in Int /\ key[y] \in Int /\ key[e] \in Int /\ key[e] < key[y]
    BY <2>1, <1>11, <1>3
  <2>3. v = e \/ key[v] < key[e]
    BY <1>10
  <2> QED BY <2>2, <2>3
<1> HIDE DEF A, B
<1>14. Enumerates(<<e>>, {e}, key)
  BY <1>3, EnumOne
<1>15. Enumerates(SubSeq(s, 1, (k + 1) - 1) \o <<e>>, A \union {e}, key)
  BY <1>8, <1>10, <1>14, EnumJoin
<1>16. Enumerates((SubSeq(s, 1, (k + 1) - 1) \o <<e>>) \o SubSeq(s, k + 1, Len(s)),
                  (A \union {e}) \union B, key)
  BY <1>9, <1>13, <1>15, EnumJoin
<1>17. (A \union {e}) \union B = S \union {e}
  BY <1>12
<1>18. InsertAt(s, k + 1, e) = o
  <2>1. Enumerates(InsertAt(s, k + 1, e), S \union {e}, key)
    BY <1>16, <1>17 DEF InsertAt
  <2> QED BY <2>1, EnumUnique
<1> QED BY <1>4, <1>18

-----------------------------------------------------------------------------
(* Facts about a tree.                                                     *)

LEMMA SideFacts ==
  /\ Sides = {"left", "right"}
  /\ \A d \in Sides : Other(d) \in Sides /\ Other(d) # d /\ Other(Other(d)) = d
  /\ \A d, e \in Sides : e = d \/ e = Other(d)
BY DEF Sides, Other

LEMMA PriceFacts == Prices \subseteq Nat \ {0} /\ Nil = 0 /\ Nil \notin Prices
BY TreeAssumption DEF Nil

\* A level is in its own subtree, and not under a child of it.
LEMMA KidFacts ==
  ASSUME NEW tr, NEW L, NEW sub, TreeOK(tr, L, sub), NEW l \in L, NEW d \in Sides
  PROVE  /\ l \in sub[l] /\ sub[l] \subseteq L /\ l \in Prices /\ l # Nil
         /\ l \notin Under(sub, tr.kid[d][l])
         /\ \A m \in Under(sub, tr.kid[d][l]) :
              Beyond(d, m, l) /\ m \notin Under(sub, tr.kid[Other(d)][l])
         /\ sub[l] = {l} \union Under(sub, tr.kid[d][l])
                         \union Under(sub, tr.kid[Other(d)][l])
         /\ tr.kid[d][l] # Nil =>
              /\ tr.kid[d][l] \in L /\ tr.kid[d][l] # l
              /\ tr.parent[tr.kid[d][l]] = l
              /\ tr.kid[d][l] \in Under(sub, tr.kid[d][l])
              /\ Under(sub, tr.kid[d][l]) = sub[tr.kid[d][l]]
              /\ Beyond(d, tr.kid[d][l], l)
              /\ tr.kid[d][l] # tr.kid[Other(d)][l]
              /\ tr.kid[d][l] # tr.root
<1>1. /\ l \in Prices /\ l # Nil /\ l \in Nat /\ sub[l] \subseteq L
      /\ BranchOK(tr, L, sub, l) /\ ParentOK(tr, L, l)
  BY PriceFacts DEF TreeOK
<1>2. Other(d) \in Sides /\ {d, Other(d)} = Sides
  BY SideFacts
<1>3. sub[l] = {l} \union Under(sub, tr.kid[d][l])
                   \union Under(sub, tr.kid[Other(d)][l])
  BY <1>1, SideFacts DEF BranchOK, Other, Sides
<1>4. \A e \in Sides : \A m \in Under(sub, tr.kid[e][l]) : Beyond(e, m, l) /\ m \in Nat
  BY <1>1, <1>2, <1>3, PriceFacts DEF BranchOK, TreeOK
<1>5. \A m \in Under(sub, tr.kid[d][l]) :
        m # l /\ Beyond(d, m, l) /\ m \notin Under(sub, tr.kid[Other(d)][l])
  BY <1>1, <1>2, <1>4 DEF Beyond, Sides, Other
<1>6. ASSUME tr.kid[d][l] # Nil
      PROVE  /\ tr.kid[d][l] \in L /\ tr.kid[d][l] # l
             /\ tr.parent[tr.kid[d][l]] = l
             /\ tr.kid[d][l] \in Under(sub, tr.kid[d][l])
             /\ Under(sub, tr.kid[d][l]) = sub[tr.kid[d][l]]
             /\ Beyond(d, tr.kid[d][l], l)
             /\ tr.kid[d][l] # tr.kid[Other(d)][l]
             /\ tr.kid[d][l] # tr.root
  <2> DEFINE k == tr.kid[d][l]
  <2>1. k \in L /\ tr.parent[k] = l
    BY <1>1, <1>6 DEF BranchOK, ParentOK
  <2>2. k \in sub[k] /\ Under(sub, k) = sub[k] /\ ParentOK(tr, L, k)
    BY <1>6, <2>1 DEF TreeOK, BranchOK, Under
  <2>3. k # l /\ Beyond(d, k, l) /\ k \notin Under(sub, tr.kid[Other(d)][l])
    BY <1>5, <2>2
  <2>4. k # tr.kid[Other(d)][l]
    BY <1>6, <2>2, <2>3
  <2>5. k # tr.root
    BY <1>1, <2>1, <2>2 DEF ParentOK
  <2> QED BY <2>1, <2>2, <2>3, <2>4, <2>5
<1> QED BY <1>1, <1>3, <1>5, <1>6

\* The one place a level hangs from.
LEMMA ParentFacts ==
  ASSUME NEW tr, NEW L, NEW sub, TreeOK(tr, L, sub), NEW l \in L
  PROVE  /\ tr.parent[l] = Nil <=> l = tr.root
         /\ l # tr.root =>
              /\ tr.parent[l] \in L
              /\ SideOf(tr, l) \in Sides
              /\ tr.kid[SideOf(tr, l)][tr.parent[l]] = l
         /\ \A m \in L, e \in Sides :
              tr.kid[e][m] = l => m = tr.parent[l] /\ e = SideOf(tr, l) /\ l # tr.root
<1>1. ParentOK(tr, L, l) /\ l # Nil
  BY KidFacts, SideFacts DEF TreeOK
<1>2. tr.parent[l] = Nil <=> l = tr.root
  BY <1>1, PriceFacts DEF ParentOK, TreeOK
<1>3. ASSUME l # tr.root
      PROVE  /\ tr.parent[l] \in L
             /\ SideOf(tr, l) \in Sides
             /\ tr.kid[SideOf(tr, l)][tr.parent[l]] = l
  BY <1>1, <1>3, SideFacts DEF ParentOK, SideOf
<1>4. ASSUME NEW m \in L, NEW e \in Sides, tr.kid[e][m] = l
      PROVE  m = tr.parent[l] /\ e = SideOf(tr, l) /\ l # tr.root
  <2>1. m = tr.parent[l] /\ l # tr.root /\ tr.kid[Other(e)][m] # l
    BY <1>1, <1>4, KidFacts
  <2>2. e = SideOf(tr, l)
    BY <1>4, <2>1, SideFacts DEF SideOf, Other, Sides
  <2> QED BY <2>1, <2>2
<1> QED BY <1>2, <1>3, <1>4

\* Induction over a tree: what holds of a level when it holds of its children
\* holds of every level.
LEMMA TreeInduct ==
  ASSUME NEW tr, NEW L, NEW sub, TreeOK(tr, L, sub), NEW S \in SUBSET L,
         \A l \in L :
           (\A d \in Sides : tr.kid[d][l] # Nil => tr.kid[d][l] \in S) => l \in S
  PROVE  S = L
<1> SUFFICES ASSUME L \ S # {} PROVE FALSE
  OBVIOUS
<1>1. \A l \in L : IsFiniteSet(sub[l]) /\ Cardinality(sub[l]) \in Nat
  <2>1. \A l \in L : sub[l] \subseteq L
    BY DEF TreeOK
  <2>2. IsFiniteSet(L)
    BY DEF TreeOK
  <2> QED BY <2>1, <2>2, FS_Subset, FS_CardinalityType
<1> DEFINE Sizes == {Cardinality(sub[l]) : l \in L \ S}
<1>2. Sizes \in SUBSET Nat /\ Sizes # {}
  BY <1>1
<1>3. PICK n \in Sizes : \A m \in Sizes : n <= m
  BY <1>2, Least
<1>4. PICK l \in L \ S : n = Cardinality(sub[l])
  OBVIOUS
<1>5. PICK d \in Sides : tr.kid[d][l] # Nil /\ tr.kid[d][l] \notin S
  OBVIOUS
<1> DEFINE k == tr.kid[d][l]
<1>6. k \in L \ S /\ sub[k] \subseteq sub[l] /\ l \in sub[l] /\ l \notin sub[k]
  BY <1>5, KidFacts
<1> HIDE DEF k
<1>7. Cardinality(sub[k]) < Cardinality(sub[l])
  <2>1. IsFiniteSet(sub[l]) /\ sub[k] # sub[l]
    BY <1>1, <1>6
  <2>2. Cardinality(sub[k]) <= Cardinality(sub[l])
        /\ (Cardinality(sub[k]) = Cardinality(sub[l]) => sub[k] = sub[l])
    BY <1>6, <2>1, FS_Subset
  <2> QED BY <1>1, <1>6, <2>1, <2>2
<1>8. Cardinality(sub[k]) \in Sizes
  BY <1>6
<1> QED BY <1>1, <1>3, <1>4, <1>6, <1>7, <1>8

\* Everything hangs under the root, and what is under a level is a subtree.
LEMMA SubFacts ==
  ASSUME NEW tr, NEW L, NEW sub, TreeOK(tr, L, sub), NEW l \in L
  PROVE  /\ l \in Prices /\ l \in Nat /\ tr.root \in L /\ sub[tr.root] = L
         /\ l \in sub[l] /\ sub[l] \subseteq L
         /\ \A m \in sub[l] : sub[m] \subseteq sub[l] /\ m \in L /\ m \in Nat
         /\ \A m \in L \ sub[l] : \A a, b \in sub[l] : (a < m) <=> (b < m)
         /\ \A m \in sub[l] : l \in sub[m] => m = l
<1>1. /\ l \in Prices /\ L \subseteq Nat /\ tr.root \in L /\ sub[tr.root] = L
      /\ sub[l] \subseteq L /\ SubtreeOK(L, sub, l)
  BY PriceFacts DEF TreeOK
<1>2. ASSUME NEW m \in sub[l], l \in sub[m], m # l
      PROVE  FALSE
  <2>1. sub[l] = {l} \union Under(sub, tr.kid["left"][l])
                     \union Under(sub, tr.kid["right"][l])
    BY KidFacts, SideFacts DEF Other
  <2>2. PICK d \in Sides : m \in Under(sub, tr.kid[d][l])
    BY <1>2, <2>1 DEF Sides
  <2>3. /\ tr.kid[d][l] # Nil /\ tr.kid[d][l] \in L
        /\ m \in sub[tr.kid[d][l]] /\ l \notin sub[tr.kid[d][l]]
    BY <2>2, KidFacts DEF Under
  <2>4. sub[m] \subseteq sub[tr.kid[d][l]]
    BY <2>3 DEF TreeOK, SubtreeOK
  <2> QED BY <1>2, <2>3, <2>4
<1>3. \A m \in L \ sub[l] : \A a, b \in sub[l] : (a < m) <=> (b < m)
  BY <1>1 DEF SubtreeOK
<1>4. \A m \in sub[l] : sub[m] \subseteq sub[l] /\ m \in L /\ m \in Nat
  BY <1>1 DEF SubtreeOK
<1>5. l \in sub[l]
  BY SideFacts, KidFacts
<1> QED BY <1>1, <1>2, <1>3, <1>4, <1>5

-----------------------------------------------------------------------------
(* Rotations.                                                              *)

LEMMA TreeFields ==
  ASSUME NEW tr \in Trees
  PROVE  /\ tr.root \in Maybe
         /\ tr.kid \in [Sides -> [Prices -> Maybe]]
         /\ tr.parent \in [Prices -> Maybe]
         /\ tr.color \in [Prices -> Colors]
         /\ \A d \in Sides : tr.kid[d] \in [Prices -> Maybe]
BY DEF Trees

IsTransplanted(tr, u, v, new) ==
  LET q == tr.parent[u]
  IN  /\ new \in Trees
      /\ new.root = IF q = Nil THEN v ELSE tr.root
      /\ \A e \in Sides, m \in Prices : new.kid[e][m] =
           IF q # Nil /\ e = SideOf(tr, u) /\ m = q THEN v ELSE tr.kid[e][m]
      /\ \A m \in Prices : new.parent[m] = IF m = v THEN q ELSE tr.parent[m]
      /\ new.color = tr.color

LEMMA TransplantIs ==
  ASSUME NEW tr \in Trees, NEW u \in Prices, NEW v \in Maybe
  PROVE  IsTransplanted(tr, u, v, Transplant(tr, u, v))
<1> DEFINE q == tr.parent[u]
           s == SideOf(tr, u)
           hung == IF q = Nil THEN [tr EXCEPT !.root = v]
                   ELSE [tr EXCEPT !.kid[s][q] = v]
<1>1. q \in Maybe /\ s \in Sides /\ Nil \notin Prices /\ u # Nil
  BY TreeFields, PriceFacts DEF SideOf, Sides
<1>2. /\ hung \in Trees
      /\ hung.root = IF q = Nil THEN v ELSE tr.root
      /\ \A e \in Sides, m \in Prices : hung.kid[e][m] =
           IF q # Nil /\ e = s /\ m = q THEN v ELSE tr.kid[e][m]
      /\ hung.parent = tr.parent /\ hung.color = tr.color
  <2>1. CASE q = Nil
    BY <1>1, <2>1, TreeFields DEF Trees
  <2>2. CASE q # Nil
    <3>1. q \in Prices
      BY <1>1, <2>2 DEF Maybe
    <3>2. hung = [tr EXCEPT !.kid = [tr.kid EXCEPT ![s] = [tr.kid[s] EXCEPT ![q] = v]]]
      BY <2>2
    <3>3. [tr.kid EXCEPT ![s] = [tr.kid[s] EXCEPT ![q] = v]] \in [Sides -> [Prices -> Maybe]]
      BY <1>1, <3>1, TreeFields
    <3> HIDE DEF q, s
    <3> QED BY <1>1, <2>2, <3>1, <3>2, <3>3, TreeFields DEF Trees
  <2> QED BY <2>1, <2>2
<1>3. Transplant(tr, u, v) = IF v = Nil THEN hung ELSE [hung EXCEPT !.parent[v] = q]
  BY DEF Transplant
<1> HIDE DEF hung, q, s
<1>4. CASE v = Nil
  BY <1>1, <1>2, <1>3, <1>4 DEF q, s, IsTransplanted
<1>5. CASE v # Nil
  <2>1. v \in Prices
    BY <1>5 DEF Maybe
  <2>2. [hung EXCEPT !.parent[v] = q] \in Trees
    BY <1>1, <1>2, <2>1, TreeFields DEF Trees
  <2>3. /\ [hung EXCEPT !.parent[v] = q].root = hung.root
        /\ [hung EXCEPT !.parent[v] = q].kid = hung.kid
        /\ [hung EXCEPT !.parent[v] = q].color = hung.color
        /\ \A m \in Prices : [hung EXCEPT !.parent[v] = q].parent[m] =
             IF m = v THEN q ELSE hung.parent[m]
    BY <1>2, TreeFields DEF Trees
  <2> QED BY <1>2, <1>3, <1>5, <2>2, <2>3 DEF q, s, IsTransplanted
<1> QED BY <1>4, <1>5

IsAttached(tr, p, d, l, new) ==
  /\ new \in Trees
  /\ new.root = tr.root
  /\ \A e \in Sides, m \in Prices : new.kid[e][m] =
       IF e = d /\ m = p THEN l ELSE tr.kid[e][m]
  /\ \A m \in Prices : new.parent[m] = IF m = l THEN p ELSE tr.parent[m]
  /\ new.color = tr.color

LEMMA AttachedIs ==
  ASSUME NEW tr \in Trees, NEW p \in Prices, NEW d \in Sides, NEW l \in Maybe
  PROVE  IsAttached(tr, p, d, l, Attached(tr, p, d, l))
<1> DEFINE hung == [tr EXCEPT !.kid[d][p] = l]
<1>1. Nil \notin Prices /\ p \in Maybe
  BY PriceFacts DEF Maybe
<1>2. /\ hung \in Trees
      /\ hung.root = tr.root
      /\ \A e \in Sides, m \in Prices : hung.kid[e][m] =
           IF e = d /\ m = p THEN l ELSE tr.kid[e][m]
      /\ hung.parent = tr.parent /\ hung.color = tr.color
  <2>1. hung = [tr EXCEPT !.kid = [tr.kid EXCEPT ![d] = [tr.kid[d] EXCEPT ![p] = l]]]
    OBVIOUS
  <2>2. [tr.kid EXCEPT ![d] = [tr.kid[d] EXCEPT ![p] = l]] \in [Sides -> [Prices -> Maybe]]
    BY TreeFields
  <2> QED BY <1>1, <2>1, <2>2, TreeFields DEF Trees
<1>3. Attached(tr, p, d, l) = IF l = Nil THEN hung ELSE [hung EXCEPT !.parent[l] = p]
  BY DEF Attached
<1> HIDE DEF hung
<1>4. CASE l = Nil
  BY <1>1, <1>2, <1>3, <1>4 DEF IsAttached
<1>5. CASE l # Nil
  <2>1. l \in Prices
    BY <1>5 DEF Maybe
  <2>2. [hung EXCEPT !.parent[l] = p] \in Trees
    BY <1>1, <1>2, <2>1, TreeFields DEF Trees
  <2>3. /\ [hung EXCEPT !.parent[l] = p].root = hung.root
        /\ [hung EXCEPT !.parent[l] = p].kid = hung.kid
        /\ [hung EXCEPT !.parent[l] = p].color = hung.color
        /\ \A m \in Prices : [hung EXCEPT !.parent[l] = p].parent[m] =
             IF m = l THEN p ELSE hung.parent[m]
    BY <1>2, TreeFields DEF Trees
  <2> QED BY <1>2, <1>3, <1>5, <2>2, <2>3 DEF IsAttached
<1> QED BY <1>4, <1>5

IsPainted(tr, l, c, new) ==
  /\ new \in Trees
  /\ new.root = tr.root /\ new.kid = tr.kid /\ new.parent = tr.parent
  /\ \A m \in Prices : new.color[m] = IF m = l THEN c ELSE tr.color[m]

LEMMA PaintedIs ==
  ASSUME NEW tr \in Trees, NEW l \in Maybe, NEW c \in Colors
  PROVE  IsPainted(tr, l, c, Painted(tr, l, c))
<1>1. Nil \notin Prices
  BY PriceFacts
<1>2. CASE l = Nil
  BY <1>1, <1>2 DEF Painted, IsPainted
<1>3. CASE l # Nil
  <2>1. l \in Prices /\ Painted(tr, l, c) = [tr EXCEPT !.color[l] = c]
    BY <1>3 DEF Maybe, Painted
  <2> QED BY <2>1, TreeFields DEF Trees, IsPainted
<1> QED BY <1>2, <1>3

\* new is the tree tr with its level l rotated down to side d.
IsRotated(tr, l, d, new) ==
  LET pivot == tr.kid[Other(d)][l]
      inner == tr.kid[d][pivot]
  IN  /\ new \in Trees
      /\ new.root = IF l = tr.root THEN pivot ELSE tr.root
      /\ \A e \in Sides, m \in Prices : new.kid[e][m] =
           IF m = l THEN (IF e = d THEN tr.kid[e][l] ELSE inner)
           ELSE IF m = pivot THEN (IF e = d THEN l ELSE tr.kid[e][m])
           ELSE IF tr.kid[e][m] = l THEN pivot ELSE tr.kid[e][m]
      /\ \A m \in Prices : new.parent[m] =
           IF m = l THEN pivot
           ELSE IF m = pivot THEN tr.parent[l]
           ELSE IF m = inner THEN l ELSE tr.parent[m]
      /\ new.color = tr.color

CanRotate(tr, L, sub, l, d) ==
  TreeOK(tr, L, sub) /\ l \in L /\ d \in Sides /\ tr.kid[Other(d)][l] # Nil

LEMMA RotateIs ==
  ASSUME NEW tr, NEW L, NEW sub, NEW l, NEW d, CanRotate(tr, L, sub, l, d)
  PROVE  IsRotated(tr, l, d, Rotate(tr, l, d))
<1> DEFINE o == Other(d)
           pivot == tr.kid[o][l]
           inner == tr.kid[d][pivot]
           q == tr.parent[l]
           s == SideOf(tr, l)
<1>1. /\ tr \in Trees /\ TreeOK(tr, L, sub) /\ l \in L /\ d \in Sides
      /\ L \subseteq Prices /\ o \in Sides /\ o # d /\ d = Other(o)
      /\ Sides = {d, o}
  BY SideFacts DEF CanRotate, TreeOK
<1>2. /\ pivot \in L /\ pivot # l /\ pivot # Nil /\ tr.parent[pivot] = l
      /\ tr.kid[d][l] # pivot
  BY <1>1, KidFacts DEF CanRotate
<1>3. /\ inner \in L \union {Nil} /\ inner # pivot
      /\ inner # Nil => tr.parent[inner] = pivot
  <2>1. inner \in L \union {Nil}
    BY <1>1, <1>2 DEF TreeOK, BranchOK
  <2>2. inner # Nil => inner # pivot /\ tr.parent[inner] = pivot
    BY <1>1, <1>2, KidFacts
  <2> QED BY <1>2, <2>1, <2>2
<1>4. inner # l
  <2>1. inner # Nil => inner \in sub[pivot] /\ pivot \in sub[l] /\ l \notin sub[pivot]
    <3>1. pivot \in sub[l] /\ l \notin sub[pivot]
      BY <1>1, <1>2, KidFacts
    <3>2. inner # Nil => inner \in sub[pivot]
      BY <1>1, <1>2, KidFacts
    <3> QED BY <3>1, <3>2
  <2> QED BY <1>1, <2>1, PriceFacts
<1>5. /\ (q = Nil) <=> (l = tr.root)
      /\ \A m \in L, e \in Sides : tr.kid[e][m] = l => m = q /\ e = s
      /\ q # Nil => q \in L /\ s \in Sides /\ tr.kid[s][q] = l
      /\ q \in Maybe
  BY <1>1, ParentFacts, TreeFields
<1>6. q # l /\ q # pivot
  <2>1. q = l => FALSE
    BY <1>1, <1>2, <1>5, KidFacts
  <2>2. q = pivot => FALSE
    <3> SUFFICES ASSUME q = pivot PROVE FALSE
      OBVIOUS
    <3>1. tr.kid[s][pivot] = l /\ s \in Sides
      BY <1>2, <1>5
    <3>2. l \in sub[pivot]
      BY <1>1, <1>2, <3>1, PriceFacts, KidFacts
    <3>3. l \notin sub[pivot]
      BY <1>1, <1>2, KidFacts
    <3> QED BY <3>2, <3>3
  <2> QED BY <2>1, <2>2
<1>7. \A m \in Prices \ L, e \in Sides : tr.kid[e][m] = Nil
  BY <1>1 DEF TreeOK, Sides
<1>8. l \in Prices /\ pivot \in Prices /\ inner \in Maybe /\ Nil \notin Prices /\ l \in Maybe /\ pivot \in Maybe
  BY <1>1, <1>2, <1>3, PriceFacts DEF Maybe
<1>9. PICK t1, t2, t3 :
        /\ t1 = Transplant(tr, l, pivot)
        /\ t2 = Attached(t1, l, o, inner)
        /\ t3 = Attached(t2, pivot, d, l)
        /\ t3 = Rotate(tr, l, d)
  BY DEF Rotate
<1> HIDE DEF o, pivot, inner
<1>10. /\ t1 \in Trees
       /\ t1.root = IF q = Nil THEN pivot ELSE tr.root
       /\ \A e \in Sides, m \in Prices : t1.kid[e][m] =
            IF q # Nil /\ e = s /\ m = q THEN pivot ELSE tr.kid[e][m]
       /\ \A m \in Prices : t1.parent[m] = IF m = pivot THEN q ELSE tr.parent[m]
       /\ t1.color = tr.color
  <2>1. IsTransplanted(tr, l, pivot, t1)
    BY <1>1, <1>8, <1>9, TransplantIs
  <2> QED BY <2>1 DEF IsTransplanted
<1>11. /\ t2 \in Trees
       /\ t2.root = t1.root
       /\ \A e \in Sides, m \in Prices : t2.kid[e][m] =
            IF e = o /\ m = l THEN inner ELSE t1.kid[e][m]
       /\ \A m \in Prices : t2.parent[m] = IF m = inner THEN l ELSE t1.parent[m]
       /\ t2.color = t1.color
  <2>1. IsAttached(t1, l, o, inner, t2)
    BY <1>1, <1>8, <1>9, <1>10, AttachedIs
  <2> QED BY <2>1 DEF IsAttached
<1>12. /\ t3 \in Trees
       /\ t3.root = t2.root
       /\ \A e \in Sides, m \in Prices : t3.kid[e][m] =
            IF e = d /\ m = pivot THEN l ELSE t2.kid[e][m]
       /\ \A m \in Prices : t3.parent[m] = IF m = l THEN pivot ELSE t2.parent[m]
       /\ t3.color = t2.color
  <2>1. IsAttached(t2, pivot, d, l, t3)
    <3>1. t2 \in Trees
      BY <1>11
    <3>2. t3 = Attached(t2, pivot, d, l)
      BY <1>9
    <3> QED BY <1>1, <1>8, <3>1, <3>2, AttachedIs
  <2> QED BY <2>1 DEF IsAttached
<1>13. t3.root = IF l = tr.root THEN pivot ELSE tr.root
  BY <1>5, <1>10, <1>11, <1>12
<1>14. \A m \in Prices : t3.parent[m] =
           IF m = l THEN pivot
           ELSE IF m = pivot THEN q
           ELSE IF m = inner THEN l ELSE tr.parent[m]
  BY <1>2, <1>3, <1>4, <1>10, <1>11, <1>12
<1>15. ASSUME NEW e \in Sides, NEW m \in Prices
       PROVE  t3.kid[e][m] =
           IF m = l THEN (IF e = d THEN tr.kid[e][l] ELSE inner)
           ELSE IF m = pivot THEN (IF e = d THEN l ELSE tr.kid[e][m])
           ELSE IF tr.kid[e][m] = l THEN pivot ELSE tr.kid[e][m]
  <2>1. t3.kid[e][m] = IF e = d /\ m = pivot THEN l
                       ELSE IF e = o /\ m = l THEN inner
                       ELSE IF q # Nil /\ e = s /\ m = q THEN pivot ELSE tr.kid[e][m]
    BY <1>10, <1>11, <1>12
  <2>2. (q # Nil /\ e = s /\ m = q) <=> (tr.kid[e][m] = l)
    BY <1>5, <1>7, <1>8
  <2>3. /\ e = d \/ e = o
        /\ m = l => tr.kid[e][m] # l
        /\ m = pivot => tr.kid[e][m] # l
    BY <1>1, <1>6, <2>2
  <2> QED BY <1>1, <1>2, <2>1, <2>2, <2>3
<1>16. t3.color = tr.color /\ t3 \in Trees /\ t3 = Rotate(tr, l, d)
  BY <1>9, <1>10, <1>11, <1>12
<1>17. IsRotated(tr, l, d, t3)
  BY <1>13, <1>14, <1>15, <1>16 DEF IsRotated, o, pivot, inner
<1> QED BY <1>16, <1>17

LEMMA BranchBy ==
  ASSUME NEW tr, NEW L, NEW sub, NEW l, NEW d \in Sides,
         tr.kid[d][l] \in L \union {Nil}, tr.kid[Other(d)][l] \in L \union {Nil},
         sub[l] = {l} \union Under(sub, tr.kid[d][l])
                      \union Under(sub, tr.kid[Other(d)][l]),
         \A m \in Under(sub, tr.kid[d][l]) : Beyond(d, m, l),
         \A m \in Under(sub, tr.kid[Other(d)][l]) : Beyond(Other(d), m, l)
  PROVE  BranchOK(tr, L, sub, l)
<1>1. CASE d = "left"
  BY <1>1 DEF BranchOK, Other, Sides
<1>2. CASE d = "right"
  BY <1>2 DEF BranchOK, Other, Sides
<1> QED BY <1>1, <1>2 DEF Sides

\* The parent of a level that is under another is so too.
LEMMA UpFacts ==
  ASSUME NEW tr, NEW L, NEW sub, TreeOK(tr, L, sub)
  PROVE  \A m \in L : \A k \in sub[m] : k # m => tr.parent[k] \in sub[m]
<1> DEFINE S == {m \in L : \A k \in sub[m] : k # m => tr.parent[k] \in sub[m]}
<1>1. ASSUME NEW m \in L,
             \A d \in Sides : tr.kid[d][m] # Nil => tr.kid[d][m] \in S
      PROVE  m \in S
  <2>1. ASSUME NEW k \in sub[m], k # m PROVE tr.parent[k] \in sub[m]
    <3>1. sub[m] = {m} \union Under(sub, tr.kid["left"][m])
                       \union Under(sub, tr.kid["right"][m])
      BY DEF TreeOK, BranchOK
    <3>2. PICK d \in Sides : k \in Under(sub, tr.kid[d][m])
      BY <2>1, <3>1 DEF Sides
    <3>3. tr.kid[d][m] # Nil /\ tr.kid[d][m] \in S /\ k \in sub[tr.kid[d][m]]
      BY <1>1, <3>2 DEF Under
    <3>4. /\ sub[tr.kid[d][m]] \subseteq sub[m]
          /\ tr.parent[tr.kid[d][m]] = m /\ m \in sub[m]
      BY <3>3, KidFacts
    <3> QED BY <3>3, <3>4
  <2> QED BY <2>1
<1>2. S \in SUBSET L
  OBVIOUS
<1> HIDE DEF S
<1>3. S = L
  BY <1>1, <1>2, TreeInduct
<1> QED BY <1>3 DEF S

LEMMA BeyondFacts ==
  ASSUME NEW d \in Sides, NEW a \in Nat, NEW b \in Nat, NEW c \in Nat
  PROVE  /\ Beyond(d, a, b) <=> Beyond(Other(d), b, a)
         /\ Beyond(d, a, b) /\ Beyond(d, b, c) => Beyond(d, a, c)
         /\ ~ Beyond(d, a, a)
         /\ Beyond(d, a, b) \/ a = b \/ Beyond(Other(d), a, b)
BY DEF Beyond, Sides, Other

\* Two levels are on the same side of a third.
SameSide(a, b, m) == (a < m) <=> (b < m)

LEMMA ConvexBy ==
  ASSUME NEW L, NEW sub, NEW l, sub[l] \subseteq Nat, L \subseteq Nat,
         \A m \in sub[l] : sub[m] \subseteq sub[l],
         \A m \in L \ sub[l] :
           \/ \A a, b \in sub[l] : SameSide(a, b, m)
           \/ \E d \in Sides : \A a \in sub[l] : Beyond(d, a, m)
  PROVE  SubtreeOK(L, sub, l)
BY DEF SubtreeOK, SameSide, Beyond, Sides

\* What is at and below each level once l is rotated down to side d.
RotSub(tr, sub, l, d) ==
  LET pivot == tr.kid[Other(d)][l]
  IN  [m \in Prices |->
         IF m = l THEN {l} \union Under(sub, tr.kid[d][l])
                           \union Under(sub, tr.kid[d][pivot])
         ELSE IF m = pivot THEN sub[l] ELSE sub[m]]

\* The levels around a rotation.
LEMMA RotateParts ==
  ASSUME NEW tr, NEW L, NEW sub, NEW l, NEW d, CanRotate(tr, L, sub, l, d),
         NEW o, o = Other(d), NEW pivot, pivot = tr.kid[o][l],
         NEW inner, inner = tr.kid[d][pivot]
  PROVE  /\ TreeOK(tr, L, sub) /\ l \in L /\ d \in Sides /\ o \in Sides
         /\ o # d /\ d = Other(o) /\ Sides = {d, o} /\ L \subseteq Prices
         /\ pivot \in L /\ pivot # l /\ pivot # Nil /\ l # Nil
         /\ inner \in L \union {Nil} /\ inner # l /\ inner # pivot
         /\ sub[l] = {l} \union Under(sub, tr.kid[d][l]) \union sub[pivot]
         /\ sub[pivot] = {pivot} \union Under(sub, inner)
                                 \union Under(sub, tr.kid[o][pivot])
         /\ tr.kid[d][l] \in L \union {Nil} /\ tr.kid[d][l] \notin {l, pivot}
         /\ tr.kid[o][pivot] \in L \union {Nil}
         /\ tr.kid[o][pivot] \notin {l, pivot}
         /\ tr.kid[o][pivot] # Nil => tr.kid[o][pivot] # inner
         /\ l \notin sub[pivot] /\ pivot # tr.root
<1>1. /\ TreeOK(tr, L, sub) /\ l \in L /\ d \in Sides /\ o \in Sides
      /\ o # d /\ d = Other(o) /\ Sides = {d, o} /\ L \subseteq Prices
  BY SideFacts DEF CanRotate, TreeOK
<1>2. pivot # Nil
  BY DEF CanRotate
<1>3. /\ pivot \in L /\ pivot # l /\ Under(sub, pivot) = sub[pivot]
      /\ l \notin Under(sub, pivot) /\ pivot # tr.root /\ l # Nil
      /\ tr.kid[Other(o)][l] # pivot
  BY <1>1, <1>2, KidFacts
<1>4. sub[l] = {l} \union Under(sub, tr.kid[d][l]) \union sub[pivot]
  <2>1. sub[l] = {l} \union Under(sub, tr.kid[d][l])
                     \union Under(sub, tr.kid[Other(d)][l])
    BY <1>1, KidFacts
  <2> QED BY <1>3, <2>1
<1>5. sub[pivot] = {pivot} \union Under(sub, inner)
                                 \union Under(sub, tr.kid[o][pivot])
  <2>1. sub[pivot] = {pivot} \union Under(sub, tr.kid[d][pivot])
                     \union Under(sub, tr.kid[Other(d)][pivot])
    BY <1>1, <1>3, KidFacts
  <2> QED BY <2>1
<1>6. /\ tr.kid[d][l] \in L \union {Nil}
      /\ \A e \in Sides : tr.kid[e][pivot] \in L \union {Nil}
  BY <1>1, <1>3 DEF TreeOK, BranchOK
<1>7. ASSUME NEW e \in Sides, tr.kid[e][pivot] # Nil
      PROVE  /\ tr.kid[e][pivot] # pivot /\ tr.kid[e][pivot] # l
             /\ tr.kid[e][pivot] # tr.kid[Other(e)][pivot]
  <2>1. /\ tr.kid[e][pivot] # pivot
        /\ tr.kid[e][pivot] # tr.kid[Other(e)][pivot]
        /\ tr.parent[tr.kid[e][pivot]] = pivot
    BY <1>1, <1>3, <1>7, KidFacts
  <2>2. tr.kid[e][pivot] \in sub[pivot]
    BY <1>1, <1>3, <1>7, KidFacts
  <2> QED BY <1>3, <2>1, <2>2
<1>8. tr.kid[d][l] # l
  BY <1>1, <1>3, KidFacts, PriceFacts
<1> QED BY <1>1, <1>2, <1>3, <1>4, <1>5, <1>6, <1>7, <1>8

LEMMA RotSubIs ==
  ASSUME NEW tr, NEW L, NEW sub, NEW l, NEW d, CanRotate(tr, L, sub, l, d),
         NEW s2, s2 = RotSub(tr, sub, l, d),
         NEW pivot, pivot = tr.kid[Other(d)][l], NEW inner, inner = tr.kid[d][pivot]
  PROVE  /\ s2 \in [Prices -> SUBSET L]
         /\ s2[l] = {l} \union Under(sub, tr.kid[d][l]) \union Under(sub, inner)
         /\ s2[pivot] = sub[l] /\ s2[l] \subseteq sub[l]
         /\ \A m \in Prices : m # l /\ m # pivot => s2[m] = sub[m]
         /\ \A k \in L \union {Nil} : k # l /\ k # pivot => Under(s2, k) = Under(sub, k)
         /\ Under(s2, pivot) = sub[l] /\ Under(s2, l) = s2[l]
<1>1. /\ TreeOK(tr, L, sub) /\ l \in L /\ L \subseteq Prices
      /\ pivot \in L /\ pivot # l /\ pivot # Nil /\ l # Nil
      /\ sub[l] = {l} \union Under(sub, tr.kid[d][l]) \union sub[pivot]
      /\ Under(sub, inner) \subseteq sub[pivot]
  BY RotateParts
<1>2. sub \in [Prices -> SUBSET L]
  BY <1>1 DEF TreeOK
<1>3. {l} \union Under(sub, tr.kid[d][l]) \union Under(sub, inner) \in SUBSET L
  BY <1>1, <1>2
<1>4. /\ s2 \in [Prices -> SUBSET L]
      /\ s2[l] = {l} \union Under(sub, tr.kid[d][l]) \union Under(sub, inner)
      /\ s2[pivot] = sub[l]
      /\ \A m \in Prices : m # l /\ m # pivot => s2[m] = sub[m]
  BY <1>1, <1>2, <1>3 DEF RotSub
<1> QED BY <1>1, <1>4 DEF Under

LEMMA RotateBranch ==
  ASSUME NEW tr, NEW L, NEW sub, NEW l, NEW d, CanRotate(tr, L, sub, l, d),
         NEW new, IsRotated(tr, l, d, new), NEW m \in L
  PROVE  BranchOK(new, L, RotSub(tr, sub, l, d), m)
<1>1. PICK o, pivot, inner, s2 :
        /\ o = Other(d) /\ pivot = tr.kid[o][l] /\ inner = tr.kid[d][pivot]
        /\ s2 = RotSub(tr, sub, l, d)
  OBVIOUS
<1> DEFINE A == Under(sub, tr.kid[d][l])
           I == Under(sub, inner)
           F == Under(sub, tr.kid[o][pivot])
<1>2. /\ TreeOK(tr, L, sub) /\ l \in L /\ d \in Sides /\ o \in Sides
      /\ o # d /\ d = Other(o) /\ Sides = {d, o} /\ L \subseteq Prices
      /\ pivot \in L /\ pivot # l /\ pivot # Nil /\ l # Nil
      /\ inner \in L \union {Nil} /\ inner # l /\ inner # pivot
      /\ sub[l] = {l} \union A \union sub[pivot]
      /\ sub[pivot] = {pivot} \union I \union F
      /\ tr.kid[d][l] \in L \union {Nil} /\ tr.kid[d][l] \notin {l, pivot}
      /\ tr.kid[o][pivot] \in L \union {Nil}
      /\ tr.kid[o][pivot] \notin {l, pivot}
  BY <1>1, RotateParts
<1>3. /\ s2[l] = {l} \union A \union I
      /\ s2[pivot] = sub[l]
      /\ \A k \in Prices : k # l /\ k # pivot => s2[k] = sub[k]
      /\ \A k \in L \union {Nil} : k # l /\ k # pivot => Under(s2, k) = Under(sub, k)
      /\ Under(s2, pivot) = sub[l] /\ Under(s2, l) = s2[l]
  BY <1>1, RotSubIs
<1>4. \A e \in Sides, k \in Prices : new.kid[e][k] =
           IF k = l THEN (IF e = d THEN tr.kid[e][l] ELSE inner)
           ELSE IF k = pivot THEN (IF e = d THEN l ELSE tr.kid[e][k])
           ELSE IF tr.kid[e][k] = l THEN pivot ELSE tr.kid[e][k]
  BY <1>1 DEF IsRotated
<1>5. /\ \A a \in A : Beyond(d, a, l)
      /\ \A a \in sub[pivot] : Beyond(o, a, l)
  <2>1. Under(sub, tr.kid[o][l]) = sub[pivot]
    BY <1>1, <1>2 DEF Under
  <2> QED BY <1>2, <2>1, KidFacts
<1>6. /\ \A a \in I : Beyond(d, a, pivot)
      /\ \A a \in F : Beyond(o, a, pivot)
  <2>1. \A e \in Sides : \A a \in Under(sub, tr.kid[e][pivot]) : Beyond(e, a, pivot)
    BY <1>2 DEF TreeOK, BranchOK
  <2> QED BY <1>1, <1>2, <2>1
<1>7. Beyond(d, l, pivot)
  <2>1. Beyond(o, pivot, l) /\ l \in Nat /\ pivot \in Nat
    BY <1>2, <1>5, PriceFacts
  <2> QED BY <1>2, <2>1, BeyondFacts
<1>8. \A a \in A : Beyond(d, a, pivot)
  <2>1. A \subseteq Nat /\ l \in Nat /\ pivot \in Nat
    BY <1>2, PriceFacts DEF TreeOK
  <2> QED BY <1>2, <1>5, <1>7, <2>1, BeyondFacts
<1>9. CASE m = l
  <2>1. new.kid[d][m] = tr.kid[d][l] /\ new.kid[o][m] = inner
    BY <1>2, <1>4, <1>9
  <2>2. Under(s2, new.kid[d][m]) = A /\ Under(s2, new.kid[o][m]) = I
    BY <1>2, <1>3, <2>1
  <2> HIDE DEF A, I, F
  <2> QED BY <1>1, <1>2, <1>3, <1>5, <1>9, <2>1, <2>2, BranchBy
<1>10. CASE m = pivot
  <2>1. new.kid[d][m] = l /\ new.kid[o][m] = tr.kid[o][pivot]
    BY <1>2, <1>4, <1>10
  <2>2. Under(s2, new.kid[d][m]) = {l} \union A \union I /\ Under(s2, new.kid[o][m]) = F
    BY <1>2, <1>3, <2>1
  <2> HIDE DEF A, I, F
  <2>3. s2[m] = {m} \union Under(s2, new.kid[d][m]) \union Under(s2, new.kid[o][m])
    BY <1>2, <1>3, <1>10, <2>2
  <2>4. /\ \A a \in Under(s2, new.kid[d][m]) : Beyond(d, a, m)
        /\ \A a \in Under(s2, new.kid[o][m]) : Beyond(o, a, m)
    BY <1>6, <1>7, <1>8, <1>10, <2>2
  <2>5. new.kid[d][m] \in L \union {Nil} /\ new.kid[o][m] \in L \union {Nil}
    BY <1>2, <2>1
  <2> QED BY <1>1, <1>2, <2>3, <2>4, <2>5, BranchBy
<1>11. CASE m # l /\ m # pivot
  <2>1. ASSUME NEW e \in Sides
        PROVE  /\ new.kid[e][m] \in L \union {Nil}
               /\ Under(s2, new.kid[e][m]) = Under(sub, tr.kid[e][m])
    <3>1. tr.kid[e][m] \in L \union {Nil}
      BY <1>2 DEF TreeOK, BranchOK
    <3>2. CASE tr.kid[e][m] = l
      BY <1>2, <1>3, <1>4, <1>11, <3>2 DEF Under
    <3>3. CASE tr.kid[e][m] # l
      <4>1. tr.kid[e][m] # pivot
        <5>1. tr.parent[pivot] = l
          <6>1. pivot = tr.kid[o][l] /\ pivot # Nil /\ o \in Sides /\ l \in L
            BY <1>1, <1>2
          <6> QED BY <1>2, <6>1, KidFacts
        <5>2. tr.kid[e][m] # Nil => tr.parent[tr.kid[e][m]] = m
          BY <1>2, KidFacts
        <5> QED BY <1>2, <1>11, <5>1, <5>2
      <4>2. new.kid[e][m] = tr.kid[e][m]
        BY <1>2, <1>4, <1>11, <3>3
      <4> QED BY <1>3, <3>1, <3>3, <4>1, <4>2
    <3> QED BY <3>2, <3>3
  <2>2. /\ sub[m] = {m} \union Under(sub, tr.kid["left"][m])
                        \union Under(sub, tr.kid["right"][m])
        /\ \A e \in Sides : \A k \in Under(sub, tr.kid[e][m]) : Beyond(e, k, m)
        /\ s2[m] = sub[m]
    BY <1>2, <1>3, <1>11 DEF TreeOK, BranchOK
  <2> QED BY <1>1, <2>1, <2>2 DEF BranchOK, Sides
<1> QED BY <1>9, <1>10, <1>11

LEMMA RotateSubtree ==
  ASSUME NEW tr, NEW L, NEW sub, NEW l, NEW d, CanRotate(tr, L, sub, l, d),
         NEW m \in L
  PROVE  SubtreeOK(L, RotSub(tr, sub, l, d), m)
<1>1. PICK o, pivot, inner, s2 :
        /\ o = Other(d) /\ pivot = tr.kid[o][l] /\ inner = tr.kid[d][pivot]
        /\ s2 = RotSub(tr, sub, l, d)
  OBVIOUS
<1> DEFINE A == Under(sub, tr.kid[d][l])
           I == Under(sub, inner)
           F == Under(sub, tr.kid[o][pivot])
<1>2. /\ TreeOK(tr, L, sub) /\ l \in L /\ d \in Sides /\ o \in Sides
      /\ o # d /\ d = Other(o) /\ L \subseteq Prices
      /\ pivot \in L /\ pivot # l /\ pivot # Nil
      /\ sub[l] = {l} \union A \union sub[pivot]
      /\ sub[pivot] = {pivot} \union I \union F
      /\ tr.kid[d][l] \in L \union {Nil} /\ inner \in L \union {Nil}
      /\ l \notin sub[pivot]
  BY <1>1, RotateParts
<1>3. /\ s2[l] = {l} \union A \union I
      /\ s2[pivot] = sub[l] /\ s2[l] \subseteq sub[l]
      /\ \A k \in Prices : k # l /\ k # pivot => s2[k] = sub[k]
  BY <1>1, RotSubIs
<1>4. \A k \in L : /\ k \in sub[k] /\ sub[k] \subseteq L
                   /\ \A a \in sub[k] : sub[a] \subseteq sub[k] /\ a \in L
                   /\ \A n \in L \ sub[k] : \A a, b \in sub[k] : SameSide(a, b, n)
  BY <1>2, SubFacts DEF SameSide
<1>5. tr.parent[pivot] = l /\ Under(sub, tr.kid[o][l]) = sub[pivot]
  <2>1. pivot = tr.kid[o][l] /\ pivot # Nil /\ o \in Sides /\ l \in L
    BY <1>1, <1>2
  <2> QED BY <1>2, <2>1, KidFacts
<1>6. L \subseteq Nat
  BY <1>2, PriceFacts
<1>7. CASE m = l
  <2>1. ASSUME NEW k \in s2[m] PROVE s2[k] \subseteq s2[m]
    <3>1. CASE k = l
      BY <1>7, <3>1
    <3>2. ASSUME NEW c \in L \union {Nil}, k \in Under(sub, c), k # l, k # pivot
          PROVE  s2[k] \subseteq Under(sub, c)
      BY <1>2, <1>3, <1>4, <3>2 DEF Under
    <3>3. k # pivot
      <4>1. pivot \notin A
        <5>1. pivot \in Under(sub, tr.kid[o][l])
          BY <1>2, <1>4, <1>5
        <5>2. \A a \in Under(sub, tr.kid[d][l]) : a \notin Under(sub, tr.kid[Other(d)][l])
          BY <1>2, KidFacts
        <5> QED BY <1>1, <5>1, <5>2
      <4>2. pivot \notin I
        BY <1>1, <1>2, KidFacts
      <4> QED BY <1>2, <1>3, <1>7, <4>1, <4>2
    <3>4. k # l => k \in A \/ k \in I
      BY <1>3, <1>7
    <3>5. k # l => s2[k] \subseteq A \/ s2[k] \subseteq I
      BY <1>2, <3>2, <3>3, <3>4
    <3> QED BY <1>3, <1>7, <3>1, <3>5
  <2>2. ASSUME NEW n \in L \ s2[m]
        PROVE  \/ \A a, b \in s2[m] : SameSide(a, b, n)
               \/ \E e \in Sides : \A a \in s2[m] : Beyond(e, a, n)
    <3>1. CASE n \notin sub[l]
      BY <1>3, <1>4, <1>7, <3>1
    <3>2. CASE n \in sub[l]
      <4>1. n = pivot \/ n \in F
        BY <1>2, <1>3, <1>7, <3>2
      <4>2. \A a \in s2[l] : Beyond(d, a, pivot) /\ a \in Nat
        <5>1. Beyond(o, pivot, l)
          BY <1>2, <1>4, <1>5, KidFacts
        <5>2. \A a \in A : Beyond(d, a, l)
          BY <1>2, KidFacts
        <5>3. \A a \in I : Beyond(d, a, pivot)
          BY <1>1, <1>2, KidFacts
        <5>4. l \in Nat /\ pivot \in Nat /\ s2[l] \subseteq Nat
          BY <1>2, <1>3, <1>4, <1>6
        <5>5. Beyond(d, l, pivot)
          BY <1>2, <5>1, <5>4, BeyondFacts
        <5>6. \A a \in A : Beyond(d, a, pivot)
          BY <1>2, <1>3, <5>2, <5>4, <5>5, BeyondFacts
        <5> QED BY <1>3, <5>3, <5>4, <5>5, <5>6
      <4>3. n # pivot => Beyond(d, pivot, n) /\ n \in Nat
        <5>1. n # pivot => Beyond(o, n, pivot)
          BY <1>1, <1>2, <4>1, KidFacts
        <5>2. n \in Nat /\ pivot \in Nat
          BY <1>2, <1>6
        <5> QED BY <1>2, <5>1, <5>2, BeyondFacts
      <4>4. pivot \in Nat
        BY <1>2, <1>6
      <4>5. \A a \in s2[l] : Beyond(d, a, n)
        BY <1>2, <4>2, <4>3, <4>4, BeyondFacts
      <4> QED BY <1>2, <1>7, <4>5
    <3> QED BY <3>1, <3>2
  <2>3. s2[m] \subseteq Nat
    BY <1>2, <1>3, <1>4, <1>6, <1>7
  <2> QED BY <1>1, <1>6, <2>1, <2>2, <2>3, ConvexBy
<1>8. CASE m = pivot
  <2>1. ASSUME NEW k \in s2[m] PROVE s2[k] \subseteq s2[m]
    BY <1>2, <1>3, <1>4, <1>8
  <2>2. \A n \in L \ s2[m] : \A a, b \in s2[m] : SameSide(a, b, n)
    BY <1>2, <1>3, <1>4, <1>8
  <2>3. s2[m] \subseteq Nat
    BY <1>2, <1>3, <1>4, <1>6, <1>8
  <2> QED BY <1>1, <1>6, <2>1, <2>2, <2>3, ConvexBy
<1>9. CASE m # l /\ m # pivot
  <2>1. ASSUME NEW k \in s2[m] PROVE s2[k] \subseteq s2[m]
    <3>1. k \in sub[m] /\ s2[m] = sub[m] /\ k \in L
      BY <1>2, <1>3, <1>4, <1>9
    <3>2. k = pivot => l \in sub[m]
      BY <1>2, <1>5, <1>9, <3>1, UpFacts
    <3> QED BY <1>2, <1>3, <1>4, <3>1, <3>2
  <2>2. \A n \in L \ s2[m] : \A a, b \in s2[m] : SameSide(a, b, n)
    BY <1>2, <1>3, <1>4, <1>9
  <2>3. s2[m] \subseteq Nat
    BY <1>2, <1>3, <1>4, <1>6, <1>9
  <2> QED BY <1>1, <1>6, <2>1, <2>2, <2>3, ConvexBy
<1> QED BY <1>7, <1>8, <1>9

LEMMA RotateParent ==
  ASSUME NEW tr, NEW L, NEW sub, NEW l, NEW d, CanRotate(tr, L, sub, l, d),
         NEW new, IsRotated(tr, l, d, new), NEW m \in L
  PROVE  ParentOK(new, L, m)
<1>1. PICK o, pivot, inner :
        /\ o = Other(d) /\ pivot = tr.kid[o][l] /\ inner = tr.kid[d][pivot]
  OBVIOUS
<1>2. /\ TreeOK(tr, L, sub) /\ l \in L /\ d \in Sides /\ o \in Sides
      /\ o # d /\ d = Other(o) /\ Sides = {d, o} /\ L \subseteq Prices
      /\ pivot \in L /\ pivot # l /\ pivot # Nil /\ l # Nil
      /\ inner \in L \union {Nil} /\ inner # l /\ inner # pivot
      /\ tr.kid[d][l] \in L \union {Nil} /\ tr.kid[d][l] \notin {l, pivot}
      /\ tr.kid[o][pivot] \in L \union {Nil}
      /\ tr.kid[o][pivot] \notin {l, pivot}
      /\ tr.kid[o][pivot] # Nil => tr.kid[o][pivot] # inner
      /\ pivot # tr.root
  BY <1>1, RotateParts
<1>3. /\ \A e \in Sides, k \in Prices : new.kid[e][k] =
           IF k = l THEN (IF e = d THEN tr.kid[e][l] ELSE inner)
           ELSE IF k = pivot THEN (IF e = d THEN l ELSE tr.kid[e][k])
           ELSE IF tr.kid[e][k] = l THEN pivot ELSE tr.kid[e][k]
      /\ new.root = IF l = tr.root THEN pivot ELSE tr.root
      /\ \A k \in Prices : new.parent[k] =
           IF k = l THEN pivot
           ELSE IF k = pivot THEN tr.parent[l]
           ELSE IF k = inner THEN l ELSE tr.parent[k]
  BY <1>1 DEF IsRotated
<1>4. \A k \in L : /\ IF k = tr.root THEN tr.parent[k] = Nil
                      ELSE tr.parent[k] \in L /\ \E e \in Sides : tr.kid[e][tr.parent[k]] = k
                   /\ \A e \in Sides : tr.kid[e][k] # Nil => /\ tr.parent[tr.kid[e][k]] = k
                                                             /\ tr.kid[e][k] \in L
  BY <1>2 DEF TreeOK, ParentOK, BranchOK
<1>5. /\ tr.parent[pivot] = l
      /\ inner # Nil => tr.parent[inner] = pivot
      /\ tr.parent[l] # l /\ tr.parent[l] # pivot
  <2>1. tr.parent[pivot] = l
    BY <1>1, <1>2, <1>4
  <2>2. inner # Nil => tr.parent[inner] = pivot
    BY <1>1, <1>2, <1>4
  <2>3. \A e \in Sides : tr.kid[e][l] # l /\ tr.kid[e][pivot] # l
    BY <1>1, <1>2
  <2>4. tr.parent[l] = Nil \/ \E e \in Sides : tr.kid[e][tr.parent[l]] = l
    BY <1>2, <1>4
  <2>5. Nil \notin L
    BY <1>2, PriceFacts
  <2> QED BY <1>2, <2>1, <2>2, <2>3, <2>4, <2>5
<1>6. Nil \notin L
  BY <1>2, PriceFacts
<1>7. CASE m = l
  <2>1. new.parent[m] = pivot /\ m # new.root /\ new.kid[d][pivot] = m
    BY <1>2, <1>3, <1>7
  <2>2. ASSUME NEW e \in Sides, new.kid[e][m] # Nil
        PROVE  new.parent[new.kid[e][m]] = m
    <3>1. CASE e = d
      <4>1. new.kid[e][m] = tr.kid[d][l] /\ tr.kid[d][l] \in L
        BY <1>2, <1>3, <1>7, <2>2, <3>1
      <4>2. tr.parent[tr.kid[d][l]] = l
        BY <1>2, <1>4, <1>6, <4>1
      <4> QED BY <1>2, <1>3, <1>5, <1>7, <4>1, <4>2
    <3>2. CASE e = o
      <4>1. new.kid[e][m] = inner /\ inner \in L
        BY <1>2, <1>3, <1>7, <2>2, <3>2
      <4> QED BY <1>2, <1>3, <1>7, <4>1
    <3> QED BY <1>2, <3>1, <3>2
  <2> QED BY <1>2, <2>1, <2>2 DEF ParentOK
<1>8. CASE m = pivot
  <2>1. new.parent[m] = tr.parent[l] /\ (m = new.root <=> l = tr.root)
    BY <1>2, <1>3, <1>8
  <2>2. ASSUME l # tr.root
        PROVE  tr.parent[l] \in L /\ \E e \in Sides : new.kid[e][tr.parent[l]] = m
    <3>1. tr.parent[l] \in L /\ \E e \in Sides : tr.kid[e][tr.parent[l]] = l
      BY <1>2, <1>4, <2>2
    <3> QED BY <1>2, <1>3, <1>5, <1>8, <3>1
  <2>3. l = tr.root => tr.parent[l] = Nil
    BY <1>2, <1>4
  <2>4. ASSUME NEW e \in Sides, new.kid[e][m] # Nil
        PROVE  new.parent[new.kid[e][m]] = m
    <3>1. CASE e = d
      BY <1>2, <1>3, <1>8, <3>1
    <3>2. CASE e = o
      <4>1. new.kid[e][m] = tr.kid[o][pivot] /\ tr.kid[o][pivot] \in L
        BY <1>2, <1>3, <1>8, <2>4, <3>2
      <4>2. tr.parent[tr.kid[o][pivot]] = pivot
        BY <1>2, <1>4, <1>6, <4>1
      <4> QED BY <1>2, <1>3, <1>6, <1>8, <4>1, <4>2
    <3> QED BY <1>2, <3>1, <3>2
  <2> QED BY <2>1, <2>2, <2>3, <2>4 DEF ParentOK
<1>9. CASE m # l /\ m # pivot
  <2>1. (m = new.root) <=> (m = tr.root)
    BY <1>3, <1>9
  <2>2. ASSUME NEW e \in Sides, new.kid[e][m] # Nil
        PROVE  new.parent[new.kid[e][m]] = m
    <3>1. CASE tr.kid[e][m] = l
      <4>1. new.kid[e][m] = pivot /\ tr.parent[l] = m
        BY <1>2, <1>3, <1>4, <1>9, <3>1
      <4> QED BY <1>2, <1>3, <4>1
    <3>2. CASE tr.kid[e][m] # l
      <4>1. new.kid[e][m] = tr.kid[e][m]
        BY <1>2, <1>3, <1>9, <3>2
      <4>2. tr.kid[e][m] \in L /\ tr.parent[tr.kid[e][m]] = m
        BY <1>4, <2>2, <4>1
      <4>3. tr.kid[e][m] # pivot /\ tr.kid[e][m] # inner
        BY <1>5, <1>9, <4>2, <1>6
      <4> QED BY <1>2, <1>3, <3>2, <4>1, <4>2, <4>3
    <3> QED BY <3>1, <3>2
  <2>3. CASE m = inner
    <3>1. m # tr.root
      BY <1>2, <1>4, <1>5, <1>6, <2>3
    <3>2. new.parent[m] = l /\ new.kid[o][l] = m
      BY <1>2, <1>3, <1>9, <2>3
    <3> QED BY <1>2, <2>1, <3>1, <3>2, <2>2 DEF ParentOK
  <2>4. CASE m # inner
    <3>1. new.parent[m] = tr.parent[m]
      BY <1>2, <1>3, <1>9, <2>4
    <3>2. ASSUME m # tr.root
          PROVE  \E e \in Sides : new.kid[e][tr.parent[m]] = m
      <4>1. PICK e \in Sides : tr.kid[e][tr.parent[m]] = m
        BY <1>4, <3>2
      <4>2. tr.parent[m] \in L
        BY <1>4, <3>2
      <4>3. tr.parent[m] = l => new.kid[e][l] = m
        BY <1>1, <1>2, <1>3, <1>9, <4>1
      <4>4. tr.parent[m] = pivot => new.kid[e][pivot] = m
        BY <1>1, <1>2, <1>3, <2>4, <4>1
      <4>5. tr.parent[m] # l /\ tr.parent[m] # pivot => new.kid[e][tr.parent[m]] = m
        BY <1>2, <1>3, <1>9, <4>1, <4>2
      <4> QED BY <4>3, <4>4, <4>5
    <3> QED BY <1>4, <2>1, <2>2, <3>1, <3>2 DEF ParentOK
  <2> QED BY <2>3, <2>4
<1> QED BY <1>7, <1>8, <1>9

\* A rotation keeps the tree a search tree of the same levels.
LEMMA RotateTree ==
  ASSUME NEW tr, NEW L, NEW sub, NEW l, NEW d, CanRotate(tr, L, sub, l, d),
         NEW new, IsRotated(tr, l, d, new)
  PROVE  TreeOK(new, L, RotSub(tr, sub, l, d))
<1>1. PICK o, pivot, inner, s2 :
        /\ o = Other(d) /\ pivot = tr.kid[o][l] /\ inner = tr.kid[d][pivot]
        /\ s2 = RotSub(tr, sub, l, d)
  OBVIOUS
<1>2. /\ TreeOK(tr, L, sub) /\ l \in L /\ L \subseteq Prices
      /\ pivot \in L /\ pivot # l /\ pivot # tr.root
      /\ inner \in L \union {Nil} /\ d \in Sides
  BY <1>1, RotateParts
<1>3. /\ s2 \in [Prices -> SUBSET L] /\ s2[pivot] = sub[l]
      /\ \A k \in Prices : k # l /\ k # pivot => s2[k] = sub[k]
  BY <1>1, RotSubIs
<1>4. /\ new \in Trees
      /\ new.root = IF l = tr.root THEN pivot ELSE tr.root
      /\ \A e \in Sides, k \in Prices : new.kid[e][k] =
           IF k = l THEN (IF e = d THEN tr.kid[e][l] ELSE inner)
           ELSE IF k = pivot THEN (IF e = d THEN l ELSE tr.kid[e][k])
           ELSE IF tr.kid[e][k] = l THEN pivot ELSE tr.kid[e][k]
      /\ \A k \in Prices : new.parent[k] =
           IF k = l THEN pivot
           ELSE IF k = pivot THEN tr.parent[l]
           ELSE IF k = inner THEN l ELSE tr.parent[k]
  BY <1>1 DEF IsRotated
<1>5. IsFiniteSet(L) /\ tr.root \in L /\ sub[tr.root] = L
  BY <1>2 DEF TreeOK
<1>6. new.root \in L /\ s2[new.root] = L
  BY <1>2, <1>3, <1>4, <1>5
<1>7. \A k \in L : BranchOK(new, L, s2, k) /\ SubtreeOK(L, s2, k) /\ ParentOK(new, L, k)
  BY <1>1, RotateBranch, RotateSubtree, RotateParent
<1>8. ASSUME NEW k \in Prices \ L
      PROVE  /\ new.kid["left"][k] = Nil /\ new.kid["right"][k] = Nil
             /\ new.parent[k] = Nil
  <2>1. tr.kid["left"][k] = Nil /\ tr.kid["right"][k] = Nil /\ tr.parent[k] = Nil
    BY <1>2 DEF TreeOK
  <2>2. k # l /\ k # pivot /\ k # inner /\ Nil # l
    BY <1>2, PriceFacts
  <2> QED BY <1>4, <2>1, <2>2 DEF Sides
<1>9. TreeOK(new, L, s2)
  BY <1>2, <1>3, <1>4, <1>5, <1>6, <1>7, <1>8 DEF TreeOK
<1> QED BY <1>1, <1>9

-----------------------------------------------------------------------------
(* A new leaf.                                                             *)

\* p belongs under q, right next to it in price, and its side d is free.
CanHang(tr, L, sub, p, q, d) ==
  /\ TreeOK(tr, L, sub)
  /\ p \in Prices \ L /\ q \in L /\ d \in Sides
  /\ tr.kid[d][q] = Nil /\ Beyond(d, p, q)
  /\ \A m \in L : m # q => ((m < p) <=> (m < q))

IsHung(tr, p, q, d, new) ==
  /\ new \in Trees /\ new.root = tr.root
  /\ \A e \in Sides, m \in Prices : new.kid[e][m] =
       IF e = d /\ m = q THEN p ELSE tr.kid[e][m]
  /\ \A m \in Prices : new.parent[m] = IF m = p THEN q ELSE tr.parent[m]
  /\ \A m \in Prices : new.color[m] = IF m = p THEN "red" ELSE tr.color[m]

HungSub(sub, L, p, q) ==
  [m \in Prices |-> IF m = p THEN {p}
                    ELSE IF m \in L /\ q \in sub[m] THEN sub[m] \union {p}
                    ELSE sub[m]]

LEMMA HangIs ==
  ASSUME NEW tr, NEW L, NEW sub, NEW p, NEW q, NEW d, CanHang(tr, L, sub, p, q, d)
  PROVE  IsHung(tr, p, q, d, Attached(Painted(tr, p, "red"), q, d, p))
<1>1. /\ tr \in Trees /\ p \in Maybe /\ q \in Prices /\ d \in Sides /\ "red" \in Colors
  BY DEF CanHang, TreeOK, Maybe, Colors
<1>2. PICK t1, t2 : t1 = Painted(tr, p, "red") /\ t2 = Attached(t1, q, d, p)
  OBVIOUS
<1>3. IsPainted(tr, p, "red", t1)
  BY <1>1, <1>2, PaintedIs
<1>4. t1 \in Trees
  BY <1>3 DEF IsPainted
<1>5. IsAttached(t1, q, d, p, t2)
  BY <1>1, <1>2, <1>4, AttachedIs
<1>6. IsHung(tr, p, q, d, t2)
  BY <1>3, <1>5 DEF IsPainted, IsAttached, IsHung
<1> QED BY <1>2, <1>6

\* A leaf in its place keeps the tree a search tree.
LEMMA HangTree ==
  ASSUME NEW tr, NEW L, NEW sub, NEW p, NEW q, NEW d, CanHang(tr, L, sub, p, q, d),
         NEW new, IsHung(tr, p, q, d, new)
  PROVE  TreeOK(new, L \union {p}, HungSub(sub, L, p, q))
<1>1. PICK s2, K : s2 = HungSub(sub, L, p, q) /\ K = L \union {p}
  OBVIOUS
<1>2. /\ TreeOK(tr, L, sub) /\ p \in Prices /\ p \notin L /\ q \in L /\ d \in Sides
      /\ tr.kid[d][q] = Nil /\ Beyond(d, p, q) /\ L \subseteq Prices /\ q # p
      /\ \A m \in L : m # q => ((m < p) <=> (m < q))
      /\ IsFiniteSet(L) /\ tr.root \in L /\ sub[tr.root] = L
      /\ sub \in [Prices -> SUBSET L] /\ Nil \notin Prices /\ K \subseteq Nat
      /\ p # Nil /\ K \subseteq Prices
  BY <1>1, PriceFacts DEF CanHang, TreeOK
<1>3. /\ new \in Trees /\ new.root = tr.root
      /\ \A e \in Sides, m \in Prices : new.kid[e][m] =
           IF e = d /\ m = q THEN p ELSE tr.kid[e][m]
      /\ \A m \in Prices : new.parent[m] = IF m = p THEN q ELSE tr.parent[m]
  BY DEF IsHung
<1>4. /\ s2 \in [Prices -> SUBSET K] /\ s2[p] = {p}
      /\ \A m \in L : s2[m] = IF q \in sub[m] THEN sub[m] \union {p} ELSE sub[m]
  BY <1>1, <1>2 DEF HungSub
<1>5. \A k \in L \union {Nil} :
        Under(s2, k) = IF q \in Under(sub, k) THEN Under(sub, k) \union {p}
                       ELSE Under(sub, k)
  BY <1>2, <1>4 DEF Under
<1>6. \A m \in L : \A e \in Sides : tr.kid[e][m] \in L \union {Nil}
  BY <1>2 DEF TreeOK, BranchOK
<1>7. \A e \in Sides : tr.kid[e][p] = Nil
  BY <1>2 DEF TreeOK, Sides
<1>8. Under(s2, p) = {p} /\ Under(s2, Nil) = {}
  BY <1>2, <1>4 DEF Under
<1>9. ASSUME NEW m \in K PROVE BranchOK(new, K, s2, m)
  <2>1. CASE m = p
    <3>1. \A e \in Sides : new.kid[e][m] = Nil /\ Under(s2, new.kid[e][m]) = {}
      BY <1>2, <1>3, <1>7, <1>8, <2>1
    <3> QED BY <1>4, <2>1, <3>1 DEF BranchOK, Sides
  <2>2. CASE m = q
    <3>1. PICK o : o = Other(d) /\ o \in Sides /\ o # d
      BY <1>2, SideFacts
    <3>2. new.kid[d][m] = p /\ new.kid[o][m] = tr.kid[o][q]
      BY <1>2, <1>3, <2>2, <3>1
    <3>3. /\ q \notin Under(sub, tr.kid[o][q]) /\ q \in sub[q]
          /\ \A a \in Under(sub, tr.kid[o][q]) : Beyond(o, a, q)
      BY <1>2, <3>1, KidFacts
    <3>4. sub[q] = {q} \union Under(sub, tr.kid[o][q])
      BY <1>2, <3>1, KidFacts DEF Under
    <3>5. Under(s2, new.kid[d][m]) = {p} /\ Under(s2, new.kid[o][m]) = Under(sub, tr.kid[o][q])
      BY <1>2, <1>5, <1>6, <1>8, <3>1, <3>2, <3>3
    <3>6. s2[m] = {m} \union Under(s2, new.kid[d][m]) \union Under(s2, new.kid[o][m])
      BY <1>2, <1>4, <2>2, <3>3, <3>4, <3>5
    <3>7. new.kid[d][m] \in K \union {Nil} /\ new.kid[o][m] \in K \union {Nil}
      BY <1>1, <1>2, <1>6, <3>1, <3>2
    <3>8. /\ \A a \in Under(s2, new.kid[d][m]) : Beyond(d, a, m)
          /\ \A a \in Under(s2, new.kid[o][m]) : Beyond(o, a, m)
      BY <1>2, <2>2, <3>3, <3>5
    <3> QED BY <1>2, <3>1, <3>6, <3>7, <3>8, BranchBy
  <2>3. CASE m \in L /\ m # q
    <3>1. \A e \in Sides : /\ new.kid[e][m] = tr.kid[e][m]
                           /\ tr.kid[e][m] \in L \union {Nil}
      BY <1>2, <1>3, <1>6, <2>3
    <3>2. /\ sub[m] = {m} \union Under(sub, tr.kid["left"][m])
                          \union Under(sub, tr.kid["right"][m])
          /\ \A e \in Sides : \A k \in Under(sub, tr.kid[e][m]) : Beyond(e, k, m)
      BY <1>2, <2>3 DEF TreeOK, BranchOK
    <3>3. \A e \in Sides : q \in Under(sub, tr.kid[e][m]) => Beyond(e, p, m)
      <4>1. (m < p) <=> (m < q)
        BY <1>2, <2>3
      <4>2. m # p /\ m \in Nat /\ p \in Nat /\ q \in Nat
        BY <1>1, <1>2, <2>3
      <4> QED BY <3>2, <4>1, <4>2 DEF Beyond, Sides
    <3>4. ASSUME NEW e \in Sides
          PROVE  /\ new.kid[e][m] \in K \union {Nil}
                 /\ \A k \in Under(s2, new.kid[e][m]) : Beyond(e, k, m)
      BY <1>1, <1>5, <3>1, <3>2, <3>3
    <3>5. s2[m] = {m} \union Under(s2, new.kid["left"][m])
                      \union Under(s2, new.kid["right"][m])
      <4>1. "left" \in Sides /\ "right" \in Sides
        BY DEF Sides
      <4>2. PICK A, B : /\ A = Under(sub, tr.kid["left"][m])
                        /\ B = Under(sub, tr.kid["right"][m])
        OBVIOUS
      <4>3. /\ Under(s2, new.kid["left"][m]) = IF q \in A THEN A \union {p} ELSE A
            /\ Under(s2, new.kid["right"][m]) = IF q \in B THEN B \union {p} ELSE B
        BY <1>5, <3>1, <4>1, <4>2
      <4>4. /\ sub[m] = {m} \union A \union B
            /\ s2[m] = IF q \in sub[m] THEN sub[m] \union {p} ELSE sub[m]
            /\ q # m
        BY <1>4, <2>3, <3>2, <4>2
      <4> QED BY <4>3, <4>4
    <3> QED BY <3>4, <3>5 DEF BranchOK
  <2> QED BY <1>1, <1>2, <2>1, <2>2, <2>3
<1>10. \A k \in L : /\ k \in sub[k] /\ sub[k] \subseteq L
                    /\ \A a \in sub[k] : sub[a] \subseteq sub[k] /\ a \in L
                    /\ \A n \in L \ sub[k] : \A a, b \in sub[k] : SameSide(a, b, n)
  BY <1>2, SubFacts DEF SameSide
<1>11. ASSUME NEW m \in K PROVE SubtreeOK(K, s2, m)
  <2>1. s2[m] \subseteq Nat
    BY <1>2, <1>4
  <2>2. ASSUME NEW k \in s2[m] PROVE s2[k] \subseteq s2[m]
    <3>1. CASE k = p
      BY <1>4, <2>2, <3>1
    <3>2. CASE k # p
      <4>1. m \in L /\ k \in sub[m] /\ k \in L /\ sub[k] \subseteq sub[m]
        <5>1. m # p
          BY <1>4, <2>2, <3>2
        <5>2. m \in L
          BY <1>1, <5>1
        <5>3. k \in sub[m]
          BY <1>4, <2>2, <3>2, <5>2
        <5> QED BY <1>10, <5>2, <5>3
      <4> QED BY <1>4, <4>1
    <3> QED BY <3>1, <3>2
  <2>3. ASSUME NEW n \in K \ s2[m], NEW a \in s2[m], NEW b \in s2[m]
        PROVE  SameSide(a, b, n)
    <3>1. CASE m = p
      BY <1>4, <3>1 DEF SameSide
    <3>2. CASE m \in L /\ n = p
      <4>1. q \notin sub[m] /\ s2[m] = sub[m]
        BY <1>4, <3>2
      <4>2. SameSide(a, b, q) /\ a \in L /\ b \in L /\ a # q /\ b # q
        BY <1>2, <1>10, <3>2, <4>1
      <4> QED BY <1>2, <3>2, <4>2 DEF SameSide
    <3>3. CASE m \in L /\ n # p
      <4>1. n \in L /\ n \notin sub[m] /\ n \in Nat
        BY <1>1, <1>2, <1>4, <3>3
      <4>2. q \in sub[m] => ((q < n) <=> (p < n))
        <5>1. n # q => ((n < p) <=> (n < q))
          BY <1>2, <4>1
        <5>2. p \in Nat /\ q \in Nat
          BY <1>1, <1>2
        <5> QED BY <3>3, <4>1, <5>1, <5>2
      <4>3. \A c, e \in sub[m] : SameSide(c, e, n)
        BY <1>10, <3>3, <4>1
      <4>4. \A c \in s2[m] : c \in sub[m] \/ (c = p /\ q \in sub[m])
        BY <1>4, <3>3
      <4> QED BY <4>2, <4>3, <4>4 DEF SameSide
    <3> QED BY <1>1, <3>1, <3>2, <3>3
  <2> QED BY <1>2, <2>1, <2>2, <2>3, ConvexBy
<1>12. ASSUME NEW m \in K PROVE ParentOK(new, K, m)
  <2>1. CASE m = p
    BY <1>1, <1>2, <1>3, <1>7, <2>1 DEF ParentOK
  <2>2. CASE m \in L
    <3>1. /\ IF m = tr.root THEN tr.parent[m] = Nil
             ELSE tr.parent[m] \in L /\ \E e \in Sides : tr.kid[e][tr.parent[m]] = m
          /\ \A e \in Sides : tr.kid[e][m] # Nil => tr.parent[tr.kid[e][m]] = m
      BY <1>2, <2>2 DEF TreeOK, ParentOK
    <3>2. new.parent[m] = tr.parent[m] /\ m # p /\ m \in Prices
      BY <1>2, <1>3, <2>2
    <3>3. ASSUME m # tr.root
          PROVE  \E e \in Sides : new.kid[e][tr.parent[m]] = m
      <4>1. PICK e \in Sides : tr.kid[e][tr.parent[m]] = m
        BY <3>1, <3>3
      <4>2. ~ (e = d /\ tr.parent[m] = q)
        BY <1>2, <3>2, <4>1
      <4> QED BY <1>2, <1>3, <3>1, <3>3, <4>1, <4>2
    <3>4. ASSUME NEW e \in Sides, new.kid[e][m] # Nil
          PROVE  new.parent[new.kid[e][m]] = m
      <4>1. CASE e = d /\ m = q
        BY <1>2, <1>3, <3>2, <4>1
      <4>2. CASE ~ (e = d /\ m = q)
        <5>1. new.kid[e][m] = tr.kid[e][m] /\ tr.kid[e][m] \in L
          BY <1>3, <1>6, <2>2, <3>2, <3>4, <4>2
        <5>2. tr.parent[tr.kid[e][m]] = m
          BY <3>1, <3>4, <5>1
        <5>3. tr.kid[e][m] # p /\ tr.kid[e][m] \in Prices
          BY <1>2, <5>1
        <5> QED BY <1>3, <5>1, <5>2, <5>3
      <4> QED BY <4>1, <4>2
    <3> QED BY <1>1, <1>3, <3>1, <3>2, <3>3, <3>4 DEF ParentOK
  <2> QED BY <1>1, <2>1, <2>2
<1>13. ASSUME NEW k \in Prices \ K
       PROVE  /\ new.kid["left"][k] = Nil /\ new.kid["right"][k] = Nil
              /\ new.parent[k] = Nil
  <2>1. tr.kid["left"][k] = Nil /\ tr.kid["right"][k] = Nil /\ tr.parent[k] = Nil
    BY <1>1, <1>2 DEF TreeOK
  <2>2. k # q /\ k # p
    BY <1>1, <1>2
  <2> QED BY <1>3, <2>1, <2>2 DEF Sides
<1>14. new.root \in K /\ s2[new.root] = K /\ K # {}
  BY <1>1, <1>2, <1>3, <1>4
<1>15. IsFiniteSet(K)
  BY <1>1, <1>2, FS_AddElement
<1>16. TreeOK(new, K, s2)
  BY <1>2, <1>3, <1>4, <1>9, <1>11, <1>12, <1>13, <1>14, <1>15 DEF TreeOK
<1> QED BY <1>1, <1>16

\* The first level of an empty tree.
LEMMA FirstTree ==
  ASSUME NEW tr, TreeOK(tr, {}, [m \in Prices |-> {}]), NEW p \in Prices,
         NEW new \in Trees, new.root = p, new.kid = tr.kid, new.parent = tr.parent
  PROVE  TreeOK(new, {p}, [m \in Prices |-> IF m = p THEN {p} ELSE {}])
<1>1. \A l \in Prices : /\ tr.kid["left"][l] = Nil /\ tr.kid["right"][l] = Nil
                        /\ tr.parent[l] = Nil
  BY DEF TreeOK
<1>2. PICK s2 : s2 = [m \in Prices |-> IF m = p THEN {p} ELSE {}]
  OBVIOUS
<1>3. p # Nil /\ s2[p] = {p} /\ s2 \in [Prices -> SUBSET {p}]
  BY <1>2, PriceFacts
<1>4. BranchOK(new, {p}, s2, p)
  BY <1>1, <1>3 DEF BranchOK, Sides, Under
<1>5. SubtreeOK({p}, s2, p)
  BY <1>3 DEF SubtreeOK
<1>6. ParentOK(new, {p}, p)
  BY <1>1 DEF ParentOK, Sides
<1>7. IsFiniteSet({p}) /\ {p} \subseteq Prices /\ {p} # {}
  BY FS_Singleton
<1>8. TreeOK(new, {p}, s2)
  BY <1>1, <1>3, <1>4, <1>5, <1>6, <1>7 DEF TreeOK
<1> QED BY <1>2, <1>8

-----------------------------------------------------------------------------
(* A level with at most one child is taken out.                            *)

CanSplice(tr, L, sub, u, e) ==
  TreeOK(tr, L, sub) /\ u \in L /\ e \in Sides /\ tr.kid[Other(e)][u] = Nil

\* new is tr with the level u gone and c in its place.
IsSpliced(tr, u, c, new) ==
  /\ new \in Trees
  /\ new.root = IF u = tr.root THEN c ELSE tr.root
  /\ \A e \in Sides, m \in Prices : new.kid[e][m] =
       IF m = u THEN Nil ELSE IF tr.kid[e][m] = u THEN c ELSE tr.kid[e][m]
  /\ \A m \in Prices : new.parent[m] =
       IF m = u THEN Nil ELSE IF m = c THEN tr.parent[u] ELSE tr.parent[m]
  /\ \A m \in Prices : new.color[m] = IF m = u THEN "black" ELSE tr.color[m]

SplicedSub(sub, u) == [m \in Prices |-> IF m = u THEN {} ELSE sub[m] \ {u}]

LEMMA SpliceTree ==
  ASSUME NEW tr, NEW L, NEW sub, NEW u, NEW e, CanSplice(tr, L, sub, u, e),
         NEW new, IsSpliced(tr, u, tr.kid[e][u], new)
  PROVE  TreeOK(new, L \ {u}, SplicedSub(sub, u))
<1>1. PICK s2, K, c, q, o :
        /\ s2 = SplicedSub(sub, u) /\ K = L \ {u} /\ c = tr.kid[e][u]
        /\ q = tr.parent[u] /\ o = Other(e)
  OBVIOUS
<1>2. /\ TreeOK(tr, L, sub) /\ u \in L /\ u \in Prices /\ e \in Sides /\ o \in Sides
      /\ o # e /\ Sides = {e, o} /\ tr.kid[o][u] = Nil /\ L \subseteq Prices
      /\ IsFiniteSet(L) /\ tr.root \in L /\ sub[tr.root] = L
      /\ sub \in [Prices -> SUBSET L] /\ Nil \notin Prices /\ L \subseteq Nat
  BY <1>1, SideFacts, PriceFacts DEF CanSplice, TreeOK
<1>3. /\ new \in Trees
      /\ new.root = IF u = tr.root THEN c ELSE tr.root
      /\ \A d \in Sides, m \in Prices : new.kid[d][m] =
           IF m = u THEN Nil ELSE IF tr.kid[d][m] = u THEN c ELSE tr.kid[d][m]
      /\ \A m \in Prices : new.parent[m] =
           IF m = u THEN Nil ELSE IF m = c THEN q ELSE tr.parent[m]
  BY <1>1 DEF IsSpliced
<1>4. /\ s2 \in [Prices -> SUBSET K]
      /\ \A m \in K : s2[m] = sub[m] \ {u}
  BY <1>1, <1>2 DEF SplicedSub
<1>5. \A m \in L : /\ \A d \in Sides : tr.kid[d][m] \in L \union {Nil}
                   /\ IF m = tr.root THEN tr.parent[m] = Nil
                      ELSE tr.parent[m] \in L /\ \E d \in Sides : tr.kid[d][tr.parent[m]] = m
                   /\ \A d \in Sides : tr.kid[d][m] # Nil => tr.parent[tr.kid[d][m]] = m
  BY <1>2 DEF TreeOK, BranchOK, ParentOK
<1>6. /\ sub[u] = {u} \union Under(sub, c) /\ u \notin Under(sub, c)
      /\ c \in L \union {Nil} /\ c # u
      /\ c # Nil => tr.parent[c] = u /\ c # tr.root
  <2>1. sub[u] = {u} \union Under(sub, tr.kid[e][u]) \union Under(sub, tr.kid[Other(e)][u])
    BY <1>2, KidFacts
  <2>2. u \notin Under(sub, tr.kid[e][u])
    BY <1>2, KidFacts
  <2>3. Under(sub, tr.kid[Other(e)][u]) = {}
    BY <1>1, <1>2 DEF Under
  <2>4. c # Nil => tr.parent[c] = u /\ c # tr.root /\ c # u
    BY <1>1, <1>2, KidFacts
  <2> QED BY <1>1, <1>2, <1>5, <2>1, <2>2, <2>3, <2>4
<1>7. \A k \in L \union {Nil} : k # u => Under(s2, k) = Under(sub, k) \ {u}
  BY <1>1, <1>2, <1>4 DEF Under
<1>8. q # u
  <2>1. tr.kid[e][u] # u /\ tr.kid[o][u] # u
    BY <1>1, <1>2, <1>6
  <2> QED BY <1>1, <1>2, <1>5, <2>1
<1>9. ASSUME NEW m \in K PROVE BranchOK(new, K, s2, m)
  <2>1. m \in L /\ m # u
    BY <1>1
  <2>2. ASSUME NEW d \in Sides
        PROVE  /\ new.kid[d][m] \in K \union {Nil}
               /\ Under(s2, new.kid[d][m]) = Under(sub, tr.kid[d][m]) \ {u}
    <3>1. CASE tr.kid[d][m] = u
      <4>1. new.kid[d][m] = c
        BY <1>2, <1>3, <2>1, <3>1
      <4>2. Under(sub, u) = sub[u]
        BY <1>2 DEF Under
      <4> QED BY <1>1, <1>6, <1>7, <3>1, <4>1, <4>2
    <3>2. CASE tr.kid[d][m] # u
      <4>1. new.kid[d][m] = tr.kid[d][m] /\ tr.kid[d][m] \in L \union {Nil}
        BY <1>2, <1>3, <1>5, <2>1, <3>2
      <4> QED BY <1>1, <1>7, <3>2, <4>1
    <3> QED BY <3>1, <3>2
  <2>3. /\ sub[m] = {m} \union Under(sub, tr.kid["left"][m])
                        \union Under(sub, tr.kid["right"][m])
        /\ \A d \in Sides : \A k \in Under(sub, tr.kid[d][m]) : Beyond(d, k, m)
    BY <1>2, <2>1 DEF TreeOK, BranchOK
  <2>4. s2[m] = {m} \union Under(s2, new.kid["left"][m])
                    \union Under(s2, new.kid["right"][m])
    <3>1. "left" \in Sides /\ "right" \in Sides
      BY DEF Sides
    <3> QED BY <1>4, <2>1, <2>2, <2>3, <3>1
  <2> QED BY <2>2, <2>3, <2>4 DEF BranchOK
<1>10. ASSUME NEW m \in K PROVE SubtreeOK(K, s2, m)
  <2>1. m \in L /\ s2[m] = sub[m] \ {u} /\ sub[m] \subseteq L
    BY <1>1, <1>2, <1>4
  <2>2. /\ \A a \in sub[m] : sub[a] \subseteq sub[m]
        /\ \A n \in L \ sub[m] : \A a, b \in sub[m] : SameSide(a, b, n)
    BY <1>2, <2>1, SubFacts DEF SameSide
  <2>3. \A k \in s2[m] : s2[k] \subseteq s2[m]
    <3>1. \A k \in s2[m] : k \in K /\ sub[k] \subseteq sub[m]
      BY <1>1, <2>1, <2>2
    <3> QED BY <1>4, <2>1, <3>1
  <2>4. \A n \in K \ s2[m] : \A a, b \in s2[m] : SameSide(a, b, n)
    BY <1>1, <2>1, <2>2
  <2>5. K \subseteq Nat /\ s2[m] \subseteq Nat
    BY <1>1, <1>2, <2>1
  <2> QED BY <2>3, <2>4, <2>5, ConvexBy
<1>11. ASSUME NEW m \in K PROVE ParentOK(new, K, m)
  <2>1. m \in L /\ m # u /\ m \in Prices
    BY <1>1, <1>2
  <2>2. ASSUME NEW d \in Sides, new.kid[d][m] # Nil
        PROVE  new.parent[new.kid[d][m]] = m
    <3>1. CASE tr.kid[d][m] = u
      <4>1. new.kid[d][m] = c /\ q = m
        BY <1>1, <1>2, <1>3, <1>5, <2>1, <3>1
      <4>2. c \in Prices
        BY <1>2, <1>6, <2>2, <4>1
      <4> QED BY <1>3, <1>6, <4>1, <4>2
    <3>2. CASE tr.kid[d][m] # u
      <4>1. new.kid[d][m] = tr.kid[d][m]
        BY <1>3, <2>1, <3>2
      <4>2. tr.kid[d][m] \in L /\ tr.parent[tr.kid[d][m]] = m
        BY <1>5, <2>1, <2>2, <4>1
      <4>3. tr.kid[d][m] # c
        BY <1>2, <1>6, <2>1, <4>2
      <4> QED BY <1>2, <1>3, <3>2, <4>1, <4>2, <4>3
    <3> QED BY <3>1, <3>2
  <2>3. CASE m = c
    <3>1. new.parent[m] = q /\ m # tr.root
      BY <1>2, <1>3, <1>6, <2>1, <2>3
    <3>2. u = tr.root => m = new.root /\ q = Nil
      BY <1>1, <1>2, <1>3, <1>5, <2>3
    <3>3. ASSUME u # tr.root
          PROVE  m # new.root /\ q \in K /\ \E d \in Sides : new.kid[d][q] = m
      <4>1. q \in L /\ \E d \in Sides : tr.kid[d][q] = u
        BY <1>1, <1>2, <1>5, <3>3
      <4> QED BY <1>1, <1>2, <1>3, <1>8, <2>3, <3>1, <3>3, <4>1
    <3> QED BY <2>2, <3>1, <3>2, <3>3 DEF ParentOK
  <2>4. CASE m # c
    <3>1. new.parent[m] = tr.parent[m]
      BY <1>3, <2>1, <2>4
    <3>2. (m = new.root) <=> (m = tr.root)
      BY <1>3, <2>1, <2>4
    <3>3. ASSUME m # tr.root
          PROVE  tr.parent[m] \in K /\ \E d \in Sides : new.kid[d][tr.parent[m]] = m
      <4>1. PICK d \in Sides : tr.kid[d][tr.parent[m]] = m
        BY <1>5, <2>1, <3>3
      <4>2. tr.parent[m] # u
        <5>1. tr.kid[d][u] # m
          BY <1>1, <1>2, <2>1, <2>4
        <5> QED BY <4>1, <5>1
      <4>3. tr.parent[m] \in L
        BY <1>5, <2>1, <3>3
      <4> QED BY <1>1, <1>2, <1>3, <2>1, <4>1, <4>2, <4>3
    <3> QED BY <1>5, <2>1, <2>2, <3>1, <3>2, <3>3 DEF ParentOK
  <2> QED BY <2>3, <2>4
<1>12. ASSUME NEW k \in Prices \ K
       PROVE  /\ new.kid["left"][k] = Nil /\ new.kid["right"][k] = Nil
              /\ new.parent[k] = Nil
  <2>1. k # u => /\ tr.kid["left"][k] = Nil /\ tr.kid["right"][k] = Nil
                 /\ tr.parent[k] = Nil /\ k # c
    BY <1>1, <1>2, <1>6 DEF TreeOK
  <2>2. "left" \in Sides /\ "right" \in Sides /\ u # Nil
    BY <1>2 DEF Sides
  <2> QED BY <1>3, <2>1, <2>2
<1>13. IF K = {} THEN new.root = Nil ELSE new.root \in K /\ s2[new.root] = K
  <2>1. CASE u # tr.root
    <3>1. new.root = tr.root /\ tr.root \in K
      BY <1>1, <1>2, <1>3, <2>1
    <3>2. s2[tr.root] = L \ {u}
      BY <1>2, <1>4, <3>1
    <3> QED BY <1>1, <3>1, <3>2
  <2>2. CASE u = tr.root
    <3>1. new.root = c /\ K = Under(sub, c)
      BY <1>1, <1>2, <1>3, <1>6, <2>2
    <3>2. c = Nil => K = {}
      BY <3>1 DEF Under
    <3>3. c # Nil => c \in K /\ Under(sub, c) = sub[c]
      BY <1>1, <1>6 DEF Under
    <3>4. c # Nil => s2[c] = K
      <4>1. c # Nil => s2[c] = sub[c] \ {u}
        BY <1>4, <3>3
      <4> QED BY <1>6, <3>1, <3>3, <4>1
    <3>5. c # Nil => K # {}
      BY <3>3
    <3> QED BY <3>1, <3>2, <3>3, <3>4, <3>5
  <2> QED BY <2>1, <2>2
<1>14. IsFiniteSet(K) /\ K \subseteq Prices
  BY <1>1, <1>2, FS_RemoveElement
<1>15. TreeOK(new, K, s2)
  BY <1>3, <1>4, <1>9, <1>10, <1>11, <1>12, <1>13, <1>14 DEF TreeOK
<1> QED BY <1>1, <1>15

-----------------------------------------------------------------------------
(* A level takes the place of another.                                     *)

Swap(z, y, l) == IF l = z THEN y ELSE l
SwapIn(z, y, S) == IF z \in S THEN (S \ {z}) \union {y} ELSE S

\* No level of the tree lies between z, which is in it, and y.
CanSwap(tr, M, sub, z, y) ==
  /\ TreeOK(tr, M, sub) /\ z \in M /\ y \in Prices \ M
  /\ \A m \in M : m # z => ((m < y) <=> (m < z))

\* new is tr with y where z was.
IsSwapped(tr, z, y, new) ==
  /\ new \in Trees
  /\ new.root = Swap(z, y, tr.root)
  /\ \A e \in Sides, m \in Prices : new.kid[e][m] =
       IF m = z THEN Nil ELSE Swap(z, y, tr.kid[e][Swap(y, z, m)])
  /\ \A m \in Prices : new.parent[m] =
       IF m = z THEN Nil ELSE Swap(z, y, tr.parent[Swap(y, z, m)])
  /\ \A m \in Prices : new.color[m] =
       IF m = z THEN "black" ELSE tr.color[Swap(y, z, m)]

SwappedSub(sub, z, y) ==
  [m \in Prices |-> IF m = z THEN {} ELSE SwapIn(z, y, sub[Swap(y, z, m)])]

LEMMA SwapTree ==
  ASSUME NEW tr, NEW M, NEW sub, NEW z, NEW y, CanSwap(tr, M, sub, z, y),
         NEW new, IsSwapped(tr, z, y, new)
  PROVE  TreeOK(new, SwapIn(z, y, M), SwappedSub(sub, z, y))
<1>1. PICK s2, K : s2 = SwappedSub(sub, z, y) /\ K = SwapIn(z, y, M)
  OBVIOUS
<1> DEFINE f(l) == Swap(z, y, l)
           g(l) == Swap(y, z, l)
<1>2. /\ TreeOK(tr, M, sub) /\ z \in M /\ y \in Prices /\ y \notin M /\ z \in Prices
      /\ M \subseteq Prices /\ IsFiniteSet(M) /\ Nil \notin Prices /\ Prices \subseteq Nat
      /\ sub \in [Prices -> SUBSET M] /\ tr.root \in M /\ sub[tr.root] = M
      /\ \A m \in M : m # z => ((m < y) <=> (m < z))
  BY PriceFacts DEF CanSwap, TreeOK
<1>3. K = (M \ {z}) \union {y} /\ K \subseteq Prices
  BY <1>1, <1>2 DEF SwapIn
<1>4. \A l \in M : f(l) \in K /\ f(l) # z /\ g(f(l)) = l
  BY <1>2, <1>3 DEF Swap
<1>5. f(Nil) = Nil
  BY <1>2 DEF Swap
<1>6. \A m \in K : g(m) \in M /\ f(g(m)) = m /\ m # z /\ m \in Prices
  BY <1>2, <1>3 DEF Swap
<1>7. \A k, l \in M \union {Nil} : f(k) = f(l) => k = l
  BY <1>2 DEF Swap
<1>8. \A k, l \in M : (k < l) <=> (f(k) < f(l))
  <2>1. ASSUME NEW k \in M, NEW l \in M PROVE (k < l) <=> (f(k) < f(l))
    <3>1. k \in Nat /\ l \in Nat /\ y \in Nat /\ z \in Nat /\ k # y /\ l # y
      BY <1>2
    <3>2. k # z => ((k < y) <=> (k < z))
      BY <1>2
    <3>3. l # z => ((l < y) <=> (l < z))
      BY <1>2
    <3> QED BY <3>1, <3>2, <3>3 DEF Swap
  <2> QED BY <2>1
<1>9. /\ new \in Trees /\ new.root = f(tr.root)
      /\ \A e \in Sides, m \in K : new.kid[e][m] = f(tr.kid[e][g(m)])
      /\ \A m \in K : new.parent[m] = f(tr.parent[g(m)])
  BY <1>6 DEF IsSwapped
<1>10. /\ s2 \in [Prices -> SUBSET K]
       /\ \A m \in K : s2[m] = SwapIn(z, y, sub[g(m)])
  <2>1. \A S \in SUBSET M : SwapIn(z, y, S) \in SUBSET K
    BY <1>2, <1>3 DEF SwapIn
  <2>2. \A m \in Prices : sub[g(m)] \in SUBSET M
    BY <1>2 DEF Swap
  <2>3. s2 = [m \in Prices |-> IF m = z THEN {} ELSE SwapIn(z, y, sub[g(m)])]
    BY <1>1 DEF SwappedSub
  <2> HIDE DEF g
  <2>4. s2 \in [Prices -> SUBSET K]
    BY <2>1, <2>2, <2>3
  <2> QED BY <1>6, <2>3, <2>4
<1>11. \A S \in SUBSET M : \A a \in SwapIn(z, y, S) : a \in K /\ g(a) \in S
  BY <1>2, <1>3 DEF SwapIn, Swap
<1>12. \A S \in SUBSET M : \A a \in K : g(a) \in S => a \in SwapIn(z, y, S)
  BY <1>2, <1>3 DEF SwapIn, Swap
<1>13. \A k \in M \union {Nil} : Under(s2, f(k)) = SwapIn(z, y, Under(sub, k))
  <2>1. SwapIn(z, y, {}) = {}
    BY DEF SwapIn
  <2>2. \A k \in M : f(k) # Nil /\ k # Nil
    BY <1>2, <1>4, <1>3
  <2>3. \A k \in M : s2[f(k)] = SwapIn(z, y, sub[k])
    BY <1>4, <1>10
  <2> QED BY <1>5, <2>1, <2>2, <2>3 DEF Under
<1>14. \A m \in M : /\ \A d \in Sides : tr.kid[d][m] \in M \union {Nil}
                    /\ sub[m] = {m} \union Under(sub, tr.kid["left"][m])
                                    \union Under(sub, tr.kid["right"][m])
                    /\ \A d \in Sides : \A k \in Under(sub, tr.kid[d][m]) : Beyond(d, k, m)
                    /\ IF m = tr.root THEN tr.parent[m] = Nil
                       ELSE tr.parent[m] \in M /\ \E d \in Sides : tr.kid[d][tr.parent[m]] = m
                    /\ \A d \in Sides : tr.kid[d][m] # Nil => tr.parent[tr.kid[d][m]] = m
  BY <1>2 DEF TreeOK, BranchOK, ParentOK
<1> HIDE DEF f, g
<1>15. ASSUME NEW m \in K PROVE BranchOK(new, K, s2, m)
  <2>1. PICK n \in M : n = g(m) /\ m = f(n) /\ sub[n] \subseteq M
    BY <1>2, <1>6
  <2>2. ASSUME NEW d \in Sides
        PROVE  /\ new.kid[d][m] \in K \union {Nil}
               /\ Under(s2, new.kid[d][m]) = SwapIn(z, y, Under(sub, tr.kid[d][n]))
               /\ Under(sub, tr.kid[d][n]) \subseteq sub[n]
    <3>1. new.kid[d][m] = f(tr.kid[d][n]) /\ tr.kid[d][n] \in M \union {Nil}
      BY <1>9, <1>14, <2>1
    <3>2. Under(sub, tr.kid[d][n]) \subseteq sub[n]
      BY <1>14, <2>1 DEF Sides
    <3> QED BY <1>4, <1>5, <1>13, <3>1, <3>2
  <2>3. ASSUME NEW d \in Sides, NEW k \in Under(s2, new.kid[d][m])
        PROVE  Beyond(d, k, m)
    <3>1. k \in K /\ g(k) \in Under(sub, tr.kid[d][n]) /\ g(k) \in M
      BY <1>11, <2>1, <2>2, <2>3
    <3>2. Beyond(d, g(k), n)
      BY <1>14, <3>1
    <3> QED BY <1>6, <1>8, <2>1, <3>1, <3>2 DEF Beyond
  <2>4. s2[m] = {m} \union Under(s2, new.kid["left"][m])
                    \union Under(s2, new.kid["right"][m])
    <3>1. PICK A, B : /\ A = Under(sub, tr.kid["left"][n])
                      /\ B = Under(sub, tr.kid["right"][n])
      OBVIOUS
    <3>2. /\ Under(s2, new.kid["left"][m]) = SwapIn(z, y, A)
          /\ Under(s2, new.kid["right"][m]) = SwapIn(z, y, B)
      BY <2>2, <3>1 DEF Sides
    <3>3. sub[n] = {n} \union A \union B
      BY <1>14, <3>1
    <3>4. s2[m] = SwapIn(z, y, sub[n])
      BY <1>10, <2>1
    <3>5. m = IF n = z THEN y ELSE n
      BY <2>1 DEF f, Swap
    <3> QED BY <3>2, <3>3, <3>4, <3>5 DEF SwapIn
  <2> QED BY <2>2, <2>3, <2>4 DEF BranchOK
<1>16. ASSUME NEW m \in K PROVE SubtreeOK(K, s2, m)
  <2>1. PICK n \in M : n = g(m) /\ m = f(n) /\ sub[n] \subseteq M
    BY <1>2, <1>6
  <2>2. /\ \A a \in sub[n] : sub[a] \subseteq sub[n]
        /\ \A k \in M \ sub[n] : \A a, b \in sub[n] : SameSide(a, b, k)
    BY <1>2, <2>1, SubFacts DEF SameSide
  <2>3. s2[m] = SwapIn(z, y, sub[n])
    BY <1>10, <2>1
  <2>4. ASSUME NEW k \in s2[m] PROVE s2[k] \subseteq s2[m]
    <3>1. k \in K /\ g(k) \in sub[n] /\ g(k) \in M
      BY <1>11, <2>1, <2>3, <2>4
    <3>2. sub[g(k)] \subseteq sub[n] /\ s2[k] = SwapIn(z, y, sub[g(k)])
      BY <1>10, <2>2, <3>1
    <3> QED BY <2>3, <3>2 DEF SwapIn
  <2>5. ASSUME NEW k \in K \ s2[m], NEW a \in s2[m], NEW b \in s2[m]
        PROVE  SameSide(a, b, k)
    <3>1. g(k) \in M \ sub[n] /\ g(a) \in sub[n] /\ g(b) \in sub[n] /\ a \in K /\ b \in K
      <4>1. g(a) \in sub[n] /\ g(b) \in sub[n] /\ a \in K /\ b \in K
        <5>1. sub[n] \in SUBSET M
          BY <2>1
        <5>2. a \in SwapIn(z, y, sub[n]) /\ b \in SwapIn(z, y, sub[n])
          BY <2>3, <2>5
        <5> QED BY <1>11, <5>1, <5>2
      <4>2. g(k) \in M
        BY <1>6, <2>5
      <4>3. g(k) \notin sub[n]
        BY <1>12, <2>1, <2>3, <2>5
      <4> QED BY <4>1, <4>2, <4>3
    <3>2. (g(a) < g(k)) <=> (g(b) < g(k))
      BY <2>2, <3>1 DEF SameSide
    <3>3. /\ f(g(k)) = k /\ f(g(a)) = a /\ f(g(b)) = b
          /\ g(k) \in M /\ g(a) \in M /\ g(b) \in M
      BY <1>6, <3>1, <2>5
    <3>4. ((g(a) < g(k)) <=> (a < k)) /\ ((g(b) < g(k)) <=> (b < k))
      BY <1>8, <3>3
    <3> QED BY <3>2, <3>4 DEF SameSide
  <2>6. K \subseteq Nat /\ s2[m] \subseteq Nat
    <3>1. K \subseteq Nat
      BY <1>2, <1>3
    <3>2. s2[m] \subseteq K
      BY <1>10, <1>3
    <3> QED BY <3>1, <3>2
  <2> QED BY <2>4, <2>5, <2>6, ConvexBy
<1>17. ASSUME NEW m \in K PROVE ParentOK(new, K, m)
  <2>1. PICK n \in M : n = g(m) /\ m = f(n)
    BY <1>6
  <2>2. new.parent[m] = f(tr.parent[n]) /\ new.root = f(tr.root)
    BY <1>9, <2>1
  <2>3. (m = new.root) <=> (n = tr.root)
    BY <1>2, <1>7, <2>1, <2>2
  <2>4. n = tr.root => new.parent[m] = Nil
    BY <1>5, <1>14, <2>2
  <2>5. ASSUME n # tr.root
        PROVE  new.parent[m] \in K /\ \E d \in Sides : new.kid[d][new.parent[m]] = m
    <3>1. PICK d \in Sides : tr.kid[d][tr.parent[n]] = n
      BY <1>14, <2>5
    <3>2. tr.parent[n] \in M
      BY <1>14, <2>5
    <3>3. new.parent[m] \in K /\ g(new.parent[m]) = tr.parent[n]
      BY <1>4, <2>2, <3>2
    <3>4. new.kid[d][new.parent[m]] = m
      BY <1>9, <2>1, <3>1, <3>3
    <3> QED BY <3>3, <3>4
  <2>6. ASSUME NEW d \in Sides, new.kid[d][m] # Nil
        PROVE  new.parent[new.kid[d][m]] = m
    <3>1. new.kid[d][m] = f(tr.kid[d][n]) /\ tr.kid[d][n] \in M
      BY <1>5, <1>9, <1>14, <2>1, <2>6
    <3>2. tr.parent[tr.kid[d][n]] = n
      <4>1. tr.kid[d][n] # Nil
        BY <1>2, <3>1
      <4> QED BY <1>14, <4>1
    <3>3. new.kid[d][m] \in K /\ g(new.kid[d][m]) = tr.kid[d][n]
      BY <1>4, <3>1
    <3>4. new.parent[new.kid[d][m]] = f(tr.parent[tr.kid[d][n]])
      BY <1>9, <3>3
    <3> QED BY <2>1, <3>2, <3>4
  <2> QED BY <2>3, <2>4, <2>5, <2>6 DEF ParentOK
<1>18. ASSUME NEW k \in Prices \ K
       PROVE  /\ new.kid["left"][k] = Nil /\ new.kid["right"][k] = Nil
              /\ new.parent[k] = Nil
  <2>1. /\ \A e \in Sides, m \in Prices : new.kid[e][m] =
             IF m = z THEN Nil ELSE Swap(z, y, tr.kid[e][Swap(y, z, m)])
        /\ \A m \in Prices : new.parent[m] =
             IF m = z THEN Nil ELSE Swap(z, y, tr.parent[Swap(y, z, m)])
    BY DEF IsSwapped
  <2>2. k # y /\ (k # z => k \in Prices \ M)
    BY <1>3
  <2>3. k # z => /\ tr.kid["left"][k] = Nil /\ tr.kid["right"][k] = Nil
                 /\ tr.parent[k] = Nil
    BY <1>2, <2>2 DEF TreeOK
  <2>4. Swap(y, z, k) = k /\ Swap(z, y, Nil) = Nil
    BY <1>5, <2>2 DEF Swap, f
  <2> QED BY <2>1, <2>3, <2>4 DEF Sides
<1>19. new.root \in K /\ s2[new.root] = K /\ K # {}
  <2>1. new.root \in K /\ g(new.root) = tr.root
    BY <1>2, <1>4, <1>9
  <2> QED BY <1>1, <1>2, <1>10, <2>1
<1>20. IsFiniteSet(K)
  BY <1>2, <1>3, FS_RemoveElement, FS_AddElement
<1>21. TreeOK(new, K, s2)
  BY <1>3, <1>9, <1>10, <1>15, <1>16, <1>17, <1>18, <1>19, <1>20 DEF TreeOK
<1> QED BY <1>1, <1>21

LEMMA KidPair ==
  ASSUME NEW tr, NEW L, NEW sub, TreeOK(tr, L, sub), NEW l \in L
  PROVE  /\ sub[l] = {l} \union Under(sub, tr.kid["left"][l])
                      \union Under(sub, tr.kid["right"][l])
         /\ l \notin Under(sub, tr.kid["left"][l])
         /\ \A m \in Under(sub, tr.kid["left"][l]) :
              m \notin Under(sub, tr.kid["right"][l])
         /\ tr.kid["left"][l] # Nil =>
              tr.kid["left"][l] \in Under(sub, tr.kid["left"][l])
<1>1. "left" \in Sides /\ Other("left") = "right"
  BY DEF Sides, Other
<1>2. /\ sub[l] = {l} \union Under(sub, tr.kid["left"][l])
                      \union Under(sub, tr.kid[Other("left")][l])
      /\ l \notin Under(sub, tr.kid["left"][l])
      /\ \A m \in Under(sub, tr.kid["left"][l]) :
           m \notin Under(sub, tr.kid[Other("left")][l])
      /\ tr.kid["left"][l] # Nil =>
           tr.kid["left"][l] \in Under(sub, tr.kid["left"][l])
  BY <1>1, KidFacts
<1> QED BY <1>1, <1>2

-----------------------------------------------------------------------------
(* Recursion over a tree.                                                  *)

\* h satisfies the equation of a recursive function at the levels of S.
Solves(tr, F, S, h) ==
  \A k \in S : h[k] = F[k][h[tr.kid["left"][k]]][h[tr.kid["right"][k]]]

\* A definition by recursion over the children of a level has a solution.
LEMMA TreeRecursion ==
  ASSUME NEW tr, NEW L, NEW sub, TreeOK(tr, L, sub),
         NEW V, NEW v0 \in V, NEW F \in [Prices -> [V -> [V -> V]]]
  PROVE  \E f : /\ f \in [Maybe -> V] /\ f[Nil] = v0
               /\ Solves(tr, F, Prices, f)
<1> DEFINE Part(S, h) == h \in [Maybe -> V] /\ h[Nil] = v0 /\ Solves(tr, F, S, h)
           Good == {l \in L : \E h : Part(sub[l], h)}
<1>1. /\ L \subseteq Prices /\ Nil \in Maybe /\ Nil \notin Prices
      /\ Prices \subseteq Maybe /\ "left" \in Sides /\ "right" \in Sides
  BY PriceFacts DEF TreeOK, Maybe, Sides
<1>2. \A k \in Prices, a, b \in V : F[k][a][b] \in V
  OBVIOUS
<1>3. \A l \in L : /\ tr.kid["left"][l] \in L \union {Nil}
                   /\ tr.kid["right"][l] \in L \union {Nil}
                   /\ sub[l] \subseteq L
  BY <1>1 DEF TreeOK, BranchOK
<1>4. ASSUME NEW l \in L,
             \A d \in Sides : tr.kid[d][l] # Nil => tr.kid[d][l] \in Good
      PROVE  l \in Good
  <2>1. PICK a, b : a = tr.kid["left"][l] /\ b = tr.kid["right"][l]
    OBVIOUS
  <2>2. PICK A, B : A = Under(sub, a) /\ B = Under(sub, b)
    OBVIOUS
  <2>3. /\ sub[l] = {l} \union A \union B /\ l \notin A /\ l \notin B
        /\ \A m \in A : m \notin B
        /\ A \subseteq L /\ B \subseteq L
        /\ a # Nil => a \in A
        /\ b # Nil => b \in B
    <3>1. /\ sub[l] = {l} \union Under(sub, tr.kid["left"][l])
                      \union Under(sub, tr.kid["right"][l])
          /\ l \notin Under(sub, tr.kid["left"][l])
          /\ \A m \in Under(sub, tr.kid["left"][l]) :
               m \notin Under(sub, tr.kid["right"][l])
          /\ tr.kid["left"][l] # Nil =>
               tr.kid["left"][l] \in Under(sub, tr.kid["left"][l])
      BY KidPair
    <3>2. l \notin B /\ (b # Nil => b \in B)
      BY <1>1, <2>1, <2>2, KidFacts
    <3>3. A \subseteq L /\ B \subseteq L
      BY <1>1, <1>3, <2>1, <2>2 DEF Under
    <3> QED BY <2>1, <2>2, <3>1, <3>2, <3>3
  <2>4. \A S \in {A, B} : \A k \in S : /\ tr.kid["left"][k] \in S \union {Nil}
                                       /\ tr.kid["right"][k] \in S \union {Nil}
    <3>1. ASSUME NEW c \in {a, b}, NEW k \in Under(sub, c), NEW d \in Sides
          PROVE  tr.kid[d][k] \in Under(sub, c) \union {Nil}
      <4>1. c \in L /\ Under(sub, c) = sub[c]
        BY <1>1, <1>3, <2>1, <3>1 DEF Under
      <4>2. sub[k] \subseteq sub[c] /\ k \in L
        BY <4>1, <3>1, SubFacts
      <4>3. tr.kid[d][k] # Nil => tr.kid[d][k] \in sub[k]
        BY <4>2, KidFacts
      <4> QED BY <4>1, <4>2, <4>3
    <3> QED BY <1>1, <2>2, <3>1
  <2>5. \E h : Part(A, h)
    <3>1. CASE a = Nil
      <4>1. A = {}
        BY <2>2, <3>1 DEF Under
      <4>2. Part(A, [m \in Maybe |-> v0])
        BY <1>1, <4>1 DEF Solves
      <4> QED BY <4>2
    <3>2. CASE a # Nil
      BY <1>1, <1>4, <2>1, <2>2, <3>2 DEF Under
    <3> QED BY <3>1, <3>2
  <2>6. \E h : Part(B, h)
    <3>1. CASE b = Nil
      <4>1. B = {}
        BY <2>2, <3>1 DEF Under
      <4>2. Part(B, [m \in Maybe |-> v0])
        BY <1>1, <4>1 DEF Solves
      <4> QED BY <4>2
    <3>2. CASE b # Nil
      BY <1>1, <1>4, <2>1, <2>2, <3>2 DEF Under
    <3> QED BY <3>1, <3>2
  <2>7. PICK hl, hr : Part(A, hl) /\ Part(B, hr)
    BY <2>5, <2>6
  <2>8. PICK va, vb : va = (IF a = Nil THEN v0 ELSE hl[a]) /\ vb = (IF b = Nil THEN v0 ELSE hr[b])
    OBVIOUS
  <2>9. va \in V /\ vb \in V /\ a \in Maybe /\ b \in Maybe
    BY <1>1, <1>3, <2>1, <2>7, <2>8
  <2>10. PICK h : h = [m \in Maybe |-> IF m = l THEN F[l][va][vb]
                                      ELSE IF m \in A THEN hl[m]
                                      ELSE IF m \in B THEN hr[m] ELSE v0]
    OBVIOUS
  <2>11. h \in [Maybe -> V]
    BY <1>1, <1>2, <2>7, <2>9, <2>10
  <2>12. /\ h[Nil] = v0 /\ h[l] = F[l][va][vb] /\ h[a] = va /\ h[b] = vb
         /\ \A m \in A \union {Nil} : h[m] = hl[m]
         /\ \A m \in B \union {Nil} : h[m] = hr[m]
    <3>1. Nil \notin A /\ Nil \notin B /\ A \subseteq Maybe /\ B \subseteq Maybe /\ l # Nil
      BY <1>1, <2>3
    <3>2. /\ h[Nil] = v0 /\ h[l] = F[l][va][vb]
          /\ \A m \in A : h[m] = hl[m]
          /\ \A m \in B : h[m] = hr[m]
      BY <1>1, <2>3, <2>10, <3>1
    <3>3. hl[Nil] = v0 /\ hr[Nil] = v0
      BY <2>7
    <3> QED BY <2>3, <2>8, <3>2, <3>3
  <2>13. \A k \in A : h[k] = F[k][h[tr.kid["left"][k]]][h[tr.kid["right"][k]]]
    <3>1. \A k \in A : hl[k] = F[k][hl[tr.kid["left"][k]]][hl[tr.kid["right"][k]]]
      BY <2>7 DEF Solves
    <3> QED BY <2>4, <2>12, <3>1
  <2>14. \A k \in B : h[k] = F[k][h[tr.kid["left"][k]]][h[tr.kid["right"][k]]]
    <3>1. \A k \in B : hr[k] = F[k][hr[tr.kid["left"][k]]][hr[tr.kid["right"][k]]]
      BY <2>7 DEF Solves
    <3> QED BY <2>4, <2>12, <3>1
  <2>15. Part(sub[l], h)
    BY <2>1, <2>3, <2>11, <2>12, <2>13, <2>14 DEF Solves
  <2> QED BY <2>15
<1>5. \E h : Part(L, h)
  <2>1. CASE L = {}
    <3>1. Part(L, [m \in Maybe |-> v0])
      BY <1>1, <2>1 DEF Solves
    <3> QED BY <3>1
  <2>2. CASE L # {}
    <3>1. tr.root \in L /\ sub[tr.root] = L
      BY <2>2 DEF TreeOK
    <3>2. Good \in SUBSET L
      OBVIOUS
    <3> HIDE DEF Good
    <3>3. Good = L
      BY <1>4, <3>2, TreeInduct
    <3> QED BY <3>1, <3>3 DEF Good
  <2> QED BY <2>1, <2>2
<1>6. PICK h : Part(L, h)
  BY <1>5
<1>7. PICK f : f = [m \in Maybe |-> IF m \in Prices \ L THEN F[m][v0][v0] ELSE h[m]]
  OBVIOUS
<1>8. f \in [Maybe -> V] /\ f[Nil] = v0
  BY <1>1, <1>2, <1>6, <1>7
<1>9. ASSUME NEW k \in Prices
      PROVE  f[k] = F[k][f[tr.kid["left"][k]]][f[tr.kid["right"][k]]]
  <2>1. CASE k \in L
    <3>1. \A m \in L \union {Nil} : f[m] = h[m]
      BY <1>1, <1>7
    <3>2. h[k] = F[k][h[tr.kid["left"][k]]][h[tr.kid["right"][k]]]
      BY <1>6, <2>1 DEF Solves
    <3> QED BY <1>3, <2>1, <3>1, <3>2
  <2>2. CASE k \notin L
    <3>1. tr.kid["left"][k] = Nil /\ tr.kid["right"][k] = Nil
      BY <2>2 DEF TreeOK
    <3> QED BY <1>1, <1>7, <1>8, <2>2, <3>1
  <2> QED BY <2>1, <2>2
<1> QED BY <1>8, <1>9 DEF Solves

\* The least level under a level: down to the left as far as it goes.
LEMMA MinimumStep ==
  ASSUME NEW L, NEW sub, TreeOK(t, L, sub), NEW l \in Prices
  PROVE  Minimum[l] = IF t.kid["left"][l] = Nil THEN l ELSE Minimum[t.kid["left"][l]]
<1> DEFINE Is(h) == h = [k \in Prices |->
                           IF t.kid["left"][k] = Nil THEN k ELSE h[t.kid["left"][k]]]
           F == [k \in Prices |-> [a \in Maybe |-> [b \in Maybe |->
                   IF t.kid["left"][k] = Nil THEN k ELSE a]]]
<1>1. /\ \A k \in Prices : t.kid["left"][k] \in Maybe /\ k \in Maybe
      /\ Nil \in Maybe
  BY TreeFields DEF TreeOK, Sides, Maybe
<1>2. F \in [Prices -> [Maybe -> [Maybe -> Maybe]]]
  BY <1>1
<1>3. \A k \in Prices, a, b \in Maybe :
        F[k][a][b] = IF t.kid["left"][k] = Nil THEN k ELSE a
  OBVIOUS
<1> HIDE DEF F
<1>4. PICK f : f \in [Maybe -> Maybe] /\ Solves(t, F, Prices, f)
  BY <1>1, <1>2, TreeRecursion
<1>5. \A k \in Prices : f[k] = IF t.kid["left"][k] = Nil THEN k ELSE f[t.kid["left"][k]]
  <2> TAKE k \in Prices
  <2>1. t.kid["left"][k] \in Maybe /\ t.kid["right"][k] \in Maybe
    BY TreeFields DEF TreeOK, Sides
  <2>2. f[t.kid["left"][k]] \in Maybe /\ f[t.kid["right"][k]] \in Maybe
    BY <1>4, <2>1
  <2>3. f[k] = F[k][f[t.kid["left"][k]]][f[t.kid["right"][k]]]
    BY <1>4 DEF Solves
  <2> QED BY <1>3, <2>2, <2>3
<1>6. Is([k \in Prices |-> f[k]])
  BY <1>1, <1>5 DEF Maybe
<1>7. Minimum = CHOOSE h : Is(h)
  BY DEF Minimum
<1>8. Is(Minimum)
  <2> HIDE DEF Is
  <2> QED BY <1>6, <1>7
<1> QED BY <1>8

LEMMA MinimumIs ==
  ASSUME NEW L, NEW sub, TreeOK(t, L, sub), NEW l \in L
  PROVE  /\ Minimum[l] \in sub[l] /\ Minimum[l] \in L
         /\ t.kid["left"][Minimum[l]] = Nil
         /\ \A m \in sub[l] : Minimum[l] <= m
<1> DEFINE Good == {k \in L : /\ Minimum[k] \in sub[k] /\ Minimum[k] \in L
                              /\ t.kid["left"][Minimum[k]] = Nil
                              /\ \A m \in sub[k] : Minimum[k] <= m}
<1>1. "left" \in Sides /\ "right" \in Sides /\ Other("left") = "right"
  BY DEF Sides, Other
<1>2. ASSUME NEW k \in L,
             \A d \in Sides : t.kid[d][k] # Nil => t.kid[d][k] \in Good
      PROVE  k \in Good
  <2>1. PICK a, A, B : /\ a = t.kid["left"][k] /\ A = Under(sub, t.kid["left"][k])
                       /\ B = Under(sub, t.kid["right"][k])
    OBVIOUS
  <2>2. /\ k \in Nat /\ k \in Prices /\ k \in sub[k] /\ sub[k] \subseteq Nat
        /\ sub[k] = {k} \union A \union B
    <3>1. sub[k] = {k} \union Under(sub, t.kid["left"][k])
                      \union Under(sub, t.kid["right"][k])
      BY KidPair
    <3>2. k \in Nat /\ k \in Prices /\ k \in sub[k] /\ \A m \in sub[k] : m \in Nat
      BY SubFacts
    <3> QED BY <2>1, <3>1, <3>2
  <2>3. (\A m \in A : m < k) /\ (\A m \in B : k < m)
    <3>1. \A d \in Sides : \A m \in Under(sub, t.kid[d][k]) : Beyond(d, m, k)
      BY DEF TreeOK, BranchOK
    <3> QED BY <1>1, <2>1, <3>1 DEF Beyond
  <2>4. Minimum[k] = IF a = Nil THEN k ELSE Minimum[a]
    BY <2>1, <2>2, MinimumStep
  <2>5. CASE a = Nil
    <3>1. A = {} /\ Minimum[k] = k
      BY <2>1, <2>4, <2>5 DEF Under
    <3>2. t.kid["left"][Minimum[k]] = Nil
      BY <2>1, <2>5, <3>1
    <3>3. Minimum[k] \in sub[k] /\ Minimum[k] \in L
      BY <2>2, <3>1
    <3>4. \A m \in sub[k] : Minimum[k] <= m
      BY <2>2, <2>3, <3>1
    <3> QED BY <3>2, <3>3, <3>4
  <2>6. CASE a # Nil
    <3>1. a \in Good /\ A = sub[a]
      BY <1>1, <1>2, <2>1, <2>6 DEF Under
    <3>2. /\ Minimum[k] = Minimum[a] /\ Minimum[a] \in A /\ Minimum[a] \in L
          /\ t.kid["left"][Minimum[a]] = Nil /\ \A m \in A : Minimum[a] <= m
      BY <2>4, <2>6, <3>1
    <3>3. \A m \in sub[k] : Minimum[a] <= m
      <4>1. Minimum[a] \in Nat /\ Minimum[a] < k
        BY <2>2, <2>3, <3>2
      <4> QED BY <2>2, <2>3, <3>2, <4>1
    <3> QED BY <2>2, <3>2, <3>3
  <2> QED BY <2>5, <2>6
<1>3. Good \in SUBSET L
  OBVIOUS
<1> HIDE DEF Good
<1>4. Good = L
  BY <1>2, <1>3, TreeInduct
<1> QED BY <1>4 DEF Good

-----------------------------------------------------------------------------
(* Searches.                                                               *)

Places == [existing : Maybe, pred : Maybe, succ : Maybe]

\* One level of FindNode, and of FindNeighbors.
Seek(p, l, next) == IF l = Nil \/ l = p THEN l ELSE next
Search(p, l, next) ==
  CASE l = Nil -> Gap(Nil, Nil)
    [] l = p -> At(l)
    [] l # Nil /\ p < l /\ t.kid["left"][l] = Nil -> Gap(pred[l], l)
    [] l # Nil /\ p > l /\ t.kid["right"][l] = Nil -> Gap(l, succ[l])
    [] OTHER -> next

LEMMA NodeStep ==
  ASSUME NEW L, NEW sub, TreeOK(t, L, sub), NEW p \in Prices
  PROVE  \E find : /\ FindNode(p) = find[t.root]
                  /\ \A l \in Maybe : find[l] = Seek(p, l, find[t.kid[Toward(p, l)][l]])
<1> DEFINE Is(h) == h = [l \in Maybe |->
                           IF l = Nil \/ l = p THEN l ELSE h[t.kid[Toward(p, l)][l]]]
           F == [k \in Prices |-> [a \in Maybe |-> [b \in Maybe |->
                   Seek(p, k, IF p < k THEN a ELSE b)]]]
<1>1. /\ Nil \in Maybe /\ Nil \notin Prices /\ \A k \in Prices : k \in Maybe
      /\ \A k \in Prices : t.kid["left"][k] \in Maybe /\ t.kid["right"][k] \in Maybe
  BY TreeFields, PriceFacts DEF TreeOK, Sides, Maybe
<1>2. \A k \in Prices, a, b \in Maybe : Seek(p, k, IF p < k THEN a ELSE b) \in Maybe
  BY <1>1 DEF Seek
<1>3. /\ F \in [Prices -> [Maybe -> [Maybe -> Maybe]]]
      /\ \A k \in Prices, a, b \in Maybe : F[k][a][b] = Seek(p, k, IF p < k THEN a ELSE b)
  BY <1>2
<1> HIDE DEF F
<1>4. PICK f : f \in [Maybe -> Maybe] /\ f[Nil] = Nil /\ Solves(t, F, Prices, f)
  BY <1>1, <1>3, TreeRecursion
<1>5. \A k \in Prices : f[k] = Seek(p, k, f[t.kid[Toward(p, k)][k]])
  <2> TAKE k \in Prices
  <2>1. f[t.kid["left"][k]] \in Maybe /\ f[t.kid["right"][k]] \in Maybe
    BY <1>1, <1>4
  <2>2. f[k] = F[k][f[t.kid["left"][k]]][f[t.kid["right"][k]]]
    BY <1>4 DEF Solves
  <2>3. f[k] = Seek(p, k, IF p < k THEN f[t.kid["left"][k]] ELSE f[t.kid["right"][k]])
    BY <1>3, <2>1, <2>2
  <2> QED BY <2>3 DEF Toward
<1>6. Is(f)
  <2>1. \A l \in Maybe : f[l] = IF l = Nil \/ l = p THEN l ELSE f[t.kid[Toward(p, l)][l]]
    BY <1>4, <1>5 DEF Seek, Maybe
  <2> QED BY <1>4, <2>1
<1>7. FindNode(p) = (CHOOSE h : Is(h))[t.root]
  BY DEF FindNode
<1> HIDE DEF Is
<1>8. PICK find : Is(find) /\ FindNode(p) = find[t.root]
  BY <1>6, <1>7
<1> USE DEF Is
<1>9. \A l \in Maybe : find[l] = Seek(p, l, find[t.kid[Toward(p, l)][l]])
  BY <1>8 DEF Seek
<1> QED BY <1>8, <1>9

LEMMA NeighborsStep ==
  ASSUME NEW L, NEW sub, TreeOK(t, L, sub), NEW p \in Prices,
         pred \in [Prices -> Maybe], succ \in [Prices -> Maybe]
  PROVE  \E find :
           /\ FindNeighbors(p) = find[t.root]
           /\ \A l \in Maybe : find[l] = Search(p, l, find[t.kid[Toward(p, l)][l]])
<1> DEFINE Is(h) == h = [l \in Maybe |->
             CASE l = Nil -> Gap(Nil, Nil)
               [] l = p -> At(l)
               [] l # Nil /\ p < l /\ t.kid["left"][l] = Nil -> Gap(pred[l], l)
               [] l # Nil /\ p > l /\ t.kid["right"][l] = Nil -> Gap(l, succ[l])
               [] OTHER -> h[t.kid[Toward(p, l)][l]]]
           F == [k \in Prices |-> [a \in Places |-> [b \in Places |->
                   Search(p, k, IF p < k THEN a ELSE b)]]]
<1>1. /\ Nil \in Maybe /\ Nil \notin Prices /\ \A k \in Prices : k \in Maybe
      /\ \A k \in Prices : t.kid["left"][k] \in Maybe /\ t.kid["right"][k] \in Maybe
  BY TreeFields, PriceFacts DEF TreeOK, Sides, Maybe
<1>2. /\ \A a, b \in Maybe : Gap(a, b) \in Places
      /\ \A a \in Maybe : At(a) \in Places
  BY <1>1 DEF Gap, At, Places
<1>3. \A k \in Prices, a, b \in Places : Search(p, k, IF p < k THEN a ELSE b) \in Places
  BY <1>1, <1>2 DEF Search
<1>4. /\ F \in [Prices -> [Places -> [Places -> Places]]]
      /\ \A k \in Prices, a, b \in Places : F[k][a][b] = Search(p, k, IF p < k THEN a ELSE b)
  BY <1>3
<1> HIDE DEF F
<1>5. PICK f : /\ f \in [Maybe -> Places] /\ f[Nil] = Gap(Nil, Nil)
               /\ Solves(t, F, Prices, f)
  <2>1. Gap(Nil, Nil) \in Places
    BY <1>1, <1>2
  <2> QED BY <1>4, <2>1, TreeRecursion
<1>6. \A k \in Prices : f[k] = Search(p, k, f[t.kid[Toward(p, k)][k]])
  <2> TAKE k \in Prices
  <2>1. f[t.kid["left"][k]] \in Places /\ f[t.kid["right"][k]] \in Places
    BY <1>1, <1>5
  <2>2. f[k] = F[k][f[t.kid["left"][k]]][f[t.kid["right"][k]]]
    BY <1>5 DEF Solves
  <2>3. f[k] = Search(p, k, IF p < k THEN f[t.kid["left"][k]] ELSE f[t.kid["right"][k]])
    BY <1>4, <2>1, <2>2
  <2> QED BY <2>3 DEF Toward
<1>7. Is(f)
  <2>1. f[Nil] = Search(p, Nil, f[t.kid[Toward(p, Nil)][Nil]])
    <3>1. \A n : Search(p, Nil, n) = Gap(Nil, Nil)
      BY <1>1 DEF Search
    <3> QED BY <1>5, <3>1
  <2>2. \A l \in Maybe : f[l] = Search(p, l, f[t.kid[Toward(p, l)][l]])
    BY <1>6, <2>1 DEF Maybe
  <2> QED BY <1>5, <2>2 DEF Search
<1>8. FindNeighbors(p) = (CHOOSE h : Is(h))[t.root]
  BY DEF FindNeighbors
<1> HIDE DEF Is
<1>9. PICK find : Is(find) /\ FindNeighbors(p) = find[t.root]
  BY <1>7, <1>8
<1> USE DEF Is
<1>10. \A l \in Maybe : find[l] = Search(p, l, find[t.kid[Toward(p, l)][l]])
  BY <1>9 DEF Search
<1> QED BY <1>9, <1>10

\* A search for p that has come to l has left behind no level between p and
\* those under l.
Led(L, sub, p, l) ==
  \A m \in L \ Under(sub, l) :
    m # p /\ \A a \in Under(sub, l) : (a < m) <=> (p < m)

LEMMA LedOn ==
  ASSUME NEW tr, NEW L, NEW sub, TreeOK(tr, L, sub), NEW p \in Prices,
         NEW l \in L, l # p, Led(L, sub, p, l)
  PROVE  Led(L, sub, p, tr.kid[Toward(p, l)][l])
<1>1. PICK d, k, A, B : /\ d = Toward(p, l) /\ d \in Sides /\ k = tr.kid[d][l]
                        /\ A = Under(sub, k) /\ B = Under(sub, tr.kid[Other(d)][l])
  BY DEF Toward, Sides
<1>2. /\ Under(sub, l) = sub[l] /\ sub[l] = {l} \union A \union B
      /\ \A m \in A : Beyond(d, m, l)
      /\ sub[l] \subseteq L /\ L \subseteq Nat /\ p \in Nat
  <2>1. /\ l # Nil /\ sub[l] \subseteq L
        /\ sub[l] = {l} \union Under(sub, tr.kid[d][l])
                       \union Under(sub, tr.kid[Other(d)][l])
        /\ \A m \in Under(sub, tr.kid[d][l]) : Beyond(d, m, l)
    BY <1>1, KidFacts
  <2>2. L \subseteq Nat /\ p \in Nat
    BY PriceFacts DEF TreeOK
  <2> QED BY <1>1, <2>1, <2>2 DEF Under
<1>3. \A m \in B : Beyond(Other(d), m, l)
  BY <1>1, KidFacts, SideFacts
<1>4. Beyond(d, p, l)
  BY <1>1, <1>2 DEF Toward, Beyond
<1>5. ASSUME NEW m \in L \ A
      PROVE  m # p /\ \A a \in A : (a < m) <=> (p < m)
  <2>1. CASE m \in L \ sub[l]
    BY <1>2, <2>1 DEF Led
  <2>2. CASE m = l \/ m \in B
    <3>1. /\ m \in Nat /\ l \in Nat /\ (m = l \/ Beyond(Other(d), m, l))
          /\ \A a \in A : a \in Nat /\ Beyond(d, a, l)
      BY <1>2, <1>3, <2>2
    <3> QED BY <1>1, <1>2, <1>4, <3>1 DEF Beyond, Sides, Other
  <2> QED BY <1>2, <1>5, <2>1, <2>2
<1> QED BY <1>1, <1>5 DEF Led

\* g is the level of p, or the gap in which p belongs.
IsPlace(L, p, g) ==
  IF p \in L THEN g = At(p)
  ELSE /\ g = Gap(g.pred, g.succ) /\ g.existing = Nil
       /\ g.pred \in Maybe /\ g.succ \in Maybe
       /\ Below(L, p, g.pred) /\ Above(L, p, g.succ)

LEMMA GapPlace ==
  ASSUME NEW L, NEW p, p \notin L, NEW a \in Maybe, NEW b \in Maybe,
         Below(L, p, a), Above(L, p, b)
  PROVE  IsPlace(L, p, Gap(a, b))
<1>1. /\ Gap(a, b).pred = a /\ Gap(a, b).succ = b /\ Gap(a, b).existing = Nil
  BY DEF Gap
<1> QED BY <1>1 DEF IsPlace

LEMMA NodeFound ==
  ASSUME NEW L, NEW sub, TreeOK(t, L, sub), NEW p \in Prices
  PROVE  FindNode(p) = IF p \in L THEN p ELSE Nil
<1>1. PICK find : /\ FindNode(p) = find[t.root]
                  /\ \A l \in Maybe : find[l] = Seek(p, l, find[t.kid[Toward(p, l)][l]])
  BY NodeStep
<1> DEFINE Found(l) == find[l] = IF p \in L THEN p ELSE Nil
           Good == {l \in L : Led(L, sub, p, l) => Found(l)}
<1>2. L \subseteq Prices /\ Nil \in Maybe /\ Nil \notin Prices /\ \A k \in Prices : k \in Maybe
  BY PriceFacts DEF Maybe, TreeOK
<1>3. Led(L, sub, p, Nil) => Found(Nil)
  BY <1>1, <1>2 DEF Led, Under, Seek
<1>4. ASSUME NEW l \in L,
             \A d \in Sides : t.kid[d][l] # Nil => t.kid[d][l] \in Good
      PROVE  l \in Good
  <2> SUFFICES ASSUME Led(L, sub, p, l) PROVE Found(l)
    OBVIOUS
  <2>1. CASE l = p
    BY <1>1, <1>2, <2>1 DEF Seek
  <2>2. CASE l # p
    <3>1. PICK k : k = t.kid[Toward(p, l)][l]
      OBVIOUS
    <3>2. Led(L, sub, p, k)
      BY <2>2, <3>1, LedOn
    <3>3. Toward(p, l) \in Sides
      BY DEF Toward, Sides
    <3>4. Found(k)
      BY <1>3, <1>4, <3>1, <3>2, <3>3
    <3>5. find[l] = find[k]
      BY <1>1, <1>2, <2>2, <3>1 DEF Seek
    <3> QED BY <3>4, <3>5
  <2> QED BY <2>1, <2>2
<1>5. Good \in SUBSET L
  OBVIOUS
<1>6. Good = L
  <2> HIDE DEF Good
  <2> QED BY <1>4, <1>5, TreeInduct
<1>7. Led(L, sub, p, t.root) /\ (t.root = Nil \/ t.root \in L)
  BY <1>2 DEF TreeOK, Led, Under
<1> QED BY <1>1, <1>3, <1>6, <1>7

LEMMA NeighborsFound ==
  ASSUME NEW L, NEW sub, TreeOK(t, L, sub), NEW p \in Prices,
         ThreadsOK(L, type, pred, succ, best)
  PROVE  IsPlace(L, p, FindNeighbors(p))
<1>1. /\ pred \in [Prices -> Maybe] /\ succ \in [Prices -> Maybe]
      /\ \A l \in L : Below(L, l, pred[l]) /\ Above(L, l, succ[l])
  BY DEF ThreadsOK
<1>2. PICK find : /\ FindNeighbors(p) = find[t.root]
                  /\ \A l \in Maybe : find[l] = Search(p, l, find[t.kid[Toward(p, l)][l]])
  BY <1>1, NeighborsStep
<1> DEFINE Good == {l \in L : Led(L, sub, p, l) => IsPlace(L, p, find[l])}
<1>3. /\ L \subseteq Prices /\ Nil \in Maybe /\ Nil \notin Prices
      /\ \A k \in Prices : k \in Maybe /\ k \in Nat
      /\ p \in Nat
  BY PriceFacts DEF Maybe, TreeOK
<1>4. ASSUME NEW l \in L,
             \A d \in Sides : t.kid[d][l] # Nil => t.kid[d][l] \in Good
      PROVE  l \in Good
  <2> SUFFICES ASSUME Led(L, sub, p, l) PROVE IsPlace(L, p, find[l])
    OBVIOUS
  <2>0. /\ l \in Prices /\ l \in Maybe /\ l # Nil /\ l \in Nat
        /\ find[l] = Search(p, l, find[t.kid[Toward(p, l)][l]])
    BY <1>2, <1>3
  <2>1. CASE l = p
    BY <2>0, <2>1 DEF Search, IsPlace
  <2>2. ASSUME p < l, t.kid["left"][l] = Nil
        PROVE  IsPlace(L, p, find[l])
    <3>1. find[l] = Gap(pred[l], l)
      BY <1>3, <2>0, <2>2 DEF Search
    <3>2. Led(L, sub, p, Nil)
      BY <1>3, <2>2, LedOn DEF Toward
    <3>3. p \notin L
      BY <3>2 DEF Led, Under
    <3>4. \A m \in L : m < l => m < p
      <4>1. ASSUME NEW m \in L, m < l PROVE m < p
        <5>1. m \in Nat /\ l \in sub[l] /\ Under(sub, l) = sub[l] /\ m # p
          BY <1>3, <2>0, <3>3, SubFacts DEF Under
        <5>2. CASE m \notin sub[l]
          BY <2>0, <1>3, <4>1, <5>1, <5>2 DEF Led
        <5>3. CASE m \in sub[l]
          <6>1. sub[l] = {l} \union Under(sub, t.kid["left"][l])
                             \union Under(sub, t.kid["right"][l])
            BY KidPair
          <6>2. \A k \in Under(sub, t.kid["right"][l]) : l < k
            BY KidFacts DEF Beyond, Sides
          <6>3. m = l \/ l < m
            BY <2>2, <5>3, <6>1, <6>2 DEF Under
          <6> QED BY <2>0, <4>1, <5>1, <6>3
        <5> QED BY <5>2, <5>3
      <4> QED BY <4>1
    <3>5. pred[l] \in Maybe /\ Below(L, l, pred[l])
      BY <1>1, <2>0
    <3>6. Below(L, p, pred[l])
      <4>1. CASE pred[l] = Nil
        <5>1. \A m \in L : m \in Nat /\ l <= m
          BY <1>3, <3>5, <4>1 DEF Below
        <5> QED BY <1>3, <2>0, <2>2, <4>1, <5>1 DEF Below
      <4>2. CASE pred[l] # Nil
        <5>1. /\ pred[l] \in L /\ pred[l] < l /\ pred[l] < p
              /\ \A m \in L : m \in Nat /\ (m <= pred[l] \/ l <= m)
          BY <1>3, <3>4, <3>5, <4>2 DEF Below
        <5>2. \A m \in L : m <= pred[l] \/ p <= m
          BY <1>3, <2>0, <2>2, <5>1
        <5> QED BY <4>2, <5>1, <5>2 DEF Below
      <4> QED BY <4>1, <4>2
    <3>7. Above(L, p, l)
      <4>1. \A m \in L : m <= p \/ l <= m
        <5> TAKE m \in L
        <5>1. m \in Nat /\ (m < l => m < p)
          BY <1>3, <3>4
        <5> QED BY <1>3, <2>0, <5>1
      <4> QED BY <2>0, <2>2, <4>1 DEF Above
    <3> QED BY <2>0, <3>1, <3>3, <3>5, <3>6, <3>7, GapPlace
  <2>3. ASSUME p > l, t.kid["right"][l] = Nil
        PROVE  IsPlace(L, p, find[l])
    <3>1. find[l] = Gap(l, succ[l])
      BY <1>3, <2>0, <2>3 DEF Search
    <3>2. Led(L, sub, p, Nil)
      BY <1>3, <2>0, <2>3, LedOn DEF Toward
    <3>3. p \notin L
      BY <3>2 DEF Led, Under
    <3>4. \A m \in L : l < m => p < m
      <4>1. ASSUME NEW m \in L, l < m PROVE p < m
        <5>1. m \in Nat /\ l \in sub[l] /\ Under(sub, l) = sub[l] /\ m # p
          BY <1>3, <2>0, <3>3, SubFacts DEF Under
        <5>2. CASE m \notin sub[l]
          BY <2>0, <1>3, <4>1, <5>1, <5>2 DEF Led
        <5>3. CASE m \in sub[l]
          <6>1. sub[l] = {l} \union Under(sub, t.kid["left"][l])
                             \union Under(sub, t.kid["right"][l])
            BY KidPair
          <6>2. \A k \in Under(sub, t.kid["left"][l]) : k < l
            BY KidFacts DEF Beyond, Sides
          <6>3. m = l \/ m < l
            BY <2>3, <5>3, <6>1, <6>2 DEF Under
          <6> QED BY <2>0, <4>1, <5>1, <6>3
        <5> QED BY <5>2, <5>3
      <4> QED BY <4>1
    <3>5. succ[l] \in Maybe /\ Above(L, l, succ[l])
      BY <1>1, <2>0
    <3>6. Above(L, p, succ[l])
      <4>1. CASE succ[l] = Nil
        <5>1. \A m \in L : m \in Nat /\ m <= l
          BY <1>3, <3>5, <4>1 DEF Above
        <5>2. \A m \in L : m <= p
          BY <1>3, <2>0, <2>3, <5>1
        <5> QED BY <4>1, <5>2 DEF Above
      <4>2. CASE succ[l] # Nil
        <5>1. /\ succ[l] \in L /\ l < succ[l] /\ p < succ[l]
              /\ \A m \in L : m \in Nat /\ (m <= l \/ succ[l] <= m)
          BY <1>3, <3>4, <3>5, <4>2 DEF Above
        <5>2. \A m \in L : m <= p \/ succ[l] <= m
          BY <1>3, <2>0, <2>3, <5>1
        <5> QED BY <4>2, <5>1, <5>2 DEF Above
      <4> QED BY <4>1, <4>2
    <3>7. Below(L, p, l)
      <4>1. \A m \in L : m <= l \/ p <= m
        <5> TAKE m \in L
        <5>1. m \in Nat /\ (l < m => p < m)
          BY <1>3, <3>4
        <5> QED BY <1>3, <2>0, <5>1
      <4> QED BY <2>0, <2>3, <4>1 DEF Below
    <3> QED BY <2>0, <3>1, <3>3, <3>5, <3>6, <3>7, GapPlace
  <2>4. ASSUME l # p, ~ (p < l /\ t.kid["left"][l] = Nil),
               ~ (p > l /\ t.kid["right"][l] = Nil)
        PROVE  IsPlace(L, p, find[l])
    <3>1. PICK k : k = t.kid[Toward(p, l)][l]
      OBVIOUS
    <3>2. Led(L, sub, p, k)
      BY <2>4, <3>1, LedOn
    <3>3. Toward(p, l) \in Sides /\ k # Nil
      <4>1. CASE p < l
        BY <2>4, <3>1, <4>1 DEF Toward, Sides
      <4>2. CASE ~ (p < l)
        <5>1. p > l
          BY <1>3, <2>0, <2>4, <4>2
        <5> QED BY <2>4, <3>1, <4>2, <5>1 DEF Toward, Sides
      <4> QED BY <4>1, <4>2
    <3>4. IsPlace(L, p, find[k])
      BY <1>4, <3>1, <3>2, <3>3
    <3>5. find[l] = find[k]
      BY <2>0, <2>4, <3>1 DEF Search
    <3> QED BY <3>4, <3>5
  <2> QED BY <2>1, <2>2, <2>3, <2>4
<1>5. Good \in SUBSET L
  OBVIOUS
<1>6. Good = L
  <2> HIDE DEF Good
  <2> QED BY <1>4, <1>5, TreeInduct
<1>7. CASE L = {}
  <2>1. t.root = Nil /\ find[Nil] = Gap(Nil, Nil)
    BY <1>2, <1>3, <1>7 DEF TreeOK, Search
  <2>2. Below(L, p, Nil) /\ Above(L, p, Nil)
    BY <1>7 DEF Below, Above
  <2>3. IsPlace(L, p, Gap(Nil, Nil))
    <3>1. p \notin L /\ Nil \in Maybe
      BY <1>3, <1>7
    <3> QED BY <2>2, <3>1, GapPlace
  <2>4. FindNeighbors(p) = Gap(Nil, Nil)
    BY <1>2, <2>1
  <2> QED BY <2>3, <2>4
<1>8. CASE L # {}
  <2>1. t.root \in L /\ Led(L, sub, p, t.root)
    BY <1>3, <1>8 DEF TreeOK, Led, Under
  <2>2. t.root \in Good
    BY <1>6, <2>1
  <2>3. IsPlace(L, p, find[t.root])
    BY <2>1, <2>2
  <2>4. FindNeighbors(p) = find[t.root]
    BY <1>2
  <2> QED BY <2>3, <2>4
<1> QED BY <1>7, <1>8

\* The shortcuts over the best level and its neighbour find the same place.
LEMMA RouteFound ==
  ASSUME NEW L, NEW sub, TreeOK(t, L, sub), NEW p \in Prices,
         ThreadsOK(L, type, pred, succ, best)
  PROVE  IsPlace(L, p, Route(p))
<1>1. /\ L \subseteq Prices /\ Nil \in Maybe /\ Nil \notin Prices /\ p \in Nat /\ p \in Prices
      /\ \A k \in Prices : k \in Maybe /\ k \in Nat
  BY PriceFacts DEF Maybe, TreeOK
<1>2. IsPlace(L, p, FindNeighbors(p))
  BY NeighborsFound
<1>3. CASE best = Nil
  <2>1. Route(p) = FindNeighbors(p)
    BY <1>3 DEF Route
  <2> QED BY <1>2, <2>1
<1>4. CASE best # Nil
  <2>1. best \in L /\ best \in Nat /\ best \in Maybe /\ best \in Prices
    BY <1>1, <1>4 DEF ThreadsOK
  <2>2. PICK next : next = Worse(best)
    OBVIOUS
  <2>3. type \in {"BID", "ASK"} /\ (Bid <=> type = "BID")
    BY DEF ThreadsOK, Bid
  <2>4. CASE p = best
    <3>1. Route(p) = At(best)
      BY <1>4, <2>1, <2>4 DEF Route, Better
    <3> QED BY <2>1, <2>4, <3>1 DEF IsPlace
  <2>5. CASE Bid
    <3>1. /\ \A m \in L : m <= best /\ m \in Nat
          /\ next = pred[best] /\ Below(L, best, next) /\ next \in Maybe
      BY <1>1, <2>1, <2>2, <2>3, <2>5 DEF ThreadsOK, Worse
    <3>2. CASE p > best
      <4>1. Route(p) = Gap(best, Nil)
        BY <1>1, <1>4, <2>1, <2>5, <3>2 DEF Route, Better
      <4>2. p \notin L /\ Below(L, p, best) /\ Above(L, p, Nil)
        BY <1>1, <2>1, <3>1, <3>2 DEF Below, Above
      <4> QED BY <1>1, <2>1, <4>1, <4>2, GapPlace
    <3>3. CASE p < best
      <4>1. CASE next = Nil
        <5>1. Route(p) = Gap(Nil, best)
          BY <1>1, <1>4, <2>1, <2>2, <2>5, <3>3, <4>1 DEF Route, Better
        <5>2. \A m \in L : best <= m /\ m \in Nat /\ m <= best
          BY <3>1, <4>1 DEF Below
        <5>3. p \notin L /\ Below(L, p, Nil) /\ Above(L, p, best)
          BY <1>1, <2>1, <3>3, <5>2 DEF Below, Above
        <5> QED BY <1>1, <2>1, <5>1, <5>3, GapPlace
      <4>2. CASE next # Nil
        <5>1. /\ next \in L /\ next < best /\ next \in Nat
              /\ \A m \in L : m \in Nat /\ (m <= next \/ best <= m)
          BY <3>1, <4>2 DEF Below
        <5>2. CASE p = next
          <6>1. Route(p) = At(next)
            BY <1>1, <1>4, <2>1, <2>2, <2>5, <3>3, <4>2, <5>2 DEF Route, Better
          <6> QED BY <5>1, <5>2, <6>1 DEF IsPlace
        <5>3. CASE p > next
          <6>1. Route(p) = Gap(next, best)
            BY <1>1, <1>4, <2>1, <2>2, <2>5, <3>3, <4>2, <5>1, <5>3 DEF Route, Better
          <6>2. p \notin L /\ Below(L, p, next) /\ Above(L, p, best)
            BY <1>1, <2>1, <3>3, <4>2, <5>1, <5>3 DEF Below, Above
          <6> QED BY <1>1, <2>1, <3>1, <6>1, <6>2, GapPlace
        <5>4. CASE p < next
          <6>1. Route(p) = FindNeighbors(p)
            BY <1>1, <1>4, <2>1, <2>2, <2>5, <3>3, <4>2, <5>1, <5>4 DEF Route, Better
          <6> QED BY <1>2, <6>1
        <5> QED BY <1>1, <5>1, <5>2, <5>3, <5>4
      <4> QED BY <4>1, <4>2
    <3> QED BY <1>1, <2>1, <2>4, <3>2, <3>3
  <2>6. CASE ~ Bid
    <3>1. /\ \A m \in L : best <= m /\ m \in Nat
          /\ next = succ[best] /\ Above(L, best, next) /\ next \in Maybe
      BY <1>1, <2>1, <2>2, <2>3, <2>6 DEF ThreadsOK, Worse
    <3>2. CASE p < best
      <4>1. Route(p) = Gap(Nil, best)
        BY <1>1, <1>4, <2>1, <2>6, <3>2 DEF Route, Better
      <4>2. p \notin L /\ Below(L, p, Nil) /\ Above(L, p, best)
        BY <1>1, <2>1, <3>1, <3>2 DEF Below, Above
      <4> QED BY <1>1, <2>1, <4>1, <4>2, GapPlace
    <3>3. CASE p > best
      <4>1. CASE next = Nil
        <5>1. Route(p) = Gap(best, Nil)
          BY <1>1, <1>4, <2>1, <2>2, <2>6, <3>3, <4>1 DEF Route, Better
        <5>2. \A m \in L : m <= best /\ m \in Nat /\ best <= m
          BY <3>1, <4>1 DEF Above
        <5>3. p \notin L /\ Below(L, p, best) /\ Above(L, p, Nil)
          BY <1>1, <2>1, <3>3, <5>2 DEF Below, Above
        <5> QED BY <1>1, <2>1, <5>1, <5>3, GapPlace
      <4>2. CASE next # Nil
        <5>1. /\ next \in L /\ best < next /\ next \in Nat
              /\ \A m \in L : m \in Nat /\ (m <= best \/ next <= m)
          BY <3>1, <4>2 DEF Above
        <5>2. CASE p = next
          <6>1. Route(p) = At(next)
            BY <1>1, <1>4, <2>1, <2>2, <2>6, <3>3, <4>2, <5>2 DEF Route, Better
          <6> QED BY <5>1, <5>2, <6>1 DEF IsPlace
        <5>3. CASE p < next
          <6>1. Route(p) = Gap(best, next)
            BY <1>1, <1>4, <2>1, <2>2, <2>6, <3>3, <4>2, <5>1, <5>3 DEF Route, Better
          <6>2. p \notin L /\ Below(L, p, best) /\ Above(L, p, next)
            BY <1>1, <2>1, <3>3, <4>2, <5>1, <5>3 DEF Below, Above
          <6> QED BY <1>1, <2>1, <3>1, <6>1, <6>2, GapPlace
        <5>4. CASE p > next
          <6>1. Route(p) = FindNeighbors(p)
            BY <1>1, <1>4, <2>1, <2>2, <2>6, <3>3, <4>2, <5>1, <5>4 DEF Route, Better
          <6> QED BY <1>2, <6>1
        <5> QED BY <1>1, <5>1, <5>2, <5>3, <5>4
      <4> QED BY <4>1, <4>2
    <3> QED BY <1>1, <2>1, <2>4, <3>2, <3>3
  <2> QED BY <2>5, <2>6
<1> QED BY <1>3, <1>4

\* Of the neighbours of a new level in a tree that has levels, the lower has
\* no right child, or the higher has no left one.
LEMMA PlaceFree ==
  ASSUME NEW tr, NEW L, NEW sub, TreeOK(tr, L, sub), NEW p \in Prices \ L, L # {},
         NEW a \in Maybe, NEW b \in Maybe, Below(L, p, a), Above(L, p, b)
  PROVE  /\ a # Nil => a \in L
         /\ b # Nil => b \in L
         /\ a # Nil /\ tr.kid["right"][a] = Nil => CanHang(tr, L, sub, p, a, "right")
         /\ ~ (a # Nil /\ tr.kid["right"][a] = Nil) =>
              b # Nil /\ CanHang(tr, L, sub, p, b, "left")
<1>1. /\ L \subseteq Prices /\ p \in Nat /\ \A m \in L : m \in Nat /\ m # p /\ m # Nil
      /\ "left" \in Sides /\ "right" \in Sides
  BY PriceFacts DEF TreeOK, Sides
<1>2. /\ a # Nil => a \in L /\ a < p /\ \A m \in L : m <= a \/ p < m
      /\ a = Nil => \A m \in L : p < m
  BY <1>1 DEF Below
<1>3. /\ b # Nil => b \in L /\ p < b /\ \A m \in L : m < p \/ b <= m
      /\ b = Nil => \A m \in L : m < p
  BY <1>1 DEF Above
<1>4. ASSUME a # Nil, tr.kid["right"][a] = Nil
      PROVE  CanHang(tr, L, sub, p, a, "right")
  <2>1. \A m \in L : m # a => ((m < p) <=> (m < a))
    BY <1>1, <1>2, <1>4
  <2> QED BY <1>1, <1>2, <1>4, <2>1 DEF CanHang, Beyond
<1>5. ASSUME ~ (a # Nil /\ tr.kid["right"][a] = Nil)
      PROVE  b # Nil /\ CanHang(tr, L, sub, p, b, "left")
  <2>1. PICK k : k = tr.kid["right"][a]
    OBVIOUS
  <2>2. a # Nil => k \in L /\ a < k /\ k \in sub[a] /\ k \in Nat /\ p < k
    <3> SUFFICES ASSUME a # Nil PROVE k \in L /\ a < k /\ k \in sub[a] /\ k \in Nat /\ p < k
      OBVIOUS
    <3>1. /\ tr.kid["right"][a] \in L /\ Beyond("right", tr.kid["right"][a], a)
          /\ tr.kid["right"][a] \in sub[a]
      BY <1>1, <1>2, <1>5, KidFacts
    <3> QED BY <1>1, <1>2, <2>1, <3>1 DEF Beyond
  <2>3. b # Nil
    <3> SUFFICES ASSUME b = Nil PROVE FALSE
      OBVIOUS
    <3>1. \A m \in L : m < p
      BY <1>3
    <3>2. a # Nil
      <4>1. PICK m \in L : TRUE
        OBVIOUS
      <4>2. m < p /\ (a = Nil => p < m) /\ m \in Nat
        BY <1>1, <1>2, <3>1
      <4> QED BY <1>1, <4>2
    <3>3. k < p /\ p < k /\ k \in Nat
      BY <2>2, <3>1, <3>2
    <3> QED BY <1>1, <3>3
  <2>4. \A m \in L : m # b => ((m < p) <=> (m < b))
    <3>1. b \in Nat /\ p < b /\ \A m \in L : m < p \/ b <= m
      BY <1>1, <1>3, <2>3
    <3> TAKE m \in L
    <3>2. m \in Nat /\ p \in Nat /\ (m < p \/ b <= m)
      BY <1>1, <3>1
    <3> QED BY <3>1, <3>2
  <2>5. tr.kid["left"][b] = Nil
    <3> SUFFICES ASSUME tr.kid["left"][b] # Nil PROVE FALSE
      OBVIOUS
    <3>1. PICK j : j = tr.kid["left"][b]
      OBVIOUS
    <3>2. j \in L /\ j < b /\ j \in sub[b] /\ j \in Nat /\ j < p
      <4>1. /\ tr.kid["left"][b] \in L /\ Beyond("left", tr.kid["left"][b], b)
            /\ tr.kid["left"][b] \in sub[b]
        BY <1>1, <1>3, <2>3, KidFacts
      <4> QED BY <1>1, <1>3, <2>3, <3>1, <4>1 DEF Beyond
    <3>3. a # Nil
      <4>1. a = Nil => p < j
        BY <1>2, <3>2
      <4> QED BY <1>1, <3>2, <4>1
    <3>4. /\ a \in L /\ a \in Nat /\ b \in L /\ b \in Nat /\ a < p /\ p < b
          /\ k \in L /\ k \in Nat /\ k \in sub[a] /\ b <= k /\ j <= a
      <4>1. /\ a \in L /\ a < p /\ b \in L /\ p < b /\ k \in L /\ k \in sub[a] /\ p < k
            /\ k \in Nat
        BY <1>2, <1>3, <2>2, <2>3, <3>3
      <4>2. b <= k
        BY <1>1, <1>3, <2>3, <4>1
      <4>3. j <= a
        BY <1>1, <1>2, <3>2, <3>3
      <4> QED BY <1>1, <4>1, <4>2, <4>3
    <3>5. b \in sub[a]
      <4>1. /\ \A m \in L \ sub[a] : \A c, e \in sub[a] : (c < m) <=> (e < m)
            /\ a \in sub[a]
        BY <3>4, SubFacts
      <4>2. b \notin sub[a] => ((a < b) <=> (k < b))
        BY <3>4, <4>1
      <4>3. a < b /\ ~ (k < b)
        BY <1>1, <3>4
      <4> QED BY <4>2, <4>3
    <3>6. a \in sub[b]
      <4>1. /\ \A m \in L \ sub[b] : \A c, e \in sub[b] : (c < m) <=> (e < m)
            /\ b \in sub[b]
        BY <3>4, SubFacts
      <4>2. a \notin sub[b] => ((j < a) <=> (b < a))
        BY <3>2, <3>4, <4>1
      <4>3. ~ (b < a)
        BY <1>1, <3>4
      <4>4. a \notin sub[b] => j = a
        BY <3>2, <3>4, <4>2, <4>3
      <4> QED BY <3>2, <4>4
    <3>7. a = b
      BY <3>4, <3>5, <3>6, SubFacts
    <3> QED BY <1>1, <3>4, <3>7
  <2> QED BY <1>1, <1>3, <2>3, <2>4, <2>5 DEF CanHang, Beyond
<1> QED BY <1>2, <1>3, <1>4, <1>5

-----------------------------------------------------------------------------
(* The threads.                                                            *)

\* p enters the threads between a and b.
IsThreaded(L, ty, pd, sc, top, p, a, b, pd2, sc2, top2) ==
  /\ ThreadsOK(L, ty, pd, sc, top) /\ L \subseteq Prices
  /\ p \in Prices \ L /\ a \in Maybe /\ b \in Maybe
  /\ Below(L, p, a) /\ Above(L, p, b)
  /\ pd2 = [l \in Prices |-> IF l = p THEN a ELSE IF l = b THEN p ELSE pd[l]]
  /\ sc2 = [l \in Prices |-> IF l = p THEN b ELSE IF l = a THEN p ELSE sc[l]]
  /\ top2 = IF L = {} \/ (IF ty = "BID" THEN b ELSE a) = Nil THEN p ELSE top

LEMMA ThreadsGain ==
  ASSUME NEW L, NEW ty, NEW pd, NEW sc, NEW top, NEW p, NEW a, NEW b,
         NEW pd2, NEW sc2, NEW top2,
         IsThreaded(L, ty, pd, sc, top, p, a, b, pd2, sc2, top2)
  PROVE  ThreadsOK(L \union {p}, ty, pd2, sc2, top2)
<1>1. /\ L \subseteq Prices /\ p \in Prices /\ p \notin L /\ a \in Maybe /\ b \in Maybe
      /\ p \in Nat /\ p # Nil /\ Prices \subseteq Maybe
      /\ \A m \in L : m \in Nat /\ m # p /\ m # Nil /\ m \in Prices
  BY PriceFacts DEF IsThreaded, Maybe
<1>2. PICK K : K = L \union {p}
  OBVIOUS
<1>3. /\ pd \in [Prices -> Maybe] /\ sc \in [Prices -> Maybe]
      /\ \A l \in L : Below(L, l, pd[l]) /\ Above(L, l, sc[l])
      /\ ty \in {"BID", "ASK"}
      /\ IF L = {} THEN top = Nil
         ELSE /\ top \in L
              /\ \A m \in L : IF ty = "BID" THEN m <= top ELSE top <= m
  BY DEF IsThreaded, ThreadsOK
<1>4. /\ a # Nil => a \in L /\ a \in Nat /\ a < p /\ \A m \in L : m <= a \/ p < m
      /\ a = Nil => \A m \in L : p < m
  BY <1>1 DEF IsThreaded, Below
<1>5. /\ b # Nil => b \in L /\ b \in Nat /\ p < b /\ \A m \in L : m < p \/ b <= m
      /\ b = Nil => \A m \in L : m < p
  BY <1>1 DEF IsThreaded, Above
<1>6. /\ pd2 \in [Prices -> Maybe] /\ sc2 \in [Prices -> Maybe]
      /\ pd2[p] = a /\ sc2[p] = b
      /\ \A l \in L : /\ pd2[l] = IF l = b THEN p ELSE pd[l]
                      /\ sc2[l] = IF l = a THEN p ELSE sc[l]
  BY <1>1, <1>3 DEF IsThreaded
<1>7. Below(K, p, a) /\ Above(K, p, b)
  BY <1>1, <1>2, <1>4, <1>5 DEF Below, Above
<1>8. ASSUME NEW l \in L PROVE Below(K, l, pd2[l])
  <2>1. CASE l = b
    <3>1. pd2[l] = p /\ b # Nil
      BY <1>1, <1>6, <2>1
    <3>2. \A m \in K : m <= p \/ l <= m
      BY <1>1, <1>2, <1>5, <2>1, <3>1
    <3> QED BY <1>1, <1>2, <1>5, <2>1, <3>1, <3>2 DEF Below
  <2>2. CASE l # b
    <3>1. pd2[l] = pd[l] /\ Below(L, l, pd[l]) /\ l \in Nat
      BY <1>1, <1>3, <1>6, <2>2
    <3>2. CASE pd[l] = Nil
      <4>1. \A m \in L : l <= m
        BY <3>1, <3>2 DEF Below
      <4>2. l <= p
        <5>1. CASE b = Nil
          BY <1>1, <1>5, <5>1
        <5>2. CASE b # Nil
          BY <1>1, <1>5, <2>2, <4>1, <5>2
        <5> QED BY <5>1, <5>2
      <4> QED BY <1>1, <1>2, <3>1, <3>2, <4>1, <4>2 DEF Below
    <3>3. CASE pd[l] # Nil
      <4>1. PICK c : c = pd[l]
        OBVIOUS
      <4>2. c \in L /\ c \in Nat /\ c < l /\ \A m \in L : m <= c \/ l <= m
        BY <1>1, <3>1, <3>3, <4>1 DEF Below
      <4>3. p <= c \/ l <= p
        <5>1. CASE b = Nil
          BY <1>1, <1>5, <3>1, <5>1
        <5>2. CASE b # Nil
          <6>1. b \in Nat /\ p < b /\ (l < p \/ b <= l) /\ (b <= c \/ l <= b)
            BY <1>5, <4>2, <5>2
          <6> QED BY <1>1, <2>2, <3>1, <4>2, <6>1
        <5> QED BY <5>1, <5>2
      <4> QED BY <1>1, <1>2, <3>1, <3>3, <4>1, <4>2, <4>3 DEF Below
    <3> QED BY <3>2, <3>3
  <2> QED BY <2>1, <2>2
<1>9. ASSUME NEW l \in L PROVE Above(K, l, sc2[l])
  <2>1. CASE l = a
    <3>1. sc2[l] = p /\ a # Nil
      BY <1>1, <1>6, <2>1
    <3>2. \A m \in K : m <= l \/ p <= m
      BY <1>1, <1>2, <1>4, <2>1, <3>1
    <3> QED BY <1>1, <1>2, <1>4, <2>1, <3>1, <3>2 DEF Above
  <2>2. CASE l # a
    <3>1. sc2[l] = sc[l] /\ Above(L, l, sc[l]) /\ l \in Nat
      BY <1>1, <1>3, <1>6, <2>2
    <3>2. CASE sc[l] = Nil
      <4>1. \A m \in L : m <= l
        BY <3>1, <3>2 DEF Above
      <4>2. p <= l
        <5>1. CASE a = Nil
          BY <1>1, <1>4, <5>1
        <5>2. CASE a # Nil
          BY <1>1, <1>4, <2>2, <4>1, <5>2
        <5> QED BY <5>1, <5>2
      <4> QED BY <1>1, <1>2, <3>1, <3>2, <4>1, <4>2 DEF Above
    <3>3. CASE sc[l] # Nil
      <4>1. PICK c : c = sc[l]
        OBVIOUS
      <4>2. c \in L /\ c \in Nat /\ l < c /\ \A m \in L : m <= l \/ c <= m
        BY <1>1, <3>1, <3>3, <4>1 DEF Above
      <4>3. p <= l \/ c <= p
        <5>1. CASE a = Nil
          BY <1>1, <1>4, <3>1, <5>1
        <5>2. CASE a # Nil
          <6>1. a \in Nat /\ a < p /\ (l <= a \/ p < l) /\ (a <= l \/ c <= a)
            BY <1>4, <4>2, <5>2
          <6> QED BY <1>1, <2>2, <3>1, <4>2, <6>1
        <5> QED BY <5>1, <5>2
      <4> QED BY <1>1, <1>2, <3>1, <3>3, <4>1, <4>2, <4>3 DEF Above
    <3> QED BY <3>2, <3>3
  <2> QED BY <2>1, <2>2
<1>10. top2 \in K /\ \A m \in K : IF ty = "BID" THEN m <= top2 ELSE top2 <= m
  <2>1. CASE L = {}
    BY <1>1, <1>2, <2>1 DEF IsThreaded
  <2>2. CASE L # {} /\ ty = "BID"
    <3>1. top2 = (IF b = Nil THEN p ELSE top) /\ top \in L /\ \A m \in L : m <= top
      BY <1>3, <2>2 DEF IsThreaded
    <3>2. CASE b = Nil
      BY <1>1, <1>2, <1>5, <2>2, <3>1, <3>2
    <3>3. CASE b # Nil
      BY <1>1, <1>2, <1>5, <2>2, <3>1, <3>3
    <3> QED BY <3>2, <3>3
  <2>3. CASE L # {} /\ ty # "BID"
    <3>1. top2 = (IF a = Nil THEN p ELSE top) /\ top \in L /\ \A m \in L : top <= m
      BY <1>3, <2>3 DEF IsThreaded
    <3>2. CASE a = Nil
      BY <1>1, <1>2, <1>4, <2>3, <3>1, <3>2
    <3>3. CASE a # Nil
      BY <1>1, <1>2, <1>4, <2>3, <3>1, <3>3
    <3> QED BY <3>2, <3>3
  <2> QED BY <2>1, <2>2, <2>3
<1>11. \A l \in K : Below(K, l, pd2[l]) /\ Above(K, l, sc2[l])
  BY <1>2, <1>6, <1>7, <1>8, <1>9
<1>12. ThreadsOK(K, ty, pd2, sc2, top2)
  BY <1>3, <1>6, <1>10, <1>11 DEF ThreadsOK
<1> QED BY <1>2, <1>12

\* z leaves the threads.
IsUnthreaded(L, ty, pd, sc, top, z, pd2, sc2, top2) ==
  /\ ThreadsOK(L, ty, pd, sc, top) /\ L \subseteq Prices /\ z \in L
  /\ pd2 = Without(pd, z, sc[z]) /\ sc2 = Without(sc, z, pd[z])
  /\ top2 = IF z = top THEN (IF ty = "BID" THEN pd[z] ELSE sc[z]) ELSE top

LEMMA ThreadsLose ==
  ASSUME NEW L, NEW ty, NEW pd, NEW sc, NEW top, NEW z, NEW pd2, NEW sc2, NEW top2,
         IsUnthreaded(L, ty, pd, sc, top, z, pd2, sc2, top2)
  PROVE  ThreadsOK(L \ {z}, ty, pd2, sc2, top2)
<1>1. /\ L \subseteq Prices /\ z \in L /\ z \in Prices /\ z \in Nat /\ z # Nil
      /\ Nil \in Maybe
      /\ \A m \in L : m \in Nat /\ m # Nil /\ m \in Prices
  BY PriceFacts DEF IsUnthreaded, Maybe
<1>2. PICK K, a, b : K = L \ {z} /\ a = pd[z] /\ b = sc[z]
  OBVIOUS
<1>3. /\ pd \in [Prices -> Maybe] /\ sc \in [Prices -> Maybe]
      /\ \A l \in L : Below(L, l, pd[l]) /\ Above(L, l, sc[l])
      /\ ty \in {"BID", "ASK"}
      /\ top \in L /\ \A m \in L : IF ty = "BID" THEN m <= top ELSE top <= m
  BY <1>1 DEF IsUnthreaded, ThreadsOK
<1>4. /\ a \in Maybe /\ b \in Maybe
      /\ a # Nil => a \in L /\ a \in Nat /\ a < z /\ \A m \in L : m <= a \/ z <= m
      /\ a = Nil => \A m \in L : z <= m
      /\ b # Nil => b \in L /\ b \in Nat /\ z < b /\ \A m \in L : m <= z \/ b <= m
      /\ b = Nil => \A m \in L : m <= z
  BY <1>1, <1>2, <1>3 DEF Below, Above
<1>5. /\ pd2 \in [Prices -> Maybe] /\ sc2 \in [Prices -> Maybe]
      /\ \A l \in K : /\ pd2[l] = IF l = b THEN a ELSE pd[l]
                      /\ sc2[l] = IF l = a THEN b ELSE sc[l]
  BY <1>1, <1>2, <1>3 DEF IsUnthreaded, Without
<1>6. ASSUME NEW l \in K PROVE Below(K, l, pd2[l])
  <2>0. l \in L /\ l # z /\ l \in Nat
    BY <1>1, <1>2
  <2>1. CASE l = b
    <3>1. pd2[l] = a /\ b # Nil
      BY <1>1, <1>5, <2>0, <2>1
    <3>2. CASE a = Nil
      <4>1. \A m \in K : l <= m
        <5> TAKE m \in K
        <5>1. m \in Nat /\ z <= m /\ m # z /\ (m <= z \/ l <= m)
          BY <1>1, <1>2, <1>4, <2>1, <3>1, <3>2
        <5> QED BY <1>1, <2>0, <5>1
      <4> QED BY <3>1, <3>2, <4>1 DEF Below
    <3>3. CASE a # Nil
      <4>1. a \in K /\ a < l
        BY <1>1, <1>2, <1>4, <2>0, <2>1, <3>1, <3>3
      <4>2. \A m \in K : m <= a \/ l <= m
        <5> TAKE m \in K
        <5>1. m \in Nat /\ m # z /\ (m <= z \/ l <= m) /\ (m <= a \/ z <= m)
          BY <1>1, <1>2, <1>4, <2>1, <3>1, <3>3
        <5> QED BY <1>1, <2>0, <5>1
      <4> QED BY <3>1, <3>3, <4>1, <4>2 DEF Below
    <3> QED BY <3>2, <3>3
  <2>2. CASE l # b
    <3>1. pd2[l] = pd[l] /\ Below(L, l, pd[l])
      BY <1>3, <1>5, <2>0, <2>2
    <3>2. pd[l] # z
      <4> SUFFICES ASSUME pd[l] = z PROVE FALSE
        OBVIOUS
      <4>1. z < l /\ \A m \in L : m <= z \/ l <= m
        BY <1>1, <3>1 DEF Below
      <4>2. b # Nil
        BY <1>1, <1>4, <2>0, <4>1
      <4>3. b \in Nat /\ z < b /\ (l <= z \/ b <= l) /\ (b <= z \/ l <= b)
        BY <1>4, <2>0, <4>1, <4>2
      <4> QED BY <1>1, <2>0, <2>2, <4>1, <4>3
    <3> QED BY <1>1, <1>2, <2>0, <3>1, <3>2 DEF Below
  <2> QED BY <2>1, <2>2
<1>7. ASSUME NEW l \in K PROVE Above(K, l, sc2[l])
  <2>0. l \in L /\ l # z /\ l \in Nat
    BY <1>1, <1>2
  <2>1. CASE l = a
    <3>1. sc2[l] = b /\ a # Nil
      BY <1>1, <1>5, <2>0, <2>1
    <3>2. CASE b = Nil
      <4>1. \A m \in K : m <= l
        <5> TAKE m \in K
        <5>1. m \in Nat /\ m <= z /\ m # z /\ (m <= l \/ z <= m)
          BY <1>1, <1>2, <1>4, <2>1, <3>1, <3>2
        <5> QED BY <1>1, <2>0, <5>1
      <4> QED BY <3>1, <3>2, <4>1 DEF Above
    <3>3. CASE b # Nil
      <4>1. b \in K /\ l < b
        BY <1>1, <1>2, <1>4, <2>0, <2>1, <3>1, <3>3
      <4>2. \A m \in K : m <= l \/ b <= m
        <5> TAKE m \in K
        <5>1. m \in Nat /\ m # z /\ (m <= l \/ z <= m) /\ (m <= z \/ b <= m)
          BY <1>1, <1>2, <1>4, <2>1, <3>1, <3>3
        <5> QED BY <1>1, <1>4, <2>0, <3>3, <5>1
      <4> QED BY <3>1, <3>3, <4>1, <4>2 DEF Above
    <3> QED BY <3>2, <3>3
  <2>2. CASE l # a
    <3>1. sc2[l] = sc[l] /\ Above(L, l, sc[l])
      BY <1>3, <1>5, <2>0, <2>2
    <3>2. sc[l] # z
      <4> SUFFICES ASSUME sc[l] = z PROVE FALSE
        OBVIOUS
      <4>1. l < z /\ \A m \in L : m <= l \/ z <= m
        BY <1>1, <3>1 DEF Above
      <4>2. a # Nil
        BY <1>1, <1>4, <2>0, <4>1
      <4>3. a \in Nat /\ a < z /\ (l <= a \/ z <= l) /\ (a <= l \/ z <= a)
        BY <1>4, <2>0, <4>1, <4>2
      <4> QED BY <1>1, <2>0, <2>2, <4>1, <4>3
    <3> QED BY <1>1, <1>2, <2>0, <3>1, <3>2 DEF Above
  <2> QED BY <2>1, <2>2
<1>8. IF K = {} THEN top2 = Nil
      ELSE top2 \in K /\ \A m \in K : IF ty = "BID" THEN m <= top2 ELSE top2 <= m
  <2>0. top2 = IF z = top THEN (IF ty = "BID" THEN a ELSE b) ELSE top
    BY <1>2 DEF IsUnthreaded
  <2>1. CASE z # top
    BY <1>2, <1>3, <2>0, <2>1
  <2>2. CASE z = top /\ ty = "BID"
    <3>1. top2 = a /\ \A m \in L : m <= z /\ m \in Nat
      BY <1>1, <1>3, <2>0, <2>2
    <3>2. CASE a = Nil
      <4>1. \A m \in L : m = z
        BY <1>1, <1>4, <3>1, <3>2
      <4> QED BY <1>2, <3>1, <3>2, <4>1
    <3>3. CASE a # Nil
      <4>1. a \in K /\ \A m \in K : m <= a
        <5>1. a \in K
          BY <1>1, <1>2, <1>4, <3>3
        <5> SUFFICES ASSUME NEW m \in K PROVE m <= a
          BY <5>1
        <5>2. m \in Nat /\ m # z /\ m <= z /\ (m <= a \/ z <= m)
          BY <1>2, <1>4, <3>1, <3>3
        <5> QED BY <1>1, <5>2
      <4> QED BY <2>2, <3>1, <4>1
    <3> QED BY <3>2, <3>3
  <2>3. CASE z = top /\ ty # "BID"
    <3>1. top2 = b /\ \A m \in L : z <= m /\ m \in Nat
      BY <1>1, <1>3, <2>0, <2>3
    <3>2. CASE b = Nil
      <4>1. \A m \in L : m = z
        BY <1>1, <1>4, <3>1, <3>2
      <4> QED BY <1>2, <3>1, <3>2, <4>1
    <3>3. CASE b # Nil
      <4>1. b \in K /\ \A m \in K : b <= m
        <5>1. b \in K
          BY <1>1, <1>2, <1>4, <3>3
        <5> SUFFICES ASSUME NEW m \in K PROVE b <= m
          BY <5>1
        <5>2. m \in Nat /\ m # z /\ z <= m /\ (m <= z \/ b <= m)
          BY <1>2, <1>4, <3>1, <3>3
        <5> QED BY <1>1, <5>2
      <4> QED BY <2>3, <3>1, <4>1
    <3> QED BY <3>2, <3>3
  <2> QED BY <2>1, <2>2, <2>3
<1>9. ThreadsOK(K, ty, pd2, sc2, top2)
  BY <1>3, <1>5, <1>6, <1>7, <1>8 DEF ThreadsOK
<1> QED BY <1>2, <1>9
=============================================================================
