--------------------------- MODULE LiquiBookSteps ---------------------------
(***************************************************************************)
(* What the functions of LiquiBook do in the middle of a call.  A call is  *)
(* one step, so what IInv says between calls has to be said of a call      *)
(* under way: Steady says it, of the order objects that the callbacks      *)
(* queued so far will make, and every loop of the matching keeps it.       *)
(* LiquiBookProofs has the theorems.                                       *)
(***************************************************************************)
EXTENDS LiquiBookInv, TLAPS, FiniteSetTheorems, SequenceTheorems, WellFoundedInduction

-----------------------------------------------------------------------------
(* Numbers and sequences.                                                  *)

\* A nonempty set of naturals has a least element.
LEMMA LeastOf ==
  ASSUME NEW T \in SUBSET Nat, T # {}
  PROVE  \E n \in T : \A m \in T : n <= m
<1>1. IsWellFoundedOn(OpToRel(<, Nat), Nat)
  BY NatLessThanWellFounded
<1>2. PICK n \in T : \A m \in T : ~ (<<m, n>> \in OpToRel(<, Nat))
  BY <1>1, WFMin
<1>3. \A m \in T : ~ (m < n)
  BY <1>2 DEF OpToRel
<1> QED BY <1>3

\* What holds at 0 and is passed on holds up to n.
LEMMA Induct ==
  ASSUME NEW n \in Nat, NEW S, 0 \in S, \A i \in 1 .. n : i - 1 \in S => i \in S
  PROVE  \A i \in 0 .. n : i \in S
<1> DEFINE Bad == {i \in 0 .. n : i \notin S}
<1>1. SUFFICES ASSUME Bad # {} PROVE FALSE
  OBVIOUS
<1>2. PICK i \in Bad : \A j \in Bad : i <= j
  <2>1. Bad \in SUBSET Nat
    OBVIOUS
  <2> HIDE DEF Bad
  <2> QED BY <2>1, <1>1, LeastOf
<1>3. i # 0 /\ i - 1 \in 0 .. n /\ i - 1 \notin Bad
  BY <1>2
<1>4. QED BY <1>2, <1>3

\* A sequence without its element at k.
LEMMA RemoveIs ==
  ASSUME NEW S, NEW s \in Seq(S), NEW k \in 1 .. Len(s)
  PROVE  /\ RemoveAt(s, k) \in Seq(S) /\ Len(RemoveAt(s, k)) = Len(s) - 1
         /\ \A i \in 1 .. (Len(s) - 1) :
              RemoveAt(s, k)[i] = IF i < k THEN s[i] ELSE s[i + 1]
<1>1. PICK n \in Nat : n = Len(s)
  OBVIOUS
<1>2. PICK a : a = SubSeq(s, 1, k - 1)
  OBVIOUS
<1>3. PICK b : b = SubSeq(s, k + 1, n)
  OBVIOUS
<1>4. PICK u : u = RemoveAt(s, k)
  OBVIOUS
<1>5. \A i \in 1 .. n : s[i] \in S
  BY <1>1
<1>6. a \in Seq(S) /\ Len(a) = k - 1 /\ \A i \in 1 .. (k - 1) : a[i] = s[i]
  BY <1>1, <1>2, <1>5, SubSeqProperties
<1>7. b \in Seq(S) /\ Len(b) = n - k /\ \A i \in 1 .. (n - k) : b[i] = s[k + i]
  BY <1>1, <1>3, <1>5, SubSeqProperties
<1>8. u = a \o b
  BY <1>1, <1>2, <1>3, <1>4 DEF RemoveAt
<1>9. /\ u \in Seq(S) /\ Len(u) = Len(a) + Len(b)
      /\ \A i \in 1 .. (Len(a) + Len(b)) : u[i] = IF i <= Len(a) THEN a[i] ELSE b[i - Len(a)]
  BY <1>6, <1>7, <1>8, ConcatProperties
<1>10. Len(u) = n - 1
  BY <1>1, <1>6, <1>7, <1>9
<1>11. ASSUME NEW i \in 1 .. (n - 1) PROVE u[i] = IF i < k THEN s[i] ELSE s[i + 1]
  <2>1. CASE i < k
    <3>1. i <= Len(a) /\ i \in 1 .. (k - 1) /\ i \in 1 .. (Len(a) + Len(b))
      BY <2>1, <1>1, <1>6, <1>7
    <3>2. u[i] = a[i]
      BY <3>1, <1>9
    <3> QED BY <3>1, <3>2, <2>1, <1>6
  <2>2. CASE ~(i < k)
    <3>1. /\ i - (k - 1) \in 1 .. (n - k) /\ ~(i <= k - 1) /\ k + (i - (k - 1)) = i + 1
          /\ i \in 1 .. (Len(a) + Len(b))
      BY <2>2, <1>1, <1>6, <1>7
    <3>2. u[i] = b[i - (k - 1)]
      BY <3>1, <1>6, <1>9
    <3> QED BY <3>1, <3>2, <2>2, <1>7
  <2> QED BY <2>1, <2>2
<1> QED BY <1>1, <1>4, <1>9, <1>10, <1>11

\* A sequence with a new element at k.
LEMMA InsertIs ==
  ASSUME NEW S, NEW s \in Seq(S), NEW k \in 1 .. (Len(s) + 1), NEW e \in S
  PROVE  /\ InsertAt(s, k, e) \in Seq(S) /\ Len(InsertAt(s, k, e)) = Len(s) + 1
         /\ \A i \in 1 .. (Len(s) + 1) :
              InsertAt(s, k, e)[i] =
                IF i < k THEN s[i] ELSE IF i = k THEN e ELSE s[i - 1]
<1>1. PICK n \in Nat : n = Len(s)
  OBVIOUS
<1>2. PICK a : a = SubSeq(s, 1, k - 1)
  OBVIOUS
<1>3. PICK b : b = SubSeq(s, k, n)
  OBVIOUS
<1>4. PICK u : u = InsertAt(s, k, e)
  OBVIOUS
<1>5. \A i \in 1 .. n : s[i] \in S
  BY <1>1
<1>6. a \in Seq(S) /\ Len(a) = k - 1 /\ \A i \in 1 .. (k - 1) : a[i] = s[i]
  BY <1>1, <1>2, <1>5, SubSeqProperties
<1>7. b \in Seq(S) /\ Len(b) = n - k + 1 /\ \A i \in 1 .. (n - k + 1) : b[i] = s[k + i - 1]
  BY <1>1, <1>3, <1>5, SubSeqProperties
<1>8. PICK c : c = a \o <<e>>
  OBVIOUS
<1>9. c \in Seq(S) /\ Len(c) = k /\ \A i \in 1 .. k : c[i] = IF i < k THEN s[i] ELSE e
  <2>1. <<e>> \in Seq(S) /\ Len(<<e>>) = 1 /\ <<e>>[1] = e
    OBVIOUS
  <2>2. /\ c \in Seq(S) /\ Len(c) = Len(a) + 1
        /\ \A i \in 1 .. (Len(a) + 1) : c[i] = IF i <= Len(a) THEN a[i] ELSE <<e>>[i - Len(a)]
    BY <2>1, <1>6, <1>8, ConcatProperties
  <2> QED BY <2>1, <2>2, <1>6
<1>10. u = c \o b
  BY <1>1, <1>2, <1>3, <1>4, <1>8 DEF InsertAt
<1>11. /\ u \in Seq(S) /\ Len(u) = Len(c) + Len(b)
       /\ \A i \in 1 .. (Len(c) + Len(b)) : u[i] = IF i <= Len(c) THEN c[i] ELSE b[i - Len(c)]
  BY <1>7, <1>9, <1>10, ConcatProperties
<1>12. Len(u) = n + 1
  BY <1>1, <1>7, <1>9, <1>11
<1>13. ASSUME NEW i \in 1 .. (n + 1)
       PROVE  u[i] = IF i < k THEN s[i] ELSE IF i = k THEN e ELSE s[i - 1]
  <2>1. CASE i <= k
    BY <2>1, <1>1, <1>9, <1>11, <1>12
  <2>2. CASE ~(i <= k)
    <3>1. /\ i - k \in 1 .. (n - k + 1) /\ k + (i - k) - 1 = i - 1
          /\ i \in 1 .. (Len(c) + Len(b))
      BY <2>2, <1>1, <1>7, <1>9
    <3>2. u[i] = b[i - k]
      BY <3>1, <2>2, <1>9, <1>11
    <3> QED BY <3>1, <3>2, <2>2, <1>7
  <2> QED BY <2>1, <2>2
<1> QED BY <1>1, <1>4, <1>11, <1>12, <1>13

-----------------------------------------------------------------------------
(* Lists of trackers.                                                      *)

\* A list of trackers with different ids.
Listed(ts) == ts \in Seq(Tracker) /\ Distinct(ts)

\* What a list of trackers is: distinct trackers with ids.
LEMMA ListedFacts ==
  ASSUME NEW ts, Listed(ts)
  PROVE  /\ Len(ts) \in Nat /\ DOMAIN ts = 1 .. Len(ts)
         /\ \A i \in DOMAIN ts : ts[i] \in Tracker /\ ts[i].id \in Ids /\ ts[i].id \in IdsOn(ts)
         /\ \A i, j \in DOMAIN ts : ts[i].id = ts[j].id => i = j
         /\ IdsOn(ts) \subseteq Ids
<1>1. Len(ts) \in Nat /\ DOMAIN ts = 1 .. Len(ts) /\ \A i \in DOMAIN ts : ts[i] \in Tracker
  BY DEF Listed
<1>2. \A t \in Tracker : t.id \in Ids
  BY DEF Tracker
<1>3. \A i \in DOMAIN ts : ts[i].id \in IdsOn(ts)
  BY DEF IdsOn
<1>4. IdsOn(ts) \subseteq Ids
  BY <1>1, <1>2 DEF IdsOn
<1> QED BY <1>1, <1>2, <1>3, <1>4 DEF Listed, Distinct

\* The tracker of an id in the list.
LEMMA TrackerIs ==
  ASSUME NEW ts, Listed(ts), NEW id \in IdsOn(ts)
  PROVE  /\ PlaceOf(ts, id) \in DOMAIN ts
         /\ TrackerOf(ts, id) = ts[PlaceOf(ts, id)]
         /\ TrackerOf(ts, id).id = id
         /\ TrackerOf(ts, id) \in Tracker
         /\ \A i \in DOMAIN ts : ts[i].id = id => ts[i] = TrackerOf(ts, id)
<1>1. \E i \in DOMAIN ts : ts[i].id = id
  BY DEF IdsOn
<1>2. PlaceOf(ts, id) \in DOMAIN ts /\ ts[PlaceOf(ts, id)].id = id
  BY <1>1 DEF PlaceOf
<1>3. QED BY <1>2, ListedFacts DEF TrackerOf

\* A list without the tracker of an id.
LEMMA WithoutIs ==
  ASSUME NEW ts, Listed(ts), NEW id \in IdsOn(ts)
  PROVE  /\ Listed(Without(ts, id))
         /\ Len(Without(ts, id)) = Len(ts) - 1
         /\ IdsOn(Without(ts, id)) = IdsOn(ts) \ {id}
         /\ \A x \in IdsOn(ts) \ {id} : TrackerOf(Without(ts, id), x) = TrackerOf(ts, x)
<1> DEFINE k == PlaceOf(ts, id)
           u == Without(ts, id)
<1>1. /\ k \in 1 .. Len(ts) /\ Len(ts) \in Nat /\ ts[k].id = id
      /\ DOMAIN ts = 1 .. Len(ts) /\ ts \in Seq(Tracker)
  BY TrackerIs, ListedFacts DEF Listed
<1>2. /\ u \in Seq(Tracker) /\ Len(u) = Len(ts) - 1 /\ DOMAIN u = 1 .. Len(u)
      /\ \A i \in 1 .. Len(u) : u[i] = IF i < k THEN ts[i] ELSE ts[i + 1]
  <2>1. u = RemoveAt(ts, k)
    BY DEF Without
  <2> HIDE DEF u, k
  <2>2. /\ u \in Seq(Tracker) /\ Len(u) = Len(ts) - 1
        /\ \A i \in 1 .. (Len(ts) - 1) : u[i] = IF i < k THEN ts[i] ELSE ts[i + 1]
    BY <2>1, <1>1, RemoveIs
  <2>3. DOMAIN u = 1 .. Len(u)
    BY <2>2
  <2> QED BY <2>2, <2>3
<1> HIDE DEF u, k
<1>3. ASSUME NEW i \in 1 .. Len(u), NEW j \in 1 .. Len(u), u[i].id = u[j].id PROVE i = j
  <2> DEFINE at(n) == IF n < k THEN n ELSE n + 1
  <2>1. /\ at(i) \in DOMAIN ts /\ u[i] = ts[at(i)]
        /\ at(j) \in DOMAIN ts /\ u[j] = ts[at(j)]
    BY <1>1, <1>2
  <2>2. at(i) = at(j)
    BY <2>1, <1>3, ListedFacts
  <2> QED BY <2>2, <1>1, <1>2
<1>4. Listed(u)
  BY <1>2, <1>3 DEF Listed, Distinct
<1>5. ASSUME NEW x \in IdsOn(ts), x # id
      PROVE  \E i \in 1 .. Len(u) : u[i] = TrackerOf(ts, x) /\ u[i].id = x
  <2>1. PICK j \in 1 .. Len(ts) : ts[j].id = x /\ ts[j] = TrackerOf(ts, x)
    BY <1>1, TrackerIs
  <2>2. CASE j < k
    BY <2>1, <2>2, <1>1, <1>2
  <2>3. CASE k < j
    <3>1. j - 1 \in 1 .. Len(u) /\ u[j - 1] = ts[j]
      BY <2>3, <2>1, <1>1, <1>2
    <3> QED BY <3>1, <2>1
  <2> QED BY <2>1, <2>2, <2>3, <1>1, <1>5
<1>6. ASSUME NEW i \in 1 .. Len(u) PROVE u[i].id \in IdsOn(ts) \ {id}
  <2>1. PICK j \in DOMAIN ts : j # k /\ u[i] = ts[j]
    <3>1. CASE i < k
      <4>1. i \in DOMAIN ts /\ i # k /\ u[i] = ts[i]
        BY <3>1, <1>1, <1>2
      <4> QED BY <4>1
    <3>2. CASE ~(i < k)
      <4>1. i + 1 \in DOMAIN ts /\ i + 1 # k /\ u[i] = ts[i + 1]
        BY <3>2, <1>1, <1>2
      <4> QED BY <4>1
    <3> QED BY <3>1, <3>2
  <2> QED BY <2>1, <1>1, ListedFacts
<1>7. IdsOn(u) = IdsOn(ts) \ {id}
  <2>1. IdsOn(u) \subseteq IdsOn(ts) \ {id}
    BY <1>2, <1>6 DEF IdsOn
  <2>2. \A x \in IdsOn(ts) \ {id} : x \in IdsOn(u)
    BY <1>2, <1>5 DEF IdsOn
  <2> QED BY <2>1, <2>2
<1>8. ASSUME NEW x \in IdsOn(ts) \ {id} PROVE TrackerOf(u, x) = TrackerOf(ts, x)
  BY <1>4, <1>5, <1>7, <1>2, TrackerIs
<1> QED BY <1>2, <1>4, <1>7, <1>8 DEF u

\* A list with the tracker of an id replaced.
LEMMA HoldingIs ==
  ASSUME NEW ts, Listed(ts), NEW t \in Tracker, t.id \in IdsOn(ts)
  PROVE  /\ Listed(Holding(ts, t))
         /\ IdsOn(Holding(ts, t)) = IF t.open = 0 THEN IdsOn(ts) \ {t.id} ELSE IdsOn(ts)
         /\ t.open # 0 => TrackerOf(Holding(ts, t), t.id) = t
         /\ \A x \in IdsOn(ts) \ {t.id} : TrackerOf(Holding(ts, t), x) = TrackerOf(ts, x)
<1>1. CASE t.open = 0
  BY <1>1, WithoutIs DEF Holding
<1>2. CASE t.open # 0
  <2> DEFINE u == [i \in DOMAIN ts |-> IF ts[i].id = t.id THEN t ELSE ts[i]]
  <2>1. Holding(ts, t) = u
    BY <1>2 DEF Holding
  <2>2. /\ DOMAIN ts = 1 .. Len(ts) /\ Len(ts) \in Nat
        /\ \A i \in DOMAIN ts : ts[i] \in Tracker
    BY ListedFacts
  <2>3. DOMAIN u = DOMAIN ts /\ \A i \in DOMAIN ts : u[i] \in Tracker /\ u[i].id = ts[i].id
    BY <2>2
  <2>4. u \in Seq(Tracker)
    BY <2>2, <2>3
  <2>5. IdsOn(u) = IdsOn(ts)
    BY <2>3 DEF IdsOn
  <2>6. \A i \in DOMAIN ts : u[i] = IF ts[i].id = t.id THEN t ELSE ts[i]
    OBVIOUS
  <2> HIDE DEF u
  <2>7. Listed(u)
    BY <2>3, <2>4 DEF Listed, Distinct
  <2>8. ASSUME NEW x \in IdsOn(ts)
        PROVE  TrackerOf(u, x) = IF x = t.id THEN t ELSE TrackerOf(ts, x)
    <3>1. PICK i \in DOMAIN ts : ts[i].id = x /\ ts[i] = TrackerOf(ts, x)
      BY TrackerIs
    <3>2. u[i].id = x /\ i \in DOMAIN u
      BY <3>1, <2>3
    <3>3. TrackerOf(u, x) = u[i]
      BY <3>2, <2>5, <2>7, TrackerIs
    <3> QED BY <3>1, <3>3, <2>6
  <2> QED BY <1>2, <2>1, <2>5, <2>7, <2>8
<1> QED BY <1>1, <1>2

\* How a list of trackers is known by its ids.
LEMMA TrackerAt ==
  ASSUME NEW ts, Listed(ts), NEW i \in DOMAIN ts
  PROVE  ts[i].id \in IdsOn(ts) /\ TrackerOf(ts, ts[i].id) = ts[i]
BY ListedFacts, TrackerIs

\* A list with a new tracker.
LEMMA InsertedIs ==
  ASSUME NEW ts, Listed(ts), NEW t \in Tracker, t.id \notin IdsOn(ts), NEW s \in Sides
  PROVE  /\ Listed(Inserted(s, ts, t))
         /\ IdsOn(Inserted(s, ts, t)) = IdsOn(ts) \union {t.id}
         /\ TrackerOf(Inserted(s, ts, t), t.id) = t
         /\ \A x \in IdsOn(ts) : TrackerOf(Inserted(s, ts, t), x) = TrackerOf(ts, x)
<1>1. PICK n \in Nat : n = Len(ts) /\ DOMAIN ts = 1 .. n
  BY ListedFacts
<1> DEFINE Worse == {i \in DOMAIN ts : ~Before(s, t.price, ts[i].price)}
<1>2. PICK k : k = 1 + Cardinality(Worse)
  OBVIOUS
<1>3. k \in 1 .. (n + 1)
  <2>1. Worse \subseteq 1 .. n
    BY <1>1
  <2> HIDE DEF Worse
  <2>2. IsFiniteSet(1 .. n) /\ Cardinality(1 .. n) = n
    BY FS_Interval
  <2>3. Cardinality(Worse) \in Nat /\ Cardinality(Worse) <= n
    BY <2>1, <2>2, FS_Subset, FS_CardinalityType
  <2> QED BY <2>3, <1>2
<1>4. PICK u : u = Inserted(s, ts, t)
  OBVIOUS
<1>5. u = InsertAt(ts, k, t)
  BY <1>2, <1>4 DEF Inserted
<1>6. ts \in Seq(Tracker)
  BY DEF Listed
<1>7. /\ u \in Seq(Tracker) /\ Len(u) = n + 1
      /\ \A i \in 1 .. (n + 1) : u[i] = IF i < k THEN ts[i] ELSE IF i = k THEN t ELSE ts[i - 1]
  BY <1>1, <1>3, <1>5, <1>6, InsertIs
<1>8. DOMAIN u = 1 .. (n + 1)
  BY <1>7
<1>9. u[k] = t /\ k \in DOMAIN u
  BY <1>3, <1>7, <1>8
<1>10. ASSUME NEW j \in DOMAIN ts PROVE \E i \in DOMAIN u : i # k /\ u[i] = ts[j]
  <2>1. CASE j < k
    <3>1. j \in DOMAIN u /\ j # k /\ u[j] = ts[j]
      BY <2>1, <1>1, <1>3, <1>7, <1>8
    <3> QED BY <3>1
  <2>2. CASE ~(j < k)
    <3>1. j + 1 \in DOMAIN u /\ j + 1 # k /\ u[j + 1] = ts[j]
      BY <2>2, <1>1, <1>3, <1>7, <1>8
    <3> QED BY <3>1
  <2> QED BY <2>1, <2>2
<1>11. ASSUME NEW i \in DOMAIN u, i # k
       PROVE  \E j \in DOMAIN ts : u[i] = ts[j] /\ j = IF i < k THEN i ELSE i - 1
  BY <1>1, <1>3, <1>7, <1>8, <1>11
<1>12. ASSUME NEW i \in DOMAIN u, NEW j \in DOMAIN u, u[i].id = u[j].id PROVE i = j
  <2>1. CASE i = k \/ j = k
    <3>1. \A l \in DOMAIN u : l # k => u[l].id \in IdsOn(ts)
      BY <1>11, ListedFacts
    <3> QED BY <2>1, <3>1, <1>9, <1>12
  <2>2. CASE i # k /\ j # k
    <3>1. PICK a \in DOMAIN ts : u[i] = ts[a] /\ a = IF i < k THEN i ELSE i - 1
      BY <2>2, <1>11
    <3>2. PICK b \in DOMAIN ts : u[j] = ts[b] /\ b = IF j < k THEN j ELSE j - 1
      BY <2>2, <1>11
    <3>3. a = b
      BY <3>1, <3>2, <1>12, ListedFacts
    <3> QED BY <3>1, <3>2, <3>3, <2>2, <1>3, <1>8
  <2> QED BY <2>1, <2>2
<1>13. Listed(u)
  BY <1>7, <1>12 DEF Listed, Distinct
<1>14. IdsOn(u) = IdsOn(ts) \union {t.id}
  <2>1. IdsOn(u) \subseteq IdsOn(ts) \union {t.id}
    <3>1. ASSUME NEW i \in DOMAIN u PROVE u[i].id \in IdsOn(ts) \union {t.id}
      <4>1. CASE i = k
        BY <4>1, <1>9
      <4>2. CASE i # k
        BY <4>2, <1>11, ListedFacts
      <4> QED BY <4>1, <4>2
    <3> QED BY <3>1 DEF IdsOn
  <2>2. t.id \in IdsOn(u)
    BY <1>9 DEF IdsOn
  <2>3. \A x \in IdsOn(ts) : x \in IdsOn(u)
    BY <1>10 DEF IdsOn
  <2> QED BY <2>1, <2>2, <2>3
<1>15. TrackerOf(u, t.id) = t
  BY <1>9, <1>13, TrackerAt
<1>16. ASSUME NEW x \in IdsOn(ts) PROVE TrackerOf(u, x) = TrackerOf(ts, x)
  <2>1. PICK j \in DOMAIN ts : ts[j] = TrackerOf(ts, x) /\ ts[j].id = x
    BY TrackerIs
  <2>2. PICK i \in DOMAIN u : u[i] = ts[j]
    BY <1>10
  <2> QED BY <2>1, <2>2, <1>13, TrackerAt
<1> QED BY <1>4, <1>13, <1>14, <1>15, <1>16

\* A list cut in two.
IsCut(ts, n, a, b) ==
  /\ Listed(ts) /\ n \in 0 .. Len(ts)
  /\ a = SubSeq(ts, 1, n) /\ b = SubSeq(ts, n + 1, Len(ts))

\* The parts are lists of their own, apart, with the trackers of the whole.
LEMMA CutIs ==
  ASSUME NEW ts, NEW n, NEW a, NEW b, IsCut(ts, n, a, b)
  PROVE  /\ Listed(a) /\ Len(a) = n /\ Listed(b) /\ Len(b) = Len(ts) - n
         /\ IdsOn(a) \intersect IdsOn(b) = {} /\ IdsOn(a) \union IdsOn(b) = IdsOn(ts)
         /\ \A x \in IdsOn(a) : TrackerOf(a, x) = TrackerOf(ts, x)
         /\ \A x \in IdsOn(b) : TrackerOf(b, x) = TrackerOf(ts, x)
<1>0. Listed(ts)
  BY DEF IsCut
<1>1. PICK m \in Nat : m = Len(ts) /\ DOMAIN ts = 1 .. m
  BY <1>0, ListedFacts
<1>14. n \in 0 .. m /\ a = SubSeq(ts, 1, n) /\ b = SubSeq(ts, n + 1, m)
  BY <1>1 DEF IsCut
<1>2. \A i \in 1 .. m : ts[i] \in Tracker
  BY <1>0, <1>1, ListedFacts
<1>3. a \in Seq(Tracker) /\ Len(a) = n /\ \A i \in 1 .. n : a[i] = ts[i]
  BY <1>1, <1>2, <1>14, SubSeqProperties
<1>4. b \in Seq(Tracker) /\ Len(b) = m - n /\ \A i \in 1 .. (m - n) : b[i] = ts[n + i]
  BY <1>1, <1>2, <1>14, SubSeqProperties
<1>5. DOMAIN a = 1 .. n /\ DOMAIN b = 1 .. (m - n)
  BY <1>3, <1>4, <1>14
<1>6. Listed(a)
  <2>1. ASSUME NEW i \in DOMAIN a, NEW j \in DOMAIN a, a[i].id = a[j].id PROVE i = j
    <3>1. i \in DOMAIN ts /\ j \in DOMAIN ts /\ ts[i].id = ts[j].id
      BY <2>1, <1>1, <1>3, <1>5, <1>14
    <3> QED BY <3>1, <1>0, ListedFacts
  <2> QED BY <2>1, <1>3 DEF Listed, Distinct
<1>7. Listed(b)
  <2>1. ASSUME NEW i \in DOMAIN b, NEW j \in DOMAIN b, b[i].id = b[j].id PROVE i = j
    <3>0. i \in 1 .. (m - n) /\ j \in 1 .. (m - n)
      BY <1>5
    <3>1. n + i \in DOMAIN ts /\ n + j \in DOMAIN ts
      BY <3>0, <1>1, <1>14
    <3>3. b[i] = ts[n + i] /\ b[j] = ts[n + j]
      BY <3>0, <1>4
    <3>4. ts[n + i].id = ts[n + j].id
      BY <2>1, <3>3
    <3>2. n + i = n + j
      BY <3>1, <3>4, <1>0, ListedFacts
    <3>5. i \in Int /\ j \in Int /\ n \in Int
      BY <3>0, <1>1, <1>14
    <3> QED BY <3>2, <3>5
  <2> QED BY <2>1, <1>4 DEF Listed, Distinct
<1>8. ASSUME NEW x \in IdsOn(a)
      PROVE  \E i \in DOMAIN ts : i <= n /\ ts[i].id = x /\ TrackerOf(a, x) = ts[i]
  <2>1. PICK i \in DOMAIN a : a[i].id = x
    BY DEF IdsOn
  <2>2. a[i] = TrackerOf(a, x)
    BY <2>1, <1>6, TrackerIs
  <2>3. i \in DOMAIN ts /\ i <= n /\ ts[i] = a[i]
    BY <1>1, <1>3, <1>5, <1>14
  <2> QED BY <2>1, <2>2, <2>3
<1>9. ASSUME NEW x \in IdsOn(b)
      PROVE  \E i \in DOMAIN ts : i > n /\ ts[i].id = x /\ TrackerOf(b, x) = ts[i]
  <2>1. PICK i \in DOMAIN b : b[i].id = x
    BY DEF IdsOn
  <2>2. b[i] = TrackerOf(b, x)
    BY <2>1, <1>7, TrackerIs
  <2>3. i \in 1 .. (m - n)
    BY <1>5
  <2>4. n + i \in DOMAIN ts /\ n + i > n
    BY <2>3, <1>1, <1>14
  <2>5. ts[n + i] = b[i]
    BY <2>3, <1>4
  <2> QED BY <2>1, <2>2, <2>4, <2>5
<1>10. ASSUME NEW x \in IdsOn(ts) PROVE x \in IdsOn(a) \union IdsOn(b)
  <2>1. PICK i \in DOMAIN ts : ts[i].id = x
    BY <1>0, TrackerIs
  <2>2. CASE i <= n
    <3>1. i \in DOMAIN a /\ a[i] = ts[i]
      BY <2>2, <1>1, <1>3, <1>5, <1>14
    <3> QED BY <3>1, <2>1 DEF IdsOn
  <2>3. CASE ~(i <= n)
    <3>2. i \in 1 .. m /\ n \in 0 .. m
      BY <1>1, <1>14
    <3>3. i - n \in 1 .. (m - n) /\ n + (i - n) = i
      BY <3>2, <2>3
    <3>1. i - n \in DOMAIN b /\ b[i - n] = ts[i]
      BY <3>3, <1>4, <1>5
    <3> QED BY <3>1, <2>1 DEF IdsOn
  <2> QED BY <2>2, <2>3
<1>11. IdsOn(a) \intersect IdsOn(b) = {}
  <2>1. ASSUME NEW x \in IdsOn(a) \intersect IdsOn(b) PROVE FALSE
    <3>1. PICK i \in DOMAIN ts : i <= n /\ ts[i].id = x
      BY <1>8
    <3>2. PICK j \in DOMAIN ts : j > n /\ ts[j].id = x
      BY <1>9
    <3>3. i = j
      BY <3>1, <3>2, <1>0, ListedFacts
    <3>4. i \in Nat /\ n \in Nat
      BY <1>1, <1>14
    <3>5. i <= n /\ i > n
      BY <3>1, <3>2, <3>3
    <3> QED BY <3>4, <3>5
  <2> QED BY <2>1
<1>12. IdsOn(a) \union IdsOn(b) = IdsOn(ts)
  <2>1. \A x \in IdsOn(a) \union IdsOn(b) : x \in IdsOn(ts)
    BY <1>8, <1>9 DEF IdsOn
  <2> QED BY <2>1, <1>10
<1>13. /\ \A x \in IdsOn(a) : TrackerOf(a, x) = TrackerOf(ts, x)
       /\ \A x \in IdsOn(b) : TrackerOf(b, x) = TrackerOf(ts, x)
  BY <1>0, <1>8, <1>9, TrackerAt
<1> QED BY <1>1, <1>14, <1>3, <1>4, <1>6, <1>7, <1>11, <1>12, <1>13

\* Two lists one after the other.
IsJoin(a, b, u) ==
  Listed(a) /\ Listed(b) /\ IdsOn(a) \intersect IdsOn(b) = {} /\ u = a \o b

\* Their trackers are the trackers of both.
LEMMA JoinIs ==
  ASSUME NEW a, NEW b, NEW u, IsJoin(a, b, u)
  PROVE  /\ Listed(u) /\ Len(u) = Len(a) + Len(b)
         /\ IdsOn(u) = IdsOn(a) \union IdsOn(b)
         /\ \A x \in IdsOn(a) : TrackerOf(u, x) = TrackerOf(a, x)
         /\ \A x \in IdsOn(b) : TrackerOf(u, x) = TrackerOf(b, x)
<1>0. Listed(a) /\ Listed(b) /\ IdsOn(a) \intersect IdsOn(b) = {}
  BY DEF IsJoin
<1>1. PICK m \in Nat : m = Len(a) /\ DOMAIN a = 1 .. m
  BY <1>0, ListedFacts
<1>2. PICK n \in Nat : n = Len(b) /\ DOMAIN b = 1 .. n
  BY <1>0, ListedFacts
<1>3. u = a \o b
  BY DEF IsJoin
<1>4. a \in Seq(Tracker) /\ b \in Seq(Tracker)
  BY <1>0 DEF Listed
<1>5. /\ u \in Seq(Tracker) /\ Len(u) = m + n
      /\ \A i \in 1 .. (m + n) : u[i] = IF i <= m THEN a[i] ELSE b[i - m]
  BY <1>1, <1>2, <1>3, <1>4, ConcatProperties
<1>6. DOMAIN u = 1 .. (m + n)
  BY <1>5
<1>7. ASSUME NEW i \in DOMAIN u
      PROVE  \/ i <= m /\ i \in DOMAIN a /\ u[i] = a[i] /\ u[i].id \in IdsOn(a)
             \/ ~(i <= m) /\ i - m \in DOMAIN b /\ u[i] = b[i - m] /\ u[i].id \in IdsOn(b)
  <2>1. CASE i <= m
    <3>1. i \in DOMAIN a /\ u[i] = a[i]
      BY <2>1, <1>1, <1>5, <1>6
    <3> QED BY <2>1, <3>1, <1>0, ListedFacts
  <2>2. CASE ~(i <= m)
    <3>1. i - m \in DOMAIN b /\ u[i] = b[i - m]
      BY <2>2, <1>1, <1>2, <1>5, <1>6
    <3> QED BY <2>2, <3>1, <1>0, ListedFacts
  <2> QED BY <2>1, <2>2
<1>8. ASSUME NEW i \in DOMAIN u, NEW j \in DOMAIN u, u[i].id = u[j].id PROVE i = j
  <2>1. CASE i <= m
    <3>2. i \in DOMAIN a /\ u[i] = a[i] /\ u[i].id \in IdsOn(a)
      BY <2>1, <1>7
    <3>3. u[j].id \notin IdsOn(b)
      BY <3>2, <1>0, <1>8
    <3>1. i \in DOMAIN a /\ j \in DOMAIN a /\ a[i].id = a[j].id
      BY <3>2, <3>3, <1>7, <1>8
    <3> QED BY <3>1, <1>0, ListedFacts
  <2>2. CASE ~(i <= m)
    <3>3. i - m \in DOMAIN b /\ u[i] = b[i - m] /\ u[i].id \in IdsOn(b)
      BY <2>2, <1>7
    <3>4. u[j].id \notin IdsOn(a)
      BY <3>3, <1>0, <1>8
    <3>1. i - m \in DOMAIN b /\ j - m \in DOMAIN b /\ b[i - m].id = b[j - m].id
      BY <3>3, <3>4, <1>7, <1>8
    <3>2. i - m = j - m
      BY <3>1, <1>0, ListedFacts
    <3> QED BY <3>2, <1>6, <1>1
  <2> QED BY <2>1, <2>2
<1>9. Listed(u)
  BY <1>5, <1>8 DEF Listed, Distinct
<1>10. \A i \in DOMAIN a : i \in DOMAIN u /\ u[i] = a[i]
  BY <1>1, <1>5, <1>6, <1>2
<1>11. ASSUME NEW i \in DOMAIN b PROVE \E j \in DOMAIN u : u[j] = b[i]
  <2>2. i \in 1 .. n
    BY <1>2
  <2>4. PICK j : j = m + i
    OBVIOUS
  <2>3. j \in 1 .. (m + n) /\ ~(j <= m) /\ j - m = i
    BY <2>2, <2>4, <1>1
  <2>1. j \in DOMAIN u /\ u[j] = b[i]
    BY <2>3, <1>5, <1>6
  <2> QED BY <2>1
<1>12. ASSUME NEW x \in IdsOn(a) PROVE x \in IdsOn(u) /\ TrackerOf(u, x) = TrackerOf(a, x)
  <2>1. PICK i \in DOMAIN a : a[i] = TrackerOf(a, x) /\ a[i].id = x
    BY <1>0, TrackerIs
  <2> QED BY <2>1, <1>9, <1>10, TrackerAt
<1>13. ASSUME NEW x \in IdsOn(b) PROVE x \in IdsOn(u) /\ TrackerOf(u, x) = TrackerOf(b, x)
  <2>1. PICK i \in DOMAIN b : b[i] = TrackerOf(b, x) /\ b[i].id = x
    BY <1>0, TrackerIs
  <2>2. PICK j \in DOMAIN u : u[j] = b[i]
    BY <1>11
  <2> QED BY <2>1, <2>2, <1>9, TrackerAt
<1>14. IdsOn(u) \subseteq IdsOn(a) \union IdsOn(b)
  BY <1>7 DEF IdsOn
<1> QED BY <1>1, <1>2, <1>3, <1>5, <1>9, <1>12, <1>13, <1>14

-----------------------------------------------------------------------------
(* What the callbacks do to the order objects.                             *)

Types == {"accept", "reject", "fill", "cancel", "cancelReject", "replace",
          "replaceReject", "update"}
Callbacks == [type : Types, order : Ids, matched : Ids, qty : Int, price : Nat,
              delta : Int, orderFilled : BOOLEAN, matchedFilled : BOOLEAN]

Effect(o, cb) ==
  CASE cb.type = "accept" ->
         [o EXCEPT ![cb.order].state = IF @ = "new" THEN "accepted" ELSE @]
    [] cb.type = "fill" ->
         [o EXCEPT ![cb.matched] = Fill(@, cb.qty), ![cb.order] = Fill(@, cb.qty)]
    [] cb.type = "cancel" ->
         [o EXCEPT ![cb.order].state = IF @ = "complete" THEN @ ELSE "cancelled"]
    [] cb.type = "replace" ->
         [o EXCEPT ![cb.order] = IF @.state # "accepted" THEN @ ELSE Revised(@, cb)]
    [] OTHER -> o

\* Objects that have not traded more than they have.
Objects(o) == o \in [Ids -> Object] /\ \A id \in Ids : o[id].filled <= o[id].qty

\* The objects o on the way to p.
Towards(o, p) ==
  Objects(o) /\ \A id \in Ids : o[id].qty = p[id].qty /\ o[id].side = p[id].side

\* What the book says with the callback cb of the objects b that it finds.
Proper(b, cb) ==
  /\ cb.type = "accept" => b[cb.order].state = "new" /\ b[cb.order].filled = 0
  /\ cb.type = "fill" =>
       /\ cb.order # cb.matched /\ cb.qty \in Nat \ {0}
       /\ b[cb.order].state = "accepted" /\ b[cb.matched].state = "accepted"
       /\ b[cb.order].side # b[cb.matched].side
       /\ cb.qty <= OpenQty(b[cb.order]) /\ cb.qty <= OpenQty(b[cb.matched])
       /\ cb.orderFilled = (OpenQty(b[cb.order]) = cb.qty)
       /\ cb.matchedFilled = (OpenQty(b[cb.matched]) = cb.qty)
  /\ cb.type = "cancel" =>
       /\ b[cb.order].state = "accepted"
       /\ cb.qty = OpenQty(b[cb.order]) \/ (b[cb.order].ioc /\ cb.qty = 0)
  /\ cb.type = "replace" =>
       /\ b[cb.order].state = "accepted" /\ OpenQty(b[cb.order]) + cb.delta \in Nat
       /\ cb.price = MarketPrice => b[cb.order].price = MarketPrice

\* The callbacks of q make p of o; after the first of them quantities are
\* those of p.
Leads(o, q, p, g) ==
  /\ g[0] = o /\ g[Len(q)] = p
  /\ \A i \in 1 .. Len(q) : /\ g[i] = Effect(g[i - 1], q[i]) /\ Towards(g[i], p)
                            /\ Proper(g[i - 1], q[i])
Reached(o, q, p) == q \in Seq(Callbacks) /\ Objects(p) /\ \E g : Leads(o, q, p, g)

\* No callback changes nothing.
LEMMA ReachedNone ==
  ASSUME NEW o, Objects(o)
  PROVE  Reached(o, <<>>, o)
<1>1. Leads(o, <<>>, o, [i \in {0} |-> o])
  BY DEF Leads
<1> QED BY <1>1 DEF Reached

\* One more callback.
LEMMA ReachedMore ==
  ASSUME NEW o, NEW q, NEW p, Reached(o, q, p), NEW cb \in Callbacks,
         NEW r, r = Effect(p, cb), Objects(r), q = <<>> \/ Towards(p, r), Proper(p, cb)
  PROVE  Reached(o, Append(q, cb), r)
<1>1. PICK g : Leads(o, q, p, g)
  BY DEF Reached
<1>2. q \in Seq(Callbacks)
  BY DEF Reached
<1>3. PICK n \in Nat : n = Len(q)
  BY <1>2
<1>4. PICK u : u = Append(q, cb)
  OBVIOUS
<1>5. /\ u \in Seq(Callbacks) /\ Len(u) = n + 1 /\ u[n + 1] = cb
      /\ \A i \in 1 .. n : u[i] = q[i]
  BY <1>2, <1>3, <1>4, AppendProperties
<1>6. PICK h : h = [i \in 0 .. (n + 1) |-> IF i = n + 1 THEN r ELSE g[i]]
  OBVIOUS
<1>7. h[n + 1] = r /\ \A i \in 0 .. n : h[i] = g[i]
  BY <1>6
<1>8. ASSUME NEW i \in 1 .. (n + 1)
      PROVE  h[i] = Effect(h[i - 1], u[i]) /\ Towards(h[i], r) /\ Proper(h[i - 1], u[i])
  <2>1. CASE i = n + 1
    <3>1. h[i - 1] = p
      BY <2>1, <1>1, <1>3, <1>7 DEF Leads
    <3>2. Towards(r, r)
      BY DEF Towards
    <3> QED BY <2>1, <3>1, <3>2, <1>5, <1>7
  <2>2. CASE i # n + 1
    <3>1. i \in 1 .. n /\ i - 1 \in 0 .. n /\ i \in 0 .. n
      BY <2>2
    <3>2. h[i] = g[i] /\ h[i - 1] = g[i - 1] /\ u[i] = q[i]
      BY <3>1, <1>5, <1>7
    <3>3. g[i] = Effect(g[i - 1], q[i]) /\ Towards(g[i], p) /\ Proper(g[i - 1], q[i])
      BY <3>1, <1>1, <1>3 DEF Leads
    <3>4. q # <<>>
      BY <3>1, <1>3
    <3>5. Towards(g[i], r)
      BY <3>3, <3>4 DEF Towards
    <3> QED BY <3>2, <3>3, <3>5
  <2> QED BY <2>1, <2>2
<1>9. h[0] = o
  BY <1>1, <1>7 DEF Leads
<1>10. Leads(o, u, r, h)
  BY <1>5, <1>7, <1>8, <1>9 DEF Leads
<1> QED BY <1>4, <1>5, <1>10 DEF Reached

\* The quantity of an accept callback decides nothing here.
LEMMA ReachedAccept ==
  ASSUME NEW o, NEW q, NEW p, Reached(o, q, p), q # <<>>, q[1].type = "accept",
         NEW v \in Int, NEW u, u = [q EXCEPT ![1].qty = v]
  PROVE  Reached(o, u, p) /\ u # <<>> /\ u[1].type = "accept"
<1>1. PICK g : Leads(o, q, p, g)
  BY DEF Reached
<1>2. q \in Seq(Callbacks) /\ Len(q) \in Nat /\ 1 \in DOMAIN q /\ DOMAIN q = 1 .. Len(q)
  BY DEF Reached
<1>3. q[1] \in Callbacks
  BY <1>2
<1>4. PICK a : a = [q[1] EXCEPT !.qty = v]
  OBVIOUS
<1>5. a \in Callbacks /\ a.type = "accept" /\ a.order = q[1].order
  BY <1>3, <1>4 DEF Callbacks
<1>6. u = [q EXCEPT ![1] = a]
  BY <1>2, <1>4
<1>7. u \in Seq(Callbacks) /\ Len(u) = Len(q) /\ u[1] = a /\ \A i \in 2 .. Len(q) : u[i] = q[i]
  BY <1>2, <1>5, <1>6
<1>8. \A i \in 1 .. Len(q) : /\ Effect(g[i - 1], u[i]) = Effect(g[i - 1], q[i])
                             /\ Proper(g[i - 1], q[i]) => Proper(g[i - 1], u[i])
  <2>1. ASSUME NEW i \in 1 .. Len(q), i # 1 PROVE u[i] = q[i]
    BY <2>1, <1>2, <1>7
  <2>2. Effect(g[0], u[1]) = Effect(g[0], q[1])
    BY <1>5, <1>7 DEF Effect
  <2>3. Proper(g[0], q[1]) => Proper(g[0], u[1])
    BY <1>5, <1>7 DEF Proper
  <2> QED BY <2>1, <2>2, <2>3
<1>9. Leads(o, u, p, g)
  <2>1. /\ g[0] = o /\ g[Len(u)] = p
        /\ \A i \in 1 .. Len(q) : /\ g[i] = Effect(g[i - 1], q[i]) /\ Towards(g[i], p)
                                  /\ Proper(g[i - 1], q[i])
    BY <1>1, <1>7 DEF Leads
  <2>2. ASSUME NEW i \in 1 .. Len(u)
        PROVE  g[i] = Effect(g[i - 1], u[i]) /\ Towards(g[i], p) /\ Proper(g[i - 1], u[i])
    <3>1. i \in 1 .. Len(q)
      BY <1>7
    <3>2. /\ Effect(g[i - 1], u[i]) = Effect(g[i - 1], q[i])
          /\ Proper(g[i - 1], q[i]) => Proper(g[i - 1], u[i])
      BY <3>1, <1>8
    <3>3. g[i] = Effect(g[i - 1], q[i]) /\ Towards(g[i], p) /\ Proper(g[i - 1], q[i])
      BY <3>1, <2>1
    <3> QED BY <3>2, <3>3
  <2> QED BY <2>1, <2>2 DEF Leads
<1>10. u # <<>>
  BY <1>2, <1>7
<1> QED BY <1>5, <1>7, <1>9, <1>10 DEF Reached

-----------------------------------------------------------------------------
(* Performing the callbacks.                                               *)

Underway(c) ==
  /\ c = [order |-> c.order, depth |-> c.depth, told |-> c.told, undisturbed |-> c.undisturbed]
  /\ c.told \subseteq {"depth", "bbo"} /\ c.undisturbed \in BOOLEAN

\* callback_now: a callback has its effect on the objects, unless the depth is lost.
LEMMA HandleIs ==
  ASSUME NEW m, NEW c, Underway(c), NEW cb
  PROVE  /\ Underway(Handle(m, c, cb))
         /\ Handle(m, c, cb).order = IF c.depth.lost THEN c.order ELSE Effect(c.order, cb)
         /\ c.depth.lost => Handle(m, c, cb) = c
<1>1. CASE c.depth.lost
  BY <1>1 DEF Handle
<1>2. CASE ~c.depth.lost
  <2> DEFINE o == c.order[cb.order]
             n == [c EXCEPT !.undisturbed = @ /\ ~Misinforms(m, c, cb, o)]
  <2>1. /\ n = [order |-> c.order, depth |-> c.depth, told |-> c.told, undisturbed |-> n.undisturbed]
        /\ n.undisturbed \in BOOLEAN
    BY DEF Underway
  <2> HIDE DEF n, o
  <2>2. Underway(n) /\ n.order = c.order /\ n.depth = c.depth
    BY <2>1 DEF Underway
  <2>3. CASE cb.type = "accept"
    <3>1. Handle(m, c, cb) = OnAccept(n, cb, o)
      BY <1>2, <2>3 DEF Handle, n, o
    <3>3. PICK a : a = Effect(n.order, cb)
      OBVIOUS
    <3>4. PICK r : r = OnAccept(n, cb, o)
      OBVIOUS
    <3>6. PICK d : r = [n EXCEPT !.depth = d, !.order = a]
      BY <2>2, <2>3, <3>3, <3>4 DEF OnAccept, Effect, Underway
    <3>7. r = [order |-> a, depth |-> d, told |-> n.told, undisturbed |-> n.undisturbed]
      BY <2>2, <3>6 DEF Underway
    <3>8. /\ r.order = a /\ r.depth = d /\ r.told = n.told
          /\ r.undisturbed = n.undisturbed
      BY <3>7
    <3>2. Underway(r) /\ r.order = a
      BY <2>2, <3>7, <3>8 DEF Underway
    <3> QED BY <3>1, <3>2, <3>3, <3>4, <2>2, <1>2
  <2>4. CASE cb.type = "fill"
    <3>1. Handle(m, c, cb) = OnFill(n, cb, o)
      BY <1>2, <2>4 DEF Handle, n, o
    <3>3. PICK a : a = Effect(n.order, cb)
      OBVIOUS
    <3>4. PICK r : r = OnFill(n, cb, o)
      OBVIOUS
    <3>5. PICK x : x = n.order[cb.matched]
      OBVIOUS
    <3>9. PICK e : e = IF x.price = MarketPrice THEN n.depth
                       ELSE DepthFill(n.depth, x.side, x.price, cb.qty, cb.matchedFilled)
      OBVIOUS
    <3>10. PICK d : d = IF o.price = MarketPrice THEN e
                        ELSE DepthFill(e, o.side, o.price, cb.qty, cb.orderFilled)
      OBVIOUS
    <3>16. PICK y : y = [n.order EXCEPT ![cb.matched] = Fill(@, cb.qty), ![cb.order] = Fill(@, cb.qty)]
      OBVIOUS
    <3>11. r = [n EXCEPT !.depth = d, !.order = y]
      BY <2>2, <3>4, <3>5, <3>9, <3>10, <3>16 DEF OnFill, Underway
    <3>12. a = [n.order EXCEPT ![cb.matched] = Fill(@, cb.qty), ![cb.order] = Fill(@, cb.qty)]
      BY <2>4, <3>3 DEF Effect
    <3>6. y = a
      BY <3>12, <3>16
    <3>7. r = [order |-> a, depth |-> d, told |-> n.told, undisturbed |-> n.undisturbed]
      BY <2>2, <3>6, <3>11 DEF Underway
    <3>8. /\ r.order = a /\ r.depth = d /\ r.told = n.told
          /\ r.undisturbed = n.undisturbed
      BY <3>7
    <3>2. Underway(r) /\ r.order = a
      BY <2>2, <3>7, <3>8 DEF Underway
    <3> QED BY <3>1, <3>2, <3>3, <3>4, <2>2, <1>2
  <2>5. CASE cb.type = "cancel"
    <3>1. Handle(m, c, cb) = OnCancel(n, cb, o)
      BY <1>2, <2>5 DEF Handle, n, o
    <3>3. PICK a : a = Effect(n.order, cb)
      OBVIOUS
    <3>4. PICK r : r = OnCancel(n, cb, o)
      OBVIOUS
    <3>6. PICK d : r = [n EXCEPT !.depth = d, !.order = a]
      BY <2>2, <2>5, <3>3, <3>4 DEF OnCancel, Effect, Underway
    <3>7. r = [order |-> a, depth |-> d, told |-> n.told, undisturbed |-> n.undisturbed]
      BY <2>2, <3>6 DEF Underway
    <3>8. /\ r.order = a /\ r.depth = d /\ r.told = n.told
          /\ r.undisturbed = n.undisturbed
      BY <3>7
    <3>2. Underway(r) /\ r.order = a
      BY <2>2, <3>7, <3>8 DEF Underway
    <3> QED BY <3>1, <3>2, <3>3, <3>4, <2>2, <1>2
  <2>6. CASE cb.type = "replace"
    <3>1. Handle(m, c, cb) = OnReplace(n, cb, o)
      BY <1>2, <2>6 DEF Handle, n, o
    <3>3. PICK a : a = Effect(n.order, cb)
      OBVIOUS
    <3>4. PICK r : r = OnReplace(n, cb, o)
      OBVIOUS
    <3>6. PICK d : r = [n EXCEPT !.depth = d, !.order = a]
      BY <2>2, <2>6, <3>3, <3>4 DEF OnReplace, Effect, Underway
    <3>7. r = [order |-> a, depth |-> d, told |-> n.told, undisturbed |-> n.undisturbed]
      BY <2>2, <3>6 DEF Underway
    <3>8. /\ r.order = a /\ r.depth = d /\ r.told = n.told
          /\ r.undisturbed = n.undisturbed
      BY <3>7
    <3>2. Underway(r) /\ r.order = a
      BY <2>2, <3>7, <3>8 DEF Underway
    <3> QED BY <3>1, <3>2, <3>3, <3>4, <2>2, <1>2
  <2>7. CASE cb.type = "update"
    <3>1. Handle(m, c, cb) = OnBookUpdate(n)
      BY <1>2, <2>7 DEF Handle, n, o
    <3>2. Told(n.depth) \subseteq {"depth", "bbo"}
      BY DEF Told
    <3>5. PICK e, d : e \subseteq {"depth", "bbo"} /\
                      OnBookUpdate(n) = [n EXCEPT !.told = e, !.depth = d]
      BY <2>2, <3>2 DEF OnBookUpdate, Underway
    <3>3. Underway(OnBookUpdate(n)) /\ OnBookUpdate(n).order = n.order
      BY <2>2, <3>5 DEF Underway
    <3>4. Effect(n.order, cb) = n.order
      BY <2>7 DEF Effect
    <3> QED BY <3>1, <3>3, <3>4, <2>2, <1>2
  <2>8. CASE cb.type \notin {"accept", "fill", "cancel", "replace", "update"}
    <3>1. Handle(m, c, cb) = n
      BY <1>2, <2>8 DEF Handle, n, o
    <3>2. Effect(n.order, cb) = n.order
      BY <2>8 DEF Effect
    <3> QED BY <3>1, <3>2, <2>2, <1>2
  <2> QED BY <2>3, <2>4, <2>5, <2>6, <2>7, <2>8
<1> QED BY <1>1, <1>2

Start(m) == [order |-> m.order, depth |-> depth, told |-> {}, undisturbed |-> undisturbed]

\* The states between the callbacks.
LEMMA PerformRun ==
  ASSUME NEW m, m.queue \in Seq(Callbacks)
  PROVE  \E f : /\ f[0] = Start(m) /\ f[Len(m.queue)] = Perform(m)
                /\ \A i \in 1 .. Len(m.queue) : f[i] = Handle(m, f[i - 1], m.queue[i])
<1>1. PICK q : q = m.queue
  OBVIOUS
<1>2. PICK n \in Nat : n = Len(q)
  BY <1>1
<1> DEFINE Is(k, f) == f = [i \in 0 .. k |-> IF i = 0 THEN Start(m)
                                             ELSE Handle(m, f[i - 1], q[i])]
           Bad == {k \in Nat : ~ \E f : Is(k, f)}
<1>3. Bad = {}
  <2> SUFFICES ASSUME Bad # {} PROVE FALSE
    OBVIOUS
  <2>1. PICK k \in Bad : \A j \in Bad : k <= j
    <3>1. Bad \in SUBSET Nat
      OBVIOUS
    <3> HIDE DEF Bad
    <3> QED BY <3>1, LeastOf
  <2>2. k # 0
    <3>1. Is(0, [i \in 0 .. 0 |-> Start(m)])
      OBVIOUS
    <3> QED BY <3>1
  <2>3. PICK j \in Nat : k = j + 1
    BY <2>1, <2>2
  <2>4. PICK f : Is(j, f)
    <3>1. ~ (k <= j)
      BY <2>3
    <3>2. j \notin Bad
      <4> HIDE DEF Bad
      <4> QED BY <3>1, <2>1
    <3> QED BY <3>2
  <2> DEFINE h == [i \in 0 .. k |-> IF i = k THEN Handle(m, f[j], q[k]) ELSE f[i]]
  <2>5. \A i \in 0 .. j : h[i] = f[i]
    BY <2>3
  <2>6. h[k] = Handle(m, f[j], q[k]) /\ k - 1 = j
    BY <2>3
  <2>7. \A i \in 0 .. k : h[i] = IF i = 0 THEN Start(m) ELSE Handle(m, h[i - 1], q[i])
    <3> TAKE i \in 0 .. k
    <3>1. CASE i = k
      BY <3>1, <2>2, <2>3, <2>5, <2>6
    <3>2. CASE i # k
      <4>1. i \in 0 .. j /\ (i # 0 => i - 1 \in 0 .. j)
        BY <3>2, <2>3
      <4>2. f[i] = IF i = 0 THEN Start(m) ELSE Handle(m, f[i - 1], q[i])
        BY <4>1, <2>4
      <4> HIDE DEF h
      <4> QED BY <4>1, <4>2, <2>5
    <3> QED BY <3>1, <3>2
  <2>8. Is(k, h)
    <3>1. h = [i \in 0 .. k |-> h[i]]
      OBVIOUS
    <3> HIDE DEF h
    <3> QED BY <3>1, <2>7
  <2> HIDE DEF h
  <2> QED BY <2>1, <2>8
<1>4. PICK f : f = CHOOSE h : Is(n, h)
  OBVIOUS
<1>5. Is(n, f)
  BY <1>3, <1>4
<1>6. Perform(m) = f[n]
  BY <1>1, <1>2, <1>4 DEF Perform, Fold, Start
<1>7. f[0] = Start(m)
  BY <1>5
<1>8. \A i \in 1 .. n : f[i] = Handle(m, f[i - 1], q[i])
  BY <1>5
<1> QED BY <1>1, <1>2, <1>6, <1>7, <1>8

\* What performing makes of the order objects: all the callbacks have their
\* effect, unless the depth is lost after some of them.
LEMMA PerformIs ==
  ASSUME NEW m, NEW o, Reached(m.order, m.queue, o), m.queue # <<>>,
         ~depth.lost, undisturbed \in BOOLEAN
  PROVE  /\ Underway(Perform(m))
         /\ Towards(Perform(m).order, o)
         /\ ~Perform(m).depth.lost => Perform(m).order = o
<1>1. PICK q : q = m.queue
  OBVIOUS
<1>2. q \in Seq(Callbacks)
  BY <1>1 DEF Reached
<1>3. PICK n \in Nat : n = Len(q) /\ n # 0
  BY <1>1, <1>2
<1>4. PICK g : Leads(m.order, q, o, g)
  BY <1>1 DEF Reached
<1>5. PICK f : /\ f[0] = Start(m) /\ f[n] = Perform(m)
               /\ \A i \in 1 .. n : f[i] = Handle(m, f[i - 1], q[i])
  BY <1>1, <1>2, <1>3, PerformRun
<1> DEFINE At(i) == /\ Underway(f[i])
                    /\ \E k \in 0 .. i : /\ f[i].order = g[k]
                                         /\ ~f[i].depth.lost => k = i
                                         /\ i # 0 => k # 0
           Good == {i \in 0 .. n : At(i)}
<1>6. At(0)
  <2>1. Underway(Start(m)) /\ Start(m).order = m.order
    BY DEF Start, Underway
  <2>2. g[0] = m.order
    BY <1>4 DEF Leads
  <2> QED BY <2>1, <2>2, <1>5
<1>7. ASSUME NEW i \in 1 .. n, At(i - 1) PROVE At(i)
  <2>1. f[i] = Handle(m, f[i - 1], q[i])
    BY <1>5
  <2>2. PICK k \in 0 .. (i - 1) : /\ f[i - 1].order = g[k]
                                  /\ ~f[i - 1].depth.lost => k = i - 1
                                  /\ i - 1 # 0 => k # 0
    BY <1>7
  <2>3. Underway(f[i - 1])
    BY <1>7
  <2>4. /\ Underway(f[i])
        /\ f[i].order = IF f[i - 1].depth.lost THEN f[i - 1].order ELSE Effect(f[i - 1].order, q[i])
        /\ f[i - 1].depth.lost => f[i] = f[i - 1]
    BY <2>1, <2>3, HandleIs
  <2>5. CASE f[i - 1].depth.lost
    <3>1. i - 1 # 0
      BY <2>5, <1>5 DEF Start
    <3>2. k \in 0 .. i /\ k # 0 /\ f[i].order = g[k] /\ f[i].depth.lost
      BY <3>1, <2>2, <2>4, <2>5
    <3> QED BY <3>2, <2>4
  <2>6. CASE ~f[i - 1].depth.lost
    <3>1. f[i].order = g[i]
      BY <2>6, <2>2, <2>4, <1>3, <1>4 DEF Leads
    <3>2. i \in 0 .. i /\ i # 0
      OBVIOUS
    <3> QED BY <3>1, <3>2, <2>4
  <2> QED BY <2>5, <2>6
<1>8. \A i \in 0 .. n : At(i)
  <2>1. 0 \in Good /\ \A i \in 1 .. n : i - 1 \in Good => i \in Good
    BY <1>6, <1>7
  <2>2. \A i \in 0 .. n : i \in Good
    <3> HIDE DEF Good
    <3> QED BY <2>1, Induct
  <2> QED BY <2>2
<1>9. n \in 0 .. n
  OBVIOUS
<1>10. At(n)
  BY <1>8, <1>9
<1>11. PICK k \in 1 .. n : f[n].order = g[k] /\ (~f[n].depth.lost => k = n)
  BY <1>3, <1>10
<1>12. Towards(g[k], o) /\ g[n] = o
  BY <1>3, <1>4, <1>11 DEF Leads
<1> QED BY <1>5, <1>10, <1>11, <1>12

-----------------------------------------------------------------------------
(* A call under way.                                                       *)

Call == [order : [Ids -> Object], book : [Sides -> Seq(Tracker)],
         stops : [Sides -> Seq(Tracker)], market : Nat, queue : Seq(Callbacks),
         pending : Seq(Tracker), in : [id : Nat, price : Nat, open : Nat],
         held : Seq(Ids), deferred : Seq(Ids), matching : BOOLEAN, rest : Nat,
         parked : BOOLEAN]

\* What no callback changes, between the objects a of the start and o.
Same(a, o) ==
  \A id \in Ids : /\ a[id].side = o[id].side /\ a[id].stop = o[id].stop
                  /\ a[id].aon = o[id].aon /\ a[id].ioc = o[id].ioc
                  /\ a[id].aon => a[id].price # MarketPrice /\ o[id].price # MarketPrice

\* While the depth is undisturbed only an order that the call itself parks, of
\* the objects a, may wait with a limit price.
MayWait(a, id) ==
  undisturbed /\ a[id].price # MarketPrice =>
    a[id].state = "new" /\ a[id].stop # 0 /\ Before(a[id].side, a[id].stop, market)

\* A tracker that waits to be submitted, as a stop or since it was triggered.
Stopped(a, o, t) ==
  Waits(o, o[t.id].side, t) /\ a[t.id].price = o[t.id].price /\ MayWait(a, t.id)

Resting(b, o, x) ==
  \A s \in Sides : \A id \in IdsOn(b[s]) :
    /\ o[id].side = s
    /\ id # x => Rests(o, s, TrackerOf(b[s], id))
Queueing(a, o, st, pd, W) ==
  /\ \A s \in Sides : \A id \in IdsOn(st[s]) :
       o[id].side = s /\ Stopped(a, o, TrackerOf(st[s], id))
  /\ \A id \in IdsOn(pd) : Stopped(a, o, TrackerOf(pd, id))
  /\ \A id \in IdsOn(W) : Stopped(a, o, TrackerOf(W, id))
Apart(b, st, pd, W, x) ==
  /\ \A r, s \in Sides : IdsOn(b[r]) \intersect IdsOn(st[s]) = {}
  /\ \A s \in Sides : /\ IdsOn(b[s]) \intersect IdsOn(pd) = {}
                      /\ IdsOn(b[s]) \intersect IdsOn(W) = {}
                      /\ IdsOn(st[s]) \intersect IdsOn(pd) = {}
                      /\ IdsOn(st[s]) \intersect IdsOn(W) = {}
                      /\ x \notin IdsOn(st[s])
  /\ IdsOn(pd) \intersect IdsOn(W) = {}
  /\ x \notin IdsOn(pd) /\ x \notin IdsOn(W)
Lists(b, st, pd, W) ==
  (\A s \in Sides : Listed(b[s]) /\ Listed(st[s])) /\ Listed(pd) /\ Listed(W)

Somewhere(b, st, pd, W) ==
  {id \in Ids : (\E s \in Sides : id \in IdsOn(b[s]) \/ id \in IdsOn(st[s]))
                \/ id \in IdsOn(pd) \/ id \in IdsOn(W)}
Accounted(b, st, pd, W, o, x) ==
  \A id \in Ids : id # x /\ o[id].state = "accepted" /\ ~(o[id].ioc /\ o[id].stop # 0) =>
                    id \in Somewhere(b, st, pd, W)

WholeBut(o, x) == \A id \in Ids : id # x /\ o[id].aon => o[id].filled \in {0, o[id].qty}

\* The call m, whose callbacks so far make o of the order objects, with the
\* order x apart, and W still to be submitted.
Steady(m, o, W, x) ==
  /\ m \in Call /\ m.queue # <<>>
  /\ Same(m.order, o)
  /\ Reached(m.order, m.queue, o)
  /\ Lists(m.book, m.stops, m.pending, W)
  /\ Resting(m.book, o, x)
  /\ Queueing(m.order, o, m.stops, m.pending, W)
  /\ Apart(m.book, m.stops, m.pending, W, x)
  /\ Accounted(m.book, m.stops, m.pending, W, o, x)
  /\ WholeBut(o, x)

Stock(m) == Len(m.stops["BID"]) + Len(m.stops["ASK"]) + Len(m.pending)

\* What changes when the market price does.
Alike(m, r) ==
  /\ r.order = m.order /\ r.book = m.book /\ r.queue = m.queue /\ r.in = m.in
  /\ r.held = m.held /\ r.deferred = m.deferred /\ r.matching = m.matching
  /\ r.rest = m.rest /\ r.parked = m.parked
  /\ Stock(r) = Stock(m)

\* The two sides.
LEMMA SidesAre == Sides = {"BID", "ASK"} /\ "BID" # "ASK"
BY DEF Sides

\* The stops that fire are a prefix of the list.
LEMMA FiredIs ==
  ASSUME NEW s, NEW ts, Listed(ts), NEW p
  PROVE  Fired(s, ts, p) \in 0 .. Len(ts)
<1> DEFINE F == {i \in DOMAIN ts : \A j \in 1 .. i : ~Before(s, p, ts[j].price)}
<1>1. PICK n \in Nat : n = Len(ts) /\ DOMAIN ts = 1 .. n
  BY ListedFacts
<1>2. F \subseteq 1 .. n
  BY <1>1
<1>3. Fired(s, ts, p) = Cardinality(F)
  BY DEF Fired
<1> HIDE DEF F
<1>4. IsFiniteSet(1 .. n) /\ Cardinality(1 .. n) = n
  BY FS_Interval
<1>5. Cardinality(F) \in Nat /\ Cardinality(F) <= n
  BY <1>2, <1>4, FS_Subset, FS_CardinalityType
<1> QED BY <1>1, <1>3, <1>5

\* What leaves the stops is pending.
LEMMA Moved ==
  ASSUME NEW a \in Int, NEW b \in Int, NEW c \in Int, NEW n \in Int
  PROVE  (a - n) + b + (c + n) = a + b + c /\ b + (a - n) + (c + n) = b + a + c
OBVIOUS

\* check_stop_orders: triggered stops move to the pending orders, and stay what they are.
LEMMA CheckStopsIs ==
  ASSUME NEW m, NEW o, NEW W, NEW x, Steady(m, o, W, x), NEW s \in Sides, NEW p \in Nat,
         NEW r, r = CheckStops(m, s, p)
  PROVE  Steady(r, o, W, x) /\ Alike(m, r)
<1>1. PICK ts : ts = m.stops[s]
  OBVIOUS
<1>2. /\ Listed(ts) /\ Listed(m.pending) /\ m \in Call
      /\ IdsOn(ts) \intersect IdsOn(m.pending) = {}
  BY <1>1 DEF Steady, Lists, Apart
<1>3. PICK n \in 0 .. Len(ts) : n = Fired(s, ts, p)
  BY <1>2, FiredIs
<1>4. PICK a, b : a = SubSeq(ts, 1, n) /\ b = SubSeq(ts, n + 1, Len(ts))
  OBVIOUS
<1>19. IsCut(ts, n, a, b)
  BY <1>2, <1>3, <1>4 DEF IsCut
<1>5. /\ Listed(a) /\ Len(a) = n /\ Listed(b) /\ Len(b) = Len(ts) - n
      /\ IdsOn(a) \intersect IdsOn(b) = {} /\ IdsOn(a) \union IdsOn(b) = IdsOn(ts)
      /\ \A y \in IdsOn(a) : TrackerOf(a, y) = TrackerOf(ts, y)
      /\ \A y \in IdsOn(b) : TrackerOf(b, y) = TrackerOf(ts, y)
  BY <1>19, CutIs
<1>20. PICK pd : pd = m.pending
  OBVIOUS
<1>6. PICK u : u = pd \o a
  OBVIOUS
<1>7. IsJoin(pd, a, u)
  BY <1>2, <1>5, <1>6, <1>20 DEF IsJoin
<1>8. /\ Listed(u) /\ Len(u) = Len(pd) + n
      /\ IdsOn(u) = IdsOn(pd) \union IdsOn(a)
      /\ \A y \in IdsOn(pd) : TrackerOf(u, y) = TrackerOf(pd, y)
      /\ \A y \in IdsOn(a) : TrackerOf(u, y) = TrackerOf(a, y)
  BY <1>5, <1>7, JoinIs
<1>21. PICK st : st = [m.stops EXCEPT ![s] = b]
  OBVIOUS
<1>9. r = [m EXCEPT !.stops = st, !.pending = u]
  BY <1>1, <1>3, <1>4, <1>6, <1>20, <1>21 DEF CheckStops
<1>22. b \in Seq(Tracker) /\ u \in Seq(Tracker) /\ m.stops \in [Sides -> Seq(Tracker)]
  BY <1>2, <1>5, <1>8 DEF Listed, Call
<1>10. /\ u \in Seq(Tracker) /\ st \in [Sides -> Seq(Tracker)]
       /\ st[s] = b /\ \A d \in Sides : d # s => st[d] = m.stops[d]
  BY <1>21, <1>22
<1>23. /\ r.stops = st /\ r.pending = u /\ r \in Call
       /\ r.order = m.order /\ r.book = m.book /\ r.queue = m.queue /\ r.in = m.in
       /\ r.held = m.held /\ r.deferred = m.deferred /\ r.matching = m.matching
       /\ r.rest = m.rest /\ r.parked = m.parked
  BY <1>2, <1>9, <1>10 DEF Call
<1>11. /\ r \in Call
       /\ r.order = m.order /\ r.book = m.book /\ r.queue = m.queue /\ r.in = m.in
       /\ r.held = m.held /\ r.deferred = m.deferred /\ r.matching = m.matching
       /\ r.rest = m.rest /\ r.parked = m.parked
       /\ r.pending = u /\ r.stops[s] = b
       /\ \A d \in Sides : d # s => r.stops[d] = m.stops[d]
  BY <1>10, <1>23
<1>12. \A d \in Sides : Len(m.stops[d]) \in Nat
  BY ListedFacts DEF Steady, Lists
<1>13. Stock(r) = Stock(m)
  <2>1. Len(ts) \in Nat /\ Len(pd) \in Nat /\ n \in Nat
    BY <1>2, <1>20, <1>3, ListedFacts
  <2>4. PICK lt, lp : lt = Len(ts) /\ lp = Len(pd)
    OBVIOUS
  <2>5. /\ lt \in Nat /\ lp \in Nat /\ n \in Nat /\ Len(b) = lt - n /\ Len(m.pending) = lp
        /\ Len(r.pending) = lp + n /\ Len(m.stops[s]) = lt
    BY <2>1, <2>4, <1>1, <1>5, <1>8, <1>11, <1>20
  <2>2. CASE s = "BID"
    <3>1. r.stops["ASK"] = m.stops["ASK"] /\ r.stops["BID"] = b
      BY <2>2, <1>11, SidesAre
    <3>2. PICK k \in Nat : k = Len(m.stops["ASK"])
      BY <1>12, SidesAre
    <3>7. PICK c : c = lt - n
      OBVIOUS
    <3>3. c \in Int /\ Len(r.stops[s]) = c
      BY <2>5, <3>7, <1>11
    <3>4. PICK e \in Int : e = lp + n /\ Len(r.pending) = e
      BY <2>5
    <3>5. Stock(m) = lt + k + lp
      BY <3>2, <2>2, <2>5 DEF Stock
    <3>6. Stock(r) = c + k + e
      BY <3>1, <3>2, <3>3, <3>4, <2>2 DEF Stock
    <3>8. c + k + e = lt + k + lp /\ k + c + e = k + lt + lp
      <4>1. lt \in Int /\ lp \in Int /\ n \in Int /\ k \in Int
        BY <2>5
      <4>2. c = lt - n /\ e = lp + n
        BY <3>4, <3>7
      <4> QED BY <4>1, <4>2, Moved
    <3> QED BY <3>5, <3>6, <3>8
  <2>3. CASE s = "ASK"
    <3>1. r.stops["BID"] = m.stops["BID"] /\ r.stops["ASK"] = b
      BY <2>3, <1>11, SidesAre
    <3>2. PICK k \in Nat : k = Len(m.stops["BID"])
      BY <1>12, SidesAre
    <3>7. PICK c : c = lt - n
      OBVIOUS
    <3>3. c \in Int /\ Len(r.stops[s]) = c
      BY <2>5, <3>7, <1>11
    <3>4. PICK e \in Int : e = lp + n /\ Len(r.pending) = e
      BY <2>5
    <3>5. Stock(m) = k + lt + lp
      BY <3>2, <2>3, <2>5 DEF Stock
    <3>6. Stock(r) = k + c + e
      BY <3>1, <3>2, <3>3, <3>4, <2>3 DEF Stock
    <3>8. c + k + e = lt + k + lp /\ k + c + e = k + lt + lp
      <4>1. lt \in Int /\ lp \in Int /\ n \in Int /\ k \in Int
        BY <2>5
      <4>2. c = lt - n /\ e = lp + n
        BY <3>4, <3>7
      <4> QED BY <4>1, <4>2, Moved
    <3> QED BY <3>5, <3>6, <3>8
  <2> QED BY <2>2, <2>3, SidesAre
<1>14. Alike(m, r)
  BY <1>11, <1>13 DEF Alike
<1>15. Lists(r.book, r.stops, r.pending, W)
  <2>1. \A d \in Sides : Listed(m.book[d]) /\ Listed(m.stops[d]) /\ Listed(W)
    BY DEF Steady, Lists
  <2>2. Listed(W)
    BY DEF Steady, Lists
  <2> QED BY <2>1, <2>2, <1>5, <1>8, <1>11 DEF Lists
<1>16. Queueing(m.order, o, r.stops, r.pending, W)
  <2>1. Queueing(m.order, o, m.stops, m.pending, W)
    BY DEF Steady
  <2>2. ASSUME NEW d \in Sides, NEW y \in IdsOn(r.stops[d])
        PROVE  o[y].side = d /\ Stopped(m.order, o, TrackerOf(r.stops[d], y))
    <3>1. CASE d = s
      BY <3>1, <2>1, <2>2, <1>1, <1>5, <1>11 DEF Queueing
    <3>2. CASE d # s
      BY <3>2, <2>1, <2>2, <1>11 DEF Queueing
    <3> QED BY <3>1, <3>2
  <2>3. ASSUME NEW y \in IdsOn(r.pending)
        PROVE  Stopped(m.order, o, TrackerOf(r.pending, y))
    <3>1. CASE y \in IdsOn(m.pending)
      BY <3>1, <2>1, <1>8, <1>11, <1>20 DEF Queueing
    <3>2. CASE y \in IdsOn(a)
      <4>1. TrackerOf(u, y) = TrackerOf(ts, y) /\ y \in IdsOn(ts)
        BY <3>2, <1>5, <1>8
      <4>2. TrackerOf(r.pending, y) = TrackerOf(m.stops[s], y) /\ y \in IdsOn(m.stops[s])
        BY <4>1, <1>1, <1>11
      <4> QED BY <4>2, <2>1 DEF Queueing
    <3> QED BY <3>1, <3>2, <2>3, <1>8, <1>11, <1>20
  <2> QED BY <2>1, <2>2, <2>3 DEF Queueing
<1>17. Apart(r.book, r.stops, r.pending, W, x)
  <2>1. Apart(m.book, m.stops, m.pending, W, x)
    BY DEF Steady
  <2>2. \A d \in Sides : IdsOn(r.stops[d]) \subseteq IdsOn(m.stops[d])
    BY <1>1, <1>5, <1>11
  <2>3. IdsOn(r.pending) \subseteq IdsOn(m.pending) \union IdsOn(m.stops[s])
    BY <1>1, <1>5, <1>8, <1>11, <1>20
  <2>4. \A d \in Sides : IdsOn(r.stops[d]) \intersect IdsOn(a) = {}
    <3>1. ASSUME NEW d \in Sides, d # s PROVE IdsOn(m.stops[d]) \intersect IdsOn(ts) = {}
      <4>1. Queueing(m.order, o, m.stops, m.pending, W)
        BY DEF Steady
      <4> QED BY <3>1, <4>1, <1>1 DEF Queueing
    <3>2. ASSUME NEW d \in Sides PROVE IdsOn(r.stops[d]) \intersect IdsOn(a) = {}
      <4>1. CASE d = s
        BY <4>1, <1>5, <1>11
      <4>2. CASE d # s
        BY <4>2, <3>1, <1>5, <1>11
      <4> QED BY <4>1, <4>2
    <3> QED BY <3>2
  <2>5. \A d \in Sides : IdsOn(r.stops[d]) \intersect IdsOn(r.pending) = {}
    BY <2>1, <2>2, <2>4, <1>8, <1>11, <1>20 DEF Apart
  <2>6. \A d, e \in Sides : IdsOn(r.book[d]) \intersect IdsOn(r.stops[e]) = {}
    BY <2>1, <2>2, <1>11 DEF Apart
  <2>7. \A d \in Sides : /\ IdsOn(r.book[d]) \intersect IdsOn(r.pending) = {}
                         /\ IdsOn(r.book[d]) \intersect IdsOn(W) = {}
                         /\ IdsOn(r.stops[d]) \intersect IdsOn(W) = {}
                         /\ x \notin IdsOn(r.stops[d])
    BY <2>1, <2>2, <2>3, <1>11 DEF Apart
  <2>8. IdsOn(r.pending) \intersect IdsOn(W) = {} /\ x \notin IdsOn(r.pending) /\ x \notin IdsOn(W)
    BY <2>1, <2>3 DEF Apart
  <2> QED BY <2>5, <2>6, <2>7, <2>8 DEF Apart
<1>18. Accounted(r.book, r.stops, r.pending, W, o, x)
  <2>1. Somewhere(m.book, m.stops, m.pending, W) \subseteq Somewhere(r.book, r.stops, r.pending, W)
    <3>1. ASSUME NEW y \in Ids, y \in Somewhere(m.book, m.stops, m.pending, W)
          PROVE  y \in Somewhere(r.book, r.stops, r.pending, W)
      <4>1. CASE \E d \in Sides : y \in IdsOn(m.book[d])
        BY <4>1, <1>11 DEF Somewhere
      <4>2. CASE \E d \in Sides : y \in IdsOn(m.stops[d])
        <5>1. PICK d \in Sides : y \in IdsOn(m.stops[d])
          BY <4>2
        <5>2. CASE d # s
          BY <5>1, <5>2, <1>11 DEF Somewhere
        <5>3. CASE d = s
          <6>1. y \in IdsOn(r.stops[s]) \/ y \in IdsOn(r.pending)
            BY <5>1, <5>3, <1>1, <1>5, <1>8, <1>11
          <6> QED BY <6>1 DEF Somewhere
        <5> QED BY <5>2, <5>3
      <4>3. CASE y \in IdsOn(m.pending)
        BY <4>3, <1>8, <1>11, <1>20 DEF Somewhere
      <4>4. CASE y \in IdsOn(W)
        BY <4>4 DEF Somewhere
      <4> QED BY <3>1, <4>1, <4>2, <4>3, <4>4 DEF Somewhere
    <3>2. Somewhere(m.book, m.stops, m.pending, W) \subseteq Ids
      BY DEF Somewhere
    <3> QED BY <3>1, <3>2
  <2> QED BY <2>1 DEF Steady, Accounted
<1> QED BY <1>11, <1>14, <1>15, <1>16, <1>17, <1>18 DEF Steady

\* A new market price at most triggers stops.
LEMMA SetMarketPriceIs ==
  ASSUME NEW m, NEW o, NEW W, NEW x, Steady(m, o, W, x), NEW p \in Nat,
         NEW r, r = SetMarketPrice(m, p)
  PROVE  Steady(r, o, W, x) /\ Alike(m, r)
<1>1. PICK n : n = [m EXCEPT !.market = p]
  OBVIOUS
<1>2. m \in Call
  BY DEF Steady
<1>3. /\ n \in Call /\ n.order = m.order /\ n.book = m.book /\ n.stops = m.stops
      /\ n.queue = m.queue /\ n.in = m.in /\ n.pending = m.pending
      /\ n.held = m.held /\ n.deferred = m.deferred /\ n.matching = m.matching
      /\ n.rest = m.rest /\ n.parked = m.parked
  BY <1>1, <1>2 DEF Call
<1>4. Steady(n, o, W, x)
  BY <1>3 DEF Steady
<1>5. Alike(m, n)
  BY <1>3 DEF Alike, Stock
<1>6. r = Repriced(n, m.market, p)
  BY <1>1 DEF SetMarketPrice
<1>7. r = n \/ \E s \in Sides : r = CheckStops(n, s, p)
  BY <1>6, SidesAre DEF Repriced
<1>8. Steady(r, o, W, x) /\ Alike(n, r)
  <2>1. CASE r = n
    BY <2>1, <1>4 DEF Alike
  <2>2. CASE \E s \in Sides : r = CheckStops(n, s, p)
    BY <2>2, <1>4, CheckStopsIs
  <2> QED BY <2>1, <2>2, <1>7
<1> QED BY <1>5, <1>8 DEF Alike

-----------------------------------------------------------------------------
(* A trade.                                                                *)

\* The inbound tracker of m says what its order, x, says of it.
Inbound(m, o, x) ==
  /\ x \in Ids /\ m.in.id = x
  /\ m.in.open = OpenQty(o[x])
  /\ o[x].state = IF m.in.open = 0 THEN "complete" ELSE "accepted"

\* The call m, with the order x against side s.
Matching(m, o, W, x, s) ==
  Steady(m, o, W, x) /\ Inbound(m, o, x) /\ s \in Sides /\ o[x].side # s

\* The callbacks e go on from q with fills; with fills of the order x.
Follows(q, e) ==
  /\ DOMAIN q \subseteq DOMAIN e /\ \A i \in DOMAIN q : e[i] = q[i]
  /\ \A i \in DOMAIN e \ DOMAIN q : e[i].type = "fill"
OnlyOf(q, e, x) == \A i \in DOMAIN e \ DOMAIN q : e[i].order = x

\* What a call never changes on its way from m to r.
Carries(m, o, r, u) ==
  /\ r.order = m.order /\ r.queue[1] = m.queue[1]
  /\ r.parked = m.parked /\ Follows(m.queue, r.queue)
  /\ \A y \in Ids : /\ u[y].qty = o[y].qty /\ u[y].price = o[y].price
                    /\ u[y].state = "accepted" => o[y].state = "accepted"
Course(m, o, r, u) == Carries(m, o, r, u) /\ Stock(r) = Stock(m)

\* What trades with side s do not change.
Trades(m, o, r, u, s) ==
  /\ Course(m, o, r, u)
  /\ r.in.id = m.in.id /\ r.in.price = m.in.price /\ r.rest = m.rest
  /\ OnlyOf(m.queue, r.queue, m.in.id)
  /\ \A d \in Sides \ {s} : r.book[d] = m.book[d]
  /\ IdsOn(r.book[s]) \subseteq IdsOn(m.book[s])

\* Order::fill: a fill of no more than what is open, and what is left.
LEMMA OrderFillIs ==
  ASSUME NEW b \in Object, b.filled <= b.qty, NEW qty \in Nat, qty <= OpenQty(b),
         NEW f, f = Fill(b, qty)
  PROVE  /\ f \in Object /\ f.filled <= f.qty /\ f.filled = b.filled + qty
         /\ f.side = b.side /\ f.price = b.price /\ f.qty = b.qty /\ f.stop = b.stop
         /\ f.aon = b.aon /\ f.ioc = b.ioc
         /\ OpenQty(f) = OpenQty(b) - qty
         /\ f.state = IF OpenQty(b) - qty = 0 THEN "complete" ELSE b.state
<1>1. PICK k : k = b.filled + qty
  OBVIOUS
<1>2. PICK e : e = [b EXCEPT !.filled = k]
  OBVIOUS
<1>3. b.filled \in Nat /\ b.qty \in Nat
  BY DEF Object
<1>4. k \in Nat /\ k <= b.qty /\ OpenQty(b) = b.qty - b.filled
  BY <1>1, <1>3 DEF OpenQty
<1>5. /\ e \in Object /\ e.filled = k /\ e.side = b.side /\ e.price = b.price /\ e.qty = b.qty
      /\ e.stop = b.stop /\ e.aon = b.aon /\ e.ioc = b.ioc /\ e.state = b.state
  BY <1>2, <1>4 DEF Object
<1>6. OpenQty(e) = b.qty - k /\ b.qty - k = OpenQty(b) - qty
  BY <1>1, <1>3, <1>4, <1>5 DEF OpenQty
<1>7. PICK v : v = IF OpenQty(e) = 0 THEN "complete" ELSE e.state
  OBVIOUS
<1>8. f = [e EXCEPT !.state = v]
  BY <1>1, <1>2, <1>5, <1>7 DEF Fill
<1>9. v \in States
  BY <1>5, <1>7 DEF Object, States
<1>10. /\ f \in Object /\ f.filled = k /\ f.side = b.side /\ f.price = b.price /\ f.qty = b.qty
       /\ f.stop = b.stop /\ f.aon = b.aon /\ f.ioc = b.ioc /\ f.state = v
  BY <1>5, <1>8, <1>9 DEF Object
<1>11. OpenQty(f) = OpenQty(e)
  BY <1>5, <1>10 DEF OpenQty
<1> QED BY <1>1, <1>4, <1>5, <1>6, <1>7, <1>10, <1>11

\* The callback of a trade.
LEMMA FillCallbackIs ==
  ASSUME NEW in, NEW t, NEW qty \in Nat, NEW p \in Nat, in.id \in Ids, t.id \in Ids,
         NEW cb, cb = FillCallback(in, t, qty, p)
  PROVE  /\ cb \in Callbacks /\ cb.type = "fill" /\ cb.order = in.id /\ cb.matched = t.id
         /\ cb.qty = qty
         /\ cb.orderFilled = (in.open = qty) /\ cb.matchedFilled = (t.open = qty)
<1>1. PICK a, b : a = (in.open = qty) /\ b = (t.open = qty)
  OBVIOUS
<1>2. a \in BOOLEAN /\ b \in BOOLEAN
  BY <1>1
<1>3. cb = [type |-> "fill", order |-> in.id, matched |-> t.id, qty |-> qty, price |-> p,
            delta |-> 0, orderFilled |-> a, matchedFilled |-> b]
  BY <1>1 DEF FillCallback, Callback
<1>7. qty \in Int
  OBVIOUS
<1>8. "fill" \in Types
  BY DEF Types
<1>4. "fill" \in Types /\ qty \in Int /\ 0 \in Int
  BY <1>7, <1>8
<1>5. cb \in Callbacks
  BY <1>2, <1>3, <1>4 DEF Callbacks
<1>6. cb.type = "fill" /\ cb.order = in.id /\ cb.matched = t.id /\ cb.qty = qty
  BY <1>3
<1>9. cb.orderFilled = a /\ cb.matchedFilled = b
  BY <1>3
<1> QED BY <1>1, <1>5, <1>6, <1>9

\* The objects after a fill of y and x.
LEMMA FillsIs ==
  ASSUME NEW o, Objects(o), NEW x \in Ids, NEW y \in Ids, x # y, NEW qty \in Nat,
         qty <= OpenQty(o[x]), qty <= OpenQty(o[y]), NEW cb, cb.type = "fill",
         cb.order = x, cb.matched = y, cb.qty = qty, NEW u, u = Effect(o, cb)
  PROVE  /\ Objects(u) /\ Towards(o, u) /\ u[x] = Fill(o[x], qty) /\ u[y] = Fill(o[y], qty)
         /\ \A z \in Ids \ {x, y} : u[z] = o[z]
<1>1. PICK f : f = Fill(o[x], qty)
  OBVIOUS
<1>2. PICK g : g = Fill(o[y], qty)
  OBVIOUS
<1>3. o \in [Ids -> Object] /\ \A z \in Ids : o[z].filled <= o[z].qty
  BY DEF Objects
<1>4. f \in Object /\ f.filled <= f.qty /\ f.qty = o[x].qty /\ f.side = o[x].side
  BY <1>1, <1>3, OrderFillIs
<1>5. g \in Object /\ g.filled <= g.qty /\ g.qty = o[y].qty /\ g.side = o[y].side
  BY <1>2, <1>3, OrderFillIs
<1>6. u = [o EXCEPT ![y] = Fill(@, qty), ![x] = Fill(@, qty)]
  BY DEF Effect
<1>7. u = [o EXCEPT ![y] = g, ![x] = f]
  BY <1>1, <1>2, <1>3, <1>6
<1>8. /\ u \in [Ids -> Object] /\ u[x] = f /\ u[y] = g
      /\ \A z \in Ids \ {x, y} : u[z] = o[z]
  BY <1>3, <1>4, <1>5, <1>7
<1>9. \A z \in Ids : u[z].filled <= u[z].qty /\ u[z].qty = o[z].qty /\ u[z].side = o[z].side
  BY <1>3, <1>4, <1>5, <1>8
<1>10. Objects(u)
  BY <1>8, <1>9 DEF Objects
<1>11. Towards(o, u)
  BY <1>9 DEF Towards
<1> QED BY <1>1, <1>2, <1>8, <1>10, <1>11

\* The call n is m after a trade of qty with the tracker t of the order y.
IsTrade(m, o, W, x, s, y, t, qty, cb, u, n) ==
  /\ Matching(m, o, W, x, s)
  /\ y \in IdsOn(m.book[s]) /\ t = TrackerOf(m.book[s], y)
  /\ qty \in Nat \ {0} /\ qty <= m.in.open /\ qty <= t.open /\ (o[y].aon => qty = t.open)
  /\ cb \in Callbacks /\ cb.type = "fill" /\ cb.order = x /\ cb.matched = y /\ cb.qty = qty
  /\ cb.orderFilled = (m.in.open = qty) /\ cb.matchedFilled = (t.open = qty)
  /\ u = Effect(o, cb)
  /\ n \in Call /\ n.order = m.order /\ n.stops = m.stops /\ n.pending = m.pending
  /\ n.book = [m.book EXCEPT ![s] = Holding(m.book[s], [t EXCEPT !.open = t.open - qty])]
  /\ n.queue = Append(m.queue, cb)

\* The callback and the trackers of a trade agree on what is left of both orders.
LEMMA TradeSteady ==
  ASSUME NEW m, NEW o, NEW W, NEW x, NEW s, NEW y, NEW t, NEW qty, NEW cb, NEW u, NEW n,
         IsTrade(m, o, W, x, s, y, t, qty, cb, u, n)
  PROVE  /\ Steady(n, u, W, x)
         /\ u[x] = Fill(o[x], qty) /\ o[x] \in Object /\ o[x].filled <= o[x].qty
         /\ \A z \in Ids : u[z].qty = o[z].qty /\ u[z].side = o[z].side /\ u[z].price = o[z].price
         /\ \A z \in Ids : u[z].state = "accepted" => o[z].state = "accepted"
         /\ IdsOn(n.book[s]) \subseteq IdsOn(m.book[s])
         /\ IdsOn(m.book[s]) \ {y} \subseteq IdsOn(n.book[s])
         /\ \A z \in IdsOn(m.book[s]) \ {y} : TrackerOf(n.book[s], z) = TrackerOf(m.book[s], z)
         /\ \A d \in Sides \ {s} : n.book[d] = m.book[d]
<1>1. /\ Steady(m, o, W, x) /\ s \in Sides /\ o[x].side # s
      /\ x \in Ids /\ m.in.open = OpenQty(o[x])
      /\ o[x].state = IF m.in.open = 0 THEN "complete" ELSE "accepted"
  BY DEF IsTrade, Matching, Inbound
<1>2. y \in IdsOn(m.book[s]) /\ t = TrackerOf(m.book[s], y) /\ Listed(m.book[s])
  BY <1>1 DEF IsTrade, Steady, Lists
<1>3. /\ qty \in Nat /\ qty <= m.in.open /\ qty <= t.open /\ (o[y].aon => qty = t.open)
      /\ n \in Call /\ n.order = m.order /\ n.stops = m.stops /\ n.pending = m.pending
      /\ n.queue = Append(m.queue, cb)
  BY DEF IsTrade
<1>4. Objects(o) /\ m.queue # <<>> /\ m.queue \in Seq(Callbacks)
  BY <1>1 DEF Steady, Reached, Call
<1>5. Resting(m.book, o, x)
  BY <1>1 DEF Steady
<1>6. o[y].side = s /\ x # y
  BY <1>1, <1>2, <1>5 DEF Resting
<1>7. Rests(o, s, t) /\ t.id = y /\ t \in Tracker /\ y \in Ids
  <2>1. t.id = y /\ t \in Tracker /\ y \in Ids
    BY <1>2, TrackerIs, ListedFacts
  <2> QED BY <2>1, <1>1, <1>2, <1>5, <1>6 DEF Resting
<1>8. /\ t.open = OpenQty(o[y]) /\ o[y].state = "accepted" /\ ~o[y].ioc
      /\ t.price = o[y].price /\ t.open \in Nat
  BY <1>7 DEF Rests, Tracker
<1>9. /\ Objects(u) /\ Towards(o, u) /\ u[x] = Fill(o[x], qty) /\ u[y] = Fill(o[y], qty)
      /\ \A z \in Ids \ {x, y} : u[z] = o[z]
  <2>1. /\ cb.type = "fill" /\ cb.order = x /\ cb.matched = y /\ cb.qty = qty
        /\ u = Effect(o, cb)
    BY DEF IsTrade
  <2>2. qty <= OpenQty(o[x]) /\ qty <= OpenQty(o[y])
    BY <1>1, <1>3, <1>8
  <2> QED BY <2>1, <2>2, <1>1, <1>3, <1>4, <1>6, <1>7, FillsIs
<1>10. \A z \in Ids : o[z] \in Object /\ o[z].filled <= o[z].qty
  BY <1>4 DEF Objects
<1>11. /\ u[x].side = o[x].side /\ u[x].stop = o[x].stop /\ u[x].aon = o[x].aon
       /\ u[x].ioc = o[x].ioc /\ u[x].price = o[x].price
  BY <1>1, <1>3, <1>9, <1>10, OrderFillIs
<1>12. /\ u[y].side = o[y].side /\ u[y].stop = o[y].stop /\ u[y].aon = o[y].aon
       /\ u[y].ioc = o[y].ioc /\ u[y].price = o[y].price /\ u[y].qty = o[y].qty
       /\ u[y].filled = o[y].filled + qty
       /\ OpenQty(u[y]) = t.open - qty
       /\ u[y].state = IF t.open - qty = 0 THEN "complete" ELSE "accepted"
  BY <1>3, <1>7, <1>8, <1>9, <1>10, OrderFillIs
<1>13. PICK v : v = [t EXCEPT !.open = t.open - qty]
  OBVIOUS
<1>14. v \in Tracker /\ v.id = y /\ v.price = t.price /\ v.open = t.open - qty
  <2>1. t.open - qty \in Nat
    BY <1>3, <1>8
  <2> QED BY <2>1, <1>7, <1>13 DEF Tracker
<1>15. PICK bk : bk = Holding(m.book[s], v)
  OBVIOUS
<1>16. n.book = [m.book EXCEPT ![s] = bk]
  BY <1>13, <1>15 DEF IsTrade
<1>17. /\ Listed(bk)
       /\ IdsOn(bk) = IF v.open = 0 THEN IdsOn(m.book[s]) \ {y} ELSE IdsOn(m.book[s])
       /\ v.open # 0 => TrackerOf(bk, y) = v
       /\ \A z \in IdsOn(m.book[s]) \ {y} : TrackerOf(bk, z) = TrackerOf(m.book[s], z)
  BY <1>2, <1>14, <1>15, HoldingIs
<1>18. n.book[s] = bk /\ \A d \in Sides : d # s => n.book[d] = m.book[d]
  BY <1>1, <1>16 DEF Steady, Call
<1>19. \A d \in Sides : IdsOn(n.book[d]) \subseteq IdsOn(m.book[d])
  BY <1>17, <1>18
<1>20. Same(n.order, u)
  <2>1. Same(m.order, o)
    BY <1>1 DEF Steady
  <2>2. ASSUME NEW z \in Ids
        PROVE  /\ u[z].side = o[z].side /\ u[z].stop = o[z].stop /\ u[z].aon = o[z].aon
               /\ u[z].ioc = o[z].ioc /\ u[z].price = o[z].price
    BY <1>9, <1>11, <1>12
  <2> QED BY <2>1, <2>2, <1>3 DEF Same
<1>21. Reached(n.order, n.queue, u)
  <2>1. Reached(m.order, m.queue, o)
    BY <1>1 DEF Steady
  <2>2. cb \in Callbacks /\ u = Effect(o, cb)
    BY DEF IsTrade
  <2>3. Proper(o, cb)
    <3>1. /\ cb.type = "fill" /\ cb.order = x /\ cb.matched = y /\ cb.qty = qty /\ qty \in Nat \ {0}
          /\ cb.orderFilled = (m.in.open = qty) /\ cb.matchedFilled = (t.open = qty)
      BY DEF IsTrade
    <3>2. m.in.open # 0
      BY <3>1, <1>3
    <3>3. /\ x # y /\ o[x].state = "accepted" /\ o[y].state = "accepted" /\ o[x].side # o[y].side
          /\ qty <= OpenQty(o[x]) /\ qty <= OpenQty(o[y])
          /\ m.in.open = OpenQty(o[x]) /\ t.open = OpenQty(o[y])
      BY <3>2, <1>1, <1>3, <1>6, <1>8
    <3> QED BY <3>1, <3>3 DEF Proper
  <2> QED BY <2>1, <2>2, <2>3, <1>3, <1>9, ReachedMore
<1>22. Lists(n.book, n.stops, n.pending, W)
  BY <1>1, <1>3, <1>17, <1>18 DEF Steady, Lists
<1>23. Resting(n.book, u, x)
  <2>1. ASSUME NEW d \in Sides, NEW z \in IdsOn(n.book[d])
        PROVE  u[z].side = d /\ (z # x => Rests(u, d, TrackerOf(n.book[d], z)))
    <3>1. z \in IdsOn(m.book[d]) /\ o[z].side = d /\ z \in Ids
      BY <2>1, <1>1, <1>5, <1>19, ListedFacts DEF Resting, Steady, Lists
    <3>2. u[z].side = d
      BY <3>1, <1>9, <1>11, <1>12
    <3>3. CASE z = y
      <4>1. d = s /\ v.open # 0
        BY <3>1, <3>3, <2>1, <1>6, <1>17, <1>18
      <4>2. TrackerOf(n.book[d], z) = v
        BY <4>1, <3>3, <1>17, <1>18
      <4>3. v.open > 0 /\ u[y].state = "accepted" /\ v.open = OpenQty(u[y])
        BY <4>1, <1>12, <1>14 DEF Tracker
      <4>4. Rests(u, s, v)
        BY <4>3, <1>6, <1>8, <1>12, <1>14 DEF Rests
      <4> QED BY <4>1, <4>2, <4>4, <3>2
    <3>4. CASE z # y /\ z # x
      <4>1. TrackerOf(n.book[d], z) = TrackerOf(m.book[d], z)
        BY <3>1, <3>4, <1>17, <1>18
      <4>2. Rests(o, d, TrackerOf(m.book[d], z))
        BY <3>1, <3>4, <1>5 DEF Resting
      <4>3. TrackerOf(m.book[d], z).id = z /\ u[z] = o[z]
        BY <3>1, <3>4, <1>1, <1>9, TrackerIs DEF Steady, Lists
      <4> QED BY <4>1, <4>2, <4>3, <3>2 DEF Rests
    <3> QED BY <3>2, <3>3, <3>4
  <2> QED BY <2>1 DEF Resting
<1>24. Queueing(n.order, u, n.stops, n.pending, W)
  <2>1. Queueing(m.order, o, m.stops, m.pending, W) /\ Apart(m.book, m.stops, m.pending, W, x)
    BY <1>1 DEF Steady
  <2>2. ASSUME NEW L, Listed(L), x \notin IdsOn(L), y \notin IdsOn(L), NEW z \in IdsOn(L),
               Stopped(m.order, o, TrackerOf(L, z))
        PROVE  u[z] = o[z] /\ Stopped(m.order, u, TrackerOf(L, z))
    <3>1. z \in Ids /\ TrackerOf(L, z).id = z
      BY <2>2, TrackerIs, ListedFacts
    <3>2. u[z] = o[z]
      BY <3>1, <2>2, <1>9
    <3> QED BY <3>1, <3>2, <2>2 DEF Stopped, Waits
  <2>3. /\ \A d \in Sides : Listed(m.stops[d]) /\ x \notin IdsOn(m.stops[d]) /\ y \notin IdsOn(m.stops[d])
        /\ Listed(m.pending) /\ x \notin IdsOn(m.pending) /\ y \notin IdsOn(m.pending)
        /\ Listed(W) /\ x \notin IdsOn(W) /\ y \notin IdsOn(W)
    BY <2>1, <1>1, <1>2 DEF Apart, Steady, Lists
  <2>4. ASSUME NEW d \in Sides, NEW z \in IdsOn(m.stops[d])
        PROVE  u[z].side = d /\ Stopped(m.order, u, TrackerOf(m.stops[d], z))
    <3>1. o[z].side = d /\ Stopped(m.order, o, TrackerOf(m.stops[d], z))
      BY <2>1, <2>4 DEF Queueing
    <3> QED BY <3>1, <2>2, <2>3, <2>4
  <2>5. ASSUME NEW z \in IdsOn(m.pending) PROVE Stopped(m.order, u, TrackerOf(m.pending, z))
    BY <2>1, <2>2, <2>3, <2>5 DEF Queueing
  <2>6. ASSUME NEW z \in IdsOn(W) PROVE Stopped(m.order, u, TrackerOf(W, z))
    BY <2>1, <2>2, <2>3, <2>6 DEF Queueing
  <2> QED BY <2>4, <2>5, <2>6, <1>3 DEF Queueing
<1>25. Apart(n.book, n.stops, n.pending, W, x)
  <2>1. Apart(m.book, m.stops, m.pending, W, x)
    BY <1>1 DEF Steady
  <2> QED BY <2>1, <1>3, <1>19 DEF Apart
<1>26. Accounted(n.book, n.stops, n.pending, W, u, x)
  <2>1. Accounted(m.book, m.stops, m.pending, W, o, x)
    BY <1>1 DEF Steady
  <2>2. ASSUME NEW z \in Ids, z # x, u[z].state = "accepted", ~(u[z].ioc /\ u[z].stop # 0)
        PROVE  z \in Somewhere(n.book, n.stops, n.pending, W)
    <3>1. CASE z = y
      <4>1. v.open # 0
        BY <3>1, <2>2, <1>12, <1>14
      <4>2. z \in IdsOn(n.book[s])
        BY <4>1, <3>1, <1>2, <1>17, <1>18
      <4> QED BY <4>2, <1>1 DEF Somewhere
    <3>2. CASE z # y
      <4>1. z \in Somewhere(m.book, m.stops, m.pending, W)
        BY <3>2, <2>1, <2>2, <1>9 DEF Accounted
      <4>2. \A d \in Sides : z \in IdsOn(m.book[d]) => z \in IdsOn(n.book[d])
        BY <3>2, <1>17, <1>18
      <4> QED BY <4>1, <4>2, <1>3 DEF Somewhere
    <3> QED BY <3>1, <3>2
  <2> QED BY <2>2 DEF Accounted
<1>27. WholeBut(u, x)
  <2>1. WholeBut(o, x)
    BY <1>1 DEF Steady
  <2>2. ASSUME NEW z \in Ids, z # x, u[z].aon PROVE u[z].filled \in {0, u[z].qty}
    <3>1. CASE z = y
      <4>1. qty = t.open
        BY <3>1, <2>2, <1>3, <1>12
      <4>2. o[y].filled \in Nat /\ o[y].qty \in Nat /\ o[y].filled <= o[y].qty
        BY <1>7, <1>10 DEF Object
      <4>3. t.open = o[y].qty - o[y].filled
        BY <4>2, <1>8 DEF OpenQty
      <4> QED BY <4>1, <4>2, <4>3, <3>1, <1>12
    <3>2. CASE z # y
      BY <3>2, <2>1, <2>2, <1>9 DEF WholeBut
    <3> QED BY <3>1, <3>2
  <2> QED BY <2>2 DEF WholeBut
<1>28. n.queue # <<>>
  <2>1. Len(n.queue) = Len(m.queue) + 1 /\ Len(m.queue) \in Nat
    BY <1>3, <1>4, AppendProperties DEF IsTrade
  <2> QED BY <2>1
<1>29. Steady(n, u, W, x)
  BY <1>3, <1>20, <1>21, <1>22, <1>23, <1>24, <1>25, <1>26, <1>27, <1>28 DEF Steady
<1>30. \A z \in Ids : u[z].qty = o[z].qty /\ u[z].side = o[z].side /\ u[z].price = o[z].price
  <2>1. \A z \in Ids : u[z].price = o[z].price
    BY <1>9, <1>11, <1>12
  <2> QED BY <2>1, <1>9 DEF Towards
<1>31. \A z \in Ids : u[z].state = "accepted" => o[z].state = "accepted"
  <2>1. o[x].state \in {"complete", "accepted"}
    BY <1>1
  <2>2. u[x].state = IF OpenQty(o[x]) - qty = 0 THEN "complete" ELSE o[x].state
    BY <1>1, <1>3, <1>9, <1>10, OrderFillIs
  <2>3. u[x].state = "accepted" => o[x].state = "accepted"
    BY <2>1, <2>2
  <2> QED BY <2>3, <1>8, <1>9
<1> QED BY <1>1, <1>9, <1>10, <1>17, <1>18, <1>19, <1>29, <1>30, <1>31

\* The arguments of a trade that create_trade makes.
TradeArgs(m, o, W, x, s, y, qty, p) ==
  /\ Matching(m, o, W, x, s)
  /\ y \in IdsOn(m.book[s])
  /\ qty \in Nat \ {0} /\ qty <= m.in.open /\ qty <= TrackerOf(m.book[s], y).open
  /\ o[y].aon => qty = TrackerOf(m.book[s], y).open
  /\ p \in Nat \ {0}

\* The other trackers of side s are the same in r.
OthersKeep(m, r, s, Y) ==
  /\ IdsOn(m.book[s]) \ Y \subseteq IdsOn(r.book[s])
  /\ \A z \in IdsOn(m.book[s]) \ Y : TrackerOf(r.book[s], z) = TrackerOf(m.book[s], z)

IsTraded(m, o, W, x, s, y, qty, p, r) ==
  TradeArgs(m, o, W, x, s, y, qty, p) /\ r = Traded(m, s, TrackerOf(m.book[s], y), qty, p)

\* r comes of m by trades with the trackers Y of side s.
Comes(m, o, W, x, s, Y, r, u) ==
  /\ Matching(r, u, W, x, s) /\ Trades(m, o, r, u, s) /\ OthersKeep(m, r, s, Y)
  /\ r.held = m.held /\ r.deferred = m.deferred /\ r.matching = m.matching
AfterTrade(m, o, W, x, s, y, qty, r) ==
  \E u : Comes(m, o, W, x, s, {y}, r, u) /\ r.in.open = m.in.open - qty

\* One more fill.
LEMMA AppendFollows ==
  ASSUME NEW q \in Seq(Callbacks), NEW cb \in Callbacks, cb.type = "fill",
         NEW r, r = Append(q, cb)
  PROVE  Follows(q, r) /\ OnlyOf(q, r, cb.order)
<1>1. PICK n \in Nat : n = Len(q) /\ DOMAIN q = 1 .. n
  OBVIOUS
<1>2. /\ DOMAIN r = 1 .. (n + 1) /\ r[n + 1] = cb
      /\ \A i \in 1 .. n : r[i] = q[i]
  BY <1>1, AppendProperties
<1>3. \A i \in DOMAIN r \ DOMAIN q : r[i] = cb
  BY <1>1, <1>2
<1> QED BY <1>1, <1>2, <1>3 DEF Follows, OnlyOf

\* create_trade, with a price and a quantity: as steady as before, with that much less to match.
LEMMA TradedIs ==
  ASSUME NEW m, NEW o, NEW W, NEW x, NEW s, NEW y, NEW qty, NEW p, NEW r,
         IsTraded(m, o, W, x, s, y, qty, p, r)
  PROVE  AfterTrade(m, o, W, x, s, y, qty, r)
<1>30. TradeArgs(m, o, W, x, s, y, qty, p) /\ r = Traded(m, s, TrackerOf(m.book[s], y), qty, p)
  BY DEF IsTraded
<1>1. /\ Matching(m, o, W, x, s) /\ Steady(m, o, W, x) /\ Inbound(m, o, x) /\ m \in Call
      /\ s \in Sides /\ y \in IdsOn(m.book[s]) /\ Listed(m.book[s]) /\ o[x].side # s
  BY <1>30 DEF TradeArgs, Matching, Steady, Lists
<1>2. PICK t : t = TrackerOf(m.book[s], y)
  OBVIOUS
<1>3. /\ qty \in Nat /\ qty # 0 /\ qty <= m.in.open /\ qty <= t.open
      /\ (o[y].aon => qty = t.open) /\ p \in Nat /\ p # MarketPrice
  BY <1>2, <1>30 DEF TradeArgs, MarketPrice
<1>4. t.id = y /\ t \in Tracker /\ y \in Ids /\ x \in Ids /\ m.in.id = x
  BY <1>1, <1>2, TrackerIs, ListedFacts DEF Inbound
<1>5. PICK cb : cb = FillCallback(m.in, t, qty, p)
  OBVIOUS
<1>6. /\ cb \in Callbacks /\ cb.type = "fill" /\ cb.order = x /\ cb.matched = y /\ cb.qty = qty
      /\ cb.orderFilled = (m.in.open = qty) /\ cb.matchedFilled = (t.open = qty)
  BY <1>3, <1>4, <1>5, FillCallbackIs
<1>7. PICK c \in Nat : c = m.in.open - qty
  <2>1. m.in.open \in Nat
    BY <1>1 DEF Call
  <2> QED BY <2>1, <1>3
<1>8. PICK i : i = [m.in EXCEPT !.open = c]
  OBVIOUS
<1>9. i \in [id : Nat, price : Nat, open : Nat] /\ i.id = x /\ i.price = m.in.price /\ i.open = c
  BY <1>1, <1>4, <1>8 DEF Call
<1>10. PICK bk : bk = Holding(m.book[s], [t EXCEPT !.open = t.open - qty])
  OBVIOUS
<1>11. PICK b : b = [m.book EXCEPT ![s] = bk]
  OBVIOUS
<1>12. PICK q : q = Append(m.queue, cb)
  OBVIOUS
<1>13. PICK n : n = [m EXCEPT !.in = i, !.book = b, !.queue = q]
  OBVIOUS
<1>14. r = SetMarketPrice(n, p)
  <2>1. ~(p = MarketPrice \/ qty = 0)
    BY <1>3
  <2>2. [m EXCEPT !.in.open = @ - qty, !.book[s] = Holding(@, [t EXCEPT !.open = @ - qty]),
                  !.queue = Append(@, FillCallback(m.in, t, qty, p))] = n
    <3>1. [t EXCEPT !.open = @ - qty] = [t EXCEPT !.open = t.open - qty]
      BY <1>4 DEF Tracker
    <3> QED BY <3>1, <1>1, <1>5, <1>7, <1>8, <1>10, <1>11, <1>12, <1>13 DEF Call
  <2> QED BY <2>1, <2>2, <1>2, <1>30 DEF Traded
<1>15. bk \in Seq(Tracker)
  <2>1. PICK v : v = [t EXCEPT !.open = t.open - qty]
    OBVIOUS
  <2>2. v \in Tracker /\ v.id = y
    <3>1. t.open - qty \in Nat
      BY <1>3, <1>4 DEF Tracker
    <3> QED BY <3>1, <2>1, <1>4 DEF Tracker
  <2> QED BY <2>1, <2>2, <1>1, <1>10, HoldingIs DEF Listed
<1>16. b \in [Sides -> Seq(Tracker)] /\ q \in Seq(Callbacks)
  BY <1>1, <1>6, <1>11, <1>12, <1>15 DEF Call
<1>17. /\ n \in Call /\ n.order = m.order /\ n.stops = m.stops /\ n.pending = m.pending
       /\ n.book = b /\ n.queue = q /\ n.in = i /\ n.rest = m.rest
       /\ n.held = m.held /\ n.deferred = m.deferred /\ n.matching = m.matching
       /\ n.parked = m.parked
  BY <1>1, <1>9, <1>13, <1>16 DEF Call
<1>18. PICK u : u = Effect(o, cb)
  OBVIOUS
<1>19. IsTrade(m, o, W, x, s, y, t, qty, cb, u, n)
  BY <1>1, <1>2, <1>3, <1>6, <1>10, <1>11, <1>12, <1>17, <1>18 DEF IsTrade
<1>20. /\ Steady(n, u, W, x) /\ \A z \in Ids : u[z].state = "accepted" => o[z].state = "accepted"
       /\ u[x] = Fill(o[x], qty) /\ o[x] \in Object /\ o[x].filled <= o[x].qty
       /\ \A z \in Ids : u[z].qty = o[z].qty /\ u[z].side = o[z].side /\ u[z].price = o[z].price
       /\ IdsOn(n.book[s]) \subseteq IdsOn(m.book[s])
       /\ IdsOn(m.book[s]) \ {y} \subseteq IdsOn(n.book[s])
       /\ \A z \in IdsOn(m.book[s]) \ {y} : TrackerOf(n.book[s], z) = TrackerOf(m.book[s], z)
       /\ \A d \in Sides \ {s} : n.book[d] = m.book[d]
  BY <1>19, TradeSteady
<1>21. Steady(r, u, W, x) /\ Alike(n, r)
  BY <1>3, <1>14, <1>20, SetMarketPriceIs
<1>22. /\ r.order = m.order /\ r.book = n.book /\ r.queue = q /\ r.in = i /\ r.rest = m.rest
       /\ r.held = m.held /\ r.deferred = m.deferred /\ r.matching = m.matching
       /\ Stock(r) = Stock(n) /\ r.parked = m.parked
  BY <1>17, <1>21 DEF Alike
<1>23. Stock(n) = Stock(m)
  BY <1>17 DEF Stock
<1>24. /\ r.queue[1] = m.queue[1]
       /\ Follows(m.queue, r.queue) /\ OnlyOf(m.queue, r.queue, m.in.id)
  <2>1. m.queue \in Seq(Callbacks) /\ m.queue # <<>>
    BY <1>1 DEF Steady, Call
  <2>2. Len(m.queue) \in Nat /\ Len(m.queue) # 0
    BY <2>1
  <2>3. Follows(m.queue, q) /\ OnlyOf(m.queue, q, x)
    BY <2>1, <1>6, <1>12, AppendFollows
  <2>4. r.queue[1] = m.queue[1]
    BY <2>1, <2>2, <1>6, <1>12, <1>22, AppendProperties
  <2> QED BY <2>3, <2>4, <1>4, <1>22
<1>25. Inbound(r, u, x)
  <2>1. OpenQty(o[x]) = m.in.open /\ o[x].state = "accepted"
    BY <1>1, <1>3 DEF Inbound, Call
  <2>2. /\ OpenQty(u[x]) = m.in.open - qty
        /\ u[x].state = IF m.in.open - qty = 0 THEN "complete" ELSE "accepted"
    BY <2>1, <1>3, <1>20, OrderFillIs
  <2> QED BY <2>2, <1>4, <1>7, <1>9, <1>22 DEF Inbound
<1>26. u[x].side # s
  BY <1>1, <1>4, <1>20
<1>27. Matching(r, u, W, x, s)
  BY <1>1, <1>21, <1>25, <1>26 DEF Matching
<1>28. Trades(m, o, r, u, s)
  BY <1>4, <1>9, <1>20, <1>22, <1>23, <1>24 DEF Trades, Course, Carries
<1>29. OthersKeep(m, r, s, {y})
  BY <1>20, <1>22 DEF OthersKeep
<1>31. Comes(m, o, W, x, s, {y}, r, u)
  BY <1>22, <1>27, <1>28, <1>29 DEF Comes
<1> QED BY <1>7, <1>9, <1>22, <1>31 DEF AfterTrade

\* The least of three quantities.
LEMMA MinIs ==
  ASSUME NEW a \in Nat, NEW b \in Nat, NEW c \in Nat, NEW q, q = Min({a, b, c})
  PROVE  q \in Nat /\ q \in {a, b, c} /\ q <= a /\ q <= b /\ q <= c
<1>1. \E z \in {a, b, c} : \A w \in {a, b, c} : z <= w
  BY SMT
<1>2. q \in {a, b, c} /\ \A w \in {a, b, c} : q <= w
  BY <1>1 DEF Min
<1> QED BY <1>2

\* The inbound order of m is as its object was at the start of the call.
LEMMA SameIs ==
  ASSUME NEW m, NEW o, NEW W, NEW x, Steady(m, o, W, x), NEW z \in Ids
  PROVE  /\ m.order[z].aon = o[z].aon /\ m.order[z].ioc = o[z].ioc
         /\ m.order[z].side = o[z].side /\ m.order[z].stop = o[z].stop
         /\ o[z].aon => m.order[z].price # MarketPrice /\ o[z].price # MarketPrice
         /\ m.order[z] \in Object /\ o[z] \in Object /\ o[z].filled <= o[z].qty
<1>1. Same(m.order, o) /\ m \in Call /\ Objects(o)
  BY DEF Steady, Reached
<1> QED BY <1>1 DEF Same, Call, Objects

\* No trade.
LEMMA TradesSelf ==
  ASSUME NEW m, NEW o, NEW s
  PROVE  Trades(m, o, m, o, s) /\ OthersKeep(m, m, s, {})
BY DEF Trades, Course, Carries, OthersKeep, Follows, OnlyOf

\* Fills after fills.
LEMMA FollowsTrans ==
  ASSUME NEW q, NEW e, NEW r, Follows(q, e), Follows(e, r)
  PROVE  /\ Follows(q, r)
         /\ \A x : OnlyOf(q, e, x) /\ OnlyOf(e, r, x) => OnlyOf(q, r, x)
<1>1. \A i \in DOMAIN r \ DOMAIN q : i \in DOMAIN r \ DOMAIN e \/ (i \in DOMAIN e \ DOMAIN q /\ r[i] = e[i])
  BY DEF Follows
<1>2. Follows(q, r)
  BY <1>1 DEF Follows
<1> QED BY <1>1, <1>2 DEF OnlyOf

\* One trade after the other.
LEMMA TradesTrans ==
  ASSUME NEW m, NEW o, NEW n, NEW u, NEW r, NEW v, NEW s,
         Trades(m, o, n, u, s), Trades(n, u, r, v, s)
  PROVE  Trades(m, o, r, v, s)
<1>1. Follows(m.queue, r.queue) /\ OnlyOf(m.queue, r.queue, m.in.id)
  <2>1. /\ Follows(m.queue, n.queue) /\ OnlyOf(m.queue, n.queue, m.in.id)
        /\ Follows(n.queue, r.queue) /\ OnlyOf(n.queue, r.queue, m.in.id)
    BY DEF Trades, Course, Carries
  <2> QED BY <2>1, FollowsTrans
<1> QED BY <1>1 DEF Trades, Course, Carries

\* A trade of at most maxQty; it may not take place for want of a price.
TradeMax(m, o, W, x, s, y, maxQty) ==
  /\ Matching(m, o, W, x, s)
  /\ y \in IdsOn(m.book[s]) /\ maxQty \in Nat
  /\ o[y].aon => \/ maxQty = 0
                 \/ /\ TrackerOf(m.book[s], y).open <= maxQty
                    /\ TrackerOf(m.book[s], y).open <= m.in.open

IsCreated(m, o, W, x, s, y, maxQty, t, qty, r) ==
  /\ TradeMax(m, o, W, x, s, y, maxQty) /\ t = TrackerOf(m.book[s], y)
  /\ qty = Min({maxQty, m.in.open, t.open}) /\ r = CreateTrade(m, s, y, maxQty)

AfterCreate(m, o, W, x, s, y, qty, r) ==
  \E u : /\ Comes(m, o, W, x, s, {y}, r, u)
         /\ o[x].aon => r.in.open = m.in.open - qty

\* create_trade: the quantity is the least of what both trackers and the caller allow.
LEMMA TradeIs ==
  ASSUME NEW m, NEW o, NEW W, NEW x, NEW s, NEW y, NEW maxQty, NEW t, NEW qty, NEW r,
         IsCreated(m, o, W, x, s, y, maxQty, t, qty, r)
  PROVE  /\ AfterCreate(m, o, W, x, s, y, qty, r)
         /\ qty = 0 => r = m
         /\ qty \in Nat /\ qty <= maxQty /\ qty <= m.in.open /\ qty <= t.open
         /\ qty \in {maxQty, m.in.open, t.open}
<1>9. /\ TradeMax(m, o, W, x, s, y, maxQty) /\ t = TrackerOf(m.book[s], y)
      /\ qty = Min({maxQty, m.in.open, t.open}) /\ r = CreateTrade(m, s, y, maxQty)
  BY DEF IsCreated
<1>1. /\ Matching(m, o, W, x, s) /\ Steady(m, o, W, x) /\ m \in Call /\ y \in IdsOn(m.book[s])
      /\ Listed(m.book[s]) /\ m.in.id = x /\ x \in Ids /\ maxQty \in Nat
  BY <1>9 DEF TradeMax, Matching, Steady, Lists, Inbound
<1>2. t \in Tracker /\ t.id = y /\ y \in Ids /\ t.open \in Nat /\ m.in.open \in Nat
  <2>1. t \in Tracker /\ t.id = y
    BY <1>1, <1>9, TrackerIs
  <2>2. y \in Ids
    BY <1>1, ListedFacts
  <2>3. m.in.open \in Nat /\ t.open \in Nat
    BY <2>1, <1>1 DEF Tracker, Call
  <2> QED BY <2>1, <2>2, <2>3
<1>3. /\ qty \in Nat /\ qty <= maxQty /\ qty <= m.in.open /\ qty <= t.open
      /\ qty \in {maxQty, m.in.open, t.open}
  BY <1>1, <1>2, <1>9, MinIs
<1>4. PICK p : p = CrossPrice(m, t)
  OBVIOUS
<1>5. r = Traded(m, s, t, qty, p)
  BY <1>4, <1>9 DEF CreateTrade
<1>6. p \in Nat /\ (o[x].aon => p # MarketPrice)
  <2>1. m.order[y].price \in Nat /\ m.order[x].price \in Nat /\ m.market \in Nat
    BY <1>1, <1>2, SameIs DEF Call, Object
  <2>2. o[x].aon => m.order[x].price # MarketPrice
    BY <1>1, SameIs
  <2>3. \/ m.order[y].price # MarketPrice /\ p = m.order[y].price
        \/ /\ m.order[y].price = MarketPrice /\ m.order[x].price # MarketPrice
           /\ p = m.order[x].price
        \/ m.order[x].price = MarketPrice /\ p = m.market
    BY <1>1, <1>2, <1>4 DEF CrossPrice
  <2> QED BY <2>1, <2>2, <2>3
<1>7. CASE p = MarketPrice \/ qty = 0
  <2>1. r = m
    BY <1>5, <1>7 DEF Traded
  <2>2. Trades(m, o, r, o, s) /\ OthersKeep(m, r, s, {y})
    BY <2>1, TradesSelf DEF OthersKeep
  <2>3. o[x].aon => r.in.open = m.in.open - qty
    BY <2>1, <1>2, <1>6, <1>7
  <2>4. Comes(m, o, W, x, s, {y}, r, o)
    BY <2>1, <2>2, <1>1 DEF Comes
  <2>5. AfterCreate(m, o, W, x, s, y, qty, r)
    BY <2>3, <2>4 DEF AfterCreate
  <2> QED BY <2>1, <2>5, <1>3
<1>8. CASE ~(p = MarketPrice \/ qty = 0)
  <2>1. o[y].aon => qty = t.open
    BY <1>2, <1>3, <1>8, <1>9 DEF TradeMax
  <2>2. TradeArgs(m, o, W, x, s, y, qty, p)
    BY <2>1, <1>1, <1>3, <1>6, <1>8, <1>9 DEF TradeArgs, MarketPrice
  <2>3. AfterTrade(m, o, W, x, s, y, qty, r)
    <3>1. r = Traded(m, s, TrackerOf(m.book[s], y), qty, p)
      BY <1>5, <1>9
    <3>2. IsTraded(m, o, W, x, s, y, qty, p, r)
      BY <3>1, <2>2 DEF IsTraded
    <3> QED BY <3>2, TradedIs
  <2>4. AfterCreate(m, o, W, x, s, y, qty, r)
    BY <2>3 DEF AfterTrade, AfterCreate
  <2> QED BY <2>4, <1>3, <1>8
<1> QED BY <1>7, <1>8

-----------------------------------------------------------------------------
(* The order m.in.id meets the tracker t.                                  *)

Meeting(m, o, W, x, s, t) ==
  Matching(m, o, W, x, s) /\ t.id \in IdsOn(m.book[s]) /\ t = TrackerOf(m.book[s], t.id)

\* match_regular_order, at one tracker: it is deferred, or trades.
LEMMA MatchRegularIs ==
  ASSUME NEW m, NEW o, NEW W, NEW x, NEW s, NEW t, Meeting(m, o, W, x, s, t),
         NEW r, r = MatchRegular(m, s, t)
  PROVE  \/ r = [m EXCEPT !.deferred = Append(@, t.id)]
         \/ \E u : Comes(m, o, W, x, s, {t.id}, r, u)
<1>1. CASE m.order[t.id].aon /\ t.open > m.in.open
  BY <1>1 DEF MatchRegular
<1>2. CASE ~(m.order[t.id].aon /\ t.open > m.in.open)
  <2>1. /\ Matching(m, o, W, x, s) /\ t.id \in IdsOn(m.book[s]) /\ Steady(m, o, W, x)
        /\ t = TrackerOf(m.book[s], t.id) /\ Listed(m.book[s]) /\ m \in Call
    BY DEF Meeting, Matching, Steady, Lists
  <2>2. t.id \in Ids /\ t.open \in Nat /\ m.in.open \in Nat
    BY <2>1, TrackerIs, ListedFacts DEF Tracker, Call
  <2>3. o[t.id].aon => t.open <= m.in.open
    BY <2>1, <2>2, <1>2, SameIs
  <2>4. TradeMax(m, o, W, x, s, t.id, t.open)
    BY <2>1, <2>2, <2>3 DEF TradeMax
  <2>5. r = CreateTrade(m, s, t.id, t.open)
    BY <1>2 DEF MatchRegular
  <2>6. PICK qty : qty = Min({t.open, m.in.open, t.open})
    OBVIOUS
  <2>7. AfterCreate(m, o, W, x, s, t.id, qty, r)
    <3>1. IsCreated(m, o, W, x, s, t.id, t.open, t, qty, r)
      BY <2>1, <2>4, <2>5, <2>6 DEF IsCreated
    <3> QED BY <3>1, TradeIs
  <2> QED BY <2>7 DEF AfterCreate
<1> QED BY <1>1, <1>2

-----------------------------------------------------------------------------
(* What the held trackers would trade.                                     *)

\* f with a value for k.
Extension(h, k, f, v) ==
  h = [i \in 0 .. k |-> h[i]] /\ h[k] = v /\ \A i \in 0 .. (k - 1) : h[i] = f[i]

\* A run of a loop can be extended by one step.
LEMMA ExtendIs ==
  ASSUME NEW k \in Nat \ {0}, NEW f, NEW v
  PROVE  \E h : Extension(h, k, f, v)
<1>1. PICK h : h = [i \in 0 .. k |-> IF i = k THEN v ELSE f[i]]
  OBVIOUS
<1>2. \A i \in 0 .. k : h[i] = IF i = k THEN v ELSE f[i]
  BY <1>1
<1>3. h[k] = v /\ \A i \in 0 .. (k - 1) : h[i] = f[i]
  BY <1>2
<1>4. h = [i \in 0 .. k |-> h[i]]
  BY <1>1
<1> QED BY <1>3, <1>4 DEF Extension

NoFill == [fills |-> <<>>, found |-> 0]

\* The run of the loop of try_create_deferred_trades that proposes fills.
LEMMA ProposedRun ==
  ASSUME NEW m, NEW s, NEW maxQty, NEW n \in Nat, n = Len(m.held)
  PROVE  \E g : /\ g[0] = NoFill /\ ProposedFills(m, s, maxQty) = g[n]
                /\ \A i \in 1 .. n : g[i] = Propose(m, s, maxQty, g[i - 1], m.held[i])
<1> DEFINE Is(k, f) == f = [i \in 0 .. k |-> IF i = 0 THEN NoFill
                                             ELSE Propose(m, s, maxQty, f[i - 1], m.held[i])]
           Good == {k \in 0 .. n : \E f : Is(k, f)}
<1>1. 0 \in Good
  <2>1. Is(0, [i \in 0 .. 0 |-> NoFill])
    OBVIOUS
  <2>2. \E f : Is(0, f)
    BY <2>1
  <2>3. 0 \in 0 .. n
    OBVIOUS
  <2> QED BY <2>2, <2>3
<1>2. ASSUME NEW k \in 1 .. n, k - 1 \in Good PROVE k \in Good
  <2>1. PICK f : Is(k - 1, f)
    BY <1>2
  <2>2. PICK h : /\ h = [i \in 0 .. k |-> h[i]]
                 /\ h[k] = Propose(m, s, maxQty, f[k - 1], m.held[k])
                 /\ \A i \in 0 .. (k - 1) : h[i] = f[i]
    <3>1. k \in Nat \ {0}
      OBVIOUS
    <3>2. PICK v : v = Propose(m, s, maxQty, f[k - 1], m.held[k])
      OBVIOUS
    <3>3. PICK h : Extension(h, k, f, v)
      BY <3>1, ExtendIs
    <3> QED BY <3>2, <3>3 DEF Extension
  <2>3. \A i \in 0 .. (k - 1) : f[i] = IF i = 0 THEN NoFill
                                       ELSE Propose(m, s, maxQty, f[i - 1], m.held[i])
    BY <2>1
  <2>4. \A i \in 0 .. k : h[i] = IF i = 0 THEN NoFill
                                 ELSE Propose(m, s, maxQty, h[i - 1], m.held[i])
    <3> TAKE i \in 0 .. k
    <3>1. CASE i = k
      BY <3>1, <2>2
    <3>2. CASE i # k
      <4>1. i \in 0 .. (k - 1) /\ (i # 0 => i - 1 \in 0 .. (k - 1))
        BY <3>2
      <4> QED BY <4>1, <2>2, <2>3
    <3> QED BY <3>1, <3>2
  <2>5. Is(k, h)
    BY <2>2, <2>4
  <2> QED BY <2>5
<1>3. n \in Good
  <2> HIDE DEF Good
  <2>1. \A i \in 0 .. n : i \in Good
    BY <1>1, <1>2, Induct
  <2> QED BY <2>1
<1>4. PICK f : f = CHOOSE h : Is(n, h)
  OBVIOUS
<1>5. Is(n, f)
  BY <1>3, <1>4
<1>6. ProposedFills(m, s, maxQty) = f[n]
  BY <1>4 DEF ProposedFills, Fold, NoFill
<1>7. f[0] = NoFill
  BY <1>5
<1>8. \A i \in 1 .. n : f[i] = Propose(m, s, maxQty, f[i - 1], m.held[i])
  BY <1>5
<1> QED BY <1>6, <1>7, <1>8

Fills == [id : Ids, qty : Nat]

\* d is c with q more, of the tracker of id.
Adds(m, s, maxQty, id, c, d, q) ==
  /\ q \in Nat /\ d.found = c.found + q /\ d.found \in 0 .. maxQty
  /\ d.fills = Append(c.fills, [id |-> id, qty |-> q])
  /\ q <= TrackerOf(m.book[s], id).open
  /\ m.order[id].aon => q \in {0, TrackerOf(m.book[s], id).open}

\* A held all-or-none tracker is proposed whole or not at all, and no more than is wanted.
LEMMA ProposeIs ==
  ASSUME NEW m, NEW s, NEW maxQty \in Nat, NEW id, Listed(m.book[s]), id \in IdsOn(m.book[s]),
         NEW c, c.found \in 0 .. maxQty, NEW d, d = Propose(m, s, maxQty, c, id)
  PROVE  \E q : Adds(m, s, maxQty, id, c, d, q)
<1>1. PICK open : open = TrackerOf(m.book[s], id).open
  OBVIOUS
<1>2. open \in Nat
  BY <1>1, TrackerIs DEF Tracker
<1>3. PICK q : q = IF open <= maxQty - c.found THEN open
                   ELSE IF m.order[id].aon THEN 0 ELSE maxQty - c.found
  OBVIOUS
<1>4. /\ q \in Nat /\ q <= open /\ c.found + q \in 0 .. maxQty
      /\ m.order[id].aon => q \in {0, open}
  BY <1>2, <1>3
<1>5. d = [fills |-> Append(c.fills, [id |-> id, qty |-> q]), found |-> c.found + q]
  BY <1>1, <1>3 DEF Propose
<1>6. d.found = c.found + q /\ d.fills = Append(c.fills, [id |-> id, qty |-> q])
  BY <1>5
<1> QED BY <1>1, <1>4, <1>6 DEF Adds

\* What the fills pr found for the held trackers are; P is their running sum.
Proposes(m, s, maxQty, n, pr, P) ==
  /\ P[0] = 0 /\ pr.found = P[n] /\ Len(pr.fills) = n
  /\ \A k \in 0 .. n : P[k] \in 0 .. maxQty
  /\ \A k \in 1 .. n :
       /\ pr.fills[k].id = m.held[k] /\ pr.fills[k].qty = P[k] - P[k - 1]
       /\ P[k - 1] <= P[k] /\ P[k] - P[k - 1] <= TrackerOf(m.book[s], m.held[k]).open
       /\ m.order[m.held[k]].aon =>
            P[k] - P[k - 1] \in {0, TrackerOf(m.book[s], m.held[k]).open}

\* The proposed fills: one for each held tracker, no more than wanted in all.
LEMMA ProposedIs ==
  ASSUME NEW m, NEW s, NEW maxQty \in Nat, NEW n \in Nat, n = Len(m.held), Listed(m.book[s]),
         \A k \in 1 .. n : m.held[k] \in IdsOn(m.book[s]),
         NEW pr, pr = ProposedFills(m, s, maxQty)
  PROVE  \E P : Proposes(m, s, maxQty, n, pr, P)
<1>1. PICK g : /\ g[0] = NoFill /\ pr = g[n]
               /\ \A i \in 1 .. n : g[i] = Propose(m, s, maxQty, g[i - 1], m.held[i])
  BY ProposedRun
<1> DEFINE Made(i) == g[i].found - g[i - 1].found
           At(i) == /\ g[i].found \in 0 .. maxQty
                    /\ g[i].fills \in Seq(Fills) /\ Len(g[i].fills) = i
                    /\ \A j \in 1 .. i : g[i].fills[j] = [id |-> m.held[j], qty |-> Made(j)]
                    /\ i # 0 => /\ g[i - 1].found <= g[i].found
                                /\ Made(i) <= TrackerOf(m.book[s], m.held[i]).open
                                /\ m.order[m.held[i]].aon =>
                                     Made(i) \in {0, TrackerOf(m.book[s], m.held[i]).open}
           Good == {i \in 0 .. n : At(i)}
<1>2. At(0)
  <2>1. g[0].found = 0 /\ g[0].fills = <<>>
    BY <1>1 DEF NoFill
  <2> QED BY <2>1
<1>3. ASSUME NEW i \in 1 .. n, At(i - 1) PROVE At(i)
  <2>1. PICK c : c = g[i - 1]
    OBVIOUS
  <2>2. PICK id : id = m.held[i]
    OBVIOUS
  <2>3. /\ c.found \in 0 .. maxQty /\ c.fills \in Seq(Fills) /\ Len(c.fills) = i - 1
        /\ \A j \in 1 .. (i - 1) : c.fills[j] = [id |-> m.held[j], qty |-> Made(j)]
    BY <1>3, <2>1
  <2>4. g[i] = Propose(m, s, maxQty, c, id) /\ id \in IdsOn(m.book[s]) /\ id \in Ids
    BY <1>1, <2>1, <2>2, ListedFacts
  <2>10. PICK q : Adds(m, s, maxQty, id, c, g[i], q)
    BY <2>3, <2>4, ProposeIs
  <2>5. /\ q \in Nat /\ g[i].found = c.found + q /\ g[i].found \in 0 .. maxQty
        /\ g[i].fills = Append(c.fills, [id |-> id, qty |-> q])
        /\ q <= TrackerOf(m.book[s], id).open
        /\ m.order[id].aon => q \in {0, TrackerOf(m.book[s], id).open}
    BY <2>10 DEF Adds
  <2>6. Made(i) = q /\ c.found <= g[i].found
    BY <2>1, <2>3, <2>5
  <2>7. [id |-> id, qty |-> q] \in Fills
    BY <2>4, <2>5 DEF Fills
  <2>8. /\ g[i].fills \in Seq(Fills) /\ Len(g[i].fills) = i
        /\ g[i].fills[i] = [id |-> id, qty |-> q]
        /\ \A j \in 1 .. (i - 1) : g[i].fills[j] = c.fills[j]
    BY <2>3, <2>5, <2>7, AppendProperties
  <2> HIDE DEF Made
  <2>9. \A j \in 1 .. i : g[i].fills[j] = [id |-> m.held[j], qty |-> Made(j)]
    <3> TAKE j \in 1 .. i
    <3>1. CASE j = i
      BY <3>1, <2>2, <2>6, <2>8
    <3>2. CASE j # i
      BY <3>2, <2>3, <2>8
    <3> QED BY <3>1, <3>2
  <2> QED BY <2>1, <2>2, <2>5, <2>6, <2>8, <2>9
<1>4. ASSUME NEW i \in 0 .. n PROVE At(i)
  <2>1. 0 \in Good /\ \A j \in 1 .. n : j - 1 \in Good => j \in Good
    <3> HIDE DEF At
    <3> QED BY <1>2, <1>3
  <2>2. \A j \in 0 .. n : j \in Good
    <3> HIDE DEF Good
    <3> QED BY <2>1, Induct
  <2> QED BY <2>2
<1>5. PICK P : P = [k \in 0 .. n |-> g[k].found]
  OBVIOUS
<1>6. \A k \in 0 .. n : P[k] = g[k].found
  BY <1>5
<1>7. P[0] = 0 /\ pr.found = P[n] /\ Len(pr.fills) = n
  <2>1. g[0].found = 0
    BY <1>1 DEF NoFill
  <2>2. Len(g[n].fills) = n
    <3>1. At(n)
      <4> HIDE DEF At
      <4> QED BY <1>4
    <3> QED BY <3>1
  <2> QED BY <2>1, <2>2, <1>1, <1>6
<1>8. \A k \in 0 .. n : P[k] \in 0 .. maxQty
  BY <1>4, <1>6
<1>9. ASSUME NEW k \in 1 .. n
      PROVE  /\ pr.fills[k].id = m.held[k] /\ pr.fills[k].qty = P[k] - P[k - 1]
             /\ P[k - 1] <= P[k] /\ P[k] - P[k - 1] <= TrackerOf(m.book[s], m.held[k]).open
             /\ m.order[m.held[k]].aon =>
                  P[k] - P[k - 1] \in {0, TrackerOf(m.book[s], m.held[k]).open}
  <2>1. k - 1 \in 0 .. n /\ k \in 0 .. n /\ n \in 0 .. n
    OBVIOUS
  <2>2. P[k] = g[k].found /\ P[k - 1] = g[k - 1].found /\ Made(k) = P[k] - P[k - 1]
    BY <2>1, <1>6
  <2>3. At(n) /\ At(k)
    <3> HIDE DEF At
    <3> QED BY <2>1, <1>4
  <2> HIDE DEF Made
  <2>4. pr.fills[k] = [id |-> m.held[k], qty |-> Made(k)]
    BY <2>3, <1>1
  <2> QED BY <2>2, <2>3, <2>4
<1> QED BY <1>7, <1>8, <1>9 DEF Proposes

Held(m) == Range(m.held)

\* Trades with the trackers Y, then with the trackers Z.
LEMMA ComesTrans ==
  ASSUME NEW m, NEW o, NEW W, NEW x, NEW s, NEW Y, NEW n, NEW u, NEW Z, NEW r, NEW v,
         Comes(m, o, W, x, s, Y, n, u), Comes(n, u, W, x, s, Z, r, v)
  PROVE  Comes(m, o, W, x, s, Y \union Z, r, v)
<1>1. Trades(m, o, r, v, s)
  BY TradesTrans DEF Comes
<1>2. OthersKeep(m, r, s, Y \union Z)
  <2>1. OthersKeep(m, n, s, Y) /\ OthersKeep(n, r, s, Z)
    BY DEF Comes
  <2>2. ASSUME NEW z \in IdsOn(m.book[s]) \ (Y \union Z)
        PROVE  z \in IdsOn(r.book[s]) /\ TrackerOf(r.book[s], z) = TrackerOf(m.book[s], z)
    <3>1. z \in IdsOn(n.book[s]) /\ TrackerOf(n.book[s], z) = TrackerOf(m.book[s], z)
      BY <2>1 DEF OthersKeep
    <3> QED BY <3>1, <2>1 DEF OthersKeep
  <2> QED BY <2>2 DEF OthersKeep
<1> QED BY <1>1, <1>2 DEF Comes

\* The run of the loop of try_create_deferred_trades that makes the trades.
LEMMA TradeHeldRun ==
  ASSUME NEW m, NEW s, NEW pr, NEW minQty, NEW n \in Nat, n = Len(pr.fills),
         ~(pr.found < minQty)
  PROVE  \E g : /\ g[0] = m /\ TradeHeld(m, s, pr, minQty) = g[n]
                /\ \A i \in 1 .. n : g[i] = CreateTrade(g[i - 1], s, pr.fills[i].id, pr.fills[i].qty)
<1> DEFINE Is(k, f) ==
             f = [i \in 0 .. k |-> IF i = 0 THEN m
                                   ELSE CreateTrade(f[i - 1], s, pr.fills[i].id, pr.fills[i].qty)]
           Good == {k \in 0 .. n : \E f : Is(k, f)}
<1>1. 0 \in Good
  <2>1. Is(0, [i \in 0 .. 0 |-> m])
    OBVIOUS
  <2>2. \E f : Is(0, f)
    BY <2>1
  <2>3. 0 \in 0 .. n
    OBVIOUS
  <2> QED BY <2>2, <2>3
<1>2. ASSUME NEW k \in 1 .. n, k - 1 \in Good PROVE k \in Good
  <2>1. PICK f : Is(k - 1, f)
    BY <1>2
  <2>2. PICK v : v = CreateTrade(f[k - 1], s, pr.fills[k].id, pr.fills[k].qty)
    OBVIOUS
  <2>3. k \in Nat \ {0}
    OBVIOUS
  <2>4. PICK h : Extension(h, k, f, v)
    BY <2>3, ExtendIs
  <2>5. h = [i \in 0 .. k |-> h[i]] /\ h[k] = v /\ \A i \in 0 .. (k - 1) : h[i] = f[i]
    BY <2>4 DEF Extension
  <2>6. \A i \in 0 .. (k - 1) :
          f[i] = IF i = 0 THEN m ELSE CreateTrade(f[i - 1], s, pr.fills[i].id, pr.fills[i].qty)
    BY <2>1
  <2>7. \A i \in 0 .. k :
          h[i] = IF i = 0 THEN m ELSE CreateTrade(h[i - 1], s, pr.fills[i].id, pr.fills[i].qty)
    <3> TAKE i \in 0 .. k
    <3>1. CASE i = k
      <4>1. h[i] = v /\ k - 1 \in 0 .. (k - 1) /\ i # 0 /\ i - 1 = k - 1
        BY <3>1, <2>5
      <4>2. h[i - 1] = f[k - 1]
        BY <4>1, <2>5
      <4> QED BY <4>1, <4>2, <3>1, <2>2
    <3>2. CASE i # k
      <4>1. i \in 0 .. (k - 1) /\ (i # 0 => i - 1 \in 0 .. (k - 1))
        BY <3>2
      <4>2. h[i] = f[i] /\ (i # 0 => h[i - 1] = f[i - 1])
        BY <4>1, <2>5
      <4>3. CASE i = 0
        BY <4>1, <4>2, <4>3, <2>6
      <4>4. CASE i # 0
        <5>1. f[i] = CreateTrade(f[i - 1], s, pr.fills[i].id, pr.fills[i].qty)
          BY <4>1, <4>4, <2>6
        <5> QED BY <5>1, <4>2, <4>4
      <4> QED BY <4>3, <4>4
    <3> QED BY <3>1, <3>2
  <2>8. \E g : Is(k, g)
    BY <2>5, <2>7
  <2>9. k \in 0 .. n
    OBVIOUS
  <2> QED BY <2>8, <2>9
<1>3. n \in Good
  <2> HIDE DEF Good
  <2>1. \A i \in 0 .. n : i \in Good
    BY <1>1, <1>2, Induct
  <2> QED BY <2>1
<1>4. PICK f : f = CHOOSE h : Is(n, h)
  OBVIOUS
<1>5. Is(n, f)
  BY <1>3, <1>4
<1>6. TradeHeld(m, s, pr, minQty) = f[n]
  BY <1>4 DEF TradeHeld, Fold
<1>7. f[0] = m
  BY <1>5
<1>8. \A i \in 1 .. n : f[i] = CreateTrade(f[i - 1], s, pr.fills[i].id, pr.fills[i].qty)
  BY <1>5
<1> QED BY <1>6, <1>7, <1>8

\* An attempt to trade with the held trackers, and what it comes to.
Trying(m, o, W, x, s, maxQty, minQty) ==
  /\ Matching(m, o, W, x, s) /\ o[x].aon
  /\ IsInjective(m.held) /\ Held(m) \subseteq IdsOn(m.book[s])
  /\ maxQty \in Nat /\ maxQty <= m.in.open /\ minQty \in Nat
Tried(m, o, W, x, s, maxQty, minQty, r, g) ==
  /\ g \in 0 .. maxQty
  /\ (g = 0 /\ r = m) \/ minQty <= g
  /\ r.in.open = m.in.open - g
  /\ \E u : Comes(m, o, W, x, s, Held(m), r, u)

\* try_create_deferred_trades: nothing is traded, or at least what is needed.
LEMMA TryDeferredIs ==
  ASSUME NEW m, NEW o, NEW W, NEW x, NEW s, NEW maxQty, NEW minQty,
         Trying(m, o, W, x, s, maxQty, minQty),
         NEW r, r = TryDeferred(m, s, maxQty, minQty)
  PROVE  \E g : Tried(m, o, W, x, s, maxQty, minQty, r, g)
<1>1. /\ Matching(m, o, W, x, s) /\ Steady(m, o, W, x) /\ m \in Call /\ o[x].aon
      /\ Listed(m.book[s]) /\ x \in Ids /\ maxQty \in Nat /\ maxQty <= m.in.open
      /\ minQty \in Nat
  BY DEF Trying, Matching, Steady, Lists, Inbound
<1>2. PICK n \in Nat : n = Len(m.held) /\ DOMAIN m.held = 1 .. n
  BY <1>1 DEF Call
<1>3. \A k \in 1 .. n : m.held[k] \in IdsOn(m.book[s]) /\ m.held[k] \in Held(m)
  BY <1>2 DEF Trying, Held, Range
<1>4. PICK pr : pr = ProposedFills(m, s, maxQty)
  OBVIOUS
<1>5. PICK P : Proposes(m, s, maxQty, n, pr, P)
  BY <1>1, <1>2, <1>3, <1>4, ProposedIs
<1>6. r = TradeHeld(m, s, pr, minQty)
  BY <1>4 DEF TryDeferred
<1>7. m.in.open \in Nat
  BY <1>1 DEF Call
<1>8. Comes(m, o, W, x, s, {}, m, o)
  BY <1>1, TradesSelf DEF Comes
<1>9. CASE pr.found < minQty
  <2>1. r = m
    BY <1>6, <1>9 DEF TradeHeld
  <2>2. Comes(m, o, W, x, s, Held(m), r, o)
    BY <2>1, <1>8 DEF Comes, OthersKeep
  <2>3. 0 \in 0 .. maxQty /\ r.in.open = m.in.open - 0
    BY <2>1, <1>1, <1>7
  <2>4. Tried(m, o, W, x, s, maxQty, minQty, r, 0)
    BY <2>1, <2>2, <2>3 DEF Tried
  <2> QED BY <2>4
<1>10. CASE ~(pr.found < minQty)
  <2>1. /\ P[0] = 0 /\ pr.found = P[n] /\ Len(pr.fills) = n
        /\ \A k \in 0 .. n : P[k] \in 0 .. maxQty
    BY <1>5 DEF Proposes
  <2>2. PICK f : /\ f[0] = m /\ r = f[n]
                 /\ \A i \in 1 .. n : f[i] = CreateTrade(f[i - 1], s, pr.fills[i].id, pr.fills[i].qty)
    BY <2>1, <1>6, <1>10, TradeHeldRun
  <2> DEFINE Y(i) == {m.held[j] : j \in 1 .. i}
             At(i) == /\ f[i].in.open = m.in.open - P[i]
                      /\ \E u : Comes(m, o, W, x, s, Y(i), f[i], u)
             Good == {i \in 0 .. n : At(i)}
  <2>3. At(0)
    <3>1. Y(0) = {}
      OBVIOUS
    <3> HIDE DEF Y
    <3>2. f[0].in.open = m.in.open - P[0]
      BY <2>1, <2>2, <1>7
    <3>3. Comes(m, o, W, x, s, Y(0), f[0], o)
      BY <3>1, <2>2, <1>8
    <3> QED BY <3>2, <3>3
  <2>4. ASSUME NEW i \in 1 .. n, At(i - 1) PROVE At(i)
    <3>1. PICK u : Comes(m, o, W, x, s, Y(i - 1), f[i - 1], u)
      BY <2>4
    <3>2. PICK c : c = f[i - 1]
      OBVIOUS
    <3>3. PICK y : y = m.held[i]
      OBVIOUS
    <3>4. PICK q : q = P[i] - P[i - 1]
      OBVIOUS
    <3>5. /\ pr.fills[i].id = y /\ pr.fills[i].qty = q
          /\ P[i - 1] <= P[i] /\ q <= TrackerOf(m.book[s], y).open
          /\ m.order[y].aon => q \in {0, TrackerOf(m.book[s], y).open}
      BY <1>5, <3>3, <3>4 DEF Proposes
    <3>6. i - 1 \in 0 .. n /\ i \in 0 .. n
      OBVIOUS
    <3>7. P[i] \in 0 .. maxQty /\ P[i - 1] \in 0 .. maxQty
      BY <3>6, <2>1
    <3>8. q \in Nat /\ c.in.open = m.in.open - P[i - 1]
      BY <3>2, <3>4, <3>5, <3>7, <2>4
    <3>9. q <= c.in.open /\ c.in.open - q = m.in.open - P[i] /\ c.in.open \in Nat
      BY <3>4, <3>7, <3>8, <1>1, <1>7
    <3>10. /\ Matching(c, u, W, x, s) /\ OthersKeep(m, c, s, Y(i - 1)) /\ c.order = m.order
           /\ Comes(m, o, W, x, s, Y(i - 1), c, u)
      BY <3>1, <3>2 DEF Comes, Trades, Course, Carries
    <3>11. y \notin Y(i - 1) /\ y \in IdsOn(m.book[s])
      <4>1. IsInjective(m.held)
        BY DEF Trying
      <4>2. ASSUME NEW j \in 1 .. (i - 1) PROVE m.held[j] # y
        <5>1. j \in 1 .. n /\ j # i
          OBVIOUS
        <5> QED BY <5>1, <4>1, <3>3, <1>2 DEF IsInjective
      <4> QED BY <4>2, <1>3, <3>3
    <3>12. PICK t : t = TrackerOf(m.book[s], y)
      OBVIOUS
    <3> HIDE DEF Y
    <3>13. y \in IdsOn(c.book[s]) /\ t = TrackerOf(c.book[s], y)
      BY <3>10, <3>11, <3>12 DEF OthersKeep
    <3>14. Steady(c, u, W, x) /\ y \in Ids /\ t.open \in Nat
      <4>1. y \in Ids
        BY <3>11, <1>1, ListedFacts
      <4>2. t \in Tracker
        BY <3>11, <3>12, <1>1, TrackerIs
      <4> QED BY <4>1, <4>2, <3>10 DEF Matching, Tracker
    <3>15. u[y].aon => q = 0 \/ (t.open <= q /\ t.open <= c.in.open)
      <4>1. u[y].aon = m.order[y].aon
        BY <3>10, <3>14, SameIs
      <4> QED BY <4>1, <3>5, <3>9, <3>12, <3>14
    <3>16. TradeMax(c, u, W, x, s, y, q)
      BY <3>8, <3>10, <3>13, <3>15 DEF TradeMax
    <3>17. PICK k : k = Min({q, c.in.open, t.open})
      OBVIOUS
    <3>18. k = q
      <4>1. k \in {q, c.in.open, t.open} /\ k <= q
        BY <3>8, <3>9, <3>14, <3>17, MinIs
      <4> QED BY <4>1, <3>5, <3>8, <3>9, <3>12, <3>14
    <3>19. f[i] = CreateTrade(c, s, y, q)
      BY <2>2, <3>2, <3>5
    <3>20. IsCreated(c, u, W, x, s, y, q, t, k, f[i])
      BY <3>13, <3>16, <3>17, <3>19 DEF IsCreated
    <3>21. AfterCreate(c, u, W, x, s, y, k, f[i])
      BY <3>20, TradeIs
    <3>22. PICK v : Comes(c, u, W, x, s, {y}, f[i], v) /\ (u[x].aon => f[i].in.open = c.in.open - k)
      BY <3>21 DEF AfterCreate
    <3>23. u[x].aon
      <4>1. u[x].aon = m.order[x].aon
        BY <3>10, <3>14, <1>1, SameIs
      <4>2. o[x].aon = m.order[x].aon
        BY <1>1, SameIs
      <4> QED BY <4>1, <4>2, <1>1
    <3>24. Comes(m, o, W, x, s, Y(i - 1) \union {y}, f[i], v)
      BY <3>10, <3>22, ComesTrans
    <3>25. Y(i) = Y(i - 1) \union {y}
      <4>1. \A j : j \in 1 .. i <=> j \in 1 .. (i - 1) \/ j = i
        OBVIOUS
      <4> QED BY <4>1, <3>3 DEF Y
    <3> QED BY <3>9, <3>18, <3>22, <3>23, <3>24, <3>25
  <2>5. At(n)
    <3> HIDE DEF At
    <3>1. 0 \in Good /\ \A j \in 1 .. n : j - 1 \in Good => j \in Good
      BY <2>3, <2>4
    <3>2. \A j \in 0 .. n : j \in Good
      <4> HIDE DEF Good
      <4> QED BY <3>1, Induct
    <3>3. n \in 0 .. n
      OBVIOUS
    <3> QED BY <3>2, <3>3
  <2>6. Y(n) = Held(m)
    BY <1>2 DEF Held, Range
  <2> HIDE DEF Y
  <2>7. P[n] \in 0 .. maxQty /\ minQty <= P[n]
    BY <2>1, <1>1, <1>10
  <2>8. Tried(m, o, W, x, s, maxQty, minQty, r, P[n])
    BY <2>2, <2>5, <2>6, <2>7 DEF Tried
  <2> QED BY <2>8
<1> QED BY <1>9, <1>10

MeetingAon(m, o, W, x, s, t) ==
  /\ Meeting(m, o, W, x, s, t) /\ o[x].aon
  /\ IsInjective(m.held) /\ Held(m) \subseteq IdsOn(m.book[s]) \ {t.id}

\* Once the held trackers have traded, r is d, or the inbound order is filled.
CompleteArgs(m, o, W, x, s, t, need, short, aon, maxQty, d, g) ==
  /\ MeetingAon(m, o, W, x, s, t)
  /\ need = m.in.open /\ aon = m.order[t.id].aon
  /\ short = IF need > t.open THEN need - t.open ELSE 0
  /\ maxQty = IF aon THEN short ELSE need
  /\ aon => t.open <= need
  /\ Tried(m, o, W, x, s, maxQty, short, d, g)
Filled(m, o, W, x, s, t, r) ==
  r.in.open = 0 /\ \E u : Comes(m, o, W, x, s, Held(m) \union {t.id}, r, u)

\* The held trackers and this one fill the inbound order, or nothing is traded at all.
LEMMA CompleteIs ==
  ASSUME NEW m, NEW o, NEW W, NEW x, NEW s, NEW t, NEW need, NEW short, NEW aon, NEW maxQty,
         NEW d, NEW g, CompleteArgs(m, o, W, x, s, t, need, short, aon, maxQty, d, g),
         NEW r, r = Complete(d, s, t, need, short, aon)
  PROVE  r = m \/ Filled(m, o, W, x, s, t, r)
<1>1. /\ Matching(m, o, W, x, s) /\ Steady(m, o, W, x) /\ m \in Call /\ o[x].aon
      /\ Listed(m.book[s]) /\ x \in Ids /\ t.id \in IdsOn(m.book[s])
      /\ t = TrackerOf(m.book[s], t.id) /\ t.id \notin Held(m)
  BY DEF CompleteArgs, MeetingAon, Meeting, Matching, Steady, Lists, Inbound
<1>2. /\ need = m.in.open /\ aon = m.order[t.id].aon
      /\ short = (IF need > t.open THEN need - t.open ELSE 0)
      /\ maxQty = (IF aon THEN short ELSE need)
      /\ (aon => t.open <= need)
  BY DEF CompleteArgs
<1>3. /\ g \in 0 .. maxQty /\ ((g = 0 /\ d = m) \/ short <= g) /\ d.in.open = need - g
  BY <1>2 DEF CompleteArgs, Tried
<1>4. PICK u : Comes(m, o, W, x, s, Held(m), d, u)
  BY DEF CompleteArgs, Tried
<1>5. t.open \in Nat /\ t.id \in Ids /\ need \in Nat
  <2>1. t \in Tracker
    BY <1>1, TrackerIs
  <2>2. t.id \in Ids
    BY <1>1, ListedFacts
  <2> QED BY <2>1, <2>2, <1>1, <1>2 DEF Tracker, Call
<1>6. short \in Nat /\ maxQty \in Nat /\ short <= need /\ maxQty <= need
  BY <1>2, <1>5
<1>7. need - d.in.open = g /\ d.in.open \in Nat
  BY <1>3, <1>5, <1>6
<1> DEFINE ok == (aon /\ g = short) \/ (~aon /\ need <= t.open + g)
<1>9. r = IF ok THEN CreateTrade(d, s, t.id, t.open) ELSE d
  BY <1>7 DEF Complete
<1>10. CASE ~ok
  <2>1. g = 0 /\ d = m
    <3>1. CASE aon
      <4>1. maxQty = short /\ g # short
        BY <3>1, <1>2, <1>10
      <4>2. ~(short <= g)
        BY <4>1, <1>3, <1>6
      <4> QED BY <4>2, <1>3
    <3>2. CASE ~aon
      <4>1. ~(need <= t.open + g) /\ g \in Nat
        BY <3>2, <1>3, <1>6, <1>10
      <4>2. short = need - t.open
        BY <4>1, <1>2, <1>5
      <4>3. ~(short <= g)
        BY <4>1, <4>2, <1>5
      <4> QED BY <4>3, <1>3
    <3> QED BY <3>1, <3>2
  <2> QED BY <2>1, <1>9, <1>10
<1>11. CASE ok
  <2>1. d.in.open <= t.open /\ (aon => t.open <= d.in.open)
    <3>1. CASE aon
      <4>1. g = short /\ t.open <= need
        BY <3>1, <1>2, <1>11
      <4> QED BY <4>1, <1>2, <1>3, <1>5
    <3>2. CASE ~aon
      <4>1. need <= t.open + g /\ g \in Nat /\ d.in.open = need - g
        BY <3>2, <1>3, <1>6, <1>11
      <4> QED BY <4>1, <3>2, <1>5
    <3> QED BY <3>1, <3>2
  <2>2. /\ Matching(d, u, W, x, s) /\ Steady(d, u, W, x) /\ d.order = m.order
        /\ t.id \in IdsOn(d.book[s]) /\ t = TrackerOf(d.book[s], t.id)
    BY <1>1, <1>4 DEF Comes, Matching, Trades, Course, Carries, OthersKeep
  <2>3. u[t.id].aon = aon /\ u[x].aon
    <3>1. u[t.id].aon = m.order[t.id].aon /\ u[x].aon = m.order[x].aon
      BY <2>2, <1>1, <1>5, SameIs
    <3>2. o[x].aon = m.order[x].aon
      BY <1>1, SameIs
    <3> QED BY <3>1, <3>2, <1>1, <1>2
  <2>4. TradeMax(d, u, W, x, s, t.id, t.open)
    BY <2>1, <2>2, <2>3, <1>5 DEF TradeMax
  <2>5. PICK k : k = Min({t.open, d.in.open, t.open})
    OBVIOUS
  <2>6. k = d.in.open
    <3>1. k \in {t.open, d.in.open, t.open} /\ k <= t.open /\ k <= d.in.open
      BY <2>5, <1>5, <1>7, MinIs
    <3> QED BY <3>1, <2>1, <1>5, <1>7
  <2>7. IsCreated(d, u, W, x, s, t.id, t.open, t, k, r)
    BY <2>2, <2>4, <2>5, <1>9, <1>11 DEF IsCreated
  <2>8. AfterCreate(d, u, W, x, s, t.id, k, r)
    BY <2>7, TradeIs
  <2>9. PICK v : Comes(d, u, W, x, s, {t.id}, r, v) /\ r.in.open = d.in.open - k
    BY <2>3, <2>8 DEF AfterCreate
  <2>10. r.in.open = 0
    BY <2>6, <2>9, <1>7
  <2>11. Comes(m, o, W, x, s, Held(m) \union {t.id}, r, v)
    BY <2>9, <1>4, ComesTrans
  <2> QED BY <2>10, <2>11 DEF Filled
<1> QED BY <1>10, <1>11

\* match_aon_order, at one tracker: it is deferred or held, or the inbound order is filled.
LEMMA MatchAonIs ==
  ASSUME NEW m, NEW o, NEW W, NEW x, NEW s, NEW t, MeetingAon(m, o, W, x, s, t),
         NEW r, r = MatchAon(m, s, t)
  PROVE  \/ r = m \/ r = [m EXCEPT !.deferred = Append(@, t.id)]
         \/ r = [m EXCEPT !.held = Append(@, t.id)]
         \/ Filled(m, o, W, x, s, t, r)
<1>1. PICK need : need = m.in.open
  OBVIOUS
<1>2. PICK aon : aon = m.order[t.id].aon
  OBVIOUS
<1>3. PICK short : short = IF need > t.open THEN need - t.open ELSE 0
  OBVIOUS
<1>4. PICK maxQty : maxQty = IF aon THEN short ELSE need
  OBVIOUS
<1>5. PICK d : d = TryDeferred(m, s, maxQty, short)
  OBVIOUS
<1>6. \/ aon /\ t.open > need /\ r = [m EXCEPT !.deferred = Append(@, t.id)]
      \/ r = [m EXCEPT !.held = Append(@, t.id)]
      \/ ~(aon /\ t.open > need) /\ r = Complete(d, s, t, need, short, aon)
  BY <1>1, <1>2, <1>3, <1>4, <1>5 DEF MatchAon
<1>7. CASE ~(aon /\ t.open > need) /\ r = Complete(d, s, t, need, short, aon)
  <2>1. /\ Matching(m, o, W, x, s) /\ m \in Call /\ Listed(m.book[s])
        /\ t.id \in IdsOn(m.book[s]) /\ t = TrackerOf(m.book[s], t.id)
        /\ o[x].aon /\ IsInjective(m.held) /\ Held(m) \subseteq IdsOn(m.book[s])
    BY DEF MeetingAon, Meeting, Matching, Steady, Lists
  <2>2. t.open \in Nat /\ need \in Nat
    <3>1. t \in Tracker
      BY <2>1, TrackerIs
    <3> QED BY <3>1, <2>1, <1>1 DEF Tracker, Call
  <2>3. short \in Nat /\ maxQty \in Nat /\ maxQty <= need /\ (aon => t.open <= need)
    BY <2>2, <1>3, <1>4, <1>7
  <2>4. Trying(m, o, W, x, s, maxQty, short)
    BY <2>1, <2>3, <1>1 DEF Trying
  <2>5. PICK g : Tried(m, o, W, x, s, maxQty, short, d, g)
    BY <2>4, <1>5, TryDeferredIs
  <2>6. CompleteArgs(m, o, W, x, s, t, need, short, aon, maxQty, d, g)
    BY <2>3, <2>5, <1>1, <1>2, <1>3, <1>4 DEF CompleteArgs
  <2>7. r = m \/ Filled(m, o, W, x, s, t, r)
    BY <2>6, <1>7, CompleteIs
  <2> QED BY <2>7
<1> QED BY <1>6, <1>7

-----------------------------------------------------------------------------
(* The inbound order against a side.                                       *)

\* One more element, which was not there.
LEMMA AppendIs ==
  ASSUME NEW S, NEW q \in Seq(S), NEW e \in S, e \notin Range(q), IsInjective(q)
  PROVE  /\ Append(q, e) \in Seq(S) /\ IsInjective(Append(q, e))
         /\ Range(Append(q, e)) = Range(q) \union {e}
<1>1. PICK n \in Nat : n = Len(q) /\ DOMAIN q = 1 .. n
  OBVIOUS
<1>2. PICK u : u = Append(q, e)
  OBVIOUS
<1>3. /\ u \in Seq(S) /\ Len(u) = n + 1 /\ u[n + 1] = e /\ \A i \in 1 .. n : u[i] = q[i]
  BY <1>1, <1>2, AppendProperties
<1>4. DOMAIN u = 1 .. (n + 1)
  BY <1>3
<1>5. \A i \in 1 .. n : u[i] \in Range(q)
  BY <1>1, <1>3 DEF Range
<1>6. ASSUME NEW i \in DOMAIN u, NEW j \in DOMAIN u, u[i] = u[j] PROVE i = j
  <2>1. CASE i = n + 1 \/ j = n + 1
    <3>1. \A k \in DOMAIN u : k # n + 1 => u[k] # e
      BY <1>4, <1>5
    <3> QED BY <3>1, <2>1, <1>3, <1>6
  <2>2. CASE i # n + 1 /\ j # n + 1
    <3>1. i \in 1 .. n /\ j \in 1 .. n /\ q[i] = q[j]
      BY <2>2, <1>3, <1>4, <1>6
    <3> QED BY <3>1, <1>1 DEF IsInjective
  <2> QED BY <2>1, <2>2
<1>7. Range(u) \subseteq Range(q) \union {e}
  <2>1. ASSUME NEW i \in DOMAIN u PROVE u[i] \in Range(q) \union {e}
    BY <1>3, <1>4, <1>5
  <2> QED BY <2>1 DEF Range
<1>8. Range(q) \union {e} \subseteq Range(u)
  <2>1. e \in Range(u)
    <3>1. n + 1 \in DOMAIN u
      BY <1>4
    <3> QED BY <3>1, <1>3 DEF Range
  <2>2. ASSUME NEW i \in 1 .. n PROVE q[i] \in Range(u)
    <3>1. i \in DOMAIN u /\ u[i] = q[i]
      BY <1>3, <1>4
    <3> QED BY <3>1 DEF Range
  <2>3. \A z \in Range(q) : z \in Range(u)
    BY <2>2, <1>1 DEF Range
  <2> QED BY <2>1, <2>3
<1> QED BY <1>2, <1>3, <1>6, <1>7, <1>8 DEF IsInjective

\* m and r are the same but for what the loop remembers.
Beside(m, r) ==
  /\ r \in Call /\ r.order = m.order /\ r.book = m.book /\ r.stops = m.stops
  /\ r.queue = m.queue /\ r.pending = m.pending /\ r.in = m.in /\ r.rest = m.rest
  /\ r.parked = m.parked

\* What the loop of the matching remembers is no part of the trades.
LEMMA BesideIs ==
  ASSUME NEW m, NEW o, NEW W, NEW x, NEW s, Matching(m, o, W, x, s), NEW r, Beside(m, r)
  PROVE  Matching(r, o, W, x, s) /\ Trades(m, o, r, o, s) /\ OthersKeep(m, r, s, {})
<1>1. Steady(r, o, W, x)
  BY DEF Matching, Beside, Steady
<1>2. Inbound(r, o, x)
  BY DEF Matching, Beside, Inbound
<1>3. Stock(r) = Stock(m) /\ Follows(m.queue, r.queue) /\ OnlyOf(m.queue, r.queue, m.in.id)
  BY DEF Beside, Stock, Follows, OnlyOf
<1> QED BY <1>1, <1>2, <1>3 DEF Matching, Beside, Trades, Course, Carries, OthersKeep

\* What the loop keeps of the trackers ts it visits; it has visited i of them.
Sorted(n, ts, i, s) ==
  /\ IsInjective(n.held) /\ IsInjective(n.deferred)
  /\ Held(n) \intersect Range(n.deferred) = {}
  /\ \A id \in Held(n) \union Range(n.deferred) : \E j \in 1 .. i : id = ts[j].id
  /\ n.in.open # 0 => Held(n) \subseteq IdsOn(n.book[s])
  /\ Range(n.deferred) \subseteq IdsOn(n.book[s])
  /\ \A j \in (i + 1) .. Len(ts) :
       ts[j].id \in IdsOn(n.book[s]) /\ ts[j] = TrackerOf(n.book[s], ts[j].id)

\* The loop at n, i trackers from m.
Visited(m, o, W, x, s, n, i) ==
  /\ n \in Call
  /\ Sorted(n, m.book[s], i, s)
  /\ o[x].aon => n.in.open \in {0, m.in.open}
  /\ \E u : Matching(n, u, W, x, s) /\ Trades(m, o, n, u, s)

\* The loop at n meets t, the tracker at i.
AtVisit(m, o, W, x, s, n, i, t) ==
  /\ Matching(m, o, W, x, s) /\ i \in 1 .. Len(m.book[s]) /\ t = m.book[s][i]
  /\ Visited(m, o, W, x, s, n, i - 1)

\* A tracker the loop has not reached is neither held nor deferred, and still on the market.
LEMMA NotSeen ==
  ASSUME NEW m, NEW o, NEW W, NEW x, NEW s, NEW n, NEW i, NEW t,
         AtVisit(m, o, W, x, s, n, i, t)
  PROVE  /\ t.id \notin Held(n) /\ t.id \notin Range(n.deferred)
         /\ t.id \in IdsOn(n.book[s]) /\ t = TrackerOf(n.book[s], t.id)
         /\ \A j \in (i + 1) .. Len(m.book[s]) :
              /\ m.book[s][j].id \notin Held(n) /\ m.book[s][j].id \notin Range(n.deferred)
              /\ m.book[s][j].id # t.id
<1>1. PICK ts : ts = m.book[s]
  OBVIOUS
<1>2. Listed(ts) /\ i \in 1 .. Len(ts) /\ t = ts[i] /\ Sorted(n, ts, i - 1, s)
  BY <1>1 DEF AtVisit, Matching, Steady, Lists, Visited
<1>3. PICK k \in Nat : k = Len(ts) /\ DOMAIN ts = 1 .. k
  BY <1>2, ListedFacts
<1>4. ASSUME NEW j \in i .. k
      PROVE  ts[j].id \notin Held(n) /\ ts[j].id \notin Range(n.deferred)
  <2>1. ASSUME NEW l \in 1 .. (i - 1), ts[j].id = ts[l].id PROVE FALSE
    <3>1. j \in DOMAIN ts /\ l \in DOMAIN ts /\ j # l
      BY <1>2, <1>3
    <3> QED BY <3>1, <2>1, <1>2, ListedFacts
  <2> QED BY <2>1, <1>2 DEF Sorted
<1>5. ASSUME NEW j \in (i + 1) .. k PROVE ts[j].id # ts[i].id
  <2>1. j \in DOMAIN ts /\ i \in DOMAIN ts /\ j # i
    BY <1>2, <1>3
  <2> QED BY <2>1, <1>2, ListedFacts
<1>6. t.id \in IdsOn(n.book[s]) /\ t = TrackerOf(n.book[s], t.id)
  <2>1. i \in ((i - 1) + 1) .. Len(ts)
    BY <1>2, <1>3
  <2> QED BY <2>1, <1>2 DEF Sorted
<1>7. i \in i .. k /\ \A j \in (i + 1) .. k : j \in i .. k
  BY <1>2, <1>3
<1> QED BY <1>1, <1>2, <1>3, <1>4, <1>5, <1>6, <1>7

\* The tracker only joins what the loop remembers.
VisitKeeps(n, r, t) ==
  /\ Beside(n, r)
  /\ \/ r.held = n.held /\ r.deferred = n.deferred
     \/ r.held = Append(n.held, t.id) /\ r.deferred = n.deferred
     \/ r.held = n.held /\ r.deferred = Append(n.deferred, t.id)

\* A tracker that joins the held or the deferred ones.
LEMMA VisitKept ==
  ASSUME NEW m, NEW o, NEW W, NEW x, NEW s, NEW n, NEW i, NEW t,
         AtVisit(m, o, W, x, s, n, i, t), NEW r, VisitKeeps(n, r, t)
  PROVE  Visited(m, o, W, x, s, r, i)
<1>1. PICK ts : ts = m.book[s]
  OBVIOUS
<1>2. PICK u : Matching(n, u, W, x, s) /\ Trades(m, o, n, u, s)
  BY DEF AtVisit, Visited
<1>3. Beside(n, r) /\ r.book = n.book /\ r.in = n.in /\ r \in Call
  BY DEF VisitKeeps, Beside
<1>4. Matching(r, u, W, x, s) /\ Trades(m, o, r, u, s)
  <2>1. Matching(r, u, W, x, s) /\ Trades(n, u, r, u, s)
    BY <1>2, <1>3, BesideIs
  <2> QED BY <2>1, <1>2, TradesTrans
<1>5. o[x].aon => r.in.open \in {0, m.in.open}
  BY <1>3 DEF AtVisit, Visited
<1>6. /\ Sorted(n, ts, i - 1, s) /\ t = ts[i] /\ i \in 1 .. Len(ts)
      /\ n.held \in Seq(Ids) /\ n.deferred \in Seq(Ids) /\ Listed(ts)
  BY <1>1 DEF AtVisit, Visited, Call, Matching, Steady, Lists
<1>7. /\ t.id \notin Held(n) /\ t.id \notin Range(n.deferred) /\ t.id \in Ids
      /\ t.id \in IdsOn(n.book[s])
  <2>1. t.id \in Ids
    BY <1>6, ListedFacts
  <2> QED BY <2>1, NotSeen
<1>8. /\ IsInjective(r.held) /\ IsInjective(r.deferred)
      /\ \/ Held(r) = Held(n) /\ Range(r.deferred) = Range(n.deferred)
         \/ Held(r) = Held(n) \union {t.id} /\ Range(r.deferred) = Range(n.deferred)
         \/ Held(r) = Held(n) /\ Range(r.deferred) = Range(n.deferred) \union {t.id}
  <2>1. IsInjective(n.held) /\ IsInjective(n.deferred)
    BY <1>6 DEF Sorted
  <2>2. CASE r.held = n.held /\ r.deferred = n.deferred
    BY <2>1, <2>2 DEF Held
  <2>3. CASE r.held = Append(n.held, t.id) /\ r.deferred = n.deferred
    <3>1. IsInjective(r.held) /\ Range(r.held) = Range(n.held) \union {t.id}
      BY <2>1, <2>3, <1>6, <1>7, AppendIs DEF Held
    <3> QED BY <3>1, <2>1, <2>3 DEF Held
  <2>4. CASE r.held = n.held /\ r.deferred = Append(n.deferred, t.id)
    <3>1. IsInjective(r.deferred) /\ Range(r.deferred) = Range(n.deferred) \union {t.id}
      BY <2>1, <2>4, <1>6, <1>7, AppendIs
    <3> QED BY <3>1, <2>1, <2>4 DEF Held
  <2> QED BY <2>2, <2>3, <2>4 DEF VisitKeeps
<1>9. i \in 1 .. i /\ \A j \in 1 .. (i - 1) : j \in 1 .. i
  BY <1>6
<1>10. ASSUME NEW id \in Held(r) \union Range(r.deferred) PROVE \E j \in 1 .. i : id = ts[j].id
  <2>1. CASE id = t.id
    BY <2>1, <1>6, <1>9
  <2>2. CASE id # t.id
    <3>1. id \in Held(n) \union Range(n.deferred)
      BY <2>2, <1>8, <1>10
    <3> QED BY <3>1, <1>6, <1>9 DEF Sorted
  <2> QED BY <2>1, <2>2
<1>11. \A j \in (i + 1) .. Len(ts) : j \in ((i - 1) + 1) .. Len(ts)
  BY <1>6, ListedFacts
<1>12. Sorted(r, ts, i, s)
  <2>1. Held(r) \intersect Range(r.deferred) = {}
    BY <1>6, <1>7, <1>8 DEF Sorted
  <2>2. r.in.open # 0 => Held(r) \subseteq IdsOn(r.book[s])
    BY <1>3, <1>6, <1>7, <1>8 DEF Sorted
  <2>3. Range(r.deferred) \subseteq IdsOn(r.book[s])
    BY <1>3, <1>6, <1>7, <1>8 DEF Sorted
  <2>4. \A j \in (i + 1) .. Len(ts) :
          ts[j].id \in IdsOn(r.book[s]) /\ ts[j] = TrackerOf(r.book[s], ts[j].id)
    BY <1>3, <1>6, <1>11 DEF Sorted
  <2> QED BY <2>1, <2>2, <2>3, <2>4, <1>8, <1>10 DEF Sorted
<1> QED BY <1>1, <1>3, <1>4, <1>5, <1>12 DEF Visited

\* The tracker trades, by itself or with the held ones.
VisitTrades(m, o, W, x, s, n, u, t, Y, r, v) ==
  /\ Matching(n, u, W, x, s) /\ Trades(m, o, n, u, s)
  /\ Comes(n, u, W, x, s, Y, r, v)
  /\ n.in.open # 0 /\ Y \subseteq Held(n) \union {t.id}
  /\ Y = {t.id} \/ r.in.open = 0
  /\ o[x].aon => r.in.open = 0

\* A tracker that trades.
LEMMA VisitTraded ==
  ASSUME NEW m, NEW o, NEW W, NEW x, NEW s, NEW n, NEW i, NEW t,
         AtVisit(m, o, W, x, s, n, i, t),
         NEW u, NEW Y, NEW r, NEW v, VisitTrades(m, o, W, x, s, n, u, t, Y, r, v)
  PROVE  Visited(m, o, W, x, s, r, i)
<1>1. PICK ts : ts = m.book[s]
  OBVIOUS
<1>2. /\ Matching(r, v, W, x, s) /\ Trades(m, o, r, v, s) /\ r \in Call
      /\ OthersKeep(n, r, s, Y) /\ r.held = n.held /\ r.deferred = n.deferred
  <2>1. /\ Comes(n, u, W, x, s, Y, r, v) /\ Trades(m, o, n, u, s)
    BY DEF VisitTrades
  <2>2. /\ Matching(r, v, W, x, s) /\ Trades(n, u, r, v, s)
        /\ OthersKeep(n, r, s, Y) /\ r.held = n.held /\ r.deferred = n.deferred
    BY <2>1 DEF Comes
  <2>3. Trades(m, o, r, v, s)
    BY <2>1, <2>2, TradesTrans
  <2> QED BY <2>2, <2>3 DEF Matching, Steady
<1>3. /\ Y \subseteq Held(n) \union {t.id} /\ (Y = {t.id} \/ r.in.open = 0)
      /\ (o[x].aon => r.in.open = 0)
  BY DEF VisitTrades
<1>4. /\ Sorted(n, ts, i - 1, s) /\ i \in 1 .. Len(ts) /\ Listed(ts)
  BY <1>1 DEF AtVisit, Visited, Matching, Steady, Lists
<1>5. /\ t.id \notin Held(n) /\ t.id \notin Range(n.deferred)
      /\ \A j \in (i + 1) .. Len(ts) : ts[j].id \notin Y
  BY <1>1, <1>3, NotSeen
<1>6. Held(r) = Held(n)
  BY <1>2 DEF Held
<1>7. \A j \in (i + 1) .. Len(ts) : j \in ((i - 1) + 1) .. Len(ts)
  BY <1>4, ListedFacts
<1>8. \A j \in 1 .. (i - 1) : j \in 1 .. i
  BY <1>4
<1>9. Sorted(r, ts, i, s)
  <2>1. /\ IsInjective(r.held) /\ IsInjective(r.deferred)
        /\ Held(r) \intersect Range(r.deferred) = {}
    BY <1>2, <1>4, <1>6 DEF Sorted
  <2>2. \A id \in Held(r) \union Range(r.deferred) : \E j \in 1 .. i : id = ts[j].id
    BY <1>2, <1>4, <1>6, <1>8 DEF Sorted
  <2>3. r.in.open # 0 => Held(r) \subseteq IdsOn(r.book[s])
    <3>1. SUFFICES ASSUME r.in.open # 0 PROVE Held(r) \subseteq IdsOn(r.book[s])
      OBVIOUS
    <3>2. Y = {t.id} /\ n.in.open # 0
      <4>1. n.in.open # 0
        BY DEF VisitTrades
      <4> QED BY <4>1, <3>1, <1>3
    <3> QED BY <3>2, <1>2, <1>4, <1>5, <1>6 DEF Sorted, OthersKeep
  <2>4. Range(r.deferred) \subseteq IdsOn(r.book[s])
    BY <1>2, <1>3, <1>4, <1>5 DEF Sorted, OthersKeep
  <2>5. \A j \in (i + 1) .. Len(ts) :
          ts[j].id \in IdsOn(r.book[s]) /\ ts[j] = TrackerOf(r.book[s], ts[j].id)
    BY <1>2, <1>4, <1>5, <1>7 DEF Sorted, OthersKeep
  <2> QED BY <2>1, <2>2, <2>3, <2>4, <2>5 DEF Sorted
<1> QED BY <1>1, <1>2, <1>3, <1>9 DEF Visited

\* One turn of the loop of match_order.
LEMMA VisitIs ==
  ASSUME NEW m, NEW o, NEW W, NEW x, NEW s, NEW n, NEW i, NEW t,
         AtVisit(m, o, W, x, s, n, i, t), NEW p, NEW r, r = Visit(n, s, p, t)
  PROVE  Visited(m, o, W, x, s, r, i)
<1>1. PICK u : Matching(n, u, W, x, s) /\ Trades(m, o, n, u, s)
  BY DEF AtVisit, Visited
<1>2. /\ Steady(n, u, W, x) /\ n \in Call /\ n.in.id = x /\ x \in Ids /\ Steady(m, o, W, x)
      /\ n.order = m.order
  BY <1>1 DEF Matching, Steady, Inbound, AtVisit, Trades, Course, Carries
<1>3. n.order[x].aon = u[x].aon /\ u[x].aon = o[x].aon
  <2>1. n.order[x].aon = u[x].aon /\ m.order[x].aon = o[x].aon
    BY <1>2, SameIs
  <2> QED BY <2>1, <1>2
<1>4. /\ t.id \notin Held(n) /\ t.id \notin Range(n.deferred) /\ t.id \in Ids
      /\ t.id \in IdsOn(n.book[s]) /\ t = TrackerOf(n.book[s], t.id)
  <2>1. Listed(n.book[s])
    BY <1>1 DEF Matching, Steady, Lists
  <2> QED BY <2>1, NotSeen, ListedFacts
<1>5. Meeting(n, u, W, x, s, t)
  BY <1>1, <1>4 DEF Meeting
<1>6. /\ n.held \in Seq(Ids) /\ n.deferred \in Seq(Ids)
      /\ Append(n.held, t.id) \in Seq(Ids) /\ Append(n.deferred, t.id) \in Seq(Ids)
  BY <1>2, <1>4, AppendProperties DEF Call
<1>7. ASSUME r = n \/ r = [n EXCEPT !.matching = FALSE]
             \/ r = [n EXCEPT !.deferred = Append(@, t.id)]
             \/ r = [n EXCEPT !.held = Append(@, t.id)]
      PROVE  VisitKeeps(n, r, t)
  <2>1. CASE r = n
    BY <2>1, <1>2 DEF VisitKeeps, Beside
  <2>2. CASE r = [n EXCEPT !.matching = FALSE]
    BY <2>2, <1>2 DEF VisitKeeps, Beside, Call
  <2>3. CASE r = [n EXCEPT !.deferred = Append(@, t.id)]
    BY <2>3, <1>2, <1>6 DEF VisitKeeps, Beside, Call
  <2>4. CASE r = [n EXCEPT !.held = Append(@, t.id)]
    BY <2>4, <1>2, <1>6 DEF VisitKeeps, Beside, Call
  <2> QED BY <2>1, <2>2, <2>3, <2>4, <1>7
<1>8. CASE ~n.matching \/ n.in.open = 0 \/ ~Matches(s, t.price, p)
  <2>1. r = n \/ r = [n EXCEPT !.matching = FALSE]
    BY <1>8 DEF Visit
  <2> QED BY <2>1, <1>7, VisitKept
<1>9. CASE n.in.open # 0 /\ ~o[x].aon /\ r = MatchRegular(n, s, t)
  <2>1. \/ r = [n EXCEPT !.deferred = Append(@, t.id)]
        \/ \E v : Comes(n, u, W, x, s, {t.id}, r, v)
    BY <1>5, <1>9, MatchRegularIs
  <2>2. CASE \E v : Comes(n, u, W, x, s, {t.id}, r, v)
    <3>1. PICK v : Comes(n, u, W, x, s, {t.id}, r, v)
      BY <2>2
    <3>2. VisitTrades(m, o, W, x, s, n, u, t, {t.id}, r, v)
      BY <3>1, <1>1, <1>9 DEF VisitTrades
    <3> QED BY <3>2, VisitTraded
  <2> QED BY <2>1, <2>2, <1>7, VisitKept
<1>10. CASE n.in.open # 0 /\ o[x].aon /\ r = MatchAon(n, s, t)
  <2>1. MeetingAon(n, u, W, x, s, t)
    <3>1. Sorted(n, m.book[s], i - 1, s)
      BY DEF AtVisit, Visited
    <3> QED BY <3>1, <1>3, <1>4, <1>5, <1>10 DEF Sorted, MeetingAon
  <2>2. \/ r = n \/ r = [n EXCEPT !.deferred = Append(@, t.id)]
        \/ r = [n EXCEPT !.held = Append(@, t.id)]
        \/ Filled(n, u, W, x, s, t, r)
    BY <2>1, <1>10, MatchAonIs
  <2>3. CASE Filled(n, u, W, x, s, t, r)
    <3>1. PICK v : Comes(n, u, W, x, s, Held(n) \union {t.id}, r, v) /\ r.in.open = 0
      BY <2>3 DEF Filled
    <3>2. VisitTrades(m, o, W, x, s, n, u, t, Held(n) \union {t.id}, r, v)
      BY <3>1, <1>1, <1>10 DEF VisitTrades
    <3> QED BY <3>2, VisitTraded
  <2> QED BY <2>2, <2>3, <1>7, VisitKept
<1>11. \/ ~n.matching \/ n.in.open = 0 \/ ~Matches(s, t.price, p)
       \/ n.in.open # 0 /\ ~o[x].aon /\ r = MatchRegular(n, s, t)
       \/ n.in.open # 0 /\ o[x].aon /\ r = MatchAon(n, s, t)
  BY <1>2, <1>3 DEF Visit
<1> QED BY <1>8, <1>9, <1>10, <1>11

Unmatched(m) == [m EXCEPT !.held = <<>>, !.deferred = <<>>, !.matching = TRUE]

\* The run of the loop of match_order.
LEMMA MatchOrderRun ==
  ASSUME NEW m, NEW s, NEW p, NEW n \in Nat, n = Len(m.book[s])
  PROVE  \E g : /\ g[0] = Unmatched(m) /\ MatchOrder(m, s, p) = g[n]
                /\ \A i \in 1 .. n : g[i] = Visit(g[i - 1], s, p, m.book[s][i])
<1> DEFINE Is(k, f) ==
             f = [i \in 0 .. k |-> IF i = 0 THEN Unmatched(m)
                                   ELSE Visit(f[i - 1], s, p, m.book[s][i])]
           Good == {k \in 0 .. n : \E f : Is(k, f)}
<1>1. 0 \in Good
  <2>1. Is(0, [i \in 0 .. 0 |-> Unmatched(m)])
    OBVIOUS
  <2>2. \E f : Is(0, f)
    BY <2>1
  <2>3. 0 \in 0 .. n
    OBVIOUS
  <2> QED BY <2>2, <2>3
<1>2. ASSUME NEW k \in 1 .. n, k - 1 \in Good PROVE k \in Good
  <2>1. PICK f : Is(k - 1, f)
    BY <1>2
  <2>2. PICK v : v = Visit(f[k - 1], s, p, m.book[s][k])
    OBVIOUS
  <2>3. k \in Nat \ {0}
    OBVIOUS
  <2>4. PICK h : Extension(h, k, f, v)
    BY <2>3, ExtendIs
  <2>5. h = [i \in 0 .. k |-> h[i]] /\ h[k] = v /\ \A i \in 0 .. (k - 1) : h[i] = f[i]
    BY <2>4 DEF Extension
  <2>6. \A i \in 0 .. (k - 1) : f[i] = IF i = 0 THEN Unmatched(m) ELSE Visit(f[i - 1], s, p, m.book[s][i])
    BY <2>1
  <2>7. \A i \in 0 .. k : h[i] = IF i = 0 THEN Unmatched(m) ELSE Visit(h[i - 1], s, p, m.book[s][i])
    <3> TAKE i \in 0 .. k
    <3>1. CASE i = k
      <4>1. h[i] = v /\ k - 1 \in 0 .. (k - 1) /\ i # 0 /\ i - 1 = k - 1
        BY <3>1, <2>5
      <4>2. h[i - 1] = f[k - 1]
        BY <4>1, <2>5
      <4> QED BY <4>1, <4>2, <3>1, <2>2
    <3>2. CASE i # k
      <4>1. i \in 0 .. (k - 1) /\ (i # 0 => i - 1 \in 0 .. (k - 1))
        BY <3>2
      <4>2. h[i] = f[i] /\ (i # 0 => h[i - 1] = f[i - 1])
        BY <4>1, <2>5
      <4>3. CASE i = 0
        BY <4>1, <4>2, <4>3, <2>6
      <4>4. CASE i # 0
        <5>1. f[i] = Visit(f[i - 1], s, p, m.book[s][i])
          BY <4>1, <4>4, <2>6
        <5> QED BY <5>1, <4>2, <4>4
      <4> QED BY <4>3, <4>4
    <3> QED BY <3>1, <3>2
  <2>8. \E g : Is(k, g)
    BY <2>5, <2>7
  <2>9. k \in 0 .. n
    OBVIOUS
  <2> QED BY <2>8, <2>9
<1>3. n \in Good
  <2> HIDE DEF Good
  <2>1. \A i \in 0 .. n : i \in Good
    BY <1>1, <1>2, Induct
  <2> QED BY <2>1
<1>4. PICK f : f = CHOOSE h : Is(n, h)
  OBVIOUS
<1>5. Is(n, f)
  BY <1>3, <1>4
<1>6. MatchOrder(m, s, p) = f[n]
  BY <1>4 DEF MatchOrder, Fold, Unmatched
<1>7. f[0] = Unmatched(m)
  BY <1>5
<1>8. \A i \in 1 .. n : f[i] = Visit(f[i - 1], s, p, m.book[s][i])
  BY <1>5
<1> QED BY <1>6, <1>7, <1>8

\* What matching the order x of m against side s makes of m.
Matched(m, o, W, x, s, r, u) ==
  /\ Matching(r, u, W, x, s) /\ Trades(m, o, r, u, s)
  /\ IsInjective(r.deferred) /\ Range(r.deferred) \subseteq IdsOn(r.book[s])
  /\ o[x].aon => r.in.open \in {0, m.in.open}

\* match_order: trades on one side, an all-or-none inbound order whole or not at all.
LEMMA MatchOrderIs ==
  ASSUME NEW m, NEW o, NEW W, NEW x, NEW s, Matching(m, o, W, x, s), NEW p,
         NEW r, r = MatchOrder(m, s, p)
  PROVE  \E u : Matched(m, o, W, x, s, r, u)
<1>1. PICK ts : ts = m.book[s]
  OBVIOUS
<1>2. Listed(ts) /\ m \in Call
  BY <1>1 DEF Matching, Steady, Lists
<1>3. PICK n \in Nat : n = Len(ts) /\ DOMAIN ts = 1 .. n
  BY <1>2, ListedFacts
<1>4. PICK g : /\ g[0] = Unmatched(m) /\ r = g[n]
               /\ \A i \in 1 .. n : g[i] = Visit(g[i - 1], s, p, m.book[s][i])
  BY <1>1, <1>3, MatchOrderRun
<1> DEFINE Good == {i \in 0 .. n : Visited(m, o, W, x, s, g[i], i)}
<1>5. Visited(m, o, W, x, s, g[0], 0)
  <2>1. PICK c : c = Unmatched(m)
    OBVIOUS
  <2>2. /\ c \in Call /\ c.held = <<>> /\ c.deferred = <<>> /\ Beside(m, c)
    <3>1. <<>> \in Seq(Ids) /\ TRUE \in BOOLEAN
      OBVIOUS
    <3> QED BY <3>1, <2>1, <1>2 DEF Unmatched, Call, Beside
  <2>3. Held(c) = {} /\ Range(c.deferred) = {} /\ IsInjective(c.held) /\ IsInjective(c.deferred)
    BY <2>2 DEF Held, Range, IsInjective
  <2>4. \A j \in 1 .. n : ts[j].id \in IdsOn(ts) /\ ts[j] = TrackerOf(ts, ts[j].id)
    BY <1>2, <1>3, TrackerAt
  <2>5. c.book = m.book /\ c.in = m.in
    BY <2>2 DEF Beside
  <2>6. Sorted(c, ts, 0, s)
    BY <2>3, <2>4, <2>5, <1>1, <1>3 DEF Sorted
  <2>7. Matching(c, o, W, x, s) /\ Trades(m, o, c, o, s)
    BY <2>2, BesideIs
  <2> QED BY <2>1, <2>2, <2>5, <2>6, <2>7, <1>1, <1>4 DEF Visited
<1>6. ASSUME NEW i \in 1 .. n, Visited(m, o, W, x, s, g[i - 1], i - 1)
      PROVE  Visited(m, o, W, x, s, g[i], i)
  <2>1. PICK t : t = m.book[s][i]
    OBVIOUS
  <2>2. PICK c, d : c = g[i - 1] /\ d = g[i]
    OBVIOUS
  <2>3. AtVisit(m, o, W, x, s, c, i, t)
    BY <2>1, <2>2, <1>1, <1>3, <1>6 DEF AtVisit
  <2>4. d = Visit(c, s, p, t)
    BY <2>1, <2>2, <1>4
  <2>5. Visited(m, o, W, x, s, d, i)
    BY <2>3, <2>4, VisitIs
  <2> QED BY <2>2, <2>5
<1>7. Visited(m, o, W, x, s, g[n], n)
  <2>1. 0 \in Good /\ \A i \in 1 .. n : i - 1 \in Good => i \in Good
    BY <1>5, <1>6
  <2>2. \A i \in 0 .. n : i \in Good
    <3> HIDE DEF Good
    <3> QED BY <2>1, Induct
  <2>3. n \in 0 .. n
    OBVIOUS
  <2> QED BY <2>2, <2>3
<1>8. PICK u : Matching(r, u, W, x, s) /\ Trades(m, o, r, u, s)
  BY <1>4, <1>7 DEF Visited
<1>9. Matched(m, o, W, x, s, r, u)
  BY <1>4, <1>7, <1>8 DEF Visited, Sorted, Matched
<1> QED BY <1>9

-----------------------------------------------------------------------------
(* An order comes in.                                                      *)

\* No order has the id 0.
LEMMA NoneIs == 0 \notin Ids
BY OrdersAssumption

\* The other side.
LEMMA OppositeIs ==
  ASSUME NEW s \in Sides
  PROVE  Opposite(s) \in Sides /\ Opposite(s) # s /\ \A d \in Sides : d = s \/ d = Opposite(s)
BY SidesAre DEF Opposite

\* The parts of a call that Steady is about.
LEMMA SteadyAlike ==
  ASSUME NEW m, NEW o, NEW W, NEW x, Steady(m, o, W, x), NEW r \in Call, r.order = m.order,
         r.book = m.book, r.stops = m.stops, r.queue = m.queue, r.pending = m.pending,
         r.parked = m.parked
  PROVE  Steady(r, o, W, x) /\ Course(m, o, r, o)
<1>1. Steady(r, o, W, x)
  BY DEF Steady
<1>2. Course(m, o, r, o)
  BY DEF Course, Carries, Stock, Follows
<1> QED BY <1>1, <1>2

\* A tracker on the market may be taken apart.
LEMMA SteadyApart ==
  ASSUME NEW m, NEW o, NEW W, Steady(m, o, W, 0), NEW s \in Sides, NEW x \in IdsOn(m.book[s])
  PROVE  Steady(m, o, W, x) /\ Rests(o, s, TrackerOf(m.book[s], x)) /\ x \in Ids
<1>1. /\ m \in Call /\ Lists(m.book, m.stops, m.pending, W) /\ Resting(m.book, o, 0)
      /\ Apart(m.book, m.stops, m.pending, W, 0) /\ Accounted(m.book, m.stops, m.pending, W, o, 0)
      /\ WholeBut(o, 0)
  BY DEF Steady
<1>2. x \in Ids
  BY <1>1, ListedFacts DEF Lists
<1>3. x # 0
  BY <1>2, NoneIs
<1>4. Resting(m.book, o, x)
  <2>1. ASSUME NEW d \in Sides, NEW z \in IdsOn(m.book[d])
        PROVE  o[z].side = d /\ Rests(o, d, TrackerOf(m.book[d], z))
    <3>1. z \in Ids
      BY <1>1, ListedFacts DEF Lists
    <3>2. z # 0
      BY <3>1, NoneIs
    <3> QED BY <3>2, <1>1 DEF Resting
  <2> QED BY <2>1 DEF Resting
<1>5. Apart(m.book, m.stops, m.pending, W, x)
  <2>1. \A d \in Sides : x \notin IdsOn(m.stops[d]) /\ x \notin IdsOn(m.pending) /\ x \notin IdsOn(W)
    BY <1>1 DEF Apart
  <2> QED BY <2>1, <1>1 DEF Apart
<1>6. \A z \in Ids : z # 0
  BY NoneIs
<1>7. Accounted(m.book, m.stops, m.pending, W, o, x) /\ WholeBut(o, x)
  BY <1>1, <1>6 DEF Accounted, WholeBut
<1>8. Rests(o, s, TrackerOf(m.book[s], x))
  BY <1>1, <1>3 DEF Resting
<1> QED BY <1>2, <1>4, <1>5, <1>7, <1>8 DEF Steady

\* The order x, apart until now, is put on side s again, or off it when filled.
Settling(m, o, W, x, s, bk, r) ==
  /\ Steady(m, o, W, x) /\ Inbound(m, o, x) /\ s \in Sides /\ o[x].side = s
  /\ m.in.open # 0 => ~o[x].ioc
  /\ o[x].aon => o[x].filled \in {0, o[x].qty}
  /\ Listed(bk) /\ IdsOn(bk) = IF m.in.open = 0 THEN IdsOn(m.book[s]) \ {x}
                               ELSE IdsOn(m.book[s]) \union {x}
  /\ m.in.open # 0 => TrackerOf(bk, x) = [id |-> x, price |-> o[x].price, open |-> m.in.open]
  /\ \A z \in IdsOn(m.book[s]) \ {x} : TrackerOf(bk, z) = TrackerOf(m.book[s], z)
  /\ r \in Call /\ r.order = m.order /\ r.stops = m.stops /\ r.queue = m.queue
  /\ r.pending = m.pending /\ r.parked = m.parked /\ r.book = [m.book EXCEPT ![s] = bk]

\* Once its tracker is on the market again, or nowhere when filled, x is not apart any more.
LEMMA SettlingIs ==
  ASSUME NEW m, NEW o, NEW W, NEW x, NEW s, NEW bk, NEW r, Settling(m, o, W, x, s, bk, r)
  PROVE  Steady(r, o, W, 0) /\ Course(m, o, r, o)
<1>1. /\ Steady(m, o, W, x) /\ m \in Call /\ s \in Sides /\ o[x].side = s /\ x \in Ids
      /\ m.in.open = OpenQty(o[x]) /\ m.in.open \in Nat
      /\ o[x].state = IF m.in.open = 0 THEN "complete" ELSE "accepted"
      /\ (m.in.open # 0 => ~o[x].ioc) /\ (o[x].aon => o[x].filled \in {0, o[x].qty})
  BY DEF Settling, Inbound, Steady, Call
<1>2. /\ Listed(bk) /\ IdsOn(bk) = IF m.in.open = 0 THEN IdsOn(m.book[s]) \ {x}
                                   ELSE IdsOn(m.book[s]) \union {x}
      /\ m.in.open # 0 => TrackerOf(bk, x) = [id |-> x, price |-> o[x].price, open |-> m.in.open]
      /\ \A z \in IdsOn(m.book[s]) \ {x} : TrackerOf(bk, z) = TrackerOf(m.book[s], z)
  BY DEF Settling
<1>3. /\ r \in Call /\ r.order = m.order /\ r.stops = m.stops /\ r.queue = m.queue
      /\ r.pending = m.pending /\ r.parked = m.parked /\ r.book = [m.book EXCEPT ![s] = bk]
  BY DEF Settling
<1>4. r.book[s] = bk /\ \A d \in Sides : d # s => r.book[d] = m.book[d]
  BY <1>1, <1>3 DEF Call
<1>5. /\ Lists(m.book, m.stops, m.pending, W) /\ Resting(m.book, o, x)
      /\ Queueing(m.order, o, m.stops, m.pending, W)
      /\ Apart(m.book, m.stops, m.pending, W, x)
      /\ Accounted(m.book, m.stops, m.pending, W, o, x) /\ WholeBut(o, x)
      /\ Same(m.order, o) /\ Reached(m.order, m.queue, o) /\ m.queue # <<>>
  BY <1>1 DEF Steady
<1>6. Lists(r.book, r.stops, r.pending, W)
  BY <1>2, <1>3, <1>4, <1>5 DEF Lists
<1>7. Resting(r.book, o, 0)
  <2>1. ASSUME NEW d \in Sides, NEW z \in IdsOn(r.book[d])
        PROVE  o[z].side = d /\ Rests(o, d, TrackerOf(r.book[d], z))
    <3>1. CASE z = x
      <4>1. d = s
        <5>1. CASE d # s
          <6>1. x \in IdsOn(m.book[d])
            BY <3>1, <5>1, <2>1, <1>4
          <6> QED BY <6>1, <1>1, <1>5 DEF Resting
        <5> QED BY <5>1
      <4>2. m.in.open # 0
        BY <4>1, <3>1, <2>1, <1>2, <1>4
      <4>3. PICK t : t = [id |-> x, price |-> o[x].price, open |-> m.in.open]
        OBVIOUS
      <4>4. TrackerOf(r.book[d], z) = t
        BY <4>1, <4>2, <4>3, <3>1, <1>2, <1>4
      <4>5. t.id = x /\ t.price = o[x].price /\ t.open = m.in.open
        BY <4>3
      <4>6. Rests(o, s, t)
        BY <4>2, <4>5, <1>1 DEF Rests
      <4> QED BY <4>1, <4>4, <4>6, <3>1, <1>1
    <3>2. CASE z # x
      <4>1. z \in IdsOn(m.book[d]) /\ TrackerOf(r.book[d], z) = TrackerOf(m.book[d], z)
        <5>1. CASE d = s
          <6>1. z \in IdsOn(m.book[s]) \ {x}
            BY <5>1, <3>2, <2>1, <1>2, <1>4
          <6> QED BY <6>1, <5>1, <1>2, <1>4
        <5>2. CASE d # s
          BY <5>2, <2>1, <1>4
        <5> QED BY <5>1, <5>2
      <4> QED BY <4>1, <3>2, <1>5 DEF Resting
    <3> QED BY <3>1, <3>2
  <2> QED BY <2>1 DEF Resting
<1>8. Apart(r.book, r.stops, r.pending, W, 0)
  <2>1. \A d \in Sides : IdsOn(r.book[d]) \subseteq IdsOn(m.book[d]) \union {x}
    BY <1>2, <1>4
  <2>2. \A d \in Sides : 0 \notin IdsOn(m.stops[d]) /\ 0 \notin IdsOn(m.pending) /\ 0 \notin IdsOn(W)
    BY <1>5, NoneIs, ListedFacts DEF Lists
  <2>3. \A d, e \in Sides : IdsOn(r.book[d]) \intersect IdsOn(r.stops[e]) = {}
    BY <2>1, <1>3, <1>5 DEF Apart
  <2>4. \A d \in Sides : /\ IdsOn(r.book[d]) \intersect IdsOn(r.pending) = {}
                         /\ IdsOn(r.book[d]) \intersect IdsOn(W) = {}
    BY <2>1, <1>3, <1>5 DEF Apart
  <2>5. \A d \in Sides : /\ IdsOn(r.stops[d]) \intersect IdsOn(r.pending) = {}
                         /\ IdsOn(r.stops[d]) \intersect IdsOn(W) = {}
                         /\ 0 \notin IdsOn(r.stops[d])
    BY <2>2, <1>3, <1>5 DEF Apart
  <2>6. IdsOn(r.pending) \intersect IdsOn(W) = {} /\ 0 \notin IdsOn(r.pending) /\ 0 \notin IdsOn(W)
    BY <2>2, <1>1, <1>3, <1>5 DEF Apart
  <2> QED BY <2>3, <2>4, <2>5, <2>6 DEF Apart
<1>9. Accounted(r.book, r.stops, r.pending, W, o, 0)
  <2>1. ASSUME NEW z \in Ids, o[z].state = "accepted", ~(o[z].ioc /\ o[z].stop # 0)
        PROVE  z \in Somewhere(r.book, r.stops, r.pending, W)
    <3>1. CASE z = x
      <4>1. z \in IdsOn(r.book[s])
        BY <3>1, <2>1, <1>1, <1>2, <1>4
      <4> QED BY <4>1, <1>1 DEF Somewhere
    <3>2. CASE z # x
      <4>1. z \in Somewhere(m.book, m.stops, m.pending, W)
        BY <3>2, <2>1, <1>5 DEF Accounted
      <4>2. \A d \in Sides : z \in IdsOn(m.book[d]) => z \in IdsOn(r.book[d])
        BY <3>2, <1>2, <1>4
      <4> QED BY <4>1, <4>2, <1>3 DEF Somewhere
    <3> QED BY <3>1, <3>2
  <2> QED BY <2>1 DEF Accounted
<1>10. WholeBut(o, 0)
  BY <1>1, <1>5 DEF WholeBut
<1>11. Steady(r, o, W, 0)
  BY <1>3, <1>5, <1>6, <1>7, <1>8, <1>9, <1>10 DEF Steady
<1>12. Course(m, o, r, o)
  BY <1>3 DEF Course, Carries, Stock, Follows
<1> QED BY <1>11, <1>12

\* One part of a call after the other.
LEMMA CarriesTrans ==
  ASSUME NEW m, NEW o, NEW n, NEW u, NEW r, NEW v, Carries(m, o, n, u), Carries(n, u, r, v)
  PROVE  Carries(m, o, r, v)
<1>1. Follows(m.queue, r.queue)
  BY FollowsTrans DEF Carries
<1> QED BY <1>1 DEF Carries

\* The same, with the stops that are waiting.
LEMMA CourseTrans ==
  ASSUME NEW m, NEW o, NEW n, NEW u, NEW r, NEW v, Course(m, o, n, u), Course(n, u, r, v)
  PROVE  Course(m, o, r, v)
BY CarriesTrans DEF Course

\* What a filled or an untouched order has traded.
LEMMA FilledIs ==
  ASSUME NEW b \in Object, NEW c \in Object, b.filled <= b.qty, c.filled <= c.qty,
         c.qty = b.qty, b.filled = 0, OpenQty(c) \in {0, OpenQty(b)}
  PROVE  c.filled \in {0, c.qty}
<1>1. b.qty \in Nat /\ c.qty \in Nat /\ c.filled \in Nat /\ b.filled \in Nat
  BY DEF Object
<1>2. OpenQty(c) = c.qty - c.filled /\ OpenQty(b) = b.qty
  BY <1>1 DEF OpenQty
<1> QED BY <1>1, <1>2

RetryArgs(m, o, W, s, x) == Steady(m, o, W, 0) /\ s \in Sides /\ x \in IdsOn(m.book[s])
Retried(m, o, W, s, x, r, u) ==
  /\ Steady(r, u, W, 0) /\ Course(m, o, r, u) /\ r.rest = m.rest
  /\ IdsOn(m.book[s]) \ {x} \subseteq IdsOn(r.book[s])

\* check_deferred_aons, at one tracker: what was steady before is steady after it.
LEMMA RetryIs ==
  ASSUME NEW m, NEW o, NEW W, NEW s, NEW x, RetryArgs(m, o, W, s, x),
         NEW r, r = Retry(m, s, x)
  PROVE  \E u : Retried(m, o, W, s, x, r, u)
<1>1. /\ Steady(m, o, W, 0) /\ s \in Sides /\ x \in IdsOn(m.book[s]) /\ m \in Call
      /\ Listed(m.book[s])
  BY DEF RetryArgs, Steady, Lists
<1>2. PICK t : t = TrackerOf(m.book[s], x)
  OBVIOUS
<1>3. t \in Tracker /\ t.id = x /\ x \in Ids /\ x # 0
  BY <1>1, <1>2, TrackerIs, ListedFacts, NoneIs
<1>4. Steady(m, o, W, x) /\ Rests(o, s, t)
  BY <1>1, <1>2, SteadyApart
<1>5. /\ o[x].side = s /\ o[x].state = "accepted" /\ ~o[x].ioc /\ t.price = o[x].price
      /\ t.open = OpenQty(o[x]) /\ t.open > 0
  BY <1>3, <1>4 DEF Rests
<1>6. PICK n : n = [m EXCEPT !.in = t]
  OBVIOUS
<1>7. /\ n \in Call /\ n.order = m.order /\ n.book = m.book /\ n.stops = m.stops
      /\ n.queue = m.queue /\ n.pending = m.pending /\ n.in = t /\ n.parked = m.parked
      /\ n.rest = m.rest
  <2>1. t \in [id : Nat, price : Nat, open : Nat]
    BY <1>3, OrdersAssumption DEF Tracker
  <2> QED BY <2>1, <1>1, <1>6 DEF Call
<1>8. PICK e : e = Opposite(s)
  OBVIOUS
<1>9. e \in Sides /\ e # s
  BY <1>1, <1>8, OppositeIs
<1>10. Steady(n, o, W, x) /\ Course(m, o, n, o)
  BY <1>4, <1>7, SteadyAlike
<1>11. t.open # 0
  BY <1>3, <1>5 DEF Tracker
<1>12. Matching(n, o, W, x, e)
  BY <1>3, <1>5, <1>7, <1>9, <1>10, <1>11 DEF Matching, Inbound
<1>13. PICK d : d = MatchOrder(n, e, t.price)
  OBVIOUS
<1>14. PICK u : Matched(n, o, W, x, e, d, u)
  BY <1>12, <1>13, MatchOrderIs
<1>15. r = Settled(d, s)
  BY <1>2, <1>6, <1>8, <1>13 DEF Retry
<1>16. /\ Steady(d, u, W, x) /\ Inbound(d, u, x) /\ d \in Call
       /\ Course(n, o, d, u) /\ d.book[s] = m.book[s]
       /\ d.in.id = x /\ d.in.price = o[x].price /\ d.rest = m.rest
       /\ (o[x].aon => d.in.open \in {0, n.in.open})
  BY <1>1, <1>3, <1>5, <1>7, <1>9, <1>14 DEF Matched, Matching, Trades, Steady, Inbound
<1>17. /\ u[x].side = s /\ ~u[x].ioc /\ u[x].aon = o[x].aon /\ u[x].price = o[x].price
       /\ u[x].qty = o[x].qty /\ u[x] \in Object /\ o[x] \in Object
       /\ u[x].filled <= u[x].qty /\ o[x].filled <= o[x].qty
  <2>1. /\ n.order[x].side = o[x].side /\ n.order[x].ioc = o[x].ioc /\ n.order[x].aon = o[x].aon
        /\ o[x] \in Object /\ o[x].filled <= o[x].qty
    BY <1>3, <1>10, SameIs
  <2>2. /\ d.order[x].side = u[x].side /\ d.order[x].ioc = u[x].ioc /\ d.order[x].aon = u[x].aon
        /\ u[x] \in Object /\ u[x].filled <= u[x].qty
    BY <1>3, <1>16, SameIs
  <2>3. d.order = n.order /\ u[x].price = o[x].price /\ u[x].qty = o[x].qty
    BY <1>3, <1>16 DEF Course, Carries
  <2> QED BY <2>1, <2>2, <2>3, <1>5
<1>18. u[x].aon => u[x].filled \in {0, u[x].qty}
  <2>1. SUFFICES ASSUME u[x].aon PROVE u[x].filled \in {0, u[x].qty}
    OBVIOUS
  <2>2. o[x].filled = 0
    <3>1. WholeBut(o, 0) /\ o[x].aon
      BY <2>1, <1>1, <1>17 DEF Steady
    <3>2. o[x].filled \in {0, o[x].qty}
      BY <3>1, <1>3 DEF WholeBut
    <3>3. OpenQty(o[x]) # 0
      BY <1>5, <1>11
    <3> QED BY <3>2, <3>3, <1>17 DEF OpenQty, Object
  <2>3. OpenQty(u[x]) \in {0, OpenQty(o[x])}
    BY <2>1, <1>5, <1>7, <1>16, <1>17 DEF Inbound
  <2> QED BY <2>2, <2>3, <1>17, FilledIs
<1>19. PICK i : i = d.in
  OBVIOUS
<1>20. i \in Tracker /\ i.id = x /\ i = [id |-> x, price |-> u[x].price, open |-> d.in.open]
  <2>1. i \in [id : Nat, price : Nat, open : Nat]
    BY <1>16, <1>19 DEF Call
  <2>2. i.id = x /\ i.price = u[x].price /\ i.open = d.in.open
    BY <1>16, <1>17, <1>19
  <2> QED BY <2>1, <2>2, <1>3 DEF Tracker
<1>21. PICK bk : bk = Holding(d.book[s], i)
  OBVIOUS
<1>22. /\ Listed(bk)
       /\ IdsOn(bk) = IF i.open = 0 THEN IdsOn(m.book[s]) \ {x} ELSE IdsOn(m.book[s])
       /\ i.open # 0 => TrackerOf(bk, x) = i
       /\ \A z \in IdsOn(m.book[s]) \ {x} : TrackerOf(bk, z) = TrackerOf(m.book[s], z)
  <2>1. PICK ts : ts = m.book[s]
    OBVIOUS
  <2>2. Listed(ts) /\ i.id \in IdsOn(ts) /\ bk = Holding(ts, i)
    BY <2>1, <1>1, <1>16, <1>20, <1>21
  <2>3. /\ Listed(bk)
        /\ IdsOn(bk) = IF i.open = 0 THEN IdsOn(ts) \ {i.id} ELSE IdsOn(ts)
        /\ i.open # 0 => TrackerOf(bk, i.id) = i
        /\ \A z \in IdsOn(ts) \ {i.id} : TrackerOf(bk, z) = TrackerOf(ts, z)
    BY <2>2, <1>20, HoldingIs
  <2>4. i.id = x
    BY <1>20
  <2> QED BY <2>1, <2>3, <2>4
<1>23. PICK b : b = [d.book EXCEPT ![s] = bk]
  OBVIOUS
<1>24. r = [d EXCEPT !.book = b]
  BY <1>15, <1>16, <1>19, <1>21, <1>23 DEF Settled, Call
<1>25. /\ r \in Call /\ r.order = d.order /\ r.stops = d.stops /\ r.queue = d.queue
       /\ r.pending = d.pending /\ r.book = b /\ r.parked = d.parked
       /\ r.rest = d.rest
  <2>1. b \in [Sides -> Seq(Tracker)]
    BY <1>16, <1>22, <1>23 DEF Call, Listed
  <2> QED BY <2>1, <1>16, <1>24 DEF Call
<1>26. IdsOn(m.book[s]) \union {x} = IdsOn(m.book[s])
  BY <1>1
<1>27. Settling(d, u, W, x, s, bk, r)
  BY <1>1, <1>16, <1>17, <1>18, <1>19, <1>20, <1>22, <1>23, <1>25, <1>26 DEF Settling
<1>28. Steady(r, u, W, 0) /\ Course(d, u, r, u)
  BY <1>27, SettlingIs
<1>29. Course(m, o, r, u)
  <2>1. Course(n, o, r, u)
    BY <1>16, <1>28, CourseTrans
  <2> QED BY <2>1, <1>10, CourseTrans
<1>30. r.book[s] = bk
  BY <1>1, <1>16, <1>23, <1>25 DEF Call
<1>31. Retried(m, o, W, s, x, r, u)
  BY <1>16, <1>22, <1>25, <1>28, <1>29, <1>30 DEF Retried
<1> QED BY <1>31

\* The run of the loop of check_deferred_aons.
LEMMA CheckDeferredRun ==
  ASSUME NEW m, NEW s, NEW n \in Nat, n = Len(m.deferred)
  PROVE  \E g : /\ g[0] = m /\ CheckDeferred(m, s) = g[n]
                /\ \A i \in 1 .. n : g[i] = Retry(g[i - 1], s, m.deferred[i])
<1> DEFINE Is(k, f) ==
             f = [i \in 0 .. k |-> IF i = 0 THEN m
                                   ELSE Retry(f[i - 1], s, m.deferred[i])]
           Good == {k \in 0 .. n : \E f : Is(k, f)}
<1>1. 0 \in Good
  <2>1. Is(0, [i \in 0 .. 0 |-> m])
    OBVIOUS
  <2>2. \E f : Is(0, f)
    BY <2>1
  <2>3. 0 \in 0 .. n
    OBVIOUS
  <2> QED BY <2>2, <2>3
<1>2. ASSUME NEW k \in 1 .. n, k - 1 \in Good PROVE k \in Good
  <2>1. PICK f : Is(k - 1, f)
    BY <1>2
  <2>2. PICK v : v = Retry(f[k - 1], s, m.deferred[k])
    OBVIOUS
  <2>3. k \in Nat \ {0}
    OBVIOUS
  <2>4. PICK h : Extension(h, k, f, v)
    BY <2>3, ExtendIs
  <2>5. h = [i \in 0 .. k |-> h[i]] /\ h[k] = v /\ \A i \in 0 .. (k - 1) : h[i] = f[i]
    BY <2>4 DEF Extension
  <2>6. \A i \in 0 .. (k - 1) : f[i] = IF i = 0 THEN m ELSE Retry(f[i - 1], s, m.deferred[i])
    BY <2>1
  <2>7. \A i \in 0 .. k : h[i] = IF i = 0 THEN m ELSE Retry(h[i - 1], s, m.deferred[i])
    <3> TAKE i \in 0 .. k
    <3>1. CASE i = k
      <4>1. h[i] = v /\ k - 1 \in 0 .. (k - 1) /\ i # 0 /\ i - 1 = k - 1
        BY <3>1, <2>5
      <4>2. h[i - 1] = f[k - 1]
        BY <4>1, <2>5
      <4> QED BY <4>1, <4>2, <3>1, <2>2
    <3>2. CASE i # k
      <4>1. i \in 0 .. (k - 1) /\ (i # 0 => i - 1 \in 0 .. (k - 1))
        BY <3>2
      <4>2. h[i] = f[i] /\ (i # 0 => h[i - 1] = f[i - 1])
        BY <4>1, <2>5
      <4>3. CASE i = 0
        BY <4>1, <4>2, <4>3, <2>6
      <4>4. CASE i # 0
        <5>1. f[i] = Retry(f[i - 1], s, m.deferred[i])
          BY <4>1, <4>4, <2>6
        <5> QED BY <5>1, <4>2, <4>4
      <4> QED BY <4>3, <4>4
    <3> QED BY <3>1, <3>2
  <2>8. \E g : Is(k, g)
    BY <2>5, <2>7
  <2>9. k \in 0 .. n
    OBVIOUS
  <2> QED BY <2>8, <2>9
<1>3. n \in Good
  <2> HIDE DEF Good
  <2>1. \A i \in 0 .. n : i \in Good
    BY <1>1, <1>2, Induct
  <2> QED BY <2>1
<1>4. PICK f : f = CHOOSE h : Is(n, h)
  OBVIOUS
<1>5. Is(n, f)
  BY <1>3, <1>4
<1>6. CheckDeferred(m, s) = f[n]
  BY <1>4 DEF CheckDeferred, Fold
<1>7. f[0] = m
  BY <1>5
<1>8. \A i \in 1 .. n : f[i] = Retry(f[i - 1], s, m.deferred[i])
  BY <1>5
<1> QED BY <1>6, <1>7, <1>8

Checking(m, o, W, s) ==
  /\ Steady(m, o, W, 0) /\ s \in Sides
  /\ IsInjective(m.deferred) /\ Range(m.deferred) \subseteq IdsOn(m.book[s])

\* check_deferred_aons: every deferred tracker is still on the market when it is retried.
LEMMA CheckDeferredIs ==
  ASSUME NEW m, NEW o, NEW W, NEW s, Checking(m, o, W, s), NEW r, r = CheckDeferred(m, s)
  PROVE  /\ \E u : Steady(r, u, W, 0) /\ Course(m, o, r, u)
         /\ r.rest = m.rest
<1>1. Steady(m, o, W, 0) /\ s \in Sides /\ m \in Call
  BY DEF Checking, Steady
<1>2. PICK n \in Nat : n = Len(m.deferred) /\ DOMAIN m.deferred = 1 .. n
  BY <1>1 DEF Call
<1>3. PICK g : /\ g[0] = m /\ r = g[n]
               /\ \A i \in 1 .. n : g[i] = Retry(g[i - 1], s, m.deferred[i])
  BY <1>2, CheckDeferredRun
<1> DEFINE At(i) == /\ \E u : Steady(g[i], u, W, 0) /\ Course(m, o, g[i], u)
                    /\ \A j \in (i + 1) .. n : m.deferred[j] \in IdsOn(g[i].book[s])
                    /\ g[i].rest = m.rest
           Good == {i \in 0 .. n : At(i)}
<1>4. At(0)
  <2>1. Steady(g[0], o, W, 0) /\ Course(m, o, g[0], o)
    BY <1>1, <1>3 DEF Course, Carries, Follows
  <2>2. \A j \in 1 .. n : m.deferred[j] \in IdsOn(m.book[s])
    BY <1>2 DEF Checking, Range
  <2> QED BY <2>1, <2>2, <1>3
<1>5. ASSUME NEW i \in 1 .. n, At(i - 1) PROVE At(i)
  <2>1. PICK c, d, x : c = g[i - 1] /\ d = g[i] /\ x = m.deferred[i]
    OBVIOUS
  <2>2. PICK u : Steady(c, u, W, 0) /\ Course(m, o, c, u)
    BY <2>1, <1>5
  <2>3. i \in ((i - 1) + 1) .. n /\ \A j \in (i + 1) .. n : j \in ((i - 1) + 1) .. n
    OBVIOUS
  <2>4. x \in IdsOn(c.book[s]) /\ \A j \in (i + 1) .. n : m.deferred[j] \in IdsOn(c.book[s])
    BY <2>1, <2>3, <1>5
  <2>5. RetryArgs(c, u, W, s, x)
    BY <2>2, <2>4, <1>1 DEF RetryArgs
  <2>6. d = Retry(c, s, x)
    BY <2>1, <1>3
  <2>7. PICK v : Retried(c, u, W, s, x, d, v)
    BY <2>5, <2>6, RetryIs
  <2>8. Steady(d, v, W, 0) /\ Course(m, o, d, v)
    BY <2>2, <2>7, CourseTrans DEF Retried
  <2>9. ASSUME NEW j \in (i + 1) .. n PROVE m.deferred[j] \in IdsOn(d.book[s])
    <3>1. m.deferred[j] # x
      <4>1. j \in 1 .. n /\ j # i
        OBVIOUS
      <4> QED BY <4>1, <2>1, <1>2 DEF Checking, IsInjective
    <3> QED BY <3>1, <2>4, <2>7 DEF Retried
  <2>10. c.rest = m.rest /\ d.rest = c.rest
    BY <2>1, <2>7, <1>5 DEF Retried
  <2> QED BY <2>1, <2>8, <2>9, <2>10
<1>6. At(n)
  <2> HIDE DEF At
  <2>1. 0 \in Good /\ \A j \in 1 .. n : j - 1 \in Good => j \in Good
    BY <1>4, <1>5
  <2>2. \A j \in 0 .. n : j \in Good
    <3> HIDE DEF Good
    <3> QED BY <2>1, Induct
  <2>3. n \in 0 .. n
    OBVIOUS
  <2> QED BY <2>2, <2>3
<1> QED BY <1>3, <1>6

-----------------------------------------------------------------------------
(* What is left of an order rests, is dropped, or is nothing.              *)

\* An order that is nowhere any more, and has traded whole or not at all.
Done(m, o, W, x) ==
  /\ Steady(m, o, W, x) /\ \A s \in Sides : x \notin IdsOn(m.book[s])
  /\ o[x].state # "accepted" \/ (o[x].ioc /\ o[x].stop # 0)
  /\ o[x].aon => o[x].filled \in {0, o[x].qty}

\* Nothing is apart when x is done.
LEMMA DoneIs ==
  ASSUME NEW m, NEW o, NEW W, NEW x, Done(m, o, W, x)
  PROVE  Steady(m, o, W, 0)
<1>1. Steady(m, o, W, x) /\ \A s \in Sides : x \notin IdsOn(m.book[s])
  BY DEF Done
<1>2. Resting(m.book, o, 0)
  BY <1>1 DEF Steady, Resting
<1>3. Apart(m.book, m.stops, m.pending, W, 0)
  <2>1. Lists(m.book, m.stops, m.pending, W)
    BY <1>1 DEF Steady
  <2>2. \A s \in Sides : 0 \notin IdsOn(m.stops[s])
    BY <2>1, NoneIs, ListedFacts DEF Lists
  <2>3. 0 \notin IdsOn(m.pending) /\ 0 \notin IdsOn(W)
    BY <2>1, NoneIs, ListedFacts DEF Lists
  <2>4. Apart(m.book, m.stops, m.pending, W, x)
    BY <1>1 DEF Steady
  <2> QED BY <2>2, <2>3, <2>4 DEF Apart
<1>4. Accounted(m.book, m.stops, m.pending, W, o, 0)
  BY <1>1 DEF Steady, Accounted, Done
<1>5. WholeBut(o, 0)
  BY <1>1 DEF Steady, WholeBut, Done
<1> QED BY <1>1, <1>2, <1>3, <1>4, <1>5 DEF Steady

\* The tracker t of the order x comes in.
Entering(m, o, W, x, t, p) ==
  /\ Steady(m, o, W, x) /\ x \in Ids /\ t \in Tracker /\ t.id = x
  /\ t.open = OpenQty(o[x]) /\ t.open # 0
  /\ o[x].state = "accepted" /\ p = o[x].price
  /\ o[x].aon => o[x].filled = 0
  /\ \A s \in Sides : x \notin IdsOn(m.book[s])
\* It has; an immediate-or-cancel order may have a rest that is nowhere.
Enters(m, o, W, x, r, u) ==
  /\ Course(m, o, r, u)
  /\ r.rest = 0 => OnlyOf(m.queue, r.queue, x) /\ u[x].state = "complete"
  /\ \/ Steady(r, u, W, 0) /\ (o[x].ioc => r.rest = 0)
     \/ /\ Steady(r, u, W, x) /\ o[x].ioc /\ r.rest # 0 /\ u[x].state = "accepted"
        /\ u[x].aon => u[x].filled \in {0, u[x].qty}
        /\ \A s \in Sides : x \notin IdsOn(r.book[s])

\* add_order: the tracker is matched, and what is left rests or is dropped.
LEMMA AddOrderIs ==
  ASSUME NEW m, NEW o, NEW W, NEW x, NEW t, NEW p, Entering(m, o, W, x, t, p),
         NEW r, r = AddOrder(m, t, p)
  PROVE  \E u : Enters(m, o, W, x, r, u)
<1>1. /\ Steady(m, o, W, x) /\ x \in Ids /\ t \in Tracker /\ t.id = x /\ m \in Call
      /\ t.open = OpenQty(o[x]) /\ t.open # 0
      /\ o[x].state = "accepted" /\ p = o[x].price
      /\ o[x].aon => o[x].filled = 0
      /\ \A s \in Sides : x \notin IdsOn(m.book[s])
  BY DEF Entering, Steady
<1>2. /\ o[x] \in Object /\ o[x].filled <= o[x].qty /\ m.order[x].side = o[x].side
      /\ m.order[x].ioc = o[x].ioc
  BY <1>1, SameIs
<1>3. PICK s : s = o[x].side
  OBVIOUS
<1>4. s \in Sides /\ p \in Nat
  BY <1>1, <1>2, <1>3 DEF Object
<1>5. PICK e : e = Opposite(s)
  OBVIOUS
<1>6. e \in Sides /\ e # s /\ \A d \in Sides : d = s \/ d = e
  BY <1>4, <1>5, OppositeIs
<1>7. PICK n : n = [m EXCEPT !.in = t]
  OBVIOUS
<1>8. /\ n \in Call /\ n.order = m.order /\ n.book = m.book /\ n.stops = m.stops
      /\ n.queue = m.queue /\ n.pending = m.pending /\ n.in = t /\ n.parked = m.parked
  <2>1. t \in [id : Nat, price : Nat, open : Nat]
    BY <1>1, OrdersAssumption DEF Tracker
  <2> QED BY <2>1, <1>1, <1>7 DEF Call
<1>9. Steady(n, o, W, x) /\ Course(m, o, n, o)
  BY <1>1, <1>8, SteadyAlike
<1>10. Matching(n, o, W, x, e)
  BY <1>1, <1>3, <1>6, <1>8, <1>9 DEF Matching, Inbound
<1>11. PICK d : d = MatchOrder(n, e, p)
  OBVIOUS
<1>12. PICK u : Matched(n, o, W, x, e, d, u)
  BY <1>10, <1>11, MatchOrderIs
<1>13. /\ Steady(d, u, W, x) /\ Inbound(d, u, x) /\ d \in Call
       /\ Course(n, o, d, u) /\ d.book[s] = m.book[s]
       /\ IdsOn(d.book[e]) \subseteq IdsOn(m.book[e])
       /\ IsInjective(d.deferred) /\ Range(d.deferred) \subseteq IdsOn(d.book[e])
       /\ (o[x].aon => d.in.open \in {0, n.in.open}) /\ OnlyOf(n.queue, d.queue, n.in.id)
  BY <1>4, <1>6, <1>8, <1>12 DEF Matched, Matching, Trades, Steady
<1>14. Course(m, o, d, u)
  BY <1>9, <1>13, CourseTrans
<1>15. \A c \in Sides : x \notin IdsOn(d.book[c])
  BY <1>1, <1>6, <1>13
<1>16. /\ u[x].side = s /\ u[x].ioc = o[x].ioc /\ u[x].aon = o[x].aon /\ u[x].price = p
       /\ u[x].qty = o[x].qty /\ u[x] \in Object /\ u[x].filled <= u[x].qty
       /\ d.order[x].side = s /\ d.order[x].ioc = o[x].ioc
  <2>1. n.order[x].side = o[x].side /\ n.order[x].ioc = o[x].ioc /\ n.order[x].aon = o[x].aon
    BY <1>1, <1>9, SameIs
  <2>2. /\ d.order[x].side = u[x].side /\ d.order[x].ioc = u[x].ioc /\ d.order[x].aon = u[x].aon
        /\ u[x] \in Object /\ u[x].filled <= u[x].qty
    BY <1>1, <1>13, SameIs
  <2>3. d.order = n.order /\ u[x].price = o[x].price /\ u[x].qty = o[x].qty
    BY <1>1, <1>13 DEF Course, Carries
  <2> QED BY <2>1, <2>2, <2>3, <1>1, <1>3
<1>17. u[x].aon => u[x].filled \in {0, u[x].qty}
  <2>1. SUFFICES ASSUME u[x].aon PROVE u[x].filled \in {0, u[x].qty}
    OBVIOUS
  <2>2. o[x].filled = 0
    BY <2>1, <1>1, <1>16
  <2>3. OpenQty(u[x]) \in {0, OpenQty(o[x])}
    BY <2>1, <1>1, <1>8, <1>13, <1>16 DEF Inbound
  <2> QED BY <2>2, <2>3, <1>2, <1>16, FilledIs
<1>18. PICK left : left = d.in.open
  OBVIOUS
<1>19. /\ left \in Nat /\ left = OpenQty(u[x])
       /\ u[x].state = IF left = 0 THEN "complete" ELSE "accepted"
  BY <1>13, <1>18 DEF Inbound, Call
<1>20. r = Placed(d, t, p)
  BY <1>1, <1>2, <1>3, <1>5, <1>7, <1>11 DEF AddOrder
<1>21. CASE left = 0 \/ o[x].ioc
  <2>1. r = [d EXCEPT !.rest = left]
    BY <1>21, <1>20, <1>18, <1>1, <1>16 DEF Placed
  <2>2. /\ r \in Call /\ r.order = d.order /\ r.book = d.book /\ r.stops = d.stops
        /\ r.queue = d.queue /\ r.pending = d.pending /\ r.rest = left /\ r.parked = d.parked
    BY <2>1, <1>13, <1>19 DEF Call
  <2>3. Steady(r, u, W, x) /\ Course(d, u, r, u)
    BY <2>2, <1>13, SteadyAlike
  <2>4. Course(m, o, r, u)
    BY <2>3, <1>14, CourseTrans
  <2>5. \A c \in Sides : x \notin IdsOn(r.book[c])
    BY <2>2, <1>15
  <2>6. CASE left = 0
    <3>1. Done(r, u, W, x)
      BY <2>3, <2>5, <2>6, <1>17, <1>19 DEF Done
    <3>2. Steady(r, u, W, 0)
      BY <3>1, DoneIs
    <3>3. OnlyOf(m.queue, r.queue, x) /\ u[x].state = "complete"
      BY <2>2, <2>6, <1>1, <1>8, <1>13, <1>19
    <3> QED BY <3>2, <3>3, <2>2, <2>4, <2>6 DEF Enters
  <2>7. CASE left # 0
    <3>1. Enters(m, o, W, x, r, u)
      BY <2>2, <2>3, <2>4, <2>5, <2>7, <1>17, <1>19, <1>21 DEF Enters
    <3> QED BY <3>1
  <2> QED BY <2>6, <2>7
<1>22. CASE left # 0 /\ ~o[x].ioc
  <2>1. PICK i : i = [id |-> x, price |-> p, open |-> left]
    OBVIOUS
  <2>2. i \in Tracker /\ i.id = x
    BY <2>1, <1>1, <1>4, <1>19 DEF Tracker
  <2>3. PICK ts : ts = d.book[s]
    OBVIOUS
  <2>4. Listed(ts) /\ i.id \notin IdsOn(ts)
    BY <2>2, <2>3, <1>4, <1>13, <1>15 DEF Steady, Lists
  <2>5. PICK bk : bk = Inserted(s, ts, i)
    OBVIOUS
  <2>6. /\ Listed(bk) /\ IdsOn(bk) = IdsOn(ts) \union {i.id}
        /\ TrackerOf(bk, i.id) = i
        /\ \A z \in IdsOn(ts) : TrackerOf(bk, z) = TrackerOf(ts, z)
    BY <2>2, <2>4, <2>5, <1>4, InsertedIs
  <2>7. PICK b : b = [d.book EXCEPT ![s] = bk]
    OBVIOUS
  <2>8. PICK pl : pl = [d EXCEPT !.rest = left, !.book = b]
    OBVIOUS
  <2>9. r = CheckDeferred(pl, e)
    BY <2>1, <2>3, <2>5, <2>7, <2>8, <1>1, <1>5, <1>13, <1>16, <1>18, <1>20, <1>22
    DEF Placed, Call
  <2>10. /\ pl \in Call /\ pl.order = d.order /\ pl.stops = d.stops /\ pl.queue = d.queue
         /\ pl.pending = d.pending /\ pl.book = b /\ pl.deferred = d.deferred
         /\ pl.parked = d.parked /\ pl.rest = left
    <3>1. b \in [Sides -> Seq(Tracker)]
      BY <2>6, <2>7, <1>13 DEF Call, Listed
    <3> QED BY <3>1, <2>8, <1>13, <1>19 DEF Call
  <2>11. Settling(d, u, W, x, s, bk, pl)
    BY <2>1, <2>2, <2>3, <2>6, <2>7, <2>10, <1>4, <1>13, <1>16, <1>17, <1>18, <1>22 DEF Settling
  <2>12. Steady(pl, u, W, 0) /\ Course(d, u, pl, u)
    BY <2>11, SettlingIs
  <2>13. Checking(pl, u, W, e)
    <3>1. pl.book[e] = d.book[e]
      BY <2>7, <2>10, <1>6, <1>13 DEF Call
    <3> QED BY <3>1, <2>10, <2>12, <1>6, <1>13 DEF Checking
  <2>14. PICK v : Steady(r, v, W, 0) /\ Course(pl, u, r, v) /\ r.rest = left
    BY <2>10, <2>9, <2>13, CheckDeferredIs
  <2>15. Course(m, o, pl, u)
    BY <2>12, <1>14, CourseTrans
  <2>16. Course(m, o, r, v)
    BY <2>14, <2>15, CourseTrans
  <2>17. Enters(m, o, W, x, r, v)
    BY <2>14, <2>16, <1>22 DEF Enters
  <2> QED BY <2>17
<1> QED BY <1>21, <1>22

-----------------------------------------------------------------------------
(* The stop orders that were triggered.                                    *)

\* The first of the orders W that are still to be submitted.
Submitting(m, o, W, t, V) ==
  Steady(m, o, W, 0) /\ W # <<>> /\ t = W[1] /\ V = SubSeq(W, 2, Len(W))

\* A stop order enters as it was added: it has not traded and has its price.
LEMMA NextIs ==
  ASSUME NEW m, NEW o, NEW W, NEW t, NEW V, Submitting(m, o, W, t, V)
  PROVE  /\ Entering(m, o, V, t.id, t, m.order[t.id].price) /\ o[t.id].stop # 0
         /\ Len(V) = Len(W) - 1 /\ \A j \in 1 .. Len(V) : V[j] = W[j + 1]
<1>1. Steady(m, o, W, 0) /\ Listed(W) /\ W # <<>> /\ W \in Seq(Tracker)
  BY DEF Submitting, Steady, Lists, Listed
<1>2. PICK k \in Nat : k = Len(W) /\ k >= 1 /\ DOMAIN W = 1 .. k
  BY <1>1
<1>3. t = W[1] /\ V = SubSeq(W, 2, k)
  BY <1>2 DEF Submitting
<1>4. PICK a : a = SubSeq(W, 1, 1)
  OBVIOUS
<1>5. PICK x : x = t.id
  OBVIOUS
<1>6. IsCut(W, 1, a, V)
  BY <1>1, <1>2, <1>3, <1>4 DEF IsCut
<1>7. /\ Listed(a) /\ Len(a) = 1 /\ Listed(V) /\ Len(V) = k - 1
      /\ IdsOn(a) \intersect IdsOn(V) = {} /\ IdsOn(a) \union IdsOn(V) = IdsOn(W)
      /\ \A y \in IdsOn(V) : TrackerOf(V, y) = TrackerOf(W, y)
  BY <1>2, <1>6, CutIs
<1>8. IdsOn(a) = {x}
  <2>1. a[1] = t
    BY <1>1, <1>2, <1>3, <1>4
  <2>2. DOMAIN a = {1}
    BY <1>7 DEF Listed
  <2> QED BY <2>1, <2>2, <1>5 DEF IdsOn
<1>9. x \in IdsOn(W) /\ x \notin IdsOn(V) /\ IdsOn(W) = IdsOn(V) \union {x}
  BY <1>7, <1>8
<1>10. TrackerOf(W, x) = t /\ t \in Tracker /\ x \in Ids /\ x # 0
  <2>1. 1 \in DOMAIN W
    BY <1>2
  <2> QED BY <2>1, <1>1, <1>3, <1>5, <1>9, TrackerAt, ListedFacts, NoneIs
<1>11. Steady(m, o, V, x)
  <2>1. Lists(m.book, m.stops, m.pending, V)
    BY <1>1, <1>7 DEF Steady, Lists
  <2>2. Resting(m.book, o, x)
    <3>1. \A s \in Sides : 0 \notin IdsOn(m.book[s])
      BY <1>1, NoneIs, ListedFacts DEF Steady, Lists
    <3> QED BY <3>1, <1>1 DEF Steady, Resting
  <2>3. Queueing(m.order, o, m.stops, m.pending, V)
    BY <1>1, <1>7 DEF Steady, Queueing
  <2>4. Apart(m.book, m.stops, m.pending, V, x)
    <3>1. Apart(m.book, m.stops, m.pending, W, 0)
      BY <1>1 DEF Steady
    <3> QED BY <3>1, <1>9 DEF Apart
  <2>5. Accounted(m.book, m.stops, m.pending, V, o, x)
    <3>1. Somewhere(m.book, m.stops, m.pending, W)
            \subseteq Somewhere(m.book, m.stops, m.pending, V) \union {x}
      BY <1>9 DEF Somewhere
    <3> QED BY <3>1, <1>1, NoneIs DEF Steady, Accounted
  <2>6. WholeBut(o, x)
    BY <1>1, NoneIs DEF Steady, WholeBut
  <2> QED BY <2>1, <2>2, <2>3, <2>4, <2>5, <2>6, <1>1 DEF Steady
<1>12. Stopped(m.order, o, t)
  BY <1>1, <1>9, <1>10 DEF Steady, Queueing
<1>13. \A s \in Sides : x \notin IdsOn(m.book[s])
  <2>1. Apart(m.book, m.stops, m.pending, W, 0)
    BY <1>1 DEF Steady
  <2> QED BY <2>1, <1>9 DEF Apart
<1>14. /\ o[x].state = "accepted" /\ o[x].stop # 0 /\ o[x].filled = 0
       /\ t.open = o[x].qty /\ t.open > 0 /\ m.order[x].price = o[x].price
  BY <1>5, <1>12 DEF Stopped, Waits
<1>15. t.open = OpenQty(o[x]) /\ t.open # 0
  BY <1>10, <1>14 DEF OpenQty, Tracker
<1>16. Entering(m, o, V, x, t, m.order[x].price)
  BY <1>5, <1>10, <1>11, <1>13, <1>14, <1>15 DEF Entering
<1>17. \A j \in 1 .. Len(V) : V[j] = W[j + 1]
  <2>1. \A j \in 1 .. (k - 1) : V[j] = W[j + 1]
    BY <1>1, <1>2, <1>3
  <2> QED BY <2>1, <1>7
<1> QED BY <1>2, <1>5, <1>7, <1>14, <1>16, <1>17

\* submit_pending_orders, at one order.
LEMMA SubmitIs ==
  ASSUME NEW m, NEW o, NEW W, NEW t, NEW V, Submitting(m, o, W, t, V),
         NEW r, r = Submit(m, t)
  PROVE  \E u : Steady(r, u, V, 0) /\ Course(m, o, r, u)
<1>1. PICK x, p : x = t.id /\ p = m.order[t.id].price
  OBVIOUS
<1>2. Entering(m, o, V, x, t, p) /\ o[x].stop # 0
  BY <1>1, NextIs
<1>3. r = AddOrder(m, t, p)
  BY <1>1 DEF Submit
<1>4. PICK u : Enters(m, o, V, x, r, u)
  BY <1>2, <1>3, AddOrderIs
<1>5. Course(m, o, r, u) /\ x \in Ids /\ Steady(m, o, V, x)
  BY <1>2, <1>4 DEF Enters, Entering
<1>6. CASE Steady(r, u, V, 0)
  BY <1>5, <1>6
<1>7. CASE /\ Steady(r, u, V, x) /\ o[x].ioc /\ r.rest # 0 /\ u[x].state = "accepted"
           /\ u[x].aon => u[x].filled \in {0, u[x].qty}
           /\ \A s \in Sides : x \notin IdsOn(r.book[s])
  <2>1. u[x].ioc /\ u[x].stop # 0
    <3>1. r.order[x].ioc = u[x].ioc /\ r.order[x].stop = u[x].stop
      BY <1>5, <1>7, SameIs
    <3>2. m.order[x].ioc = o[x].ioc /\ m.order[x].stop = o[x].stop
      BY <1>5, SameIs
    <3> QED BY <3>1, <3>2, <1>2, <1>5, <1>7 DEF Course, Carries
  <2>2. Done(r, u, V, x)
    BY <2>1, <1>7 DEF Done
  <2> QED BY <2>2, <1>5, DoneIs
<1> QED BY <1>4, <1>6, <1>7 DEF Enters

\* The run of one round of submit_pending_orders.
LEMMA SubmitRoundRun ==
  ASSUME NEW m, NEW n \in Nat, n = Len(m.pending)
  PROVE  \E g : /\ g[0] = [m EXCEPT !.pending = <<>>] /\ SubmitRound(m) = g[n]
                /\ \A i \in 1 .. n : g[i] = Submit(g[i - 1], m.pending[i])
<1> DEFINE Is(k, f) ==
             f = [i \in 0 .. k |-> IF i = 0 THEN [m EXCEPT !.pending = <<>>]
                                   ELSE Submit(f[i - 1], m.pending[i])]
           Good == {k \in 0 .. n : \E f : Is(k, f)}
<1>1. 0 \in Good
  <2>1. Is(0, [i \in 0 .. 0 |-> [m EXCEPT !.pending = <<>>]])
    OBVIOUS
  <2>2. \E f : Is(0, f)
    BY <2>1
  <2>3. 0 \in 0 .. n
    OBVIOUS
  <2> QED BY <2>2, <2>3
<1>2. ASSUME NEW k \in 1 .. n, k - 1 \in Good PROVE k \in Good
  <2>1. PICK f : Is(k - 1, f)
    BY <1>2
  <2>2. PICK v : v = Submit(f[k - 1], m.pending[k])
    OBVIOUS
  <2>3. k \in Nat \ {0}
    OBVIOUS
  <2>4. PICK h : Extension(h, k, f, v)
    BY <2>3, ExtendIs
  <2>5. h = [i \in 0 .. k |-> h[i]] /\ h[k] = v /\ \A i \in 0 .. (k - 1) : h[i] = f[i]
    BY <2>4 DEF Extension
  <2>6. \A i \in 0 .. (k - 1) : f[i] = IF i = 0 THEN [m EXCEPT !.pending = <<>>] ELSE Submit(f[i - 1], m.pending[i])
    BY <2>1
  <2>7. \A i \in 0 .. k : h[i] = IF i = 0 THEN [m EXCEPT !.pending = <<>>] ELSE Submit(h[i - 1], m.pending[i])
    <3> TAKE i \in 0 .. k
    <3>1. CASE i = k
      <4>1. h[i] = v /\ k - 1 \in 0 .. (k - 1) /\ i # 0 /\ i - 1 = k - 1
        BY <3>1, <2>5
      <4>2. h[i - 1] = f[k - 1]
        BY <4>1, <2>5
      <4> QED BY <4>1, <4>2, <3>1, <2>2
    <3>2. CASE i # k
      <4>1. i \in 0 .. (k - 1) /\ (i # 0 => i - 1 \in 0 .. (k - 1))
        BY <3>2
      <4>2. h[i] = f[i] /\ (i # 0 => h[i - 1] = f[i - 1])
        BY <4>1, <2>5
      <4>3. CASE i = 0
        BY <4>1, <4>2, <4>3, <2>6
      <4>4. CASE i # 0
        <5>1. f[i] = Submit(f[i - 1], m.pending[i])
          BY <4>1, <4>4, <2>6
        <5> QED BY <5>1, <4>2, <4>4
      <4> QED BY <4>3, <4>4
    <3> QED BY <3>1, <3>2
  <2>8. \E g : Is(k, g)
    BY <2>5, <2>7
  <2>9. k \in 0 .. n
    OBVIOUS
  <2> QED BY <2>8, <2>9
<1>3. n \in Good
  <2> HIDE DEF Good
  <2>1. \A i \in 0 .. n : i \in Good
    BY <1>1, <1>2, Induct
  <2> QED BY <2>1
<1>4. PICK f : f = CHOOSE h : Is(n, h)
  OBVIOUS
<1>5. Is(n, f)
  BY <1>3, <1>4
<1>6. SubmitRound(m) = f[n]
  BY <1>4 DEF SubmitRound, Fold
<1>7. f[0] = [m EXCEPT !.pending = <<>>]
  BY <1>5
<1>8. \A i \in 1 .. n : f[i] = Submit(f[i - 1], m.pending[i])
  BY <1>5
<1> QED BY <1>6, <1>7, <1>8

\* A round submits every order that was pending.
Round(m, o, r, u) ==
  /\ Carries(m, o, r, u)
  /\ Stock(r) + Len(m.pending) = Stock(m)
  /\ m.pending = <<>> => r.pending = <<>>

\* The orders that are pending are the ones still to be submitted.
LEMMA RoundStart ==
  ASSUME NEW m, NEW o, Steady(m, o, <<>>, 0), NEW n, n = [m EXCEPT !.pending = <<>>]
  PROVE  /\ Steady(n, o, m.pending, 0) /\ n.order = m.order /\ n.queue = m.queue
         /\ Stock(n) + Len(m.pending) = Stock(m) /\ n.pending = <<>> /\ n.parked = m.parked
<1>1. m \in Call
  BY DEF Steady
<1>2. PICK W : W = m.pending
  OBVIOUS
<1>3. /\ n \in Call /\ n.order = m.order /\ n.book = m.book /\ n.stops = m.stops
      /\ n.queue = m.queue /\ n.pending = <<>> /\ n.parked = m.parked
  <2>1. <<>> \in Seq(Tracker)
    OBVIOUS
  <2> QED BY <2>1, <1>1 DEF Call
<1>4. Lists(n.book, n.stops, n.pending, W)
  BY <1>2, <1>3 DEF Steady, Lists
<1>5. IdsOn(<<>>) = {}
  BY DEF IdsOn
<1>6. Resting(n.book, o, 0) /\ WholeBut(o, 0) /\ Same(n.order, o)
      /\ Reached(n.order, n.queue, o) /\ n.queue # <<>>
  BY <1>3 DEF Steady
<1>7. Queueing(n.order, o, n.stops, n.pending, W)
  <2>1. Queueing(m.order, o, m.stops, W, <<>>)
    BY <1>2 DEF Steady
  <2> QED BY <2>1, <1>3, <1>5 DEF Queueing
<1>8. Apart(n.book, n.stops, n.pending, W, 0)
  <2>1. Apart(m.book, m.stops, W, <<>>, 0)
    BY <1>2 DEF Steady
  <2> QED BY <2>1, <1>3, <1>5 DEF Apart
<1>9. Accounted(n.book, n.stops, n.pending, W, o, 0)
  <2>1. Accounted(m.book, m.stops, W, <<>>, o, 0)
    BY <1>2 DEF Steady
  <2>2. Somewhere(m.book, m.stops, W, <<>>) = Somewhere(n.book, n.stops, n.pending, W)
    BY <1>3, <1>5 DEF Somewhere
  <2> QED BY <2>1, <2>2 DEF Accounted
<1>10. Steady(n, o, W, 0)
  BY <1>3, <1>4, <1>6, <1>7, <1>8, <1>9 DEF Steady
<1>11. Stock(n) + Len(W) = Stock(m)
  <2>1. \A s \in Sides : Len(m.stops[s]) \in Nat
    BY ListedFacts DEF Steady, Lists
  <2>6. W \in Seq(Tracker) /\ "BID" \in Sides /\ "ASK" \in Sides
    BY <1>1, <1>2, SidesAre DEF Call
  <2>7. PICK a, b, c :
          a = Len(m.stops["BID"]) /\ b = Len(m.stops["ASK"]) /\ c = Len(W)
    OBVIOUS
  <2>2. a \in Nat /\ b \in Nat /\ c \in Nat
    <3>1. c \in Nat
      BY <2>6, <2>7
    <3> QED BY <3>1, <2>1, <2>6, <2>7
  <2>3. Stock(m) = a + b + c
    BY <2>7, <1>2 DEF Stock
  <2>4. Len(n.pending) = 0
    BY <1>3
  <2>5. Stock(n) = a + b + 0
    BY <2>7, <2>4, <1>3 DEF Stock
  <2>8. Len(W) = c
    BY <2>7
  <2>9. a + b + 0 + c = a + b + c
    BY <2>2
  <2> QED BY <2>3, <2>5, <2>8, <2>9
<1> QED BY <1>2, <1>3, <1>10, <1>11

\* submit_pending_orders, one round.
LEMMA SubmitRoundIs ==
  ASSUME NEW m, NEW o, Steady(m, o, <<>>, 0), NEW r, r = SubmitRound(m)
  PROVE  \E u : Steady(r, u, <<>>, 0) /\ Round(m, o, r, u)
<1>1. PICK pd : pd = m.pending
  OBVIOUS
<1>2. pd \in Seq(Tracker)
  BY <1>1 DEF Steady, Call
<1>3. PICK n \in Nat : n = Len(pd) /\ DOMAIN pd = 1 .. n
  BY <1>2
<1>4. PICK g : /\ g[0] = [m EXCEPT !.pending = <<>>] /\ r = g[n]
               /\ \A i \in 1 .. n : g[i] = Submit(g[i - 1], pd[i])
  BY <1>1, <1>3, SubmitRoundRun
<1>5. PICK m0 : m0 = g[0]
  OBVIOUS
<1>6. /\ Steady(m0, o, pd, 0) /\ m0.order = m.order /\ m0.queue = m.queue
      /\ Stock(m0) + Len(pd) = Stock(m) /\ m0.pending = <<>> /\ m0.parked = m.parked
  BY <1>1, <1>4, <1>5, RoundStart
<1> DEFINE At(i) == \E u, W : /\ Steady(g[i], u, W, 0) /\ Course(m0, o, g[i], u)
                              /\ Len(W) = n - i
                              /\ \A j \in 1 .. (n - i) : W[j] = pd[i + j]
           Good == {i \in 0 .. n : At(i)}
<1>7. At(0)
  <2>1. Course(m0, o, m0, o)
    BY DEF Course, Carries, Follows
  <2>2. Len(pd) = n - 0 /\ \A j \in 1 .. (n - 0) : pd[j] = pd[0 + j]
    BY <1>3
  <2> QED BY <2>1, <2>2, <1>5, <1>6
<1>8. ASSUME NEW i \in 1 .. n, At(i - 1) PROVE At(i)
  <2>1. PICK c, d : c = g[i - 1] /\ d = g[i]
    OBVIOUS
  <2>2. PICK u, W : /\ Steady(c, u, W, 0) /\ Course(m0, o, c, u)
                    /\ Len(W) = n - (i - 1)
                    /\ \A j \in 1 .. (n - (i - 1)) : W[j] = pd[(i - 1) + j]
    BY <2>1, <1>8
  <2>3. PICK t, V : t = W[1] /\ V = SubSeq(W, 2, Len(W))
    OBVIOUS
  <2>4. 1 \in 1 .. (n - (i - 1)) /\ (i - 1) + 1 = i /\ n - (i - 1) > 0
    OBVIOUS
  <2>5. t = pd[i]
    BY <2>2, <2>3, <2>4
  <2>6. W # <<>>
    BY <2>2, <2>4
  <2>7. Submitting(c, u, W, t, V)
    BY <2>2, <2>3, <2>6 DEF Submitting
  <2>8. d = Submit(c, t)
    BY <2>1, <2>5, <1>4
  <2>9. PICK v : Steady(d, v, V, 0) /\ Course(c, u, d, v)
    BY <2>7, <2>8, SubmitIs
  <2>10. Course(m0, o, d, v)
    BY <2>2, <2>9, CourseTrans
  <2>11. Len(V) = Len(W) - 1 /\ \A j \in 1 .. Len(V) : V[j] = W[j + 1]
    BY <2>7, NextIs
  <2>12. Len(V) = n - i
    BY <2>2, <2>11
  <2>13. \A j \in 1 .. (n - i) : V[j] = pd[i + j]
    <3> TAKE j \in 1 .. (n - i)
    <3>1. V[j] = W[j + 1]
      BY <2>11, <2>12
    <3>2. j + 1 \in 1 .. (n - (i - 1)) /\ (i - 1) + (j + 1) = i + j
      OBVIOUS
    <3>3. W[j + 1] = pd[(i - 1) + (j + 1)]
      BY <3>2, <2>2
    <3> QED BY <3>1, <3>2, <3>3
  <2> QED BY <2>1, <2>9, <2>10, <2>12, <2>13
<1>9. At(n)
  <2> HIDE DEF At
  <2>1. 0 \in Good /\ \A j \in 1 .. n : j - 1 \in Good => j \in Good
    BY <1>7, <1>8
  <2>2. \A j \in 0 .. n : j \in Good
    <3> HIDE DEF Good
    <3> QED BY <2>1, Induct
  <2>3. n \in 0 .. n
    OBVIOUS
  <2> QED BY <2>2, <2>3
<1>10. PICK u, W : /\ Steady(g[n], u, W, 0) /\ Course(m0, o, g[n], u)
                   /\ Len(W) = n - n
  BY <1>9
<1>11. W = <<>>
  <2>1. Len(W) = 0
    BY <1>10
  <2>2. W \in Seq(Tracker)
    BY <1>10 DEF Steady, Lists, Listed
  <2> QED BY <2>1, <2>2
<1>12. Steady(r, u, <<>>, 0) /\ Course(m0, o, r, u)
  BY <1>4, <1>10, <1>11
<1>13. m.pending = <<>> => r.pending = <<>>
  <2>1. SUFFICES ASSUME m.pending = <<>> PROVE r.pending = <<>>
    OBVIOUS
  <2>2. n = 0
    BY <2>1, <1>1, <1>3
  <2>3. r = m0
    BY <2>2, <1>4, <1>5
  <2> QED BY <2>3, <1>6
<1>14. Round(m, o, r, u)
  BY <1>1, <1>6, <1>12, <1>13 DEF Course, Carries, Round
<1> QED BY <1>12, <1>14

\* The run of the rounds.
LEMMA SubmitPendingRun ==
  ASSUME NEW m, NEW n \in Nat, n = Stock(m)
  PROVE  \E g : /\ g[0] = m /\ SubmitPending(m) = g[n]
                /\ \A i \in 1 .. n : g[i] = SubmitRound(g[i - 1])
<1> DEFINE Is(k, f) ==
             f = [i \in 0 .. k |-> IF i = 0 THEN m
                                   ELSE SubmitRound(f[i - 1])]
           Good == {k \in 0 .. n : \E f : Is(k, f)}
<1>1. 0 \in Good
  <2>1. Is(0, [i \in 0 .. 0 |-> m])
    OBVIOUS
  <2>2. \E f : Is(0, f)
    BY <2>1
  <2>3. 0 \in 0 .. n
    OBVIOUS
  <2> QED BY <2>2, <2>3
<1>2. ASSUME NEW k \in 1 .. n, k - 1 \in Good PROVE k \in Good
  <2>1. PICK f : Is(k - 1, f)
    BY <1>2
  <2>2. PICK v : v = SubmitRound(f[k - 1])
    OBVIOUS
  <2>3. k \in Nat \ {0}
    OBVIOUS
  <2>4. PICK h : Extension(h, k, f, v)
    BY <2>3, ExtendIs
  <2>5. h = [i \in 0 .. k |-> h[i]] /\ h[k] = v /\ \A i \in 0 .. (k - 1) : h[i] = f[i]
    BY <2>4 DEF Extension
  <2>6. \A i \in 0 .. (k - 1) : f[i] = IF i = 0 THEN m ELSE SubmitRound(f[i - 1])
    BY <2>1
  <2>7. \A i \in 0 .. k : h[i] = IF i = 0 THEN m ELSE SubmitRound(h[i - 1])
    <3> TAKE i \in 0 .. k
    <3>1. CASE i = k
      <4>1. h[i] = v /\ k - 1 \in 0 .. (k - 1) /\ i # 0 /\ i - 1 = k - 1
        BY <3>1, <2>5
      <4>2. h[i - 1] = f[k - 1]
        BY <4>1, <2>5
      <4> QED BY <4>1, <4>2, <3>1, <2>2
    <3>2. CASE i # k
      <4>1. i \in 0 .. (k - 1) /\ (i # 0 => i - 1 \in 0 .. (k - 1))
        BY <3>2
      <4>2. h[i] = f[i] /\ (i # 0 => h[i - 1] = f[i - 1])
        BY <4>1, <2>5
      <4>3. CASE i = 0
        BY <4>1, <4>2, <4>3, <2>6
      <4>4. CASE i # 0
        <5>1. f[i] = SubmitRound(f[i - 1])
          BY <4>1, <4>4, <2>6
        <5> QED BY <5>1, <4>2, <4>4
      <4> QED BY <4>3, <4>4
    <3> QED BY <3>1, <3>2
  <2>8. \E g : Is(k, g)
    BY <2>5, <2>7
  <2>9. k \in 0 .. n
    OBVIOUS
  <2> QED BY <2>8, <2>9
<1>3. n \in Good
  <2> HIDE DEF Good
  <2>1. \A i \in 0 .. n : i \in Good
    BY <1>1, <1>2, Induct
  <2> QED BY <2>1
<1>4. PICK f : f = CHOOSE h : Is(n, h)
  OBVIOUS
<1>5. Is(n, f)
  BY <1>3, <1>4
<1>6. SubmitPending(m) = f[n]
  <2>1. PICK seq : seq = [i \in 1 .. n |-> i]
    OBVIOUS
  <2>2. Len(seq) = n
    BY <2>1
  <2>3. SubmitPending(m) = Fold(LAMBDA c, i : SubmitRound(c), m, seq)
    BY <2>1 DEF SubmitPending, Stock
  <2> QED BY <2>2, <2>3, <1>4 DEF Fold
<1>7. f[0] = m
  BY <1>5
<1>8. \A i \in 1 .. n : f[i] = SubmitRound(f[i - 1])
  BY <1>5
<1> QED BY <1>6, <1>7, <1>8

\* Stops and pending orders are counted.
LEMMA StockIs ==
  ASSUME NEW m, NEW o, NEW W, NEW x, Steady(m, o, W, x)
  PROVE  /\ Stock(m) \in Nat /\ Len(m.pending) \in Nat
         /\ Len(m.pending) <= Stock(m) /\ (m.pending # <<>> => Len(m.pending) >= 1)
<1>1. \A s \in Sides : Len(m.stops[s]) \in Nat
  BY ListedFacts DEF Steady, Lists
<1>2. m.pending \in Seq(Tracker)
  BY DEF Steady, Call
<1>3. PICK a, b, c :
        a = Len(m.stops["BID"]) /\ b = Len(m.stops["ASK"]) /\ c = Len(m.pending)
  OBVIOUS
<1>4. a \in Nat /\ b \in Nat /\ c \in Nat
  <2>1. a \in Nat /\ b \in Nat
    BY <1>1, <1>3, SidesAre
  <2>2. c \in Nat
    BY <1>2, <1>3
  <2> QED BY <2>1, <2>2
<1>5. Stock(m) = a + b + c
  BY <1>3 DEF Stock
<1>6. m.pending # <<>> => c >= 1
  BY <1>2, <1>3
<1>7. a + b + c \in Nat /\ c <= a + b + c
  BY <1>4
<1>8. Stock(m) \in Nat /\ c <= Stock(m)
  BY <1>5, <1>7
<1> QED BY <1>3, <1>4, <1>6, <1>8

\* Enough rounds: none is pending afterwards.
Submitted(m, o, r, u) ==
  Steady(r, u, <<>>, 0) /\ r.pending = <<>> /\ Carries(m, o, r, u)

\* Every round takes a stop order from the stock, so none is left pending after the last.
LEMMA SubmitPendingIs ==
  ASSUME NEW m, NEW o, Steady(m, o, <<>>, 0), NEW r, r = SubmitPending(m)
  PROVE  \E u : Submitted(m, o, r, u)
<1>1. PICK n \in Nat : n = Stock(m)
  BY StockIs
<1>2. PICK g : /\ g[0] = m /\ r = g[n]
               /\ \A i \in 1 .. n : g[i] = SubmitRound(g[i - 1])
  BY <1>1, SubmitPendingRun
<1> DEFINE At(i) == /\ \E u : Steady(g[i], u, <<>>, 0) /\ Carries(m, o, g[i], u)
                    /\ g[i].pending = <<>> \/ Stock(g[i]) <= n - i
           Good == {i \in 0 .. n : At(i)}
<1>3. At(0)
  <2>1. Stock(g[0]) <= n - 0
    BY <1>1, <1>2
  <2>2. Carries(m, o, m, o)
    BY DEF Carries, Follows
  <2> QED BY <2>1, <2>2, <1>2
<1>4. ASSUME NEW i \in 1 .. n, At(i - 1) PROVE At(i)
  <2>1. PICK c, d : c = g[i - 1] /\ d = g[i]
    OBVIOUS
  <2>2. PICK u : Steady(c, u, <<>>, 0) /\ Carries(m, o, c, u)
    BY <2>1, <1>4
  <2>3. c.pending = <<>> \/ Stock(c) <= n - (i - 1)
    BY <2>1, <1>4
  <2>4. d = SubmitRound(c)
    BY <2>1, <1>2
  <2>5. PICK v : Steady(d, v, <<>>, 0) /\ Round(c, u, d, v)
    BY <2>2, <2>4, SubmitRoundIs
  <2>6. d.pending = <<>> \/ Stock(d) <= n - i
    <3>1. CASE c.pending = <<>>
      BY <3>1, <2>5 DEF Round
    <3>2. CASE c.pending # <<>>
      <4>1. PICK k \in Nat, a \in Nat, b \in Nat :
              k = Len(c.pending) /\ a = Stock(c) /\ b = Stock(d)
        BY <2>2, <2>5, StockIs
      <4>2. k >= 1
        BY <4>1, <3>2, <2>2, StockIs
      <4>3. b + k = a
        BY <4>1, <2>5 DEF Round
      <4>4. a <= n - (i - 1)
        BY <4>1, <2>3, <3>2
      <4>5. b <= n - i
        BY <4>2, <4>3, <4>4
      <4> QED BY <4>1, <4>5
    <3> QED BY <3>1, <3>2
  <2>7. Carries(m, o, d, v)
    BY <2>2, <2>5, CarriesTrans DEF Round
  <2> QED BY <2>1, <2>5, <2>6, <2>7
<1>5. At(n)
  <2> HIDE DEF At
  <2>1. 0 \in Good /\ \A j \in 1 .. n : j - 1 \in Good => j \in Good
    BY <1>3, <1>4
  <2>2. \A j \in 0 .. n : j \in Good
    <3> HIDE DEF Good
    <3> QED BY <2>1, Induct
  <2>3. n \in 0 .. n
    OBVIOUS
  <2> QED BY <2>2, <2>3
<1>6. PICK u : Steady(r, u, <<>>, 0) /\ Carries(m, o, r, u)
  BY <1>2, <1>5
<1>7. r.pending = <<>>
  <2>1. CASE r.pending # <<>>
    <3>1. PICK k \in Nat, b \in Nat : k = Len(r.pending) /\ b = Stock(r)
      BY <1>6, StockIs
    <3>2. k >= 1 /\ k <= b
      BY <3>1, <2>1, <1>6, StockIs
    <3>3. b <= n - n
      BY <3>1, <2>1, <1>2, <1>5
    <3> QED BY <3>2, <3>3
  <2> QED BY <2>1
<1> QED BY <1>6, <1>7 DEF Submitted

-----------------------------------------------------------------------------
(* The calls: how one starts and how it ends.                              *)

\* The callbacks a call queues: one that opens it, fills and cancels, and at last
\* the update of the book; or one that only tells the application.
Openers == {"accept", "cancel", "replace"}
Refusals == {"reject", "cancelReject", "replaceReject"}
Silent == Refusals \union {"update"}
Working(q) ==
  q[1].type \in Openers /\ \A i \in DOMAIN q : i # 1 => q[i].type \in {"fill", "cancel"}
Closes(q) ==
  \/ Len(q) = 1 /\ q[1].type \in Refusals
  \/ /\ Len(q) > 1 /\ q[Len(q)].type = "update" /\ q[1].type \in Openers
     /\ \A i \in 2 .. (Len(q) - 1) : q[i].type \in {"fill", "cancel"}

\* An accept callback that ignores fills comes with the fills of the whole order.
Begins(e, q) == DOMAIN e \subseteq DOMAIN q /\ \A i \in DOMAIN e : q[i] = e[i]
Hidden(a, q, x) ==
  \E e, v : /\ e # <<>> /\ Begins(e, q) /\ Reached(a, e, v) /\ v[x].state = "complete"
            /\ \A i \in DOMAIN e : i # 1 => e[i].type = "fill" /\ e[i].order = x
Covers(a, q) ==
  /\ Objects(a)
  /\ q[1].type = "accept" /\ q[1].qty = a[q[1].order].qty => Hidden(a, q, q[1].order)

\* Where the depth is told the truth, what has a price and is accepted does not wait.
Astray(m) == m.parked /\ m.order[m.queue[1].order].price # MarketPrice
MayRest(a, id) ==
  /\ ~(a[id].ioc /\ a[id].stop # 0)
  /\ ~(a[id].state = "new" /\ a[id].stop # 0 /\ Before(a[id].side, a[id].stop, market))
NoStray(m, o, x) ==
  undisturbed /\ ~Astray(m) =>
    \A id \in Ids \ {x} : o[id].state = "accepted" /\ o[id].price # MarketPrice =>
                            MayRest(m.order, id)
Orderly(m, o) ==
  /\ Working(m.queue) /\ Covers(m.order, m.queue)
  /\ m.parked => m.queue[1].type = "accept"
  /\ NoStray(m, o, 0)

\* What was begun is begun.
LEMMA HiddenMore ==
  ASSUME NEW a, NEW q, NEW r, NEW x, Hidden(a, q, x), Begins(q, r)
  PROVE  Hidden(a, r, x)
<1>1. PICK e, v : /\ e # <<>> /\ Begins(e, q) /\ Reached(a, e, v) /\ v[x].state = "complete"
                  /\ \A i \in DOMAIN e : i # 1 => e[i].type = "fill" /\ e[i].order = x
  BY DEF Hidden
<1>2. Begins(e, r)
  BY <1>1 DEF Begins
<1> QED BY <1>1, <1>2 DEF Hidden

\* So it is when the call goes on.
LEMMA OrderlyCarries ==
  ASSUME NEW m, NEW o, NEW r, NEW u, Orderly(m, o), Carries(m, o, r, u)
  PROVE  Orderly(r, u)
<1>1. /\ r.order = m.order /\ r.queue[1] = m.queue[1] /\ r.parked = m.parked
      /\ Follows(m.queue, r.queue)
      /\ \A y \in Ids : u[y].price = o[y].price /\ (u[y].state = "accepted" => o[y].state = "accepted")
  BY DEF Carries
<1>2. Begins(m.queue, r.queue)
  BY <1>1 DEF Follows, Begins
<1>3. Working(r.queue)
  <2>1. \A i \in DOMAIN r.queue : i # 1 => r.queue[i].type \in {"fill", "cancel"}
    BY <1>1 DEF Orderly, Working, Follows
  <2> QED BY <2>1, <1>1 DEF Orderly, Working
<1>4. Covers(r.order, r.queue)
  <2>1. SUFFICES ASSUME r.queue[1].type = "accept", r.queue[1].qty = r.order[r.queue[1].order].qty
                 PROVE  Hidden(r.order, r.queue, r.queue[1].order)
    BY <1>1 DEF Covers, Orderly
  <2>2. Hidden(m.order, m.queue, m.queue[1].order)
    BY <2>1, <1>1 DEF Orderly, Covers
  <2>3. Hidden(m.order, r.queue, m.queue[1].order)
    BY <2>2, <1>2, HiddenMore
  <2> QED BY <2>3, <1>1
<1>5. NoStray(r, u, 0)
  BY <1>1 DEF Orderly, NoStray, Astray
<1> QED BY <1>1, <1>3, <1>4, <1>5 DEF Orderly

\* The update ends it.
LEMMA WorkingEnds ==
  ASSUME NEW q \in Seq(Callbacks), q # <<>>, NEW cb \in Callbacks, NEW r, r = Append(q, cb)
  PROVE  /\ r \in Seq(Callbacks) /\ Len(r) = Len(q) + 1 /\ r[1] = q[1] /\ r[Len(r)] = cb
         /\ Begins(q, r) /\ DOMAIN r = 1 .. Len(r)
         /\ Working(q) /\ cb.type = "update" => Closes(r)
         /\ Working(q) /\ cb.type \in {"fill", "cancel"} => Working(r)
<1>1. PICK n \in Nat : n = Len(q) /\ n > 0 /\ DOMAIN q = 1 .. n
  <2>1. PICK n \in Nat : n = Len(q) /\ DOMAIN q = 1 .. n
    OBVIOUS
  <2>2. n # 0
    BY <2>1, EmptySeq
  <2>3. n > 0
    BY <2>1, <2>2
  <2> QED BY <2>1, <2>3
<1>2. /\ r \in Seq(Callbacks) /\ Len(r) = n + 1 /\ r[n + 1] = cb
      /\ \A i \in 1 .. n : r[i] = q[i]
  BY <1>1, AppendProperties
<1>3. DOMAIN r = 1 .. (n + 1) /\ 1 \in 1 .. n /\ \A i \in DOMAIN r : i \in 1 .. n \/ i = n + 1
  BY <1>1, <1>2
<1>4. Begins(q, r)
  BY <1>1, <1>2, <1>3 DEF Begins
<1>5. ASSUME Working(q), cb.type = "update" PROVE Closes(r)
  <2>1. Len(r) > 1 /\ r[Len(r)].type = "update" /\ r[1].type \in Openers
    BY <1>1, <1>2, <1>3, <1>5 DEF Working
  <2>2. \A i \in 2 .. (Len(r) - 1) : i \in 1 .. n /\ i # 1
    BY <1>2
  <2>3. \A i \in 2 .. (Len(r) - 1) : r[i].type \in {"fill", "cancel"}
    BY <2>2, <1>1, <1>2, <1>5 DEF Working
  <2> QED BY <2>1, <2>3 DEF Closes
<1>6. ASSUME Working(q), cb.type \in {"fill", "cancel"} PROVE Working(r)
  <2>1. \A i \in DOMAIN r : i # 1 => r[i].type \in {"fill", "cancel"}
    BY <1>1, <1>2, <1>3, <1>6 DEF Working
  <2> QED BY <2>1, <1>2, <1>3, <1>6 DEF Working
<1> QED BY <1>1, <1>2, <1>3, <1>4, <1>5, <1>6

\* The callbacks of m make o of the order objects, which is what the trackers
\* of m say.
Ends(m, o) ==
  /\ m \in Call /\ m.queue # <<>> /\ Reached(m.order, m.queue, o)
  /\ \A s \in Sides : Listed(m.book[s]) /\ Listed(m.stops[s])
  /\ InPlace(o, m.book, m.stops) /\ Kept(o, m.book, m.stops) /\ Whole(o)
  /\ Closes(m.queue) /\ Covers(m.order, m.queue)
  /\ m.parked => m.queue[1].type = "accept"
  /\ undisturbed /\ ~Astray(m) => Marketed(o, m.book)

EndsFrom(a, m, o) == Ends(m, o) /\ m.order = a

\* A steady call with nothing pending and nothing apart can end.
LEMMA EndIs ==
  ASSUME NEW m, NEW o, Steady(m, o, <<>>, 0), m.pending = <<>>, Closes(m.queue),
         Covers(m.order, m.queue), m.parked => m.queue[1].type = "accept", NoStray(m, o, 0)
  PROVE  EndsFrom(m.order, m, o)
<1>1. /\ m \in Call /\ m.queue # <<>> /\ Reached(m.order, m.queue, o)
      /\ \A s \in Sides : Listed(m.book[s]) /\ Listed(m.stops[s])
  BY DEF Steady, Lists
<1>2. IdsOn(<<>>) = {}
  BY DEF IdsOn
<1>3. \A s \in Sides : 0 \notin IdsOn(m.book[s])
  BY <1>1, NoneIs, ListedFacts
<1>4. InPlace(o, m.book, m.stops)
  <2>1. \A s \in Sides : Distinct(m.book[s]) /\ Distinct(m.stops[s])
    BY <1>1 DEF Listed
  <2>2. \A s \in Sides : \A id \in IdsOn(m.book[s]) : Rests(o, s, TrackerOf(m.book[s], id))
    BY <1>3 DEF Steady, Resting
  <2>3. ASSUME NEW s \in Sides, NEW id \in IdsOn(m.stops[s])
        PROVE  Waits(o, s, TrackerOf(m.stops[s], id))
    <3>1. TrackerOf(m.stops[s], id).id = id
      BY <1>1, TrackerIs
    <3>2. o[id].side = s /\ Stopped(m.order, o, TrackerOf(m.stops[s], id))
      BY DEF Steady, Queueing
    <3> QED BY <3>1, <3>2 DEF Stopped
  <2>4. \A r, s \in Sides : IdsOn(m.book[r]) \intersect IdsOn(m.stops[s]) = {}
    BY DEF Steady, Apart
  <2> QED BY <2>1, <2>2, <2>3, <2>4 DEF InPlace
<1>5. Kept(o, m.book, m.stops)
  <2>1. Accounted(m.book, m.stops, <<>>, <<>>, o, 0)
    BY DEF Steady
  <2> QED BY <2>1, <1>2, NoneIs DEF Accounted, Somewhere, Kept
<1>6. Whole(o)
  <2>1. WholeBut(o, 0)
    BY DEF Steady
  <2>2. \A id \in Ids : o[id].aon => o[id].price # MarketPrice
    BY SameIs
  <2> QED BY <2>1, <2>2, NoneIs DEF WholeBut, Whole
<1>7. ASSUME undisturbed, ~Astray(m) PROVE Marketed(o, m.book)
  <2>1. SUFFICES ASSUME NEW id \in Ids, o[id].state = "accepted", o[id].price # MarketPrice
                 PROVE  \E s \in Sides : id \in IdsOn(m.book[s])
    BY DEF Marketed
  <2>2. MayRest(m.order, id)
    BY <2>1, <1>7, NoneIs DEF NoStray
  <2>3. ~(o[id].ioc /\ o[id].stop # 0)
    BY <2>2, SameIs DEF MayRest
  <2>4. PICK s \in Sides : id \in IdsOn(m.book[s]) \union IdsOn(m.stops[s])
    BY <2>1, <2>3, <1>5 DEF Kept
  <2>5. ASSUME id \in IdsOn(m.stops[s]) PROVE FALSE
    <3>1. TrackerOf(m.stops[s], id).id = id
      BY <2>5, <1>1, TrackerIs
    <3>2. Stopped(m.order, o, TrackerOf(m.stops[s], id))
      BY <2>5 DEF Steady, Queueing
    <3>3. m.order[id].price = o[id].price /\ MayWait(m.order, id)
      BY <3>1, <3>2 DEF Stopped
    <3> QED BY <3>3, <2>1, <2>2, <1>7 DEF MayWait, MayRest
  <2> QED BY <2>4, <2>5
<1> QED BY <1>1, <1>4, <1>5, <1>6, <1>7 DEF Ends, EndsFrom

\* A callback that changes no object.
LEMMA QueuedIs ==
  ASSUME NEW m, NEW o, NEW W, NEW x, Steady(m, o, W, x), NEW cb \in Callbacks,
         cb.type \in Silent, NEW r, r = Queued(m, cb)
  PROVE  /\ Steady(r, o, W, x) /\ r.pending = m.pending
         /\ r.order = m.order /\ r.parked = m.parked /\ r.queue = Append(m.queue, cb)
<1>0. Effect(o, cb) = o /\ Proper(o, cb)
  BY DEF Silent, Refusals, Effect, Proper
<1>1. m \in Call /\ Reached(m.order, m.queue, o)
  BY DEF Steady
<1>2. Objects(o) /\ m.queue \in Seq(Callbacks)
  BY <1>1 DEF Reached
<1>3. Towards(o, o)
  BY <1>2 DEF Towards
<1>4. Reached(m.order, Append(m.queue, cb), o)
  BY <1>0, <1>1, <1>2, <1>3, ReachedMore
<1>5. Append(m.queue, cb) \in Seq(Callbacks) /\ Append(m.queue, cb) # <<>>
  BY <1>2, AppendProperties
<1>6. /\ r \in Call /\ r.order = m.order /\ r.book = m.book /\ r.stops = m.stops
      /\ r.pending = m.pending /\ r.queue = Append(m.queue, cb) /\ r.parked = m.parked
  BY <1>1, <1>5 DEF Call, Queued
<1> QED BY <1>4, <1>5, <1>6 DEF Steady

\* The cancel of an order that is nowhere any more.
Dropping(m, o, W, x, cb) ==
  /\ Steady(m, o, W, x) /\ x \in Ids /\ o[x].state = "accepted"
  /\ o[x].aon => o[x].filled \in {0, o[x].qty}
  /\ \A s \in Sides : x \notin IdsOn(m.book[s])
  /\ cb \in Callbacks /\ cb.type = "cancel" /\ cb.order = x
  /\ cb.qty = OpenQty(o[x]) \/ (o[x].ioc /\ cb.qty = 0)

\* The cancel callback accounts for it.
LEMMA DroppedIs ==
  ASSUME NEW m, NEW o, NEW W, NEW x, NEW cb, Dropping(m, o, W, x, cb),
         NEW r, r = Queued(m, cb)
  PROVE  /\ r.pending = m.pending /\ r.order = m.order /\ r.parked = m.parked
         /\ r.queue = Append(m.queue, cb)
         /\ \E u : /\ Steady(r, u, W, 0) /\ u[x].state = "cancelled"
                   /\ \A z \in Ids \ {x} : u[z] = o[z]
<1>1. /\ Steady(m, o, W, x) /\ x \in Ids /\ o[x].state = "accepted" /\ m \in Call
      /\ cb \in Callbacks /\ cb.type = "cancel" /\ cb.order = x
      /\ Reached(m.order, m.queue, o)
  BY DEF Dropping, Steady
<1>2. Objects(o) /\ m.queue \in Seq(Callbacks) /\ o[x] \in Object /\ o[x].filled <= o[x].qty
  BY <1>1 DEF Reached, Objects
<1>3. PICK e : e = [o[x] EXCEPT !.state = "cancelled"]
  OBVIOUS
<1>4. /\ e \in Object /\ e.state = "cancelled" /\ e.side = o[x].side /\ e.price = o[x].price
      /\ e.qty = o[x].qty /\ e.stop = o[x].stop /\ e.aon = o[x].aon /\ e.ioc = o[x].ioc
      /\ e.filled = o[x].filled
  <2>1. "cancelled" \in States
    BY DEF States
  <2> QED BY <2>1, <1>2, <1>3 DEF Object
<1>5. PICK u : u = [o EXCEPT ![x] = e]
  OBVIOUS
<1>6. /\ u \in [Ids -> Object] /\ u[x] = e /\ \A z \in Ids \ {x} : u[z] = o[z]
  BY <1>1, <1>2, <1>4, <1>5 DEF Objects
<1>7. Effect(o, cb) = u
  <2>1. Effect(o, cb) = [o EXCEPT ![x].state = IF @ = "complete" THEN @ ELSE "cancelled"]
    BY <1>1 DEF Effect
  <2>2. o[x].state # "complete"
    BY <1>1
  <2> QED BY <2>1, <2>2, <1>1, <1>2, <1>3, <1>5 DEF Objects
<1>8. Objects(u)
  BY <1>2, <1>4, <1>6 DEF Objects
<1>9. Towards(o, u)
  BY <1>2, <1>4, <1>6 DEF Towards
<1>20. Proper(o, cb)
  BY <1>1 DEF Dropping, Proper
<1>10. Reached(m.order, Append(m.queue, cb), u)
  BY <1>1, <1>7, <1>8, <1>9, <1>20, ReachedMore
<1>11. Append(m.queue, cb) \in Seq(Callbacks) /\ Append(m.queue, cb) # <<>>
  BY <1>1, <1>2, AppendProperties
<1>12. /\ r \in Call /\ r.order = m.order /\ r.book = m.book /\ r.stops = m.stops
       /\ r.pending = m.pending /\ r.queue = Append(m.queue, cb) /\ r.parked = m.parked
  BY <1>1, <1>11 DEF Call, Queued
<1>13. Same(r.order, u)
  BY <1>1, <1>4, <1>6, <1>12 DEF Steady, Same
<1>14. Lists(r.book, r.stops, r.pending, W) /\ Apart(r.book, r.stops, r.pending, W, x)
  BY <1>1, <1>12 DEF Steady
<1>15. Resting(r.book, u, x)
  <2>1. ASSUME NEW s \in Sides, NEW id \in IdsOn(r.book[s])
        PROVE  u[id].side = s /\ (id # x => Rests(u, s, TrackerOf(r.book[s], id)))
    <3>1. id \in Ids /\ TrackerOf(r.book[s], id).id = id
      BY <1>14, ListedFacts, TrackerIs DEF Lists
    <3>2. o[id].side = s /\ (id # x => Rests(o, s, TrackerOf(r.book[s], id)))
      BY <1>1, <1>12 DEF Steady, Resting
    <3> QED BY <3>1, <3>2, <1>4, <1>6 DEF Rests
  <2> QED BY <2>1 DEF Resting
<1>16. Queueing(r.order, u, r.stops, r.pending, W)
  <2>1. Queueing(r.order, o, r.stops, r.pending, W)
    BY <1>1, <1>12 DEF Steady
  <2>2. ASSUME NEW ts, Listed(ts), NEW id \in IdsOn(ts), x \notin IdsOn(ts),
               Stopped(r.order, o, TrackerOf(ts, id))
        PROVE  Stopped(r.order, u, TrackerOf(ts, id)) /\ u[id] = o[id]
    <3>1. id \in Ids \ {x} /\ TrackerOf(ts, id).id = id
      BY <2>2, ListedFacts, TrackerIs
    <3> QED BY <3>1, <2>2, <1>6 DEF Stopped, Waits
  <2>3. ASSUME NEW s \in Sides, NEW id \in IdsOn(r.stops[s])
        PROVE  u[id].side = s /\ Stopped(r.order, u, TrackerOf(r.stops[s], id))
    <3>1. Listed(r.stops[s]) /\ x \notin IdsOn(r.stops[s])
      BY <1>14 DEF Lists, Apart
    <3>2. o[id].side = s /\ Stopped(r.order, o, TrackerOf(r.stops[s], id))
      BY <2>1 DEF Queueing
    <3> QED BY <3>1, <3>2, <2>2
  <2>4. ASSUME NEW id \in IdsOn(r.pending)
        PROVE  Stopped(r.order, u, TrackerOf(r.pending, id))
    <3>1. Listed(r.pending) /\ x \notin IdsOn(r.pending)
      BY <1>14 DEF Lists, Apart
    <3> QED BY <3>1, <2>1, <2>2 DEF Queueing
  <2>5. ASSUME NEW id \in IdsOn(W)
        PROVE  Stopped(r.order, u, TrackerOf(W, id))
    <3>1. Listed(W) /\ x \notin IdsOn(W)
      BY <1>14 DEF Lists, Apart
    <3> QED BY <3>1, <2>1, <2>2 DEF Queueing
  <2> QED BY <2>3, <2>4, <2>5 DEF Queueing
<1>17. Accounted(r.book, r.stops, r.pending, W, u, x)
  BY <1>1, <1>6, <1>12 DEF Steady, Accounted
<1>18. WholeBut(u, x)
  BY <1>1, <1>6 DEF Steady, WholeBut
<1>19. Steady(r, u, W, x)
  BY <1>10, <1>11, <1>12, <1>13, <1>14, <1>15, <1>16, <1>17, <1>18 DEF Steady
<1>21. Done(r, u, W, x)
  <2>1. u[x].state # "accepted"
    BY <1>4, <1>6
  <2>2. u[x].aon => u[x].filled \in {0, u[x].qty}
    BY <1>4, <1>6 DEF Dropping
  <2>3. \A s \in Sides : x \notin IdsOn(r.book[s])
    BY <1>12 DEF Dropping
  <2> QED BY <2>1, <2>2, <2>3, <1>19 DEF Done
<1>22. Steady(r, u, W, 0)
  BY <1>21, DoneIs
<1> QED BY <1>4, <1>6, <1>12, <1>22

\* A call starts: x is on no list, and its object is a[x], which the first
\* callback, cb, makes o[x].
Opening(m, a, o, x, b, cb) ==
  /\ IInv /\ ~depth.lost
  /\ Objects(a) /\ Objects(o)
  /\ \A z \in Ids \ {x} : a[z] = order[z] /\ o[z] = order[z]
  /\ x \in Ids => /\ a[x].side = o[x].side /\ a[x].stop = o[x].stop /\ a[x].aon = o[x].aon
                  /\ a[x].ioc = o[x].ioc
                  /\ a[x].aon => a[x].price # MarketPrice /\ o[x].price # MarketPrice
  /\ \A s \in Sides : /\ Listed(b[s]) /\ IdsOn(b[s]) = IdsOn(book[s]) \ {x}
                      /\ x \notin IdsOn(stops[s])
                      /\ \A z \in IdsOn(b[s]) : TrackerOf(b[s], z) = TrackerOf(book[s], z)
  /\ cb \in Callbacks /\ Effect(a, cb) = o /\ Proper(a, cb)
  /\ m \in Call /\ m.order = a /\ m.book = b /\ m.stops = stops /\ m.pending = <<>>
  /\ m.queue = Append(<<>>, cb)

\* Then everything else is steady.
LEMMA OpeningIs ==
  ASSUME NEW m, NEW a, NEW o, NEW x, NEW b, NEW cb, Opening(m, a, o, x, b, cb)
  PROVE  /\ Steady(m, o, <<>>, x) /\ \A s \in Sides : x \notin IdsOn(m.book[s])
         /\ NoStray(m, o, x) /\ m.queue # <<>> /\ m.queue[1] = cb /\ DOMAIN m.queue = {1}
<1>1. /\ IInv /\ ~depth.lost /\ Objects(a) /\ Objects(o)
      /\ \A z \in Ids \ {x} : a[z] = order[z] /\ o[z] = order[z]
      /\ \A s \in Sides : /\ Listed(b[s]) /\ IdsOn(b[s]) = IdsOn(book[s]) \ {x}
                          /\ x \notin IdsOn(stops[s])
                          /\ \A z \in IdsOn(b[s]) : TrackerOf(b[s], z) = TrackerOf(book[s], z)
      /\ cb \in Callbacks /\ Effect(a, cb) = o /\ Proper(a, cb)
      /\ m \in Call /\ m.order = a /\ m.book = b /\ m.stops = stops /\ m.pending = <<>>
      /\ m.queue = Append(<<>>, cb)
  BY DEF Opening
<1>2. /\ order \in [Ids -> Object] /\ stops \in [Sides -> Seq(Tracker)]
      /\ InPlace(order, book, stops) /\ Kept(order, book, stops) /\ Whole(order)
      /\ undisturbed => Marketed(order, book)
  BY <1>1 DEF IInv, Typed
<1>3. \A s \in Sides : Listed(stops[s])
  BY <1>2 DEF Listed, InPlace
<1>4. IdsOn(<<>>) = {} /\ Listed(<<>>)
  BY DEF IdsOn, Listed, Distinct
<1>5. m.queue # <<>> /\ Reached(m.order, m.queue, o)
  <2>1. Reached(a, <<>>, a)
    BY <1>1, ReachedNone
  <2>2. PICK q, e : q = <<>> /\ e = Append(q, cb)
    OBVIOUS
  <2>3. q \in Seq(Callbacks)
    BY <2>2
  <2>4. e \in Seq(Callbacks) /\ Len(e) = Len(q) + 1 /\ Len(q) \in Nat
    BY <2>2, <2>3, <1>1, AppendProperties
  <2>5. e # <<>>
    BY <2>4
  <2>6. Reached(a, e, o)
    BY <2>1, <2>2, <1>1, ReachedMore
  <2> QED BY <2>2, <2>5, <2>6, <1>1
<1>6. Same(m.order, o)
  BY <1>1, <1>2 DEF Same, Whole, Opening
<1>7. Lists(m.book, m.stops, m.pending, <<>>)
  BY <1>1, <1>3, <1>4 DEF Lists
<1>8. Resting(m.book, o, x)
  <2>1. ASSUME NEW s \in Sides, NEW id \in IdsOn(b[s])
        PROVE  o[id].side = s /\ Rests(o, s, TrackerOf(b[s], id))
    <3>1. id \in Ids \ {x} /\ TrackerOf(b[s], id).id = id
      <4>1. PICK ts : ts = b[s]
        OBVIOUS
      <4>2. Listed(ts) /\ id \in IdsOn(ts)
        BY <4>1, <1>1
      <4>3. id \in Ids /\ TrackerOf(ts, id).id = id
        BY <4>2, ListedFacts, TrackerIs
      <4>4. id # x
        BY <1>1
      <4> QED BY <4>1, <4>3, <4>4
    <3>2. Rests(order, s, TrackerOf(b[s], id))
      BY <1>1, <1>2 DEF InPlace
    <3> QED BY <3>1, <3>2, <1>1 DEF Rests
  <2> QED BY <2>1, <1>1 DEF Resting
<1>9. Queueing(m.order, o, m.stops, m.pending, <<>>)
  <2>1. ASSUME NEW s \in Sides, NEW id \in IdsOn(stops[s])
        PROVE  o[id].side = s /\ Stopped(a, o, TrackerOf(stops[s], id))
    <3>1. id \in Ids \ {x} /\ TrackerOf(stops[s], id).id = id
      BY <1>1, <1>3, ListedFacts, TrackerIs
    <3>2. Waits(order, s, TrackerOf(stops[s], id))
      BY <1>2 DEF InPlace
    <3>3. MayWait(order, id)
      <4>1. SUFFICES ASSUME undisturbed, order[id].price # MarketPrice PROVE FALSE
        BY DEF MayWait
      <4>2. order[id].state = "accepted"
        BY <3>1, <3>2 DEF Waits
      <4>3. PICK d \in Sides : id \in IdsOn(book[d])
        BY <3>1, <4>1, <4>2, <1>2 DEF Marketed
      <4> QED BY <4>3, <1>2 DEF InPlace
    <3>4. MayWait(a, id)
      BY <3>1, <3>3, <1>1 DEF MayWait
    <3> QED BY <3>1, <3>2, <3>4, <1>1 DEF Waits, Stopped
  <2> QED BY <2>1, <1>1, <1>4 DEF Queueing
<1>10. Apart(m.book, m.stops, m.pending, <<>>, x)
  BY <1>1, <1>2, <1>4 DEF Apart, InPlace
<1>11. Accounted(m.book, m.stops, m.pending, <<>>, o, x)
  <2>1. ASSUME NEW id \in Ids, id # x, o[id].state = "accepted", ~(o[id].ioc /\ o[id].stop # 0)
        PROVE  id \in Somewhere(b, stops, <<>>, <<>>)
    <3>1. o[id] = order[id]
      BY <2>1, <1>1
    <3>2. PICK s \in Sides : id \in IdsOn(book[s]) \union IdsOn(stops[s])
      BY <2>1, <3>1, <1>2 DEF Kept
    <3>3. id \in IdsOn(b[s]) \/ id \in IdsOn(stops[s])
      BY <2>1, <3>2, <1>1
    <3> QED BY <3>3 DEF Somewhere
  <2> QED BY <2>1, <1>1 DEF Accounted
<1>12. WholeBut(o, x)
  BY <1>1, <1>2 DEF WholeBut, Whole
<1>13. Steady(m, o, <<>>, x)
  BY <1>1, <1>5, <1>6, <1>7, <1>8, <1>9, <1>10, <1>11, <1>12 DEF Steady
<1>14. NoStray(m, o, x)
  <2>1. SUFFICES ASSUME undisturbed, NEW id \in Ids \ {x}, o[id].state = "accepted",
                        o[id].price # MarketPrice
                 PROVE  MayRest(a, id)
    BY <1>1 DEF NoStray
  <2>2. order[id] = o[id] /\ a[id] = order[id]
    BY <2>1, <1>1
  <2>3. PICK s \in Sides : id \in IdsOn(book[s])
    BY <2>1, <2>2, <1>2 DEF Marketed
  <2>4. id \in IdsOn(b[s])
    BY <2>1, <2>3, <1>1
  <2>5. TrackerOf(book[s], id) = TrackerOf(b[s], id) /\ TrackerOf(b[s], id).id = id
    <3>1. PICK ts : ts = b[s]
      OBVIOUS
    <3>2. Listed(ts) /\ id \in IdsOn(ts)
      BY <2>4, <3>1, <1>1
    <3>3. TrackerOf(ts, id).id = id
      BY <3>2, TrackerIs
    <3> QED BY <3>1, <3>3, <2>4, <1>1
  <2>6. Rests(order, s, TrackerOf(book[s], id))
    BY <2>3, <1>2 DEF InPlace
  <2> QED BY <2>2, <2>5, <2>6 DEF Rests, MayRest
<1>15. m.queue # <<>> /\ m.queue[1] = cb /\ DOMAIN m.queue = {1}
  BY <1>1, <1>5
<1> QED BY <1>1, <1>13, <1>14, <1>15

-----------------------------------------------------------------------------
(* The calls: add, cancel and replace.                                     *)

\* The order x, which is nowhere yet, is parked as a stop.
Parking(m, o, W, x, t, ob) ==
  /\ Steady(m, o, W, x) /\ x \in Ids /\ t \in Tracker /\ t.id = x /\ t.open = o[x].qty
  /\ t.open # 0 /\ ob.side = o[x].side /\ ob.stop = o[x].stop
  /\ o[x].state = "accepted" /\ o[x].stop # 0 /\ o[x].filled = 0
  /\ m.order[x].price = o[x].price /\ MayWait(m.order, x)
  /\ \A s \in Sides : x \notin IdsOn(m.book[s])

\* It waits among the stops, with its stop price.
IsParked(m, r) == r.pending = m.pending /\ r.parked /\ r.order = m.order /\ r.queue = m.queue

\* A parked order waits among the stops.
LEMMA ParkedIs ==
  ASSUME NEW m, NEW o, NEW W, NEW x, NEW t, NEW ob, Parking(m, o, W, x, t, ob),
         NEW r, r = Parked(m, t, ob)
  PROVE  Steady(r, o, W, 0) /\ IsParked(m, r)
<1>1. /\ Steady(m, o, W, x) /\ x \in Ids /\ t \in Tracker /\ t.id = x /\ t.open = o[x].qty
      /\ t.open # 0 /\ ob.side = o[x].side /\ ob.stop = o[x].stop
      /\ o[x].state = "accepted" /\ o[x].stop # 0 /\ o[x].filled = 0
      /\ m.order[x].price = o[x].price /\ MayWait(m.order, x)
      /\ \A s \in Sides : x \notin IdsOn(m.book[s])
      /\ m \in Call
  BY DEF Parking, Steady
<1>2. o[x] \in Object
  BY <1>1, SameIs
<1>3. PICK s : s = o[x].side
  OBVIOUS
<1>4. s \in Sides /\ o[x].stop \in Nat
  BY <1>2, <1>3 DEF Object
<1>5. PICK i : i = [t EXCEPT !.price = ob.stop]
  OBVIOUS
<1>6. i \in Tracker /\ i.id = x /\ i.open = t.open
  BY <1>1, <1>4, <1>5 DEF Tracker
<1>7. PICK ts : ts = m.stops[s]
  OBVIOUS
<1>8. Listed(ts) /\ i.id \notin IdsOn(ts)
  BY <1>1, <1>4, <1>6, <1>7 DEF Steady, Lists, Apart
<1>9. PICK bk : bk = Inserted(s, ts, i)
  OBVIOUS
<1>10. /\ Listed(bk) /\ IdsOn(bk) = IdsOn(ts) \union {i.id}
       /\ TrackerOf(bk, i.id) = i
       /\ \A z \in IdsOn(ts) : TrackerOf(bk, z) = TrackerOf(ts, z)
  BY <1>4, <1>6, <1>8, <1>9, InsertedIs
<1>11. PICK st : st = [m.stops EXCEPT ![s] = bk]
  OBVIOUS
<1>12. r = [m EXCEPT !.parked = TRUE, !.stops = st]
  BY <1>1, <1>3, <1>5, <1>7, <1>9, <1>11 DEF Parked
<1>13. /\ st \in [Sides -> Seq(Tracker)] /\ st[s] = bk
       /\ \A d \in Sides : d # s => st[d] = m.stops[d]
  BY <1>1, <1>4, <1>10, <1>11 DEF Call, Listed
<1>14. /\ r \in Call /\ r.order = m.order /\ r.book = m.book /\ r.stops = st
       /\ r.queue = m.queue /\ r.pending = m.pending /\ r.parked
  BY <1>1, <1>12, <1>13 DEF Call
<1>15. \A d \in Sides : IdsOn(st[d]) = IdsOn(m.stops[d]) \union (IF d = s THEN {x} ELSE {})
  BY <1>6, <1>7, <1>10, <1>13
<1>16. Lists(r.book, r.stops, r.pending, W)
  <2>1. \A d \in Sides : Listed(st[d])
    <3>1. \A d \in Sides : Listed(m.stops[d])
      BY <1>1 DEF Steady, Lists
    <3> QED BY <3>1, <1>10, <1>13
  <2> QED BY <2>1, <1>1, <1>14 DEF Steady, Lists
<1>17. Resting(r.book, o, 0)
  BY <1>1, <1>14 DEF Steady, Resting
<1>18. Queueing(r.order, o, r.stops, r.pending, W)
  <2>1. Queueing(m.order, o, m.stops, m.pending, W)
    BY <1>1 DEF Steady
  <2>2. Stopped(m.order, o, i)
    <3>1. o[x].qty \in Nat
      BY <1>2 DEF Object
    <3>2. i.open > 0
      BY <3>1, <1>1, <1>6
    <3> QED BY <3>2, <1>1, <1>6 DEF Stopped, Waits
  <2>3. ASSUME NEW d \in Sides, NEW y \in IdsOn(st[d])
        PROVE  o[y].side = d /\ Stopped(m.order, o, TrackerOf(st[d], y))
    <3>1. CASE d # s
      BY <3>1, <2>1, <1>13 DEF Queueing
    <3>2. CASE d = s /\ y = x
      BY <3>2, <2>2, <1>3, <1>6, <1>10, <1>13
    <3>3. CASE d = s /\ y # x
      <4>1. y \in IdsOn(ts) /\ TrackerOf(st[d], y) = TrackerOf(m.stops[s], y)
        BY <3>3, <1>6, <1>7, <1>10, <1>13
      <4> QED BY <4>1, <3>3, <2>1, <1>7 DEF Queueing
    <3> QED BY <3>1, <3>2, <3>3
  <2> QED BY <2>1, <2>3, <1>14 DEF Queueing
<1>19. Apart(r.book, r.stops, r.pending, W, 0)
  <2>1. Apart(m.book, m.stops, m.pending, W, x)
    BY <1>1 DEF Steady
  <2>2. \A c, d \in Sides : IdsOn(m.book[c]) \intersect IdsOn(st[d]) = {}
    BY <2>1, <1>1, <1>15 DEF Apart
  <2>3. \A d \in Sides : /\ IdsOn(st[d]) \intersect IdsOn(m.pending) = {}
                         /\ IdsOn(st[d]) \intersect IdsOn(W) = {}
    BY <2>1, <1>15 DEF Apart
  <2>4. \A d \in Sides : 0 \notin IdsOn(st[d])
    BY <1>14, <1>16, NoneIs, ListedFacts DEF Lists
  <2>5. 0 \notin IdsOn(m.pending) /\ 0 \notin IdsOn(W)
    BY <1>14, <1>16, NoneIs, ListedFacts DEF Lists
  <2> QED BY <2>1, <2>2, <2>3, <2>4, <2>5, <1>14 DEF Apart
<1>20. Accounted(r.book, r.stops, r.pending, W, o, 0)
  <2>1. Somewhere(m.book, m.stops, m.pending, W) \union {x}
          \subseteq Somewhere(m.book, st, m.pending, W)
    BY <1>1, <1>4, <1>15 DEF Somewhere
  <2> QED BY <2>1, <1>1, <1>14 DEF Steady, Accounted
<1>21. WholeBut(o, 0)
  BY <1>1 DEF Steady, WholeBut
<1> QED BY <1>1, <1>14, <1>16, <1>17, <1>18, <1>19, <1>20, <1>21 DEF Steady, IsParked

\* A call before it has done anything.
LEMMA StartedIs ==
  ASSUME IInv, NEW a \in [Ids -> Object], NEW m, m = Started(a)
  PROVE  /\ m \in Call /\ m.order = a /\ m.book = book /\ m.stops = stops
         /\ m.queue = <<>> /\ m.pending = <<>> /\ m.parked = FALSE /\ m.market = market
<1>1. market \in Nat /\ book \in [Sides -> Seq(Tracker)] /\ stops \in [Sides -> Seq(Tracker)]
  BY DEF IInv, Typed, TypeOK
<1>2. NoTracker \in [id : Nat, price : Nat, open : Nat]
  BY DEF NoTracker
<1>3. <<>> \in Seq(Callbacks) /\ <<>> \in Seq(Tracker) /\ <<>> \in Seq(Ids)
  OBVIOUS
<1> QED BY <1>1, <1>2, <1>3 DEF Started, Call

\* The callbacks that carry nothing but an order and a quantity.
LEMMA CallbackIs ==
  ASSUME NEW type \in Types, NEW id \in Ids, NEW qty \in Int
  PROVE  /\ Callback(type, id) \in Callbacks /\ CallbackQty(type, id, qty) \in Callbacks
         /\ Callback(type, id).type = type /\ Callback(type, id).order = id
         /\ CallbackQty(type, id, qty).type = type /\ CallbackQty(type, id, qty).order = id
         /\ Callback(type, id).qty = 0 /\ CallbackQty(type, id, qty).qty = qty
<1>1. ASSUME NEW q \in Int, NEW c,
             c = [type |-> type, order |-> id, matched |-> id, qty |-> q, price |-> 0,
                  delta |-> 0, orderFilled |-> FALSE, matchedFilled |-> FALSE]
      PROVE  c \in Callbacks /\ c.type = type /\ c.order = id /\ c.qty = q
  <2>1. 0 \in Nat /\ 0 \in Int /\ FALSE \in BOOLEAN
    OBVIOUS
  <2> QED BY <2>1, <1>1 DEF Callbacks
<1>2. Callback(type, id) =
        [type |-> type, order |-> id, matched |-> id, qty |-> 0, price |-> 0,
         delta |-> 0, orderFilled |-> FALSE, matchedFilled |-> FALSE]
  BY DEF Callback
<1>4. 0 \in Int
  OBVIOUS
<1>5. Callback(type, id) \in Callbacks /\ Callback(type, id).type = type
      /\ Callback(type, id).order = id /\ Callback(type, id).qty = 0
  BY <1>1, <1>2, <1>4
<1>6. CallbackQty(type, id, qty) \in Callbacks /\ CallbackQty(type, id, qty).type = type
      /\ CallbackQty(type, id, qty).order = id /\ CallbackQty(type, id, qty).qty = qty
  <2>1. PICK c : c = Callback(type, id)
    OBVIOUS
  <2>2. c \in Callbacks /\ c.type = type /\ c.order = id
    BY <2>1, <1>5
  <2>3. CallbackQty(type, id, qty) = [c EXCEPT !.qty = qty]
    BY <2>1 DEF CallbackQty
  <2> QED BY <2>2, <2>3 DEF Callbacks
<1> QED BY <1>5, <1>6

\* An order the book does not know, or knows no more, is on no list.
LEMMA NowhereIs ==
  ASSUME IInv, ~depth.lost, NEW x \in Ids, NEW s \in Sides
  PROVE  /\ order[x].state # "accepted" => x \notin IdsOn(book[s]) /\ x \notin IdsOn(stops[s])
         /\ Listed(book[s]) /\ Listed(stops[s])
         /\ x \in IdsOn(book[s]) => Rests(order, s, TrackerOf(book[s], x))
         /\ \A d \in Sides : x \in IdsOn(book[d]) => x \notin IdsOn(stops[s])
<1>1. InPlace(order, book, stops) /\ Typed
  BY DEF IInv
<1>2. Listed(book[s]) /\ Listed(stops[s])
  BY <1>1 DEF InPlace, Typed, Listed
<1>3. x \in IdsOn(book[s]) => Rests(order, s, TrackerOf(book[s], x)) /\ TrackerOf(book[s], x).id = x
  BY <1>1, <1>2, TrackerIs DEF InPlace
<1>4. x \in IdsOn(stops[s]) => Waits(order, s, TrackerOf(stops[s], x)) /\ TrackerOf(stops[s], x).id = x
  BY <1>1, <1>2, TrackerIs DEF InPlace
<1>5. \A d \in Sides : x \in IdsOn(book[d]) => x \notin IdsOn(stops[s])
  BY <1>1 DEF InPlace
<1> QED BY <1>2, <1>3, <1>4, <1>5 DEF Rests, Waits

\* The last callback of a call, once the pending orders are submitted.
LEMMA UpdatedIs ==
  ASSUME NEW n, NEW o, Steady(n, o, <<>>, 0), Orderly(n, o), NEW x \in Ids,
         NEW m, m = Queued(SubmitPending(n), Callback("update", x))
  PROVE  \E u : EndsFrom(n.order, m, u)
<1>1. PICK r : r = SubmitPending(n)
  OBVIOUS
<1>2. PICK u : Submitted(n, o, r, u)
  BY <1>1, SubmitPendingIs
<1>3. PICK cb : cb = Callback("update", x)
  OBVIOUS
<1>4. cb \in Callbacks /\ cb.type = "update"
  BY <1>3, CallbackIs DEF Types
<1>5. cb.type \in Silent
  BY <1>4 DEF Silent
<1>6. Steady(r, u, <<>>, 0) /\ r.pending = <<>> /\ Carries(n, o, r, u)
  BY <1>2 DEF Submitted
<1>7. Orderly(r, u)
  BY <1>6, OrderlyCarries
<1>8. m = Queued(r, cb)
  BY <1>1, <1>3
<1>9. /\ Steady(m, u, <<>>, 0) /\ m.pending = <<>>
      /\ m.order = r.order /\ m.parked = r.parked /\ m.queue = Append(r.queue, cb)
  <2>1. /\ Steady(m, u, <<>>, 0) /\ m.pending = r.pending
        /\ m.order = r.order /\ m.parked = r.parked /\ m.queue = Append(r.queue, cb)
    BY <1>4, <1>5, <1>6, <1>8, QueuedIs
  <2> QED BY <2>1, <1>6
<1>10. r.queue \in Seq(Callbacks) /\ r.queue # <<>>
  BY <1>6 DEF Steady, Reached
<1>11. /\ m.queue[1] = r.queue[1] /\ Begins(r.queue, m.queue)
       /\ Working(r.queue) /\ cb.type = "update" => Closes(m.queue)
  BY <1>4, <1>9, <1>10, WorkingEnds
<1>12. Closes(m.queue)
  BY <1>4, <1>7, <1>11 DEF Orderly
<1>13. Covers(m.order, m.queue)
  <2>1. SUFFICES ASSUME m.queue[1].type = "accept", m.queue[1].qty = m.order[m.queue[1].order].qty
                 PROVE  Hidden(m.order, m.queue, m.queue[1].order)
    BY <1>7, <1>9 DEF Covers, Orderly
  <2>2. Hidden(r.order, r.queue, r.queue[1].order)
    BY <2>1, <1>7, <1>9, <1>11 DEF Orderly, Covers
  <2>3. Hidden(r.order, m.queue, r.queue[1].order)
    BY <2>2, <1>11, HiddenMore
  <2> QED BY <2>3, <1>9, <1>11
<1>14. (m.parked => m.queue[1].type = "accept") /\ NoStray(m, u, 0)
  BY <1>7, <1>9, <1>11 DEF Orderly, NoStray, Astray
<1>15. EndsFrom(m.order, m, u)
  BY <1>9, <1>12, <1>13, <1>14, EndIs
<1>16. m.order = n.order
  BY <1>6, <1>9 DEF Carries
<1> QED BY <1>15, <1>16

\* The accept callback is told what was filled.
WithQty(q, v) == [q EXCEPT ![1].qty = v]

\* The accept callback with what was filled.
LEMMA AcceptedIs ==
  ASSUME NEW d, NEW u, NEW W, NEW x, Steady(d, u, W, x), d.queue[1].type = "accept",
         NEW b, b.qty \in Nat, NEW r, r = Accepted(d, b)
  PROVE  /\ Steady(r, u, W, x) /\ r.pending = d.pending /\ r.book = d.book /\ r.rest = d.rest
         /\ r.order = d.order /\ r.parked = d.parked
         /\ r.queue = WithQty(d.queue, b.qty - d.rest)
<1>1. d \in Call /\ Reached(d.order, d.queue, u) /\ d.queue # <<>>
  BY DEF Steady
<1>0. PICK v \in Int : v = b.qty - d.rest
  BY <1>1 DEF Call
<1>2. PICK q : q = [d.queue EXCEPT ![1].qty = v]
  OBVIOUS
<1>3. Reached(d.order, q, u) /\ q # <<>>
  BY <1>0, <1>1, <1>2, ReachedAccept
<1>4. q \in Seq(Callbacks)
  BY <1>3 DEF Reached
<1>5. r = [d EXCEPT !.queue = q]
  BY <1>0, <1>1, <1>2 DEF Call, Accepted
<1>6. /\ r \in Call /\ r.order = d.order /\ r.book = d.book /\ r.stops = d.stops
      /\ r.queue = q /\ r.pending = d.pending /\ r.rest = d.rest /\ r.parked = d.parked
  BY <1>1, <1>4, <1>5 DEF Call
<1> QED BY <1>0, <1>2, <1>3, <1>6 DEF Steady, WithQty

\* The order x has entered the market at once; its accept callback is first.
Arriving(m, o, x, b, d, u) ==
  /\ Enters(m, o, <<>>, x, d, u) /\ NoStray(m, o, x) /\ x \in Ids /\ Objects(m.order)
  /\ DOMAIN m.queue = {1} /\ m.queue[1].type = "accept" /\ m.queue[1].order = x
  /\ m.parked = FALSE /\ m.order[x] = b /\ b.qty \in Nat /\ b.ioc = o[x].ioc
  /\ ~(b.stop # 0 /\ Before(b.side, b.stop, market))
Sent(a, e, w) == Steady(e, w, <<>>, 0) /\ Orderly(e, w) /\ e.order = a

\* Its accept callback says what of it is filled, and that is what follows.
Arrived(m, d, x, u, e) ==
  /\ e.book = d.book /\ e.order = m.order /\ e.parked = FALSE
  /\ Working(e.queue) /\ Covers(e.order, e.queue) /\ NoStray(e, u, x)
  /\ e.queue # <<>> /\ e.queue \in Seq(Callbacks)

\* Then it says so, and what follows is in order.
LEMMA ArrivedIs ==
  ASSUME NEW m, NEW o, NEW x, NEW b, NEW d, NEW u, Arriving(m, o, x, b, d, u),
         NEW e, e = Accepted(d, b), NEW y, Steady(d, u, <<>>, y)
  PROVE  Steady(e, u, <<>>, y) /\ Arrived(m, d, x, u, e)
<1>1. /\ Course(m, o, d, u) /\ (d.rest = 0 => OnlyOf(m.queue, d.queue, x) /\ u[x].state = "complete")
  BY DEF Arriving, Enters
<1>2. /\ d.order = m.order /\ d.queue[1] = m.queue[1] /\ d.parked = m.parked
      /\ Follows(m.queue, d.queue)
      /\ \A z \in Ids : u[z].price = o[z].price /\ (u[z].state = "accepted" => o[z].state = "accepted")
  BY <1>1 DEF Course, Carries
<1>3. d \in Call /\ d.queue[1].type = "accept" /\ d.queue # <<>> /\ d.queue \in Seq(Callbacks)
  BY <1>2 DEF Arriving, Steady, Reached
<1>4. PICK v : v = b.qty - d.rest
  OBVIOUS
<1>5. v \in Int /\ d.rest \in Nat /\ b.qty \in Nat
  BY <1>3, <1>4 DEF Call, Arriving
<1>7. /\ Steady(e, u, <<>>, y) /\ e.pending = d.pending /\ e.book = d.book /\ e.rest = d.rest
      /\ e.order = d.order /\ e.parked = d.parked /\ e.queue = WithQty(d.queue, v)
  <2>1. Steady(d, u, <<>>, y) /\ e = Accepted(d, b)
    OBVIOUS
  <2>2. d.queue[1].type = "accept" /\ b.qty \in Nat
    BY <1>3, <1>5
  <2>3. v = b.qty - d.rest
    BY <1>4
  <2>4. Steady(e, u, <<>>, y) /\ e.pending = d.pending /\ e.book = d.book /\ e.rest = d.rest
    BY <2>1, <2>2, AcceptedIs
  <2>5. e.order = d.order /\ e.parked = d.parked
    BY <2>1, <2>2, AcceptedIs
  <2>6. e.queue = WithQty(d.queue, b.qty - d.rest)
    BY <2>1, <2>2, AcceptedIs
  <2> QED BY <2>3, <2>4, <2>5, <2>6
<1>8. e.queue # <<>> /\ Reached(e.order, e.queue, u) /\ e.queue \in Seq(Callbacks)
  BY <1>7 DEF Steady, Reached
<1>9. DOMAIN e.queue = DOMAIN d.queue /\ \A i \in DOMAIN d.queue : i # 1 => e.queue[i] = d.queue[i]
  BY <1>3, <1>7 DEF WithQty
<1>10. 1 \in DOMAIN d.queue /\ d.queue[1] \in Callbacks
  BY <1>3, EmptySeq
<1>11. e.queue[1].type = "accept" /\ e.queue[1].order = x /\ e.queue[1].qty = v
  <2>1. e.queue[1] = [d.queue[1] EXCEPT !.qty = v]
    BY <1>3, <1>7, <1>10 DEF WithQty
  <2> QED BY <2>1, <1>2, <1>10 DEF Arriving, Callbacks
<1>12. \A i \in DOMAIN e.queue : i # 1 =>
         /\ e.queue[i].type = "fill"
         /\ OnlyOf(m.queue, d.queue, x) => e.queue[i].order = x
  BY <1>2, <1>9 DEF Arriving, Follows, OnlyOf
<1>13. Working(e.queue)
  BY <1>11, <1>12 DEF Working, Openers
<1>14. Covers(e.order, e.queue)
  <2>1. SUFFICES ASSUME v = b.qty PROVE Hidden(e.order, e.queue, x)
    BY <1>2, <1>7, <1>11 DEF Covers, Arriving
  <2>2. d.rest = 0
    BY <2>1, <1>4, <1>5
  <2>3. Begins(e.queue, e.queue)
    BY DEF Begins
  <2> QED BY <2>2, <2>3, <1>1, <1>8, <1>12 DEF Hidden
<1>15. NoStray(e, u, x)
  BY <1>2, <1>7 DEF NoStray, Astray, Arriving
<1> QED BY <1>2, <1>7, <1>8, <1>13, <1>14, <1>15 DEF Arriving, Arrived

\* What is left of an immediate-or-cancel order is cancelled.
LEMMA EnteredIs ==
  ASSUME NEW m, NEW o, NEW x, NEW b, NEW d, NEW u, Arriving(m, o, x, b, d, u),
         NEW r, r = Entered(d, b, x)
  PROVE  \E w : Sent(m.order, r, w)
<1>1. PICK e : e = Accepted(d, b)
  OBVIOUS
<1>2. PICK cc : cc = CallbackQty("cancel", x, 0)
  OBVIOUS
<1>3. r = IF b.ioc /\ d.rest > 0 THEN Queued(e, cc) ELSE e
  BY <1>1, <1>2 DEF Entered
<1>4. x \in Ids /\ b.ioc = o[x].ioc /\ m.order[x] = b /\ m.parked = FALSE
      /\ ~(b.stop # 0 /\ Before(b.side, b.stop, market))
  BY DEF Arriving
<1>5. d.rest = 0 => u[x].state = "complete"
  BY DEF Arriving, Enters
<1>6. CASE Steady(d, u, <<>>, 0) /\ (o[x].ioc => d.rest = 0)
  <2>1. /\ Steady(e, u, <<>>, 0) /\ e.order = m.order /\ e.parked = FALSE
        /\ Working(e.queue) /\ Covers(e.order, e.queue) /\ NoStray(e, u, x)
    <3>1. Steady(d, u, <<>>, 0)
      BY <1>6
    <3>2. Steady(e, u, <<>>, 0) /\ Arrived(m, d, x, u, e)
      BY <3>1, <1>1, ArrivedIs
    <3> QED BY <3>2 DEF Arrived
  <2>2. r = e
    BY <1>3, <1>4, <1>6
  <2>3. u[x].state = "accepted" => MayRest(m.order, x)
    BY <1>4, <1>5, <1>6 DEF MayRest
  <2>4. NoStray(e, u, 0)
    BY <2>1, <2>3 DEF NoStray
  <2> QED BY <2>1, <2>2, <2>4 DEF Sent, Orderly
<1>7. CASE /\ Steady(d, u, <<>>, x) /\ o[x].ioc /\ d.rest # 0 /\ u[x].state = "accepted"
           /\ u[x].aon => u[x].filled \in {0, u[x].qty}
           /\ \A s \in Sides : x \notin IdsOn(d.book[s])
  <2>1. /\ Steady(e, u, <<>>, x) /\ e.book = d.book /\ e.order = m.order /\ e.parked = FALSE
        /\ Working(e.queue) /\ Covers(e.order, e.queue) /\ NoStray(e, u, x)
        /\ e.queue # <<>> /\ e.queue \in Seq(Callbacks)
    <3>1. Steady(d, u, <<>>, x)
      BY <1>7
    <3>2. Steady(e, u, <<>>, x) /\ Arrived(m, d, x, u, e)
      BY <3>1, <1>1, ArrivedIs
    <3> QED BY <3>2 DEF Arrived
  <2>2. cc \in Callbacks /\ cc.type = "cancel" /\ cc.order = x /\ cc.qty = 0
    BY <1>2, <1>4, CallbackIs DEF Types
  <2>3. d.rest > 0
    <3>1. d.rest \in Nat
      BY <1>7 DEF Steady, Call
    <3> QED BY <3>1, <1>7
  <2>4. r = Queued(e, cc)
    BY <2>3, <1>3, <1>4, <1>7
  <2>5. u[x].ioc
    <3>1. m.order[x].ioc = u[x].ioc
      BY <2>1, <1>4, SameIs
    <3> QED BY <3>1, <1>4, <1>7
  <2>6. Dropping(e, u, <<>>, x, cc)
    BY <2>1, <2>2, <2>5, <1>4, <1>7 DEF Dropping
  <2>7. r.order = e.order /\ r.parked = e.parked /\ r.queue = Append(e.queue, cc)
    BY <2>4, <2>6, DroppedIs
  <2>8. PICK w : Steady(r, w, <<>>, 0) /\ w[x].state = "cancelled" /\ \A z \in Ids \ {x} : w[z] = u[z]
    BY <2>4, <2>6, DroppedIs
  <2>9. /\ r.queue[1] = e.queue[1] /\ Begins(e.queue, r.queue)
        /\ Working(e.queue) /\ cc.type \in {"fill", "cancel"} => Working(r.queue)
    <3>1. PICK q, qq : q = e.queue /\ qq = r.queue
      OBVIOUS
    <3>2. q \in Seq(Callbacks) /\ q # <<>> /\ cc \in Callbacks /\ qq = Append(q, cc)
      BY <3>1, <2>1, <2>2, <2>7
    <3>3. /\ qq[1] = q[1] /\ Begins(q, qq)
          /\ Working(q) /\ cc.type \in {"fill", "cancel"} => Working(qq)
      BY <3>2, WorkingEnds
    <3> QED BY <3>1, <3>3
  <2>10. Working(r.queue)
    BY <2>1, <2>2, <2>9
  <2>11. Covers(r.order, r.queue)
    <3>1. SUFFICES ASSUME r.queue[1].type = "accept", r.queue[1].qty = r.order[r.queue[1].order].qty
                   PROVE  Hidden(r.order, r.queue, r.queue[1].order)
      BY <2>1, <2>7 DEF Covers
    <3>2. Hidden(e.order, e.queue, e.queue[1].order)
      BY <3>1, <2>1, <2>7, <2>9 DEF Covers
    <3>3. Hidden(e.order, r.queue, e.queue[1].order)
      BY <3>2, <2>9, HiddenMore
    <3> QED BY <3>3, <2>7, <2>9
  <2>12. NoStray(r, w, 0)
    BY <2>1, <2>7, <2>8 DEF NoStray, Astray
  <2> QED BY <2>1, <2>7, <2>8, <2>10, <2>11, <2>12 DEF Sent, Orderly
<1> QED BY <1>6, <1>7 DEF Arriving, Enters

Adding(m, a, x, ob) ==
  /\ IInv /\ ~depth.lost /\ x \in Ids /\ order[x].state = "unused" /\ ob \in Orders
  /\ a = [order EXCEPT ![x] = Born(ob)] /\ m = Added(Started(a), x)

\* add: rejected, parked as a stop, or entered.
LEMMA AddedIs ==
  ASSUME NEW m, NEW a, NEW x, NEW ob, Adding(m, a, x, ob)
  PROVE  \E u : EndsFrom(a, m, u)
<1>1. /\ IInv /\ ~depth.lost /\ x \in Ids /\ order[x].state = "unused" /\ ob \in Orders
      /\ a = [order EXCEPT ![x] = Born(ob)] /\ m = Added(Started(a), x)
  BY DEF Adding
<1>2. order \in [Ids -> Object] /\ \A z \in Ids : order[z].filled <= order[z].qty
  BY <1>1 DEF IInv, Typed, TypeOK
<1>3. PICK b0, b1 : b0 = Born(ob) /\ b1 = [b0 EXCEPT !.state = "accepted"]
  OBVIOUS
<1>4. /\ ob.side \in Sides /\ ob.price \in Nat /\ ob.qty \in Nat /\ ob.stop \in Nat
      /\ ob.aon \in BOOLEAN /\ ob.ioc \in BOOLEAN /\ (ob.aon => ob.price # MarketPrice)
  BY <1>1, OrdersAssumption
<1>5. /\ b0 \in Object /\ b0.state = "new" /\ b0.side = ob.side /\ b0.price = ob.price
      /\ b0.qty = ob.qty /\ b0.stop = ob.stop /\ b0.aon = ob.aon /\ b0.ioc = ob.ioc
      /\ b0.filled = 0
  <2>1. "new" \in States
    BY DEF States
  <2> QED BY <2>1, <1>3, <1>4 DEF Born, Object
<1>6. /\ b1 \in Object /\ b1.state = "accepted" /\ b1.side = ob.side /\ b1.price = ob.price
      /\ b1.qty = ob.qty /\ b1.stop = ob.stop /\ b1.aon = ob.aon /\ b1.ioc = ob.ioc
      /\ b1.filled = 0
  <2>1. "accepted" \in States
    BY DEF States
  <2> QED BY <2>1, <1>3, <1>5 DEF Object
<1>7. /\ a \in [Ids -> Object] /\ a[x] = b0 /\ \A z \in Ids \ {x} : a[z] = order[z]
  BY <1>1, <1>2, <1>3, <1>5
<1>8. PICK o : o = [a EXCEPT ![x] = b1]
  OBVIOUS
<1>9. /\ o \in [Ids -> Object] /\ o[x] = b1 /\ \A z \in Ids \ {x} : o[z] = order[z]
  BY <1>1, <1>6, <1>7, <1>8
<1>10. Objects(a) /\ Objects(o)
  BY <1>2, <1>4, <1>5, <1>6, <1>7, <1>9 DEF Objects
<1>11. PICK m0 : m0 = Started(a)
  OBVIOUS
<1>12. /\ m0 \in Call /\ m0.order = a /\ m0.book = book /\ m0.stops = stops
       /\ m0.queue = <<>> /\ m0.pending = <<>> /\ m0.parked = FALSE /\ m0.market = market
  BY <1>1, <1>7, <1>11, StartedIs
<1>13. \A s \in Sides : /\ Listed(book[s]) /\ x \notin IdsOn(book[s])
                        /\ x \notin IdsOn(stops[s])
  BY <1>1, NowhereIs
<1>14. ASSUME NEW cb \in Callbacks, NEW c, Effect(a, cb) = c, c \in {a, o}, Proper(a, cb),
              NEW n, n = Queued(m0, cb)
       PROVE  /\ Steady(n, c, <<>>, x) /\ \A s \in Sides : x \notin IdsOn(n.book[s])
              /\ n.order = a /\ n.pending = <<>> /\ n.parked = FALSE
              /\ n.queue = Append(<<>>, cb) /\ n.queue[1] = cb /\ DOMAIN n.queue = {1}
              /\ NoStray(n, c, x)
  <2>1. Append(<<>>, cb) \in Seq(Callbacks)
    <3>1. PICK q : q = <<>>
      OBVIOUS
    <3>2. q \in Seq(Callbacks)
      BY <3>1
    <3>3. Append(q, cb) \in Seq(Callbacks)
      BY <3>2, <1>14, AppendProperties
    <3> QED BY <3>1, <3>3
  <2>2. /\ n \in Call /\ n.order = a /\ n.book = book /\ n.stops = stops
        /\ n.pending = <<>> /\ n.queue = Append(<<>>, cb) /\ n.parked = FALSE
    BY <2>1, <1>12, <1>14 DEF Queued, Call
  <2>3. Objects(c) /\ \A z \in Ids \ {x} : c[z] = order[z]
    BY <1>7, <1>9, <1>10, <1>14
  <2>4. /\ a[x].side = c[x].side /\ a[x].stop = c[x].stop /\ a[x].aon = c[x].aon
        /\ a[x].ioc = c[x].ioc
        /\ a[x].aon => a[x].price # MarketPrice /\ c[x].price # MarketPrice
    BY <1>4, <1>5, <1>6, <1>7, <1>9, <1>14
  <2>5. \A s \in Sides : IdsOn(book[s]) = IdsOn(book[s]) \ {x}
    BY <1>13
  <2>6. Opening(n, a, c, x, book, cb)
    BY <2>2, <2>3, <2>4, <2>5, <1>1, <1>7, <1>10, <1>13, <1>14 DEF Opening
  <2>7. /\ Steady(n, c, <<>>, x) /\ \A s \in Sides : x \notin IdsOn(n.book[s])
        /\ NoStray(n, c, x) /\ n.queue[1] = cb /\ DOMAIN n.queue = {1}
    BY <2>6, OpeningIs
  <2> QED BY <2>2, <2>7
<1>15. m0.order[x] = b0
  BY <1>7, <1>12
<1>16. CASE ob.qty = 0
  <2>1. PICK cb : cb = Callback("reject", x)
    OBVIOUS
  <2>2. cb \in Callbacks /\ cb.type = "reject"
    BY <2>1, <1>1, CallbackIs DEF Types
  <2>3. Effect(a, cb) = a /\ Proper(a, cb)
    BY <2>2 DEF Effect, Proper
  <2>4. m = Queued(m0, cb)
    BY <2>1, <1>1, <1>5, <1>11, <1>15, <1>16 DEF Added
  <2>5. /\ Steady(m, a, <<>>, x) /\ \A s \in Sides : x \notin IdsOn(m.book[s])
        /\ m.order = a /\ m.pending = <<>> /\ m.parked = FALSE /\ m.queue[1] = cb
        /\ m.queue = Append(<<>>, cb) /\ NoStray(m, a, x)
    BY <2>2, <2>3, <2>4, <1>14
  <2>6. Done(m, a, <<>>, x)
    BY <2>5, <1>5, <1>7 DEF Done
  <2>7. Steady(m, a, <<>>, 0)
    BY <2>6, DoneIs
  <2>8. Len(m.queue) = 1
    <3>1. PICK q : q = <<>>
      OBVIOUS
    <3>2. q \in Seq(Callbacks) /\ Len(q) = 0
      BY <3>1
    <3>3. Len(Append(q, cb)) = 1
      BY <3>2, <2>2, AppendProperties
    <3> QED BY <3>1, <3>3, <2>5
  <2>9. Closes(m.queue) /\ Covers(m.order, m.queue)
    BY <2>2, <2>5, <2>8, <1>10, <1>14 DEF Closes, Covers, Refusals
  <2>10. NoStray(m, a, 0)
    BY <2>5, <1>5, <1>7 DEF NoStray
  <2> QED BY <2>5, <2>7, <2>9, <2>10, EndIs
<1>17. CASE ob.qty # 0
  <2>1. PICK cb : cb = Callback("accept", x)
    OBVIOUS
  <2>2. cb \in Callbacks /\ cb.type = "accept" /\ cb.order = x /\ cb.qty = 0
    BY <2>1, <1>1, CallbackIs DEF Types
  <2>3. Effect(a, cb) = o
    <3>1. Effect(a, cb) = [a EXCEPT ![x].state = IF @ = "new" THEN "accepted" ELSE @]
      BY <2>2 DEF Effect
    <3>2. a[x].state = "new" /\ b1 = [a[x] EXCEPT !.state = "accepted"]
      BY <1>3, <1>5, <1>7
    <3> QED BY <3>1, <3>2, <1>7, <1>8
  <2>12. Proper(a, cb)
    BY <2>2, <1>5, <1>7 DEF Proper
  <2>4. PICK first : first = Queued(m0, cb)
    OBVIOUS
  <2>5. /\ Steady(first, o, <<>>, x) /\ \A s \in Sides : x \notin IdsOn(first.book[s])
        /\ first.order = a /\ first.pending = <<>> /\ first.parked = FALSE
        /\ first.queue[1] = cb /\ DOMAIN first.queue = {1} /\ NoStray(first, o, x)
    BY <2>2, <2>3, <2>4, <2>12, <1>14
  <2>6. PICK t : t = [id |-> x, price |-> b0.price, open |-> b0.qty]
    OBVIOUS
  <2>7. t \in Tracker /\ t.id = x /\ t.open = ob.qty /\ t.open # 0
    BY <2>6, <1>1, <1>4, <1>5, <1>17 DEF Tracker
  <2>8. PICK put : put = IF b0.stop # 0 /\ Before(b0.side, b0.stop, m0.market)
                         THEN Parked(first, t, b0)
                         ELSE Entered(Submit(first, t), b0, x)
    OBVIOUS
  <2>9. m = Queued(SubmitPending(put), Callback("update", x))
    BY <2>1, <2>4, <2>6, <2>8, <1>1, <1>5, <1>11, <1>15, <1>17 DEF Added
  <2>10. first.queue[1].type = "accept"
    BY <2>2, <2>5
  <2>11. \E u : Sent(a, put, u)
    <3>1. CASE b0.stop # 0 /\ Before(b0.side, b0.stop, m0.market)
      <4>1. put = Parked(first, t, b0)
        BY <3>1, <2>8
      <4>2. MayWait(first.order, x)
        BY <3>1, <2>5, <1>5, <1>7, <1>12 DEF MayWait
      <4>3. Parking(first, o, <<>>, x, t, b0)
        BY <3>1, <4>2, <2>5, <2>7, <1>1, <1>5, <1>6, <1>7, <1>9 DEF Parking
      <4>4. /\ Steady(put, o, <<>>, 0) /\ put.parked = TRUE /\ put.order = first.order
            /\ put.queue = first.queue
        <5>1. Steady(put, o, <<>>, 0) /\ IsParked(first, put)
          BY <4>1, <4>3, ParkedIs
        <5>2. put \in Call
          BY <5>1 DEF Steady
        <5>3. put.parked \in BOOLEAN
          BY <5>2 DEF Call
        <5> QED BY <5>1, <5>3 DEF IsParked
      <4>5. Working(put.queue)
        BY <4>4, <2>2, <2>5 DEF Working, Openers
      <4>6. Covers(put.order, put.queue)
        BY <4>4, <2>2, <2>5, <1>5, <1>7, <1>10, <1>17 DEF Covers
      <4>7. NoStray(put, o, 0)
        BY <4>4, <2>2, <2>5, <1>5, <1>6, <1>7, <1>9 DEF NoStray, Astray
      <4> QED BY <4>4, <4>5, <4>6, <4>7, <2>2, <2>5 DEF Sent, Orderly
    <3>2. CASE ~(b0.stop # 0 /\ Before(b0.side, b0.stop, m0.market))
      <4>1. PICK d : d = Submit(first, t)
        OBVIOUS
      <4>2. put = Entered(d, b0, x)
        BY <3>2, <4>1, <2>8
      <4>3. PICK p : p = first.order[x].price
        OBVIOUS
      <4>4. d = AddOrder(first, t, p)
        BY <4>1, <4>3, <2>7 DEF Submit
      <4>5. t.open = OpenQty(o[x]) /\ p = o[x].price
        BY <4>3, <2>5, <2>7, <1>4, <1>5, <1>6, <1>7, <1>9 DEF OpenQty
      <4>6. Entering(first, o, <<>>, x, t, p)
        BY <4>5, <2>5, <2>7, <1>1, <1>6, <1>9 DEF Entering
      <4>7. PICK u : Enters(first, o, <<>>, x, d, u)
        BY <4>4, <4>6, AddOrderIs
      <4>8. b0.ioc = o[x].ioc /\ b0.qty \in Nat /\ first.order[x] = b0
        BY <2>5, <1>4, <1>5, <1>6, <1>7, <1>9
      <4>9. Arriving(first, o, x, b0, d, u)
        BY <3>2, <4>7, <4>8, <2>2, <2>5, <1>1, <1>10, <1>12 DEF Arriving
      <4>10. \E w : Sent(first.order, put, w)
        BY <4>2, <4>9, EnteredIs
      <4> QED BY <4>10, <2>5
    <3> QED BY <3>1, <3>2
  <2>13. PICK u : Steady(put, u, <<>>, 0) /\ Orderly(put, u) /\ put.order = a
    BY <2>11 DEF Sent
  <2>14. \E w : EndsFrom(put.order, m, w)
    BY <2>9, <2>13, <1>1, UpdatedIs
  <2> QED BY <2>13, <2>14
<1> QED BY <1>16, <1>17

\* The tracker of x is taken from its side s, and the first callback makes e of
\* the object of x.
Leaving(x, s, e, cb) ==
  /\ IInv /\ ~depth.lost /\ x \in Ids /\ s = order[x].side /\ x \in IdsOn(book[s])
  /\ e \in Object /\ e.filled <= e.qty /\ e.side = order[x].side /\ e.stop = order[x].stop
  /\ e.aon = order[x].aon /\ e.ioc = order[x].ioc /\ (e.aon => e.price # MarketPrice)
  /\ cb \in Callbacks /\ Effect(order, cb) = [order EXCEPT ![x] = e] /\ Proper(order, cb)
Left(x, s, cb) == Queued([Started(order) EXCEPT !.book[s] = Without(@, x)], cb)
HasLeft(n, o, x, e, cb) ==
  /\ Steady(n, o, <<>>, x) /\ \A d \in Sides : x \notin IdsOn(n.book[d])
  /\ n.order = order /\ n.pending = <<>> /\ o[x] = e
  /\ NoStray(n, o, x) /\ n.parked = FALSE /\ n.queue[1] = cb /\ DOMAIN n.queue = {1}

\* Then the rest of the book is steady.
LEMMA LeavingIs ==
  ASSUME NEW x, NEW s, NEW e, NEW cb, Leaving(x, s, e, cb), NEW o, o = [order EXCEPT ![x] = e],
         NEW n, n = Left(x, s, cb)
  PROVE  HasLeft(n, o, x, e, cb)
<1>1. /\ IInv /\ ~depth.lost /\ x \in Ids /\ s = order[x].side /\ x \in IdsOn(book[s])
      /\ e \in Object /\ e.filled <= e.qty /\ e.side = order[x].side /\ e.stop = order[x].stop
      /\ e.aon = order[x].aon /\ e.ioc = order[x].ioc /\ (e.aon => e.price # MarketPrice)
      /\ cb \in Callbacks /\ Effect(order, cb) = [order EXCEPT ![x] = e] /\ Proper(order, cb)
  BY DEF Leaving
<1>2. /\ order \in [Ids -> Object] /\ \A z \in Ids : order[z].filled <= order[z].qty
      /\ book \in [Sides -> Seq(Tracker)] /\ Whole(order)
  BY <1>1 DEF IInv, Typed, TypeOK
<1>3. s \in Sides
  BY <1>1, <1>2 DEF Object
<1>4. o \in [Ids -> Object] /\ o[x] = e /\ \A z \in Ids \ {x} : o[z] = order[z]
  BY <1>1, <1>2
<1>5. Objects(order) /\ Objects(o)
  BY <1>1, <1>2, <1>4 DEF Objects
<1>6. PICK m0 : m0 = Started(order)
  OBVIOUS
<1>7. /\ m0 \in Call /\ m0.order = order /\ m0.book = book /\ m0.stops = stops
      /\ m0.queue = <<>> /\ m0.pending = <<>> /\ m0.parked = FALSE
  BY <1>1, <1>2, <1>6, StartedIs
<1>8. PICK ts, bk : ts = book[s] /\ bk = Without(ts, x)
  OBVIOUS
<1>9. Listed(ts) /\ x \in IdsOn(ts) /\ \A d \in Sides : Listed(book[d]) /\ x \notin IdsOn(stops[d])
  BY <1>1, <1>3, <1>8, NowhereIs
<1>10. /\ Listed(bk) /\ IdsOn(bk) = IdsOn(ts) \ {x}
       /\ \A z \in IdsOn(ts) \ {x} : TrackerOf(bk, z) = TrackerOf(ts, z)
  BY <1>8, <1>9, WithoutIs
<1>11. PICK b : b = [book EXCEPT ![s] = bk]
  OBVIOUS
<1>12. /\ b \in [Sides -> Seq(Tracker)] /\ b[s] = bk
       /\ \A d \in Sides : d # s => b[d] = book[d]
  BY <1>2, <1>3, <1>10, <1>11 DEF Listed
<1>13. \A d \in Sides : d # s => x \notin IdsOn(book[d])
  <2>1. ASSUME NEW d \in Sides, x \in IdsOn(book[d]) PROVE d = s
    <3>1. Rests(order, d, TrackerOf(book[d], x))
      BY <2>1, <1>1, NowhereIs
    <3>2. TrackerOf(book[d], x).id = x
      BY <2>1, <1>9, TrackerIs
    <3> QED BY <3>1, <3>2, <1>1 DEF Rests
  <2> QED BY <2>1
<1>14. \A d \in Sides : /\ Listed(b[d]) /\ IdsOn(b[d]) = IdsOn(book[d]) \ {x}
                        /\ x \notin IdsOn(stops[d])
                        /\ \A z \in IdsOn(b[d]) : TrackerOf(b[d], z) = TrackerOf(book[d], z)
  <2>1. ASSUME NEW d \in Sides
        PROVE  /\ Listed(b[d]) /\ IdsOn(b[d]) = IdsOn(book[d]) \ {x}
               /\ \A z \in IdsOn(b[d]) : TrackerOf(b[d], z) = TrackerOf(book[d], z)
    <3>1. CASE d = s
      BY <3>1, <1>8, <1>10, <1>12
    <3>2. CASE d # s
      <4>1. b[d] = book[d] /\ x \notin IdsOn(book[d])
        BY <3>2, <1>12, <1>13
      <4> QED BY <4>1, <1>9
    <3> QED BY <3>1, <3>2
  <2> QED BY <2>1, <1>9
<1>15. Append(<<>>, cb) \in Seq(Callbacks)
  <2>1. PICK q : q = <<>>
    OBVIOUS
  <2>2. q \in Seq(Callbacks)
    BY <2>1
  <2>3. Append(q, cb) \in Seq(Callbacks)
    BY <2>2, <1>1, AppendProperties
  <2> QED BY <2>1, <2>3
<1>16. PICK nb : nb = [m0 EXCEPT !.book = b]
  OBVIOUS
<1>17. /\ nb \in Call /\ nb.order = order /\ nb.book = b /\ nb.stops = stops
       /\ nb.pending = <<>> /\ nb.queue = <<>> /\ nb.parked = FALSE
  BY <1>7, <1>12, <1>16 DEF Call
<1>18. n = Queued(nb, cb)
  <2>1. [m0 EXCEPT !.book[s] = Without(@, x)] = nb
    BY <1>7, <1>8, <1>11, <1>16 DEF Call
  <2> QED BY <2>1, <1>6 DEF Left
<1>19. /\ n \in Call /\ n.order = order /\ n.book = b /\ n.stops = stops
       /\ n.pending = <<>> /\ n.queue = Append(<<>>, cb) /\ n.parked = FALSE
  BY <1>15, <1>17, <1>18 DEF Queued, Call
<1>20. order[x].aon => order[x].price # MarketPrice
  BY <1>1, <1>2 DEF Whole
<1>21. Opening(n, order, o, x, b, cb)
  BY <1>1, <1>4, <1>5, <1>14, <1>19, <1>20 DEF Opening
<1>22. /\ Steady(n, o, <<>>, x) /\ \A d \in Sides : x \notin IdsOn(n.book[d])
       /\ NoStray(n, o, x) /\ n.queue[1] = cb /\ DOMAIN n.queue = {1}
  BY <1>21, OpeningIs
<1> QED BY <1>4, <1>19, <1>22 DEF HasLeft

\* A call that only tells that there is nothing to do.
LEMMA RejectedIs ==
  ASSUME IInv, ~depth.lost, NEW x \in Ids, NEW type \in {"cancelReject", "replaceReject"},
         NEW m, m = Queued(Started(order), Callback(type, x))
  PROVE  \E u : EndsFrom(order, m, u)
<1>1. /\ order \in [Ids -> Object] /\ \A z \in Ids : order[z].filled <= order[z].qty
      /\ book \in [Sides -> Seq(Tracker)]
  BY DEF IInv, Typed, TypeOK
<1>2. Objects(order)
  BY <1>1 DEF Objects
<1>3. PICK m0 : m0 = Started(order)
  OBVIOUS
<1>4. /\ m0 \in Call /\ m0.order = order /\ m0.book = book /\ m0.stops = stops
      /\ m0.queue = <<>> /\ m0.pending = <<>> /\ m0.parked = FALSE
  BY <1>1, <1>3, StartedIs
<1>5. PICK cb : cb = Callback(type, x)
  OBVIOUS
<1>6. cb \in Callbacks /\ cb.type = type
  <2>1. type \in Types
    BY DEF Types
  <2> QED BY <2>1, <1>5, CallbackIs
<1>7. Effect(order, cb) = order /\ Proper(order, cb)
  BY <1>6 DEF Effect, Proper
<1>8. Append(<<>>, cb) \in Seq(Callbacks)
  <2>1. PICK q : q = <<>>
    OBVIOUS
  <2>2. q \in Seq(Callbacks)
    BY <2>1
  <2>3. Append(q, cb) \in Seq(Callbacks)
    BY <2>2, <1>6, AppendProperties
  <2> QED BY <2>1, <2>3
<1>9. /\ m \in Call /\ m.order = order /\ m.book = book /\ m.stops = stops
      /\ m.pending = <<>> /\ m.queue = Append(<<>>, cb) /\ m.parked = FALSE
  BY <1>3, <1>4, <1>5, <1>8 DEF Queued, Call
<1>10. \A s \in Sides : Listed(book[s]) /\ Listed(stops[s])
  BY NowhereIs
<1>11. \A s \in Sides : /\ IdsOn(book[s]) = IdsOn(book[s]) \ {0}
                        /\ 0 \notin IdsOn(stops[s])
  BY <1>10, NoneIs, ListedFacts
<1>12. Opening(m, order, order, 0, book, cb)
  BY <1>2, <1>6, <1>7, <1>9, <1>10, <1>11, NoneIs DEF Opening
<1>13. Steady(m, order, <<>>, 0) /\ NoStray(m, order, 0) /\ m.queue[1] = cb
  BY <1>12, OpeningIs
<1>14. Len(m.queue) = 1
  <2>1. PICK q : q = <<>>
    OBVIOUS
  <2>2. q \in Seq(Callbacks) /\ Len(q) = 0
    BY <2>1
  <2>3. Len(Append(q, cb)) = 1
    BY <2>2, <1>6, AppendProperties
  <2> QED BY <2>1, <2>3, <1>9
<1>15. Closes(m.queue) /\ Covers(m.order, m.queue)
  BY <1>2, <1>6, <1>9, <1>13, <1>14 DEF Closes, Covers, Refusals
<1> QED BY <1>9, <1>13, <1>15, EndIs

\* An order that is found has a tracker on its side.
LEMMA FoundIs ==
  ASSUME IInv, ~depth.lost, NEW x \in Ids, NEW m, m = Started(order), OnMarket(m, x),
         NEW s, s = order[x].side, NEW t, t = TrackerOf(m.book[s], x)
  PROVE  /\ s \in Sides /\ x \in IdsOn(book[s]) /\ m.book = book /\ m.order = order
         /\ t \in Tracker /\ t.id = x /\ Rests(order, s, t)
         /\ order[x] \in Object /\ order[x].filled <= order[x].qty
         /\ t = TrackerOf(book[s], x)
<1>1. /\ order \in [Ids -> Object] /\ \A z \in Ids : order[z].filled <= order[z].qty
  BY DEF IInv, Typed, TypeOK
<1>2. m.book = book /\ m.order = order
  BY <1>1, StartedIs
<1>3. s \in Sides
  BY <1>1 DEF Object
<1>4. x \in IdsOn(book[s])
  BY <1>2 DEF OnMarket, IdsOn
<1>5. Listed(book[s]) /\ Rests(order, s, TrackerOf(book[s], x))
  BY <1>3, <1>4, NowhereIs
<1>6. t = TrackerOf(book[s], x)
  BY <1>2
<1> QED BY <1>1, <1>2, <1>3, <1>4, <1>5, <1>6, TrackerIs

\* cancel: the tracker is taken off the market, or there is none.
LEMMA CancelledIs ==
  ASSUME IInv, ~depth.lost, NEW x \in Ids, NEW m, m = Cancelled(Started(order), x)
  PROVE  \E u : EndsFrom(order, m, u)
<1>1. PICK m0 : m0 = Started(order)
  OBVIOUS
<1>2. CASE ~OnMarket(m0, x)
  <2>1. m = Queued(m0, Callback("cancelReject", x))
    BY <1>1, <1>2 DEF Cancelled
  <2> QED BY <2>1, <1>1, RejectedIs
<1>3. CASE OnMarket(m0, x)
  <2>1. PICK s : s = order[x].side
    OBVIOUS
  <2>2. PICK t : t = TrackerOf(m0.book[s], x)
    OBVIOUS
  <2>3. /\ s \in Sides /\ x \in IdsOn(book[s]) /\ m0.book = book /\ m0.order = order
        /\ t \in Tracker /\ t.id = x /\ Rests(order, s, t)
        /\ order[x] \in Object /\ order[x].filled <= order[x].qty
    BY <1>1, <1>3, <2>1, <2>2, FoundIs
  <2>4. PICK cb, up : cb = CallbackQty("cancel", x, t.open) /\ up = Callback("update", x)
    OBVIOUS
  <2>5. t.open \in Int
    BY <2>3 DEF Tracker
  <2>6. /\ cb \in Callbacks /\ cb.type = "cancel" /\ cb.order = x
        /\ up \in Callbacks /\ up.type = "update" /\ cb.qty = t.open
    BY <2>4, <2>5, CallbackIs DEF Types
  <2>7. PICK e : e = [order[x] EXCEPT !.state = "cancelled"]
    OBVIOUS
  <2>8. /\ e \in Object /\ e.state = "cancelled" /\ e.side = order[x].side
        /\ e.price = order[x].price /\ e.qty = order[x].qty /\ e.stop = order[x].stop
        /\ e.aon = order[x].aon /\ e.ioc = order[x].ioc /\ e.filled = order[x].filled
    <3>1. "cancelled" \in States
      BY DEF States
    <3> QED BY <3>1, <2>3, <2>7 DEF Object
  <2>9. PICK o : o = [order EXCEPT ![x] = e]
    OBVIOUS
  <2>10. order[x].state = "accepted"
    BY <2>3 DEF Rests
  <2>11. order \in [Ids -> Object] /\ Whole(order)
    BY DEF IInv, Typed
  <2>28. Objects(order)
    BY <2>11 DEF IInv, TypeOK, Objects
  <2>12. Effect(order, cb) = o
    <3>1. Effect(order, cb) =
            [order EXCEPT ![x].state = IF @ = "complete" THEN @ ELSE "cancelled"]
      BY <2>6 DEF Effect
    <3> QED BY <3>1, <2>7, <2>9, <2>10, <2>11
  <2>22. Proper(order, cb)
    BY <2>3, <2>6, <2>10 DEF Proper, Rests
  <2>13. e.aon => e.price # MarketPrice /\ e.filled \in {0, e.qty}
    BY <2>8, <2>11 DEF Whole
  <2>14. Leaving(x, s, e, cb)
    BY <2>1, <2>3, <2>6, <2>8, <2>9, <2>12, <2>13, <2>22 DEF Leaving
  <2>15. PICK n : n = Left(x, s, cb)
    OBVIOUS
  <2>16. /\ Steady(n, o, <<>>, x) /\ \A d \in Sides : x \notin IdsOn(n.book[d])
         /\ n.pending = <<>> /\ o[x] = e /\ n.order = order
         /\ NoStray(n, o, x) /\ n.parked = FALSE /\ n.queue[1] = cb /\ DOMAIN n.queue = {1}
    <3>1. HasLeft(n, o, x, e, cb)
      BY <2>9, <2>14, <2>15, LeavingIs
    <3> QED BY <3>1 DEF HasLeft
  <2>17. Done(n, o, <<>>, x)
    BY <2>8, <2>13, <2>16 DEF Done
  <2>18. Steady(n, o, <<>>, 0)
    BY <2>17, DoneIs
  <2>19. up.type \in Silent
    BY <2>6 DEF Silent
  <2>20. m = Queued(n, up)
    <3>1. m = Queued(Queued([m0 EXCEPT !.book[s] = Without(@, x)], cb), up)
      BY <1>1, <1>3, <2>1, <2>2, <2>3, <2>4 DEF Cancelled
    <3> QED BY <3>1, <1>1, <2>15 DEF Left
  <2>21. /\ Steady(m, o, <<>>, 0) /\ m.pending = n.pending
         /\ m.order = n.order /\ m.parked = n.parked /\ m.queue = Append(n.queue, up)
    BY <2>6, <2>18, <2>19, <2>20, QueuedIs
  <2>23. n.queue \in Seq(Callbacks) /\ n.queue # <<>> /\ Working(n.queue)
    <3>1. Working(n.queue)
      BY <2>6, <2>16 DEF Working, Openers
    <3> QED BY <3>1, <2>18 DEF Steady, Reached
  <2>24. m.queue[1] = n.queue[1] /\ (Working(n.queue) /\ up.type = "update" => Closes(m.queue))
    <3>1. m.queue[1] = n.queue[1]
      BY <2>6, <2>21, <2>23, WorkingEnds
    <3>2. Working(n.queue) /\ up.type = "update" => Closes(m.queue)
      BY <2>6, <2>21, <2>23, WorkingEnds
    <3> QED BY <3>1, <3>2
  <2>25. Closes(m.queue) /\ Covers(m.order, m.queue)
    BY <2>6, <2>16, <2>21, <2>23, <2>24, <2>28 DEF Covers
  <2>26. NoStray(m, o, 0) /\ ~m.parked
    BY <2>8, <2>16, <2>21 DEF NoStray, Astray
  <2>27. m.pending = <<>>
    BY <2>16, <2>21
  <2>29. EndsFrom(m.order, m, o)
    BY <2>21, <2>25, <2>26, <2>27, EndIs
  <2> QED BY <2>16, <2>21, <2>29
<1> QED BY <1>2, <1>3, <1>1

\* What a replacement makes of the quantity.
LEMMA DeltaIs ==
  ASSUME NEW open \in Nat, open > 0, NEW d \in Int, NEW delta,
         delta = IF d < 0 /\ open < -d THEN -open ELSE d
  PROVE  delta \in Int /\ open + delta \in Nat
<1>1. CASE d < 0 /\ open < -d
  BY <1>1
<1>2. CASE ~(d < 0 /\ open < -d)
  BY <1>2
<1> QED BY <1>1, <1>2

\* The callback of a replacement.
LEMMA ReplaceEffect ==
  ASSUME NEW o, NEW cb, cb.type = "replace", o[cb.order].state = "accepted",
         NEW e, e = Revised(o[cb.order], cb)
  PROVE  Effect(o, cb) = [o EXCEPT ![cb.order] = e]
<1> DEFINE a == o[cb.order].state # "accepted"
<1>1. Effect(o, cb) = [o EXCEPT ![cb.order] = IF a THEN @ ELSE e]
  BY DEF Effect
<1>2. ~a
  OBVIOUS
<1> HIDE DEF a
<1>3. (IF a THEN o[cb.order] ELSE e) = e
  BY <1>2
<1> QED BY <1>1, <1>3

\* replace: the tracker leaves, and enters again with what is left of it.
LEMMA ReplacedIs ==
  ASSUME IInv, ~depth.lost, NEW x \in Ids, NEW r \in Replacements,
         NEW m, m = Replaced(Started(order), x, r)
  PROVE  \E u : EndsFrom(order, m, u)
<1>1. PICK m0 : m0 = Started(order)
  OBVIOUS
<1>2. CASE ~OnMarket(m0, x)
  <2>1. m = Queued(m0, Callback("replaceReject", x))
    BY <1>1, <1>2 DEF Replaced
  <2> QED BY <2>1, <1>1, RejectedIs
<1>3. CASE OnMarket(m0, x)
  <2>1. PICK s : s = order[x].side
    OBVIOUS
  <2>2. PICK t : t = TrackerOf(m0.book[s], x)
    OBVIOUS
  <2>3. /\ s \in Sides /\ x \in IdsOn(book[s]) /\ m0.book = book /\ m0.order = order
        /\ t \in Tracker /\ t.id = x /\ Rests(order, s, t)
        /\ order[x] \in Object /\ order[x].filled <= order[x].qty
    BY <1>1, <1>3, <2>1, <2>2, FoundIs
  <2>4. /\ order[x].state = "accepted" /\ ~order[x].ioc /\ t.price = order[x].price
        /\ t.open = OpenQty(order[x]) /\ t.open > 0 /\ t.open \in Nat
    BY <2>3 DEF Rests, Tracker
  <2>5. r.delta \in Int /\ r.price \in Nat
    BY OrdersAssumption
  <2>6. PICK p : p = IF r.price = MarketPrice THEN order[x].price ELSE r.price
    OBVIOUS
  <2>7. p \in Nat /\ (order[x].price # MarketPrice => p # MarketPrice)
    BY <2>3, <2>5, <2>6 DEF Object
  <2>8. PICK delta : delta = IF r.delta < 0 /\ t.open < -r.delta THEN -t.open ELSE r.delta
    OBVIOUS
  <2>9. delta \in Int /\ t.open + delta \in Nat
    BY <2>4, <2>5, <2>8, DeltaIs
  <2>10. PICK cb : cb = ReplaceCallback(x, t.open, delta, p)
    OBVIOUS
  <2>11. /\ cb \in Callbacks /\ cb.type = "replace" /\ cb.order = x /\ cb.delta = delta
         /\ cb.price = p /\ cb.qty = t.open
    <3>1. PICK c : c = Callback("replace", x)
      OBVIOUS
    <3>2. c \in Callbacks /\ c.type = "replace" /\ c.order = x
      BY <3>1, CallbackIs DEF Types
    <3>3. cb = [c EXCEPT !.qty = t.open, !.delta = delta, !.price = p]
      BY <2>10, <3>1 DEF ReplaceCallback
    <3>4. t.open \in Int
      BY <2>4
    <3> QED BY <3>2, <3>3, <3>4, <2>7, <2>9 DEF Callbacks
  <2>12. PICK e : e = [order[x] EXCEPT !.qty = @ + delta, !.price = p]
    OBVIOUS
  <2>13. order[x].qty + delta \in Nat /\ order[x].filled <= order[x].qty + delta
         /\ order[x].qty + delta - order[x].filled = t.open + delta
    BY <2>3, <2>4, <2>9 DEF OpenQty, Object
  <2>14. /\ e \in Object /\ e.qty = order[x].qty + delta /\ e.price = p
         /\ e.state = "accepted" /\ e.side = order[x].side
         /\ e.stop = order[x].stop /\ e.aon = order[x].aon /\ e.ioc = order[x].ioc
         /\ e.filled = order[x].filled
    BY <2>3, <2>4, <2>7, <2>12, <2>13 DEF Object
  <2>15. OpenQty(e) = t.open + delta
    BY <2>3, <2>9, <2>13, <2>14 DEF OpenQty, Object
  <2>16. order \in [Ids -> Object] /\ Whole(order)
    BY DEF IInv, Typed
  <2>31. Objects(order)
    BY <2>16 DEF IInv, TypeOK, Objects
  <2>17. e.aon => e.price # MarketPrice /\ e.filled = 0
    <3>1. order[x].aon => order[x].price # MarketPrice /\ order[x].filled \in {0, order[x].qty}
      BY <2>16 DEF Whole
    <3>2. order[x].filled # order[x].qty
      <4>1. order[x].filled < order[x].qty
        BY <2>4 DEF OpenQty
      <4>2. order[x].filled \in Nat /\ order[x].qty \in Nat
        BY <2>3 DEF Object
      <4> QED BY <4>1, <4>2
    <3> QED BY <3>1, <3>2, <2>7, <2>14
  <2>18. PICK o : o = [order EXCEPT ![x] = e]
    OBVIOUS
  <2>19. Effect(order, cb) = o
    <3>1. e = Revised(order[cb.order], cb)
      BY <2>11, <2>12 DEF Revised
    <3>2. Effect(order, cb) = [order EXCEPT ![cb.order] = e]
      BY <3>1, <2>4, <2>11, ReplaceEffect
    <3> QED BY <3>2, <2>11, <2>18
  <2>29. Proper(order, cb)
    BY <2>4, <2>7, <2>9, <2>11 DEF Proper
  <2>20. Leaving(x, s, e, cb)
    BY <2>1, <2>3, <2>11, <2>13, <2>14, <2>17, <2>18, <2>19, <2>29 DEF Leaving
  <2>21. PICK n : n = Left(x, s, cb)
    OBVIOUS
  <2>22. HasLeft(n, o, x, e, cb)
    BY <2>18, <2>20, <2>21, LeavingIs
  <2>23. /\ Steady(n, o, <<>>, x) /\ \A d \in Sides : x \notin IdsOn(n.book[d])
         /\ n.pending = <<>> /\ o[x] = e /\ n.order = order
         /\ NoStray(n, o, x) /\ n.parked = FALSE /\ n.queue[1] = cb /\ DOMAIN n.queue = {1}
    BY <2>22 DEF HasLeft
  <2>30. Orderly(n, o)
    <3>1. Working(n.queue) /\ Covers(n.order, n.queue)
      BY <2>11, <2>23, <2>31 DEF Working, Covers, Openers
    <3>2. NoStray(n, o, 0)
      BY <2>4, <2>23 DEF NoStray, MayRest
    <3> QED BY <3>1, <3>2, <2>23 DEF Orderly
  <2>24. PICK i : i = [t EXCEPT !.open = @ + delta]
    OBVIOUS
  <2>25. i \in Tracker /\ i.id = x /\ i.open = t.open + delta
    BY <2>3, <2>9, <2>24 DEF Tracker
  <2>26. PICK put : put = IF t.open + delta = 0 THEN Queued(n, CallbackQty("cancel", x, 0))
                          ELSE AddOrder(n, i, p)
    OBVIOUS
  <2>27. m = Queued(SubmitPending(put), Callback("update", x))
    BY <1>1, <1>3, <2>1, <2>2, <2>3, <2>6, <2>8, <2>10, <2>21, <2>24, <2>26 DEF Replaced, Left
  <2>28. \E u : Sent(order, put, u)
    <3>1. CASE t.open + delta = 0
      <4>1. PICK cc : cc = CallbackQty("cancel", x, 0)
        OBVIOUS
      <4>2. cc \in Callbacks /\ cc.type = "cancel" /\ cc.order = x /\ cc.qty = 0
        BY <4>1, CallbackIs DEF Types
      <4>3. Dropping(n, o, <<>>, x, cc)
        BY <3>1, <4>2, <2>14, <2>15, <2>17, <2>23 DEF Dropping
      <4>4. put = Queued(n, cc)
        BY <3>1, <4>1, <2>26
      <4>5. put.order = n.order /\ put.parked = n.parked /\ put.queue = Append(n.queue, cc)
        BY <4>3, <4>4, DroppedIs
      <4>6. PICK w : Steady(put, w, <<>>, 0) /\ w[x].state = "cancelled" /\ \A z \in Ids \ {x} : w[z] = o[z]
        BY <4>3, <4>4, DroppedIs
      <4>7. n.queue \in Seq(Callbacks) /\ n.queue # <<>>
        BY <2>23 DEF Steady, Reached
      <4>8. put.queue[1] = n.queue[1]
        BY <4>2, <4>5, <4>7, WorkingEnds
      <4>9. Working(n.queue) /\ cc.type \in {"fill", "cancel"} => Working(put.queue)
        BY <4>2, <4>5, <4>7, WorkingEnds
      <4>10. Working(put.queue) /\ Covers(put.order, put.queue)
        BY <4>2, <4>5, <4>8, <4>9, <2>11, <2>23, <2>30, <2>31 DEF Orderly, Covers
      <4>11. NoStray(put, w, 0)
        BY <4>5, <4>6, <2>23 DEF NoStray, Astray
      <4> QED BY <4>5, <4>6, <4>10, <4>11, <2>23 DEF Sent, Orderly
    <3>2. CASE t.open + delta # 0
      <4>1. put = AddOrder(n, i, p)
        BY <3>2, <2>26
      <4>2. Entering(n, o, <<>>, x, i, p)
        BY <3>2, <2>14, <2>15, <2>17, <2>23, <2>25 DEF Entering
      <4>3. PICK u : Enters(n, o, <<>>, x, put, u)
        BY <4>1, <4>2, AddOrderIs
      <4>4. ~o[x].ioc
        BY <2>4, <2>14, <2>23
      <4>5. Steady(put, u, <<>>, 0) /\ Carries(n, o, put, u)
        BY <4>3, <4>4 DEF Enters, Course
      <4>6. Orderly(put, u)
        BY <4>5, <2>30, OrderlyCarries
      <4>7. put.order = order
        BY <4>5, <2>23 DEF Carries
      <4> QED BY <4>5, <4>6, <4>7 DEF Sent
    <3> QED BY <3>1, <3>2
  <2>32. PICK u : Steady(put, u, <<>>, 0) /\ Orderly(put, u) /\ put.order = order
    BY <2>28 DEF Sent
  <2>33. \E w : EndsFrom(put.order, m, w)
    BY <2>27, <2>32, <1>1, UpdatedIs
  <2> QED BY <2>32, <2>33
<1> QED BY <1>2, <1>3, <1>1
=============================================================================
