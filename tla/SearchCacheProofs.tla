------------------------- MODULE SearchCacheProofs -------------------------
(***************************************************************************)
(* Safety of the search cache, for every set of keys and searchers, every  *)
(* capacity, life time and duration of a search.                           *)
(***************************************************************************)
EXTENDS SearchCache, SequenceTheorems, TLAPS

(***************************************************************************)
(* Lists without repetition: what taking an element out, putting one in    *)
(* front and dropping the last do to their members and their order.        *)
(***************************************************************************)
Precedes(s, x, y) ==
    \E p, q \in 1 .. Len(s) : p < q /\ s[p] = x /\ s[q] = y

\* s is a list over S in which nothing occurs twice.
ListOf(S, s) == s \in Seq(S) /\ IsInjective(s)

\* The facts about Seq that the lemmas need, in one place.
LEMMA ListFacts ==
    ASSUME NEW S, NEW s \in Seq(S)
    PROVE  /\ Len(s) \in Nat
           /\ DOMAIN s = 1 .. Len(s)
           /\ \A j \in 1 .. Len(s) : s[j] \in S
           /\ ToSet(s) = {s[j] : j \in 1 .. Len(s)}
           /\ IsInjective(s) <=>
                 \A i, j \in 1 .. Len(s) : s[i] = s[j] => i = j
BY LenProperties, Zenon DEF ToSet, IsInjective

\* The members of a list are its elements.
LEMMA Members ==
    ASSUME NEW S, NEW s \in Seq(S)
    PROVE  ToSet(s) = {s[j] : j \in 1 .. Len(s)}
BY LenProperties DEF ToSet

\* The elements of a list that are in order are members.
LEMMA PrecedesMembers ==
    ASSUME NEW S, NEW s \in Seq(S), NEW x, NEW y, Precedes(s, x, y)
    PROVE  x \in ToSet(s) /\ y \in ToSet(s)
<1>1. ToSet(s) = {s[j] : j \in 1 .. Len(s)}
  BY Members
<1> QED
  BY <1>1, Zenon DEF Precedes

\* Removing the element at a position closes the gap.
LEMMA RemoveAtFacts ==
    ASSUME NEW S, NEW s \in Seq(S), NEW i \in 1 .. Len(s)
    PROVE  /\ RemoveAt(s, i) \in Seq(S)
           /\ Len(RemoveAt(s, i)) = Len(s) - 1
           /\ \A j \in 1 .. Len(s) - 1 :
                 RemoveAt(s, i)[j] = IF j < i THEN s[j] ELSE s[j + 1]
<1>1. Len(s) \in Nat /\ \A j \in 1 .. Len(s) : s[j] \in S
  BY LenProperties
<1> DEFINE a == SubSeq(s, 1, i - 1)
           b == SubSeq(s, i + 1, Len(s))
<1>2. a \in Seq(S) /\ Len(a) = i - 1 /\ \A j \in 1 .. i - 1 : a[j] = s[j]
  BY <1>1, SubSeqProperties
<1>3. b \in Seq(S) /\ Len(b) = Len(s) - i /\ \A j \in 1 .. Len(s) - i : b[j] = s[i + j]
  BY <1>1, SubSeqProperties
<1>4. RemoveAt(s, i) = a \o b
  BY DEF RemoveAt
<1> HIDE DEF a, b
<1>5. /\ a \o b \in Seq(S)
      /\ Len(a \o b) = Len(a) + Len(b)
      /\ \A j \in 1 .. Len(a) + Len(b) :
            (a \o b)[j] = IF j <= Len(a) THEN a[j] ELSE b[j - Len(a)]
  BY <1>2, <1>3, ConcatProperties
<1>6. ASSUME NEW j \in 1 .. Len(s) - 1
      PROVE  (a \o b)[j] = IF j < i THEN s[j] ELSE s[j + 1]
  <2>1. CASE j < i
    BY <2>1, <1>1, <1>2, <1>3, <1>5
  <2>2. CASE j >= i
    <3>1. j - Len(a) \in 1 .. Len(s) - i /\ ~(j <= Len(a)) /\ j \in 1 .. Len(a) + Len(b)
      BY <2>2, <1>1, <1>2, <1>3
    <3>2. (a \o b)[j] = b[j - Len(a)]
      BY <3>1, <1>5
    <3>3. b[j - Len(a)] = s[i + (j - Len(a))]
      BY <3>1, <1>3
    <3>4. i + (j - Len(a)) = j + 1
      BY <1>1, <1>2
    <3> QED
      BY <3>2, <3>3, <3>4, <2>2, <1>1
  <2>3. j < i \/ j >= i
    BY <1>1
  <2> QED
    BY <2>1, <2>2, <2>3
<1> QED
  BY <1>1, <1>2, <1>3, <1>4, <1>5, <1>6

\* In a list without repetition the first occurrence is the only one.
LEMMA RemoveFirstIsAt ==
    ASSUME NEW S, NEW s, ListOf(S, s), NEW i \in 1 .. Len(s)
    PROVE  RemoveFirst(s, s[i]) = RemoveAt(s, i)
<1>1. {j \in 1 .. Len(s) : s[j] = s[i]} = {i}
  BY ListFacts DEF ListOf
<1>2. Min({i}) = i
  BY DEF Min
<1> QED
  BY <1>1, <1>2 DEF RemoveFirst, SelectInSeq

\* An element that does not occur is not removed.
LEMMA RemoveFirstAbsent ==
    ASSUME NEW S, NEW s \in Seq(S), NEW k, k \notin ToSet(s)
    PROVE  RemoveFirst(s, k) = s
BY ListFacts DEF RemoveFirst, SelectInSeq

\* Taking k out of a list without repetition leaves the rest in order.
LEMMA RemoveFacts ==
    ASSUME NEW S, NEW s, ListOf(S, s), NEW k
    PROVE  /\ ListOf(S, RemoveFirst(s, k))
           /\ ToSet(RemoveFirst(s, k)) = ToSet(s) \ {k}
           /\ Len(RemoveFirst(s, k)) = IF k \in ToSet(s) THEN Len(s) - 1 ELSE Len(s)
           /\ \A x, y : Precedes(RemoveFirst(s, k), x, y)
                       <=> Precedes(s, x, y) /\ x # k /\ y # k
<1> DEFINE r == RemoveFirst(s, k)
<1>1. s \in Seq(S) /\ IsInjective(s) /\ Len(s) \in Nat
  BY ListFacts DEF ListOf
<1>2. CASE k \notin ToSet(s)
  <2>1. r = s
    BY <1>1, <1>2, RemoveFirstAbsent
  <2>2. \A x, y : Precedes(s, x, y) => x # k /\ y # k
    BY <1>1, <1>2, PrecedesMembers
  <2> QED
    BY <2>1, <2>2, <1>1, <1>2
<1>3. CASE k \in ToSet(s)
  <2>1. ToSet(s) = {s[j] : j \in 1 .. Len(s)}
    BY <1>1, Members
  <2>2. PICK i \in 1 .. Len(s) : s[i] = k
    BY <2>1, <1>3
  <2>3. r = RemoveAt(s, i)
    BY <2>2, RemoveFirstIsAt
  <2> HIDE DEF r
  <2>4. /\ r \in Seq(S)
        /\ Len(r) = Len(s) - 1
        /\ \A j \in 1 .. Len(s) - 1 : r[j] = IF j < i THEN s[j] ELSE s[j + 1]
    BY <2>3, <1>1, RemoveAtFacts
  <2>5. \A p, q \in 1 .. Len(s) : s[p] = s[q] => p = q
    BY <1>1, ListFacts, Zenon
  <2> DEFINE Up(j) == IF j < i THEN j ELSE j + 1
             Down(j) == IF j < i THEN j ELSE j - 1
  <2>6. \A j \in 1 .. Len(r) : Up(j) \in 1 .. Len(s) /\ Up(j) # i /\ r[j] = s[Up(j)]
    BY <2>4, <1>1
  <2>7. \A p, q \in 1 .. Len(r) : (p < q <=> Up(p) < Up(q)) /\ (Up(p) = Up(q) => p = q)
    BY <2>4, <1>1
  <2>8. \A j \in 1 .. Len(s) : j # i => Down(j) \in 1 .. Len(r) /\ Up(Down(j)) = j
    BY <2>4, <1>1
  <2> HIDE DEF Up, Down
  <2>9. ListOf(S, r)
    <3>1. \A p, q \in 1 .. Len(r) : r[p] = r[q] => p = q
      BY <2>5, <2>6, <2>7
    <3> QED
      BY <3>1, <2>4, ListFacts DEF ListOf
  <2>10. ToSet(r) = ToSet(s) \ {k}
    <3>1. ToSet(r) = {r[j] : j \in 1 .. Len(r)}
      BY <2>4, Members
    <3>2. ASSUME NEW j \in 1 .. Len(r) PROVE r[j] \in ToSet(s) /\ r[j] # k
      BY <2>1, <2>2, <2>5, <2>6
    <3>3. ASSUME NEW j \in 1 .. Len(s), s[j] # k PROVE s[j] \in ToSet(r)
      BY <3>1, <3>3, <2>2, <2>6, <2>8
    <3> QED
      BY <3>1, <3>2, <3>3, <2>1
  <2>11. ASSUME NEW x, NEW y, Precedes(r, x, y)
         PROVE  Precedes(s, x, y) /\ x # k /\ y # k
    BY <2>11, <2>2, <2>5, <2>6, <2>7 DEF Precedes
  <2>12. ASSUME NEW x, NEW y, Precedes(s, x, y), x # k, y # k
         PROVE  Precedes(r, x, y)
    <3>1. PICK p \in 1 .. Len(s), q \in 1 .. Len(s) : p < q /\ s[p] = x /\ s[q] = y
      BY <2>12 DEF Precedes
    <3>2. p # i /\ q # i
      BY <3>1, <2>2, <2>12
    <3>3. /\ Down(p) \in 1 .. Len(r) /\ Up(Down(p)) = p
          /\ Down(q) \in 1 .. Len(r) /\ Up(Down(q)) = q
      BY <3>1, <3>2, <2>8
    <3>4. Down(p) < Down(q) /\ r[Down(p)] = x /\ r[Down(q)] = y
      BY <3>1, <3>3, <2>6, <2>7
    <3> QED
      BY <3>3, <3>4, Zenon DEF Precedes
  <2> QED
    BY <2>4, <2>9, <2>10, <2>11, <2>12, <1>3 DEF r
<1> QED
  BY <1>2, <1>3

\* A new element in front precedes all the others.
LEMMA PushFacts ==
    ASSUME NEW S, NEW s, ListOf(S, s), NEW k \in S, k \notin ToSet(s)
    PROVE  /\ ListOf(S, <<k>> \o s)
           /\ ToSet(<<k>> \o s) = ToSet(s) \union {k}
           /\ Len(<<k>> \o s) = Len(s) + 1
           /\ \A x, y : Precedes(<<k>> \o s, x, y)
                       <=> (x = k /\ y \in ToSet(s)) \/ Precedes(s, x, y)
<1> DEFINE r == <<k>> \o s
<1>1. s \in Seq(S) /\ Len(s) \in Nat /\ ToSet(s) = {s[j] : j \in 1 .. Len(s)}
  BY ListFacts, Zenon DEF ListOf
<1>2. <<k>> \in Seq(S) /\ Len(<<k>>) = 1 /\ <<k>>[1] = k
  OBVIOUS
<1>3. /\ r \in Seq(S) /\ Len(r) = Len(<<k>>) + Len(s)
      /\ \A j \in 1 .. Len(<<k>>) + Len(s) :
            r[j] = IF j <= Len(<<k>>) THEN <<k>>[j] ELSE s[j - Len(<<k>>)]
  BY <1>1, <1>2, ConcatProperties, Zenon
<1> HIDE DEF r
<1>4. /\ Len(r) = Len(s) + 1 /\ r[1] = k /\ 1 \in 1 .. Len(r)
      /\ \A j \in 1 .. Len(s) : j + 1 \in 1 .. Len(r) /\ r[j + 1] = s[j]
      /\ \A j \in 1 .. Len(r) : j = 1 \/ (j - 1 \in 1 .. Len(s) /\ r[j] = s[j - 1])
  BY <1>1, <1>2, <1>3
<1>5. \A p, q \in 1 .. Len(s) : s[p] = s[q] => p = q
  BY <1>1, ListFacts, Zenon DEF ListOf
<1>6. ToSet(r) = {r[j] : j \in 1 .. Len(r)}
  BY <1>3, Members
<1>7. ToSet(r) = ToSet(s) \union {k}
  BY <1>1, <1>4, <1>6
<1>8. ListOf(S, r)
  <2>1. ASSUME NEW p \in 1 .. Len(r), NEW q \in 1 .. Len(r), r[p] = r[q] PROVE p = q
    <3>1. CASE p = 1 /\ q # 1
      BY <3>1, <2>1, <1>1, <1>4
    <3>2. CASE p # 1 /\ q = 1
      BY <3>2, <2>1, <1>1, <1>4
    <3>3. CASE p # 1 /\ q # 1
      <4>1. /\ p - 1 \in 1 .. Len(s) /\ q - 1 \in 1 .. Len(s)
            /\ s[p - 1] = s[q - 1]
        BY <3>3, <2>1, <1>4
      <4>2. p - 1 = q - 1
        BY <4>1, <1>5
      <4> QED
        BY <4>2
    <3> QED
      BY <3>1, <3>2, <3>3
  <2> QED
    BY <2>1, <1>3, ListFacts DEF ListOf
<1>9. ASSUME NEW x, NEW y, Precedes(r, x, y)
      PROVE  (x = k /\ y \in ToSet(s)) \/ Precedes(s, x, y)
  <2>1. PICK p \in 1 .. Len(r), q \in 1 .. Len(r) : p < q /\ r[p] = x /\ r[q] = y
    BY <1>9 DEF Precedes
  <2>2. q - 1 \in 1 .. Len(s) /\ y = s[q - 1]
    BY <2>1, <1>4
  <2>3. CASE p = 1
    BY <2>1, <2>2, <2>3, <1>1, <1>4
  <2>4. CASE p # 1
    <3>1. p - 1 \in 1 .. Len(s) /\ x = s[p - 1] /\ p - 1 < q - 1
      BY <2>1, <2>4, <1>4
    <3> QED
      BY <2>2, <3>1 DEF Precedes
  <2> QED
    BY <2>3, <2>4
<1>10. ASSUME NEW x, NEW y, (x = k /\ y \in ToSet(s)) \/ Precedes(s, x, y)
       PROVE  Precedes(r, x, y)
  <2>1. CASE x = k /\ y \in ToSet(s)
    <3>1. PICK q \in 1 .. Len(s) : s[q] = y
      BY <2>1, <1>1
    <3>2. q + 1 \in 1 .. Len(r) /\ r[q + 1] = y /\ 1 < q + 1
      BY <3>1, <1>4
    <3> QED
      BY <2>1, <3>2, <1>4, Zenon DEF Precedes
  <2>2. CASE Precedes(s, x, y)
    <3>1. PICK p \in 1 .. Len(s), q \in 1 .. Len(s) : p < q /\ s[p] = x /\ s[q] = y
      BY <2>2 DEF Precedes
    <3>2. /\ p + 1 \in 1 .. Len(r) /\ r[p + 1] = x
          /\ q + 1 \in 1 .. Len(r) /\ r[q + 1] = y /\ p + 1 < q + 1
      BY <3>1, <1>4
    <3> QED
      BY <3>2, Zenon DEF Precedes
  <2> QED
    BY <1>10, <2>1, <2>2
<1> QED
  BY <1>4, <1>7, <1>8, <1>9, <1>10 DEF r

\* Dropping the last element removes exactly that one.
LEMMA FrontFacts ==
    ASSUME NEW S, NEW s, ListOf(S, s), Len(s) > 0
    PROVE  /\ ListOf(S, Front(s))
           /\ ToSet(Front(s)) = ToSet(s) \ {Last(s)}
           /\ Len(Front(s)) = Len(s) - 1
           /\ \A x, y : Precedes(Front(s), x, y) => Precedes(s, x, y)
<1> DEFINE r == Front(s)
<1>1. /\ s \in Seq(S) /\ Len(s) \in Nat /\ ToSet(s) = {s[j] : j \in 1 .. Len(s)}
      /\ \A j \in 1 .. Len(s) : s[j] \in S
  BY ListFacts, Zenon DEF ListOf
<1>2. r \in Seq(S) /\ Len(r) = Len(s) - 1 /\ \A j \in 1 .. Len(s) - 1 : r[j] = s[j]
  <2>1. \A j \in 1 .. Len(s) - 1 : s[j] \in S
    BY <1>1
  <2>2. SubSeq(s, 1, Len(s) - 1) = r
    BY DEF Front
  <2> HIDE DEF r
  <2>3. /\ r \in Seq(S)
        /\ Len(r) = IF 1 <= Len(s) - 1 THEN Len(s) - 1 - 1 + 1 ELSE 0
        /\ \A j \in 1 .. Len(s) - 1 - 1 + 1 : r[j] = s[1 + j - 1]
    BY <1>1, <2>1, <2>2, SubSeqProperties
  <2>4. ASSUME NEW j \in 1 .. Len(s) - 1 PROVE r[j] = s[j]
    <3>1. j \in 1 .. Len(s) - 1 - 1 + 1 /\ 1 + j - 1 = j
      BY <1>1
    <3> QED
      BY <3>1, <2>3
  <2>5. Len(r) = Len(s) - 1
    <3>1. Len(s) \in Nat /\ Len(s) > 0
      BY <1>1
    <3>2. Len(r) = IF 1 <= Len(s) - 1 THEN Len(s) - 1 - 1 + 1 ELSE 0
      BY <2>3
    <3>3. \A n \in Nat : n > 0 => (IF 1 <= n - 1 THEN n - 1 - 1 + 1 ELSE 0) = n - 1
      BY SMT
    <3>4. (IF 1 <= Len(s) - 1 THEN Len(s) - 1 - 1 + 1 ELSE 0) = Len(s) - 1
      BY <3>1, <3>3
    <3> QED
      BY <3>2, <3>4
  <2> QED
    BY <2>3, <2>4, <2>5
<1> HIDE DEF r
<1>3. \A p, q \in 1 .. Len(s) : s[p] = s[q] => p = q
  BY <1>1, ListFacts, Zenon DEF ListOf
<1>4. ToSet(r) = {r[j] : j \in 1 .. Len(r)}
  BY <1>2, Members
<1>5. \A j \in 1 .. Len(r) : j \in 1 .. Len(s) /\ j # Len(s) /\ r[j] = s[j]
  BY <1>1, <1>2
<1>6. \A j \in 1 .. Len(s) : j # Len(s) => j \in 1 .. Len(r)
  BY <1>1, <1>2
<1>7. ListOf(S, r)
  <2>1. \A p, q \in 1 .. Len(r) : r[p] = r[q] => p = q
    BY <1>3, <1>5
  <2> QED
    BY <2>1, <1>2, ListFacts DEF ListOf
<1>8. ToSet(r) = ToSet(s) \ {Last(s)}
  <2>1. Len(s) \in 1 .. Len(s)
    BY <1>1
  <2>2. ASSUME NEW j \in 1 .. Len(r) PROVE r[j] \in ToSet(s) /\ r[j] # s[Len(s)]
    BY <2>1, <1>1, <1>3, <1>5
  <2>3. ASSUME NEW j \in 1 .. Len(s), s[j] # s[Len(s)] PROVE s[j] \in ToSet(r)
    <3>1. j \in 1 .. Len(r) /\ r[j] = s[j]
      BY <2>3, <1>5, <1>6
    <3> QED
      BY <3>1, <1>4
  <2> QED
    BY <2>2, <2>3, <1>1, <1>4 DEF Last
<1>9. \A x, y : Precedes(r, x, y) => Precedes(s, x, y)
  BY <1>5, Zenon DEF Precedes
<1> QED
  BY <1>2, <1>7, <1>8, <1>9 DEF r

(***************************************************************************)
(* The inductive invariant: what a search in flight holds is not older     *)
(* than the search, and the list is ordered as the history of the calls.   *)
(***************************************************************************)
\* A version that is not superseded has no age.
CurrentIsFresh == \A v \in 0 .. MaxWrites : v >= version => age[v] = 0

\* What is about to be stored was fetched while the search ran.
FillsAreYoung ==
    \A s \in Searchers :
        /\ pc[s] # "idle" => asked[s] \in [key : Keys, limit : Limits]
        /\ pc[s] = "store" => /\ answer[s] \in Answers
                              /\ age[answer[s].version] <= elapsed[s]

Fresh == CurrentIsFresh /\ FillsAreYoung /\ StalenessBounded

\* The list agrees with the history of use.
Ordered ==
    /\ IsInjective(recent)
    /\ ToSet(order) \subseteq ToSet(recent)
    /\ \A x, y : Precedes(order, x, y) => Precedes(recent, x, y)

\* Both defaults are positive, and so are the capacity and the life time.
LEMMA ParametersPositive ==
    /\ Capacity \in Nat \ {0}
    /\ Lifetime \in Nat \ {0}
    /\ AgeCap \in Nat
    /\ FetchTime \in Nat
    /\ MaxWrites \in Nat
BY CacheAssumption, SearchAssumption, SMT DEF Capacity, Lifetime, AgeCap

(***************************************************************************)
(* The two lists.                                                          *)
(***************************************************************************)
ListInv ==
    /\ order \in Seq(Keys)
    /\ recent \in Seq(Keys)
    /\ MapMatchesList
    /\ Ordered

\* Using k when the rest of the list is o: k comes first in both lists.
LEMMA UseKeepsOrder ==
    ASSUME ListInv, NEW k \in Keys, Used(k),
           NEW o, ListOf(Keys, o), k \notin ToSet(o), order' = <<k>> \o o,
           ToSet(o) \subseteq ToSet(order),
           \A x, y : Precedes(o, x, y) => Precedes(order, x, y)
    PROVE  /\ order' \in Seq(Keys) /\ IsInjective(order')
           /\ ToSet(order') = ToSet(o) \union {k}
           /\ Len(order') = Len(o) + 1
           /\ recent' \in Seq(Keys)
           /\ Ordered'
<1> DEFINE r == RemoveFirst(recent, k)
<1>1. ListOf(Keys, recent)
  BY DEF ListInv, Ordered, ListOf
<1>2. /\ ListOf(Keys, r)
      /\ ToSet(r) = ToSet(recent) \ {k}
      /\ \A x, y : Precedes(r, x, y) <=> Precedes(recent, x, y) /\ x # k /\ y # k
  BY <1>1, RemoveFacts, Zenon
<1>3. recent' = <<k>> \o r
  BY DEF Used
<1> HIDE DEF r
<1>4. /\ ListOf(Keys, recent')
      /\ ToSet(recent') = ToSet(r) \union {k}
      /\ \A x, y : Precedes(recent', x, y)
                  <=> (x = k /\ y \in ToSet(r)) \/ Precedes(r, x, y)
  <2>1. k \notin ToSet(r)
    BY <1>2
  <2> QED
    BY <2>1, <1>2, <1>3, PushFacts, Zenon
<1>5. /\ ListOf(Keys, order')
      /\ ToSet(order') = ToSet(o) \union {k}
      /\ Len(order') = Len(o) + 1
      /\ \A x, y : Precedes(order', x, y)
                  <=> (x = k /\ y \in ToSet(o)) \/ Precedes(o, x, y)
  <2>1. /\ ListOf(Keys, <<k>> \o o)
        /\ ToSet(<<k>> \o o) = ToSet(o) \union {k}
        /\ Len(<<k>> \o o) = Len(o) + 1
        /\ \A x, y : Precedes(<<k>> \o o, x, y)
                    <=> (x = k /\ y \in ToSet(o)) \/ Precedes(o, x, y)
    BY PushFacts, Zenon
  <2>2. order' = <<k>> \o o
    OBVIOUS
  <2> QED
    BY <2>1, <2>2, Zenon
<1>6. ToSet(o) \subseteq ToSet(recent)
  BY Zenon DEF ListInv, Ordered
<1>7. ToSet(order') \subseteq ToSet(recent')
  BY <1>2, <1>4, <1>5, <1>6
<1>8. ASSUME NEW x, NEW y, Precedes(order', x, y) PROVE Precedes(recent', x, y)
  <2>1. CASE x = k /\ y \in ToSet(o)
    BY <2>1, <1>2, <1>4, <1>6
  <2>2. CASE Precedes(o, x, y)
    <3>1. x \in ToSet(o) /\ y \in ToSet(o)
      BY <2>2, PrecedesMembers DEF ListOf
    <3>2. x # k /\ y # k
      BY <3>1
    <3>3. Precedes(recent, x, y)
      BY <2>2, Zenon DEF ListInv, Ordered
    <3> QED
      BY <3>2, <3>3, <1>2, <1>4
  <2> QED
    BY <1>8, <2>1, <2>2, <1>5
<1>9. Ordered'
  <2>1. IsInjective(recent')
    BY <1>4 DEF ListOf
  <2>2. \A x, y : Precedes(order', x, y) => Precedes(recent', x, y)
    BY <1>8
  <2> QED
    BY <2>1, <2>2, <1>7, Zenon DEF Ordered, Precedes
<1> QED
  BY <1>4, <1>5, <1>9 DEF ListOf

\* Get and Set, with the history of use, keep both lists in order.
LEMMA HitKeepsOrder ==
    ASSUME ListInv, NEW k \in Keys, k \in items, Used(k),
           order' = MovedToFront(k), items' = items
    PROVE  ListInv'
<1> DEFINE o == RemoveFirst(order, k)
<1>1. ListOf(Keys, order) /\ items = ToSet(order) /\ Len(order) <= Capacity
  BY DEF ListInv, MapMatchesList, ListOf
<1>2. /\ ListOf(Keys, o)
      /\ ToSet(o) = ToSet(order) \ {k}
      /\ Len(o) = IF k \in ToSet(order) THEN Len(order) - 1 ELSE Len(order)
      /\ \A x, y : Precedes(o, x, y) <=> Precedes(order, x, y) /\ x # k /\ y # k
  BY <1>1, RemoveFacts, Zenon
<1>3. order' = <<k>> \o o
  BY DEF MovedToFront
<1> HIDE DEF o
<1>4. k \notin ToSet(o) /\ ToSet(o) \subseteq ToSet(order)
  BY <1>2
<1>5. /\ order' \in Seq(Keys) /\ IsInjective(order')
      /\ ToSet(order') = ToSet(o) \union {k}
      /\ Len(order') = Len(o) + 1
      /\ recent' \in Seq(Keys)
      /\ Ordered'
  BY <1>2, <1>3, <1>4, UseKeepsOrder, Zenon
<1>6. items' = ToSet(order')
  BY <1>1, <1>2, <1>5
<1>7. Len(order') <= Capacity
  <2>1. Len(order) \in Nat /\ Len(o) = Len(order) - 1
    BY <1>1, <1>2, ListFacts DEF ListOf
  <2> QED
    BY <2>1, <1>1, <1>5, ParametersPositive
<1> QED
  BY <1>5, <1>6, <1>7, Zenon DEF ListInv, MapMatchesList, Capacity

LEMMA SetKeepsOrder ==
    ASSUME ListInv, NEW k \in Keys, NEW v, Set(k, v), Used(k)
    PROVE  ListInv'
<1>1. ListOf(Keys, order) /\ items = ToSet(order) /\ Len(order) <= Capacity /\ Len(order) \in Nat
  BY ListFacts DEF ListInv, MapMatchesList, ListOf
<1>2. CASE k \in items
  <2>1. order' = MovedToFront(k) /\ items' = items
    BY <1>2, Zenon DEF Set
  <2> QED
    BY <1>2, <2>1, HitKeepsOrder
<1>3. ASSUME NEW o, ListOf(Keys, o), order' = <<k>> \o o,
             k \notin items, ToSet(o) \subseteq ToSet(order),
             \A x, y : Precedes(o, x, y) => Precedes(order, x, y),
             items' = ToSet(o) \union {k}, Len(o) \in Nat, Len(o) < Capacity
      PROVE  ListInv'
  <2>1. k \notin ToSet(o)
    BY <1>1, <1>3
  <2>2. /\ order' \in Seq(Keys) /\ IsInjective(order')
        /\ ToSet(order') = ToSet(o) \union {k}
        /\ Len(order') = Len(o) + 1
        /\ recent' \in Seq(Keys)
        /\ Ordered'
    BY <1>3, <2>1, UseKeepsOrder, Zenon
  <2>3. Len(order') <= Capacity
    BY <1>3, <2>2, ParametersPositive
  <2> QED
    BY <1>3, <2>2, <2>3, Zenon DEF ListInv, MapMatchesList, Capacity
<1>4. CASE k \notin items /\ Len(order) < Capacity
  <2>1. order' = <<k>> \o order /\ items' = ToSet(order) \union {k}
    BY <1>1, <1>4, ParametersPositive DEF Set
  <2> QED
    BY <1>1, <1>3, <1>4, <2>1
<1>5. CASE k \notin items /\ Len(order) >= Capacity
  <2>1. /\ order' = <<k>> \o Front(order)
        /\ items' = (items \union {k}) \ {Last(order)}
    BY <1>1, <1>5, ParametersPositive DEF Set
  <2>2. Len(order) > 0
    BY <1>1, <1>5, ParametersPositive
  <2>3. /\ ListOf(Keys, Front(order))
        /\ ToSet(Front(order)) = ToSet(order) \ {Last(order)}
        /\ Len(Front(order)) = Len(order) - 1
        /\ \A x, y : Precedes(Front(order), x, y) => Precedes(order, x, y)
    BY <1>1, <2>2, FrontFacts
  <2>4. Last(order) \in ToSet(order)
    <3>1. order \in Seq(Keys) /\ Len(order) \in 1 .. Len(order)
      BY <1>1, <2>2 DEF ListOf
    <3> QED
      BY <3>1, Members DEF Last
  <2>5. items' = ToSet(Front(order)) \union {k} /\ ToSet(Front(order)) \subseteq ToSet(order)
    BY <1>1, <1>5, <2>1, <2>3, <2>4
  <2>6. Len(Front(order)) \in Nat /\ Len(Front(order)) < Capacity
    BY <1>1, <1>5, <2>2, <2>3, ParametersPositive
  <2> QED
    BY <1>3, <1>5, <2>1, <2>3, <2>5, <2>6
<1> QED
  BY <1>1, <1>2, <1>4, <1>5, ParametersPositive

LEMMA ExpiryKeepsOrder ==
    ASSUME ListInv, NEW k \in Keys, GetExpired(k), recent' = recent
    PROVE  ListInv'
<1> DEFINE o == RemoveFirst(order, k)
<1>1. ListOf(Keys, order) /\ items = ToSet(order) /\ Len(order) <= Capacity /\ Len(order) \in Nat
  BY ListFacts DEF ListInv, MapMatchesList, ListOf
<1>2. /\ ListOf(Keys, o)
      /\ ToSet(o) = ToSet(order) \ {k}
      /\ Len(o) = IF k \in ToSet(order) THEN Len(order) - 1 ELSE Len(order)
      /\ \A x, y : Precedes(o, x, y) <=> Precedes(order, x, y) /\ x # k /\ y # k
  BY <1>1, RemoveFacts, Zenon
<1>3. order' = o /\ items' = items \ {k}
  BY DEF GetExpired
<1> HIDE DEF o
<1>4. items' = ToSet(o) /\ Len(o) <= Capacity
  BY <1>1, <1>2, <1>3, ParametersPositive
<1>5. Ordered'
  <2>1. ToSet(o) \subseteq ToSet(recent)
    BY <1>2 DEF ListInv, Ordered
  <2>2. \A x, y : Precedes(o, x, y) => Precedes(recent, x, y)
    BY <1>2, Zenon DEF ListInv, Ordered
  <2>3. recent' = recent /\ order' = o
    BY <1>3
  <2>4. \A x, y : Precedes(order', x, y) => Precedes(recent', x, y)
    BY <2>2, <2>3
  <2>5. IsInjective(recent') /\ ToSet(order') \subseteq ToSet(recent')
    BY <2>1, <2>3 DEF ListInv, Ordered
  <2> QED
    BY <2>4, <2>5, Zenon DEF Ordered, Precedes
<1> QED
  BY <1>2, <1>3, <1>4, <1>5, Zenon DEF ListInv, MapMatchesList, Capacity, ListOf

(***************************************************************************)
(* Types.                                                                  *)
(***************************************************************************)
CacheInv == TypeOK /\ ListInv /\ Fresh

LEMMA CacheStart == Init => CacheInv
<1> SUFFICES ASSUME Init PROVE CacheInv
  OBVIOUS
<1>1. TypeOK
  BY ParametersPositive, SMT DEF Init, CacheInit, TypeOK
<1>2. ListInv
  <2>1. /\ order = <<>> /\ recent = <<>> /\ items = {}
    BY DEF Init, CacheInit
  <2>2. <<>> \in Seq(Keys) /\ Len(<<>>) = 0
    OBVIOUS
  <2>3. ToSet(<<>>) = {} /\ IsInjective(<<>>)
    <3>1. DOMAIN <<>> = {}
      OBVIOUS
    <3> QED
      BY <3>1 DEF ToSet, IsInjective
  <2>4. \A x, y : ~Precedes(<<>>, x, y)
    BY <2>2, SMT DEF Precedes
  <2> QED
    BY <2>1, <2>2, <2>3, <2>4, ParametersPositive DEF ListInv, MapMatchesList, Ordered
<1>3. Fresh
  BY ParametersPositive, SMT
     DEF Init, CacheInit, Fresh, CurrentIsFresh, FillsAreYoung, StalenessBounded
<1> QED
  BY <1>1, <1>2, <1>3 DEF CacheInv

LEMMA TypesStep == CacheInv /\ ListInv' /\ [Next]_vars => TypeOK'
<1> SUFFICES ASSUME CacheInv, ListInv', [Next]_vars PROVE TypeOK'
  OBVIOUS
<1>1. TypeOK /\ FillsAreYoung
  BY DEF CacheInv, Fresh
<1>2. order' \in Seq(Keys) /\ recent' \in Seq(Keys) /\ items' \subseteq Keys
  <2>1. order' \in Seq(Keys) /\ recent' \in Seq(Keys) /\ items' = ToSet(order')
    BY DEF ListInv, MapMatchesList
  <2>2. \A j \in 1 .. Len(order') : order'[j] \in Keys
    BY <2>1, ListFacts, Zenon
  <2> QED
    BY <2>1, <2>2, Members
<1> DEFINE Values == /\ value \in [Keys -> Answers \union {NoValue}]
                     /\ \A k \in items : value[k] \in Answers
                     /\ left \in [Keys -> -1 .. Lifetime]
           Clocks == /\ version \in 0 .. MaxWrites
                     /\ age \in [0 .. MaxWrites -> 0 .. AgeCap]
                     /\ elapsed \in [Searchers -> 0 .. FetchTime]
           Searches == /\ pc \in [Searchers -> {"idle", "fetch", "store"}]
                       /\ asked \in [Searchers -> [key : Keys, limit : Limits] \union {NoValue}]
                       /\ answer \in [Searchers -> Answers \union {NoValue}]
           Rest == Values /\ Clocks /\ Searches
<1>3. Rest
  BY <1>1 DEF TypeOK
<1>4. ASSUME NEW s \in Searchers, NEW k \in Keys, NEW n \in Limits, SearchHit(s, k, n)
      PROVE  Rest'
  <2>1. Values'
    BY <1>3, <1>4, Zenon DEF SearchHit, GetHit
  <2>2. Clocks'
    BY <1>3, <1>4, Zenon DEF SearchHit
  <2>3. Searches'
    BY <1>3, <1>4, SMT DEF SearchHit, GetHit
  <2> QED
    BY <2>1, <2>2, <2>3
<1>5. ASSUME NEW s \in Searchers, NEW k \in Keys, NEW n \in Limits, SearchMiss(s, k, n)
      PROVE  Rest'
  <2>1. value' = value /\ left' = left /\ items' \subseteq items
    BY <1>5, SMT DEF SearchMiss, GetAbsent, GetExpired, cacheVars
  <2>2. Values'
    BY <1>3, <2>1
  <2>3. Clocks'
    BY <1>3, <1>5, ParametersPositive, SMT DEF SearchMiss
  <2>4. Searches'
    BY <1>3, <1>5, SMT DEF SearchMiss
  <2> QED
    BY <2>2, <2>3, <2>4
<1>6. ASSUME NEW s \in Searchers, Fetch(s) PROVE Rest'
  <2>1. Values' /\ Clocks'
    BY <1>3, <1>6, Zenon DEF Fetch, cacheVars
  <2>2. asked[s].limit \in Limits
    BY <1>1, <1>6, SMT DEF Fetch, FillsAreYoung
  <2>3. Searches'
    BY <1>3, <1>6, <2>2, SMT DEF Fetch, Answers
  <2> QED
    BY <2>1, <2>3
<1>7. ASSUME NEW s \in Searchers, FetchFail(s) PROVE Rest'
  <2>1. Values' /\ Clocks'
    BY <1>3, <1>7, Zenon DEF FetchFail, cacheVars
  <2>2. Searches'
    BY <1>3, <1>7, SMT DEF FetchFail
  <2> QED
    BY <2>1, <2>2
<1>8. ASSUME NEW s \in Searchers, Store(s) PROVE Rest'
  <2>1. asked[s].key \in Keys /\ answer[s] \in Answers
    BY <1>1, <1>8, SMT DEF Store, FillsAreYoung
  <2>2. /\ value' = [value EXCEPT ![asked[s].key] = answer[s]]
        /\ left' = [left EXCEPT ![asked[s].key] = Lifetime]
        /\ items' \subseteq items \union {asked[s].key}
    BY <1>8, SMT DEF Store, Set
  <2>3. Values'
    BY <1>3, <2>1, <2>2, ParametersPositive, SMT
  <2>4. Clocks'
    BY <1>3, <1>8, Zenon DEF Store
  <2>5. Searches'
    BY <1>3, <1>8, SMT DEF Store
  <2> QED
    BY <2>3, <2>4, <2>5
<1>9. ASSUME Write PROVE Rest'
  <2>1. Values' /\ Searches'
    BY <1>3, <1>9, Zenon DEF Write, cacheVars, searchVars
  <2>2. Clocks'
    BY <1>3, <1>9, ParametersPositive, SMT DEF Write, searchVars
  <2> QED
    BY <2>1, <2>2
<1>10. ASSUME Tick PROVE Rest'
  <2>1. Values'
    BY <1>3, <1>10, ParametersPositive, SMT DEF Tick, CacheTick
  <2>2. Searches'
    BY <1>3, <1>10, Zenon DEF Tick
  <2>3. Clocks'
    BY <1>3, <1>10, ParametersPositive, SMT DEF Tick
  <2> QED
    BY <2>1, <2>2, <2>3
<1>11. ASSUME UNCHANGED vars PROVE Rest'
  BY <1>3, <1>11, Zenon DEF vars, cacheVars, searchVars
<1>12. Rest'
  <2> HIDE DEF Rest
  <2> QED
    BY <1>4, <1>5, <1>6, <1>7, <1>8, <1>9, <1>10, <1>11 DEF Next
<1> QED
  BY <1>2, <1>12 DEF TypeOK

(***************************************************************************)
(* Ages, and the two lists, over a step.                                   *)
(***************************************************************************)
LEMMA FreshStep == CacheInv /\ [Next]_vars => Fresh'
<1> SUFFICES ASSUME CacheInv, [Next]_vars PROVE Fresh'
  OBVIOUS
<1>1. TypeOK /\ CurrentIsFresh /\ FillsAreYoung /\ StalenessBounded
  BY DEF CacheInv, Fresh
<1> USE ParametersPositive
<1>2. ASSUME NEW s \in Searchers, NEW k \in Keys, NEW n \in Limits, SearchHit(s, k, n)
      PROVE  Fresh'
  <2>1. UNCHANGED <<version, age, pc, elapsed, items, value, left>>
    BY <1>2, Zenon DEF SearchHit, GetHit
  <2>2. CurrentIsFresh' /\ StalenessBounded'
    BY <1>1, <2>1, Zenon DEF CurrentIsFresh, StalenessBounded, Lifetime
  <2>3. FillsAreYoung'
    BY <1>1, <1>2, SMT DEF FillsAreYoung, SearchHit, TypeOK
  <2> QED
    BY <2>2, <2>3, Zenon DEF Fresh
<1>3. ASSUME NEW s \in Searchers, NEW k \in Keys, NEW n \in Limits, SearchMiss(s, k, n)
      PROVE  Fresh'
  <2>1. UNCHANGED <<version, age, value, left>> /\ items' \subseteq items
    BY <1>3, SMT DEF SearchMiss, GetAbsent, GetExpired, cacheVars
  <2>2. CurrentIsFresh' /\ StalenessBounded'
    BY <1>1, <2>1, Zenon DEF CurrentIsFresh, StalenessBounded, Lifetime
  <2>3. FillsAreYoung'
    BY <1>1, <1>3, SMT DEF FillsAreYoung, SearchMiss, TypeOK
  <2> QED
    BY <2>2, <2>3, Zenon DEF Fresh
<1>4. ASSUME NEW s \in Searchers, Fetch(s) PROVE Fresh'
  <2>1. UNCHANGED <<version, age, items, value, left, asked, elapsed>>
    BY <1>4, Zenon DEF Fetch, cacheVars
  <2>2. CurrentIsFresh' /\ StalenessBounded'
    BY <1>1, <2>1, Zenon DEF CurrentIsFresh, StalenessBounded, Lifetime
  <2>3. asked[s] \in [key : Keys, limit : Limits] /\ age[version] = 0 /\ version \in 0 .. MaxWrites
    BY <1>1, <1>4, SMT DEF Fetch, FillsAreYoung, CurrentIsFresh, TypeOK
  <2>4. FillsAreYoung'
    BY <1>1, <1>4, <2>1, <2>3, SMT DEF FillsAreYoung, Fetch, TypeOK, Answers
  <2> QED
    BY <2>2, <2>4, Zenon DEF Fresh
<1>5. ASSUME NEW s \in Searchers, FetchFail(s) PROVE Fresh'
  <2>1. UNCHANGED <<version, age, items, value, left, asked, answer, elapsed>>
    BY <1>5, Zenon DEF FetchFail, cacheVars
  <2>2. CurrentIsFresh' /\ StalenessBounded'
    BY <1>1, <2>1, Zenon DEF CurrentIsFresh, StalenessBounded, Lifetime
  <2>3. FillsAreYoung'
    BY <1>1, <1>5, SMT DEF FillsAreYoung, FetchFail, TypeOK
  <2> QED
    BY <2>2, <2>3, Zenon DEF Fresh
<1>6. ASSUME NEW s \in Searchers, Store(s) PROVE Fresh'
  <2>1. UNCHANGED <<version, age, asked, answer, elapsed>>
    BY <1>6, Zenon DEF Store
  <2>2. /\ asked[s].key \in Keys /\ answer[s] \in Answers
        /\ age[answer[s].version] <= elapsed[s] /\ elapsed[s] \in 0 .. FetchTime
        /\ age[answer[s].version] \in Nat
    BY <1>1, <1>6, SMT DEF Store, FillsAreYoung, TypeOK, Answers
  <2>3. /\ value' = [value EXCEPT ![asked[s].key] = answer[s]]
        /\ left' = [left EXCEPT ![asked[s].key] = Lifetime]
        /\ items' \subseteq items \union {asked[s].key}
    BY <1>6, SMT DEF Store, Set
  <2>4. CurrentIsFresh'
    BY <1>1, <2>1, Zenon DEF CurrentIsFresh
  <2>5. ASSUME NEW k \in items', left'[k] >= 0
        PROVE  age'[value'[k].version] <= (Lifetime - left'[k]) + FetchTime
    <3>1. value \in [Keys -> Answers \union {NoValue}] /\ left \in [Keys -> -1 .. Lifetime] /\ items \subseteq Keys
      BY <1>1 DEF TypeOK
    <3>2. CASE k = asked[s].key
      <4>1. value'[k] = answer[s] /\ left'[k] = Lifetime
        BY <2>2, <2>3, <3>1, <3>2
      <4> QED
        BY <2>1, <2>2, <4>1
    <3>3. CASE k # asked[s].key
      <4>1. k \in items /\ value'[k] = value[k] /\ left'[k] = left[k]
        BY <2>3, <2>5, <3>1, <3>3
      <4> QED
        BY <1>1, <2>1, <2>5, <4>1, Zenon DEF StalenessBounded
    <3> QED
      BY <3>2, <3>3
  <2>6. StalenessBounded'
    BY <2>5, Zenon DEF StalenessBounded, Lifetime
  <2>7. FillsAreYoung'
    BY <1>1, <1>6, SMT DEF FillsAreYoung, Store, TypeOK
  <2> QED
    BY <2>4, <2>6, <2>7, Zenon DEF Fresh
<1>7. ASSUME Write PROVE Fresh'
  <2>1. UNCHANGED <<age, items, value, left, pc, asked, answer, elapsed>>
    BY <1>7, Zenon DEF Write, cacheVars, searchVars
  <2>2. StalenessBounded' /\ FillsAreYoung'
    BY <1>1, <2>1, Zenon DEF StalenessBounded, FillsAreYoung, Lifetime, Answers
  <2>3. CurrentIsFresh'
    BY <1>1, <1>7, <2>1, SMT DEF CurrentIsFresh, Write, TypeOK
  <2> QED
    BY <2>2, <2>3, Zenon DEF Fresh
<1>8. ASSUME Tick PROVE Fresh'
  <2>1. UNCHANGED <<version, items, value, pc, asked, answer>>
    BY <1>8, Zenon DEF Tick, CacheTick
  <2>2. \A v \in 0 .. MaxWrites : /\ age[v] \in Nat /\ age'[v] \in Nat
                                  /\ age'[v] <= age[v] + 1
                                  /\ v >= version => age'[v] = age[v]
    BY <1>1, <1>8, SMT DEF Tick, TypeOK
  <2>3. CurrentIsFresh'
    BY <1>1, <2>1, <2>2, Zenon DEF CurrentIsFresh
  <2>4. ASSUME NEW s \in Searchers, pc[s] = "store"
        PROVE  answer[s] \in Answers /\ age'[answer[s].version] <= elapsed'[s]
    <3>1. answer[s] \in Answers /\ age[answer[s].version] <= elapsed[s]
      BY <1>1, <2>4, Zenon DEF FillsAreYoung
    <3>2. answer[s].version \in 0 .. MaxWrites
      BY <3>1 DEF Answers
    <3>3. elapsed'[s] = elapsed[s] + 1 /\ elapsed[s] \in Nat
      BY <1>1, <1>8, <2>4, SMT DEF Tick, TypeOK
    <3>4. /\ age[answer[s].version] \in Nat /\ age'[answer[s].version] \in Nat
          /\ age'[answer[s].version] <= age[answer[s].version] + 1
      BY <2>2, <3>2, Zenon
    <3> QED
      BY <3>1, <3>3, <3>4, SMT
  <2>5. FillsAreYoung'
    BY <1>1, <2>1, <2>4, Zenon DEF FillsAreYoung, Answers
  <2>6. ASSUME NEW k \in items, left'[k] >= 0
        PROVE  age'[value[k].version] <= (Lifetime - left'[k]) + FetchTime
    <3>1. value[k] \in Answers /\ left[k] \in -1 .. Lifetime /\ k \in Keys
      BY <1>1 DEF TypeOK
    <3>2. value[k].version \in 0 .. MaxWrites
      BY <3>1 DEF Answers
    <3>3. left[k] >= 0 /\ left'[k] = left[k] - 1
      BY <1>8, <2>6, <3>1, SMT DEF Tick, CacheTick
    <3>4. age[value[k].version] <= (Lifetime - left[k]) + FetchTime
      BY <1>1, <3>3 DEF StalenessBounded
    <3>5. /\ age[value[k].version] \in Nat /\ age'[value[k].version] \in Nat
          /\ age'[value[k].version] <= age[value[k].version] + 1
      BY <2>2, <3>2, Zenon
    <3> QED
      BY <3>1, <3>3, <3>4, <3>5, SMT
  <2>7. StalenessBounded'
    BY <2>1, <2>6, Zenon DEF StalenessBounded, Lifetime
  <2> QED
    BY <2>3, <2>5, <2>7, Zenon DEF Fresh
<1>9. ASSUME UNCHANGED vars PROVE Fresh'
  <2>1. UNCHANGED <<version, age, items, value, left, pc, asked, answer, elapsed>>
    BY <1>9, Zenon DEF vars, cacheVars, searchVars
  <2> QED
    BY <1>1, <2>1, Zenon DEF Fresh, CurrentIsFresh, StalenessBounded, FillsAreYoung, Lifetime, Answers
<1> QED
  BY <1>2, <1>3, <1>4, <1>5, <1>6, <1>7, <1>8, <1>9, Zenon DEF Next

LEMMA ListStep == CacheInv /\ [Next]_vars => ListInv'
<1> SUFFICES ASSUME CacheInv, [Next]_vars PROVE ListInv'
  OBVIOUS
<1>1. ListInv /\ FillsAreYoung
  BY DEF CacheInv, Fresh
<1>2. ASSUME UNCHANGED <<items, order, recent>> PROVE ListInv'
  <2>1. MapMatchesList'
    BY <1>1, <1>2, Zenon DEF ListInv, MapMatchesList, Capacity
  <2>2. Ordered'
    <3>1. order' = order /\ recent' = recent
      BY <1>2
    <3>2. Ordered
      BY <1>1 DEF ListInv
    <3> QED
      BY <3>1, <3>2 DEF Ordered, Precedes
  <2> QED
    BY <1>1, <1>2, <2>1, <2>2, Zenon DEF ListInv
<1>3. ASSUME NEW s \in Searchers, NEW k \in Keys, NEW n \in Limits, SearchHit(s, k, n)
      PROVE  ListInv'
  BY <1>1, <1>3, HitKeepsOrder, Zenon DEF SearchHit, GetHit
<1>4. ASSUME NEW s \in Searchers, NEW k \in Keys, NEW n \in Limits, SearchMiss(s, k, n)
      PROVE  ListInv'
  <2>1. recent' = recent /\ (GetAbsent(k) \/ GetExpired(k))
    BY <1>4, Zenon DEF SearchMiss
  <2>2. CASE GetAbsent(k)
    BY <1>2, <2>1, <2>2, Zenon DEF GetAbsent, cacheVars
  <2>3. CASE GetExpired(k)
    BY <1>1, <2>1, <2>3, ExpiryKeepsOrder
  <2> QED
    BY <2>1, <2>2, <2>3
<1>5. ASSUME NEW s \in Searchers, Fetch(s) \/ FetchFail(s) PROVE ListInv'
  BY <1>2, <1>5, Zenon DEF Fetch, FetchFail, cacheVars
<1>6. ASSUME NEW s \in Searchers, Store(s) PROVE ListInv'
  <2>1. /\ Set(asked[s].key, answer[s])
        /\ Used(asked[s].key)
        /\ pc[s] # "idle"
    BY <1>6, SMT DEF Store
  <2>2. asked[s].key \in Keys
    BY <1>1, <2>1 DEF FillsAreYoung
  <2> QED
    BY <1>1, <2>1, <2>2, SetKeepsOrder
<1>7. CASE Write \/ Tick \/ UNCHANGED vars
  BY <1>2, <1>7, Zenon DEF Write, Tick, CacheTick, cacheVars, searchVars, vars
<1> QED
  BY <1>3, <1>4, <1>5, <1>6, <1>7, Zenon DEF Next

LEMMA CacheInvStep == CacheInv /\ [Next]_vars => CacheInv'
BY TypesStep, FreshStep, ListStep, Zenon DEF CacheInv

(***************************************************************************)
(* The map and the list of the cache hold the same keys, each once, within *)
(* the capacity, and all values keep their types (Get, Set, evictOldest).  *)
(***************************************************************************)
THEOREM CacheConsistent == Spec => []SearchCacheInv
<1>1. CacheInv => SearchCacheInv
  BY Zenon DEF CacheInv, ListInv, SearchCacheInv
<1> QED
  BY <1>1, CacheStart, CacheInvStep, PTL DEF Spec

(***************************************************************************)
(* What a hit would return was superseded at most the life time, and the   *)
(* time of one search, ago (Search, Get, Set).                             *)
(***************************************************************************)
THEOREM HitsAreFresh == Spec => []StalenessBounded
<1>1. CacheInv => StalenessBounded
  BY Zenon DEF CacheInv, Fresh
<1> QED
  BY <1>1, CacheStart, CacheInvStep, PTL DEF Spec

(***************************************************************************)
(* The list is in the order of use: Set evicts the least recently used key *)
(* (MoveToFront, evictOldest).                                             *)
(***************************************************************************)
THEOREM ListIsRecency == Spec => []OrderIsRecency
<1>1. ASSUME CacheInv PROVE OrderIsRecency
  <2>1. /\ order \in Seq(Keys) /\ recent \in Seq(Keys) /\ ToSet(order) \subseteq ToSet(recent)
        /\ \A x, y : Precedes(order, x, y) => Precedes(recent, x, y)
    BY <1>1, Zenon DEF CacheInv, ListInv, Ordered
  <2>2. ToSet(order) = {order[j] : j \in 1 .. Len(order)}
    BY <2>1, Members
  <2>3. ToSet(recent) = {recent[j] : j \in 1 .. Len(recent)}
    BY <2>1, Members
  <2>4. ASSUME NEW i \in 1 .. Len(order) PROVE Contains(recent, order[i])
    BY <2>1, <2>2, <2>3, Zenon DEF Contains
  <2>5. ASSUME NEW i \in 1 .. Len(order), NEW j \in 1 .. Len(order), i < j
        PROVE  Precedes(recent, order[i], order[j])
    <3>1. Precedes(order, order[i], order[j])
      BY <2>5 DEF Precedes
    <3> QED
      BY <2>1, <3>1
  <2> QED
    BY <2>4, <2>5, Zenon DEF OrderIsRecency, Precedes
<1> QED
  BY <1>1, CacheStart, CacheInvStep, PTL DEF Spec
=============================================================================
