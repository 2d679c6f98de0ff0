----------------------------- MODULE ProfileProofs -----------------------------
(***************************************************************************)
(* What the operations on a profile return, for any profile: edits of its  *)
(* entries and wallpapers, the import of bookmarks, sharing and accepting, *)
(* and the three-way merge with the resolution of its conflicts.           *)
(***************************************************************************)
EXTENDS BookmarkImport, FiniteSetTheorems, SequenceTheorems, TLAPS

-----------------------------------------------------------------------------
(* Lists and the entries at some places of them *)

Upto(I, i) == {j \in I : j <= i}

LEMMA UptoGrows ==
    ASSUME NEW I \in SUBSET Int, IsFiniteSet(I), NEW i \in I, NEW k \in I, i < k
    PROVE  Cardinality(Upto(I, i)) < Cardinality(Upto(I, k))
<1>1. Upto(I, i) \subseteq Upto(I, k) /\ k \notin Upto(I, i) /\ k \in Upto(I, k)
  <2>1. \A j \in I : j \in Int
    OBVIOUS
  <2>2. \A j \in I : j <= i => j <= k
    BY <2>1
  <2>3. ~(k <= i) /\ k <= k
    BY <2>1
  <2> QED
    BY <2>2, <2>3 DEF Upto
<1>2. IsFiniteSet(Upto(I, i)) /\ IsFiniteSet(Upto(I, k))
  BY FS_Subset DEF Upto
<1>3. Cardinality(Upto(I, i)) <= Cardinality(Upto(I, k))
      /\ Cardinality(Upto(I, i)) # Cardinality(Upto(I, k))
  BY <1>1, <1>2, FS_Subset
<1>4. Cardinality(Upto(I, i)) \in Nat /\ Cardinality(Upto(I, k)) \in Nat
  BY <1>2, FS_CardinalityType
<1> QED
  BY <1>3, <1>4

\* Each number up to the size of I counts the elements up to exactly one of them.
LEMMA UptoCounts ==
    ASSUME NEW I \in SUBSET Int, IsFiniteSet(I)
    PROVE  /\ Cardinality(I) \in Nat
           /\ \A i \in I : Cardinality(Upto(I, i)) \in 1 .. Cardinality(I)
           /\ \A n \in 1 .. Cardinality(I) : \E i \in I : Cardinality(Upto(I, i)) = n
<1> DEFINE N == Cardinality(I)
           f == [i \in I |-> Cardinality(Upto(I, i))]
<1>1. N \in Nat
  BY FS_CardinalityType
<1>2. ASSUME NEW i \in I PROVE Cardinality(Upto(I, i)) \in 1 .. N
  <2>1. IsFiniteSet(Upto(I, i)) /\ Cardinality(Upto(I, i)) <= N
    BY FS_Subset DEF Upto
  <2>2. i \in Upto(I, i)
    BY DEF Upto
  <2>3. Cardinality(Upto(I, i)) \in Nat /\ Cardinality(Upto(I, i)) # 0
    BY <2>1, <2>2, FS_CardinalityType, FS_EmptySet
  <2> QED
    BY <1>1, <2>1, <2>3
<1>3. f \in [I -> 1 .. N]
  BY <1>2
<1>4. \A i, k \in I : f[i] = f[k] => i = k
  <2> SUFFICES ASSUME NEW i \in I, NEW k \in I, f[i] = f[k], i # k PROVE FALSE
    OBVIOUS
  <2>1. i < k \/ k < i
    OBVIOUS
  <2>2. f[i] \in Nat /\ f[k] \in Nat
    BY <1>1, <1>2
  <2> QED
    BY <2>1, <2>2, UptoGrows
<1>5. f \in Injection(I, 1 .. N)
  BY <1>3, <1>4 DEF Injection, IsInjective
<1>6. IsFiniteSet(1 .. N) /\ Cardinality(1 .. N) = N
  BY <1>1, FS_Interval
<1>7. f \in Surjection(I, 1 .. N)
  BY <1>5, <1>6, FS_Injection
<1> QED
  BY <1>1, <1>2, <1>7 DEF Surjection

LEMMA SubAt ==
    ASSUME NEW list, NEW I \in SUBSET Int, IsFiniteSet(I)
    PROVE  /\ Cardinality(I) \in Nat
           /\ DOMAIN Sub(list, I) = 1 .. Cardinality(I)
           /\ \A i \in I : /\ Cardinality(Upto(I, i)) \in 1 .. Cardinality(I)
                          /\ Sub(list, I)[Cardinality(Upto(I, i))] = list[i]
           /\ \A n \in 1 .. Cardinality(I) : \E i \in I :
                 Cardinality(Upto(I, i)) = n /\ Sub(list, I)[n] = list[i]
<1>1. /\ Cardinality(I) \in Nat
      /\ \A i \in I : Cardinality(Upto(I, i)) \in 1 .. Cardinality(I)
      /\ \A n \in 1 .. Cardinality(I) : \E i \in I : Cardinality(Upto(I, i)) = n
  BY UptoCounts
<1>2. ASSUME NEW i \in I, NEW k \in I, Cardinality(Upto(I, i)) = Cardinality(Upto(I, k))
      PROVE  i = k
  <2>1. i \in Int /\ k \in Int
    OBVIOUS
  <2>2. Cardinality(Upto(I, i)) \in Nat
    BY <1>1
  <2>3. ~(i < k) /\ ~(k < i)
    BY <1>2, <2>2, UptoGrows
  <2> QED
    BY <2>1, <2>3
<1>3. Sub(list, I) = [n \in 1 .. Cardinality(I) |->
                        list[CHOOSE i \in I : Cardinality(Upto(I, i)) = n]]
  BY DEF Sub, Upto
<1>4. ASSUME NEW i \in I
      PROVE  (CHOOSE k \in I : Cardinality(Upto(I, k)) = Cardinality(Upto(I, i))) = i
  BY <1>2
<1>5. ASSUME NEW i \in I PROVE Sub(list, I)[Cardinality(Upto(I, i))] = list[i]
  <2> DEFINE n == Cardinality(Upto(I, i))
  <2>1. n \in 1 .. Cardinality(I)
    BY <1>1
  <2>2. Sub(list, I)[n] = list[CHOOSE k \in I : Cardinality(Upto(I, k)) = n]
    BY <2>1, <1>3
  <2>3. (CHOOSE k \in I : Cardinality(Upto(I, k)) = n) = i
    BY <1>4
  <2> QED
    BY <2>2, <2>3
<1> QED
  BY <1>1, <1>3, <1>5

LEMMA Places ==
    ASSUME NEW V, NEW list \in Seq(V), NEW I \in SUBSET DOMAIN list
    PROVE  I \in SUBSET Int /\ IsFiniteSet(I)
<1>1. Len(list) \in Nat /\ DOMAIN list = 1 .. Len(list)
  BY LenProperties
<1>2. IsFiniteSet(1 .. Len(list))
  BY <1>1, FS_Interval
<1> QED
  BY <1>1, <1>2, FS_Subset

\* What is filtered out of a list is a list of the entries at the places.
LEMMA SubIsList ==
    ASSUME NEW V, NEW list \in Seq(V), NEW I \in SUBSET DOMAIN list
    PROVE  /\ Sub(list, I) \in Seq(V)
           /\ Entries(Sub(list, I)) = {list[i] : i \in I}
           /\ Len(Sub(list, I)) = Cardinality(I)
<1>1. I \in SUBSET Int /\ IsFiniteSet(I)
  BY Places
<1>2. \A i \in DOMAIN list : list[i] \in V
  BY LenProperties
<1> DEFINE N == Cardinality(I)
           s == Sub(list, I)
<1>3. N \in Nat /\ DOMAIN s = 1 .. N
  BY <1>1, SubAt
<1>4. \A n \in 1 .. N : \E i \in I : s[n] = list[i]
  BY <1>1, SubAt
<1>5. \A i \in I : \E n \in 1 .. N : s[n] = list[i]
  BY <1>1, SubAt
<1>6. \A n \in 1 .. N : s[n] \in V
  BY <1>2, <1>4
<1>7. s = [n \in 1 .. N |-> s[n]]
  BY DEF Sub
<1> HIDE DEF N, s
<1>8. s \in [1 .. N -> V]
  BY <1>6, <1>7
<1>9. s \in Seq(V) /\ Len(s) = N
  BY <1>3, <1>8
<1>10. Entries(s) = {list[i] : i \in I}
  <2>1. Entries(s) = {s[n] : n \in 1 .. N}
    BY <1>3 DEF Entries
  <2>2. \A n \in 1 .. N : s[n] \in {list[i] : i \in I}
    BY <1>4
  <2>3. \A i \in I : list[i] \in {s[n] : n \in 1 .. N}
    BY <1>5
  <2> QED
    BY <2>1, <2>2, <2>3
<1> QED
  BY <1>9, <1>10 DEF N, s
\* A finite set of integers that is not empty has a greatest element.
LEMMA MaxIsThere ==
    ASSUME NEW S \in SUBSET Int, IsFiniteSet(S), S # {}
    PROVE  Max(S) \in S /\ \A x \in S : Max(S) >= x
<1> DEFINE N == Cardinality(S)
<1>1. N \in 1 .. N
  BY FS_CardinalityType, FS_EmptySet
<1>2. PICK m \in S : Cardinality(Upto(S, m)) = N
  BY <1>1, UptoCounts
<1>3. Upto(S, m) = S
  BY <1>2, FS_Subset DEF Upto
<1>4. \A x \in S : m >= x
  BY <1>3 DEF Upto
<1> QED
  BY <1>4 DEF Max

LEMMA EntriesFinite ==
    ASSUME NEW V, NEW list \in Seq(V)
    PROVE  IsFiniteSet(Entries(list)) /\ Entries(list) \in SUBSET V
<1>1. Len(list) \in Nat /\ list \in [1 .. Len(list) -> V] /\ DOMAIN list = 1 .. Len(list)
  BY LenProperties
<1>2. IsFiniteSet(1 .. Len(list))
  BY <1>1, FS_Interval
<1>3. list \in Surjection(1 .. Len(list), Entries(list))
  BY <1>1 DEF Surjection, Entries
<1>4. IsFiniteSet(Entries(list))
  BY <1>2, <1>3, FS_Surjection
<1> QED
  BY <1>1, <1>4 DEF Entries

LEMMA IdsFinite ==
    ASSUME NEW E, NEW list \in Seq(E), \A x \in E : x.id \in Int
    PROVE  IsFiniteSet(Ids(list)) /\ Ids(list) \in SUBSET Int
<1> DEFINE L == Entries(list)
           f == [x \in L |-> x.id]
<1>1. IsFiniteSet(L) /\ L \in SUBSET E
  BY EntriesFinite
<1>2. f \in Surjection(L, Ids(list))
  BY DEF Surjection, Ids
<1> QED
  BY <1>1, <1>2, FS_Surjection DEF Ids

LEMMA ConcatEntries ==
    ASSUME NEW V, NEW s \in Seq(V), NEW t \in Seq(V)
    PROVE  s \o t \in Seq(V) /\ Entries(s \o t) = Entries(s) \cup Entries(t)
<1> DEFINE u == s \o t
           n == Len(s)
           m == Len(t)
<1>1. n \in Nat /\ DOMAIN s = 1 .. n /\ m \in Nat /\ DOMAIN t = 1 .. m
  BY LenProperties
<1>2. u \in Seq(V) /\ Len(u) = n + m
      /\ \A i \in 1 .. n + m : u[i] = IF i <= n THEN s[i] ELSE t[i - n]
  BY ConcatProperties
<1>3. DOMAIN u = 1 .. n + m
  BY <1>2, LenProperties
<1> HIDE DEF u, n, m
<1>4. \A i \in 1 .. n : i \in 1 .. n + m /\ u[i] = s[i]
  BY <1>1, <1>2
<1>5. \A i \in 1 .. m : n + i \in 1 .. n + m /\ u[n + i] = t[i]
  BY <1>1, <1>2
<1>6. \A i \in 1 .. n + m : (i \in 1 .. n /\ u[i] = s[i]) \/ (i - n \in 1 .. m /\ u[i] = t[i - n])
  BY <1>1, <1>2
<1>7. Entries(s) \subseteq Entries(u)
  BY <1>1, <1>3, <1>4 DEF Entries
<1>8. Entries(t) \subseteq Entries(u)
  BY <1>1, <1>3, <1>5 DEF Entries
<1>9. Entries(u) \subseteq Entries(s) \cup Entries(t)
  BY <1>1, <1>3, <1>6 DEF Entries
<1> QED
  BY <1>2, <1>7, <1>8, <1>9 DEF u

\* A function on the places of a list is a list.
LEMMA RevisedList ==
    ASSUME NEW V, NEW W, NEW list \in Seq(V), NEW f \in [DOMAIN list -> W]
    PROVE  f \in Seq(W) /\ DOMAIN f = DOMAIN list /\ Len(f) = Len(list)
<1>1. Len(list) \in Nat /\ DOMAIN list = 1 .. Len(list)
  BY LenProperties
<1>2. f \in [1 .. Len(list) -> W]
  BY <1>1
<1> QED
  BY <1>1, <1>2

LEMMA LongerList ==
    ASSUME NEW V, NEW list \in Seq(V), NEW x \in V
    PROVE  /\ Append(list, x) \in Seq(V) /\ Append(list, x) # <<>>
           /\ Entries(Append(list, x)) = Entries(list) \cup {x}
<1>1. Len(list) \in Nat /\ DOMAIN list = 1 .. Len(list)
  BY LenProperties
<1> DEFINE s == Append(list, x)
<1>2. s \in Seq(V) /\ Len(s) = Len(list) + 1
  OBVIOUS
<1>3. /\ DOMAIN s = 1 .. Len(list) + 1
      /\ \A i \in 1 .. Len(list) : s[i] = list[i]
      /\ s[Len(list) + 1] = x
  BY <1>1
<1> HIDE DEF s
<1>4. Entries(s) = Entries(list) \cup {x}
  <2>1. Entries(s) \subseteq Entries(list) \cup {x}
    <3> SUFFICES ASSUME NEW i \in 1 .. Len(list) + 1 PROVE s[i] \in Entries(list) \cup {x}
      BY <1>3 DEF Entries
    <3>1. i \in 1 .. Len(list) \/ i = Len(list) + 1
      BY <1>1
    <3> QED
      BY <1>1, <1>3, <3>1 DEF Entries
  <2>2. \A i \in 1 .. Len(list) : list[i] \in Entries(s)
    <3> TAKE i \in 1 .. Len(list)
    <3>1. i \in DOMAIN s /\ list[i] = s[i]
      BY <1>1, <1>3
    <3> QED
      BY <3>1 DEF Entries
  <2>3. x \in Entries(s)
    <3>1. Len(list) + 1 \in DOMAIN s
      BY <1>1, <1>3
    <3> QED
      BY <1>3, <3>1 DEF Entries
  <2> QED
    BY <1>1, <2>1, <2>2, <2>3 DEF Entries
<1> QED
  BY <1>1, <1>2, <1>4 DEF s

-----------------------------------------------------------------------------
(* Profiles *)

\* What the fields of entries and profiles hold is any set, which an edit may
\* make larger.
Group(V) == [id : Int, title : V, sort : Int, at : V, del : BOOLEAN]
Shortcut(V) == [id : Int, group : Int, url : V, icon : V \cup {"favicon", "initial", "local"},
                sort : Int, at : V, del : BOOLEAN]
Profile(V) ==
    [pid : V, engine : V, columns : V, style : V, overlay : V, mode : V, source : V,
     groups : Seq(Group(V)), shortcuts : Seq(Shortcut(V)),
     selected : V, portable : V, ids : Seq(V), history : Seq(V)]
SharedProfile(V) ==
    [pid : V, engine : V, columns : V, style : V, overlay : V, mode : V, source : V,
     groups : Seq(Group(V)), shortcuts : Seq(Shortcut(V)), selected : V, ids : Seq(V)]

UniqueIds(list) == \A i, j \in DOMAIN list : list[i].id = list[j].id => i = j

\* An edit of the entries, which leaves the wallpapers alone.
SameKeys(p, q) == q.selected = p.selected /\ q.portable = p.portable /\ q.ids = p.ids

LiveIds(groups) == {g.id : g \in Live(groups)}

\* A shortcut that is deleted, among those in S, or on a page.
AtHome(x, groups, S) == x.del \/ x.id \in S \/ x.group \in LiveIds(groups)

Housed(p, S) ==
    /\ Live(p.groups) # {} /\ p.shortcuts # <<>>
    /\ \A x \in Entries(p.shortcuts) : AtHome(x, p.groups, S)

LEMMA WithEntries ==
    ASSUME NEW V, NEW p \in Profile(V), NEW G \in Seq(Group(V)), NEW L \in Seq(Shortcut(V))
    PROVE  LET q == [p EXCEPT !.groups = G, !.shortcuts = L]
           IN q \in Profile(V) /\ q.groups = G /\ q.shortcuts = L /\ SameKeys(p, q)
  BY DEF Profile, SameKeys

LEMMA WithShortcuts ==
    ASSUME NEW V, NEW p \in Profile(V), NEW L \in Seq(Shortcut(V))
    PROVE  LET q == [p EXCEPT !.shortcuts = L]
           IN q \in Profile(V) /\ q.groups = p.groups /\ q.shortcuts = L /\ SameKeys(p, q)
  BY DEF Profile, SameKeys

LEMMA WithGroups ==
    ASSUME NEW V, NEW p \in Profile(V), NEW G \in Seq(Group(V))
    PROVE  LET q == [p EXCEPT !.groups = G]
           IN q \in Profile(V) /\ q.groups = G /\ q.shortcuts = p.shortcuts /\ SameKeys(p, q)
  BY DEF Profile, SameKeys

\* The shortcuts after an edit, one for each of before, each at home among the
\* groups after it.
LEMMA Rehoused ==
    ASSUME NEW V, NEW S, NEW p \in Profile(V), Housed(p, S),
           NEW L \in [DOMAIN p.shortcuts -> Shortcut(V)], NEW G, Live(G) # {},
           \A i \in DOMAIN p.shortcuts : AtHome(p.shortcuts[i], p.groups, S) => AtHome(L[i], G, S)
    PROVE  /\ L \in Seq(Shortcut(V)) /\ L # <<>>
           /\ \A x \in Entries(L) : AtHome(x, G, S)
<1>1. p.shortcuts \in Seq(Shortcut(V)) /\ p.shortcuts # <<>>
  BY DEF Profile, Housed
<1>2. L \in Seq(Shortcut(V)) /\ DOMAIN L = DOMAIN p.shortcuts /\ Len(L) = Len(p.shortcuts)
  BY <1>1, RevisedList
<1>3. L # <<>>
  BY <1>1, <1>2, EmptySeq
<1>4. \A i \in DOMAIN p.shortcuts : AtHome(p.shortcuts[i], p.groups, S)
  BY DEF Housed, Entries
<1> QED
  BY <1>2, <1>3, <1>4 DEF Entries

LEMMA RankIsNumber ==
    ASSUME NEW V, NEW list \in Seq(V), NEW S \in SUBSET Entries(list), NEW x
    PROVE  Rank(x, S) \in Nat /\ Cardinality(S) \in Nat
  BY EntriesFinite, FS_Subset, FS_CardinalityType DEF Rank

LEMMA NextSortIsNumber ==
    ASSUME NEW S, IsFiniteSet(S), \A x \in S : x.sort \in Int
    PROVE  NextSort(S) \in Int
<1> DEFINE T == {x.sort : x \in S}
<1>1. IsFiniteSet(T)
  <2> DEFINE f == [x \in S |-> x.sort]
  <2>1. f \in Surjection(S, T)
    BY DEF Surjection
  <2> QED
    BY <2>1, FS_Surjection
<1>2. IsFiniteSet(T \cup {-1}) /\ T \cup {-1} \in SUBSET Int
  BY <1>1, FS_AddElement
<1>3. Max(T \cup {-1}) \in Int
  BY <1>2, MaxIsThere
<1> QED
  BY <1>3 DEF NextSort

-----------------------------------------------------------------------------
(* The edits of the entries *)

LEMMA SubsetOfEntries ==
    ASSUME NEW V, NEW p \in Profile(V), NEW S \in SUBSET Entries(p.shortcuts)
    PROVE  NextSort(S) \in Int
<1>1. p.shortcuts \in Seq(Shortcut(V))
  BY DEF Profile
<1>2. IsFiniteSet(S) /\ S \in SUBSET Shortcut(V)
  BY <1>1, EntriesFinite, FS_Subset
<1> QED
  BY <1>2, NextSortIsNumber DEF Shortcut

LEMMA PlacedIsShortcut ==
    ASSUME NEW V, NEW s \in Shortcut(V), NEW g \in Int, NEW n \in Int, NEW now \in V
    PROVE  LET t == Placed(s, g, n, now)
           IN t \in Shortcut(V) /\ t.id = s.id /\ t.group = g /\ t.del = s.del /\ t.sort = n
  BY DEF Placed, Shortcut

LEMMA UpsertHouses ==
    ASSUME NEW V, NEW S, NEW p \in Profile(V), Housed(p, S), NEW now \in V,
           NEW input, input.id \in Int, input.group \in Int, input.url \in V, input.icon \in V,
           input.id \in S \/ input.group \in LiveIds(p.groups)
    PROVE  LET q == UpsertShortcut(p, input, now)
           IN q \in Profile(V) /\ Housed(q, S) /\ SameKeys(p, q)
<1> DEFINE existing == {s \in Entries(p.shortcuts) : s.id = input.id}
           stayed == {s \in existing : s.group = input.group}
           next == [id |-> input.id, group |-> input.group, url |-> input.url, icon |-> input.icon,
                    sort |-> IF stayed = {} THEN NextSort(LiveIn(p, input.group))
                             ELSE ById(p.shortcuts, input.id).sort,
                    at |-> now, del |-> FALSE]
           list == IF existing = {} THEN Append(p.shortcuts, next)
                   ELSE Revise(p.shortcuts, input.id, LAMBDA s : next)
           touched == {input.group} \cup {s.group : s \in existing}
           mates(s) == {t \in Live(list) : t.group = s.group}
           result == ReviseAll(list, LAMBDA s :
                        IF s.del \/ s.group \notin touched THEN s
                        ELSE Placed(s, s.group, Rank(s, mates(s)), now))
           q == [p EXCEPT !.shortcuts = result]
<1>1. p.shortcuts \in Seq(Shortcut(V)) /\ Entries(p.shortcuts) \in SUBSET Shortcut(V)
  BY EntriesFinite DEF Profile
<1>2. next \in Shortcut(V)
  <2>1. NextSort(LiveIn(p, input.group)) \in Int
    BY SubsetOfEntries DEF LiveIn, Live
  <2>2. existing # {} => ById(p.shortcuts, input.id) \in Entries(p.shortcuts)
    BY DEF ById
  <2>3. stayed # {} => ById(p.shortcuts, input.id).sort \in Int
    BY <1>1, <2>2 DEF Shortcut
  <2> QED
    BY <2>1, <2>3 DEF Shortcut
<1>3. next.id = input.id /\ next.group = input.group
  OBVIOUS
<1> HIDE DEF next
<1>4. /\ list \in Seq(Shortcut(V)) /\ list # <<>>
      /\ \A x \in Entries(list) : x = next \/ x \in Entries(p.shortcuts)
  <2>1. CASE existing = {}
    BY <1>1, <1>2, <2>1, LongerList
  <2>2. CASE existing # {}
    <3> DEFINE f == Revise(p.shortcuts, input.id, LAMBDA s : next)
    <3>1. f = [i \in DOMAIN p.shortcuts |->
                 IF p.shortcuts[i].id = input.id THEN next ELSE p.shortcuts[i]]
      BY DEF Revise
    <3>2. \A i \in DOMAIN p.shortcuts : f[i] = next \/ f[i] \in Entries(p.shortcuts)
      BY <3>1 DEF Entries
    <3>3. f \in [DOMAIN p.shortcuts -> Shortcut(V)]
      BY <1>1, <1>2, <3>1 DEF Entries
    <3> HIDE DEF f
    <3>4. f \in Seq(Shortcut(V)) /\ DOMAIN f = DOMAIN p.shortcuts /\ Len(f) = Len(p.shortcuts)
      BY <1>1, <3>3, RevisedList
    <3>5. f # <<>>
      BY <1>1, <3>4, EmptySeq DEF Housed
    <3> QED
      BY <2>2, <3>2, <3>4, <3>5 DEF f, Entries
  <2> QED
    BY <2>1, <2>2
<1> HIDE DEF list, existing
<1>5. result = [i \in DOMAIN list |->
                  IF list[i].del \/ list[i].group \notin touched THEN list[i]
                  ELSE Placed(list[i], list[i].group, Rank(list[i], mates(list[i])), now)]
  BY DEF ReviseAll
<1>6. ASSUME NEW i \in DOMAIN list
      PROVE  /\ result[i] \in Shortcut(V)
             /\ result[i].id = list[i].id /\ result[i].group = list[i].group
             /\ result[i].del = list[i].del
  <2>1. list[i] \in Shortcut(V)
    BY <1>4, LenProperties
  <2> DEFINE rank == Rank(list[i], mates(list[i]))
  <2>2. rank \in Nat
    BY <1>4, RankIsNumber DEF Live
  <2>3. list[i].group \in Int
    BY <2>1 DEF Shortcut
  <2> HIDE DEF rank
  <2>5. rank \in Int
    BY <2>2
  <2>4. LET t == Placed(list[i], list[i].group, rank, now)
        IN t \in Shortcut(V) /\ t.id = list[i].id /\ t.group = list[i].group /\ t.del = list[i].del
    BY <2>1, <2>3, <2>5, PlacedIsShortcut
  <2> QED
    BY <1>5, <2>1, <2>4 DEF rank
<1>7. result \in [DOMAIN list -> Shortcut(V)]
  BY <1>5, <1>6
<1> HIDE DEF result
<1>8. result \in Seq(Shortcut(V)) /\ DOMAIN result = DOMAIN list /\ result # <<>>
  BY <1>4, <1>7, RevisedList, EmptySeq
<1>9. q \in Profile(V) /\ q.groups = p.groups /\ q.shortcuts = result /\ SameKeys(p, q)
  BY <1>8, WithShortcuts
<1>10. \A x \in Entries(result) : AtHome(x, p.groups, S)
  <2> SUFFICES ASSUME NEW i \in DOMAIN list PROVE AtHome(result[i], p.groups, S)
    BY <1>8 DEF Entries
  <2>1. list[i] = next \/ list[i] \in Entries(p.shortcuts)
    BY <1>4 DEF Entries
  <2> QED
    BY <1>3, <1>6, <2>1 DEF AtHome, Housed
<1>11. Housed(q, S)
  BY <1>8, <1>9, <1>10 DEF Housed
<1>12. q = UpsertShortcut(p, input, now)
  BY DEF UpsertShortcut, result, list, next, existing
<1> QED
  BY <1>9, <1>11, <1>12

LEMMA MoveHouses ==
    ASSUME NEW V, NEW S, NEW p \in Profile(V), Housed(p, S), NEW id, NEW dest \in Int, NEW target,
           NEW now \in V
    PROVE  LET q == MoveShortcut(p, id, dest, target, now)
           IN q \in Profile(V) /\ Housed(q, S) /\ SameKeys(p, q)
<1> DEFINE source == ById(p.shortcuts, id)
           left_ == LiveIn(p, source.group) \ {source}
           others == LiveIn(p, dest) \ {source}
           onto == {s \in others : s.id = target}
           slot == IF onto = {} THEN Cardinality(others)
                   ELSE LET t == ById(p.shortcuts, target)
                        IN Rank(t, others)
                           + (IF source.group = dest /\ Before(source, t) THEN 1 ELSE 0)
           place(s) ==
              IF s = source THEN Placed(s, dest, slot, now)
              ELSE IF s \in others
              THEN Placed(s, dest, Rank(s, others) + (IF Rank(s, others) < slot THEN 0 ELSE 1), now)
              ELSE IF s \in left_ THEN Placed(s, s.group, Rank(s, left_), now)
              ELSE s
           L == ReviseAll(p.shortcuts, place)
           q == [p EXCEPT !.shortcuts = L]
<1>1. CASE id \notin {s.id : s \in Live(p.shortcuts)} \/ dest \notin {g.id : g \in Live(p.groups)}
  <2>1. MoveShortcut(p, id, dest, target, now) = p
    BY <1>1 DEF MoveShortcut
  <2> QED
    BY <2>1 DEF SameKeys
<1>2. CASE id \in {s.id : s \in Live(p.shortcuts)} /\ dest \in {g.id : g \in Live(p.groups)}
  <2>1. p.shortcuts \in Seq(Shortcut(V))
    BY DEF Profile
  <2>2. others \in SUBSET Entries(p.shortcuts) /\ left_ \in SUBSET Entries(p.shortcuts)
    BY DEF LiveIn, Live
  <2>3. \A x : Rank(x, others) \in Nat /\ Rank(x, left_) \in Nat /\ Cardinality(others) \in Nat
    BY <2>1, <2>2, RankIsNumber
  <2>4. slot \in Int
    BY <2>3
  <2>5. \A x \in others : x.group = dest
    BY DEF LiveIn
  <2> HIDE DEF slot, others, left_
  <2>6. ASSUME NEW i \in DOMAIN p.shortcuts
        PROVE  LET s == p.shortcuts[i]
               IN place(s) \in Shortcut(V) /\ (AtHome(s, p.groups, S) => AtHome(place(s), p.groups, S))
    <3> DEFINE s == p.shortcuts[i]
    <3>0. s \in Shortcut(V)
      BY <2>1, ElementOfSeq, LenProperties
    <3> HIDE DEF s
    <3>1. s \in Shortcut(V) /\ s.group \in Int
      BY <3>0 DEF Shortcut
    <3> SUFFICES place(s) \in Shortcut(V) /\ (AtHome(s, p.groups, S) => AtHome(place(s), p.groups, S))
      BY DEF s
    <3>2. CASE s = source
      <4>1. LET t == Placed(s, dest, slot, now) IN t \in Shortcut(V) /\ t.group = dest
        BY <2>4, <3>1, PlacedIsShortcut
      <4> QED
        BY <1>2, <3>2, <4>1 DEF AtHome, LiveIds
    <3>3. CASE s # source /\ s \in others
      <4> DEFINE n == Rank(s, others) + (IF Rank(s, others) < slot THEN 0 ELSE 1)
      <4>1. n \in Int
        BY <2>3, <2>4
      <4> HIDE DEF n
      <4>2. LET t == Placed(s, dest, n, now) IN t \in Shortcut(V) /\ t.group = dest
        BY <3>1, <4>1, PlacedIsShortcut
      <4> QED
        BY <1>2, <3>3, <4>2 DEF AtHome, LiveIds, n
    <3>4. CASE s # source /\ s \notin others /\ s \in left_
      <4> DEFINE n == Rank(s, left_)
      <4>1. n \in Int
        BY <2>3
      <4> HIDE DEF n
      <4>2. LET t == Placed(s, s.group, n, now)
            IN t \in Shortcut(V) /\ t.group = s.group /\ t.id = s.id /\ t.del = s.del
        BY <3>1, <4>1, PlacedIsShortcut
      <4> QED
        BY <3>4, <4>2 DEF AtHome, n
    <3>5. CASE s # source /\ s \notin others /\ s \notin left_
      BY <3>1, <3>5
    <3> QED
      BY <3>2, <3>3, <3>4, <3>5
  <2> HIDE DEF place
  <2>7. L = [i \in DOMAIN p.shortcuts |-> place(p.shortcuts[i])]
    BY DEF ReviseAll
  <2>8. L \in [DOMAIN p.shortcuts -> Shortcut(V)]
    BY <2>6, <2>7
  <2>9. \A i \in DOMAIN p.shortcuts : AtHome(p.shortcuts[i], p.groups, S) => AtHome(L[i], p.groups, S)
    BY <2>6, <2>7
  <2> HIDE DEF L
  <2>10. L \in Seq(Shortcut(V)) /\ L # <<>> /\ \A x \in Entries(L) : AtHome(x, p.groups, S)
    BY <2>8, <2>9, Rehoused DEF Housed
  <2>11. q \in Profile(V) /\ q.groups = p.groups /\ q.shortcuts = L /\ SameKeys(p, q)
    BY <2>10, WithShortcuts
  <2>12. Housed(q, S)
    BY <2>10, <2>11 DEF Housed
  <2>13. q = MoveShortcut(p, id, dest, target, now)
    BY <1>2 DEF MoveShortcut, L, place, slot, others, left_
  <2> QED
    BY <2>11, <2>12, <2>13
<1> QED
  BY <1>1, <1>2

LEMMA DeleteHouses ==
    ASSUME NEW V, NEW S, NEW p \in Profile(V), Housed(p, S), NEW id, NEW now \in V
    PROVE  LET q == DeleteShortcut(p, id, now)
           IN q \in Profile(V) /\ Housed(q, S) /\ SameKeys(p, q)
<1> DEFINE L == Revise(p.shortcuts, id, LAMBDA s : [s EXCEPT !.del = TRUE, !.at = now])
           q == [p EXCEPT !.shortcuts = L]
<1>1. p.shortcuts \in Seq(Shortcut(V))
  BY DEF Profile
<1>2. L = [i \in DOMAIN p.shortcuts |->
             IF p.shortcuts[i].id = id THEN [p.shortcuts[i] EXCEPT !.del = TRUE, !.at = now]
             ELSE p.shortcuts[i]]
  BY DEF Revise
<1>3. ASSUME NEW i \in DOMAIN p.shortcuts
      PROVE  L[i] \in Shortcut(V)
             /\ (AtHome(p.shortcuts[i], p.groups, S) => AtHome(L[i], p.groups, S))
  <2> DEFINE s == p.shortcuts[i]
             t == [s EXCEPT !.del = TRUE, !.at = now]
  <2>1. s \in Shortcut(V)
    BY <1>1, ElementOfSeq, LenProperties
  <2>2. L[i] = IF s.id = id THEN t ELSE s
    BY <1>2
  <2> HIDE DEF s, L
  <2>3. t \in Shortcut(V) /\ t.del
    BY <2>1 DEF Shortcut
  <2> HIDE DEF t
  <2> QED
    BY <2>1, <2>2, <2>3 DEF AtHome, s
<1>4. L \in [DOMAIN p.shortcuts -> Shortcut(V)]
  BY <1>2, <1>3
<1> HIDE DEF L
<1>5. L \in Seq(Shortcut(V)) /\ L # <<>> /\ \A x \in Entries(L) : AtHome(x, p.groups, S)
  BY <1>3, <1>4, Rehoused DEF Housed
<1>6. q \in Profile(V) /\ q.groups = p.groups /\ q.shortcuts = L /\ SameKeys(p, q)
  BY <1>5, WithShortcuts
<1>7. Housed(q, S)
  BY <1>5, <1>6 DEF Housed
<1>8. q = DeleteShortcut(p, id, now)
  BY DEF DeleteShortcut, L
<1> QED
  BY <1>6, <1>7, <1>8

\* More groups, or the same ones with other titles and places.
LEMMA Regrouped ==
    ASSUME NEW V, NEW S, NEW p \in Profile(V), Housed(p, S), NEW G \in Seq(Group(V)),
           LiveIds(p.groups) \subseteq LiveIds(G)
    PROVE  LET q == [p EXCEPT !.groups = G]
           IN q \in Profile(V) /\ Housed(q, S) /\ SameKeys(p, q)
<1> DEFINE q == [p EXCEPT !.groups = G]
<1>1. q \in Profile(V) /\ q.groups = G /\ q.shortcuts = p.shortcuts /\ SameKeys(p, q)
  BY WithGroups
<1>2. Live(G) # {}
  BY DEF Housed, LiveIds
<1> QED
  BY <1>1, <1>2 DEF Housed, AtHome

LEMMA SameIds ==
    ASSUME NEW V, NEW groups \in Seq(Group(V)), NEW G \in [DOMAIN groups -> Group(V)],
           \A i \in DOMAIN groups : G[i].id = groups[i].id /\ G[i].del = groups[i].del
    PROVE  G \in Seq(Group(V)) /\ LiveIds(groups) \subseteq LiveIds(G)
<1>1. G \in Seq(Group(V)) /\ DOMAIN G = DOMAIN groups
  BY RevisedList
<1> QED
  BY <1>1 DEF LiveIds, Live, Entries

LEMMA AddGroupHouses ==
    ASSUME NEW V, NEW S, NEW p \in Profile(V), Housed(p, S),
           NEW id \in Int, NEW title \in V, NEW now \in V
    PROVE  LET q == AddShortcutGroup(p, id, title, now)
           IN /\ q \in Profile(V) /\ Housed(q, S) /\ SameKeys(p, q)
              /\ q.shortcuts = p.shortcuts
              /\ \E x \in Live(q.groups) : x.id = id /\ x.title = title
<1> DEFINE x == [id |-> id, title |-> title, sort |-> NextSort(Entries(p.groups)),
                 at |-> now, del |-> FALSE]
           G == Append(p.groups, x)
<1>1. p.groups \in Seq(Group(V))
  BY DEF Profile
<1>2. IsFiniteSet(Entries(p.groups)) /\ Entries(p.groups) \in SUBSET Group(V)
  BY <1>1, EntriesFinite
<1>3. NextSort(Entries(p.groups)) \in Int
  BY <1>2, NextSortIsNumber DEF Group
<1>4. x \in Group(V) /\ x.id = id /\ x.title = title /\ ~x.del
  BY <1>3 DEF Group
<1>5. AddShortcutGroup(p, id, title, now) = [p EXCEPT !.groups = G]
  BY DEF AddShortcutGroup
<1> HIDE DEF x
<1>6. G \in Seq(Group(V)) /\ Entries(G) = Entries(p.groups) \cup {x}
  BY <1>1, <1>4, LongerList
<1> HIDE DEF G
<1>7. LiveIds(p.groups) \subseteq LiveIds(G) /\ x \in Live(G)
  BY <1>4, <1>6 DEF LiveIds, Live
<1>8. LET q == [p EXCEPT !.groups = G]
      IN q \in Profile(V) /\ Housed(q, S) /\ SameKeys(p, q)
  BY <1>6, <1>7, Regrouped
<1>9. LET q == [p EXCEPT !.groups = G] IN q.groups = G /\ q.shortcuts = p.shortcuts
  BY <1>6, WithGroups
<1> QED
  BY <1>4, <1>5, <1>7, <1>8, <1>9

LEMMA RenameHouses ==
    ASSUME NEW V, NEW S, NEW p \in Profile(V), Housed(p, S), NEW id, NEW title \in V, NEW now \in V
    PROVE  LET q == RenameShortcutGroup(p, id, title, now)
           IN q \in Profile(V) /\ Housed(q, S) /\ SameKeys(p, q)
<1> DEFINE G == Revise(p.groups, id, LAMBDA g : [g EXCEPT !.title = title, !.at = now])
<1>1. p.groups \in Seq(Group(V))
  BY DEF Profile
<1>2. G = [i \in DOMAIN p.groups |->
             IF p.groups[i].id = id THEN [p.groups[i] EXCEPT !.title = title, !.at = now]
             ELSE p.groups[i]]
  BY DEF Revise
<1>3. ASSUME NEW i \in DOMAIN p.groups
      PROVE  G[i] \in Group(V) /\ G[i].id = p.groups[i].id /\ G[i].del = p.groups[i].del
  <2> DEFINE g == p.groups[i]
             h == [g EXCEPT !.title = title, !.at = now]
  <2>1. g \in Group(V)
    BY <1>1, ElementOfSeq, LenProperties
  <2>2. G[i] = IF g.id = id THEN h ELSE g
    BY <1>2
  <2> HIDE DEF g, G
  <2>3. h \in Group(V) /\ h.id = g.id /\ h.del = g.del
    BY <2>1 DEF Group
  <2> HIDE DEF h
  <2> QED
    BY <2>1, <2>2, <2>3 DEF g
<1>4. G \in [DOMAIN p.groups -> Group(V)]
  BY <1>2, <1>3
<1>5. RenameShortcutGroup(p, id, title, now) = [p EXCEPT !.groups = G]
  BY DEF RenameShortcutGroup
<1> HIDE DEF G
<1>6. G \in Seq(Group(V)) /\ LiveIds(p.groups) \subseteq LiveIds(G)
  BY <1>1, <1>3, <1>4, SameIds
<1>7. LET q == [p EXCEPT !.groups = G]
      IN q \in Profile(V) /\ Housed(q, S) /\ SameKeys(p, q)
  BY <1>6, Regrouped
<1> QED
  BY <1>5, <1>7

LEMMA SwapHouses ==
    ASSUME NEW V, NEW S, NEW p \in Profile(V), Housed(p, S), NEW a, NEW b, NEW now \in V
    PROVE  LET q == SwapShortcutGroupOrder(p, a, b, now)
           IN q \in Profile(V) /\ Housed(q, S) /\ SameKeys(p, q)
<1> DEFINE pair == {g \in Entries(p.groups) : g.id \in {a, b}}
           other(g) == CHOOSE h \in pair : h # g
           swapped(g) ==
              IF g \in pair THEN [g EXCEPT !.sort = other(g).sort, !.at = now] ELSE g
           G == ReviseAll(p.groups, swapped)
<1>1. p.groups \in Seq(Group(V)) /\ IsFiniteSet(Entries(p.groups))
      /\ Entries(p.groups) \in SUBSET Group(V)
  BY EntriesFinite DEF Profile
<1>2. CASE Cardinality(pair) < 2
  <2>1. SwapShortcutGroupOrder(p, a, b, now) = p
    BY <1>2 DEF SwapShortcutGroupOrder
  <2> QED
    BY <2>1 DEF SameKeys
<1>3. CASE ~(Cardinality(pair) < 2)
  <2>1. ASSUME NEW g \in pair PROVE other(g) \in pair
    <3>1. IsFiniteSet(pair) /\ Cardinality(pair) # 1
      BY <1>1, <1>3, FS_Subset
    <3>2. pair # {g}
      BY <3>1, FS_Singleton
    <3> QED
      BY <3>2
  <2>2. ASSUME NEW i \in DOMAIN p.groups
        PROVE  G[i] \in Group(V) /\ G[i].id = p.groups[i].id /\ G[i].del = p.groups[i].del
    <3> DEFINE g == p.groups[i]
               n == other(g).sort
               h == [g EXCEPT !.sort = n, !.at = now]
    <3>1. g \in Group(V)
      BY <1>1, ElementOfSeq, LenProperties
    <3>2. G[i] = IF g \in pair THEN h ELSE g
      BY DEF ReviseAll
    <3>3. g \in pair => n \in Int
      BY <1>1, <2>1 DEF Group
    <3> HIDE DEF g, G, n
    <3>4. n \in Int => h \in Group(V) /\ h.id = g.id /\ h.del = g.del
      BY <3>1 DEF Group
    <3> HIDE DEF h
    <3> QED
      BY <3>1, <3>2, <3>3, <3>4 DEF g
  <2>3. G \in [DOMAIN p.groups -> Group(V)]
    <3> HIDE DEF swapped
    <3>1. G = [i \in DOMAIN p.groups |-> swapped(p.groups[i])]
      BY DEF ReviseAll
    <3> QED
      BY <2>2, <3>1
  <2>4. SwapShortcutGroupOrder(p, a, b, now) = [p EXCEPT !.groups = G]
    BY <1>3 DEF SwapShortcutGroupOrder
  <2> HIDE DEF G
  <2>5. G \in Seq(Group(V)) /\ LiveIds(p.groups) \subseteq LiveIds(G)
    BY <1>1, <2>2, <2>3, SameIds
  <2>6. LET q == [p EXCEPT !.groups = G]
        IN q \in Profile(V) /\ Housed(q, S) /\ SameKeys(p, q)
    BY <2>5, Regrouped
  <2> QED
    BY <2>4, <2>6
<1> QED
  BY <1>2, <1>3

LEMMA MinIsThere ==
    ASSUME NEW S \in SUBSET Int, IsFiniteSet(S), S # {}
    PROVE  \E m \in S : \A x \in S : m <= x
<1>1. Cardinality(S) \in Nat /\ Cardinality(S) # 0
  BY FS_CardinalityType, FS_EmptySet
<1>2. PICK m \in S : Cardinality(Upto(S, m)) = 1
  BY <1>1, UptoCounts
<1>3. IsFiniteSet(Upto(S, m))
  BY FS_Subset DEF Upto
<1>4. m \in Upto(S, m)
  BY DEF Upto
<1>5. Upto(S, m) = {m}
  BY <1>2, <1>3, <1>4, FS_Singleton
<1>6. \A x \in S : m <= x
  BY <1>5 DEF Upto
<1> QED
  BY <1>6

\* The first entry in order of the page, of entries that have a sort index.
LEMMA FirstIsThere ==
    ASSUME NEW V, NEW list \in Seq(V), list # <<>>, \A i \in DOMAIN list : list[i].sort \in Int
    PROVE  \E i \in DOMAIN list : \A j \in DOMAIN list :
              list[i].sort < list[j].sort \/ (list[i].sort = list[j].sort /\ i <= j)
<1> DEFINE D == DOMAIN list
           T == {list[i].sort : i \in D}
<1>1. D = 1 .. Len(list) /\ Len(list) \in Nat \ {0}
  BY LenProperties, EmptySeq
<1>2. IsFiniteSet(D) /\ D # {} /\ D \in SUBSET Int
  <2>1. 1 \in D
    BY <1>1
  <2>2. IsFiniteSet(D)
    BY <1>1, FS_Interval
  <2>3. D \in SUBSET Int
    BY <1>1
  <2> QED
    BY <2>1, <2>2, <2>3
<1>3. IsFiniteSet(T) /\ T # {} /\ T \in SUBSET Int
  <2> DEFINE f == [i \in D |-> list[i].sort]
  <2>1. f \in Surjection(D, T)
    BY DEF Surjection
  <2> QED
    BY <1>2, <2>1, FS_Surjection
<1>4. PICK m \in T : \A x \in T : m <= x
  BY <1>3, MinIsThere
<1> DEFINE J == {i \in D : list[i].sort = m}
<1>5. J \in SUBSET D /\ J # {}
  OBVIOUS
<1>6. IsFiniteSet(J) /\ J \in SUBSET Int
  BY <1>2, <1>5, FS_Subset
<1>7. PICK i \in J : \A j \in J : i <= j
  BY <1>5, <1>6, MinIsThere
<1>8. ASSUME NEW j \in D
      PROVE  list[i].sort < list[j].sort \/ (list[i].sort = list[j].sort /\ i <= j)
  <2>1. m <= list[j].sort /\ m \in Int /\ list[j].sort \in Int
    BY <1>3, <1>4
  <2> QED
    BY <1>7, <2>1
<1> QED
  BY <1>7, <1>8

LEMMA DeleteGroupHouses ==
    ASSUME NEW V, NEW S, NEW p \in Profile(V), Housed(p, S), NEW id, NEW now \in V
    PROVE  LET q == DeleteShortcutGroup(p, id, now)
           IN q \in Profile(V) /\ Housed(q, S) /\ SameKeys(p, q)
<1> DEFINE I == {i \in DOMAIN p.groups : ~p.groups[i].del /\ p.groups[i].id # id}
           rest == Sub(p.groups, I)
           first == CHOOSE i \in DOMAIN rest : \A j \in DOMAIN rest :
                        rest[i].sort < rest[j].sort \/ (rest[i].sort = rest[j].sort /\ i <= j)
           fallback == rest[first].id
           next == NextSort(LiveIn(p, fallback))
           K == {i \in DOMAIN p.shortcuts : ~p.shortcuts[i].del /\ p.shortcuts[i].group = id}
           moved == Sub(p.shortcuts, K)
           place(list, x) == (CHOOSE i \in DOMAIN list : list[i].id = x.id) - 1
           renumbered(g) ==
              IF g.id = id THEN [g EXCEPT !.del = TRUE, !.at = now]
              ELSE IF g.del THEN g
              ELSE [g EXCEPT !.sort = place(rest, g), !.at = IF g.id = fallback THEN now ELSE @]
           rehomed(s) ==
              IF s.del \/ s.group # id THEN s
              ELSE [s EXCEPT !.group = fallback, !.sort = next + place(moved, s), !.at = now]
           G == ReviseAll(p.groups, renumbered)
           L == ReviseAll(p.shortcuts, rehomed)
           q == [p EXCEPT !.groups = G, !.shortcuts = L]
<1>1. p.groups \in Seq(Group(V)) /\ p.shortcuts \in Seq(Shortcut(V))
  BY DEF Profile
<1>2. CASE rest = <<>> \/ id \notin {g.id : g \in Live(p.groups)}
  <2>1. DeleteShortcutGroup(p, id, now) = p
    BY <1>2 DEF DeleteShortcutGroup, Filter
  <2> QED
    BY <2>1 DEF SameKeys
<1>3. CASE ~(rest = <<>> \/ id \notin {g.id : g \in Live(p.groups)})
  <2>1. rest \in Seq(Group(V)) /\ Entries(rest) = {p.groups[i] : i \in I}
    BY <1>1, SubIsList
  <2>2. moved \in Seq(Shortcut(V)) /\ Entries(moved) = {p.shortcuts[i] : i \in K}
    BY <1>1, SubIsList
  <2> HIDE DEF rest, moved
  <2>3. \A i \in DOMAIN rest : rest[i] \in Group(V)
    BY <2>1, ElementOfSeq, LenProperties
  <2>4. \A i \in DOMAIN rest : rest[i].sort \in Int
    BY <2>3 DEF Group
  <2>5. first \in DOMAIN rest
    BY <1>3, <2>1, <2>4, FirstIsThere
  <2> HIDE DEF first
  <2>6. PICK f \in I : rest[first] = p.groups[f]
    BY <2>1, <2>5 DEF Entries
  <2>7. p.groups[f] \in Group(V) /\ fallback \in Int /\ fallback # id /\ ~p.groups[f].del
        /\ p.groups[f].id = fallback
    <3>1. p.groups[f] \in Group(V)
      BY <1>1, ElementOfSeq, LenProperties
    <3> QED
      BY <2>6, <3>1 DEF Group
  <2>8. next \in Int
    BY SubsetOfEntries DEF LiveIn, Live
  <2> HIDE DEF fallback, next
  <2>9. ASSUME NEW i \in DOMAIN p.groups
        PROVE  /\ renumbered(p.groups[i]) \in Group(V)
               /\ renumbered(p.groups[i]).id = p.groups[i].id
               /\ p.groups[i].id # id => renumbered(p.groups[i]).del = p.groups[i].del
    <3> DEFINE g == p.groups[i]
    <3>1. g \in Group(V)
      BY <1>1, ElementOfSeq, LenProperties
    <3>2. ~g.del /\ g.id # id => place(rest, g) \in Int
      <4> HAVE ~g.del /\ g.id # id
      <4>1. g \in Entries(rest)
        BY <2>1
      <4>2. \E j \in DOMAIN rest : rest[j].id = g.id
        BY <4>1 DEF Entries
      <4>3. DOMAIN rest \in SUBSET Int
        BY <2>1, LenProperties
      <4> QED
        BY <4>2, <4>3
    <3> HIDE DEF place, g
    <3>3. /\ renumbered(g) \in Group(V) /\ renumbered(g).id = g.id
          /\ g.id # id => renumbered(g).del = g.del
      <4>1. CASE g.id = id
        BY <3>1, <4>1 DEF Group
      <4>2. CASE g.id # id /\ g.del
        BY <3>1, <4>2
      <4>3. CASE g.id # id /\ ~g.del
        <5> DEFINE n == place(rest, g)
                   at == IF g.id = fallback THEN now ELSE g.at
                   h == [g EXCEPT !.sort = n, !.at = at]
        <5>1. n \in Int /\ at \in V
          BY <3>1, <3>2, <4>3 DEF Group
        <5>2. renumbered(g) = h
          BY <3>1, <4>3 DEF Group
        <5> HIDE DEF n, at
        <5>3. h \in Group(V) /\ h.id = g.id /\ h.del = g.del
          BY <3>1, <5>1 DEF Group
        <5> QED
          BY <5>2, <5>3
      <4> QED
        BY <4>1, <4>2, <4>3
    <3> QED
      BY <3>3 DEF g
  <2>10. ASSUME NEW i \in DOMAIN p.shortcuts
         PROVE  LET s == p.shortcuts[i]
                IN /\ rehomed(s) \in Shortcut(V)
                   /\ \/ rehomed(s) = s /\ (s.del \/ s.group # id)
                      \/ rehomed(s).group = fallback
    <3> DEFINE s == p.shortcuts[i]
    <3>1. s \in Shortcut(V)
      BY <1>1, ElementOfSeq, LenProperties
    <3>2. ~s.del /\ s.group = id => place(moved, s) \in Int
      <4> HAVE ~s.del /\ s.group = id
      <4>1. s \in Entries(moved)
        BY <2>2
      <4>2. \E j \in DOMAIN moved : moved[j].id = s.id
        BY <4>1 DEF Entries
      <4>3. DOMAIN moved \in SUBSET Int
        BY <2>2, LenProperties
      <4> QED
        BY <4>2, <4>3
    <3> HIDE DEF place, s
    <3> SUFFICES /\ rehomed(s) \in Shortcut(V)
                 /\ \/ rehomed(s) = s /\ (s.del \/ s.group # id)
                    \/ rehomed(s).group = fallback
      BY DEF s
    <3>3. CASE s.del \/ s.group # id
      BY <3>1, <3>3
    <3>4. CASE ~s.del /\ s.group = id
      <4> DEFINE n == next + place(moved, s)
                 t == [s EXCEPT !.group = fallback, !.sort = n, !.at = now]
      <4>1. n \in Int
        BY <2>8, <3>2, <3>4
      <4>2. rehomed(s) = t
        BY <3>4
      <4> HIDE DEF n
      <4>3. t \in Shortcut(V) /\ t.group = fallback
        BY <2>7, <3>1, <4>1 DEF Shortcut
      <4> QED
        BY <4>2, <4>3
    <3> QED
      BY <3>3, <3>4
  <2> HIDE DEF renumbered, rehomed
  <2>11. G = [i \in DOMAIN p.groups |-> renumbered(p.groups[i])]
         /\ L = [i \in DOMAIN p.shortcuts |-> rehomed(p.shortcuts[i])]
    BY DEF ReviseAll
  <2> HIDE DEF G, L
  <2>12. G \in [DOMAIN p.groups -> Group(V)] /\ L \in [DOMAIN p.shortcuts -> Shortcut(V)]
    BY <2>9, <2>10, <2>11
  <2>13. G \in Seq(Group(V)) /\ DOMAIN G = DOMAIN p.groups
    BY <1>1, <2>12, RevisedList
  <2>14. \A g \in LiveIds(p.groups) : g # id => g \in LiveIds(G)
    BY <2>9, <2>11, <2>13 DEF LiveIds, Live, Entries
  <2>15. fallback \in LiveIds(G)
    BY <2>7, <2>14 DEF LiveIds, Live, Entries
  <2>16. Live(G) # {}
    BY <2>15 DEF LiveIds
  <2>17. \A i \in DOMAIN p.shortcuts : AtHome(p.shortcuts[i], p.groups, S) => AtHome(L[i], G, S)
    <3> SUFFICES ASSUME NEW i \in DOMAIN p.shortcuts, AtHome(p.shortcuts[i], p.groups, S)
                 PROVE  AtHome(L[i], G, S)
      OBVIOUS
    <3>1. L[i] = rehomed(p.shortcuts[i])
      BY <2>11
    <3>2. \/ L[i] = p.shortcuts[i] /\ (p.shortcuts[i].del \/ p.shortcuts[i].group # id)
          \/ L[i].group = fallback
      BY <2>10, <3>1
    <3> QED
      BY <2>14, <2>15, <3>2 DEF AtHome
  <2>18. L \in Seq(Shortcut(V)) /\ L # <<>> /\ \A x \in Entries(L) : AtHome(x, G, S)
    BY <2>12, <2>16, <2>17, Rehoused
  <2>19. q \in Profile(V) /\ q.groups = G /\ q.shortcuts = L /\ SameKeys(p, q)
    BY <2>13, <2>18, WithEntries
  <2>20. Housed(q, S)
    BY <2>16, <2>18, <2>19 DEF Housed
  <2>21. q = DeleteShortcutGroup(p, id, now)
    BY <1>3 DEF DeleteShortcutGroup, Filter, rest, first, fallback, next, moved, place,
                renumbered, rehomed, G, L
  <2> QED
    BY <2>19, <2>20, <2>21
<1> QED
  BY <1>2, <1>3

-----------------------------------------------------------------------------
(* The edits of the wallpapers *)

\* An edit of the wallpapers, which leaves the entries alone.
SameEntries(p, q) == q.groups = p.groups /\ q.shortcuts = p.shortcuts

\* Local images that are listed or shown are among those in T, and what other
\* devices are told is none.
KeysIn(p, T) ==
    /\ (Entries(p.ids) \cup {p.selected}) \cap LocalWallpaper \subseteq T
    /\ None \notin Entries(p.ids) \cup {p.selected, p.portable}
    /\ p.portable \notin LocalWallpaper

MayShow(key, T) == key # None /\ (key \in LocalWallpaper => key \in T)

LEMMA ListedKeys ==
    ASSUME NEW V, NEW ids \in Seq(V), NEW key \in V
    PROVE  LET list == IF Contains(ids, key) THEN ids ELSE Append(ids, key)
           IN list \in Seq(V) /\ Entries(list) = Entries(ids) \cup {key}
<1>1. CASE Contains(ids, key)
  <2>1. key \in Entries(ids)
    BY <1>1, LenProperties DEF Contains, Entries
  <2> QED
    BY <1>1, <2>1
<1>2. CASE ~Contains(ids, key)
  BY <1>2, LongerList
<1> QED
  BY <1>1, <1>2

LEMMA SetKeeps ==
    ASSUME NEW V, NEW T, NEW p \in Profile(V), KeysIn(p, T), NEW key \in V, MayShow(key, T)
    PROVE  LET q == SetProfileWallpaper(p, key)
           IN /\ q \in Profile(V) /\ KeysIn(q, T) /\ SameEntries(p, q)
              /\ q.selected = key
<1> DEFINE list == IF Contains(p.ids, key) THEN p.ids ELSE Append(p.ids, key)
           told == IF key \in LocalWallpaper THEN p.portable ELSE key
           q == [p EXCEPT !.selected = key, !.portable = told, !.ids = list]
<1>1. p.ids \in Seq(V) /\ told \in V
  BY DEF Profile
<1>2. list \in Seq(V) /\ Entries(list) = Entries(p.ids) \cup {key}
  BY <1>1, ListedKeys
<1>3. told \notin LocalWallpaper /\ told # None
  BY DEF KeysIn, MayShow
<1>4. SetProfileWallpaper(p, key) = q
  <2>1. p.portable = p["portable"] /\ p.ids = p["ids"]
    OBVIOUS
  <2> QED
    BY DEF SetProfileWallpaper, Profile
<1> HIDE DEF list, told
<1>5. /\ q \in Profile(V) /\ SameEntries(p, q)
      /\ q.selected = key /\ q.portable = told /\ q.ids = list
  BY <1>1, <1>2 DEF Profile, SameEntries
<1>6. KeysIn(q, T)
  BY <1>2, <1>3, <1>5 DEF KeysIn, MayShow
<1> QED
  BY <1>4, <1>5, <1>6

LEMMA AddKeeps ==
    ASSUME NEW V, NEW T, NEW p \in Profile(V), KeysIn(p, T), NEW key \in V, MayShow(key, T)
    PROVE  LET q == AddWallpaperToSelection(p, key)
           IN q \in Profile(V) /\ KeysIn(q, T) /\ SameEntries(p, q)
<1> DEFINE list == IF Contains(p.ids, key) THEN p.ids ELSE Append(p.ids, key)
           q == [p EXCEPT !.ids = list]
<1>1. p.ids \in Seq(V)
  BY DEF Profile
<1>2. list \in Seq(V) /\ Entries(list) = Entries(p.ids) \cup {key}
  BY <1>1, ListedKeys
<1>3. AddWallpaperToSelection(p, key) = q
  BY DEF AddWallpaperToSelection, Profile
<1> HIDE DEF list
<1>4. /\ q \in Profile(V) /\ SameEntries(p, q)
      /\ q.selected = p.selected /\ q.portable = p.portable /\ q.ids = list
  BY <1>1, <1>2 DEF Profile, SameEntries
<1>5. KeysIn(q, T)
  BY <1>2, <1>4 DEF KeysIn, MayShow
<1> QED
  BY <1>3, <1>4, <1>5

LEMMA RemoveKeeps ==
    ASSUME NEW V, NEW T, NEW p \in Profile(V), KeysIn(p, T), NEW key, Mist \in V,
           Mist \notin LocalWallpaper, Mist # None
    PROVE  LET q == RemoveWallpaperFromSelection(p, key)
           IN q \in Profile(V) /\ KeysIn(q, T) /\ SameEntries(p, q)
<1> DEFINE I == {i \in DOMAIN p.ids : p.ids[i] # key}
           J == {i \in DOMAIN p.history : p.history[i] # key}
           ids == Sub(p.ids, I)
           history == Sub(p.history, J)
           shown == IF p.selected # key THEN p.selected ELSE IF ids = <<>> THEN Mist ELSE ids[1]
           q == [p EXCEPT !.ids = ids, !.selected = shown, !.history = history]
<1>1. p.ids \in Seq(V) /\ p.history \in Seq(V) /\ p.selected \in V
  BY DEF Profile
<1>2. ids \in Seq(V) /\ Entries(ids) = {p.ids[i] : i \in I}
  BY <1>1, SubIsList
<1>3. history \in Seq(V)
  BY <1>1, SubIsList
<1>4. Entries(ids) \subseteq Entries(p.ids)
  BY <1>2 DEF Entries
<1>5. RemoveWallpaperFromSelection(p, key) = q
  BY DEF RemoveWallpaperFromSelection, Filter, Profile
<1> HIDE DEF ids, history
<1>6. ids # <<>> => ids[1] \in Entries(ids) /\ ids[1] \in V
  <2> HAVE ids # <<>>
  <2>1. 1 \in DOMAIN ids
    BY <1>2, LenProperties, EmptySeq
  <2> QED
    BY <1>2, <2>1, LenProperties DEF Entries
<1>7. shown \in V /\ shown \in Entries(p.ids) \cup {p.selected, Mist}
  BY <1>1, <1>4, <1>6
<1> HIDE DEF shown
<1>8. /\ q \in Profile(V) /\ SameEntries(p, q)
      /\ q.selected = shown /\ q.portable = p.portable /\ q.ids = ids
  BY <1>1, <1>2, <1>3, <1>7 DEF Profile, SameEntries
<1>9. KeysIn(q, T)
  BY <1>4, <1>7, <1>8 DEF KeysIn
<1> QED
  BY <1>5, <1>8, <1>9

LEMMA RotatedKeeps ==
    ASSUME NEW V, NEW T, NEW p \in Profile(V), KeysIn(p, T), NEW key \in V, MayShow(key, T),
           NEW history \in Seq(V), NEW source \in V, "random" \in V
    PROVE  LET q == Rotated(p, key, history, source)
           IN q \in Profile(V) /\ KeysIn(q, T) /\ SameEntries(p, q) /\ q.selected = key
<1> DEFINE r == SetProfileWallpaper(p, key)
           q == [r EXCEPT !.mode = "random", !.source = source, !.history = history]
<1>1. r \in Profile(V) /\ KeysIn(r, T) /\ SameEntries(p, r) /\ r.selected = key
  BY SetKeeps
<1>2. Rotated(p, key, history, source) = q
  BY DEF Rotated
<1> HIDE DEF r
<1>3. /\ q \in Profile(V) /\ SameEntries(r, q)
      /\ q.selected = r.selected /\ q.portable = r.portable /\ q.ids = r.ids
  BY <1>1 DEF Profile, SameEntries
<1> QED
  BY <1>1, <1>2, <1>3 DEF KeysIn, SameEntries

\* Another icon for a shortcut; the same groups, and shortcuts that differ in
\* their icons only.
OnlyIcon(x, y) ==
    /\ y.id = x.id /\ y.group = x.group /\ y.url = x.url
    /\ y.sort = x.sort /\ y.at = x.at /\ y.del = x.del

Repainted(L, M) == DOMAIN M = DOMAIN L /\ \A i \in DOMAIN L : OnlyIcon(L[i], M[i])

SamePlaces(p, q) == q.groups = p.groups /\ Repainted(p.shortcuts, q.shortcuts)

LEMMA PlacesOn ==
    ASSUME NEW p, NEW q, NEW r, SamePlaces(p, q), SamePlaces(q, r)
    PROVE  SamePlaces(p, r)
  BY DEF SamePlaces, Repainted, OnlyIcon

LEMMA PlacesHouse ==
    ASSUME NEW V, NEW p, NEW q, p.shortcuts \in Seq(Shortcut(V)), q.shortcuts \in Seq(Shortcut(V)),
           SamePlaces(p, q), NEW S, Housed(p, S)
    PROVE  Housed(q, S)
<1>1. q.groups = p.groups /\ DOMAIN q.shortcuts = DOMAIN p.shortcuts
      /\ \A i \in DOMAIN p.shortcuts : OnlyIcon(p.shortcuts[i], q.shortcuts[i])
  BY DEF SamePlaces, Repainted
<1>2. q.shortcuts # <<>>
  <2>1. p.shortcuts # <<>>
    BY DEF Housed
  <2> QED
    BY <1>1, <2>1, EmptySeq
<1>3. \A x \in Entries(q.shortcuts) : AtHome(x, q.groups, S)
  <2> SUFFICES ASSUME NEW i \in DOMAIN p.shortcuts PROVE AtHome(q.shortcuts[i], q.groups, S)
    BY <1>1 DEF Entries
  <2>1. AtHome(p.shortcuts[i], p.groups, S)
    BY DEF Housed, Entries
  <2> QED
    BY <1>1, <2>1 DEF AtHome, OnlyIcon
<1> QED
  BY <1>1, <1>2, <1>3 DEF Housed

\* A list with some of the icons changed.
LEMMA Paints ==
    ASSUME NEW V, NEW list \in Seq(Shortcut(V)), NEW M, DOMAIN M = DOMAIN list,
           M = [i \in DOMAIN list |-> M[i]],
           \A i \in DOMAIN list : M[i] \in Shortcut(V) /\ OnlyIcon(list[i], M[i])
    PROVE  M \in Seq(Shortcut(V)) /\ Repainted(list, M) /\ (list # <<>> => M # <<>>)
<1>1. M \in [DOMAIN list -> Shortcut(V)]
  OBVIOUS
<1>2. M \in Seq(Shortcut(V)) /\ DOMAIN M = DOMAIN list
  BY <1>1, RevisedList
<1> QED
  BY <1>2, EmptySeq DEF Repainted

LEMMA IconSet ==
    ASSUME NEW V, NEW x \in Shortcut(V), NEW c \in {"favicon", "initial", "local"}
    PROVE  LET y == [x EXCEPT !.icon = c]
           IN y \in Shortcut(V) /\ OnlyIcon(x, y) /\ y.icon = c
  BY DEF Shortcut, OnlyIcon

LEMMA IconKept ==
    ASSUME NEW x
    PROVE  OnlyIcon(x, x)
  BY DEF OnlyIcon

\* portableIcon, migrateShortcutIcon and the device's own icons, shortcut by
\* shortcut.
LEMMA IconsConverted ==
    ASSUME NEW V, NEW x \in Shortcut(V)
    PROVE  /\ PortableIcon(x) \in Shortcut(V) /\ OnlyIcon(x, PortableIcon(x))
           /\ PortableIcon(x).icon = IF x.icon = "local" THEN "initial" ELSE x.icon
           /\ \A upgrade \in BOOLEAN :
                 Renewed(x, upgrade) \in Shortcut(V) /\ OnlyIcon(x, Renewed(x, upgrade))
           /\ Renewed(x, FALSE).icon =
                 IF x.icon = "stale" \/ (x.icon = "local" /\ x.url \in KnownUrls)
                 THEN "favicon" ELSE x.icon
  BY IconSet, IconKept DEF PortableIcon, Renewed

LEMMA DrawnIcon ==
    ASSUME NEW V, NEW list \in Seq(Shortcut(V)), NEW ids
    PROVE  LET M == Drawn(list, ids)
           IN /\ M \in Seq(Shortcut(V)) /\ Repainted(list, M) /\ (list # <<>> => M # <<>>)
              /\ \A i \in DOMAIN list :
                    M[i].icon = IF list[i].id \in ids THEN "local" ELSE list[i].icon
<1> DEFINE one(x) == IF x.id \in ids THEN [x EXCEPT !.icon = "local"] ELSE x
           M == [i \in DOMAIN list |-> one(list[i])]
<1>1. Drawn(list, ids) = M
  BY DEF Drawn, ReviseAll
<1>2. ASSUME NEW i \in DOMAIN list
      PROVE  /\ M[i] \in Shortcut(V) /\ OnlyIcon(list[i], M[i])
             /\ M[i].icon = IF list[i].id \in ids THEN "local" ELSE list[i].icon
  <2>1. list[i] \in Shortcut(V)
    BY LenProperties
  <2> QED
    BY <2>1, IconSet, IconKept
<1>3. DOMAIN M = DOMAIN list /\ M = [i \in DOMAIN list |-> M[i]]
  OBVIOUS
<1> HIDE DEF M
<1>4. M \in Seq(Shortcut(V)) /\ Repainted(list, M) /\ (list # <<>> => M # <<>>)
  BY <1>2, <1>3, Paints
<1> QED
  BY <1>1, <1>2, <1>4

\* A shared profile names no local image.
SharedKeys(s) ==
    /\ (Entries(s.ids) \cup {s.selected}) \cap LocalWallpaper = {}
    /\ None \notin Entries(s.ids) \cup {s.selected}

LEMMA SharedIsShared ==
    ASSUME NEW V, NEW T, NEW p \in Profile(V), KeysIn(p, T)
    PROVE  LET s == ToShared(p)
           IN /\ s \in SharedProfile(V) /\ SharedKeys(s) /\ SamePlaces(p, s)
              /\ s.pid = p.pid /\ s.engine = p.engine /\ s.columns = p.columns /\ s.style = p.style
              /\ s.overlay = p.overlay /\ s.mode = p.mode /\ s.source = p.source
              /\ s.selected = (IF p.selected \in LocalWallpaper THEN p.portable ELSE p.selected)
              /\ s.ids = Portable(p.ids)
              /\ \A i \in DOMAIN p.shortcuts : s.shortcuts[i] = PortableIcon(p.shortcuts[i])
<1> DEFINE I == {i \in DOMAIN p.ids : p.ids[i] \notin LocalWallpaper}
           ids == Sub(p.ids, I)
           shown == IF p.selected \in LocalWallpaper THEN p.portable ELSE p.selected
           list == [i \in DOMAIN p.shortcuts |-> PortableIcon(p.shortcuts[i])]
<1>1. p.ids \in Seq(V) /\ shown \in V
  BY DEF Profile
<1>2. ids \in Seq(V) /\ Entries(ids) = {p.ids[i] : i \in I}
  BY <1>1, SubIsList
<1>3. Portable(p.ids) = ids
  BY DEF Portable, Filter
<1>4. Entries(ids) \subseteq Entries(p.ids) \ LocalWallpaper
  BY <1>2 DEF Entries
<1>5. shown \notin LocalWallpaper /\ shown # None
  BY DEF KeysIn
<1> HIDE DEF ids
<1>6. list \in Seq(Shortcut(V)) /\ Repainted(p.shortcuts, list)
  <2>1. p.shortcuts \in Seq(Shortcut(V))
    BY DEF Profile
  <2>2. ASSUME NEW i \in DOMAIN p.shortcuts
        PROVE  list[i] \in Shortcut(V) /\ OnlyIcon(p.shortcuts[i], list[i])
    <3>1. p.shortcuts[i] \in Shortcut(V)
      BY <2>1, LenProperties
    <3> QED
      BY <3>1, IconsConverted
  <2>3. DOMAIN list = DOMAIN p.shortcuts /\ list = [i \in DOMAIN p.shortcuts |-> list[i]]
    OBVIOUS
  <2> HIDE DEF list
  <2> QED
    BY <2>1, <2>2, <2>3, Paints
<1>7. ToShared(p) = [pid |-> p.pid, engine |-> p.engine, columns |-> p.columns, style |-> p.style,
                     overlay |-> p.overlay, mode |-> p.mode, source |-> p.source,
                     groups |-> p.groups, shortcuts |-> list, selected |-> shown, ids |-> ids]
  BY <1>3 DEF ToShared, ReviseAll
<1>8. \A i \in DOMAIN p.shortcuts : list[i] = PortableIcon(p.shortcuts[i])
  OBVIOUS
<1> HIDE DEF shown, list
<1> DEFINE s == [pid |-> p.pid, engine |-> p.engine, columns |-> p.columns, style |-> p.style,
                 overlay |-> p.overlay, mode |-> p.mode, source |-> p.source,
                 groups |-> p.groups, shortcuts |-> list, selected |-> shown, ids |-> ids]
<1>9. s \in SharedProfile(V)
  BY <1>1, <1>2, <1>6 DEF Profile, SharedProfile
<1>10. SamePlaces(p, s) /\ s.ids = ids /\ s.selected = shown
  BY <1>6 DEF SamePlaces
<1>11. SharedKeys(s)
  BY <1>4, <1>5, <1>10 DEF SharedKeys, KeysIn
<1> QED
  BY <1>3, <1>7, <1>8, <1>9, <1>10, <1>11 DEF shown

\* What migrateProfile fills in for settings that have been given up.
Settings == {Mist, Defaults.engine, Defaults.columns, Defaults.style, Defaults.overlay}

MigratedFields(p, missing, q) ==
    LET outdated == "rows" \notin missing /\ <<p.columns, p.style>> \in OutdatedLooks
    IN /\ SamePlaces(p, q)
       /\ q.pid = p.pid /\ q.mode = p.mode /\ q.source = p.source /\ q.portable = p.portable
       /\ q.engine = (IF p.engine \in Engines THEN p.engine ELSE Defaults.engine)
       /\ q.columns = (IF outdated THEN Defaults.columns ELSE p.columns)
       /\ q.style = (IF outdated THEN Defaults.style ELSE p.style)
       /\ q.overlay = (IF p.overlay \in OutdatedOverlays THEN Defaults.overlay ELSE p.overlay)
       /\ q.selected = (IF p.selected \in Retired THEN Mist ELSE p.selected)
       /\ q.ids = (IF p.ids = <<>> THEN <<p.selected>> ELSE p.ids)
       /\ \A i \in DOMAIN p.shortcuts : q.shortcuts[i] = Renewed(p.shortcuts[i], missing # {})

LEMMA MigratedIs ==
    ASSUME NEW V, Settings \subseteq V, NEW p \in Profile(V), p.groups # <<>>, p.shortcuts # <<>>,
           p.portable # None, NEW missing
    PROVE  /\ Migrated(p, missing) \in Profile(V)
           /\ MigratedFields(p, missing, Migrated(p, missing))
<1> DEFINE outdated == "rows" \notin missing /\ <<p.columns, p.style>> \in OutdatedLooks
           engine == IF p.engine \in Engines THEN p.engine ELSE Defaults.engine
           columns == IF outdated THEN Defaults.columns ELSE p.columns
           style == IF outdated THEN Defaults.style ELSE p.style
           overlay == IF p.overlay \in OutdatedOverlays THEN Defaults.overlay ELSE p.overlay
           list == [i \in DOMAIN p.shortcuts |-> Renewed(p.shortcuts[i], missing # {})]
           shown == IF p.selected \in Retired THEN Mist ELSE p.selected
           ids == IF p.ids = <<>> THEN <<p.selected>> ELSE p.ids
           q == [p EXCEPT !.engine = engine, !.columns = columns, !.style = style, !.overlay = overlay,
                          !.groups = p.groups, !.shortcuts = list, !.selected = shown,
                          !.portable = p.portable, !.ids = ids]
<1>1. engine \in V /\ columns \in V /\ style \in V /\ overlay \in V /\ shown \in V
  BY DEF Settings, Profile
<1>2. ids \in Seq(V)
  BY DEF Profile
<1>3. list \in Seq(Shortcut(V)) /\ Repainted(p.shortcuts, list)
  <2>1. p.shortcuts \in Seq(Shortcut(V))
    BY DEF Profile
  <2>2. ASSUME NEW i \in DOMAIN p.shortcuts
        PROVE  list[i] \in Shortcut(V) /\ OnlyIcon(p.shortcuts[i], list[i])
    <3>1. p.shortcuts[i] \in Shortcut(V) /\ (missing # {}) \in BOOLEAN
      BY <2>1, LenProperties
    <3>2. \A upgrade \in BOOLEAN : /\ Renewed(p.shortcuts[i], upgrade) \in Shortcut(V)
                                   /\ OnlyIcon(p.shortcuts[i], Renewed(p.shortcuts[i], upgrade))
      BY <3>1, IconsConverted
    <3> QED
      BY <3>1, <3>2
  <2>3. DOMAIN list = DOMAIN p.shortcuts /\ list = [i \in DOMAIN p.shortcuts |-> list[i]]
    OBVIOUS
  <2> HIDE DEF list
  <2> QED
    BY <2>1, <2>2, <2>3, Paints
<1>4. \A i \in DOMAIN p.shortcuts : list[i] = Renewed(p.shortcuts[i], missing # {})
  OBVIOUS
<1>5. Migrated(p, missing) = q
  <2>1. ReviseAll(p.shortcuts, LAMBDA s : Renewed(s, missing # {})) = list
    BY DEF ReviseAll
  <2>2. /\ p.engine = p["engine"] /\ p.columns = p["columns"] /\ p.style = p["style"]
        /\ p.overlay = p["overlay"] /\ p.groups = p["groups"] /\ p.shortcuts = p["shortcuts"]
        /\ p.selected = p["selected"] /\ p.portable = p["portable"] /\ p.ids = p["ids"]
    OBVIOUS
  <2> HIDE DEF list
  <2> QED
    BY <2>1, <2>2 DEF Migrated, Profile
<1> HIDE DEF engine, columns, style, overlay, list, shown, ids
<1>6. /\ q \in Profile(V) /\ q.groups = p.groups /\ q.shortcuts = list
      /\ q.pid = p.pid /\ q.mode = p.mode /\ q.source = p.source /\ q.portable = p.portable
      /\ q.engine = engine /\ q.columns = columns /\ q.style = style /\ q.overlay = overlay
      /\ q.selected = shown /\ q.ids = ids
  BY <1>1, <1>2, <1>3 DEF Profile
<1>7. SamePlaces(p, q)
  BY <1>3, <1>6 DEF SamePlaces
<1> HIDE DEF q
<1> QED
  BY <1>4, <1>5, <1>6, <1>7 DEF MigratedFields, engine, columns, style, overlay, shown, ids

LEMMA MigratedKeys ==
    ASSUME NEW V, Settings \subseteq V, NEW p \in Profile(V), p.groups # <<>>, p.shortcuts # <<>>,
           NEW missing, NEW T, KeysIn(p, T), Mist \notin LocalWallpaper, Mist # None
    PROVE  KeysIn(Migrated(p, missing), T)
<1> DEFINE q == Migrated(p, missing)
<1>1. p.portable # None
  BY DEF KeysIn
<1>2. /\ q.portable = p.portable
      /\ q.selected = (IF p.selected \in Retired THEN Mist ELSE p.selected)
      /\ q.ids = (IF p.ids = <<>> THEN <<p.selected>> ELSE p.ids)
  <2>1. MigratedFields(p, missing, q)
    BY <1>1, MigratedIs
  <2> HIDE DEF q
  <2> QED
    BY <2>1 DEF MigratedFields
<1> HIDE DEF q
<1>3. Entries(q.ids) \subseteq Entries(p.ids) \cup {p.selected}
  <2>1. Entries(<<p.selected>>) = {p.selected}
    BY DEF Entries
  <2> QED
    BY <1>2, <2>1
<1>4. q.selected \in {p.selected, Mist}
  BY <1>2
<1>5. KeysIn(q, T)
  BY <1>2, <1>3, <1>4 DEF KeysIn
<1> QED
  BY <1>5 DEF q

\* What accepting a shared profile puts into the local one, before the second
\* migration: its entries, and of the icons and wallpapers the device's own
\* local ones and its own choice of one of them.
Taken(s, own) ==
    LET local == Filter(own.ids, LAMBDA k : k \in LocalWallpaper)
    IN [own EXCEPT !.pid = s.pid, !.engine = s.engine, !.columns = s.columns, !.style = s.style,
                   !.overlay = s.overlay, !.mode = s.mode, !.source = s.source,
                   !.groups = s.groups, !.shortcuts = Drawn(s.shortcuts, LocalIcons(own)),
                   !.selected = IF @ \in LocalWallpaper THEN @ ELSE s.selected,
                   !.portable = s.selected,
                   !.ids = local \o s.ids]

TakenFields(s, own, r) ==
    /\ SamePlaces(s, r) /\ r.shortcuts # <<>> /\ r.portable = s.selected /\ r.portable # None
    /\ r.pid = s.pid /\ r.engine = s.engine /\ r.columns = s.columns /\ r.style = s.style
    /\ r.overlay = s.overlay /\ r.mode = s.mode /\ r.source = s.source
    /\ r.selected = (IF own.selected \in LocalWallpaper THEN own.selected ELSE s.selected)
    /\ \E local \in Seq(LocalWallpaper) :
          /\ r.ids = local \o s.ids
          /\ local = <<>> <=> Entries(own.ids) \cap LocalWallpaper = {}
    /\ \A i \in DOMAIN s.shortcuts :
          r.shortcuts[i].icon = IF s.shortcuts[i].id \in LocalIcons(own) THEN "local"
                                ELSE s.shortcuts[i].icon

LEMMA TakenIs ==
    ASSUME NEW V, NEW T, NEW s \in SharedProfile(V), SharedKeys(s), s.shortcuts # <<>>,
           NEW own \in Profile(V), KeysIn(own, T)
    PROVE  /\ Taken(s, own) \in Profile(V) /\ KeysIn(Taken(s, own), T)
           /\ TakenFields(s, own, Taken(s, own))
<1> DEFINE I == {i \in DOMAIN own.ids : own.ids[i] \in LocalWallpaper}
           local == Sub(own.ids, I)
           shown == IF own.selected \in LocalWallpaper THEN own.selected ELSE s.selected
           ids == local \o s.ids
           list == Drawn(s.shortcuts, LocalIcons(own))
           r == [own EXCEPT !.pid = s.pid, !.engine = s.engine, !.columns = s.columns,
                     !.style = s.style, !.overlay = s.overlay, !.mode = s.mode, !.source = s.source,
                     !.groups = s.groups, !.shortcuts = list,
                     !.selected = shown, !.portable = s.selected, !.ids = ids]
<1>1. own.ids \in Seq(V) /\ s.ids \in Seq(V) /\ shown \in V
  BY DEF Profile, SharedProfile
<1>2. local \in Seq(V) /\ Entries(local) = {own.ids[i] : i \in I}
  BY <1>1, SubIsList
<1>3. Entries(local) = Entries(own.ids) \cap LocalWallpaper
  BY <1>2 DEF Entries
<1>4. local \in Seq(LocalWallpaper)
  <2>1. local \in [1 .. Len(local) -> LocalWallpaper] /\ Len(local) \in Nat
    BY <1>2, <1>3, LenProperties DEF Entries
  <2> QED
    BY <2>1
<1>5. local = <<>> <=> Entries(own.ids) \cap LocalWallpaper = {}
  <2>1. local = <<>> <=> DOMAIN local = {}
    BY <1>2, EmptySeq, LenProperties
  <2>2. Entries(local) = {} <=> DOMAIN local = {}
    BY DEF Entries
  <2> QED
    BY <1>3, <2>1, <2>2
<1> HIDE DEF local
<1>6. ids \in Seq(V) /\ Entries(ids) = Entries(local) \cup Entries(s.ids)
  BY <1>1, <1>2, ConcatEntries
<1>7. /\ list \in Seq(Shortcut(V)) /\ Repainted(s.shortcuts, list) /\ list # <<>>
      /\ \A i \in DOMAIN s.shortcuts :
            list[i].icon = IF s.shortcuts[i].id \in LocalIcons(own) THEN "local"
                           ELSE s.shortcuts[i].icon
  <2>1. s.shortcuts \in Seq(Shortcut(V))
    BY DEF SharedProfile
  <2> QED
    BY <2>1, DrawnIcon
<1>8. Taken(s, own) = r
  <2>1. own.selected = own["selected"]
    OBVIOUS
  <2> HIDE DEF list, ids
  <2> QED
    BY <2>1 DEF Taken, Filter, local, list, ids
<1>9. shown \notin LocalWallpaper \/ shown \in T
  BY DEF KeysIn, SharedKeys
<1>10. shown # None
  BY DEF KeysIn, SharedKeys
<1>11. shown = (IF own.selected \in LocalWallpaper THEN own.selected ELSE s.selected)
  OBVIOUS
<1>12. ids = local \o s.ids
  OBVIOUS
<1> HIDE DEF ids, list, shown
<1>13. /\ r \in Profile(V) /\ r.groups = s.groups /\ r.shortcuts = list
       /\ r.pid = s.pid /\ r.engine = s.engine /\ r.columns = s.columns /\ r.style = s.style
       /\ r.overlay = s.overlay /\ r.mode = s.mode /\ r.source = s.source
       /\ r.portable = s.selected /\ r.selected = shown /\ r.ids = ids
  BY <1>1, <1>6, <1>7 DEF Profile, SharedProfile
<1> HIDE DEF r
<1>14. KeysIn(r, T)
  BY <1>3, <1>6, <1>9, <1>10, <1>13 DEF KeysIn, SharedKeys
<1>15. SamePlaces(s, r) /\ r.portable # None
  BY <1>7, <1>13 DEF SamePlaces, SharedKeys
<1> QED
  BY <1>4, <1>5, <1>7, <1>8, <1>11, <1>12, <1>13, <1>14, <1>15 DEF TakenFields

\* What accepting a shared profile leaves keeps its places and the device's keys.
LEMMA AcceptKeeps ==
    ASSUME NEW V, Settings \subseteq V, NEW T, NEW s \in SharedProfile(V), SharedKeys(s),
           s.groups # <<>>, s.shortcuts # <<>>,
           NEW mine \in Profile(V), KeysIn(mine, T), mine.groups # <<>>, mine.shortcuts # <<>>,
           Mist \notin LocalWallpaper, Mist # None
    PROVE  LET q == ToLocal(s, mine)
           IN q \in Profile(V) /\ KeysIn(q, T) /\ SamePlaces(s, q)
<1> DEFINE own == MigrateProfile(mine)
           r == Taken(s, own)
           q == MigrateProfile(r)
<1>1. mine.portable # None
  BY DEF KeysIn
<1>2. own \in Profile(V) /\ KeysIn(own, T)
  BY <1>1, MigratedIs, MigratedKeys DEF MigrateProfile
<1> HIDE DEF own
<1>3. /\ r \in Profile(V) /\ KeysIn(r, T) /\ SamePlaces(s, r) /\ r.shortcuts # <<>>
      /\ r.portable # None
  <2>1. r \in Profile(V) /\ KeysIn(r, T) /\ TakenFields(s, own, r)
    BY <1>2, TakenIs
  <2> HIDE DEF r
  <2> QED
    BY <2>1 DEF TakenFields
<1>4. r.groups # <<>>
  BY <1>3 DEF SamePlaces
<1> HIDE DEF r
<1>5. q \in Profile(V) /\ SamePlaces(r, q)
  BY <1>3, <1>4, MigratedIs DEF MigrateProfile, MigratedFields
<1>6. KeysIn(q, T)
  BY <1>3, <1>4, MigratedKeys DEF MigrateProfile
<1>7. SamePlaces(s, q)
  BY <1>3, <1>5, PlacesOn
<1>8. ToLocal(s, mine) = q
  BY DEF ToLocal, Taken, own, r
<1> QED
  BY <1>5, <1>6, <1>7, <1>8

-----------------------------------------------------------------------------
(* The import of bookmarks *)

\* Induction up to N, by the least number left out.
LEMMA StepByStep ==
    ASSUME NEW N \in Nat, NEW P, 0 \in P, \A n \in 1 .. N : n - 1 \in P => n \in P
    PROVE  0 .. N \subseteq P
<1> DEFINE Bad == (0 .. N) \ P
<1> SUFFICES ASSUME Bad # {} PROVE FALSE
  OBVIOUS
<1>1. IsFiniteSet(Bad)
  <2>1. IsFiniteSet(0 .. N)
    BY FS_Interval
  <2> QED
    BY <2>1, FS_Subset
<1>2. Bad \in SUBSET Int
  OBVIOUS
<1>3. PICK n \in Bad : \A k \in Bad : n <= k
  BY <1>1, <1>2, MinIsThere
<1>4. n \in 1 .. N /\ n - 1 \in 0 .. N /\ ~(n <= n - 1)
  BY <1>3
<1>5. n - 1 \in P
  BY <1>3, <1>4
<1> QED
  BY <1>3, <1>4, <1>5

\* What the fold of the reader computes, step by step: there is a function that
\* solves the recursion of MapThenFoldSet, on the subsets of any 1 .. n.
LEMMA ReadsInSteps ==
    ASSUME NEW V, NEW list \in Seq(V)
    PROVE  \E F : /\ F[0] = Reader
                  /\ \A n \in 1 .. Len(list) : F[n] = ReadToken(F[n - 1], list[n])
                  /\ F[Len(list)] = FoldLeft(ReadToken, Reader, list)
<1> DEFINE N == Len(list)
           base0 == Reader
           Then(r, x) == ReadToken(r, x)
           Solves(f, n) ==
              f = [s \in SUBSET (1 .. n) |->
                     IF s = {} THEN base0 ELSE Then(f[s \ {Max(s)}], list[Max(s)])]
<1>1. N \in Nat /\ DOMAIN list = 1 .. N
  BY LenProperties
<1>2. FoldLeft(ReadToken, Reader, list) = (CHOOSE f : Solves(f, N))[1 .. N]
  BY <1>1 DEF FoldLeft, MapThenFoldSet
<1> HIDE DEF N, Then, base0
<1>3. ASSUME NEW n \in Nat, NEW s \in SUBSET (1 .. n), n \in s PROVE Max(s) = n
  <2>1. \A y \in s : n >= y
    OBVIOUS
  <2>2. \A x \in s : (\A y \in s : x >= y) => x = n
    BY <1>3
  <2> QED
    BY <1>3, <2>1, <2>2 DEF Max
<1>4. \A n \in 0 .. N : \E f : Solves(f, n)
  <2> DEFINE P == {n \in 0 .. N : \E f : Solves(f, n)}
  <2>1. 0 \in P
    <3> DEFINE g == [s \in SUBSET (1 .. 0) |-> base0]
    <3>1. SUBSET (1 .. 0) = {{}}
      OBVIOUS
    <3>2. Solves(g, 0)
      BY <3>1
    <3>3. 0 \in 0 .. N
      BY <1>1
    <3> HIDE DEF g, Solves
    <3> QED
      BY <3>2, <3>3
  <2>2. ASSUME NEW n \in 1 .. N, n - 1 \in P PROVE n \in P
    <3>1. n \in Nat /\ n \in 0 .. N
      BY <1>1
    <3>2. PICK f : Solves(f, n - 1)
      BY <2>2
    <3> DEFINE g == [s \in SUBSET (1 .. n) |-> IF n \in s THEN Then(f[s \ {n}], list[n]) ELSE f[s]]
               h == [s \in SUBSET (1 .. n) |->
                       IF s = {} THEN base0 ELSE Then(g[s \ {Max(s)}], list[Max(s)])]
    <3>3. ASSUME NEW s \in SUBSET (1 .. n) PROVE g[s] = h[s]
      <4>1. CASE n \in s
        <5>1. s # {} /\ Max(s) = n
          BY <1>3, <3>1, <4>1
        <5>2. s \ {n} \in SUBSET (1 .. n) /\ n \notin s \ {n}
          OBVIOUS
        <5>3. g[s \ {n}] = f[s \ {n}] /\ g[s] = Then(f[s \ {n}], list[n])
          BY <4>1, <5>2
        <5>4. h[s] = Then(g[s \ {n}], list[n])
          BY <5>1
        <5> QED
          BY <5>3, <5>4
      <4>2. CASE n \notin s
        <5>1. s \in SUBSET (1 .. (n - 1))
          BY <3>1, <4>2
        <5>2. f[s] = IF s = {} THEN base0 ELSE Then(f[s \ {Max(s)}], list[Max(s)])
          BY <3>2, <5>1
        <5>3. g[s] = f[s]
          BY <4>2
        <5>4. s \ {Max(s)} \in SUBSET (1 .. n) /\ n \notin s \ {Max(s)}
          BY <4>2
        <5>5. g[s \ {Max(s)}] = f[s \ {Max(s)}]
          BY <5>4
        <5> QED
          BY <5>2, <5>3, <5>5
      <4> QED
        BY <4>1, <4>2
    <3>4. Solves(g, n)
      <4>1. g = h
        BY <3>3
      <4> QED
        BY <4>1
    <3> QED
      BY <3>1, <3>4
  <2> HIDE DEF P
  <2>3. 0 .. N \subseteq P
    BY <1>1, <2>1, <2>2, StepByStep
  <2> QED
    BY <2>3 DEF P
<1> DEFINE iter == CHOOSE f : Solves(f, N)
<1>5. Solves(iter, N)
  <2>0. N \in 0 .. N
    BY <1>1
  <2> HIDE DEF Solves
  <2>1. \E f : Solves(f, N)
    BY <2>0, <1>4
  <2> QED
    BY <2>1
<1> HIDE DEF iter
<1> DEFINE F == [n \in 0 .. N |-> iter[1 .. n]]
<1>6. F[0] = base0
  <2>1. F[0] = iter[1 .. 0] /\ 1 .. 0 = {}
    BY <1>1
  <2> QED
    BY <1>5, <2>1
<1>7. ASSUME NEW n \in 1 .. N PROVE F[n] = Then(F[n - 1], list[n])
  <2>1. n - 1 \in 0 .. N /\ n \in 0 .. N /\ n \in Nat
    BY <1>1
  <2>2. 1 .. n \in SUBSET (1 .. N) /\ n \in 1 .. n /\ 1 .. n # {}
    BY <1>1
  <2>3. Max(1 .. n) = n
    BY <1>3, <2>1, <2>2
  <2>4. (1 .. n) \ {n} = 1 .. (n - 1)
    BY <2>1
  <2>5. iter[1 .. n] = Then(iter[(1 .. n) \ {Max(1 .. n)}], list[Max(1 .. n)])
    BY <1>5, <2>2
  <2> QED
    BY <2>1, <2>3, <2>4, <2>5
<1>8. F[N] = FoldLeft(ReadToken, Reader, list)
  <2>1. F[N] = iter[1 .. N]
    BY <1>1
  <2> QED
    BY <1>2, <2>1 DEF iter
<1>9. \A n \in 1 .. N : F[n] = Then(F[n - 1], list[n])
  BY <1>7
<1> HIDE DEF F
<1> QED
  BY <1>6, <1>8, <1>9 DEF N, base0, Then

\* The same for the fold of the import.
LEMMA ImportsInSteps ==
    ASSUME NEW V, NEW list \in Seq(V), NEW p, NEW start, NEW step, NEW now
    PROVE  \E F : /\ F[0] = [profile |-> p, seen |-> {}, skipped |-> 0, imported |-> 0,
                              next |-> start]
                  /\ \A n \in 1 .. Len(list) : F[n] = ImportBookmark(F[n - 1], list[n], step, now)
                  /\ F[Len(list)] = BuildBookmarkImportPlan(p, list, start, step, now)
<1> DEFINE N == Len(list)
           base0 == [profile |-> p, seen |-> {}, skipped |-> 0, imported |-> 0,
                              next |-> start]
           Then(r, x) == ImportBookmark(r, x, step, now)
           Solves(f, n) ==
              f = [s \in SUBSET (1 .. n) |->
                     IF s = {} THEN base0 ELSE Then(f[s \ {Max(s)}], list[Max(s)])]
<1>1. N \in Nat /\ DOMAIN list = 1 .. N
  BY LenProperties
<1>2. BuildBookmarkImportPlan(p, list, start, step, now) = (CHOOSE f : Solves(f, N))[1 .. N]
  BY <1>1 DEF BuildBookmarkImportPlan, FoldLeft, MapThenFoldSet
<1> HIDE DEF N, Then, base0
<1>3. ASSUME NEW n \in Nat, NEW s \in SUBSET (1 .. n), n \in s PROVE Max(s) = n
  <2>1. \A y \in s : n >= y
    OBVIOUS
  <2>2. \A x \in s : (\A y \in s : x >= y) => x = n
    BY <1>3
  <2> QED
    BY <1>3, <2>1, <2>2 DEF Max
<1>4. \A n \in 0 .. N : \E f : Solves(f, n)
  <2> DEFINE P == {n \in 0 .. N : \E f : Solves(f, n)}
  <2>1. 0 \in P
    <3> DEFINE g == [s \in SUBSET (1 .. 0) |-> base0]
    <3>1. SUBSET (1 .. 0) = {{}}
      OBVIOUS
    <3>2. Solves(g, 0)
      BY <3>1
    <3>3. 0 \in 0 .. N
      BY <1>1
    <3> HIDE DEF g, Solves
    <3> QED
      BY <3>2, <3>3
  <2>2. ASSUME NEW n \in 1 .. N, n - 1 \in P PROVE n \in P
    <3>1. n \in Nat /\ n \in 0 .. N
      BY <1>1
    <3>2. PICK f : Solves(f, n - 1)
      BY <2>2
    <3> DEFINE g == [s \in SUBSET (1 .. n) |-> IF n \in s THEN Then(f[s \ {n}], list[n]) ELSE f[s]]
               h == [s \in SUBSET (1 .. n) |->
                       IF s = {} THEN base0 ELSE Then(g[s \ {Max(s)}], list[Max(s)])]
    <3>3. ASSUME NEW s \in SUBSET (1 .. n) PROVE g[s] = h[s]
      <4>1. CASE n \in s
        <5>1. s # {} /\ Max(s) = n
          BY <1>3, <3>1, <4>1
        <5>2. s \ {n} \in SUBSET (1 .. n) /\ n \notin s \ {n}
          OBVIOUS
        <5>3. g[s \ {n}] = f[s \ {n}] /\ g[s] = Then(f[s \ {n}], list[n])
          BY <4>1, <5>2
        <5>4. h[s] = Then(g[s \ {n}], list[n])
          BY <5>1
        <5> QED
          BY <5>3, <5>4
      <4>2. CASE n \notin s
        <5>1. s \in SUBSET (1 .. (n - 1))
          BY <3>1, <4>2
        <5>2. f[s] = IF s = {} THEN base0 ELSE Then(f[s \ {Max(s)}], list[Max(s)])
          BY <3>2, <5>1
        <5>3. g[s] = f[s]
          BY <4>2
        <5>4. s \ {Max(s)} \in SUBSET (1 .. n) /\ n \notin s \ {Max(s)}
          BY <4>2
        <5>5. g[s \ {Max(s)}] = f[s \ {Max(s)}]
          BY <5>4
        <5> QED
          BY <5>2, <5>3, <5>5
      <4> QED
        BY <4>1, <4>2
    <3>4. Solves(g, n)
      <4>1. g = h
        BY <3>3
      <4> QED
        BY <4>1
    <3> QED
      BY <3>1, <3>4
  <2> HIDE DEF P
  <2>3. 0 .. N \subseteq P
    BY <1>1, <2>1, <2>2, StepByStep
  <2> QED
    BY <2>3 DEF P
<1> DEFINE iter == CHOOSE f : Solves(f, N)
<1>5. Solves(iter, N)
  <2>0. N \in 0 .. N
    BY <1>1
  <2> HIDE DEF Solves
  <2>1. \E f : Solves(f, N)
    BY <2>0, <1>4
  <2> QED
    BY <2>1
<1> HIDE DEF iter
<1> DEFINE F == [n \in 0 .. N |-> iter[1 .. n]]
<1>6. F[0] = base0
  <2>1. F[0] = iter[1 .. 0] /\ 1 .. 0 = {}
    BY <1>1
  <2> QED
    BY <1>5, <2>1
<1>7. ASSUME NEW n \in 1 .. N PROVE F[n] = Then(F[n - 1], list[n])
  <2>1. n - 1 \in 0 .. N /\ n \in 0 .. N /\ n \in Nat
    BY <1>1
  <2>2. 1 .. n \in SUBSET (1 .. N) /\ n \in 1 .. n /\ 1 .. n # {}
    BY <1>1
  <2>3. Max(1 .. n) = n
    BY <1>3, <2>1, <2>2
  <2>4. (1 .. n) \ {n} = 1 .. (n - 1)
    BY <2>1
  <2>5. iter[1 .. n] = Then(iter[(1 .. n) \ {Max(1 .. n)}], list[Max(1 .. n)])
    BY <1>5, <2>2
  <2> QED
    BY <2>1, <2>3, <2>4, <2>5
<1>8. F[N] = BuildBookmarkImportPlan(p, list, start, step, now)
  <2>1. F[N] = iter[1 .. N]
    BY <1>1
  <2> QED
    BY <1>2, <2>1 DEF iter
<1>9. \A n \in 1 .. N : F[n] = Then(F[n - 1], list[n])
  BY <1>7
<1> HIDE DEF F
<1> QED
  BY <1>6, <1>8, <1>9 DEF N, base0, Then

\* The reader's state, of which only the list of bookmarks matters.
ReaderOf(W) ==
    [path : W, stack : W, pending : W, capture : W, found : Seq([title : W, url : W]), failed : W]

LEMMA FinalizeReads ==
    ASSUME NEW W, NEW r \in ReaderOf(W)
    PROVE  \E X : FinalizeCapture(r) \in ReaderOf(X)
<1> DEFINE c == r.capture
           done == [r EXCEPT !.capture = None]
           named == [title |-> IF c.text = <<>> THEN Unnamed ELSE c.text, toolbar |-> c.toolbar]
           title == ResolveGroupTitle(r.path)
           mark == [title |-> title, url |-> c.url]
           X == W \cup {None, named, title, c.url}
<1>1. r.found \in Seq([title : W, url : W])
  BY DEF ReaderOf
<1>2. W \subseteq X /\ None \in X /\ named \in X /\ mark \in [title : X, url : X]
  OBVIOUS
<1>3. FinalizeCapture(r) = IF c = None THEN r
                           ELSE IF c.tag = "h3" THEN [done EXCEPT !.pending = named]
                           ELSE [done EXCEPT !.found = Append(r.found, mark)]
  BY DEF FinalizeCapture, ReaderOf
<1> HIDE DEF c, named, mark, X
<1>4. r.found \in Seq([title : X, url : X]) /\ Append(r.found, mark) \in Seq([title : X, url : X])
  <2>1. [title : W, url : W] \subseteq [title : X, url : X]
    BY <1>2
  <2>2. r.found \in Seq([title : X, url : X])
    BY <1>1, <2>1, SeqMonotonic
  <2> QED
    BY <1>2, <2>2, LongerList
<1>5. r \in ReaderOf(X)
  BY <1>2, <1>4 DEF ReaderOf
<1>6. done \in ReaderOf(X)
  BY <1>2, <1>5 DEF ReaderOf
<1>7. [done EXCEPT !.pending = named] \in ReaderOf(X)
  BY <1>2, <1>6 DEF ReaderOf
<1>8. [done EXCEPT !.found = Append(r.found, mark)] \in ReaderOf(X)
  BY <1>4, <1>6 DEF ReaderOf
<1> QED
  BY <1>3, <1>5, <1>7, <1>8

\* A reader that has more to hold.
LEMMA RereadOf ==
    ASSUME NEW W, NEW r \in ReaderOf(W), NEW X, W \subseteq X
    PROVE  r \in ReaderOf(X)
<1>1. r.found \in Seq([title : X, url : X])
  <2>1. [title : W, url : W] \subseteq [title : X, url : X]
    OBVIOUS
  <2>2. r.found \in Seq([title : W, url : W])
    BY DEF ReaderOf
  <2> QED
    BY <2>1, <2>2, SeqMonotonic
<1> QED
  BY <1>1 DEF ReaderOf

LEMMA OpenReads ==
    ASSUME NEW W, NEW r \in ReaderOf(W)
    PROVE  \E X : OpenDl(r) \in ReaderOf(X)
<1> DEFINE folder == r.pending
           stack == Append(r.stack, folder)
           path == Append(r.path, folder)
           listed == [r EXCEPT !.pending = None, !.stack = stack]
           entered == IF folder = None THEN listed ELSE [listed EXCEPT !.path = path]
           failed == \/ Len(r.stack) >= MaxDlStackDepth
                     \/ folder # None /\ Len(entered.path) > MaxFolderDepth
           X == W \cup {None, stack, path, failed}
<1>1. r \in ReaderOf(X)
  BY RereadOf
<1>2. OpenDl(r) = [entered EXCEPT !.failed = failed]
  BY DEF OpenDl, ReaderOf
<1>3. None \in X /\ stack \in X /\ path \in X /\ failed \in X
  OBVIOUS
<1> HIDE DEF X, stack, path, failed, folder
<1>4. entered \in ReaderOf(X)
  BY <1>1, <1>3 DEF ReaderOf
<1> HIDE DEF entered
<1>5. [entered EXCEPT !.failed = failed] \in ReaderOf(X)
  BY <1>3, <1>4 DEF ReaderOf
<1> QED
  BY <1>2, <1>5

LEMMA CloseReads ==
    ASSUME NEW W, NEW r \in ReaderOf(W)
    PROVE  \E X : CloseDl(r) \in ReaderOf(X)
<1> DEFINE stack == Front(r.stack)
           path == IF Last(r.stack) = None THEN r.path ELSE Front(r.path)
           closed == [r EXCEPT !.pending = None]
           X == W \cup {None, stack, path}
<1>1. r \in ReaderOf(X)
  BY RereadOf
<1>2. closed \in ReaderOf(X)
  BY <1>1 DEF ReaderOf
<1>3. CloseDl(r) = IF r.stack = <<>> THEN closed
                   ELSE [closed EXCEPT !.stack = stack, !.path = path]
  BY DEF CloseDl, ReaderOf
<1>4. stack \in X /\ path \in X
  OBVIOUS
<1> HIDE DEF X, stack, path, closed
<1>5. [closed EXCEPT !.stack = stack, !.path = path] \in ReaderOf(X)
  BY <1>2, <1>4 DEF ReaderOf
<1> QED
  BY <1>2, <1>3, <1>5

TokenKinds == {"text", "close", "open", "dl", "/dl"}

LEMMA TokenReads ==
    ASSUME NEW W, NEW r \in ReaderOf(W), NEW token, token.is \in TokenKinds
    PROVE  \E X : ReadToken(r, token) \in ReaderOf(X)
<1>1. CASE r.failed
  BY <1>1 DEF ReadToken
<1>2. CASE ~r.failed /\ token.is = "text"
  <2> DEFINE capture == [r.capture EXCEPT !.text = Append(@, token.text)]
             X == W \cup {capture}
  <2>1. r \in ReaderOf(X) /\ capture \in X
    BY RereadOf
  <2>2. ReadToken(r, token) = IF r.capture = None THEN r ELSE [r EXCEPT !.capture = capture]
    BY <1>2 DEF ReadToken, ReaderOf
  <2> HIDE DEF X, capture
  <2>3. [r EXCEPT !.capture = capture] \in ReaderOf(X)
    BY <2>1 DEF ReaderOf
  <2> QED
    BY <2>1, <2>2, <2>3
<1>3. CASE ~r.failed /\ token.is = "close"
  BY <1>3, FinalizeReads DEF ReadToken
<1>4. CASE ~r.failed /\ token.is = "open"
  <2>1. PICK X0 : FinalizeCapture(r) \in ReaderOf(X0)
    BY FinalizeReads
  <2> DEFINE f == FinalizeCapture(r)
             capture == [tag |-> token.tag, text |-> <<>>, url |-> token.url,
                         toolbar |-> token.toolbar]
             X == X0 \cup {None, capture}
  <2>2. f \in ReaderOf(X) /\ capture \in X /\ None \in X
    BY <2>1, RereadOf
  <2>3. ReadToken(r, token) = [f EXCEPT !.pending = None, !.capture = capture]
    BY <1>4 DEF ReadToken
  <2> HIDE DEF X, capture, f
  <2>4. [f EXCEPT !.pending = None, !.capture = capture] \in ReaderOf(X)
    BY <2>2 DEF ReaderOf
  <2> QED
    BY <2>3, <2>4
<1>5. CASE ~r.failed /\ token.is = "dl"
  <2>1. ReadToken(r, token) = OpenDl(FinalizeCapture(r))
    BY <1>5 DEF ReadToken
  <2> QED
    BY <2>1, FinalizeReads, OpenReads
<1>6. CASE ~r.failed /\ token.is = "/dl"
  <2>1. ReadToken(r, token) = CloseDl(FinalizeCapture(r))
    BY <1>6 DEF ReadToken
  <2> QED
    BY <2>1, FinalizeReads, CloseReads
<1> QED
  BY <1>1, <1>2, <1>3, <1>4, <1>5, <1>6 DEF TokenKinds

\* Whatever tags a file has, what is read from it is a list of bookmarks.
LEMMA ReadsAList ==
    ASSUME NEW V, NEW tags \in Seq(V), \A i \in DOMAIN tags : tags[i].is \in TokenKinds
    PROVE  LET found == ParseNetscapeBookmarkHtml(tags)
           IN found = None \/ \E W : found \in Seq([title : W, url : W])
<1> DEFINE N == Len(tags)
<1>1. N \in Nat /\ DOMAIN tags = 1 .. N
  BY LenProperties
<1>2. PICK F : /\ F[0] = Reader
               /\ \A n \in 1 .. N : F[n] = ReadToken(F[n - 1], tags[n])
               /\ F[N] = FoldLeft(ReadToken, Reader, tags)
  BY ReadsInSteps
<1> HIDE DEF N
<1> DEFINE P == {n \in 0 .. N : \E W : F[n] \in ReaderOf(W)}
<1>3. 0 \in P
  <2> DEFINE W == {<<>>, None, FALSE}
  <2>1. Reader \in ReaderOf(W)
    BY DEF Reader, ReaderOf
  <2> QED
    BY <1>1, <1>2, <2>1
<1>4. ASSUME NEW n \in 1 .. N, n - 1 \in P PROVE n \in P
  <2>1. PICK W : F[n - 1] \in ReaderOf(W)
    BY <1>4
  <2>2. \E X : ReadToken(F[n - 1], tags[n]) \in ReaderOf(X)
    BY <1>1, <2>1, TokenReads
  <2> QED
    BY <1>1, <1>2, <2>2
<1>5. N \in P
  <2> HIDE DEF P
  <2>1. 0 .. N \subseteq P
    BY <1>1, <1>3, <1>4, StepByStep
  <2> QED
    BY <1>1, <2>1
<1>6. PICK W : FoldLeft(ReadToken, Reader, tags) \in ReaderOf(W)
  BY <1>2, <1>5
<1>7. PICK X : FinalizeCapture(FoldLeft(ReadToken, Reader, tags)) \in ReaderOf(X)
  BY <1>6, FinalizeReads
<1>8. FinalizeCapture(FoldLeft(ReadToken, Reader, tags)).found \in Seq([title : X, url : X])
  BY <1>7 DEF ReaderOf
<1> QED
  BY <1>8 DEF ParseNetscapeBookmarkHtml

LEMMA ProfileGrows ==
    ASSUME NEW V, NEW W, V \subseteq W
    PROVE  Profile(V) \subseteq Profile(W) /\ SharedProfile(V) \subseteq SharedProfile(W)
<1>1. Group(V) \subseteq Group(W) /\ Shortcut(V) \subseteq Shortcut(W)
  BY DEF Group, Shortcut
<1>2. Seq(Group(V)) \subseteq Seq(Group(W))
  BY <1>1, SeqMonotonic
<1>3. Seq(Shortcut(V)) \subseteq Seq(Shortcut(W))
  BY <1>1, SeqMonotonic
<1>4. Seq(V) \subseteq Seq(W)
  BY SeqMonotonic
<1> HIDE DEF Group, Shortcut
<1>5. Profile(V) \subseteq Profile(W)
  BY <1>2, <1>3, <1>4 DEF Profile
<1>6. SharedProfile(V) \subseteq SharedProfile(W)
  BY <1>2, <1>3, <1>4 DEF SharedProfile
<1> QED
  BY <1>5, <1>6

\* The group a bookmark is filed in is one that shows its title.
LEMMA GroupIsLive ==
    ASSUME NEW V, NEW p \in Profile(V), NEW title
    PROVE  /\ GroupOfTitle(p, title) # None => \E g \in Live(p.groups) : g.title = title
           /\ (\E g \in Live(p.groups) : g.title = title) =>
                 \E g \in Live(p.groups) : g.title = title /\ g.id = GroupOfTitle(p, title)
<1> DEFINE I == {i \in DOMAIN p.groups : ~p.groups[i].del /\ p.groups[i].title = title}
<1>1. GroupOfTitle(p, title) = IF I = {} THEN None ELSE p.groups[Max(I)].id
  BY DEF GroupOfTitle
<1>2. p.groups \in Seq(Group(V))
  BY DEF Profile
<1>3. I \in SUBSET Int /\ IsFiniteSet(I)
  BY <1>2, Places
<1>4. I # {} => Max(I) \in I
  BY <1>3, MaxIsThere
<1>5. (\E g \in Live(p.groups) : g.title = title) <=> I # {}
  BY DEF Live, Entries
<1>6. I # {} => p.groups[Max(I)] \in Live(p.groups) /\ p.groups[Max(I)].title = title
  BY <1>4 DEF Live, Entries
<1> QED
  BY <1>1, <1>5, <1>6

Plans(W) ==
    [profile : Profile(W), seen : SUBSET [title : W, url : W], skipped : Int, imported : Int,
     next : Int]

LEMMA ImportHousesOne ==
    ASSUME NEW W, NEW plan \in Plans(W), NEW S, Housed(plan.profile, S),
           NEW b \in [title : W, url : W], NEW step \in Int, NEW now \in W
    PROVE  LET next == ImportBookmark(plan, b, step, now)
           IN /\ next \in Plans(W) /\ Housed(next.profile, S)
              /\ SameKeys(plan.profile, next.profile)
<1> DEFINE p == plan.profile
           own == GroupOfTitle(p, b.title)
           known == own # None /\ \E s \in LiveIn(p, own) : s.url = b.url
           grouped == IF own # None THEN p ELSE AddShortcutGroup(p, plan.next, b.title, now)
           g == GroupOfTitle(grouped, b.title)
           filed == [id |-> plan.next, group |-> g, url |-> b.url, icon |-> "favicon",
                     sort |-> NextSort(LiveIn(grouped, g)), at |-> now, del |-> FALSE]
           full == Len(p.shortcuts) >= MaxShortcuts \/ (own = None /\ Len(p.groups) >= MaxGroups)
           seen == plan.seen \cup {b}
           list == Append(grouped.shortcuts, filed)
           q == [grouped EXCEPT !.shortcuts = list]
<1>1. p \in Profile(W) /\ plan.seen \in SUBSET [title : W, url : W]
      /\ plan.skipped \in Int /\ plan.imported \in Int /\ plan.next \in Int
  BY DEF Plans
<1>2. b.title \in W /\ b.url \in W /\ seen \in SUBSET [title : W, url : W]
  BY <1>1
<1>3. ImportBookmark(plan, b, step, now) =
        IF b.url = None \/ b \in plan.seen THEN plan
        ELSE IF known THEN [plan EXCEPT !.seen = seen]
        ELSE IF full THEN [plan EXCEPT !.seen = seen, !.skipped = plan.skipped + 1]
        ELSE [profile |-> q, seen |-> seen, skipped |-> plan.skipped, imported |-> plan.imported + 1,
              next |-> plan.next + step]
  BY DEF ImportBookmark, Plans
<1> HIDE DEF seen, known, full
<1>4. [plan EXCEPT !.seen = seen] \in Plans(W) /\ [plan EXCEPT !.seen = seen].profile = p
  BY <1>2 DEF Plans
<1>5. LET next == [plan EXCEPT !.seen = seen, !.skipped = plan.skipped + 1]
      IN next \in Plans(W) /\ next.profile = p
  <2> DEFINE n == plan.skipped + 1
  <2>1. n \in Int
    BY <1>1
  <2> HIDE DEF n
  <2>2. LET next == [plan EXCEPT !.seen = seen, !.skipped = n]
        IN next \in Plans(W) /\ next.profile = p
    BY <1>2, <2>1 DEF Plans
  <2> QED
    BY <2>2 DEF n
<1> HIDE DEF p
<1>6. /\ grouped \in Profile(W) /\ Housed(grouped, S) /\ SameKeys(p, grouped)
      /\ \E x \in Live(grouped.groups) : x.title = b.title
  <2>1. CASE own # None
    BY <1>1, <2>1, GroupIsLive DEF SameKeys, p
  <2>2. CASE own = None
    <3> DEFINE id == plan.next
    <3>1. id \in Int
      BY <1>1
    <3> HIDE DEF id
    <3>2. p \in Profile(W) /\ Housed(p, S)
      BY <1>1 DEF p
    <3>3. LET r == AddShortcutGroup(p, id, b.title, now)
          IN /\ r \in Profile(W) /\ Housed(r, S) /\ SameKeys(p, r)
             /\ r.shortcuts = p.shortcuts
             /\ \E x \in Live(r.groups) : x.id = id /\ x.title = b.title
      BY <1>2, <3>1, <3>2, AddGroupHouses
    <3> QED
      BY <2>2, <3>3 DEF id
  <2> QED
    BY <2>1, <2>2
<1> HIDE DEF own, grouped
<1>7. g \in LiveIds(grouped.groups) /\ g \in Int
  <2>1. PICK x \in Live(grouped.groups) : x.id = g
    BY <1>6, GroupIsLive
  <2>2. Live(grouped.groups) \subseteq Group(W)
    <3>1. grouped.groups \in Seq(Group(W))
      BY <1>6 DEF Profile
    <3> QED
      BY <3>1, EntriesFinite DEF Live
  <2> QED
    BY <2>1, <2>2 DEF LiveIds, Group
<1>8. NextSort(LiveIn(grouped, g)) \in Int
  BY <1>6, SubsetOfEntries DEF Housed, LiveIn, Live
<1> HIDE DEF g
<1>9. filed \in Shortcut(W) /\ filed.group = g
  BY <1>1, <1>2, <1>7, <1>8 DEF Shortcut
<1> HIDE DEF filed
<1>10. grouped.shortcuts \in Seq(Shortcut(W))
  BY <1>6 DEF Profile
<1>11. /\ list \in Seq(Shortcut(W)) /\ list # <<>>
       /\ Entries(list) = Entries(grouped.shortcuts) \cup {filed}
  BY <1>9, <1>10, LongerList
<1> HIDE DEF list
<1>12. q \in Profile(W) /\ q.groups = grouped.groups /\ q.shortcuts = list /\ SameKeys(grouped, q)
  BY <1>6, <1>11, WithShortcuts
<1> HIDE DEF q
<1>13. Housed(q, S) /\ SameKeys(p, q)
  BY <1>6, <1>7, <1>9, <1>11, <1>12 DEF Housed, AtHome, SameKeys
<1>14. LET next == [profile |-> q, seen |-> seen, skipped |-> plan.skipped,
                    imported |-> plan.imported + 1, next |-> plan.next + step]
       IN next \in Plans(W) /\ next.profile = q
  BY <1>1, <1>2, <1>12 DEF Plans
<1> QED
  BY <1>3, <1>4, <1>5, <1>13, <1>14 DEF SameKeys, p

\* The import of a file: the profile stays one whose shortcuts are on its page.
LEMMA ImportHouses ==
    ASSUME NEW W, NEW p \in Profile(W), NEW S, Housed(p, S),
           NEW list \in Seq([title : W, url : W]), NEW start \in Int, NEW step \in Int,
           NEW now \in W
    PROVE  LET r == BuildBookmarkImportPlan(p, list, start, step, now)
           IN r \in Plans(W) /\ Housed(r.profile, S) /\ SameKeys(p, r.profile)
<1> DEFINE N == Len(list)
<1>1. N \in Nat /\ DOMAIN list = 1 .. N /\ \A n \in 1 .. N : list[n] \in [title : W, url : W]
  BY LenProperties
<1>2. PICK F : /\ F[0] = [profile |-> p, seen |-> {}, skipped |-> 0, imported |-> 0, next |-> start]
               /\ \A n \in 1 .. N : F[n] = ImportBookmark(F[n - 1], list[n], step, now)
               /\ F[N] = BuildBookmarkImportPlan(p, list, start, step, now)
  BY ImportsInSteps
<1> HIDE DEF N
<1> DEFINE P == {n \in 0 .. N : /\ F[n] \in Plans(W) /\ Housed(F[n].profile, S)
                                /\ SameKeys(p, F[n].profile)}
<1>3. 0 \in P
  <2> DEFINE plan == [profile |-> p, seen |-> {}, skipped |-> 0, imported |-> 0, next |-> start]
  <2>1. plan \in Plans(W) /\ plan.profile = p
    BY DEF Plans
  <2> QED
    BY <1>1, <1>2, <2>1 DEF SameKeys
<1>4. ASSUME NEW n \in 1 .. N, n - 1 \in P PROVE n \in P
  <2> DEFINE plan == F[n - 1]
  <2>1. plan \in Plans(W) /\ Housed(plan.profile, S) /\ SameKeys(p, plan.profile)
    BY <1>4
  <2>2. F[n] = ImportBookmark(plan, list[n], step, now) /\ list[n] \in [title : W, url : W]
    BY <1>1, <1>2
  <2> HIDE DEF plan
  <2>3. LET next == ImportBookmark(plan, list[n], step, now)
        IN /\ next \in Plans(W) /\ Housed(next.profile, S)
           /\ SameKeys(plan.profile, next.profile)
    BY <2>1, <2>2, ImportHousesOne
  <2>4. n \in 0 .. N
    BY <1>1
  <2> QED
    BY <2>1, <2>2, <2>3, <2>4 DEF SameKeys
<1>5. N \in P
  <2> HIDE DEF P
  <2>1. 0 .. N \subseteq P
    BY <1>1, <1>3, <1>4, StepByStep
  <2> QED
    BY <1>1, <2>1
<1> QED
  BY <1>2, <1>5 DEF Plans

-----------------------------------------------------------------------------
(* Rotations *)

\* What a rotation may pick is one of the candidates.
LEMMA PicksAreCandidates ==
    ASSUME NEW V, NEW candidates \in SUBSET V, NEW history \in Seq(V),
           NEW pick \in Picks(candidates, history)
    PROVE  pick.id \in candidates /\ pick.history \in Seq(V)
<1> DEFINE I == {i \in DOMAIN history : history[i] \in candidates}
           valid == Sub(history, I)
           fresh == candidates \ Entries(valid)
<1>1. valid \in Seq(V)
  BY SubIsList
<1>2. Picks(candidates, history) =
        IF fresh # {} THEN {[id |-> k, history |-> Append(valid, k)] : k \in fresh}
        ELSE {[id |-> k, history |-> <<k>>] : k \in candidates}
  BY DEF Picks, Filter
<1> HIDE DEF valid
<1>3. CASE fresh # {}
  <2>1. PICK k \in fresh : pick = [id |-> k, history |-> Append(valid, k)]
    BY <1>2, <1>3
  <2>2. Append(valid, k) \in Seq(V)
    BY <1>1, LongerList
  <2> QED
    BY <2>1, <2>2
<1>4. CASE fresh = {}
  <2>1. PICK k \in candidates : pick = [id |-> k, history |-> <<k>>]
    BY <1>2, <1>4
  <2> QED
    BY <2>1
<1> QED
  BY <1>3, <1>4

LEMMA CandidatesOf ==
    ASSUME NEW primary, NEW fallback, NEW current
    PROVE  RotationCandidates(primary, fallback, current) \subseteq primary \cup fallback
  BY DEF RotationCandidates

\* Where another wallpaper can be had, the one shown is no candidate.
LEMMA CandidatesDiffer ==
    ASSUME NEW V, NEW primary \in SUBSET V, IsFiniteSet(primary), NEW fallback, NEW current,
           ~(fallback \subseteq {current})
    PROVE  current \notin RotationCandidates(primary, fallback, current)
<1> DEFINE pool == IF Cardinality(primary) > 1 THEN primary
                   ELSE IF fallback # {} THEN fallback ELSE primary
<1>1. pool \ {current} # {}
  <2>1. CASE Cardinality(primary) > 1
    <3>1. SUFFICES ASSUME primary \subseteq {current} PROVE FALSE
      BY <2>1
    <3>2. IsFiniteSet({current}) /\ Cardinality({current}) = 1
      BY FS_Singleton
    <3>3. Cardinality(primary) <= 1 /\ Cardinality(primary) \in Nat
      BY <3>1, <3>2, FS_Subset, FS_CardinalityType
    <3> QED
      BY <2>1, <3>3
  <2>2. CASE ~(Cardinality(primary) > 1)
    BY <2>2
  <2> QED
    BY <2>1, <2>2
<1> QED
  BY <1>1 DEF RotationCandidates

-----------------------------------------------------------------------------
(* Accepting and sharing again *)

\* The places behind the first m of n.
LEMMA PlacesBehind ==
    ASSUME NEW m \in Nat, NEW n \in Nat
    PROVE  LET I == (m + 1) .. (m + n)
           IN /\ I \in SUBSET Int /\ IsFiniteSet(I) /\ Cardinality(I) = n
              /\ \A i \in I : Cardinality(Upto(I, i)) = i - m
<1> DEFINE I == (m + 1) .. (m + n)
<1>1. IsFiniteSet(I) /\ Cardinality(I) = n
  <2>1. /\ IsFiniteSet(I)
        /\ Cardinality(I) = IF m + 1 > m + n THEN 0 ELSE (m + n) - (m + 1) + 1
    BY FS_Interval
  <2> QED
    BY <2>1
<1>2. ASSUME NEW i \in I PROVE Cardinality(Upto(I, i)) = i - m
  <2>1. Upto(I, i) = (m + 1) .. i
    BY DEF Upto
  <2>2. Cardinality((m + 1) .. i) = IF m + 1 > i THEN 0 ELSE i - (m + 1) + 1
    BY FS_Interval
  <2> QED
    BY <2>1, <2>2
<1> QED
  BY <1>1, <1>2

\* Sharing leaves out just the local wallpapers in front.
LEMMA PortableBehind ==
    ASSUME NEW local \in Seq(LocalWallpaper), NEW V, NEW ids \in Seq(V),
           Entries(ids) \cap LocalWallpaper = {}
    PROVE  Portable(local \o ids) = ids
<1> DEFINE u == local \o ids
           m == Len(local)
           n == Len(ids)
           I == (m + 1) .. (m + n)
<1>1. /\ m \in Nat /\ n \in Nat /\ DOMAIN local = 1 .. m /\ DOMAIN ids = 1 .. n
      /\ \A i \in 1 .. m : local[i] \in LocalWallpaper
      /\ \A i \in 1 .. n : ids[i] \notin LocalWallpaper
      /\ ids = [i \in 1 .. n |-> ids[i]]
  BY LenProperties DEF Entries
<1>2. /\ DOMAIN u = 1 .. (m + n)
      /\ \A i \in 1 .. m : u[i] = local[i]
      /\ \A i \in I : u[i] = ids[i - m]
  <2>1. /\ Len(u) = m + n /\ u \in Seq(LocalWallpaper \cup V)
        /\ \A i \in 1 .. (m + n) : u[i] = IF i <= m THEN local[i] ELSE ids[i - m]
    <3>1. local \in Seq(LocalWallpaper \cup V)
      BY SeqMonotonic
    <3>2. ids \in Seq(LocalWallpaper \cup V)
      BY SeqMonotonic
    <3> QED
      BY <3>1, <3>2, ConcatProperties
  <2>2. DOMAIN u = 1 .. (m + n)
    BY <2>1, LenProperties
  <2> QED
    BY <1>1, <2>1, <2>2
<1> HIDE DEF u, m, n
<1>3. {i \in DOMAIN u : u[i] \notin LocalWallpaper} = I
  <2>1. ASSUME NEW i \in DOMAIN u, u[i] \notin LocalWallpaper PROVE i \in I
    <3>1. i \in 1 .. (m + n) /\ ~(i \in 1 .. m)
      BY <1>1, <1>2, <2>1
    <3> QED
      BY <1>1, <3>1
  <2>2. ASSUME NEW i \in I PROVE i \in DOMAIN u /\ u[i] \notin LocalWallpaper
    <3>1. i - m \in 1 .. n /\ i \in 1 .. (m + n)
      BY <1>1
    <3> QED
      BY <1>1, <1>2, <3>1
  <2> QED
    BY <2>1, <2>2
<1>4. /\ I \in SUBSET Int /\ IsFiniteSet(I) /\ Cardinality(I) = n
      /\ \A i \in I : Cardinality(Upto(I, i)) = i - m
  BY <1>1, PlacesBehind
<1>5. DOMAIN Sub(u, I) = 1 .. n
  BY <1>4, SubAt
<1>6. ASSUME NEW j \in 1 .. n PROVE Sub(u, I)[j] = ids[j]
  <2>1. j + m \in I /\ (j + m) - m = j
    BY <1>1
  <2>2. Cardinality(Upto(I, j + m)) = j
    BY <1>4, <2>1
  <2> DEFINE J == I
             i == j + m
  <2> HIDE DEF J, i
  <2>3. J \in SUBSET Int /\ IsFiniteSet(J) /\ i \in J
    BY <1>4, <2>1 DEF J, i
  <2>4. Sub(u, J)[Cardinality(Upto(J, i))] = u[i]
    BY <2>3, SubAt
  <2> QED
    BY <1>2, <2>1, <2>2, <2>4 DEF J, i
<1>7. Sub(u, I) = ids
  <2>1. Sub(u, I) = [j \in 1 .. n |-> Sub(u, I)[j]]
    BY <1>5 DEF Sub
  <2> QED
    BY <1>1, <1>6, <2>1
<1>8. Portable(u) = Sub(u, {i \in DOMAIN u : u[i] \notin LocalWallpaper})
  BY DEF Portable, Filter
<1> QED
  BY <1>3, <1>7, <1>8 DEF u

\* A list with a part of it left out that has none of it.
LEMMA AllPortable ==
    ASSUME NEW V, NEW ids \in Seq(V), Entries(ids) \cap LocalWallpaper = {}
    PROVE  Portable(ids) = ids
<1>1. <<>> \in Seq(LocalWallpaper) /\ <<>> \o ids = ids
  BY ConcatEmptySeq, EmptySeq
<1>2. Portable(<<>> \o ids) = ids
  BY <1>1, PortableBehind
<1> QED
  BY <1>1, <1>2

LEMMA OnlyKeyLocal ==
    ASSUME NEW k \in LocalWallpaper
    PROVE  Portable(<<k>>) = <<>>
<1>1. <<k>> \in Seq(LocalWallpaper) /\ <<>> \in Seq(LocalWallpaper) /\ Entries(<<>>) = {}
  BY EmptySeq DEF Entries
<1>2. <<k>> \o <<>> = <<k>>
  BY <1>1, ConcatEmptySeq
<1>3. Portable(<<k>> \o <<>>) = <<>>
  BY <1>1, PortableBehind
<1> QED
  BY <1>2, <1>3

LEMMA OnlyKeyPortable ==
    ASSUME NEW k, k \notin LocalWallpaper
    PROVE  Portable(<<k>>) = <<k>>
<1>1. PICK ids : ids = <<k>>
  OBVIOUS
<1>2. ids \in Seq({k}) /\ Entries(ids) = {k}
  BY <1>1 DEF Entries
<1>3. Entries(ids) \cap LocalWallpaper = {}
  BY <1>2
<1> QED
  BY <1>1, <1>2, <1>3, AllPortable

LEMMA EqualShortcuts ==
    ASSUME NEW V, NEW x \in Shortcut(V), NEW y \in Shortcut(V), OnlyIcon(x, y), y.icon = x.icon
    PROVE  x = y
  BY DEF Shortcut, OnlyIcon

\* A shared profile as a device of this version uploads it.
Fresh(s) ==
    /\ s.engine \in Engines /\ <<s.columns, s.style>> \notin OutdatedLooks
    /\ s.overlay \notin OutdatedOverlays /\ s.groups # <<>> /\ s.shortcuts # <<>>
    /\ \A i \in DOMAIN s.shortcuts : s.shortcuts[i].icon \notin {"stale", "local"}

LocalKeys(p) == ({p.selected} \cup Entries(p.ids)) \cap LocalWallpaper

\* The icon a device shares for a shortcut it has a local one for.
Stands(x) == IF x.url \in KnownUrls THEN "favicon" ELSE "initial"

\* What a device with profile mine would upload after it accepted s.
Returned(s, mine, u) ==
    /\ SamePlaces(s, u)
    /\ u.pid = s.pid /\ u.engine = s.engine /\ u.columns = s.columns /\ u.style = s.style
    /\ u.overlay = s.overlay /\ u.mode = s.mode /\ u.source = s.source
    /\ u.selected = (IF mine.selected \notin LocalWallpaper /\ s.selected \in Retired THEN Mist
                     ELSE s.selected)
    /\ u.ids = (IF s.ids = <<>> /\ LocalKeys(mine) = {} THEN <<s.selected>> ELSE s.ids)
    /\ \A i \in DOMAIN s.shortcuts :
          u.shortcuts[i].icon = IF s.shortcuts[i].id \in LocalIcons(MigrateProfile(mine))
                                THEN Stands(s.shortcuts[i]) ELSE s.shortcuts[i].icon

\* Migrating a profile moves no local wallpaper.
LEMMA MigratedLocalKeys ==
    ASSUME NEW V, NEW p \in Profile(V), NEW q, MigratedFields(p, {}, q),
           Retired \cap LocalWallpaper = {}, Mist \notin LocalWallpaper
    PROVE  /\ LocalKeys(q) = LocalKeys(p)
           /\ q.selected \in LocalWallpaper <=> p.selected \in LocalWallpaper
           /\ q.selected \in LocalWallpaper => q.selected = p.selected
           /\ q.ids # <<>>
<1>1. /\ q.selected = (IF p.selected \in Retired THEN Mist ELSE p.selected)
      /\ q.ids = (IF p.ids = <<>> THEN <<p.selected>> ELSE p.ids)
  BY DEF MigratedFields
<1>2. Entries(<<p.selected>>) = {p.selected} /\ <<p.selected>> # <<>> /\ Entries(<<>>) = {}
  BY DEF Entries
<1>3. {q.selected} \cap LocalWallpaper = {p.selected} \cap LocalWallpaper
  BY <1>1
<1>4. CASE p.ids = <<>>
  <2>1. Entries(q.ids) = {p.selected} /\ Entries(p.ids) = {}
    BY <1>1, <1>2, <1>4
  <2> QED
    BY <1>1, <1>2, <1>3, <1>4, <2>1 DEF LocalKeys
<1>5. CASE p.ids # <<>>
  BY <1>1, <1>3, <1>5 DEF LocalKeys
<1> QED
  BY <1>4, <1>5

\* The icon of one shortcut on its way through a device.
LEMMA IconReturns ==
    ASSUME NEW V, NEW x \in Shortcut(V), x.icon \notin {"stale", "local"},
           NEW y \in Shortcut(V), OnlyIcon(x, y), NEW drawn \in BOOLEAN,
           y.icon = IF drawn THEN "local" ELSE x.icon
    PROVE  LET z == PortableIcon(Renewed(y, FALSE))
           IN z.icon = IF drawn THEN Stands(x) ELSE x.icon
<1> DEFINE w == Renewed(y, FALSE)
<1>1. /\ w \in Shortcut(V)
      /\ w.icon = IF y.icon = "stale" \/ (y.icon = "local" /\ y.url \in KnownUrls)
                  THEN "favicon" ELSE y.icon
  BY IconsConverted
<1> HIDE DEF w
<1>2. PortableIcon(w).icon = IF w.icon = "local" THEN "initial" ELSE w.icon
  BY <1>1, IconsConverted
<1>3. y.url = x.url
  BY DEF OnlyIcon
<1>4. PortableIcon(w).icon = IF drawn THEN Stands(x) ELSE x.icon
  BY <1>1, <1>2, <1>3 DEF Stands
<1> QED
  BY <1>4 DEF w

\* The wallpapers' way through a device: own stands for its profile, r for what
\* it made of s, q for that migrated, u for what it shares of that.
KeysTaken(s, own, r, q, u) ==
    /\ \E local \in Seq(LocalWallpaper) :
          /\ r.ids = local \o s.ids
          /\ local = <<>> <=> Entries(own.ids) \cap LocalWallpaper = {}
    /\ r.selected = (IF own.selected \in LocalWallpaper THEN own.selected ELSE s.selected)
    /\ q.selected = (IF r.selected \in Retired THEN Mist ELSE r.selected)
    /\ q.ids = (IF r.ids = <<>> THEN <<r.selected>> ELSE r.ids)
    /\ u.selected = (IF q.selected \in LocalWallpaper THEN s.selected ELSE q.selected)
    /\ u.ids = Portable(q.ids)

KeysReturned(s, own, u) ==
    /\ u.selected = (IF own.selected \notin LocalWallpaper /\ s.selected \in Retired THEN Mist
                     ELSE s.selected)
    /\ u.ids = (IF s.ids = <<>> /\ LocalKeys(own) = {} THEN <<s.selected>> ELSE s.ids)

LEMMA KeysReturn ==
    ASSUME NEW V, NEW s \in SharedProfile(V), SharedKeys(s), NEW own, NEW r, NEW q, NEW u,
           KeysTaken(s, own, r, q, u), Retired \cap LocalWallpaper = {}, Mist \notin LocalWallpaper
    PROVE  KeysReturned(s, own, u)
<1>0. PICK local \in Seq(LocalWallpaper) :
        /\ r.ids = local \o s.ids
        /\ local = <<>> <=> Entries(own.ids) \cap LocalWallpaper = {}
        /\ r.selected = (IF own.selected \in LocalWallpaper THEN own.selected ELSE s.selected)
        /\ q.selected = (IF r.selected \in Retired THEN Mist ELSE r.selected)
        /\ q.ids = (IF r.ids = <<>> THEN <<r.selected>> ELSE r.ids)
        /\ u.selected = (IF q.selected \in LocalWallpaper THEN s.selected ELSE q.selected)
        /\ u.ids = Portable(q.ids)
  BY DEF KeysTaken
<1>1. s.selected \notin LocalWallpaper /\ Entries(s.ids) \cap LocalWallpaper = {}
      /\ s.ids \in Seq(V)
  BY DEF SharedKeys, SharedProfile
<1>2. u.selected = (IF own.selected \notin LocalWallpaper /\ s.selected \in Retired THEN Mist
                    ELSE s.selected)
  BY <1>0, <1>1
<1>3. r.ids = <<>> <=> local = <<>> /\ s.ids = <<>>
  <2>1. local \in Seq(LocalWallpaper \cup V) /\ s.ids \in Seq(LocalWallpaper \cup V)
    BY <1>1, SeqMonotonic
  <2>2. Len(r.ids) = Len(local) + Len(s.ids) /\ r.ids \in Seq(LocalWallpaper \cup V)
    BY <1>0, <2>1, ConcatProperties
  <2>3. Len(local) \in Nat /\ Len(s.ids) \in Nat
    BY <1>1, LenProperties
  <2> QED
    BY <1>1, <2>1, <2>2, <2>3, EmptySeq
<1>4. CASE r.ids # <<>>
  <2>1. u.ids = s.ids
    BY <1>0, <1>1, <1>4, PortableBehind
  <2>2. ~(s.ids = <<>> /\ LocalKeys(own) = {})
    BY <1>0, <1>3, <1>4 DEF LocalKeys
  <2> QED
    BY <1>2, <2>1, <2>2 DEF KeysReturned
<1>5. CASE r.ids = <<>> /\ own.selected \in LocalWallpaper
  <2>1. u.ids = <<>>
    BY <1>0, <1>5, OnlyKeyLocal
  <2> QED
    BY <1>2, <1>3, <1>5, <2>1 DEF LocalKeys, KeysReturned
<1>6. CASE r.ids = <<>> /\ own.selected \notin LocalWallpaper
  <2>1. q.ids = <<s.selected>>
    BY <1>0, <1>6
  <2>2. u.ids = <<s.selected>>
    BY <1>0, <1>1, <2>1, OnlyKeyPortable
  <2>3. LocalKeys(own) = {}
    BY <1>0, <1>3, <1>6 DEF LocalKeys
  <2> QED
    BY <1>2, <1>3, <1>6, <2>2, <2>3 DEF KeysReturned
<1> QED
  BY <1>4, <1>5, <1>6

\* What a device would upload after it accepted a shared profile.
LEMMA AcceptReturns ==
    ASSUME NEW V, Settings \subseteq V, NEW T, NEW s \in SharedProfile(V), SharedKeys(s), Fresh(s),
           NEW mine \in Profile(V), KeysIn(mine, T), mine.groups # <<>>, mine.shortcuts # <<>>,
           Mist \notin LocalWallpaper, Mist # None, Retired \cap LocalWallpaper = {}
    PROVE  LET u == ToShared(ToLocal(s, mine))
           IN u \in SharedProfile(V) /\ SharedKeys(u) /\ Returned(s, mine, u)
<1> DEFINE own == MigrateProfile(mine)
           r == Taken(s, own)
           q == MigrateProfile(r)
           u == ToShared(q)
<1>1. mine.portable # None /\ s.groups # <<>> /\ s.shortcuts # <<>>
  BY DEF KeysIn, Fresh
<1>2. own \in Profile(V) /\ KeysIn(own, T) /\ MigratedFields(mine, {}, own)
  BY <1>1, MigratedIs, MigratedKeys DEF MigrateProfile
<1>3. LocalKeys(own) = LocalKeys(mine) /\ (own.selected \in LocalWallpaper <=> mine.selected \in LocalWallpaper)
  BY <1>2, MigratedLocalKeys
<1>4. own = MigrateProfile(mine)
  OBVIOUS
<1> HIDE DEF own
<1>5. r \in Profile(V) /\ KeysIn(r, T) /\ TakenFields(s, own, r)
  BY <1>1, <1>2, TakenIs
<1>6. r = Taken(s, own)
  OBVIOUS
<1> HIDE DEF r
<1>7. r.groups # <<>> /\ r.shortcuts # <<>> /\ r.portable # None
  BY <1>1, <1>5 DEF TakenFields, SamePlaces
<1>8. q \in Profile(V) /\ MigratedFields(r, {}, q)
  BY <1>5, <1>7, MigratedIs DEF MigrateProfile
<1>9. KeysIn(q, T)
  BY <1>5, <1>7, MigratedKeys DEF MigrateProfile
<1>10. ToLocal(s, mine) = q
  BY <1>4, <1>6 DEF ToLocal, Taken
<1> HIDE DEF q
<1>11. /\ u \in SharedProfile(V) /\ SharedKeys(u) /\ SamePlaces(q, u)
       /\ u.pid = q.pid /\ u.engine = q.engine /\ u.columns = q.columns /\ u.style = q.style
       /\ u.overlay = q.overlay /\ u.mode = q.mode /\ u.source = q.source
       /\ u.selected = (IF q.selected \in LocalWallpaper THEN q.portable ELSE q.selected)
       /\ u.ids = Portable(q.ids)
       /\ \A i \in DOMAIN q.shortcuts : u.shortcuts[i] = PortableIcon(q.shortcuts[i])
  <2>1. LET t == ToShared(q)
        IN /\ t \in SharedProfile(V) /\ SharedKeys(t) /\ SamePlaces(q, t)
           /\ t.pid = q.pid /\ t.engine = q.engine /\ t.columns = q.columns /\ t.style = q.style
           /\ t.overlay = q.overlay /\ t.mode = q.mode /\ t.source = q.source
           /\ t.selected = (IF q.selected \in LocalWallpaper THEN q.portable ELSE q.selected)
           /\ t.ids = Portable(q.ids)
           /\ \A i \in DOMAIN q.shortcuts : t.shortcuts[i] = PortableIcon(q.shortcuts[i])
    BY <1>8, <1>9, SharedIsShared
  <2> QED
    BY <2>1
<1> HIDE DEF u
<1>12. /\ SamePlaces(s, r) /\ SamePlaces(r, q) /\ r.portable = s.selected /\ q.portable = r.portable
       /\ r.pid = s.pid /\ r.engine = s.engine /\ r.columns = s.columns /\ r.style = s.style
       /\ r.overlay = s.overlay /\ r.mode = s.mode /\ r.source = s.source
  BY <1>5, <1>8 DEF TakenFields, MigratedFields
<1>13. SamePlaces(s, u)
  BY <1>11, <1>12, PlacesOn
<1>14. /\ u.pid = s.pid /\ u.mode = s.mode /\ u.source = s.source
       /\ u.engine = s.engine /\ u.columns = s.columns /\ u.style = s.style /\ u.overlay = s.overlay
  <2>1. q.engine = r.engine /\ q.columns = r.columns /\ q.style = r.style /\ q.overlay = r.overlay
        /\ q.pid = r.pid /\ q.mode = r.mode /\ q.source = r.source
    BY <1>8, <1>12 DEF MigratedFields, Fresh
  <2> QED
    BY <1>11, <1>12, <2>1
<1>15. KeysReturned(s, own, u)
  <2>1. PICK local \in Seq(LocalWallpaper) :
            /\ r.ids = local \o s.ids
            /\ local = <<>> <=> Entries(own.ids) \cap LocalWallpaper = {}
    BY <1>5 DEF TakenFields
  <2>2. r.selected = (IF own.selected \in LocalWallpaper THEN own.selected ELSE s.selected)
    BY <1>5 DEF TakenFields
  <2>3. /\ q.selected = (IF r.selected \in Retired THEN Mist ELSE r.selected)
        /\ q.ids = (IF r.ids = <<>> THEN <<r.selected>> ELSE r.ids)
    BY <1>8 DEF MigratedFields
  <2>4. u.selected = (IF q.selected \in LocalWallpaper THEN s.selected ELSE q.selected)
        /\ u.ids = Portable(q.ids)
    BY <1>11, <1>12
  <2>5. KeysTaken(s, own, r, q, u)
    BY <2>1, <2>2, <2>3, <2>4 DEF KeysTaken
  <2> QED
    BY <2>5, KeysReturn
<1>16. ASSUME NEW i \in DOMAIN s.shortcuts
       PROVE  u.shortcuts[i].icon = IF s.shortcuts[i].id \in LocalIcons(own)
                                    THEN Stands(s.shortcuts[i]) ELSE s.shortcuts[i].icon
  <2> DEFINE x == s.shortcuts[i]
             y == r.shortcuts[i]
  <2>1. DOMAIN r.shortcuts = DOMAIN s.shortcuts /\ DOMAIN q.shortcuts = DOMAIN r.shortcuts
        /\ OnlyIcon(x, y)
    BY <1>12 DEF SamePlaces, Repainted
  <2>2. x \in Shortcut(V) /\ y \in Shortcut(V)
    BY <1>5, <2>1, LenProperties DEF Profile, SharedProfile
  <2>3. q.shortcuts[i] = Renewed(y, FALSE)
    BY <1>8, <2>1 DEF MigratedFields
  <2>4. u.shortcuts[i] = PortableIcon(Renewed(y, FALSE))
    BY <1>11, <2>1, <2>3
  <2>5. y.icon = IF x.id \in LocalIcons(own) THEN "local" ELSE x.icon
    BY <1>5 DEF TakenFields
  <2>6. x.icon \notin {"stale", "local"}
    BY DEF Fresh
  <2> HIDE DEF x, y
  <2>7. PICK drawn \in BOOLEAN : drawn <=> x.id \in LocalIcons(own)
    OBVIOUS
  <2>8. LET z == PortableIcon(Renewed(y, FALSE))
        IN z.icon = IF drawn THEN Stands(x) ELSE x.icon
    BY <2>1, <2>2, <2>5, <2>6, <2>7, IconReturns
  <2> QED
    BY <2>4, <2>7, <2>8 DEF x
<1>17. Returned(s, mine, u)
  BY <1>3, <1>4, <1>13, <1>14, <1>15, <1>16 DEF Returned, KeysReturned
<1> QED
  BY <1>10, <1>11, <1>17 DEF u

\* It is the shared profile itself just if nothing of the device's own shows in it.
LEMMA ReturnedSame ==
    ASSUME NEW V, NEW s \in SharedProfile(V), NEW u \in SharedProfile(V), NEW mine,
           Returned(s, mine, u), Mist \notin Retired
    PROVE  u = s <=>
             /\ \A x \in Entries(s.shortcuts) :
                   x.id \in LocalIcons(MigrateProfile(mine)) => x.icon = Stands(x)
             /\ s.ids # <<>> \/ LocalKeys(mine) # {}
             /\ s.selected \notin Retired \/ mine.selected \in LocalWallpaper
<1> DEFINE drawn(x) == x.id \in LocalIcons(MigrateProfile(mine))
<1>1. /\ u.groups = s.groups /\ DOMAIN u.shortcuts = DOMAIN s.shortcuts
      /\ \A i \in DOMAIN s.shortcuts : OnlyIcon(s.shortcuts[i], u.shortcuts[i])
  BY DEF Returned, SamePlaces, Repainted
<1>2. /\ u.pid = s.pid /\ u.engine = s.engine /\ u.columns = s.columns /\ u.style = s.style
      /\ u.overlay = s.overlay /\ u.mode = s.mode /\ u.source = s.source
      /\ u.selected = (IF mine.selected \notin LocalWallpaper /\ s.selected \in Retired THEN Mist
                       ELSE s.selected)
      /\ u.ids = (IF s.ids = <<>> /\ LocalKeys(mine) = {} THEN <<s.selected>> ELSE s.ids)
      /\ \A i \in DOMAIN s.shortcuts :
            u.shortcuts[i].icon = IF drawn(s.shortcuts[i]) THEN Stands(s.shortcuts[i])
                                  ELSE s.shortcuts[i].icon
  BY DEF Returned
<1>3. u.selected = s.selected <=> s.selected \notin Retired \/ mine.selected \in LocalWallpaper
  BY <1>2
<1>4. u.ids = s.ids <=> s.ids # <<>> \/ LocalKeys(mine) # {}
  <2>1. <<s.selected>> # <<>>
    OBVIOUS
  <2> QED
    BY <1>2, <2>1
<1>5. ASSUME NEW i \in DOMAIN s.shortcuts
      PROVE  u.shortcuts[i] = s.shortcuts[i] <=>
                (drawn(s.shortcuts[i]) => s.shortcuts[i].icon = Stands(s.shortcuts[i]))
  <2> DEFINE x == s.shortcuts[i]
             y == u.shortcuts[i]
             own == drawn(x)
  <2>1. x \in Shortcut(V) /\ y \in Shortcut(V) /\ OnlyIcon(x, y)
    BY <1>1, LenProperties DEF SharedProfile
  <2>2. y.icon = IF own THEN Stands(x) ELSE x.icon
    BY <1>2
  <2> HIDE DEF x, y, own
  <2>3. y = x <=> (own => x.icon = Stands(x))
    BY <2>1, <2>2, EqualShortcuts
  <2> QED
    BY <2>3 DEF x, y, own
<1>6. u.shortcuts = s.shortcuts <=> \A i \in DOMAIN s.shortcuts : u.shortcuts[i] = s.shortcuts[i]
  <2>1. u.shortcuts \in Seq(Shortcut(V)) /\ s.shortcuts \in Seq(Shortcut(V))
    BY DEF SharedProfile
  <2>2. /\ u.shortcuts = [i \in DOMAIN u.shortcuts |-> u.shortcuts[i]]
        /\ s.shortcuts = [i \in DOMAIN s.shortcuts |-> s.shortcuts[i]]
    BY <2>1, LenProperties
  <2> QED
    BY <1>1, <2>2
<1>7. u = s <=> u.shortcuts = s.shortcuts /\ u.selected = s.selected /\ u.ids = s.ids
  BY <1>1, <1>2 DEF SharedProfile
<1>8. (\A i \in DOMAIN s.shortcuts :
          drawn(s.shortcuts[i]) => s.shortcuts[i].icon = Stands(s.shortcuts[i]))
      <=> \A x \in Entries(s.shortcuts) : drawn(x) => x.icon = Stands(x)
  BY DEF Entries
<1> HIDE DEF drawn
<1>9. u.shortcuts = s.shortcuts <=> \A x \in Entries(s.shortcuts) : drawn(x) => x.icon = Stands(x)
  BY <1>5, <1>6, <1>8
<1> QED
  BY <1>3, <1>4, <1>7, <1>9 DEF drawn

\* What migrateProfile leaves is fit to be shared.
LEMMA MigratedIsFresh ==
    ASSUME NEW V, Settings \subseteq V, NEW T, NEW p \in Profile(V), KeysIn(p, T),
           p.groups # <<>>, p.shortcuts # <<>>, Mist \notin LocalWallpaper, Mist # None
    PROVE  LET own == MigrateProfile(p)
           IN /\ own \in Profile(V) /\ KeysIn(own, T) /\ MigratedFields(p, {}, own)
              /\ ToShared(own) \in SharedProfile(V) /\ SharedKeys(ToShared(own))
              /\ SamePlaces(own, ToShared(own)) /\ SamePlaces(p, ToShared(own))
              /\ Fresh(ToShared(own)) /\ ToShared(own).ids = Portable(own.ids)
              /\ own.selected \notin LocalWallpaper => ToShared(own).selected = own.selected
              /\ \A i \in DOMAIN own.shortcuts :
                    /\ ToShared(own).shortcuts[i] = PortableIcon(own.shortcuts[i])
                    /\ own.shortcuts[i].icon = "local" =>
                          /\ own.shortcuts[i].url \notin KnownUrls
                          /\ ToShared(own).shortcuts[i].icon = "initial"
<1> DEFINE own == MigrateProfile(p)
           s == ToShared(own)
<1>1. p.portable # None
  BY DEF KeysIn
<1>2. own \in Profile(V) /\ KeysIn(own, T) /\ MigratedFields(p, {}, own)
  BY <1>1, MigratedIs, MigratedKeys DEF MigrateProfile
<1> HIDE DEF own
<1>3. /\ s \in SharedProfile(V) /\ SharedKeys(s) /\ SamePlaces(own, s)
      /\ s.engine = own.engine /\ s.columns = own.columns /\ s.style = own.style
      /\ s.overlay = own.overlay /\ s.ids = Portable(own.ids)
      /\ s.selected = (IF own.selected \in LocalWallpaper THEN own.portable ELSE own.selected)
      /\ \A i \in DOMAIN own.shortcuts : s.shortcuts[i] = PortableIcon(own.shortcuts[i])
  <2>1. LET t == ToShared(own)
        IN /\ t \in SharedProfile(V) /\ SharedKeys(t) /\ SamePlaces(own, t)
           /\ t.engine = own.engine /\ t.columns = own.columns /\ t.style = own.style
           /\ t.overlay = own.overlay /\ t.ids = Portable(own.ids)
           /\ t.selected = (IF own.selected \in LocalWallpaper THEN own.portable ELSE own.selected)
           /\ \A i \in DOMAIN own.shortcuts : t.shortcuts[i] = PortableIcon(own.shortcuts[i])
    BY <1>2, SharedIsShared
  <2> QED
    BY <2>1
<1> HIDE DEF s
<1>4. SamePlaces(p, own)
  BY <1>2 DEF MigratedFields
<1>5. SamePlaces(p, s)
  BY <1>3, <1>4, PlacesOn
<1>6. ASSUME NEW i \in DOMAIN own.shortcuts
      PROVE  /\ s.shortcuts[i].icon \notin {"stale", "local"}
             /\ own.shortcuts[i].icon = "local" =>
                   own.shortcuts[i].url \notin KnownUrls /\ s.shortcuts[i].icon = "initial"
  <2> DEFINE x == p.shortcuts[i]
             y == own.shortcuts[i]
  <2>1. i \in DOMAIN p.shortcuts /\ OnlyIcon(x, y)
    BY <1>4 DEF SamePlaces, Repainted
  <2>2. x \in Shortcut(V) /\ y \in Shortcut(V)
    BY <1>2, <2>1, LenProperties DEF Profile
  <2>3. y = Renewed(x, FALSE)
    BY <1>2, <2>1 DEF MigratedFields
  <2>4. s.shortcuts[i] = PortableIcon(y)
    BY <1>3
  <2> HIDE DEF x, y
  <2>5. y.icon = IF x.icon = "stale" \/ (x.icon = "local" /\ x.url \in KnownUrls)
                 THEN "favicon" ELSE x.icon
    BY <2>2, <2>3, IconsConverted
  <2>6. PortableIcon(y).icon = IF y.icon = "local" THEN "initial" ELSE y.icon
    BY <2>2, IconsConverted
  <2>7. y.url = x.url
    BY <2>1 DEF OnlyIcon
  <2>8. PortableIcon(y).icon \notin {"stale", "local"} /\ y.icon # "stale"
        /\ (y.icon = "local" => y.url \notin KnownUrls /\ PortableIcon(y).icon = "initial")
    BY <2>5, <2>6, <2>7
  <2> QED
    BY <2>4, <2>8 DEF y
<1>7. Fresh(s)
  <2>1. s.groups # <<>> /\ DOMAIN s.shortcuts = DOMAIN own.shortcuts
    BY <1>3, <1>5 DEF SamePlaces, Repainted
  <2>2. s.shortcuts # <<>>
    <3>1. DOMAIN s.shortcuts = DOMAIN p.shortcuts
      BY <1>5 DEF SamePlaces, Repainted
    <3>2. s.shortcuts \in Seq(Shortcut(V)) /\ p.shortcuts \in Seq(Shortcut(V))
      BY <1>3 DEF SharedProfile, Profile
    <3> QED
      BY <3>1, <3>2, EmptySeq
  <2>3. /\ own.engine \in Engines /\ <<own.columns, own.style>> \notin OutdatedLooks
        /\ own.overlay \notin OutdatedOverlays
    BY <1>2, DefaultsAssumption DEF MigratedFields
  <2> QED
    BY <1>3, <1>6, <2>1, <2>2, <2>3 DEF Fresh
<1> QED
  BY <1>2, <1>3, <1>5, <1>6, <1>7 DEF own, s

\* What one device makes of another's profile, the other accepts as it is.
LEMMA ReturnsOnce ==
    ASSUME NEW V, Settings \subseteq V, NEW T, NEW theirs \in Profile(V), KeysIn(theirs, T),
           theirs.groups # <<>>, theirs.shortcuts # <<>>, UniqueIds(theirs.shortcuts),
           Mist \notin LocalWallpaper, Mist # None, Mist \notin Retired,
           Retired \cap LocalWallpaper = {}, NEW mine, NEW u \in SharedProfile(V),
           Returned(ToShared(MigrateProfile(theirs)), mine, u)
    PROVE  /\ Fresh(u)
           /\ \A x \in Entries(u.shortcuts) :
                 x.id \in LocalIcons(MigrateProfile(theirs)) => x.icon = Stands(x)
           /\ u.ids # <<>> \/ LocalKeys(theirs) # {}
           /\ u.selected \notin Retired \/ theirs.selected \in LocalWallpaper
<1> DEFINE own == MigrateProfile(theirs)
           s == ToShared(own)
<1>1. /\ own \in Profile(V) /\ KeysIn(own, T) /\ MigratedFields(theirs, {}, own)
      /\ s \in SharedProfile(V) /\ SharedKeys(s) /\ SamePlaces(own, s)
      /\ Fresh(s) /\ s.ids = Portable(own.ids)
      /\ own.selected \notin LocalWallpaper => s.selected = own.selected
      /\ \A i \in DOMAIN own.shortcuts :
            own.shortcuts[i].icon = "local" =>
                own.shortcuts[i].url \notin KnownUrls /\ s.shortcuts[i].icon = "initial"
  <2>1. LET w == MigrateProfile(theirs)
        IN /\ w \in Profile(V) /\ KeysIn(w, T) /\ MigratedFields(theirs, {}, w)
           /\ ToShared(w) \in SharedProfile(V) /\ SharedKeys(ToShared(w))
           /\ SamePlaces(w, ToShared(w)) /\ SamePlaces(theirs, ToShared(w))
           /\ Fresh(ToShared(w)) /\ ToShared(w).ids = Portable(w.ids)
           /\ w.selected \notin LocalWallpaper => ToShared(w).selected = w.selected
           /\ \A i \in DOMAIN w.shortcuts :
                 /\ ToShared(w).shortcuts[i] = PortableIcon(w.shortcuts[i])
                 /\ w.shortcuts[i].icon = "local" =>
                       /\ w.shortcuts[i].url \notin KnownUrls
                       /\ ToShared(w).shortcuts[i].icon = "initial"
    BY MigratedIsFresh
  <2> QED
    BY <2>1
<1>2. Returned(s, mine, u)
  OBVIOUS
<1>3. own = MigrateProfile(theirs)
  OBVIOUS
<1> HIDE DEF own
<1> HIDE DEF s
<1>4. SamePlaces(s, u) /\ DOMAIN u.shortcuts = DOMAIN s.shortcuts /\ u.groups = s.groups
      /\ \A i \in DOMAIN s.shortcuts : OnlyIcon(s.shortcuts[i], u.shortcuts[i])
  BY <1>2 DEF Returned, SamePlaces, Repainted
<1>5. \A i \in DOMAIN s.shortcuts : u.shortcuts[i].icon \in {s.shortcuts[i].icon, Stands(s.shortcuts[i])}
  BY <1>2 DEF Returned
<1>6. Fresh(u)
  <2>1. u.shortcuts # <<>>
    <3>1. u.shortcuts \in Seq(Shortcut(V)) /\ s.shortcuts \in Seq(Shortcut(V))
      BY <1>1 DEF SharedProfile
    <3> QED
      BY <1>1, <1>4, <3>1, EmptySeq DEF Fresh
  <2>2. \A i \in DOMAIN u.shortcuts : u.shortcuts[i].icon \notin {"stale", "local"}
    BY <1>1, <1>4, <1>5 DEF Fresh, Stands
  <2>3. /\ u.engine = s.engine /\ u.columns = s.columns /\ u.style = s.style
        /\ u.overlay = s.overlay
    BY <1>2 DEF Returned
  <2> QED
    BY <1>1, <1>4, <2>1, <2>2, <2>3 DEF Fresh
<1>7. ASSUME NEW x \in Entries(u.shortcuts), x.id \in LocalIcons(own)
      PROVE  x.icon = Stands(x)
  <2>1. PICK i \in DOMAIN s.shortcuts : x = u.shortcuts[i]
    BY <1>4 DEF Entries
  <2>2. PICK k \in DOMAIN own.shortcuts : own.shortcuts[k].icon = "local" /\ own.shortcuts[k].id = x.id
    BY <1>7 DEF LocalIcons, Entries
  <2>3. DOMAIN s.shortcuts = DOMAIN own.shortcuts /\ DOMAIN own.shortcuts = DOMAIN theirs.shortcuts
    BY <1>1 DEF MigratedFields, SamePlaces, Repainted
  <2>4. \A j \in DOMAIN own.shortcuts : /\ own.shortcuts[j].id = theirs.shortcuts[j].id
                                        /\ s.shortcuts[j].id = own.shortcuts[j].id
                                        /\ s.shortcuts[j].url = own.shortcuts[j].url
    BY <1>1, <2>3 DEF MigratedFields, SamePlaces, Repainted, OnlyIcon
  <2>5. x.id = s.shortcuts[i].id /\ x.url = s.shortcuts[i].url
    BY <1>4, <2>1 DEF OnlyIcon
  <2>6. i = k
    BY <2>2, <2>3, <2>4, <2>5 DEF UniqueIds
  <2>7. s.shortcuts[i].url \notin KnownUrls /\ s.shortcuts[i].icon = "initial"
    BY <1>1, <2>2, <2>3, <2>4, <2>6
  <2> QED
    BY <1>5, <2>1, <2>5, <2>7 DEF Stands
<1>8. /\ LocalKeys(own) = LocalKeys(theirs) /\ own.ids # <<>>
      /\ (own.selected \in LocalWallpaper <=> theirs.selected \in LocalWallpaper)
  BY <1>1, MigratedLocalKeys
<1>9. u.ids # <<>> \/ LocalKeys(theirs) # {}
  <2> SUFFICES ASSUME LocalKeys(theirs) = {} PROVE u.ids # <<>>
    OBVIOUS
  <2>1. Entries(own.ids) \cap LocalWallpaper = {} /\ own.ids \in Seq(V)
    BY <1>1, <1>8 DEF LocalKeys, Profile
  <2>2. s.ids # <<>>
    BY <1>1, <1>8, <2>1, AllPortable
  <2> QED
    BY <1>2, <2>2 DEF Returned
<1>10. u.selected \notin Retired \/ theirs.selected \in LocalWallpaper
  <2> SUFFICES ASSUME theirs.selected \notin LocalWallpaper PROVE u.selected \notin Retired
    OBVIOUS
  <2>1. s.selected \notin Retired
    BY <1>1, <1>8 DEF MigratedFields
  <2> QED
    BY <1>2, <2>1 DEF Returned
<1> QED
  BY <1>3, <1>6, <1>7, <1>9, <1>10

-----------------------------------------------------------------------------
(* The three-way merge, seen from either side *)

\* mergeScalar: where the sides do not disagree, it does not matter which is
\* which; and who is asked does not depend on it either.
LEMMA ScalarCommutes ==
    ASSUME NEW b, NEW l, NEW r
    PROVE  /\ Disagree(b, l, r) <=> Disagree(b, r, l)
           /\ ~Disagree(b, l, r) => MergeScalar(b, l, r) = MergeScalar(b, r, l)
  BY DEF Disagree, MergeScalar

\* mergeEntities merges every entry that any of the three has.
LEMMA AllIdsAreAll ==
    ASSUME NEW E, NEW b \in Seq(E), NEW l \in Seq(E), NEW r \in Seq(E)
    PROVE  LET all == AllIds(b, l, r)
           IN \E I : all \in Seq(I) /\ Entries(all) = Ids(b) \cup Ids(l) \cup Ids(r)
<1> DEFINE L == Sub(l, {i \in DOMAIN l : l[i].id \notin Ids(b)})
           R == Sub(r, {i \in DOMAIN r : r[i].id \notin Ids(b) \cup Ids(l)})
           bL == b \o L
           list == bL \o R
           all == [i \in DOMAIN list |-> list[i].id]
<1>1. L \in Seq(E) /\ Entries(L) = {x \in Entries(l) : x.id \notin Ids(b)}
  <2>1. L \in Seq(E) /\ Entries(L) = {l[i] : i \in {i \in DOMAIN l : l[i].id \notin Ids(b)}}
    BY SubIsList
  <2> QED
    BY <2>1 DEF Entries
<1>2. R \in Seq(E) /\ Entries(R) = {x \in Entries(r) : x.id \notin Ids(b) \cup Ids(l)}
  <2>1. R \in Seq(E) /\ Entries(R) = {r[i] : i \in {i \in DOMAIN r : r[i].id \notin Ids(b) \cup Ids(l)}}
    BY SubIsList
  <2> QED
    BY <2>1 DEF Entries
<1>3. AllIds(b, l, r) = all
  BY DEF AllIds, Filter
<1> HIDE DEF L, R
<1>4. bL \in Seq(E) /\ Entries(bL) = Entries(b) \cup Entries(L)
  BY <1>1, ConcatEntries
<1> HIDE DEF bL
<1>5. list \in Seq(E) /\ Entries(list) = Entries(b) \cup Entries(L) \cup Entries(R)
  BY <1>2, <1>4, ConcatEntries
<1> HIDE DEF list
<1>6. {x.id : x \in Entries(list)} = Ids(b) \cup Ids(l) \cup Ids(r)
  <2>1. {x.id : x \in Entries(L)} = Ids(l) \ Ids(b)
    BY <1>1 DEF Ids
  <2>2. {x.id : x \in Entries(R)} = Ids(r) \ (Ids(b) \cup Ids(l))
    BY <1>2 DEF Ids
  <2>3. {x.id : x \in Entries(list)} =
          Ids(b) \cup {x.id : x \in Entries(L)} \cup {x.id : x \in Entries(R)}
    BY <1>5 DEF Ids
  <2> QED
    BY <2>1, <2>2, <2>3
<1> DEFINE I == {x.id : x \in Entries(list)}
<1>7. all \in [DOMAIN list -> I]
  BY DEF Entries
<1>8. all \in Seq(I) /\ DOMAIN all = DOMAIN list
  BY <1>5, <1>7, RevisedList
<1>9. Entries(all) = I
  BY DEF Entries
<1> QED
  BY <1>3, <1>6, <1>8, <1>9

\* mergeScalar of an entry's three versions: what is merged under its id.
Pick(b, l, r, id) == MergeScalar(Found(b, id), Found(l, id), Found(r, id))

LEMMA MergedEntries ==
    ASSUME NEW E, NEW b \in Seq(E), NEW l \in Seq(E), NEW r \in Seq(E)
    PROVE  Entries(MergeEntities(b, l, r)) =
             {The(Pick(b, l, r, id)) :
                 id \in {id \in Ids(b) \cup Ids(l) \cup Ids(r) : Pick(b, l, r, id) # {}}}
<1> DEFINE pick(id) == Pick(b, l, r, id)
           all == AllIds(b, l, r)
           ids == Sub(all, {i \in DOMAIN all : pick(all[i]) # {}})
           list == [i \in DOMAIN ids |-> The(pick(ids[i]))]
<1>1. PICK I : all \in Seq(I) /\ Entries(all) = Ids(b) \cup Ids(l) \cup Ids(r)
  BY AllIdsAreAll
<1>2. MergeEntities(b, l, r) = list
  BY DEF MergeEntities, Filter, Pick
<1> HIDE DEF all, pick
<1>3. Entries(ids) = {id \in Entries(all) : pick(id) # {}}
  <2>1. Entries(ids) = {all[i] : i \in {i \in DOMAIN all : pick(all[i]) # {}}}
    BY <1>1, SubIsList
  <2> QED
    BY <2>1 DEF Entries
<1> HIDE DEF ids
<1>4. Entries(list) = {The(pick(id)) : id \in Entries(ids)}
  BY DEF Entries
<1> QED
  BY <1>1, <1>2, <1>3, <1>4 DEF pick

LEMMA EntitiesCommute ==
    ASSUME NEW E, NEW b \in Seq(E), NEW l \in Seq(E), NEW r \in Seq(E),
           \A id \in Ids(b) \cup Ids(l) \cup Ids(r) :
              ~Disagree(Found(b, id), Found(l, id), Found(r, id))
    PROVE  Entries(MergeEntities(b, l, r)) = Entries(MergeEntities(b, r, l))
<1> DEFINE pick(id) == Pick(b, l, r, id)
           twin(id) == Pick(b, r, l, id)
           all == Ids(b) \cup Ids(l) \cup Ids(r)
<1>1. \A id \in all : pick(id) = twin(id)
  BY ScalarCommutes DEF Pick
<1> HIDE DEF pick, twin
<1>2. {The(pick(id)) : id \in {id \in all : pick(id) # {}}}
        = {The(twin(id)) : id \in {id \in all : twin(id) # {}}}
  BY <1>1
<1>3. Entries(MergeEntities(b, l, r)) = {The(pick(id)) : id \in {id \in all : pick(id) # {}}}
  BY MergedEntries DEF pick
<1>4. Entries(MergeEntities(b, r, l)) = {The(twin(id)) : id \in {id \in all : twin(id) # {}}}
  <2>1. Entries(MergeEntities(b, r, l)) =
          {The(twin(id)) : id \in {id \in Ids(b) \cup Ids(r) \cup Ids(l) : twin(id) # {}}}
    BY MergedEntries DEF twin
  <2>2. Ids(b) \cup Ids(r) \cup Ids(l) = all
    OBVIOUS
  <2> QED
    BY <2>1, <2>2
<1> QED
  BY <1>2, <1>3, <1>4

\* mergeIds: which keys are kept never depends on the side.
LEMMA IdsCommute ==
    ASSUME NEW b, NEW l, NEW r
    PROVE  /\ MergeIds(b, l, r).conflict <=> MergeIds(b, r, l).conflict
           /\ ~MergeIds(b, l, r).conflict => MergeIds(b, l, r).value = MergeIds(b, r, l).value
<1> DEFINE old == ToSet(b)
           all == old \cup ToSet(l) \cup ToSet(r)
           kept == {k \in all : MergeScalar(k \in old, k \in ToSet(l), k \in ToSet(r))}
           of(x) == Filter(x, LAMBDA k : k \in old \cap kept)
           fresh == KeyOrder(kept \ old)
           value(x, y) == IF Disagree(b, x, y) THEN MergeScalar(of(b), of(x), of(y)) \o fresh
                          ELSE MergeScalar(b, x, y)
           conflict(x, y) == Disagree(b, x, y) /\ Disagree(of(b), of(x), of(y))
<1>1. MergeIds(b, l, r) = [value |-> value(l, r), conflict |-> conflict(l, r)]
  BY DEF MergeIds
<1>2. MergeIds(b, r, l) = [value |-> value(r, l), conflict |-> conflict(r, l)]
  <2> DEFINE all2 == old \cup ToSet(r) \cup ToSet(l)
             kept2 == {k \in all2 : MergeScalar(k \in old, k \in ToSet(r), k \in ToSet(l))}
  <2>1. kept2 = kept
    BY DEF MergeScalar
  <2>2. MergeIds(b, r, l) =
          LET of2(x) == Filter(x, LAMBDA k : k \in old \cap kept2)
          IN [value |-> IF Disagree(b, r, l)
                        THEN MergeScalar(of2(b), of2(r), of2(l)) \o KeyOrder(kept2 \ old)
                        ELSE MergeScalar(b, r, l),
              conflict |-> Disagree(b, r, l) /\ Disagree(of2(b), of2(r), of2(l))]
    BY DEF MergeIds
  <2> HIDE DEF kept, kept2
  <2> QED
    BY <2>1, <2>2
<1> HIDE DEF fresh, of
<1>3. conflict(l, r) <=> conflict(r, l)
  BY ScalarCommutes
<1>4. ~conflict(l, r) => value(l, r) = value(r, l)
  BY ScalarCommutes
<1> HIDE DEF value, conflict
<1> QED
  BY <1>1, <1>2, <1>3, <1>4

\* The conflicts but for the shortcuts left without a group.
Asked(b, l, r) ==
    LET ids(name) == Ids(b[name]) \cup Ids(l[name]) \cup Ids(r[name])
        paths == ({"groups"} \X ids("groups")) \cup ({"shortcuts"} \X ids("shortcuts"))
                 \cup {<<f, f>> : f \in Scalars}
    IN {path \in paths : Disagree(At(b, path), At(l, path), At(r, path))}
       \cup (IF MergeIds(b.ids, l.ids, r.ids).conflict THEN {<<"ids", "ids">>} ELSE {})

LEMMA AskedCommutes ==
    ASSUME NEW b, NEW l, NEW r
    PROVE  Asked(b, l, r) = Asked(b, r, l)
<1> DEFINE paths(x, y) ==
              ({"groups"} \X (Ids(b["groups"]) \cup Ids(x["groups"]) \cup Ids(y["groups"])))
              \cup ({"shortcuts"} \X (Ids(b["shortcuts"]) \cup Ids(x["shortcuts"])
                                     \cup Ids(y["shortcuts"])))
              \cup {<<f, f>> : f \in Scalars}
           apart(x, y) == {path \in paths(x, y) : Disagree(At(b, path), At(x, path), At(y, path))}
           listed(x, y) == IF MergeIds(b.ids, x.ids, y.ids).conflict THEN {<<"ids", "ids">>} ELSE {}
<1>1. Asked(b, l, r) = apart(l, r) \cup listed(l, r)
  BY DEF Asked
<1>2. Asked(b, r, l) = apart(r, l) \cup listed(r, l)
  BY DEF Asked
<1>3. paths(l, r) = paths(r, l)
  OBVIOUS
<1> HIDE DEF paths
<1>4. apart(l, r) = apart(r, l)
  BY <1>3, ScalarCommutes
<1>5. listed(l, r) = listed(r, l)
  BY IdsCommute
<1> QED
  BY <1>1, <1>2, <1>4, <1>5

LEMMA ConflictsAsked ==
    ASSUME NEW b, NEW l, NEW r
    PROVE  /\ Asked(b, l, r) \subseteq Conflicts(b, l, r)
           /\ {c \in Conflicts(b, l, r) : c[1] # "groupId"} = {c \in Asked(b, l, r) : c[1] # "groupId"}
<1>1. Conflicts(b, l, r) = Asked(b, l, r) \cup {<<"groupId", x.id>> : x \in Homeless(Merged(b, l, r))}
  BY DEF Conflicts, Asked
<1>2. \A c \in {<<"groupId", x.id>> : x \in Homeless(Merged(b, l, r))} : c[1] = "groupId"
  OBVIOUS
<1> QED
  BY <1>1, <1>2

LEMMA MergeCommutesOf ==
    ASSUME NEW V, NEW b \in SharedProfile(V), NEW l \in SharedProfile(V), NEW r \in SharedProfile(V),
           Asked(b, l, r) = {}
    PROVE  LET result == Merged(b, l, r)
               mirror == Merged(b, r, l)
           IN /\ Entries(result.groups) = Entries(mirror.groups)
              /\ Entries(result.shortcuts) = Entries(mirror.shortcuts)
              /\ \A f \in Scalars \cup {"ids"} : result[f] = mirror[f]
<1> DEFINE result == Merged(b, l, r)
           mirror == Merged(b, r, l)
<1>1. /\ b.groups \in Seq(Group(V)) /\ l.groups \in Seq(Group(V)) /\ r.groups \in Seq(Group(V))
      /\ b.shortcuts \in Seq(Shortcut(V)) /\ l.shortcuts \in Seq(Shortcut(V))
      /\ r.shortcuts \in Seq(Shortcut(V))
  BY DEF SharedProfile
<1>2. DOMAIN b = Scalars \cup {"groups", "shortcuts", "ids"}
  BY DEF SharedProfile, Scalars
<1>3. /\ result.groups = MergeEntities(b.groups, l.groups, r.groups)
      /\ mirror.groups = MergeEntities(b.groups, r.groups, l.groups)
      /\ result.shortcuts = MergeEntities(b.shortcuts, l.shortcuts, r.shortcuts)
      /\ mirror.shortcuts = MergeEntities(b.shortcuts, r.shortcuts, l.shortcuts)
      /\ result["ids"] = MergeIds(b.ids, l.ids, r.ids).value
      /\ mirror["ids"] = MergeIds(b.ids, r.ids, l.ids).value
  BY <1>2 DEF Merged
<1>4. \A f \in Scalars : /\ result[f] = MergeScalar(b[f], l[f], r[f])
                         /\ mirror[f] = MergeScalar(b[f], r[f], l[f])
  BY <1>2 DEF Merged, Scalars
<1> HIDE DEF result, mirror
<1>5. \A id \in Ids(b.groups) \cup Ids(l.groups) \cup Ids(r.groups) :
        ~Disagree(Found(b.groups, id), Found(l.groups, id), Found(r.groups, id))
  <2> SUFFICES ASSUME NEW id \in Ids(b.groups) \cup Ids(l.groups) \cup Ids(r.groups)
               PROVE  ~Disagree(Found(b.groups, id), Found(l.groups, id), Found(r.groups, id))
    OBVIOUS
  <2> DEFINE path == <<"groups", id>>
  <2>1. ~Disagree(At(b, path), At(l, path), At(r, path))
    BY DEF Asked
  <2> QED
    BY <2>1 DEF At
<1>6. \A id \in Ids(b.shortcuts) \cup Ids(l.shortcuts) \cup Ids(r.shortcuts) :
        ~Disagree(Found(b.shortcuts, id), Found(l.shortcuts, id), Found(r.shortcuts, id))
  <2> SUFFICES ASSUME NEW id \in Ids(b.shortcuts) \cup Ids(l.shortcuts) \cup Ids(r.shortcuts)
               PROVE  ~Disagree(Found(b.shortcuts, id), Found(l.shortcuts, id), Found(r.shortcuts, id))
    OBVIOUS
  <2> DEFINE path == <<"shortcuts", id>>
  <2>1. ~Disagree(At(b, path), At(l, path), At(r, path))
    BY DEF Asked
  <2> QED
    BY <2>1 DEF At
<1>7. \A f \in Scalars : ~Disagree(b[f], l[f], r[f])
  <2> SUFFICES ASSUME NEW f \in Scalars PROVE ~Disagree(b[f], l[f], r[f])
    OBVIOUS
  <2> DEFINE path == <<f, f>>
  <2>1. ~Disagree(At(b, path), At(l, path), At(r, path))
    BY DEF Asked
  <2>2. f \notin {"groups", "shortcuts", "groupId"}
    BY DEF Scalars
  <2> QED
    BY <2>1, <2>2 DEF At, Disagree
<1>8. ~MergeIds(b.ids, l.ids, r.ids).conflict
  BY DEF Asked
<1>9. Entries(result.groups) = Entries(mirror.groups)
  BY <1>1, <1>3, <1>5, EntitiesCommute
<1>10. Entries(result.shortcuts) = Entries(mirror.shortcuts)
  BY <1>1, <1>3, <1>6, EntitiesCommute
<1>11. result["ids"] = mirror["ids"]
  BY <1>3, <1>8, IdsCommute
<1>12. \A f \in Scalars : result[f] = mirror[f]
  BY <1>4, <1>7, ScalarCommutes
<1> QED
  BY <1>9, <1>10, <1>11, <1>12 DEF result, mirror

-----------------------------------------------------------------------------
(* Ids and the order on the page *)

\* What the shared profile's schema asks of ids, but for the limits.
Named(p) ==
    /\ UniqueIds(p.groups) /\ UniqueIds(p.shortcuts)
    /\ \A x \in Entries(p.shortcuts) : x.group \in Ids(p.groups)

\* No two live groups, and no two live shortcuts of a group, have one sortIndex.
Ordered(p) ==
    /\ \A x, y \in Live(p.groups) : x.sort = y.sort => x = y
    /\ \A x, y \in Live(p.shortcuts) : x.group = y.group /\ x.sort = y.sort => x = y

LEMMA PlacesNamed ==
    ASSUME NEW p, NEW q, SamePlaces(p, q), Named(p)
    PROVE  /\ Named(q) /\ Ids(q.groups) = Ids(p.groups) /\ Ids(q.shortcuts) = Ids(p.shortcuts)
           /\ Ordered(p) => Ordered(q)
<1>1. q.groups = p.groups /\ DOMAIN q.shortcuts = DOMAIN p.shortcuts
      /\ \A i \in DOMAIN p.shortcuts : OnlyIcon(p.shortcuts[i], q.shortcuts[i])
  BY DEF SamePlaces, Repainted
<1>2. Ids(q.shortcuts) = Ids(p.shortcuts)
  <2>1. \A x : x \in Ids(q.shortcuts) <=> x \in Ids(p.shortcuts)
    BY <1>1 DEF Ids, Entries, OnlyIcon
  <2> QED
    BY <2>1
<1>3. Named(q)
  BY <1>1 DEF Named, UniqueIds, Entries, OnlyIcon
<1>4. ASSUME Ordered(p) PROVE Ordered(q)
  <2>1. ASSUME NEW x \in Live(q.shortcuts), NEW y \in Live(q.shortcuts), x.group = y.group,
               x.sort = y.sort
        PROVE  x = y
    <3>1. PICK i \in DOMAIN p.shortcuts, j \in DOMAIN p.shortcuts :
              /\ x = q.shortcuts[i] /\ y = q.shortcuts[j]
              /\ OnlyIcon(p.shortcuts[i], x) /\ OnlyIcon(p.shortcuts[j], y)
      BY <1>1 DEF Live, Entries
    <3>2. p.shortcuts[i] \in Live(p.shortcuts) /\ p.shortcuts[j] \in Live(p.shortcuts)
      BY <3>1 DEF Live, Entries, OnlyIcon
    <3>3. p.shortcuts[i] = p.shortcuts[j]
      BY <1>4, <2>1, <3>1, <3>2 DEF Ordered, OnlyIcon
    <3>4. i = j
      BY <3>3 DEF Named, UniqueIds
    <3> QED
      BY <3>1, <3>4
  <2> QED
    BY <1>1, <1>4, <2>1 DEF Ordered
<1> QED
  BY <1>1, <1>2, <1>3, <1>4

\* q has what p has, and new entries under ids of N.
Extends(p, q, N) ==
    /\ Named(q)
    /\ Ids(p.groups) \subseteq Ids(q.groups) /\ Ids(q.groups) \subseteq Ids(p.groups) \cup N
    /\ Ids(p.shortcuts) \subseteq Ids(q.shortcuts)
    /\ Ids(q.shortcuts) \subseteq Ids(p.shortcuts) \cup N

LEMMA OneEntry ==
    ASSUME NEW list, UniqueIds(list), NEW x \in Entries(list), NEW y \in Entries(list), x.id = y.id
    PROVE  x = y
  BY DEF UniqueIds, Entries

LEMMA SameNames ==
    ASSUME NEW list, NEW new, DOMAIN new = DOMAIN list,
           \A i \in DOMAIN list : new[i].id = list[i].id
    PROVE  Ids(new) = Ids(list) /\ (UniqueIds(list) => UniqueIds(new))
<1>1. \A x : x \in Ids(new) <=> x \in Ids(list)
  BY DEF Ids, Entries
<1> QED
  BY <1>1 DEF UniqueIds

LEMMA OneMoreName ==
    ASSUME NEW V, NEW list \in Seq(V), NEW x \in V, x.id \notin Ids(list), UniqueIds(list)
    PROVE  Ids(Append(list, x)) = Ids(list) \cup {x.id} /\ UniqueIds(Append(list, x))
<1> DEFINE new == Append(list, x)
           n == Len(list)
<1>1. n \in Nat /\ DOMAIN list = 1 .. n
  BY LenProperties
<1>2. DOMAIN new = 1 .. (n + 1) /\ new[n + 1] = x /\ \A i \in 1 .. n : new[i] = list[i]
  BY AppendProperties, LenProperties
<1>3. Entries(new) = Entries(list) \cup {x}
  BY LongerList
<1> HIDE DEF new, n
<1>4. Ids(new) = Ids(list) \cup {x.id}
  BY <1>3 DEF Ids
<1>5. \A i \in 1 .. n : list[i].id # x.id
  BY <1>1 DEF Ids, Entries
<1>6. ASSUME NEW i \in 1 .. (n + 1), NEW j \in 1 .. (n + 1), new[i].id = new[j].id
      PROVE  i = j
  <2>1. CASE i \in 1 .. n /\ j \in 1 .. n
    BY <1>1, <1>2, <1>6, <2>1 DEF UniqueIds
  <2>2. CASE i = n + 1 /\ j \in 1 .. n
    BY <1>2, <1>5, <1>6, <2>2
  <2>3. CASE i \in 1 .. n /\ j = n + 1
    BY <1>2, <1>5, <1>6, <2>3
  <2> QED
    BY <1>1, <2>1, <2>2, <2>3
<1> QED
  BY <1>2, <1>4, <1>6 DEF UniqueIds, new

\* No id is used twice when there are as many ids as entries.
LEMMA UniqueCounts ==
    ASSUME NEW V, NEW list \in Seq(V)
    PROVE  Cardinality(Ids(list)) = Len(list) <=> UniqueIds(list)
<1> DEFINE I == DOMAIN list
           f == [i \in I |-> list[i].id]
<1>1. Len(list) \in Nat /\ I = 1 .. Len(list)
  BY LenProperties
<1>2. IsFiniteSet(I) /\ Cardinality(I) = Len(list)
  BY <1>1, FS_Interval
<1>3. Ids(list) = {f[i] : i \in I}
  BY DEF Ids, Entries
<1>4. f \in Surjection(I, Ids(list))
  BY <1>3 DEF Surjection
<1>5. Cardinality(Ids(list)) = Cardinality(I) <=> f \in Injection(I, Ids(list))
  BY <1>2, <1>4, FS_Surjection
<1>6. f \in Injection(I, Ids(list)) <=> UniqueIds(list)
  BY <1>4 DEF Injection, Surjection, IsInjective, UniqueIds
<1> QED
  BY <1>2, <1>5, <1>6

\* Places on the page: of entries with ids of their own, each has its own.
LEMMA RankGrows ==
    ASSUME NEW S, IsFiniteSet(S), \A z \in S : z.id \in Int /\ z.sort \in Int,
           NEW x \in S, NEW y \in S, Before(x, y)
    PROVE  Rank(x, S) < Rank(y, S)
<1> DEFINE X == {z \in S : Before(z, x)}
           Y == {z \in S : Before(z, y)}
<1>1. X \subseteq Y
  BY DEF Before
<1>2. x \in Y /\ x \notin X
  BY DEF Before
<1>3. IsFiniteSet(X) /\ IsFiniteSet(Y)
  BY FS_Subset
<1>4. Cardinality(X) < Cardinality(Y)
  BY <1>1, <1>2, <1>3, FS_Subset, FS_CardinalityType
<1> QED
  BY <1>4 DEF Rank

LEMMA RanksApart ==
    ASSUME NEW V, NEW list \in Seq(Shortcut(V)), UniqueIds(list), NEW S \in SUBSET Entries(list),
           NEW x \in S, NEW y \in S, Rank(x, S) = Rank(y, S)
    PROVE  x = y
<1>1. IsFiniteSet(S) /\ S \in SUBSET Shortcut(V)
  BY EntriesFinite, FS_Subset
<1>2. \A z \in S : z.id \in Int /\ z.sort \in Int
  BY <1>1 DEF Shortcut
<1>3. SUFFICES ASSUME x # y PROVE FALSE
  OBVIOUS
<1>4. x.id # y.id
  BY <1>3, OneEntry
<1>5. Before(x, y) \/ Before(y, x)
  BY <1>2, <1>4 DEF Before
<1>6. Rank(x, S) < Rank(y, S) \/ Rank(y, S) < Rank(x, S)
  BY <1>1, <1>2, <1>5, RankGrows
<1>7. Rank(x, S) \in Nat
  BY RankIsNumber
<1> QED
  BY <1>6, <1>7

\* What comes behind all of a set.
LEMMA NextSortIsLast ==
    ASSUME NEW S, IsFiniteSet(S), \A x \in S : x.sort \in Int
    PROVE  NextSort(S) \in Nat /\ \A x \in S : x.sort < NextSort(S)
<1> DEFINE T == {x.sort : x \in S} \cup {-1}
<1>1. IsFiniteSet(T)
  <2> DEFINE f == [x \in S |-> x.sort]
  <2>1. f \in Surjection(S, {x.sort : x \in S})
    BY DEF Surjection
  <2> QED
    BY <2>1, FS_Surjection, FS_AddElement
<1>2. T \in SUBSET Int /\ T # {}
  OBVIOUS
<1>3. Max(T) \in T /\ \A n \in T : Max(T) >= n
  BY <1>1, <1>2, MaxIsThere
<1>4. NextSort(S) = Max(T) + 1
  BY DEF NextSort
<1>5. \A x \in S : x.sort \in T
  OBVIOUS
<1>6. -1 \in T
  OBVIOUS
<1> HIDE DEF T
<1>7. PICK m \in Int : m = Max(T) /\ \A n \in T : m >= n
  BY <1>2, <1>3
<1>8. m >= -1 /\ \A x \in S : m >= x.sort
  BY <1>5, <1>6, <1>7
<1> QED
  BY <1>4, <1>7, <1>8

LEMMA UpsertOrders ==
    ASSUME NEW V, NEW p \in Profile(V), Named(p), NEW now \in V,
           NEW input, input.id \in Int, input.group \in Ids(p.groups), input.url \in V, input.icon \in V
    PROVE  LET q == UpsertShortcut(p, input, now)
           IN Extends(p, q, {input.id}) /\ (Ordered(p) => Ordered(q))
<1> DEFINE existing == {s \in Entries(p.shortcuts) : s.id = input.id}
           stayed == {s \in existing : s.group = input.group}
           next == [id |-> input.id, group |-> input.group, url |-> input.url, icon |-> input.icon,
                    sort |-> IF stayed = {} THEN NextSort(LiveIn(p, input.group))
                             ELSE ById(p.shortcuts, input.id).sort,
                    at |-> now, del |-> FALSE]
           list == IF existing = {} THEN Append(p.shortcuts, next)
                   ELSE Revise(p.shortcuts, input.id, LAMBDA s : next)
           touched == {input.group} \cup {s.group : s \in existing}
           mates(s) == {t \in Live(list) : t.group = s.group}
           rank(s) == Rank(s, mates(s))
           result == ReviseAll(list, LAMBDA s :
                        IF s.del \/ s.group \notin touched THEN s
                        ELSE Placed(s, s.group, Rank(s, mates(s)), now))
           q == [p EXCEPT !.shortcuts = result]
<1>1. p.shortcuts \in Seq(Shortcut(V)) /\ Entries(p.shortcuts) \in SUBSET Shortcut(V)
      /\ p.groups \in Seq(Group(V)) /\ Entries(p.groups) \in SUBSET Group(V)
  BY EntriesFinite DEF Profile
<1>2. input.group \in Int
  BY <1>1 DEF Ids, Group
<1>3. next \in Shortcut(V)
  <2>1. NextSort(LiveIn(p, input.group)) \in Int
    BY SubsetOfEntries DEF LiveIn, Live
  <2>2. existing # {} => ById(p.shortcuts, input.id) \in Entries(p.shortcuts)
    BY DEF ById
  <2>3. stayed # {} => ById(p.shortcuts, input.id).sort \in Int
    BY <1>1, <2>2 DEF Shortcut
  <2> QED
    BY <1>2, <2>1, <2>3 DEF Shortcut
<1>4. next.id = input.id /\ next.group = input.group
  OBVIOUS
<1> HIDE DEF next
<1>5. UniqueIds(p.shortcuts) /\ UniqueIds(p.groups)
      /\ \A x \in Entries(p.shortcuts) : x.group \in Ids(p.groups)
  BY DEF Named
<1>6. /\ list \in Seq(Shortcut(V)) /\ UniqueIds(list)
      /\ Ids(list) = Ids(p.shortcuts) \cup {input.id}
      /\ \A x \in Entries(list) : x = next \/ x \in Entries(p.shortcuts)
  <2>1. CASE existing = {}
    <3>1. next.id \notin Ids(p.shortcuts)
      BY <1>4, <2>1 DEF Ids
    <3>2. LET new == Append(p.shortcuts, next)
          IN Ids(new) = Ids(p.shortcuts) \cup {next.id} /\ UniqueIds(new)
      BY <1>1, <1>3, <1>5, <3>1, OneMoreName
    <3> QED
      BY <1>1, <1>3, <1>4, <2>1, <3>2, LongerList
  <2>2. CASE existing # {}
    <3> DEFINE f == Revise(p.shortcuts, input.id, LAMBDA s : next)
    <3>1. f = [i \in DOMAIN p.shortcuts |->
                 IF p.shortcuts[i].id = input.id THEN next ELSE p.shortcuts[i]]
      BY DEF Revise
    <3>2. \A i \in DOMAIN p.shortcuts : f[i] = next \/ f[i] \in Entries(p.shortcuts)
      BY <3>1 DEF Entries
    <3>3. f \in [DOMAIN p.shortcuts -> Shortcut(V)]
      BY <1>1, <1>3, <3>1 DEF Entries
    <3>4. \A i \in DOMAIN p.shortcuts : f[i].id = p.shortcuts[i].id
      BY <1>4, <3>1
    <3> HIDE DEF f
    <3>5. f \in Seq(Shortcut(V)) /\ DOMAIN f = DOMAIN p.shortcuts
      BY <1>1, <3>3, RevisedList
    <3>6. Ids(f) = Ids(p.shortcuts) /\ UniqueIds(f)
      BY <1>5, <3>4, <3>5, SameNames
    <3>7. input.id \in Ids(p.shortcuts)
      BY <2>2 DEF Ids
    <3> QED
      BY <2>2, <3>2, <3>5, <3>6, <3>7 DEF f, Entries
  <2> QED
    BY <2>1, <2>2
<1> HIDE DEF list, existing
<1>7. result = [i \in DOMAIN list |->
                  IF list[i].del \/ list[i].group \notin touched THEN list[i]
                  ELSE Placed(list[i], list[i].group, rank(list[i]), now)]
  BY DEF ReviseAll
<1>8. ASSUME NEW i \in DOMAIN list
      PROVE  /\ list[i] \in Shortcut(V)
             /\ result[i].id = list[i].id /\ result[i].group = list[i].group
             /\ result[i].del = list[i].del
             /\ ~list[i].del /\ list[i].group \in touched => result[i].sort = rank(list[i])
             /\ ~(~list[i].del /\ list[i].group \in touched) => result[i] = list[i]
  <2>1. list[i] \in Shortcut(V)
    BY <1>6, LenProperties
  <2> DEFINE n == rank(list[i])
  <2>2. n \in Nat
    BY <1>6, RankIsNumber DEF Live
  <2>3. list[i].group \in Int
    BY <2>1 DEF Shortcut
  <2> HIDE DEF n
  <2>4. n \in Int
    BY <2>2
  <2>5. LET t == Placed(list[i], list[i].group, n, now)
        IN /\ t \in Shortcut(V) /\ t.id = list[i].id /\ t.group = list[i].group
           /\ t.del = list[i].del /\ t.sort = n
    BY <2>1, <2>3, <2>4, PlacedIsShortcut
  <2> QED
    BY <1>7, <2>1, <2>5 DEF n
<1>9. DOMAIN result = DOMAIN list
  BY <1>7
<1> HIDE DEF result, touched
<1>10. q.groups = p.groups /\ q.shortcuts = result
  BY DEF Profile
<1>11. Ids(result) = Ids(p.shortcuts) \cup {input.id} /\ UniqueIds(result)
  BY <1>6, <1>8, <1>9, SameNames
<1>12. \A x \in Entries(result) : x.group \in Ids(p.groups)
  <2> SUFFICES ASSUME NEW i \in DOMAIN list PROVE result[i].group \in Ids(p.groups)
    BY <1>9 DEF Entries
  <2>1. list[i] = next \/ list[i] \in Entries(p.shortcuts)
    BY <1>6 DEF Entries
  <2> QED
    BY <1>4, <1>5, <1>8, <2>1
<1>13. Extends(p, q, {input.id})
  BY <1>5, <1>10, <1>11, <1>12 DEF Extends, Named
<1>14. ASSUME Ordered(p), NEW x \in Live(result), NEW y \in Live(result),
              x.group = y.group, x.sort = y.sort
       PROVE  x = y
  <2>1. PICK i \in DOMAIN list : x = result[i]
    BY <1>9 DEF Live, Entries
  <2>2. PICK j \in DOMAIN list : y = result[j]
    BY <1>9 DEF Live, Entries
  <2> DEFINE s == list[i]
             t == list[j]
  <2>3. ~s.del /\ ~t.del /\ s.group = t.group
    BY <1>8, <1>14, <2>1, <2>2 DEF Live
  <2>4. s \in Live(list) /\ t \in Live(list)
    BY <2>3 DEF Live, Entries
  <2>5. CASE s.group \in touched
    <3>1. rank(s) = rank(t)
      BY <1>8, <1>14, <2>1, <2>2, <2>3, <2>5
    <3>2. mates(t) = mates(s) /\ s \in mates(s) /\ t \in mates(s) /\ mates(s) \in SUBSET Entries(list)
      BY <2>3, <2>4 DEF Live
    <3> HIDE DEF mates, s, t
    <3>3. s = t
      BY <1>6, <3>1, <3>2, RanksApart
    <3>4. i = j
      BY <1>6, <3>3 DEF s, t, UniqueIds
    <3> QED
      BY <2>1, <2>2, <3>4
  <2>6. CASE s.group \notin touched
    <3>1. x = s /\ y = t
      BY <1>8, <2>1, <2>2, <2>3, <2>6
    <3>2. s # next /\ t # next
      BY <1>4, <2>3, <2>6 DEF touched
    <3>3. s \in Live(p.shortcuts) /\ t \in Live(p.shortcuts)
      BY <1>6, <2>3, <3>2 DEF Live, Entries
    <3> QED
      BY <1>14, <3>1, <3>3 DEF Ordered
  <2> QED
    BY <2>5, <2>6
<1>15. Ordered(p) => Ordered(q)
  BY <1>10, <1>14 DEF Ordered
<1>16. q = UpsertShortcut(p, input, now)
  BY DEF UpsertShortcut, result, list, next, existing, touched
<1> HIDE DEF q
<1> QED
  BY <1>13, <1>15, <1>16
\* An edit of each of the shortcuts, or of each of the groups, that leaves ids.
LEMMA SameShortcuts ==
    ASSUME NEW p, Named(p), NEW q, q.groups = p.groups, DOMAIN q.shortcuts = DOMAIN p.shortcuts,
           \A i \in DOMAIN p.shortcuts :
              /\ q.shortcuts[i].id = p.shortcuts[i].id
              /\ \/ q.shortcuts[i].group = p.shortcuts[i].group
                 \/ q.shortcuts[i].group \in Ids(p.groups)
    PROVE  Extends(p, q, {})
<1>1. Ids(q.shortcuts) = Ids(p.shortcuts) /\ UniqueIds(q.shortcuts)
  BY SameNames DEF Named
<1>2. \A x \in Entries(q.shortcuts) : x.group \in Ids(p.groups)
  BY DEF Named, Entries
<1> QED
  BY <1>1, <1>2 DEF Extends, Named

LEMMA SameGroups ==
    ASSUME NEW p, Named(p), NEW q, q.shortcuts = p.shortcuts, DOMAIN q.groups = DOMAIN p.groups,
           \A i \in DOMAIN p.groups : q.groups[i].id = p.groups[i].id
    PROVE  Extends(p, q, {})
<1>1. Ids(q.groups) = Ids(p.groups) /\ UniqueIds(q.groups)
  BY SameNames DEF Named
<1> QED
  BY <1>1 DEF Extends, Named

\* What moveShortcut does to a shortcut s, which becomes t: the others of the group
\* it is moved to make room at its slot, those of the group it leaves close the gap.
Others(p, id, dest) == LiveIn(p, dest) \ {ById(p.shortcuts, id)}
LeftBy(p, id) == LiveIn(p, ById(p.shortcuts, id).group) \ {ById(p.shortcuts, id)}

Slot(p, id, dest, target) ==
    LET source == ById(p.shortcuts, id)
        others == Others(p, id, dest)
    IN IF {s \in others : s.id = target} = {} THEN Cardinality(others)
       ELSE LET t == ById(p.shortcuts, target)
            IN Rank(t, others) + (IF source.group = dest /\ Before(source, t) THEN 1 ELSE 0)

Shifted(s, others, slot) == Rank(s, others) + (IF Rank(s, others) < slot THEN 0 ELSE 1)

MovedTo(p, id, dest, slot, s, t) ==
    LET source == ById(p.shortcuts, id)
        others == Others(p, id, dest)
    IN /\ t.id = s.id /\ t.del = s.del
       /\ s = source => t.group = dest /\ t.sort = slot
       /\ s \in others => t.group = dest /\ t.sort = Shifted(s, others, slot)
       /\ s \in LeftBy(p, id) /\ s \notin others =>
             t.group = s.group /\ t.sort = Rank(s, LeftBy(p, id))
       /\ s # source /\ s \notin others /\ s \notin LeftBy(p, id) => t = s

\* f says what each shortcut becomes.
Moved(p, q, id, dest, target, f) ==
    /\ ById(p.shortcuts, id) \in Live(p.shortcuts) /\ ById(p.shortcuts, id).id = id
    /\ dest \in LiveIds(p.groups) /\ Slot(p, id, dest, target) \in Int
    /\ q.groups = p.groups
    /\ q.shortcuts = [i \in DOMAIN p.shortcuts |-> f[p.shortcuts[i]]]
    /\ \A s \in Entries(p.shortcuts) : MovedTo(p, id, dest, Slot(p, id, dest, target), s, f[s])

LEMMA MoveMoves ==
    ASSUME NEW V, NEW p \in Profile(V), Named(p), NEW id, NEW dest \in Int, NEW target, NEW now \in V
    PROVE  LET q == MoveShortcut(p, id, dest, target, now)
           IN q = p \/ \E f : Moved(p, q, id, dest, target, f)
<1> DEFINE source == ById(p.shortcuts, id)
           left_ == LeftBy(p, id)
           others == Others(p, id, dest)
           slot == Slot(p, id, dest, target)
           place(s) ==
              IF s = source THEN Placed(s, dest, slot, now)
              ELSE IF s \in others
              THEN Placed(s, dest, Rank(s, others) + (IF Rank(s, others) < slot THEN 0 ELSE 1), now)
              ELSE IF s \in left_ THEN Placed(s, s.group, Rank(s, left_), now)
              ELSE s
           f == [s \in Entries(p.shortcuts) |-> place(s)]
           L == ReviseAll(p.shortcuts, place)
           q == [p EXCEPT !.shortcuts = L]
<1>0. p.shortcuts \in Seq(Shortcut(V)) /\ UniqueIds(p.shortcuts)
  BY DEF Profile, Named
<1>1. CASE id \notin {s.id : s \in Live(p.shortcuts)} \/ dest \notin {g.id : g \in Live(p.groups)}
  BY <1>1 DEF MoveShortcut
<1>2. CASE id \in {s.id : s \in Live(p.shortcuts)} /\ dest \in {g.id : g \in Live(p.groups)}
  <2>1. source \in Live(p.shortcuts) /\ source.id = id
    <3>1. PICK s \in Live(p.shortcuts) : s.id = id
      BY <1>2
    <3>2. s \in Entries(p.shortcuts)
      BY DEF Live
    <3>3. source \in Entries(p.shortcuts) /\ source.id = id
      BY <3>1, <3>2 DEF ById
    <3>4. source = s
      BY <1>0, <3>1, <3>2, <3>3, OneEntry
    <3> QED
      BY <3>1, <3>4
  <2>2. others \in SUBSET Entries(p.shortcuts) /\ left_ \in SUBSET Entries(p.shortcuts)
    BY DEF LiveIn, Live, Others, LeftBy
  <2>3. \A x : Rank(x, others) \in Nat /\ Rank(x, left_) \in Nat /\ Cardinality(others) \in Nat
    BY <1>0, <2>2, RankIsNumber
  <2>4. slot \in Int
    <3> HIDE DEF source, others, left_
    <3> QED
      BY <2>3 DEF Slot, others
  <2>5. source \notin others /\ source \notin left_ /\ \A s \in others : s.group = dest
    BY DEF LiveIn, Others, LeftBy
  <2>6. MoveShortcut(p, id, dest, target, now) = q
    BY <1>2 DEF MoveShortcut, Others, LeftBy, Slot
  <2> HIDE DEF slot, others, left_, source
  <2>7. \A x : Shifted(x, others, slot) \in Int
    BY <2>3, <2>4 DEF Shifted
  <2>9. ASSUME NEW s \in Entries(p.shortcuts)
        PROVE  /\ place(s).id = s.id /\ place(s).del = s.del
               /\ s = source => place(s).group = dest /\ place(s).sort = slot
               /\ s \in others => place(s).group = dest /\ place(s).sort = Shifted(s, others, slot)
               /\ s \in left_ /\ s \notin others =>
                    place(s).group = s.group /\ place(s).sort = Rank(s, left_)
               /\ s # source /\ s \notin others /\ s \notin left_ => place(s) = s
    <3>1. s \in Shortcut(V) /\ s.group \in Int
      <4>1. s \in Shortcut(V)
        BY <1>0, EntriesFinite
      <4> QED
        BY <4>1 DEF Shortcut
    <3>2. CASE s = source
      <4>1. LET t == Placed(s, dest, slot, now)
            IN t \in Shortcut(V) /\ t.id = s.id /\ t.group = dest /\ t.del = s.del /\ t.sort = slot
        BY <2>4, <3>1, PlacedIsShortcut
      <4> QED
        BY <2>5, <3>2, <4>1
    <3>3. CASE s \in others
      <4> DEFINE n == Shifted(s, others, slot)
      <4>1. n \in Int
        BY <2>7
      <4>2. place(s) = Placed(s, dest, n, now)
        BY <2>5, <3>3 DEF Shifted
      <4> HIDE DEF n
      <4>3. LET t == Placed(s, dest, n, now)
            IN t \in Shortcut(V) /\ t.id = s.id /\ t.group = dest /\ t.del = s.del /\ t.sort = n
        BY <3>1, <4>1, PlacedIsShortcut
      <4> HIDE DEF place
      <4> QED
        BY <2>5, <3>3, <4>2, <4>3 DEF n
    <3>4. CASE s # source /\ s \notin others /\ s \in left_
      <4> DEFINE n == Rank(s, left_)
      <4>1. n \in Int
        BY <2>3
      <4>2. place(s) = Placed(s, s.group, n, now)
        BY <3>4
      <4> HIDE DEF n
      <4>3. LET t == Placed(s, s.group, n, now)
            IN t \in Shortcut(V) /\ t.id = s.id /\ t.group = s.group /\ t.del = s.del /\ t.sort = n
        BY <3>1, <4>1, PlacedIsShortcut
      <4> HIDE DEF place
      <4> QED
        BY <3>4, <4>2, <4>3 DEF n
    <3>5. CASE s # source /\ s \notin others /\ s \notin left_
      BY <3>5
    <3> HIDE DEF place
    <3> QED
      BY <2>5, <3>2, <3>3, <3>4, <3>5
  <2>10. L = [i \in DOMAIN p.shortcuts |-> place(p.shortcuts[i])]
    BY DEF ReviseAll
  <2> HIDE DEF place
  <2>11. \A s \in Entries(p.shortcuts) : f[s] = place(s)
    OBVIOUS
  <2>12. q.groups = p.groups /\ q.shortcuts = L
    <3> HIDE DEF L
    <3> QED
      BY DEF Profile
  <2>13. q.shortcuts = [i \in DOMAIN p.shortcuts |-> f[p.shortcuts[i]]]
    <3>1. \A i \in DOMAIN p.shortcuts : p.shortcuts[i] \in Entries(p.shortcuts)
      BY DEF Entries
    <3> HIDE DEF L, f, q
    <3> QED
      BY <2>10, <2>11, <2>12, <3>1
  <2>14. \A s \in Entries(p.shortcuts) : MovedTo(p, id, dest, slot, s, f[s])
    <3> HIDE DEF f
    <3> QED
      BY <2>9, <2>11 DEF MovedTo, source, others, left_
  <2>15. dest \in LiveIds(p.groups)
    BY <1>2 DEF LiveIds
  <2>16. Moved(p, q, id, dest, target, f)
    <3> HIDE DEF q, f
    <3> QED
      BY <2>1, <2>4, <2>12, <2>13, <2>14, <2>15 DEF Moved, source, slot
  <2> HIDE DEF q, f
  <2> QED
    BY <2>6, <2>16
<1> QED
  BY <1>1, <1>2

LEMMA MoveOrders ==
    ASSUME NEW V, NEW p \in Profile(V), Named(p), NEW id, NEW dest \in Int, NEW target, NEW now \in V
    PROVE  LET q == MoveShortcut(p, id, dest, target, now)
           IN Extends(p, q, {}) /\ (Ordered(p) => Ordered(q))
<1> DEFINE source == ById(p.shortcuts, id)
           left_ == LeftBy(p, id)
           others == Others(p, id, dest)
           slot == Slot(p, id, dest, target)
           shifted(s) == Shifted(s, others, slot)
<1>0. p.shortcuts \in Seq(Shortcut(V)) /\ UniqueIds(p.shortcuts)
  BY DEF Profile, Named
<1>1. PICK q : q = MoveShortcut(p, id, dest, target, now)
  OBVIOUS
<1>2. CASE q = p
  BY <1>1, <1>2 DEF Extends
<1>3. CASE q # p
  <2>1. PICK f : Moved(p, q, id, dest, target, f)
    <3>1. q = p \/ \E f : Moved(p, q, id, dest, target, f)
      BY <1>1, MoveMoves
    <3> QED
      BY <1>3, <3>1
  <2> DEFINE place(s) == f[s]
  <2>2. others \in SUBSET Entries(p.shortcuts) /\ left_ \in SUBSET Entries(p.shortcuts)
    BY DEF LiveIn, Live, Others, LeftBy
  <2>3. \A x : Rank(x, others) \in Nat /\ Rank(x, left_) \in Nat /\ Cardinality(others) \in Nat
    BY <1>0, <2>2, RankIsNumber
  <2>4. slot \in Int
    BY <2>1 DEF Moved
  <2>5. /\ \A x : x \in others <=> x \in Live(p.shortcuts) /\ x.group = dest /\ x # source
        /\ \A x : x \in left_ <=> x \in Live(p.shortcuts) /\ x.group = source.group /\ x # source
    BY DEF LiveIn, Others, LeftBy
  <2>6. dest \in Ids(p.groups)
    BY <2>1 DEF Moved, Ids, Live, LiveIds
  <2>9. ASSUME NEW s \in Entries(p.shortcuts)
        PROVE  /\ place(s).id = s.id /\ place(s).del = s.del
               /\ s = source => place(s).group = dest /\ place(s).sort = slot
               /\ s \in others => place(s).group = dest /\ place(s).sort = shifted(s)
               /\ s \in left_ /\ s \notin others =>
                    place(s).group = s.group /\ place(s).sort = Rank(s, left_)
               /\ s # source /\ s \notin others /\ s \notin left_ => place(s) = s
    BY <2>1 DEF Moved, MovedTo
  <2>10. /\ q.groups = p.groups
         /\ q.shortcuts = [i \in DOMAIN p.shortcuts |-> place(p.shortcuts[i])]
    BY <2>1 DEF Moved
  <2> HIDE DEF slot, others, left_, source
  <2>7. \A x : shifted(x) \in Int /\ shifted(x) # slot
    BY <2>3, <2>4 DEF Shifted
  <2>8. \A x, y : shifted(x) = shifted(y) => Rank(x, others) = Rank(y, others)
    BY <2>3, <2>4 DEF Shifted
  <2> HIDE DEF place, shifted
  <2> DEFINE L == q.shortcuts
  <2>11. q.groups = p.groups /\ q.shortcuts = L
    BY <2>10
  <2>12. Extends(p, q, {})
    <3>1. \A i \in DOMAIN p.shortcuts :
              L[i].id = p.shortcuts[i].id
              /\ (L[i].group = p.shortcuts[i].group \/ L[i].group \in Ids(p.groups))
      BY <2>6, <2>9, <2>10 DEF Entries
    <3> QED
      BY <2>10, <2>11, <3>1, SameShortcuts
  <2>13. ASSUME Ordered(p), NEW s \in Entries(p.shortcuts), NEW t \in Entries(p.shortcuts),
                ~place(s).del, ~place(t).del,
                place(s).group = place(t).group, place(s).sort = place(t).sort
         PROVE  s = t
    <3>1. s \in Live(p.shortcuts) /\ t \in Live(p.shortcuts)
      BY <2>9, <2>13 DEF Live
    <3>2. \A x \in Live(p.shortcuts) : place(x).group = dest <=> x = source \/ x \in others
      BY <2>5, <2>9 DEF Live
    <3>3. CASE place(s).group = dest
      <4>1. (s = source \/ s \in others) /\ (t = source \/ t \in others)
        BY <2>13, <3>1, <3>2, <3>3
      <4>2. CASE s \in others /\ t \in others
        <5>1. Rank(s, others) = Rank(t, others)
          BY <2>8, <2>9, <2>13, <4>2
        <5> QED
          BY <1>0, <2>2, <4>2, <5>1, RanksApart
      <4>3. CASE s = source /\ t = source
        BY <4>3
      <4>4. CASE (s = source /\ t \in others) \/ (t = source /\ s \in others)
        BY <2>7, <2>9, <2>13, <4>4
      <4> QED
        BY <4>1, <4>2, <4>3, <4>4
    <3>4. CASE place(s).group # dest
      <4>1. s # source /\ s \notin others /\ t # source /\ t \notin others
        BY <2>13, <3>1, <3>2, <3>4
      <4>2. place(s).group = s.group /\ place(t).group = t.group
        BY <2>9, <4>1
      <4>3. s \in left_ <=> t \in left_
        BY <2>5, <2>13, <3>1, <4>1, <4>2
      <4>4. CASE s \in left_
        <5>1. Rank(s, left_) = Rank(t, left_)
          BY <2>9, <2>13, <4>1, <4>3, <4>4
        <5> QED
          BY <1>0, <2>2, <4>3, <4>4, <5>1, RanksApart
      <4>5. CASE s \notin left_
        <5>1. place(s) = s /\ place(t) = t
          BY <2>9, <4>1, <4>3, <4>5
        <5> QED
          BY <2>13, <3>1, <5>1 DEF Ordered
      <4> QED
        BY <4>4, <4>5
    <3> QED
      BY <3>3, <3>4
  <2>14. ASSUME Ordered(p) PROVE Ordered(q)
    <3>1. ASSUME NEW x \in Live(L), NEW y \in Live(L), x.group = y.group, x.sort = y.sort
          PROVE  x = y
      <4>1. PICK s \in Entries(p.shortcuts) : x = place(s)
        BY <2>10 DEF Live, Entries
      <4>2. PICK t \in Entries(p.shortcuts) : y = place(t)
        BY <2>10 DEF Live, Entries
      <4>3. ~x.del /\ ~y.del
        BY DEF Live
      <4> QED
        BY <2>13, <2>14, <3>1, <4>1, <4>2, <4>3
    <3> QED
      BY <2>11, <2>14, <3>1 DEF Ordered
  <2> QED
    BY <1>1, <2>12, <2>14
<1> QED
  BY <1>2, <1>3

LEMMA DeleteOrders ==
    ASSUME NEW V, NEW p \in Profile(V), Named(p), NEW id, NEW now \in V
    PROVE  LET q == DeleteShortcut(p, id, now)
           IN Extends(p, q, {}) /\ (Ordered(p) => Ordered(q))
<1> DEFINE L == Revise(p.shortcuts, id, LAMBDA s : [s EXCEPT !.del = TRUE, !.at = now])
           q == [p EXCEPT !.shortcuts = L]
<1>1. p.shortcuts \in Seq(Shortcut(V))
  BY DEF Profile
<1>2. DOMAIN L = DOMAIN p.shortcuts
      /\ \A i \in DOMAIN p.shortcuts :
            L[i] = IF p.shortcuts[i].id = id THEN [p.shortcuts[i] EXCEPT !.del = TRUE, !.at = now]
                   ELSE p.shortcuts[i]
  BY DEF Revise
<1> HIDE DEF L
<1>3. ASSUME NEW i \in DOMAIN p.shortcuts
      PROVE  /\ L[i].id = p.shortcuts[i].id /\ L[i].group = p.shortcuts[i].group
             /\ ~L[i].del => L[i] = p.shortcuts[i]
  <2> DEFINE s == p.shortcuts[i]
             t == [s EXCEPT !.del = TRUE, !.at = now]
  <2>1. s \in Shortcut(V)
    BY <1>1, ElementOfSeq, LenProperties
  <2>2. L[i] = IF s.id = id THEN t ELSE s
    BY <1>2
  <2> HIDE DEF s
  <2>3. t.id = s.id /\ t.group = s.group /\ t.del
    BY <2>1 DEF Shortcut
  <2> HIDE DEF t
  <2> QED
    BY <2>1, <2>2, <2>3 DEF s
<1>4. q.groups = p.groups /\ q.shortcuts = L
  BY DEF Profile
<1>5. q = DeleteShortcut(p, id, now)
  BY DEF DeleteShortcut, L
<1> HIDE DEF q
<1>6. Extends(p, q, {})
  BY <1>2, <1>3, <1>4, SameShortcuts
<1>7. Live(L) \subseteq Live(p.shortcuts)
  BY <1>2, <1>3 DEF Live, Entries
<1>8. Ordered(p) => Ordered(q)
  BY <1>4, <1>7 DEF Ordered
<1> QED
  BY <1>5, <1>6, <1>8

LEMMA PlacesApart ==
    ASSUME NEW list, \A i, j \in DOMAIN list : ~list[i].del /\ ~list[j].del
                                               /\ list[i].sort = list[j].sort => i = j
    PROVE  \A x, y \in Live(list) : x.sort = y.sort => x = y
<1> SUFFICES ASSUME NEW x \in Live(list), NEW y \in Live(list), x.sort = y.sort PROVE x = y
  OBVIOUS
<1>1. PICK i \in DOMAIN list : x = list[i] /\ ~list[i].del
  BY DEF Live, Entries
<1>2. PICK j \in DOMAIN list : y = list[j] /\ ~list[j].del
  BY DEF Live, Entries
<1> QED
  BY <1>1, <1>2

LEMMA AddGroupOrders ==
    ASSUME NEW V, NEW p \in Profile(V), Named(p), NEW id \in Int, id \notin Ids(p.groups),
           NEW title \in V, NEW now \in V
    PROVE  LET q == AddShortcutGroup(p, id, title, now)
           IN Extends(p, q, {id}) /\ (Ordered(p) => Ordered(q)) /\ q.shortcuts = p.shortcuts
<1> DEFINE x == [id |-> id, title |-> title, sort |-> NextSort(Entries(p.groups)),
                 at |-> now, del |-> FALSE]
           G == Append(p.groups, x)
           q == [p EXCEPT !.groups = G]
<1>1. p.groups \in Seq(Group(V)) /\ UniqueIds(p.groups) /\ UniqueIds(p.shortcuts)
      /\ \A s \in Entries(p.shortcuts) : s.group \in Ids(p.groups)
  BY DEF Profile, Named
<1>2. IsFiniteSet(Entries(p.groups)) /\ Entries(p.groups) \in SUBSET Group(V)
  BY <1>1, EntriesFinite
<1>3. NextSort(Entries(p.groups)) \in Int /\ \A g \in Entries(p.groups) : g.sort < NextSort(Entries(p.groups))
  BY <1>2, NextSortIsLast DEF Group
<1>4. /\ x \in Group(V) /\ x.id = id /\ x.sort \in Int
      /\ \A g \in Entries(p.groups) : g.sort \in Int /\ g.sort < x.sort
  BY <1>2, <1>3 DEF Group
<1>5. q = AddShortcutGroup(p, id, title, now)
  BY DEF AddShortcutGroup
<1> HIDE DEF x
<1>6. Entries(G) = Entries(p.groups) \cup {x}
  BY <1>1, <1>4, LongerList
<1>7. Ids(G) = Ids(p.groups) \cup {id} /\ UniqueIds(G)
  BY <1>1, <1>4, OneMoreName
<1> HIDE DEF G
<1>8. q.groups = G /\ q.shortcuts = p.shortcuts
  BY DEF Profile
<1> HIDE DEF q
<1>9. Extends(p, q, {id})
  BY <1>1, <1>7, <1>8 DEF Extends, Named
<1>10. ASSUME Ordered(p), NEW g \in Live(G), NEW h \in Live(G), g.sort = h.sort PROVE g = h
  <2>1. (g = x \/ g \in Live(p.groups)) /\ (h = x \/ h \in Live(p.groups))
    BY <1>6 DEF Live
  <2>2. \A y \in Live(p.groups) : y.sort # x.sort
    BY <1>4 DEF Live
  <2> QED
    BY <1>10, <2>1, <2>2 DEF Ordered
<1>11. Ordered(p) => Ordered(q)
  BY <1>8, <1>10 DEF Ordered
<1> QED
  BY <1>5, <1>8, <1>9, <1>11

LEMMA RenameOrders ==
    ASSUME NEW V, NEW p \in Profile(V), Named(p), NEW id, NEW title \in V, NEW now \in V
    PROVE  LET q == RenameShortcutGroup(p, id, title, now)
           IN Extends(p, q, {}) /\ (Ordered(p) => Ordered(q))
<1> DEFINE G == Revise(p.groups, id, LAMBDA g : [g EXCEPT !.title = title, !.at = now])
           q == [p EXCEPT !.groups = G]
<1>1. p.groups \in Seq(Group(V)) /\ UniqueIds(p.groups)
  BY DEF Profile, Named
<1>2. DOMAIN G = DOMAIN p.groups
      /\ \A i \in DOMAIN p.groups :
           G[i] = IF p.groups[i].id = id THEN [p.groups[i] EXCEPT !.title = title, !.at = now]
                  ELSE p.groups[i]
  BY DEF Revise
<1> HIDE DEF G
<1>3. ASSUME NEW i \in DOMAIN p.groups
      PROVE  G[i].id = p.groups[i].id /\ G[i].del = p.groups[i].del /\ G[i].sort = p.groups[i].sort
  <2> DEFINE g == p.groups[i]
             h == [g EXCEPT !.title = title, !.at = now]
  <2>1. g \in Group(V)
    BY <1>1, ElementOfSeq, LenProperties
  <2>2. G[i] = IF g.id = id THEN h ELSE g
    BY <1>2
  <2> HIDE DEF g
  <2>3. h.id = g.id /\ h.del = g.del /\ h.sort = g.sort
    BY <2>1 DEF Group
  <2> HIDE DEF h
  <2> QED
    BY <2>1, <2>2, <2>3 DEF g
<1>4. q.groups = G /\ q.shortcuts = p.shortcuts
  BY DEF Profile
<1>5. q = RenameShortcutGroup(p, id, title, now)
  BY DEF RenameShortcutGroup, G
<1> HIDE DEF q
<1>6. Extends(p, q, {})
  BY <1>2, <1>3, <1>4, SameGroups
<1>7. ASSUME Ordered(p), NEW i \in DOMAIN p.groups, NEW j \in DOMAIN p.groups,
             ~G[i].del, ~G[j].del, G[i].sort = G[j].sort
      PROVE  i = j
  <2>1. p.groups[i] \in Live(p.groups) /\ p.groups[j] \in Live(p.groups)
    BY <1>3, <1>7 DEF Live, Entries
  <2>2. p.groups[i] = p.groups[j]
    BY <1>3, <1>7, <2>1 DEF Ordered
  <2> QED
    BY <1>1, <2>2 DEF UniqueIds
<1>8. ASSUME Ordered(p) PROVE \A g, h \in Live(G) : g.sort = h.sort => g = h
  BY <1>2, <1>7, <1>8, PlacesApart
<1>9. Ordered(p) => Ordered(q)
  BY <1>4, <1>8 DEF Ordered
<1> QED
  BY <1>5, <1>6, <1>9

LEMMA SwapOrders ==
    ASSUME NEW V, NEW p \in Profile(V), Named(p), NEW now \in V,
           NEW g \in Live(p.groups), NEW h \in Live(p.groups)
    PROVE  LET q == SwapShortcutGroupOrder(p, g.id, h.id, now)
           IN Extends(p, q, {}) /\ (Ordered(p) => Ordered(q))
<1> DEFINE pair == {x \in Entries(p.groups) : x.id \in {g.id, h.id}}
           other(x) == CHOOSE y \in pair : y # x
           G == ReviseAll(p.groups, LAMBDA x :
                    IF x \in pair THEN [x EXCEPT !.sort = other(x).sort, !.at = now] ELSE x)
           q == [p EXCEPT !.groups = G]
<1>1. p.groups \in Seq(Group(V)) /\ UniqueIds(p.groups)
  BY DEF Profile, Named
<1>2. g \in Entries(p.groups) /\ h \in Entries(p.groups) /\ pair = {g, h}
  <2>1. g \in Entries(p.groups) /\ h \in Entries(p.groups)
    BY DEF Live
  <2>2. \A x \in pair : x = g \/ x = h
    BY <1>1, <2>1, OneEntry
  <2> QED
    BY <2>1, <2>2
<1>3. CASE g = h
  <2>1. Cardinality(pair) = 1
    BY <1>2, <1>3, FS_Singleton
  <2>2. SwapShortcutGroupOrder(p, g.id, h.id, now) = p
    BY <2>1 DEF SwapShortcutGroupOrder
  <2> QED
    BY <2>2 DEF Extends
<1>4. CASE g # h
  <2>1. ~(Cardinality(pair) < 2)
    <3>1. IsFiniteSet({g}) /\ Cardinality({g}) = 1
      BY FS_Singleton
    <3> DEFINE S == {g}
    <3>2. h \notin S /\ pair = S \cup {h}
      BY <1>2, <1>4
    <3> HIDE DEF S
    <3>3. Cardinality(S \cup {h}) = Cardinality(S) + 1
      BY <3>1, <3>2, FS_AddElement DEF S
    <3> QED
      BY <3>1, <3>2, <3>3 DEF S
  <2>2. other(g) = h /\ other(h) = g
    BY <1>2, <1>4
  <2>3. q = SwapShortcutGroupOrder(p, g.id, h.id, now)
    BY <2>1 DEF SwapShortcutGroupOrder
  <2>4. DOMAIN G = DOMAIN p.groups
        /\ \A i \in DOMAIN p.groups :
             G[i] = IF p.groups[i] \in pair
                    THEN [p.groups[i] EXCEPT !.sort = other(p.groups[i]).sort, !.at = now]
                    ELSE p.groups[i]
    BY DEF ReviseAll
  <2> HIDE DEF G, other, pair
  <2>5. ASSUME NEW i \in DOMAIN p.groups
        PROVE  LET x == p.groups[i]
               IN /\ G[i].id = x.id /\ G[i].del = x.del
                  /\ G[i].sort = IF x = g THEN h.sort ELSE IF x = h THEN g.sort ELSE x.sort
    <3> DEFINE x == p.groups[i]
               n == other(x).sort
               y == [x EXCEPT !.sort = n, !.at = now]
    <3>1. x \in Group(V)
      BY <1>1, ElementOfSeq, LenProperties
    <3>2. G[i] = IF x \in {g, h} THEN y ELSE x
      BY <1>2, <2>4
    <3>3. (x = g => n = h.sort) /\ (x = h => n = g.sort)
      BY <2>2
    <3> HIDE DEF x, n
    <3>4. y.id = x.id /\ y.del = x.del /\ y.sort = n
      BY <3>1 DEF Group
    <3> HIDE DEF y
    <3> QED
      BY <1>4, <3>2, <3>3, <3>4 DEF x
  <2>6. q.groups = G /\ q.shortcuts = p.shortcuts
    BY DEF Profile
  <2> HIDE DEF q
  <2>7. Extends(p, q, {})
    BY <2>4, <2>5, <2>6, SameGroups
  <2>8. ASSUME Ordered(p), NEW i \in DOMAIN p.groups, NEW j \in DOMAIN p.groups,
               ~G[i].del, ~G[j].del, G[i].sort = G[j].sort
        PROVE  i = j
    <3> DEFINE x == p.groups[i]
               y == p.groups[j]
    <3>1. x \in Live(p.groups) /\ y \in Live(p.groups)
      BY <2>5, <2>8 DEF Live, Entries
    <3>2. \A a, b \in Live(p.groups) : a.sort = b.sort => a = b
      BY <2>8 DEF Ordered
    <3>3. (IF x = g THEN h.sort ELSE IF x = h THEN g.sort ELSE x.sort)
            = (IF y = g THEN h.sort ELSE IF y = h THEN g.sort ELSE y.sort)
      BY <2>5, <2>8
    <3>4. x = y
      <4> HIDE DEF x, y
      <4> QED
        BY <1>4, <3>1, <3>2, <3>3
    <3> QED
      BY <1>1, <3>4 DEF UniqueIds
  <2>9. ASSUME Ordered(p) PROVE \A x, y \in Live(G) : x.sort = y.sort => x = y
    BY <2>4, <2>8, <2>9, PlacesApart
  <2>10. Ordered(p) => Ordered(q)
    BY <2>6, <2>9 DEF Ordered
  <2> QED
    BY <2>3, <2>7, <2>10
<1> QED
  BY <1>3, <1>4

\* place(): where a list has an id.
LEMMA PlaceOfId ==
    ASSUME NEW V, NEW list \in Seq(V), NEW x \in Entries(list)
    PROVE  LET place(y) == (CHOOSE i \in DOMAIN list : list[i].id = y.id) - 1
           IN /\ place(x) \in Nat
              /\ \A y \in Entries(list) : place(y) = place(x) => y.id = x.id
<1> DEFINE at(y) == CHOOSE i \in DOMAIN list : list[i].id = y.id
<1>1. DOMAIN list = 1 .. Len(list) /\ Len(list) \in Nat
  BY LenProperties
<1>2. \A y \in Entries(list) : at(y) \in DOMAIN list /\ list[at(y)].id = y.id
  BY DEF Entries
<1> HIDE DEF at
<1>3. \A y \in Entries(list) : at(y) \in Int /\ at(y) >= 1
  BY <1>1, <1>2
<1>4. \A y \in Entries(list) : at(y) - 1 = at(x) - 1 => at(y) = at(x)
  BY <1>3
<1>5. at(x) - 1 \in Nat /\ \A y \in Entries(list) : at(y) - 1 = at(x) - 1 => y.id = x.id
  BY <1>2, <1>3, <1>4
<1> QED
  BY <1>5 DEF at

LEMMA DeleteGroupOrders ==
    ASSUME NEW V, NEW p \in Profile(V), Named(p), NEW id, NEW now \in V
    PROVE  LET q == DeleteShortcutGroup(p, id, now)
           IN Extends(p, q, {}) /\ (Ordered(p) => Ordered(q))
<1> DEFINE I == {i \in DOMAIN p.groups : ~p.groups[i].del /\ p.groups[i].id # id}
           rest == Sub(p.groups, I)
           first == CHOOSE i \in DOMAIN rest : \A j \in DOMAIN rest :
                        rest[i].sort < rest[j].sort \/ (rest[i].sort = rest[j].sort /\ i <= j)
           fallback == rest[first].id
           next == NextSort(LiveIn(p, fallback))
           K == {i \in DOMAIN p.shortcuts : ~p.shortcuts[i].del /\ p.shortcuts[i].group = id}
           moved == Sub(p.shortcuts, K)
           place(list, x) == (CHOOSE i \in DOMAIN list : list[i].id = x.id) - 1
           renumbered(g) ==
              IF g.id = id THEN [g EXCEPT !.del = TRUE, !.at = now]
              ELSE IF g.del THEN g
              ELSE [g EXCEPT !.sort = place(rest, g), !.at = IF g.id = fallback THEN now ELSE @]
           rehomed(s) ==
              IF s.del \/ s.group # id THEN s
              ELSE [s EXCEPT !.group = fallback, !.sort = next + place(moved, s), !.at = now]
           G == ReviseAll(p.groups, renumbered)
           L == ReviseAll(p.shortcuts, rehomed)
           q == [p EXCEPT !.groups = G, !.shortcuts = L]
<1>1. p.groups \in Seq(Group(V)) /\ p.shortcuts \in Seq(Shortcut(V))
      /\ UniqueIds(p.groups) /\ UniqueIds(p.shortcuts)
      /\ \A x \in Entries(p.shortcuts) : x.group \in Ids(p.groups)
  BY DEF Profile, Named
<1>2. CASE rest = <<>> \/ id \notin {g.id : g \in Live(p.groups)}
  <2>1. DeleteShortcutGroup(p, id, now) = p
    BY <1>2 DEF DeleteShortcutGroup, Filter
  <2> QED
    BY <2>1 DEF Extends
<1>3. CASE ~(rest = <<>> \/ id \notin {g.id : g \in Live(p.groups)})
  <2>1. rest \in Seq(Group(V)) /\ Entries(rest) = {p.groups[i] : i \in I}
    BY <1>1, SubIsList
  <2>2. moved \in Seq(Shortcut(V)) /\ Entries(moved) = {p.shortcuts[i] : i \in K}
    BY <1>1, SubIsList
  <2> HIDE DEF rest, moved
  <2>3. \A i \in DOMAIN rest : rest[i].sort \in Int
    <3>1. \A i \in DOMAIN rest : rest[i] \in Group(V)
      BY <2>1, ElementOfSeq, LenProperties
    <3> QED
      BY <3>1 DEF Group
  <2>4. first \in DOMAIN rest
    BY <1>3, <2>1, <2>3, FirstIsThere
  <2> HIDE DEF first
  <2>5. fallback \in Ids(p.groups) /\ fallback # id
    BY <2>1, <2>4 DEF Entries, Ids
  <2>6. /\ next \in Nat
        /\ \A x \in Live(p.shortcuts) : x.sort \in Int /\ (x.group = fallback => x.sort < next)
    <3>1. IsFiniteSet(Entries(p.shortcuts)) /\ Entries(p.shortcuts) \in SUBSET Shortcut(V)
      BY <1>1, EntriesFinite
    <3>2. LiveIn(p, fallback) \subseteq Entries(p.shortcuts) /\ Live(p.shortcuts) \subseteq Entries(p.shortcuts)
      BY DEF LiveIn, Live
    <3>3. IsFiniteSet(LiveIn(p, fallback)) /\ \A x \in LiveIn(p, fallback) : x.sort \in Int
      BY <3>1, <3>2, FS_Subset DEF Shortcut
    <3>4. next \in Nat /\ \A x \in LiveIn(p, fallback) : x.sort < next
      BY <3>3, NextSortIsLast
    <3>5. \A x \in Live(p.shortcuts) : x.sort \in Int /\ (x.group = fallback => x \in LiveIn(p, fallback))
      BY <3>1, <3>2 DEF LiveIn, Shortcut
    <3> QED
      BY <3>4, <3>5
  <2> HIDE DEF fallback, next
  <2>7. ASSUME NEW g \in Entries(p.groups)
        PROVE  /\ renumbered(g).id = g.id
               /\ ~renumbered(g).del =>
                    g \in Entries(rest) /\ renumbered(g).sort = place(rest, g)
    <3>1. g \in Group(V)
      BY <1>1, EntriesFinite
    <3> HIDE DEF place
    <3>2. CASE g.id = id \/ g.del
      BY <3>1, <3>2 DEF Group
    <3>3. CASE g.id # id /\ ~g.del
      <4> DEFINE n == place(rest, g)
                 at == IF g.id = fallback THEN now ELSE g.at
                 h == [g EXCEPT !.sort = n, !.at = at]
      <4>1. renumbered(g) = h
        BY <3>1, <3>3 DEF Group
      <4>2. g \in Entries(rest)
        BY <2>1, <3>3 DEF Entries
      <4> HIDE DEF n, at
      <4>3. h.id = g.id /\ h.sort = n
        BY <3>1 DEF Group
      <4> HIDE DEF h, renumbered
      <4> QED
        BY <4>1, <4>2, <4>3 DEF n
    <3> QED
      BY <3>2, <3>3
  <2>8. ASSUME NEW s \in Entries(p.shortcuts)
        PROVE  /\ rehomed(s).id = s.id /\ rehomed(s).del = s.del
               /\ (s.del \/ s.group # id) => rehomed(s) = s
               /\ ~s.del /\ s.group = id =>
                    /\ s \in Entries(moved)
                    /\ rehomed(s).group = fallback /\ rehomed(s).sort = next + place(moved, s)
    <3>1. s \in Shortcut(V)
      BY <1>1, EntriesFinite
    <3> HIDE DEF place
    <3>2. CASE s.del \/ s.group # id
      BY <3>2
    <3>3. CASE ~s.del /\ s.group = id
      <4> DEFINE n == next + place(moved, s)
                 t == [s EXCEPT !.group = fallback, !.sort = n, !.at = now]
      <4>1. rehomed(s) = t
        BY <3>3
      <4>2. s \in Entries(moved)
        BY <2>2, <3>3 DEF Entries
      <4> HIDE DEF n
      <4>3. t.id = s.id /\ t.del = s.del /\ t.group = fallback /\ t.sort = n
        BY <3>1 DEF Shortcut
      <4> HIDE DEF t, rehomed
      <4> QED
        BY <3>3, <4>1, <4>2, <4>3 DEF n
    <3> QED
      BY <3>2, <3>3
  <2>9. \A x \in Entries(rest) : \A y \in Entries(rest) : place(rest, y) = place(rest, x) => y.id = x.id
    BY <2>1, PlaceOfId
  <2>10. \A x \in Entries(moved) : place(moved, x) \in Nat
         /\ \A y \in Entries(moved) : place(moved, y) = place(moved, x) => y.id = x.id
    BY <2>2, PlaceOfId
  <2> HIDE DEF renumbered, rehomed, place
  <2>11. G = [i \in DOMAIN p.groups |-> renumbered(p.groups[i])]
         /\ L = [i \in DOMAIN p.shortcuts |-> rehomed(p.shortcuts[i])]
    BY DEF ReviseAll
  <2> HIDE DEF G, L
  <2>12. q.groups = G /\ q.shortcuts = L
    BY DEF Profile
  <2>13. q = DeleteShortcutGroup(p, id, now)
    BY <1>3 DEF DeleteShortcutGroup, Filter, rest, first, fallback, next, moved, place,
                renumbered, rehomed, G, L
  <2> HIDE DEF q
  <2>14. Ids(G) = Ids(p.groups) /\ UniqueIds(G)
    <3>1. DOMAIN G = DOMAIN p.groups /\ \A i \in DOMAIN p.groups : G[i].id = p.groups[i].id
      BY <2>7, <2>11 DEF Entries
    <3> QED
      BY <1>1, <3>1, SameNames
  <2>15. Ids(L) = Ids(p.shortcuts) /\ UniqueIds(L)
    <3>1. DOMAIN L = DOMAIN p.shortcuts /\ \A i \in DOMAIN p.shortcuts : L[i].id = p.shortcuts[i].id
      BY <2>8, <2>11 DEF Entries
    <3> QED
      BY <1>1, <3>1, SameNames
  <2>16. \A x \in Entries(L) : \E s \in Entries(p.shortcuts) : x = rehomed(s)
    BY <2>11 DEF Entries
  <2>17. \A x \in Entries(G) : \E g \in Entries(p.groups) : x = renumbered(g)
    BY <2>11 DEF Entries
  <2>18. \A x \in Entries(L) : x.group \in Ids(p.groups)
    BY <1>1, <2>5, <2>8, <2>16
  <2>19. Extends(p, q, {})
    BY <2>12, <2>14, <2>15, <2>18 DEF Extends, Named
  <2>20. ASSUME NEW x \in Live(G), NEW y \in Live(G), x.sort = y.sort PROVE x = y
    <3>1. PICK g \in Entries(p.groups) : x = renumbered(g)
      BY <2>17 DEF Live
    <3>2. PICK h \in Entries(p.groups) : y = renumbered(h)
      BY <2>17 DEF Live
    <3>3. ~x.del /\ ~y.del
      BY DEF Live
    <3>4. g.id = h.id
      BY <2>7, <2>9, <2>20, <3>1, <3>2, <3>3
    <3>5. g = h
      BY <1>1, <3>4, OneEntry
    <3> QED
      BY <3>1, <3>2, <3>5
  <2>21. ASSUME Ordered(p), NEW x \in Live(L), NEW y \in Live(L), x.group = y.group, x.sort = y.sort
         PROVE  x = y
    <3>1. PICK s \in Entries(p.shortcuts) : x = rehomed(s)
      BY <2>16 DEF Live
    <3>2. PICK t \in Entries(p.shortcuts) : y = rehomed(t)
      BY <2>16 DEF Live
    <3>3. s \in Live(p.shortcuts) /\ t \in Live(p.shortcuts) /\ ~s.del /\ ~t.del
      BY <2>8, <3>1, <3>2 DEF Live
    <3>4. CASE s.group # id /\ t.group # id
      <4>1. x = s /\ y = t
        BY <2>8, <3>1, <3>2, <3>4
      <4> QED
        BY <2>21, <3>3, <4>1 DEF Ordered
    <3>5. CASE s.group = id /\ t.group = id
      <4>1. /\ s \in Entries(moved) /\ t \in Entries(moved)
            /\ x.sort = next + place(moved, s) /\ y.sort = next + place(moved, t)
        BY <2>8, <3>1, <3>2, <3>3, <3>5
      <4>2. PICK m \in Nat, n \in Nat : m = place(moved, s) /\ n = place(moved, t)
        BY <2>10, <4>1
      <4>3. next + m = next + n
        BY <2>21, <4>1, <4>2
      <4>4. m = n
        BY <2>6, <4>3
      <4>5. s.id = t.id
        BY <2>10, <4>1, <4>2, <4>4
      <4>6. s = t
        BY <1>1, <4>5, OneEntry
      <4> QED
        BY <3>1, <3>2, <4>6
    <3>6. CASE s.group = id /\ t.group # id
      <4>1. /\ s \in Entries(moved) /\ x.group = fallback /\ x.sort = next + place(moved, s)
            /\ y = t
        BY <2>8, <3>1, <3>2, <3>3, <3>6
      <4>2. t.sort < next /\ t.sort \in Int
        BY <2>6, <2>21, <3>3, <4>1
      <4>3. PICK n \in Nat : n = place(moved, s)
        BY <2>10, <4>1
      <4>4. t.sort = next + n
        BY <2>21, <4>1, <4>3
      <4> QED
        BY <2>6, <4>2, <4>4
    <3>7. CASE s.group # id /\ t.group = id
      <4>1. /\ t \in Entries(moved) /\ y.group = fallback /\ y.sort = next + place(moved, t)
            /\ x = s
        BY <2>8, <3>1, <3>2, <3>3, <3>7
      <4>2. s.sort < next /\ s.sort \in Int
        BY <2>6, <2>21, <3>3, <4>1
      <4>3. PICK n \in Nat : n = place(moved, t)
        BY <2>10, <4>1
      <4>4. s.sort = next + n
        BY <2>21, <4>1, <4>3
      <4> QED
        BY <2>6, <4>2, <4>4
    <3> QED
      BY <3>4, <3>5, <3>6, <3>7
  <2>22. Ordered(p) => Ordered(q)
    BY <2>12, <2>20, <2>21 DEF Ordered
  <2> QED
    BY <2>13, <2>19, <2>22
<1> QED
  BY <1>2, <1>3

\* The ids given so far, between the one a device gives next and an edge the
\* other way.
Span(step, edge, next) ==
    {n \in Int : IF step = 1 THEN edge < n /\ n < next ELSE next < n /\ n < edge}
Ahead(step, edge, next) == IF step = 1 THEN edge < next ELSE next < edge

Within(p, S) == Ids(p.groups) \subseteq S /\ Ids(p.shortcuts) \subseteq S

LEMMA SpanGrows ==
    ASSUME NEW step \in {1, -1}, NEW edge \in Int, NEW next \in Int, Ahead(step, edge, next)
    PROVE  /\ Span(step, edge, next + step) = Span(step, edge, next) \cup {next}
           /\ next \notin Span(step, edge, next)
           /\ Ahead(step, edge, next + step) /\ next + step \in Int
  BY DEF Span, Ahead

\* A shortcut added at the end of a group.
LEMMA AddShortcutOrders ==
    ASSUME NEW V, NEW p \in Profile(V), Named(p), NEW x \in Shortcut(V),
           x.id \notin Ids(p.shortcuts), x.group \in Ids(p.groups),
           x.sort = NextSort(LiveIn(p, x.group))
    PROVE  LET q == [p EXCEPT !.shortcuts = Append(@, x)]
           IN Extends(p, q, {x.id}) /\ (Ordered(p) => Ordered(q))
<1> DEFINE L == Append(p.shortcuts, x)
           q == [p EXCEPT !.shortcuts = L]
<1>1. p.shortcuts \in Seq(Shortcut(V)) /\ UniqueIds(p.groups) /\ UniqueIds(p.shortcuts)
      /\ \A s \in Entries(p.shortcuts) : s.group \in Ids(p.groups)
  BY DEF Profile, Named
<1>2. [p EXCEPT !.shortcuts = Append(@, x)] = q
  OBVIOUS
<1>3. Entries(L) = Entries(p.shortcuts) \cup {x}
  BY <1>1, LongerList
<1>4. Ids(L) = Ids(p.shortcuts) \cup {x.id} /\ UniqueIds(L)
  BY <1>1, OneMoreName
<1>5. \A s \in LiveIn(p, x.group) : s.sort # x.sort
  <2>1. IsFiniteSet(Entries(p.shortcuts)) /\ Entries(p.shortcuts) \in SUBSET Shortcut(V)
    BY <1>1, EntriesFinite
  <2>2. LiveIn(p, x.group) \subseteq Entries(p.shortcuts)
    BY DEF LiveIn, Live
  <2>3. IsFiniteSet(LiveIn(p, x.group)) /\ \A s \in LiveIn(p, x.group) : s.sort \in Int
    BY <2>1, <2>2, FS_Subset DEF Shortcut
  <2>4. \A s \in LiveIn(p, x.group) : s.sort < x.sort
    BY <2>3, NextSortIsLast
  <2>5. x.sort \in Int
    BY DEF Shortcut
  <2> QED
    BY <2>3, <2>4, <2>5
<1> HIDE DEF L
<1>6. q.groups = p.groups /\ q.shortcuts = L
  BY DEF Profile
<1> HIDE DEF q
<1>7. \A s \in Entries(L) : s.group \in Ids(p.groups)
  BY <1>1, <1>3
<1>8. Extends(p, q, {x.id})
  BY <1>1, <1>4, <1>6, <1>7 DEF Extends, Named
<1>9. ASSUME Ordered(p), NEW s \in Live(L), NEW t \in Live(L), s.group = t.group, s.sort = t.sort
      PROVE  s = t
  <2>1. (s = x \/ s \in Live(p.shortcuts)) /\ (t = x \/ t \in Live(p.shortcuts))
    BY <1>3 DEF Live
  <2>2. \A y \in Live(p.shortcuts) : y.group = x.group => y.sort # x.sort
    BY <1>5 DEF LiveIn
  <2> QED
    BY <1>9, <2>1, <2>2 DEF Ordered
<1>10. Ordered(p) => Ordered(q)
  BY <1>6, <1>9 DEF Ordered
<1> QED
  BY <1>2, <1>8, <1>10

\* What an import has made of p so far, from its first id on.
Imports(p, plan, step, edge, first) ==
    /\ Named(plan.profile) /\ (Ordered(p) => Ordered(plan.profile))
    /\ Ids(p.groups) \subseteq Ids(plan.profile.groups)
    /\ Ids(p.shortcuts) \subseteq Ids(plan.profile.shortcuts)
    /\ Within(plan.profile, Span(step, edge, plan.next)) /\ Ahead(step, edge, plan.next)
    /\ Span(step, edge, first) \subseteq Span(step, edge, plan.next)

LEMMA ImportOrdersOne ==
    ASSUME NEW W, NEW plan \in Plans(W), NEW S, Housed(plan.profile, S),
           NEW b \in [title : W, url : W], NEW step \in {1, -1}, NEW edge \in Int, NEW now \in W,
           NEW start, NEW first, Imports(start, plan, step, edge, first)
    PROVE  Imports(start, ImportBookmark(plan, b, step, now), step, edge, first)
<1> DEFINE p == plan.profile
           own == GroupOfTitle(p, b.title)
           known == own # None /\ \E s \in LiveIn(p, own) : s.url = b.url
           grouped == IF own # None THEN p ELSE AddShortcutGroup(p, plan.next, b.title, now)
           g == GroupOfTitle(grouped, b.title)
           filed == [id |-> plan.next, group |-> g, url |-> b.url, icon |-> "favicon",
                     sort |-> NextSort(LiveIn(grouped, g)), at |-> now, del |-> FALSE]
           full == Len(p.shortcuts) >= MaxShortcuts \/ (own = None /\ Len(p.groups) >= MaxGroups)
           seen == plan.seen \cup {b}
           q == [grouped EXCEPT !.shortcuts = Append(@, filed)]
           result == ImportBookmark(plan, b, step, now)
           N == Span(step, edge, plan.next)
           next == plan.next + step
<1>1. p \in Profile(W) /\ plan.next \in Int /\ Housed(p, S)
  BY DEF Plans
<1>2. b.title \in W /\ b.url \in W
  OBVIOUS
<1>3. \/ result.profile = p /\ result.next = plan.next
      \/ result.profile = q /\ result.next = next
  <2>1. ImportBookmark(plan, b, step, now) =
        IF b.url = None \/ b \in plan.seen THEN plan
        ELSE IF known THEN [plan EXCEPT !.seen = seen]
        ELSE IF full THEN [plan EXCEPT !.seen = seen, !.skipped = plan.skipped + 1]
        ELSE [profile |-> q, seen |-> seen, skipped |-> plan.skipped,
              imported |-> plan.imported + 1, next |-> next]
    BY DEF ImportBookmark, Plans
  <2> HIDE DEF seen, known, full, q, next, p
  <2>2. [plan EXCEPT !.seen = seen].profile = plan.profile
        /\ [plan EXCEPT !.seen = seen].next = plan.next
    BY DEF Plans
  <2>3. LET r == [plan EXCEPT !.seen = seen, !.skipped = plan.skipped + 1]
        IN r.profile = plan.profile /\ r.next = plan.next
    BY DEF Plans
  <2> QED
    BY <2>1, <2>2, <2>3 DEF p
<1>4. /\ Named(p) /\ Within(p, N) /\ Ahead(step, edge, plan.next) /\ (Ordered(start) => Ordered(p))
      /\ Ids(start.groups) \subseteq Ids(p.groups) /\ Ids(start.shortcuts) \subseteq Ids(p.shortcuts)
      /\ Span(step, edge, first) \subseteq N
  BY DEF Imports
<1>5. plan.next \notin N /\ Span(step, edge, next) = N \cup {plan.next} /\ Ahead(step, edge, next)
  BY <1>1, <1>4, SpanGrows
<1> HIDE DEF p, N
<1>6. /\ grouped \in Profile(W) /\ Extends(p, grouped, {plan.next})
      /\ Ordered(p) => Ordered(grouped)
      /\ grouped.shortcuts = p.shortcuts
      /\ \E x \in Live(grouped.groups) : x.title = b.title
  <2>1. CASE own # None
    <3>1. Extends(p, p, {plan.next})
      BY <1>4 DEF Extends
    <3>2. \E x \in Live(p.groups) : x.title = b.title
      BY <1>1, <2>1, GroupIsLive
    <3> QED
      BY <1>1, <2>1, <3>1, <3>2
  <2>2. CASE own = None
    <3> DEFINE id == plan.next
    <3>1. id \in Int /\ id \notin Ids(p.groups)
      BY <1>1, <1>4, <1>5 DEF Within
    <3> HIDE DEF id
    <3>2. LET r == AddShortcutGroup(p, id, b.title, now)
          IN /\ r \in Profile(W) /\ Housed(r, S) /\ SameKeys(p, r)
             /\ r.shortcuts = p.shortcuts
             /\ \E x \in Live(r.groups) : x.id = id /\ x.title = b.title
      BY <1>1, <1>2, <3>1, AddGroupHouses
    <3>3. LET r == AddShortcutGroup(p, id, b.title, now)
          IN Extends(p, r, {id}) /\ (Ordered(p) => Ordered(r)) /\ r.shortcuts = p.shortcuts
      BY <1>1, <1>2, <1>4, <3>1, AddGroupOrders
    <3> QED
      BY <2>2, <3>2, <3>3 DEF id
  <2> QED
    BY <2>1, <2>2
<1> HIDE DEF own, grouped
<1>7. g \in Ids(grouped.groups) /\ g \in Int
  <2>1. PICK x \in Live(grouped.groups) : x.id = g
    BY <1>6, GroupIsLive
  <2>2. x \in Entries(grouped.groups)
    BY DEF Live
  <2>3. grouped.groups \in Seq(Group(W))
    BY <1>6 DEF Profile
  <2>4. x \in Group(W)
    BY <2>2, <2>3, EntriesFinite
  <2> QED
    BY <2>1, <2>2, <2>4 DEF Ids, Group
<1>8. NextSort(LiveIn(grouped, g)) \in Int
  BY <1>6, SubsetOfEntries DEF LiveIn, Live
<1> HIDE DEF g
<1>9. filed \in Shortcut(W) /\ filed.group = g /\ filed.id = plan.next
      /\ filed.sort = NextSort(LiveIn(grouped, g))
  BY <1>1, <1>2, <1>7, <1>8 DEF Shortcut
<1> HIDE DEF filed
<1>10. filed.id \notin Ids(grouped.shortcuts)
  BY <1>4, <1>5, <1>6, <1>9 DEF Within
<1>11. Named(grouped)
  BY <1>6 DEF Extends
<1>12. Extends(grouped, q, {plan.next}) /\ (Ordered(grouped) => Ordered(q))
  <2>1. LET r == [grouped EXCEPT !.shortcuts = Append(@, filed)]
        IN Extends(grouped, r, {filed.id}) /\ (Ordered(grouped) => Ordered(r))
    BY <1>6, <1>7, <1>9, <1>10, <1>11, AddShortcutOrders
  <2> QED
    BY <1>9, <2>1
<1> HIDE DEF q
<1>13. CASE result.profile = p /\ result.next = plan.next
  BY <1>4, <1>13 DEF Imports, N
<1>14. CASE result.profile = q /\ result.next = next
  <2>1. Named(q) /\ (Ordered(start) => Ordered(q))
        /\ Ids(start.groups) \subseteq Ids(q.groups) /\ Ids(start.shortcuts) \subseteq Ids(q.shortcuts)
    BY <1>4, <1>6, <1>12 DEF Extends
  <2>2. Within(q, N \cup {plan.next})
    BY <1>4, <1>6, <1>12 DEF Extends, Within
  <2>0. ImportBookmark(plan, b, step, now) = result
    OBVIOUS
  <2> HIDE DEF result, next
  <2>3. result.profile = q /\ result.next = next
    BY <1>14
  <2>4. /\ Within(q, Span(step, edge, next)) /\ Ahead(step, edge, next)
        /\ Span(step, edge, first) \subseteq Span(step, edge, next)
    BY <1>4, <1>5, <2>2
  <2> QED
    BY <2>0, <2>1, <2>3, <2>4 DEF Imports
<1> QED
  BY <1>3, <1>13, <1>14

\* The import of a file: new ids only, and each entry behind those before it.
LEMMA ImportOrders ==
    ASSUME NEW W, NEW p \in Profile(W), NEW S, Housed(p, S), Named(p),
           NEW list \in Seq([title : W, url : W]), NEW start \in Int, NEW step \in {1, -1},
           NEW edge \in Int, NEW now \in W,
           Within(p, Span(step, edge, start)), Ahead(step, edge, start)
    PROVE  Imports(p, BuildBookmarkImportPlan(p, list, start, step, now), step, edge, start)
<1> DEFINE N == Len(list)
           first == [profile |-> p, seen |-> {}, skipped |-> 0, imported |-> 0, next |-> start]
<1>1. N \in Nat /\ DOMAIN list = 1 .. N /\ \A n \in 1 .. N : list[n] \in [title : W, url : W]
  BY LenProperties
<1>2. PICK F : /\ F[0] = first
               /\ \A n \in 1 .. N : F[n] = ImportBookmark(F[n - 1], list[n], step, now)
               /\ F[N] = BuildBookmarkImportPlan(p, list, start, step, now)
  <2>1. list \in Seq([title : W, url : W])
    OBVIOUS
  <2> HIDE DEF first
  <2>2. \E F : /\ F[0] = [profile |-> p, seen |-> {}, skipped |-> 0, imported |-> 0, next |-> start]
               /\ \A n \in 1 .. Len(list) : F[n] = ImportBookmark(F[n - 1], list[n], step, now)
               /\ F[Len(list)] = BuildBookmarkImportPlan(p, list, start, step, now)
    BY <2>1, ImportsInSteps
  <2> QED
    BY <2>2 DEF first
<1> HIDE DEF N
<1> DEFINE P == {n \in 0 .. N : /\ F[n] \in Plans(W) /\ Housed(F[n].profile, S)
                                /\ Imports(p, F[n], step, edge, start)}
<1>3. 0 \in P
  <2>1. first \in Plans(W) /\ first.profile = p /\ first.next = start
    BY DEF Plans
  <2> HIDE DEF first
  <2>2. Imports(p, first, step, edge, start)
    BY <2>1 DEF Imports
  <2> QED
    BY <1>1, <1>2, <2>1, <2>2
<1>4. ASSUME NEW n \in 1 .. N, n - 1 \in P PROVE n \in P
  <2> DEFINE plan == F[n - 1]
             then == ImportBookmark(plan, list[n], step, now)
  <2>1. plan \in Plans(W) /\ Housed(plan.profile, S) /\ Imports(p, plan, step, edge, start)
    BY <1>4
  <2>2. F[n] = then /\ list[n] \in [title : W, url : W]
    BY <1>1, <1>2
  <2> HIDE DEF plan
  <2>3. then \in Plans(W) /\ Housed(then.profile, S)
    <3>1. step \in Int
      OBVIOUS
    <3>2. LET next == ImportBookmark(plan, list[n], step, now)
          IN /\ next \in Plans(W) /\ Housed(next.profile, S)
             /\ SameKeys(plan.profile, next.profile)
      BY <2>1, <2>2, <3>1, ImportHousesOne
    <3> QED
      BY <3>2
  <2>4. Imports(p, then, step, edge, start)
    BY <2>1, <2>2, ImportOrdersOne
  <2>5. n \in 0 .. N
    BY <1>1
  <2> HIDE DEF then
  <2> QED
    BY <2>2, <2>3, <2>4, <2>5
<1>5. N \in P
  <2> HIDE DEF P
  <2>1. 0 .. N \subseteq P
    BY <1>1, <1>3, <1>4, StepByStep
  <2> QED
    BY <1>1, <2>1
<1> QED
  BY <1>2, <1>5

-----------------------------------------------------------------------------
(* The answers to conflicts *)

One(found) == IF found = {} THEN {} ELSE {The(found)}

\* One entry replaced, added or removed; the rest as it was.
LEMMA PutEntityPuts ==
    ASSUME NEW E, NEW list \in Seq(E), NEW id, NEW found \in SUBSET E, \A x \in found : x.id = id
    PROVE  LET new == PutEntity(list, id, found)
           IN /\ new \in Seq(E)
              /\ UniqueIds(list) => UniqueIds(new)
              /\ \A k : Found(new, k) = IF k = id THEN One(found) ELSE Found(list, k)
<1> DEFINE new == PutEntity(list, id, found)
<1>0. /\ Len(list) \in Nat /\ DOMAIN list = 1 .. Len(list)
      /\ \A i \in DOMAIN list : list[i] \in E
  BY LenProperties
<1>1. CASE found = {}
  <2> DEFINE I == {i \in DOMAIN list : list[i].id # id}
             s == Sub(list, I)
  <2>1. new = s
    BY <1>1 DEF PutEntity, Filter
  <2>2. I \in SUBSET DOMAIN list /\ I \in SUBSET Int /\ IsFiniteSet(I)
    BY Places
  <2>3. s \in Seq(E) /\ Entries(s) = {list[i] : i \in I}
    BY <2>2, SubIsList
  <2>4. \A n \in DOMAIN s : \E i \in I : Cardinality(Upto(I, i)) = n /\ s[n] = list[i]
    <3> HIDE DEF I
    <3>1. DOMAIN Sub(list, I) = 1 .. Cardinality(I)
      BY <2>2, SubAt
    <3>2. \A n \in 1 .. Cardinality(I) : \E i \in I :
             Cardinality(Upto(I, i)) = n /\ Sub(list, I)[n] = list[i]
      BY <2>2, SubAt
    <3> QED
      BY <3>1, <3>2
  <2> HIDE DEF s
  <2>5. UniqueIds(list) => UniqueIds(s)
    BY <2>2, <2>4 DEF UniqueIds
  <2>6. \A k : Found(s, k) = IF k = id THEN {} ELSE Found(list, k)
    BY <2>3 DEF Found, Entries
  <2> QED
    BY <1>1, <2>1, <2>3, <2>5, <2>6 DEF One
<1> DEFINE e == The(found)
<1>2. found # {} => e \in found
  BY DEF The
<1> HIDE DEF e
<1>3. CASE found # {} /\ id \in Ids(list)
  <2> DEFINE s == [i \in DOMAIN list |-> IF list[i].id = id THEN e ELSE list[i]]
  <2>1. new = s
    BY <1>3 DEF PutEntity, Revise, e
  <2>2. e \in E /\ e.id = id
    BY <1>2, <1>3
  <2>3. s \in Seq(E)
    <3>1. s \in [1 .. Len(list) -> E]
      BY <1>0, <2>2
    <3> QED
      BY <1>0, <3>1
  <2>4. UniqueIds(list) => UniqueIds(s)
    BY <2>2, SameNames
  <2>5. ASSUME NEW k PROVE Found(s, k) = IF k = id THEN {e} ELSE Found(list, k)
    <3>1. CASE k = id
      <4>1. PICK i \in DOMAIN list : list[i].id = id
        BY <1>3 DEF Ids, Entries
      <4>2. s[i] = e /\ i \in DOMAIN s
        BY <4>1
      <4>3. \A j \in DOMAIN s : s[j].id = id => s[j] = e
        OBVIOUS
      <4> QED
        BY <2>2, <3>1, <4>2, <4>3 DEF Found, Entries
    <3>2. CASE k # id
      <4>1. \A j \in DOMAIN list : list[j].id # id => s[j] = list[j]
        OBVIOUS
      <4>2. \A j \in DOMAIN list : list[j].id = id => s[j] = e
        OBVIOUS
      <4>3. DOMAIN s = DOMAIN list
        OBVIOUS
      <4> HIDE DEF s
      <4> QED
        BY <2>2, <3>2, <4>1, <4>2, <4>3 DEF Found, Entries
    <3> QED
      BY <3>1, <3>2
  <2> QED
    BY <1>3, <2>1, <2>3, <2>4, <2>5 DEF One, e
<1>4. CASE found # {} /\ id \notin Ids(list)
  <2>1. new = Append(list, e)
    BY <1>4 DEF PutEntity, e
  <2>2. e \in E /\ e.id = id
    BY <1>2, <1>4
  <2>3. Append(list, e) \in Seq(E) /\ Entries(Append(list, e)) = Entries(list) \cup {e}
    BY <2>2, LongerList, AppendProperties
  <2>4. UniqueIds(list) => UniqueIds(Append(list, e))
    BY <1>4, <2>2, OneMoreName
  <2>5. \A x \in Entries(list) : x.id # id
    BY <1>4 DEF Ids
  <2>6. \A k : Found(Append(list, e), k) = IF k = id THEN {e} ELSE Found(list, k)
    BY <2>2, <2>3, <2>5 DEF Found
  <2> QED
    BY <1>4, <2>1, <2>3, <2>4, <2>6 DEF One, e
<1> QED
  BY <1>1, <1>3, <1>4

\* What the fold of the answers computes, step by step: there is a function that
\* solves the recursion of MapThenFoldSet, on the sets of at most n conflicts.
InSteps(F, list, l, r, d, S) ==
    /\ F[{}] = list
    /\ \A T \in SUBSET S : T # {} =>
          \E x \in T : F[T] = PutEntity(F[T \ {x}], x[2], Decided(l, r, d, x))
    /\ F[S] = Settled(list, l, r, d, S)

LEMMA SettlesInSteps ==
    ASSUME NEW list, NEW l, NEW r, NEW d, NEW S, IsFiniteSet(S)
    PROVE  \E F : InSteps(F, list, l, r, d, S)
<1> DEFINE N == Cardinality(S)
           of(s) == CHOOSE x \in s : TRUE
           Then(x, v) == PutEntity(v, x[2], Decided(l, r, d, x))
           Small(n) == {s \in SUBSET S : Cardinality(s) <= n}
           Rule(f, s) == IF s = {} THEN list ELSE Then(of(s), f[s \ {of(s)}])
           Solves(f, n) == f = [s \in Small(n) |-> Rule(f, s)]
<1>1. N \in Nat
  BY FS_CardinalityType
<1>2. ASSUME NEW s \in SUBSET S
      PROVE  /\ IsFiniteSet(s) /\ Cardinality(s) \in 0 .. N
             /\ s # {} => /\ of(s) \in s
                          /\ Cardinality(s \ {of(s)}) = Cardinality(s) - 1
                          /\ Cardinality(s) # 0
  <2>1. IsFiniteSet(s) /\ Cardinality(s) <= N
    BY FS_Subset
  <2>2. Cardinality(s) \in Nat
    BY <2>1, FS_CardinalityType
  <2>3. s # {} => of(s) \in s
    OBVIOUS
  <2> HIDE DEF of
  <2>4. s # {} => Cardinality(s \ {of(s)}) = Cardinality(s) - 1
    BY <2>1, <2>3, FS_RemoveElement
  <2>5. s # {} => Cardinality(s) # 0
    BY <2>1, FS_EmptySet
  <2> HIDE DEF N
  <2> QED
    BY <1>1, <2>1, <2>2, <2>3, <2>4, <2>5
<1>4. Settled(list, l, r, d, S) = (CHOOSE f : f = [s \in SUBSET S |-> Rule(f, s)])[S]
  BY DEF Settled, FoldSet, MapThenFoldSet
<1> HIDE DEF N, Then, of
<1>3. Small(N) = SUBSET S
  <2>1. ASSUME NEW s \in SUBSET S PROVE Cardinality(s) <= N
    <3>1. PICK k \in 0 .. N : k = Cardinality(s)
      BY <1>2
    <3>2. k <= N
      BY <1>1
    <3> QED
      BY <3>1, <3>2
  <2> QED
    BY <2>1
<1>5. \A n \in 0 .. N : \E f : Solves(f, n)
  <2> DEFINE P == {n \in 0 .. N : \E f : Solves(f, n)}
  <2>1. 0 \in P
    <3> DEFINE g == [s \in Small(0) |-> list]
    <3>1. ASSUME NEW s \in Small(0) PROVE s = {}
      <4>1. PICK k \in 0 .. N : k = Cardinality(s) /\ k <= 0 /\ (s # {} => k # 0)
        BY <1>2
      <4> QED
        BY <1>1, <4>1
    <3>2. Solves(g, 0)
      BY <3>1
    <3>3. 0 \in 0 .. N
      BY <1>1
    <3> QED
      BY <3>2, <3>3
  <2>2. ASSUME NEW n \in 1 .. N, n - 1 \in P PROVE n \in P
    <3>1. n \in Nat /\ n \in 0 .. N
      BY <1>1
    <3>2. PICK f : Solves(f, n - 1)
      BY <2>2
    <3> DEFINE g == [s \in Small(n) |-> Rule(f, s)]
    <3>3. ASSUME NEW s \in Small(n), s # {} PROVE s \ {of(s)} \in Small(n - 1)
      <4>1. PICK k \in 0 .. N : /\ k = Cardinality(s) /\ k <= n
                                /\ of(s) \in s /\ Cardinality(s \ {of(s)}) = k - 1
        BY <1>2, <3>3
      <4>2. k - 1 <= n - 1
        BY <1>1, <4>1
      <4> QED
        BY <4>1, <4>2
    <3>4. ASSUME NEW s \in Small(n - 1) PROVE g[s] = f[s]
      <4>1. s \in Small(n)
        <5>1. PICK k \in 0 .. N : k = Cardinality(s) /\ k <= n - 1
          BY <1>2
        <5>2. k <= n
          BY <1>1, <5>1
        <5> QED
          BY <5>1, <5>2
      <4> QED
        BY <3>2, <4>1
    <3>5. ASSUME NEW s \in Small(n) PROVE Rule(g, s) = Rule(f, s)
      <4>1. CASE s = {}
        BY <4>1
      <4>2. CASE s # {}
        <5>1. g[s \ {of(s)}] = f[s \ {of(s)}]
          BY <3>3, <3>4, <4>2
        <5> HIDE DEF g
        <5> QED
          BY <4>2, <5>1
      <4> QED
        BY <4>1, <4>2
    <3>6. Solves(g, n)
      BY <3>5
    <3> QED
      BY <3>1, <3>6
  <2> HIDE DEF P
  <2>3. 0 .. N \subseteq P
    BY <1>1, <2>1, <2>2, StepByStep
  <2> QED
    BY <2>3 DEF P
<1> DEFINE F == CHOOSE f : f = [s \in SUBSET S |-> Rule(f, s)]
<1>6. F = [s \in SUBSET S |-> Rule(F, s)]
  <2>1. N \in 0 .. N
    BY <1>1
  <2>2. \E f : f = [s \in SUBSET S |-> Rule(f, s)]
    BY <1>3, <1>5, <2>1
  <2> HIDE DEF Rule
  <2> QED
    BY <2>2
<1>7. F[S] = Settled(list, l, r, d, S)
  BY <1>4
<1> HIDE DEF F
<1>8. F[{}] = list
  <2>1. {} \in SUBSET S
    OBVIOUS
  <2> QED
    BY <1>6, <2>1
<1>9. ASSUME NEW T \in SUBSET S, T # {}
      PROVE  \E x \in T : F[T] = PutEntity(F[T \ {x}], x[2], Decided(l, r, d, x))
  <2>1. F[T] = Then(of(T), F[T \ {of(T)}]) /\ of(T) \in T
    BY <1>2, <1>6, <1>9
  <2> QED
    BY <2>1 DEF Then
<1>10. InSteps(F, list, l, r, d, S)
  BY <1>7, <1>8, <1>9 DEF InSteps
<1> QED
  BY <1>10

\* What the answers leave of a list: under the id of a conflict what was decided,
\* under any other what it had.
Decides(E, l, r, d, name, S) ==
    \A x \in S : /\ x = <<name, x[2]>>
                 /\ Decided(l, r, d, x) \in SUBSET E
                 /\ \A y \in Decided(l, r, d, x) : y.id = x[2]

AsDecided(E, list, new, l, r, d, name, S) ==
    /\ new \in Seq(E)
    /\ UniqueIds(list) => UniqueIds(new)
    /\ \A k : Found(new, k) = IF <<name, k>> \in S THEN One(Decided(l, r, d, <<name, k>>))
                              ELSE Found(list, k)

LEMMA SettledEntries ==
    ASSUME NEW E, NEW list \in Seq(E), NEW l, NEW r, NEW d, NEW name, NEW S, IsFiniteSet(S),
           Decides(E, l, r, d, name, S)
    PROVE  AsDecided(E, list, Settled(list, l, r, d, S), l, r, d, name, S)
<1> USE DEF Decides
<1>0. PICK F : InSteps(F, list, l, r, d, S)
  BY SettlesInSteps
<1>1. /\ F[{}] = list
      /\ \A T \in SUBSET S : T # {} =>
            \E x \in T : F[T] = PutEntity(F[T \ {x}], x[2], Decided(l, r, d, x))
      /\ F[S] = Settled(list, l, r, d, S)
  BY <1>0 DEF InSteps
<1> DEFINE N == Cardinality(S)
           Right(T) ==
              /\ F[T] \in Seq(E)
              /\ UniqueIds(list) => UniqueIds(F[T])
              /\ \A k : Found(F[T], k) = IF <<name, k>> \in T THEN One(Decided(l, r, d, <<name, k>>))
                                         ELSE Found(list, k)
           P == {n \in 0 .. N : \A T \in SUBSET S : Cardinality(T) = n => Right(T)}
<1>2. N \in Nat
  BY FS_CardinalityType
<1>3. 0 \in P
  <2>1. \A T \in SUBSET S : Cardinality(T) = 0 => T = {}
    BY FS_Subset, FS_EmptySet
  <2>2. Right({})
    BY <1>1
  <2>3. 0 \in 0 .. N
    BY <1>2
  <2> HIDE DEF Right
  <2> QED
    BY <2>1, <2>2, <2>3
<1>4. ASSUME NEW n \in 1 .. N, n - 1 \in P PROVE n \in P
  <2> SUFFICES ASSUME NEW T \in SUBSET S, Cardinality(T) = n PROVE Right(T)
    <3>1. n \in 0 .. N
      BY <1>2
    <3> HIDE DEF Right
    <3> QED
      BY <3>1
  <2>1. IsFiniteSet(T) /\ T # {}
    BY FS_Subset, FS_EmptySet
  <2>2. PICK x \in T : F[T] = PutEntity(F[T \ {x}], x[2], Decided(l, r, d, x))
    BY <1>1, <2>1
  <2>3. PICK U \in SUBSET S : U = T \ {x}
    OBVIOUS
  <2>4. Cardinality(U) = n - 1
    BY <2>1, <2>3, FS_RemoveElement
  <2>5. Right(U)
    BY <1>4, <2>4
  <2>6. PICK old : old = F[U]
    OBVIOUS
  <2>7. PICK id : id = x[2]
    OBVIOUS
  <2>8. PICK found \in SUBSET E : found = Decided(l, r, d, x)
    OBVIOUS
  <2>9. old \in Seq(E) /\ \A y \in found : y.id = id
    BY <2>5, <2>6, <2>7, <2>8
  <2>10. LET new == PutEntity(old, id, found)
         IN /\ new \in Seq(E)
            /\ UniqueIds(old) => UniqueIds(new)
            /\ \A k : Found(new, k) = IF k = id THEN One(found) ELSE Found(old, k)
    BY <2>9, PutEntityPuts
  <2>11. /\ F[T] \in Seq(E)
         /\ UniqueIds(old) => UniqueIds(F[T])
         /\ \A k : Found(F[T], k) = IF k = id THEN One(found) ELSE Found(old, k)
    BY <2>2, <2>3, <2>6, <2>7, <2>8, <2>10
  <2>12. x = <<name, id>>
    BY <2>7
  <2>13. \A k : Found(F[T], k) = IF <<name, k>> \in T THEN One(Decided(l, r, d, <<name, k>>))
                                 ELSE Found(list, k)
    <3> TAKE k
    <3>1. CASE k = id
      BY <2>8, <2>11, <2>12, <3>1
    <3>2. CASE k # id
      <4>1. <<name, k>> # x
        BY <2>12, <3>2
      <4>2. <<name, k>> \in U <=> <<name, k>> \in T
        BY <2>3, <4>1
      <4> QED
        BY <2>5, <2>6, <2>11, <3>2, <4>2
    <3> QED
      BY <3>1, <3>2
  <2> QED
    BY <2>5, <2>6, <2>11, <2>13
<1>5. Right(S)
  <2> HIDE DEF P
  <2>1. 0 .. N \subseteq P
    BY <1>2, <1>3, <1>4, StepByStep
  <2>2. N \in P
    BY <1>2, <2>1
  <2> HIDE DEF Right
  <2> QED
    BY <2>2 DEF P
<1> QED
  BY <1>1, <1>5 DEF AsDecided
-----------------------------------------------------------------------------
(* What merged lists hold *)

LEMMA ConcatUnique ==
    ASSUME NEW E, NEW s \in Seq(E), NEW t \in Seq(E), UniqueIds(s), UniqueIds(t),
           Ids(s) \cap Ids(t) = {}
    PROVE  UniqueIds(s \o t) /\ Ids(s \o t) = Ids(s) \cup Ids(t) /\ s \o t \in Seq(E)
<1> DEFINE m == Len(s)
           n == Len(t)
           u == s \o t
<1>1. m \in Nat /\ DOMAIN s = 1 .. m /\ n \in Nat /\ DOMAIN t = 1 .. n
  BY LenProperties
<1>2. /\ u \in Seq(E) /\ Len(u) = m + n
      /\ \A i \in 1 .. (m + n) : u[i] = IF i <= m THEN s[i] ELSE t[i - m]
  BY ConcatProperties
<1>3. DOMAIN u = 1 .. (m + n)
  BY <1>2, LenProperties
<1>4. Entries(u) = Entries(s) \cup Entries(t)
  BY ConcatEntries
<1> HIDE DEF m, n, u
<1>5. Ids(u) = Ids(s) \cup Ids(t)
  BY <1>4 DEF Ids
<1>6. ASSUME NEW i \in DOMAIN s, NEW j \in DOMAIN t PROVE s[i].id # t[j].id
  BY DEF Ids, Entries
<1>7. ASSUME NEW i \in 1 .. (m + n), NEW j \in 1 .. (m + n), u[i].id = u[j].id PROVE i = j
  <2>1. CASE i <= m /\ j <= m
    <3>1. i \in 1 .. m /\ j \in 1 .. m /\ u[i] = s[i] /\ u[j] = s[j]
      BY <1>1, <1>2, <2>1
    <3> QED
      BY <1>1, <1>7, <3>1 DEF UniqueIds
  <2>2. CASE ~(i <= m) /\ ~(j <= m)
    <3>1. i - m \in 1 .. n /\ j - m \in 1 .. n /\ u[i] = t[i - m] /\ u[j] = t[j - m]
      BY <1>1, <1>2, <2>2
    <3>2. i - m = j - m
      BY <1>1, <1>7, <3>1 DEF UniqueIds
    <3> QED
      BY <1>1, <3>2
  <2>3. CASE i <= m /\ ~(j <= m)
    <3>1. i \in 1 .. m /\ j - m \in 1 .. n /\ u[i] = s[i] /\ u[j] = t[j - m]
      BY <1>1, <1>2, <2>3
    <3> QED
      BY <1>1, <1>6, <1>7, <3>1
  <2>4. CASE ~(i <= m) /\ j <= m
    <3>1. i - m \in 1 .. n /\ j \in 1 .. m /\ u[i] = t[i - m] /\ u[j] = s[j]
      BY <1>1, <1>2, <2>4
    <3> QED
      BY <1>1, <1>6, <1>7, <3>1
  <2> QED
    BY <2>1, <2>2, <2>3, <2>4
<1> QED
  BY <1>2, <1>3, <1>5, <1>7 DEF UniqueIds, u

LEMMA SubUnique ==
    ASSUME NEW E, NEW list \in Seq(E), NEW I \in SUBSET DOMAIN list, UniqueIds(list)
    PROVE  UniqueIds(Sub(list, I)) /\ Ids(Sub(list, I)) = {list[i].id : i \in I}
<1>1. I \in SUBSET Int /\ IsFiniteSet(I)
  BY Places
<1>2. DOMAIN Sub(list, I) = 1 .. Cardinality(I)
  BY <1>1, SubAt
<1>3. \A n \in 1 .. Cardinality(I) : \E i \in I :
         Cardinality(Upto(I, i)) = n /\ Sub(list, I)[n] = list[i]
  BY <1>1, SubAt
<1>4. Entries(Sub(list, I)) = {list[i] : i \in I}
  BY SubIsList
<1> QED
  BY <1>2, <1>3, <1>4 DEF UniqueIds, Ids

\* Every id any of the three has, once.
LEMMA AllIdsApart ==
    ASSUME NEW E, NEW b \in Seq(E), NEW l \in Seq(E), NEW r \in Seq(E),
           UniqueIds(b), UniqueIds(l), UniqueIds(r)
    PROVE  LET all == AllIds(b, l, r)
           IN \A i, j \in DOMAIN all : all[i] = all[j] => i = j
<1> DEFINE I == {i \in DOMAIN l : l[i].id \notin Ids(b)}
           J == {i \in DOMAIN r : r[i].id \notin Ids(b) \cup Ids(l)}
           L == Sub(l, I)
           R == Sub(r, J)
           bL == b \o L
           list == bL \o R
<1>1. AllIds(b, l, r) = [i \in DOMAIN list |-> list[i].id]
  BY DEF AllIds, Filter
<1>2. L \in Seq(E) /\ R \in Seq(E)
  BY SubIsList
<1>3. UniqueIds(L) /\ Ids(L) = {l[i].id : i \in I}
  BY SubUnique
<1>4. UniqueIds(R) /\ Ids(R) = {r[i].id : i \in J}
  BY SubUnique
<1> HIDE DEF L, R
<1>5. Ids(b) \cap Ids(L) = {} /\ Ids(L) \subseteq Ids(l)
  BY <1>3 DEF Ids, Entries
<1>6. UniqueIds(bL) /\ Ids(bL) = Ids(b) \cup Ids(L) /\ bL \in Seq(E)
  BY <1>2, <1>3, <1>5, ConcatUnique
<1> HIDE DEF bL
<1>7. Ids(bL) \cap Ids(R) = {}
  BY <1>4, <1>5, <1>6
<1>8. UniqueIds(list)
  BY <1>2, <1>4, <1>6, <1>7, ConcatUnique
<1> HIDE DEF list
<1> QED
  BY <1>1, <1>8 DEF UniqueIds

LEMMA FoundOne ==
    ASSUME NEW list, UniqueIds(list), NEW id
    PROVE  /\ \A x, y \in Found(list, id) : x = y
           /\ One(Found(list, id)) = Found(list, id)
<1>1. \A x, y \in Found(list, id) : x = y
  BY OneEntry DEF Found
<1>2. Found(list, id) # {} => The(Found(list, id)) \in Found(list, id)
  BY DEF The
<1> QED
  BY <1>1, <1>2 DEF One

\* The merged list has, under each id, what mergeScalar picks.
LEMMA MergedHas ==
    ASSUME NEW E, NEW b \in Seq(E), NEW l \in Seq(E), NEW r \in Seq(E),
           UniqueIds(b), UniqueIds(l), UniqueIds(r)
    PROVE  LET list == MergeEntities(b, l, r)
           IN /\ list \in Seq(E) /\ UniqueIds(list)
              /\ \A id : Found(list, id) = Pick(b, l, r, id)
<1> DEFINE pick(id) == Pick(b, l, r, id)
           all == AllIds(b, l, r)
           I == {i \in DOMAIN all : pick(all[i]) # {}}
           ids == Sub(all, I)
           list == [i \in DOMAIN ids |-> The(pick(ids[i]))]
<1>1. PICK X : all \in Seq(X) /\ Entries(all) = Ids(b) \cup Ids(l) \cup Ids(r)
  BY AllIdsAreAll
<1>2. MergeEntities(b, l, r) = list
  BY DEF MergeEntities, Filter, Pick
<1>3. ASSUME NEW id
      PROVE  /\ pick(id) \in {Found(b, id), Found(l, id), Found(r, id)}
             /\ One(pick(id)) = pick(id)
             /\ \A x \in pick(id) : x.id = id /\ x \in E
  <2>1. pick(id) \in {Found(b, id), Found(l, id), Found(r, id)}
    BY DEF Pick, MergeScalar
  <2>2. One(pick(id)) = pick(id)
    BY <2>1, FoundOne
  <2>3. Entries(b) \subseteq E /\ Entries(l) \subseteq E /\ Entries(r) \subseteq E
    BY EntriesFinite
  <2> QED
    BY <2>1, <2>2, <2>3 DEF Found
<1>4. \A i, j \in DOMAIN all : all[i] = all[j] => i = j
  BY AllIdsApart
<1> HIDE DEF all, pick
<1>5. I \in SUBSET Int /\ IsFiniteSet(I)
  BY <1>1, Places
<1>6. ids \in Seq(X) /\ Entries(ids) = {all[i] : i \in I}
  BY <1>1, SubIsList
<1>7. \A n \in DOMAIN ids : \E i \in I : Cardinality(Upto(I, i)) = n /\ ids[n] = all[i]
  <2> HIDE DEF I
  <2>1. DOMAIN Sub(all, I) = 1 .. Cardinality(I)
    BY <1>5, SubAt
  <2>2. \A n \in 1 .. Cardinality(I) : \E i \in I :
           Cardinality(Upto(I, i)) = n /\ Sub(all, I)[n] = all[i]
    BY <1>5, SubAt
  <2> QED
    BY <2>1, <2>2
<1> HIDE DEF ids
<1>8. \A m, n \in DOMAIN ids : ids[m] = ids[n] => m = n
  BY <1>4, <1>7
<1>9. ASSUME NEW n \in DOMAIN ids
      PROVE  list[n] \in E /\ list[n].id = ids[n] /\ pick(ids[n]) = {list[n]}
  <2>1. pick(ids[n]) # {}
    BY <1>7
  <2>2. list[n] = The(pick(ids[n]))
    OBVIOUS
  <2>3. pick(ids[n]) = {list[n]}
    BY <1>3, <2>1, <2>2 DEF One
  <2> QED
    BY <1>3, <2>3
<1>10. list \in Seq(E)
  <2>1. list \in [DOMAIN ids -> E]
    BY <1>9
  <2> HIDE DEF list
  <2> QED
    BY <1>6, <2>1, RevisedList
<1>11. DOMAIN list = DOMAIN ids
  OBVIOUS
<1> HIDE DEF list
<1>12. UniqueIds(list)
  BY <1>8, <1>9, <1>11 DEF UniqueIds
<1>13. ASSUME NEW id PROVE Found(list, id) = pick(id)
  <2>1. CASE pick(id) = {}
    <3>1. \A n \in DOMAIN ids : ids[n] # id
      BY <1>7, <2>1
    <3> QED
      BY <1>9, <1>11, <2>1, <3>1 DEF Found, Entries
  <2>2. CASE pick(id) # {}
    <3>1. id \in Ids(b) \cup Ids(l) \cup Ids(r)
      BY <1>3, <2>2 DEF Found, Ids
    <3>2. PICK i \in DOMAIN all : all[i] = id
      BY <1>1, <3>1 DEF Entries
    <3>3. i \in I
      BY <2>2, <3>2
    <3>4. PICK n \in DOMAIN ids : ids[n] = id
      BY <1>6, <3>2, <3>3 DEF Entries
    <3>5. pick(id) = {list[n]} /\ list[n].id = id
      BY <1>9, <3>4
    <3>6. \A m \in DOMAIN ids : list[m].id = id => list[m] = list[n]
      BY <1>8, <1>9, <3>4
    <3> QED
      BY <1>11, <3>5, <3>6 DEF Found, Entries
  <2> QED
    BY <2>1, <2>2
<1> QED
  BY <1>2, <1>10, <1>12, <1>13 DEF pick

\* Shared profiles in which an id names one entry.
Three(V, b, l, r) ==
    \A s \in {b, l, r} : s \in SharedProfile(V) /\ UniqueIds(s.groups) /\ UniqueIds(s.shortcuts)

Entry(V, name) == IF name = "groups" THEN Group(V) ELSE Shortcut(V)

LEMMA ListsOf ==
    ASSUME NEW V, NEW s \in SharedProfile(V), NEW name \in {"groups", "shortcuts"}
    PROVE  /\ s[name] \in Seq(Entry(V, name))
           /\ IsFiniteSet(Ids(s[name]))
           /\ \A k : /\ Found(s[name], k) \in SUBSET Entry(V, name)
                     /\ \A x \in Found(s[name], k) : x.id = k
                     /\ Found(s[name], k) # {} => k \in Ids(s[name])
<1>1. CASE name = "groups"
  <2>1. s.groups \in Seq(Group(V))
    BY DEF SharedProfile
  <2>2. \A x \in Group(V) : x.id \in Int
    BY DEF Group
  <2>3. IsFiniteSet(Ids(s.groups)) /\ Entries(s.groups) \in SUBSET Group(V)
    BY <2>1, <2>2, IdsFinite, EntriesFinite
  <2> QED
    BY <1>1, <2>1, <2>3 DEF Entry, Found, Ids
<1>2. CASE name = "shortcuts"
  <2>1. s.shortcuts \in Seq(Shortcut(V))
    BY DEF SharedProfile
  <2>2. \A x \in Shortcut(V) : x.id \in Int
    BY DEF Shortcut
  <2>3. IsFiniteSet(Ids(s.shortcuts)) /\ Entries(s.shortcuts) \in SUBSET Shortcut(V)
    BY <2>1, <2>2, IdsFinite, EntriesFinite
  <2> QED
    BY <1>2, <2>1, <2>3 DEF Entry, Found, Ids
<1> QED
  BY <1>1, <1>2

\* The user is asked about an entry where the sides disagree about it.
AskedOf(b, l, r, name) == {path \in Conflicts(b, l, r) : path[1] = name}

LEMMA EntryConflicts ==
    ASSUME NEW V, NEW b \in SharedProfile(V), NEW l \in SharedProfile(V), NEW r \in SharedProfile(V),
           NEW name \in {"groups", "shortcuts"}
    PROVE  /\ IsFiniteSet(AskedOf(b, l, r, name))
           /\ \A x \in AskedOf(b, l, r, name) : x = <<name, x[2]>>
           /\ \A k : /\ <<name, k>> \in AskedOf(b, l, r, name) <=> <<name, k>> \in Conflicts(b, l, r)
                     /\ <<name, k>> \in Conflicts(b, l, r) <=>
                          Disagree(Found(b[name], k), Found(l[name], k), Found(r[name], k))
<1> DEFINE ids(f) == Ids(b[f]) \cup Ids(l[f]) \cup Ids(r[f])
           paths == ({"groups"} \X ids("groups")) \cup ({"shortcuts"} \X ids("shortcuts"))
                    \cup {<<f, f>> : f \in Scalars}
           S == {path \in Conflicts(b, l, r) : path[1] = name}
<1>1. Conflicts(b, l, r) = {path \in paths : Disagree(At(b, path), At(l, path), At(r, path))}
                           \cup (IF MergeIds(b.ids, l.ids, r.ids).conflict THEN {<<"ids", "ids">>} ELSE {})
                           \cup {<<"groupId", x.id>> : x \in Homeless(Merged(b, l, r))}
  BY DEF Conflicts
<1>2. name # "ids" /\ name # "groupId" /\ name \notin Scalars
  BY DEF Scalars
<1>3. S = {path \in paths : path[1] = name /\ Disagree(At(b, path), At(l, path), At(r, path))}
  BY <1>1, <1>2
<1>4. {path \in paths : path[1] = name} = {name} \X ids(name)
  BY <1>2
<1> HIDE DEF paths
<1>5. S = {path \in {name} \X ids(name) : Disagree(At(b, path), At(l, path), At(r, path))}
  BY <1>3, <1>4
<1>6. IsFiniteSet(ids(name))
  <2>1. IsFiniteSet(Ids(b[name])) /\ IsFiniteSet(Ids(l[name])) /\ IsFiniteSet(Ids(r[name]))
    BY ListsOf
  <2>2. IsFiniteSet(Ids(b[name]) \cup Ids(l[name]))
    BY <2>1, FS_Union
  <2> QED
    BY <2>1, <2>2, FS_Union
<1>7. ASSUME NEW k
      PROVE  <<name, k>> \in S <=> Disagree(Found(b[name], k), Found(l[name], k), Found(r[name], k))
  <2>1. \A s : At(s, <<name, k>>) = Found(s[name], k)
    BY DEF At
  <2>2. Disagree(Found(b[name], k), Found(l[name], k), Found(r[name], k)) => k \in ids(name)
    <3>1. \A s \in {b, l} : Found(s[name], k) # {} => k \in Ids(s[name])
      BY ListsOf
    <3> QED
      BY <3>1 DEF Disagree
  <2> QED
    BY <1>5, <2>1, <2>2
<1> HIDE DEF ids
<1>8. IsFiniteSet({name} \X ids(name))
  BY <1>6, FS_Singleton, FS_Product
<1>9. IsFiniteSet(S)
  BY <1>5, <1>8, FS_Subset
<1>10. \A x \in S : x = <<name, x[2]>>
  BY <1>5
<1>11. \A k : <<name, k>> \in S <=> <<name, k>> \in Conflicts(b, l, r)
  OBVIOUS
<1>12. S = AskedOf(b, l, r, name)
  BY DEF AskedOf
<1> HIDE DEF S
<1> QED
  BY <1>7, <1>9, <1>10, <1>11, <1>12

\* What the answers leave under an id.
Held(b, l, r, answer, name, k) ==
    IF <<name, k>> \in Conflicts(b, l, r) THEN Decided(l, r, answer, <<name, k>>)
    ELSE Pick(b[name], l[name], r[name], k)

Settles(b, l, r, answer, name) ==
    Settled(Merged(b, l, r)[name], l, r, answer, {path \in DOMAIN answer : path[1] = name})

LEMMA MergedList ==
    ASSUME NEW V, NEW b \in SharedProfile(V), NEW l, NEW r, NEW name \in {"groups", "shortcuts"}
    PROVE  Merged(b, l, r)[name] = MergeEntities(b[name], l[name], r[name])
<1>1. {"groups", "shortcuts"} \subseteq DOMAIN b
  BY DEF SharedProfile
<1> QED
  BY <1>1 DEF Merged

LEMMA SettlesHeld ==
    ASSUME NEW V, NEW b, NEW l, NEW r, Three(V, b, l, r), NEW answer \in Answers(b, l, r),
           NEW name \in {"groups", "shortcuts"}
    PROVE  LET list == Settles(b, l, r, answer, name)
           IN /\ list \in Seq(Entry(V, name)) /\ UniqueIds(list)
              /\ \A k : Found(list, k) = Held(b, l, r, answer, name, k)
<1> DEFINE S == AskedOf(b, l, r, name)
           E == Entry(V, name)
<1>1. b \in SharedProfile(V) /\ l \in SharedProfile(V) /\ r \in SharedProfile(V)
  BY DEF Three
<1>2. \A s \in {b, l, r} : s[name] \in Seq(E) /\ UniqueIds(s[name])
  BY <1>1, ListsOf DEF Three
<1>3. PICK list : list = MergeEntities(b[name], l[name], r[name])
  OBVIOUS
<1>4. /\ list \in Seq(E) /\ UniqueIds(list)
      /\ \A k : Found(list, k) = Pick(b[name], l[name], r[name], k)
  BY <1>2, <1>3, MergedHas
<1>5. /\ IsFiniteSet(S) /\ \A x \in S : x = <<name, x[2]>>
      /\ \A k : <<name, k>> \in S <=> <<name, k>> \in Conflicts(b, l, r)
  BY <1>1, EntryConflicts
<1>6. ASSUME NEW k
      PROVE  /\ Decided(l, r, answer, <<name, k>>) \in {Found(l[name], k), Found(r[name], k)}
             /\ Decided(l, r, answer, <<name, k>>) \in SUBSET E
             /\ \A y \in Decided(l, r, answer, <<name, k>>) : y.id = k
             /\ One(Decided(l, r, answer, <<name, k>>)) = Decided(l, r, answer, <<name, k>>)
  <2>1. Decided(l, r, answer, <<name, k>>) \in {Found(l[name], k), Found(r[name], k)}
    BY DEF Decided, At
  <2>2. One(Found(l[name], k)) = Found(l[name], k) /\ One(Found(r[name], k)) = Found(r[name], k)
    BY <1>2, FoundOne
  <2>3. Found(l[name], k) \in SUBSET E /\ \A y \in Found(l[name], k) : y.id = k
    BY <1>1, ListsOf
  <2>4. Found(r[name], k) \in SUBSET E /\ \A y \in Found(r[name], k) : y.id = k
    BY <1>1, ListsOf
  <2> HIDE DEF E
  <2> QED
    BY <2>1, <2>2, <2>3, <2>4
<1> HIDE DEF S, E
<1>7. Decides(E, l, r, answer, name, S)
  <2> SUFFICES ASSUME NEW x \in S
               PROVE  /\ x = <<name, x[2]>> /\ Decided(l, r, answer, x) \in SUBSET E
                      /\ \A y \in Decided(l, r, answer, x) : y.id = x[2]
    BY DEF Decides
  <2>1. PICK k : k = x[2] /\ x = <<name, k>>
    BY <1>5
  <2> QED
    BY <1>6, <2>1
<1>8. PICK new : new = Settled(list, l, r, answer, S)
  OBVIOUS
<1>9. AsDecided(E, list, new, l, r, answer, name, S)
  BY <1>4, <1>5, <1>7, <1>8, SettledEntries
<1>10. /\ new \in Seq(E) /\ UniqueIds(new)
       /\ \A k : Found(new, k) = IF <<name, k>> \in S THEN One(Decided(l, r, answer, <<name, k>>))
                                 ELSE Found(list, k)
  BY <1>4, <1>9 DEF AsDecided
<1>11. \A k : Found(new, k) = Held(b, l, r, answer, name, k)
  BY <1>4, <1>5, <1>6, <1>10 DEF Held
<1>12. Settles(b, l, r, answer, name) = new
  <2>1. DOMAIN answer = Conflicts(b, l, r)
    BY DEF Answers
  <2>2. S = {path \in DOMAIN answer : path[1] = name}
    BY <2>1 DEF S, AskedOf
  <2> QED
    BY <1>1, <1>3, <1>8, <2>2, MergedList DEF Settles
<1> QED
  BY <1>10, <1>11, <1>12 DEF E
\* SetToSeq lists the set.
LEMMA ListOfSet ==
    ASSUME NEW V, NEW S \in SUBSET V, IsFiniteSet(S)
    PROVE  SetToSeq(S) \in Seq(V) /\ (S = {} => SetToSeq(S) = <<>>)
<1> DEFINE n == Cardinality(S)
           s == SetToSeq(S)
<1>1. n \in Nat /\ ExistsBijection(1 .. n, S)
  BY FS_CardinalityType
<1>2. s \in [1 .. n -> S]
  <2>1. \E f \in [1 .. n -> S] : IsInjective(f)
    BY <1>1 DEF ExistsBijection, Bijection, Injection, IsInjective
  <2> QED
    BY <2>1 DEF SetToSeq
<1> HIDE DEF s
<1>3. s \in Seq(V)
  BY <1>1, <1>2
<1>4. S = {} => s = <<>>
  <2>1. S = {} => n = 0
    BY FS_EmptySet
  <2>2. Len(s) = n
    BY <1>1, <1>2, <1>3, LenProperties
  <2> QED
    BY <1>3, <2>1, <2>2, EmptySeq
<1> QED
  BY <1>3, <1>4 DEF s

LEMMA TwinsFinite ==
    ASSUME NEW S, IsFiniteSet(S), NEW f, DOMAIN f = S
    PROVE  IsFiniteSet({f[x] : x \in S})
<1> DEFINE T == {f[x] : x \in S}
           g == [x \in S |-> f[x]]
<1>1. g \in Surjection(S, T)
  BY DEF Surjection
<1> HIDE DEF g, T
<1>2. IsFiniteSet(T)
  BY <1>1, FS_Surjection
<1> QED
  BY <1>2 DEF T

\* The copies keepBothEntity adds are entries of the list they are added to.
LEMMA CopiesList ==
    ASSUME NEW V, NEW r \in SharedProfile(V), NEW name \in {"groups", "shortcuts"}, NEW both
    PROVE  /\ Copies(r, name, both) \in Seq(Entry(V, name))
           /\ both = {} => Copies(r, name, both) = <<>>
<1> DEFINE twins == UNION {Found(r[name], path[2]) : path \in {p \in both : p[1] = name}}
           children == UNION {LiveIn(r, path[2]) : path \in {p \in both : p[1] = "groups"}}
           f == [x \in twins |-> [x EXCEPT !.id = CopyId(@)]]
           g == [x \in children |-> [x EXCEPT !.id = ChildCopyId(@), !.group = CopyId(@)]]
           A == {f[x] : x \in twins}
           B == {g[x] : x \in children}
           E == Entry(V, name)
           S == A \cup IF name = "groups" THEN {} ELSE B
<1>1. Copies(r, name, both) = SetToSeq(S)
  <2>1. A = {[x EXCEPT !.id = CopyId(@)] : x \in twins}
    OBVIOUS
  <2>2. B = {[x EXCEPT !.id = ChildCopyId(@), !.group = CopyId(@)] : x \in children}
    OBVIOUS
  <2> HIDE DEF A, B, f, g
  <2> QED
    BY <2>1, <2>2 DEF Copies
<1>2. twins \subseteq Entries(r[name]) /\ children \subseteq Entries(r.shortcuts)
  BY DEF Found, LiveIn, Live
<1>3. r[name] \in Seq(E) /\ r.shortcuts \in Seq(Shortcut(V))
  BY ListsOf DEF SharedProfile
<1>4. IsFiniteSet(Entries(r[name])) /\ Entries(r[name]) \subseteq E
  BY <1>3, EntriesFinite
<1>5. IsFiniteSet(Entries(r.shortcuts)) /\ Entries(r.shortcuts) \subseteq Shortcut(V)
  BY <1>3, EntriesFinite
<1>6. IsFiniteSet(A) /\ A \subseteq E
  <2>1. IsFiniteSet(twins)
    BY <1>2, <1>4, FS_Subset
  <2>2. DOMAIN f = twins
    OBVIOUS
  <2>3. \A x \in E : [x EXCEPT !.id = CopyId(@)] \in E
    <3>1. \A x \in Group(V) : [x EXCEPT !.id = CopyId(@)] \in Group(V)
      BY DEF Group, CopyId
    <3>2. \A x \in Shortcut(V) : [x EXCEPT !.id = CopyId(@)] \in Shortcut(V)
      BY DEF Shortcut, CopyId
    <3> QED
      BY <3>1, <3>2 DEF Entry
  <2>4. A \subseteq E
    BY <1>2, <1>4, <2>3
  <2> HIDE DEF twins, f
  <2> QED
    BY <2>1, <2>2, <2>4, TwinsFinite
<1>7. IsFiniteSet(B) /\ B \subseteq Shortcut(V)
  <2>1. IsFiniteSet(children)
    BY <1>2, <1>5, FS_Subset
  <2>2. DOMAIN g = children
    OBVIOUS
  <2>3. ASSUME NEW x \in Shortcut(V)
        PROVE  [x EXCEPT !.id = ChildCopyId(@), !.group = CopyId(@)] \in Shortcut(V)
    <3>1. CopyId(x.group) \in Int /\ ChildCopyId(x.id) \in Int
      BY DEF Shortcut, CopyId, ChildCopyId
    <3> QED
      BY <3>1 DEF Shortcut
  <2>4. B \subseteq Shortcut(V)
    BY <1>2, <1>5, <2>3
  <2> HIDE DEF children, g
  <2> QED
    BY <2>1, <2>2, <2>4, TwinsFinite
<1>8. both = {} => twins = {} /\ children = {}
  OBVIOUS
<1>9. both = {} => A = {} /\ B = {}
  BY <1>8
<1> HIDE DEF A, B, E
<1>10. IsFiniteSet(S)
  BY <1>6, <1>7, FS_Union, FS_EmptySet
<1>11. S \in SUBSET E
  BY <1>6, <1>7 DEF E, Entry
<1>12. both = {} => S = {}
  BY <1>9
<1> HIDE DEF S
<1> QED
  BY <1>1, <1>10, <1>11, <1>12, ListOfSet DEF E

\* The shortcut with the groupId that was decided on.
Homed(b, l, r, answer, x) ==
    IF <<"groupId", x.id>> \in DOMAIN answer
    THEN [x EXCEPT !.group = The(Decided(l, r, answer, <<"groupId", x.id>>))] ELSE x

\* resolveMergeConflicts, part by part.
ResultOf(b, l, r, answer) ==
    LET merged == Merged(b, l, r)
        both == {path \in DOMAIN answer : answer[path] = "both"}
        settle(name) == Settles(b, l, r, answer, name) \o Copies(r, name, both)
    IN [f \in DOMAIN b |->
            IF f = "groups" THEN settle(f)
            ELSE IF f = "shortcuts"
            THEN [i \in DOMAIN settle(f) |-> Homed(b, l, r, answer, settle(f)[i])]
            ELSE IF <<f, f>> \in DOMAIN answer THEN The(Decided(l, r, answer, <<f, f>>))
            ELSE merged[f]]

Fails(b, l, r, answer) ==
    LET both == {path \in DOMAIN answer : answer[path] = "both"}
    IN \/ \E path \in both : At(r, path) = {}
       \/ \E path \in DOMAIN answer :
             /\ path[1] = "groupId"
             /\ \/ path[2] \notin Ids(Settles(b, l, r, answer, "shortcuts") \o Copies(r, "shortcuts", both))
                \/ Decided(l, r, answer, path) = {}

LEMMA ResolvedInParts ==
    ASSUME NEW b, NEW l, NEW r, NEW answer \in Answers(b, l, r)
    PROVE  LET result == ResultOf(b, l, r, answer)
           IN Resolved(b, l, r, answer) = IF Fails(b, l, r, answer) THEN None
                                          ELSE IF ~WellFormed(result) \/ Homeless(result) # {} THEN None
                                          ELSE result
<1> DEFINE paths == DOMAIN answer
           both == {path \in paths : answer[path] = "both"}
           merged == Merged(b, l, r)
           settle(name) == Settled(merged[name], l, r, answer, {path \in paths : path[1] = name})
                           \o Copies(r, name, both)
           shortcuts == settle("shortcuts")
           home(x) == IF <<"groupId", x.id>> \in paths
                      THEN [x EXCEPT !.group = The(Decided(l, r, answer, <<"groupId", x.id>>))] ELSE x
           fails == \/ \E path \in both : At(r, path) = {}
                    \/ \E path \in paths : /\ path[1] = "groupId"
                                           /\ \/ path[2] \notin Ids(shortcuts)
                                              \/ Decided(l, r, answer, path) = {}
           result == [f \in DOMAIN b |->
               IF f = "groups" THEN settle(f)
               ELSE IF f = "shortcuts" THEN ReviseAll(shortcuts, home)
               ELSE IF <<f, f>> \in paths THEN The(Decided(l, r, answer, <<f, f>>))
               ELSE merged[f]]
<1>1. Resolved(b, l, r, answer) = IF fails THEN None
                                  ELSE IF ~WellFormed(result) \/ Homeless(result) # {} THEN None
                                  ELSE result
  BY DEF Resolved
<1>2. fails <=> Fails(b, l, r, answer)
  BY DEF Fails, Settles
<1>3. result = ResultOf(b, l, r, answer)
  BY DEF ResultOf, Settles, ReviseAll, Homed
<1> HIDE DEF fails, result
<1> QED
  BY <1>1, <1>2, <1>3

\* What a result holds: an entry for each that the answers leave, its shortcuts
\* in the groups decided on, and none of them without a group.
Outcome(b, l, r, answer, s) ==
    /\ UniqueIds(s.groups) /\ UniqueIds(s.shortcuts) /\ Homeless(s) = {}
    /\ \A k : Held(b, l, r, answer, "groups", k) \subseteq Entries(s.groups)
    /\ \A k : \A x \in Held(b, l, r, answer, "shortcuts", k) :
          \E y \in Entries(s.shortcuts) :
             y.id = k /\ y.del = x.del /\ y.group = Homed(b, l, r, answer, x).group
    /\ \A path \in Conflicts(b, l, r) : path[1] = "groupId" => Decided(l, r, answer, path) # {}

LEMMA ResolvedHolds ==
    ASSUME NEW V, NEW b, NEW l, NEW r, Three(V, b, l, r), NEW answer \in Answers(b, l, r),
           Resolved(b, l, r, answer) # None
    PROVE  Outcome(b, l, r, answer, Resolved(b, l, r, answer))
<1> DEFINE both == {path \in DOMAIN answer : answer[path] = "both"}
           G == Settles(b, l, r, answer, "groups")
           L == Settles(b, l, r, answer, "shortcuts")
           GC == Copies(r, "groups", both)
           LC == Copies(r, "shortcuts", both)
           list == L \o LC
           homed == [i \in DOMAIN list |-> Homed(b, l, r, answer, list[i])]
           result == ResultOf(b, l, r, answer)
<1>1. r \in SharedProfile(V) /\ {"groups", "shortcuts"} \subseteq DOMAIN b
      /\ DOMAIN answer = Conflicts(b, l, r)
  BY DEF Three, SharedProfile, Answers
<1>2. /\ Resolved(b, l, r, answer) = result /\ ~Fails(b, l, r, answer)
      /\ WellFormed(result) /\ Homeless(result) = {}
  BY ResolvedInParts
<1>3. result.groups = G \o GC /\ result.shortcuts = homed
  BY <1>1 DEF ResultOf
<1>4. ~Fails(b, l, r, answer) => \A path \in Conflicts(b, l, r) :
         path[1] = "groupId" => Decided(l, r, answer, path) # {}
  BY <1>1 DEF Fails
<1> HIDE DEF result
<1>5. G \in Seq(Group(V)) /\ \A k : Found(G, k) = Held(b, l, r, answer, "groups", k)
  BY SettlesHeld DEF Entry
<1>6. L \in Seq(Shortcut(V)) /\ \A k : Found(L, k) = Held(b, l, r, answer, "shortcuts", k)
  BY SettlesHeld DEF Entry
<1>7. GC \in Seq(Group(V)) /\ LC \in Seq(Shortcut(V))
  BY <1>1, CopiesList DEF Entry
<1> HIDE DEF G, L, GC, LC
<1>8. G \o GC \in Seq(Group(V)) /\ Entries(G \o GC) = Entries(G) \cup Entries(GC)
  BY <1>5, <1>7, ConcatEntries
<1>9. list \in Seq(Shortcut(V)) /\ Entries(list) = Entries(L) \cup Entries(LC)
  BY <1>6, <1>7, ConcatEntries
<1> HIDE DEF list
<1>10. homed \in Seq(Entries(homed)) /\ DOMAIN homed = DOMAIN list
  <2>1. homed \in [DOMAIN list -> Entries(homed)]
    BY DEF Entries
  <2>2. DOMAIN homed = DOMAIN list
    OBVIOUS
  <2> HIDE DEF homed
  <2> QED
    BY <1>9, <2>1, <2>2, RevisedList
<1>11. UniqueIds(result.groups) /\ UniqueIds(result.shortcuts)
  <2>1. UniqueIds(G \o GC)
    BY <1>2, <1>3, <1>8, UniqueCounts DEF WellFormed
  <2> HIDE DEF homed
  <2>2. UniqueIds(homed)
    BY <1>2, <1>3, <1>10, UniqueCounts DEF WellFormed
  <2> QED
    BY <1>3, <2>1, <2>2
<1>12. \A k : Held(b, l, r, answer, "groups", k) \subseteq Entries(result.groups)
  BY <1>3, <1>5, <1>8 DEF Found
<1>13. ASSUME NEW k, NEW x \in Held(b, l, r, answer, "shortcuts", k)
       PROVE  \E y \in Entries(result.shortcuts) :
                 y.id = k /\ y.del = x.del /\ y.group = Homed(b, l, r, answer, x).group
  <2>1. x \in Entries(L) /\ x.id = k
    BY <1>6 DEF Found
  <2>2. PICK i \in DOMAIN list : list[i] = x
    BY <1>9, <2>1 DEF Entries
  <2>3. homed[i] \in Entries(homed) /\ homed[i] = Homed(b, l, r, answer, x)
    BY <1>10, <2>2 DEF Entries
  <2>4. x \in Shortcut(V)
    BY <1>6, <2>1, EntriesFinite
  <2>5. Homed(b, l, r, answer, x).id = k /\ Homed(b, l, r, answer, x).del = x.del
    BY <2>1, <2>4 DEF Homed, Shortcut
  <2> QED
    BY <1>3, <2>3, <2>5
<1> QED
  BY <1>2, <1>4, <1>11, <1>12, <1>13 DEF Outcome

\* A shortcut that is live on both sides, or on one and unknown to the other and
\* to the base.
Due(b, l, r, k) ==
    LET lives(s) == \E x \in Live(s.shortcuts) : x.id = k
    IN \/ lives(l) /\ lives(r)
       \/ lives(l) /\ k \notin Ids(r.shortcuts) \cup Ids(b.shortcuts)
       \/ lives(r) /\ k \notin Ids(l.shortcuts) \cup Ids(b.shortcuts)

LEMMA DueLives ==
    ASSUME NEW V, NEW b, NEW l, NEW r, Three(V, b, l, r), NEW answer \in Answers(b, l, r),
           Resolved(b, l, r, answer) # None, NEW k, Due(b, l, r, k)
    PROVE  \E y \in Live(Resolved(b, l, r, answer).shortcuts) : y.id = k
<1> DEFINE lives(s) == \E x \in Live(s.shortcuts) : x.id = k
           held == Held(b, l, r, answer, "shortcuts", k)
           B == Found(b.shortcuts, k)
           L == Found(l.shortcuts, k)
           R == Found(r.shortcuts, k)
<1>1. b \in SharedProfile(V) /\ l \in SharedProfile(V) /\ r \in SharedProfile(V)
      /\ UniqueIds(l.shortcuts) /\ UniqueIds(r.shortcuts)
  BY DEF Three
<1>2. ASSUME NEW s \in {l, r}, lives(s)
      PROVE  Found(s.shortcuts, k) # {} /\ \A x \in Found(s.shortcuts, k) : ~x.del
  <2>1. UniqueIds(s.shortcuts)
    BY <1>1
  <2>2. PICK y \in Live(s.shortcuts) : y.id = k
    BY <1>2
  <2>3. y \in Found(s.shortcuts, k) /\ ~y.del
    BY <2>2 DEF Live, Found
  <2>4. \A x \in Found(s.shortcuts, k) : x = y
    BY <2>1, <2>3, FoundOne
  <2> QED
    BY <2>3, <2>4
<1>3. ASSUME NEW s, k \notin Ids(s.shortcuts) PROVE Found(s.shortcuts, k) = {}
  BY <1>3 DEF Found, Ids
<1>4. held = IF Disagree(B, L, R) THEN Decided(l, r, answer, <<"shortcuts", k>>)
             ELSE MergeScalar(B, L, R)
  <2>1. <<"shortcuts", k>> \in Conflicts(b, l, r) <=>
           Disagree(Found(b["shortcuts"], k), Found(l["shortcuts"], k), Found(r["shortcuts"], k))
    BY <1>1, EntryConflicts
  <2> QED
    BY <2>1 DEF Held, Pick
<1>5. Decided(l, r, answer, <<"shortcuts", k>>) \in {L, R}
  BY DEF Decided, At
<1>6. held # {} /\ \A x \in held : ~x.del
  <2> HIDE DEF B, L, R, held
  <2>1. CASE lives(l) /\ lives(r)
    <3>1. \A S \in {L, R} : S # {} /\ \A x \in S : ~x.del
      BY <1>2, <2>1 DEF L, R
    <3>2. held \in {L, R}
      BY <1>4, <1>5 DEF MergeScalar
    <3> HIDE DEF lives
    <3> QED
      BY <3>1, <3>2
  <2>2. CASE lives(l) /\ k \notin Ids(r.shortcuts) \cup Ids(b.shortcuts)
    <3>1. L # {} /\ (\A x \in L : ~x.del) /\ R = {} /\ B = {}
      BY <1>2, <1>3, <2>2 DEF L, R, B
    <3> HIDE DEF lives
    <3> QED
      BY <1>4, <3>1 DEF Disagree, MergeScalar
  <2>3. CASE lives(r) /\ k \notin Ids(l.shortcuts) \cup Ids(b.shortcuts)
    <3>1. R # {} /\ (\A x \in R : ~x.del) /\ L = {} /\ B = {}
      BY <1>2, <1>3, <2>3 DEF L, R, B
    <3> HIDE DEF lives
    <3> QED
      BY <1>4, <3>1 DEF Disagree, MergeScalar
  <2> QED
    BY <2>1, <2>2, <2>3 DEF Due
<1>7. Outcome(b, l, r, answer, Resolved(b, l, r, answer))
  BY ResolvedHolds
<1>8. PICK x \in held : ~x.del
  BY <1>6
<1>9. PICK y \in Entries(Resolved(b, l, r, answer).shortcuts) : y.id = k /\ y.del = x.del
  BY <1>7, <1>8 DEF Outcome
<1> QED
  BY <1>8, <1>9 DEF Live

-----------------------------------------------------------------------------
(* Conflicts that can be resolved *)

\* What two devices have to merge: groups and shortcuts that the base had are there
\* still, if only as tombstones, and no list of wallpapers names a local image.
Merging(V, b, l, r) ==
    /\ Three(V, b, l, r)
    /\ \A s \in {l, r} :
          /\ Named(s) /\ Entries(s.ids) \cap LocalWallpaper = {}
          /\ Ids(b.groups) \subseteq Ids(s.groups) /\ Ids(b.shortcuts) \subseteq Ids(s.shortcuts)

HasLive(found) == \E x \in found : ~x.del

\* The groups that can be kept, and where a shortcut was on either side.
Kept(b, l, r) ==
    LiveIds(Merged(b, l, r).groups)
    \cup {g \in LiveIds(r.groups) : <<"groups", g>> \in Conflicts(b, l, r)}
HomesIn(s, k) == {y.group : y \in Found(s.shortcuts, k)}
Homes(l, r, k) == HomesIn(l, k) \cup HomesIn(r, k)
Gone(b, l, r, k) ==
    <<"shortcuts", k>> \in Conflicts(b, l, r) /\ \E y \in Found(r.shortcuts, k) : y.del
Housable(b, l, r) ==
    \A x \in Homeless(Merged(b, l, r)) :
        Homes(l, r, x.id) \cap Kept(b, l, r) # {} \/ Gone(b, l, r, x.id)

LEMMA LiveFound ==
    ASSUME NEW list, NEW g
    PROVE  g \in LiveIds(list) <=> HasLive(Found(list, g))
  BY DEF LiveIds, HasLive, Found, Live

LEMMA MergedFound ==
    ASSUME NEW V, NEW b, NEW l, NEW r, Three(V, b, l, r), NEW name \in {"groups", "shortcuts"}
    PROVE  /\ UniqueIds(Merged(b, l, r)[name])
           /\ \A k : Found(Merged(b, l, r)[name], k) = Pick(b[name], l[name], r[name], k)
<1>1. b \in SharedProfile(V) /\ l \in SharedProfile(V) /\ r \in SharedProfile(V)
  BY DEF Three
<1>2. Merged(b, l, r)[name] = MergeEntities(b[name], l[name], r[name])
  BY <1>1, MergedList
<1>3. /\ b[name] \in Seq(Entry(V, name)) /\ l[name] \in Seq(Entry(V, name))
      /\ r[name] \in Seq(Entry(V, name))
  BY <1>1, ListsOf
<1>4. UniqueIds(b[name]) /\ UniqueIds(l[name]) /\ UniqueIds(r[name])
  BY DEF Three
<1> QED
  BY <1>2, <1>3, <1>4, MergedHas

\* What is held under an id is what one of the sides has.
LEMMA HeldIs ==
    ASSUME NEW V, NEW b, NEW l, NEW r, Three(V, b, l, r), NEW answer,
           NEW name \in {"groups", "shortcuts"}, NEW k
    PROVE  LET L == Found(l[name], k)
               R == Found(r[name], k)
               merged == Found(Merged(b, l, r)[name], k)
               held == Held(b, l, r, answer, name, k)
           IN /\ merged \in {L, R} /\ held \in {L, R}
              /\ <<name, k>> \in Conflicts(b, l, r) =>
                    /\ held = IF answer[<<name, k>>] = "remote" THEN R ELSE L
                    /\ merged = L
                    /\ Found(b[name], k) = {} => L # {} /\ R # {}
              /\ <<name, k>> \notin Conflicts(b, l, r) => held = merged
<1>1. b \in SharedProfile(V) /\ l \in SharedProfile(V) /\ r \in SharedProfile(V)
  BY DEF Three
<1>2. <<name, k>> \in Conflicts(b, l, r) <=>
         Disagree(Found(b[name], k), Found(l[name], k), Found(r[name], k))
  BY <1>1, EntryConflicts
<1>3. Found(Merged(b, l, r)[name], k) =
         MergeScalar(Found(b[name], k), Found(l[name], k), Found(r[name], k))
  BY MergedFound DEF Pick
<1>4. Decided(l, r, answer, <<name, k>>) =
         IF answer[<<name, k>>] = "remote" THEN Found(r[name], k) ELSE Found(l[name], k)
  BY DEF Decided, At
<1>5. Held(b, l, r, answer, name, k) =
         IF <<name, k>> \in Conflicts(b, l, r) THEN Decided(l, r, answer, <<name, k>>)
         ELSE MergeScalar(Found(b[name], k), Found(l[name], k), Found(r[name], k))
  BY DEF Held, Pick
<1> QED
  BY <1>2, <1>3, <1>4, <1>5 DEF Disagree, MergeScalar

\* No entry that either side has is lost altogether.
LEMMA HeldThere ==
    ASSUME NEW V, NEW b, NEW l, NEW r, Merging(V, b, l, r), NEW answer,
           NEW name \in {"groups", "shortcuts"}, NEW k \in Ids(l[name]) \cup Ids(r[name])
    PROVE  Held(b, l, r, answer, name, k) # {}
<1> DEFINE B == Found(b[name], k)
           L == Found(l[name], k)
           R == Found(r[name], k)
           held == Held(b, l, r, answer, name, k)
<1>1. Three(V, b, l, r)
  BY DEF Merging
<1>2. /\ b \in SharedProfile(V) /\ l \in SharedProfile(V) /\ r \in SharedProfile(V)
      /\ Ids(b[name]) \subseteq Ids(l[name]) /\ Ids(b[name]) \subseteq Ids(r[name])
  BY <1>1 DEF Merging, Three
<1>3. \A s \in {b, l, r} : Found(s[name], k) # {} <=> k \in Ids(s[name])
  BY DEF Found, Ids
<1>4. B # {} => L # {} /\ R # {}
  BY <1>2, <1>3
<1>5. L # {} \/ R # {}
  BY <1>3
<1>6. <<name, k>> \in Conflicts(b, l, r) <=> Disagree(B, L, R)
  BY <1>2, EntryConflicts
<1>7. Decided(l, r, answer, <<name, k>>) \in {L, R}
  BY DEF Decided, At
<1>8. held = IF <<name, k>> \in Conflicts(b, l, r) THEN Decided(l, r, answer, <<name, k>>)
             ELSE MergeScalar(B, L, R)
  BY DEF Held, Pick
<1> SUFFICES held # {}
  OBVIOUS
<1> HIDE DEF B, L, R, held
<1>9. MergeScalar(B, L, R) = IF L = B THEN R ELSE L
  BY DEF MergeScalar
<1>10. CASE <<name, k>> \in Conflicts(b, l, r)
  <2>1. L # B /\ R # B /\ held \in {L, R}
    BY <1>6, <1>7, <1>8, <1>10 DEF Disagree
  <2>2. L # {} /\ R # {}
    BY <1>4, <2>1
  <2> QED
    BY <2>1, <2>2
<1>11. CASE <<name, k>> \notin Conflicts(b, l, r)
  <2>1. held = IF L = B THEN R ELSE L
    BY <1>8, <1>9, <1>11
  <2> QED
    BY <1>4, <1>5, <2>1
<1> QED
  BY <1>10, <1>11

\* Answers that resolve the conflicts house every shortcut that had no group.
LEMMA ResolvedIsHousable ==
    ASSUME NEW V, NEW b, NEW l, NEW r, Merging(V, b, l, r), NEW answer \in Answers(b, l, r),
           Resolved(b, l, r, answer) # None
    PROVE  Housable(b, l, r)
<1> SUFFICES ASSUME NEW x \in Homeless(Merged(b, l, r)), ~Gone(b, l, r, x.id)
             PROVE  Homes(l, r, x.id) \cap Kept(b, l, r) # {}
  BY DEF Housable
<1> DEFINE k == x.id
           s == Resolved(b, l, r, answer)
           path == <<"groupId", k>>
           held == Held(b, l, r, answer, "shortcuts", k)
           asked == Conflicts(b, l, r)
<1>0. Three(V, b, l, r) /\ DOMAIN answer = asked
  BY DEF Merging, Answers
<1>1. Outcome(b, l, r, answer, s)
  BY <1>0, ResolvedHolds
<1>2. path \in asked
  BY DEF Conflicts
<1>3. x \in Found(Merged(b, l, r).shortcuts, k) /\ ~x.del
  BY DEF Homeless, Live, Found
<1>4. UniqueIds(Merged(b, l, r).shortcuts) /\ UniqueIds(r.shortcuts)
  BY <1>0, MergedFound DEF Three
<1>5. held # {}
  <2>1. k \in Ids(l["shortcuts"]) \cup Ids(r["shortcuts"])
    <3>1. Found(Merged(b, l, r)["shortcuts"], k) \in {Found(l["shortcuts"], k), Found(r["shortcuts"], k)}
      BY <1>0, HeldIs
    <3> QED
      BY <1>3, <3>1 DEF Found, Ids
  <2> QED
    BY <2>1, HeldThere
<1>6. PICK z \in held : TRUE
  BY <1>5
<1>7. ~z.del
  <2>1. CASE <<"shortcuts", k>> \in asked
    <3>1. held \in {Found(l["shortcuts"], k), Found(r["shortcuts"], k)}
          /\ Found(Merged(b, l, r)["shortcuts"], k) = Found(l["shortcuts"], k)
      BY <1>0, <2>1, HeldIs
    <3>2. held = Found(r["shortcuts"], k) => ~z.del
      BY <1>6, <2>1 DEF Gone
    <3>3. held = Found(l["shortcuts"], k) => z = x
      BY <1>3, <1>4, <1>6, <3>1, FoundOne
    <3> QED
      BY <1>3, <3>1, <3>2, <3>3
  <2>2. CASE <<"shortcuts", k>> \notin asked
    <3>1. held = Found(Merged(b, l, r)["shortcuts"], k)
      BY <1>0, <2>2, HeldIs
    <3> QED
      BY <1>3, <1>4, <1>6, <3>1, FoundOne
  <2> QED
    BY <2>1, <2>2
<1>8. PICK h : h = The(Decided(l, r, answer, path))
  OBVIOUS
<1>9. PICK y \in Entries(s.shortcuts) : ~y.del /\ y.group = h
  <2>1. PICK y \in Entries(s.shortcuts) :
           y.id = k /\ y.del = z.del /\ y.group = Homed(b, l, r, answer, z).group
    BY <1>1, <1>6 DEF Outcome
  <2>2. z.id = k /\ z \in Shortcut(V)
    <3>1. held \in {Found(l["shortcuts"], k), Found(r["shortcuts"], k)}
      BY <1>0, HeldIs
    <3>2. l \in SharedProfile(V) /\ r \in SharedProfile(V)
      BY <1>0 DEF Three
    <3>3. Found(l["shortcuts"], k) \subseteq Shortcut(V) /\ Found(r["shortcuts"], k) \subseteq Shortcut(V)
      BY <3>2, ListsOf DEF Entry
    <3> QED
      BY <1>6, <3>1, <3>3 DEF Found
  <2>3. Homed(b, l, r, answer, z) = [z EXCEPT !.group = h]
    BY <1>0, <1>2, <1>8, <2>2 DEF Homed
  <2>4. [z EXCEPT !.group = h].group = h
    BY <2>2 DEF Shortcut
  <2> QED
    BY <1>7, <2>1, <2>3, <2>4
<1>10. PICK e \in Entries(s.groups) : ~e.del /\ e.id = h
  BY <1>1, <1>9 DEF Outcome, Homeless, Live
<1>11. PICK t \in {l, r} : h \in HomesIn(t, k)
  <2>1. Decided(l, r, answer, path) # {}
    BY <1>1, <1>2 DEF Outcome
  <2>2. Decided(l, r, answer, path) \in {HomesIn(l, k), HomesIn(r, k)}
    BY DEF Decided, At, HomesIn
  <2>3. h \in Decided(l, r, answer, path)
    BY <1>8, <2>1 DEF The
  <2> QED
    BY <2>2, <2>3
<1>12. h \in Ids(l["groups"]) \cup Ids(r["groups"])
  BY <1>11 DEF HomesIn, Found, Merging, Named
<1>13. e \in Held(b, l, r, answer, "groups", h)
  <2>1. PICK g : g \in Held(b, l, r, answer, "groups", h)
    BY <1>12, HeldThere
  <2>2. g.id = h
    <3>1. Held(b, l, r, answer, "groups", h) \in {Found(l["groups"], h), Found(r["groups"], h)}
      BY <1>0, HeldIs
    <3> QED
      BY <2>1, <3>1 DEF Found
  <2>3. g \in Entries(s.groups) /\ UniqueIds(s.groups)
    BY <1>1, <2>1 DEF Outcome
  <2>4. g = e
    BY <1>10, <2>2, <2>3, OneEntry
  <2> QED
    BY <2>1, <2>4
<1>14. h \in Kept(b, l, r)
  <2>1. HasLive(Held(b, l, r, answer, "groups", h))
    BY <1>10, <1>13 DEF HasLive
  <2>2. CASE <<"groups", h>> \in asked
    <3>1. /\ Held(b, l, r, answer, "groups", h) \in {Found(l["groups"], h), Found(r["groups"], h)}
          /\ Found(Merged(b, l, r)["groups"], h) = Found(l["groups"], h)
      BY <1>0, <2>2, HeldIs
    <3> QED
      BY <2>1, <2>2, <3>1, LiveFound DEF Kept
  <2>3. CASE <<"groups", h>> \notin asked
    <3>1. Held(b, l, r, answer, "groups", h) = Found(Merged(b, l, r)["groups"], h)
      BY <1>0, <2>3, HeldIs
    <3> QED
      BY <2>1, <3>1, LiveFound DEF Kept
  <2> QED
    BY <2>2, <2>3
<1> QED
  BY <1>11, <1>14 DEF Homes

\* The merged list of wallpapers names only what one of the sides does.
LEMMA MergedKeys ==
    ASSUME NEW V, NEW b \in Seq(V), NEW l \in Seq(V), NEW r \in Seq(V)
    PROVE  Entries(MergeIds(b, l, r).value) \subseteq Entries(l) \cup Entries(r)
<1> DEFINE X == Entries(l) \cup Entries(r)
           old == ToSet(b)
           all == old \cup ToSet(l) \cup ToSet(r)
           kept == {k \in all : MergeScalar(k \in old, k \in ToSet(l), k \in ToSet(r))}
           of(x) == Filter(x, LAMBDA k : k \in old \cap kept)
           new == SetToSeq(kept \ old)
<1>1. ToSet(l) = Entries(l) /\ ToSet(r) = Entries(r)
  BY DEF ToSet, Entries
<1>2. kept \ old \subseteq X
  BY <1>1
<1>3. IsFiniteSet(kept \ old)
  <2>1. IsFiniteSet(Entries(l)) /\ IsFiniteSet(Entries(r))
    BY EntriesFinite
  <2>2. IsFiniteSet(X)
    BY <2>1, FS_Union
  <2> QED
    BY <1>2, <2>2, FS_Subset
<1>4. new \in Seq(X)
  BY <1>2, <1>3, ListOfSet
<1>5. of(l) \in Seq(X) /\ of(r) \in Seq(X)
  <2>1. ASSUME NEW x \in {l, r} PROVE of(x) \in Seq(X)
    <3>1. of(x) = Sub(x, {i \in DOMAIN x : x[i] \in old \cap kept})
      BY DEF Filter
    <3>2. x \in Seq(X)
      <4>1. x \in [DOMAIN x -> X]
        BY DEF Entries
      <4>2. x \in Seq(V)
        OBVIOUS
      <4> QED
        BY <4>1, <4>2, RevisedList
    <3> HIDE DEF X
    <3> QED
      BY <3>1, <3>2, SubIsList
  <2> QED
    BY <2>1
<1>6. MergeIds(b, l, r).value = IF Disagree(b, l, r) THEN MergeScalar(of(b), of(l), of(r)) \o new
                                ELSE MergeScalar(b, l, r)
  BY DEF MergeIds, KeyOrder
<1> HIDE DEF new
<1>7. \A x \in {of(l), of(r)} : Entries(x \o new) \subseteq X
  <2> HIDE DEF X, of
  <2> TAKE x \in {of(l), of(r)}
  <2>1. x \o new \in Seq(X)
    BY <1>4, <1>5, ConcatEntries
  <2> QED
    BY <2>1, EntriesFinite
<1>8. MergeScalar(of(b), of(l), of(r)) \in {of(l), of(r)} /\ MergeScalar(b, l, r) \in {l, r}
  BY DEF MergeScalar
<1> HIDE DEF of
<1> QED
  BY <1>6, <1>7, <1>8

\* A merged shortcut without a group for which neither side has one to keep.
Lost(b, l, r, k) ==
    (\E x \in Homeless(Merged(b, l, r)) : x.id = k) /\ Homes(l, r, k) \cap Kept(b, l, r) = {}

\* Answers that keep what can be kept: a group that either side has live, a
\* shortcut in a kept group, and its deletion where there is none.
Keeping(b, l, r) ==
    [path \in Conflicts(b, l, r) |->
        IF \/ /\ path[1] = "groups"
              /\ ~HasLive(Found(l.groups, path[2])) /\ HasLive(Found(r.groups, path[2]))
           \/ path[1] = "shortcuts" /\ Lost(b, l, r, path[2])
           \/ path[1] = "groupId" /\ HomesIn(l, path[2]) \cap Kept(b, l, r) = {}
        THEN "remote" ELSE "local"]

LEMMA KeepingAnswers ==
    ASSUME NEW b, NEW l, NEW r
    PROVE  /\ Keeping(b, l, r) \in Answers(b, l, r)
           /\ \A path \in Conflicts(b, l, r) : Keeping(b, l, r)[path] # "both"
<1> DEFINE C == Conflicts(b, l, r)
           answer == Keeping(b, l, r)
<1>1. answer \in [C -> {"local", "remote"}]
  BY DEF Keeping
<1> HIDE DEF C, answer
<1>2. answer \in [C -> {"local", "remote", "both"}] /\ \A path \in C : answer[path] # "both"
  BY <1>1
<1>3. DOMAIN answer = C
  BY <1>1
<1>4. answer \in {d \in [C -> {"local", "remote", "both"}] :
                    \A path \in DOMAIN d : d[path] = "both" => CanKeepBoth(l, r, path)}
  BY <1>2, <1>3
<1> QED
  BY <1>2, <1>4 DEF Answers, C, answer

\* Every kept group is live under these answers.
LEMMA KeepingKeeps ==
    ASSUME NEW V, NEW b, NEW l, NEW r, Three(V, b, l, r), NEW g \in Kept(b, l, r)
    PROVE  HasLive(Held(b, l, r, Keeping(b, l, r), "groups", g))
<1> DEFINE path == <<"groups", g>>
           L == Found(l["groups"], g)
           R == Found(r["groups"], g)
           merged == Found(Merged(b, l, r)["groups"], g)
           held == Held(b, l, r, Keeping(b, l, r), "groups", g)
<1>1. HasLive(merged) \/ (HasLive(R) /\ path \in Conflicts(b, l, r))
  BY LiveFound DEF Kept
<1>2. CASE path \in Conflicts(b, l, r)
  <2>1. /\ held = IF Keeping(b, l, r)[path] = "remote" THEN R ELSE L
        /\ merged = L
    BY <1>2, HeldIs
  <2>2. Keeping(b, l, r)[path] = IF ~HasLive(L) /\ HasLive(R) THEN "remote" ELSE "local"
    BY <1>2 DEF Keeping
  <2> HIDE DEF merged, held, L, R
  <2> QED
    BY <1>1, <2>1, <2>2 DEF held
<1>3. CASE path \notin Conflicts(b, l, r)
  BY <1>1, <1>3, HeldIs
<1> QED
  BY <1>2, <1>3

\* These answers leave no live shortcut without a live group.
LEMMA KeepingHouses ==
    ASSUME NEW V, NEW b, NEW l, NEW r, Merging(V, b, l, r), Housable(b, l, r), NEW k,
           NEW x \in Held(b, l, r, Keeping(b, l, r), "shortcuts", k)
    PROVE  LET h == Homed(b, l, r, Keeping(b, l, r), x)
           IN /\ h.id = k /\ h.del = x.del
              /\ h.group \in Ids(l.groups) \cup Ids(r.groups)
              /\ ~x.del => h.group \in Kept(b, l, r)
              /\ <<"groupId", k>> \in Conflicts(b, l, r) =>
                    Decided(l, r, Keeping(b, l, r), <<"groupId", k>>) # {}
<1> DEFINE answer == Keeping(b, l, r)
           path == <<"groupId", k>>
           asked == Conflicts(b, l, r)
           merged == Found(Merged(b, l, r)["shortcuts"], k)
           L == Found(l["shortcuts"], k)
           R == Found(r["shortcuts"], k)
           held == Held(b, l, r, answer, "shortcuts", k)
           h == Homed(b, l, r, answer, x)
           where == Decided(l, r, answer, path)
<1>0. Three(V, b, l, r) /\ DOMAIN answer = asked
  BY KeepingAnswers DEF Merging, Answers
<1>1. /\ merged \in {L, R} /\ held \in {L, R}
      /\ <<"shortcuts", k>> \in asked =>
            held = (IF answer[<<"shortcuts", k>>] = "remote" THEN R ELSE L) /\ merged = L
      /\ <<"shortcuts", k>> \notin asked => held = merged
  BY <1>0, HeldIs
<1>2. UniqueIds(Merged(b, l, r)["shortcuts"]) /\ UniqueIds(l["shortcuts"]) /\ UniqueIds(r["shortcuts"])
  BY <1>0, MergedFound DEF Three
<1>3. x \in Shortcut(V) /\ x.id = k
  <2>1. l \in SharedProfile(V) /\ r \in SharedProfile(V)
    BY <1>0 DEF Three
  <2>2. L \subseteq Shortcut(V) /\ R \subseteq Shortcut(V)
    BY <2>1, ListsOf DEF Entry
  <2> HIDE DEF held
  <2>3. x \in held
    BY DEF held
  <2> QED
    BY <1>1, <2>2, <2>3 DEF Found
<1>4. HomesIn(l, k) \cup HomesIn(r, k) \subseteq Ids(l.groups) \cup Ids(r.groups)
  BY DEF HomesIn, Found, Merging, Named
<1>5. where = IF answer[path] = "remote" THEN HomesIn(r, k) ELSE HomesIn(l, k)
  BY DEF Decided, At, HomesIn
<1>6. (\E z \in Homeless(Merged(b, l, r)) : z.id = k) <=> path \in asked
  <2>1. \A c \in Asked(b, l, r) : c[1] # "groupId"
    BY DEF Asked, Scalars
  <2>2. asked = Asked(b, l, r) \cup {<<"groupId", z.id>> : z \in Homeless(Merged(b, l, r))}
    BY DEF Conflicts, Asked
  <2>3. path \notin Asked(b, l, r)
    BY <2>1
  <2> QED
    BY <2>2, <2>3
<1>7. path \in asked => answer[path] = IF HomesIn(l, k) \cap Kept(b, l, r) = {} THEN "remote" ELSE "local"
  BY DEF Keeping
<1>8. <<"shortcuts", k>> \in asked =>
         answer[<<"shortcuts", k>>] = IF Lost(b, l, r, k) THEN "remote" ELSE "local"
  BY DEF Keeping
<1> HIDE DEF answer, asked, merged, L, R, held, where
<1>9. x \in held
  BY DEF held, answer
<1>10. CASE path \notin asked
  <2>1. h = x
    BY <1>0, <1>3, <1>10 DEF Homed
  <2>2. x.group \in HomesIn(l, k) \cup HomesIn(r, k)
    BY <1>1, <1>9 DEF HomesIn, L, R
  <2>3. ~Lost(b, l, r, k)
    BY <1>6, <1>10 DEF Lost
  <2>4. x \in merged
    <3>1. held = merged
      BY <1>1, <1>8, <2>3
    <3> QED
      BY <1>9, <3>1
  <2>5. ~x.del => x.group \in Kept(b, l, r)
    <3>1. x \in Entries(Merged(b, l, r).shortcuts) /\ x.id = k
      BY <2>4 DEF merged, Found
    <3>2. x \notin Homeless(Merged(b, l, r))
      BY <1>6, <1>10, <3>1
    <3>3. ~x.del => x \in Live(Merged(b, l, r).shortcuts)
      BY <3>1 DEF Live
    <3>4. ~x.del => x.group \in LiveIds(Merged(b, l, r).groups)
      BY <3>2, <3>3 DEF Homeless, LiveIds
    <3> QED
      BY <3>4 DEF Kept
  <2> HIDE DEF h
  <2> QED
    BY <1>3, <1>4, <1>10, <2>1, <2>2, <2>5 DEF h, answer, asked
<1>11. CASE path \in asked
  <2>1. h = [x EXCEPT !.group = The(where)]
    BY <1>0, <1>3, <1>11 DEF Homed, where
  <2>2. h.id = k /\ h.del = x.del /\ h.group = The(where)
    BY <1>3, <2>1 DEF Shortcut
  <2> HIDE DEF h
  <2>3. PICK z \in Homeless(Merged(b, l, r)) : z.id = k
    BY <1>6, <1>11
  <2>4. CASE Homes(l, r, k) \cap Kept(b, l, r) # {}
    <3>1. where \cap Kept(b, l, r) # {}
      BY <1>5, <1>7, <1>11, <2>4 DEF Homes
    <3>2. \A u, v \in where : u = v
      <4>1. (\A u, v \in HomesIn(l, k) : u = v) /\ (\A u, v \in HomesIn(r, k) : u = v)
        BY <1>2, FoundOne DEF HomesIn
      <4> QED
        BY <1>5, <4>1
    <3>3. The(where) \in where
      BY <3>1 DEF The
    <3>4. The(where) \in Kept(b, l, r)
      BY <3>1, <3>2, <3>3
    <3>5. The(where) \in Ids(l.groups) \cup Ids(r.groups)
      BY <1>4, <1>5, <3>3
    <3> QED
      BY <2>2, <3>1, <3>4, <3>5 DEF h, answer, asked, where
  <2>5. CASE Homes(l, r, k) \cap Kept(b, l, r) = {}
    <3>1. Gone(b, l, r, k)
      BY <2>3, <2>5 DEF Housable
    <3>2. Lost(b, l, r, k)
      BY <2>3, <2>5 DEF Lost
    <3>3. PICK y \in R : y.del
      BY <3>1 DEF Gone, R
    <3>4. held = R
      BY <1>1, <1>8, <3>1, <3>2 DEF Gone, asked
    <3>5. x = y
      BY <1>2, <1>9, <3>3, <3>4, FoundOne DEF R
    <3>6. where = HomesIn(r, k)
      BY <1>5, <1>7, <1>11, <2>5 DEF Homes
    <3>7. x.group \in where
      BY <3>3, <3>5, <3>6 DEF HomesIn, R
    <3>8. The(where) \in where
      BY <3>7 DEF The
    <3>9. The(where) \in Ids(l.groups) \cup Ids(r.groups)
      BY <1>4, <3>6, <3>8
    <3> QED
      BY <2>2, <3>3, <3>5, <3>8, <3>9 DEF h, answer, asked, where
  <2> QED
    BY <2>4, <2>5
<1> QED
  BY <1>10, <1>11

\* Nothing is left of a list that an empty one is put behind.
LEMMA ConcatNothing ==
    ASSUME NEW V, NEW s \in Seq(V)
    PROVE  s \o <<>> = s
  BY ConcatProperties, EmptySeq, ConcatEmptySeq

\* What housable conflicts leave resolves.
LEMMA KeepingResolves ==
    ASSUME NEW V, NEW b, NEW l, NEW r, Merging(V, b, l, r), Housable(b, l, r)
    PROVE  LET answer == Keeping(b, l, r)
               result == ResultOf(b, l, r, answer)
           IN /\ ~Fails(b, l, r, answer)
              /\ WellFormed(result) /\ Homeless(result) = {}
<1> DEFINE answer == Keeping(b, l, r)
           result == ResultOf(b, l, r, answer)
           both == {path \in DOMAIN answer : answer[path] = "both"}
           G == Settles(b, l, r, answer, "groups")
           L == Settles(b, l, r, answer, "shortcuts")
           homed == [i \in DOMAIN L |-> Homed(b, l, r, answer, L[i])]
           asked == Conflicts(b, l, r)
<1>0. Three(V, b, l, r) /\ DOMAIN answer = asked /\ answer \in Answers(b, l, r)
  BY KeepingAnswers DEF Merging, Answers
<1>1. b \in SharedProfile(V) /\ l \in SharedProfile(V) /\ r \in SharedProfile(V)
  BY <1>0 DEF Three
<1>2. both = {}
  BY <1>0, KeepingAnswers
<1>3. /\ G \in Seq(Group(V)) /\ UniqueIds(G)
      /\ \A k : Found(G, k) = Held(b, l, r, answer, "groups", k)
  BY <1>0, SettlesHeld DEF Entry
<1>4. /\ L \in Seq(Shortcut(V)) /\ UniqueIds(L)
      /\ \A k : Found(L, k) = Held(b, l, r, answer, "shortcuts", k)
  BY <1>0, SettlesHeld DEF Entry
<1>5. G \o Copies(r, "groups", both) = G /\ L \o Copies(r, "shortcuts", both) = L
  BY <1>1, <1>2, <1>3, <1>4, CopiesList, ConcatNothing
<1>6. /\ result.groups = G /\ result.shortcuts = homed
      /\ result.ids = IF <<"ids", "ids">> \in asked THEN The(Decided(l, r, answer, <<"ids", "ids">>))
                      ELSE MergeIds(b.ids, l.ids, r.ids).value
  <2>1. {"groups", "shortcuts", "ids"} \subseteq DOMAIN b
    BY <1>1 DEF SharedProfile
  <2>2. Merged(b, l, r).ids = MergeIds(b.ids, l.ids, r.ids).value
    BY <2>1 DEF Merged
  <2> QED
    BY <1>0, <1>5, <2>1, <2>2 DEF ResultOf
<1>7. Fails(b, l, r, answer) <=> \E path \in asked :
         path[1] = "groupId" /\ (path[2] \notin Ids(L) \/ Decided(l, r, answer, path) = {})
  BY <1>0, <1>2, <1>5 DEF Fails
<1>8. ASSUME NEW x \in Entries(L)
      PROVE  LET h == Homed(b, l, r, answer, x)
             IN /\ h.id = x.id /\ h.del = x.del
                /\ h.group \in Ids(l.groups) \cup Ids(r.groups)
                /\ ~x.del => h.group \in Kept(b, l, r)
                /\ <<"groupId", x.id>> \in asked => Decided(l, r, answer, <<"groupId", x.id>>) # {}
  <2>1. x \in Held(b, l, r, answer, "shortcuts", x.id)
    BY <1>4 DEF Found
  <2> QED
    BY <2>1, KeepingHouses
<1> HIDE DEF answer, result, G, L, asked
<1>9. ~Fails(b, l, r, answer)
  <2> SUFFICES ASSUME NEW path \in asked, path[1] = "groupId"
               PROVE  path[2] \in Ids(L) /\ Decided(l, r, answer, path) # {}
    BY <1>7
  <2>1. PICK z \in Homeless(Merged(b, l, r)) : path = <<"groupId", z.id>>
    <3>1. \A c \in Asked(b, l, r) : c[1] # "groupId"
      BY DEF Asked, Scalars
    <3>2. asked = Asked(b, l, r) \cup {<<"groupId", z.id>> : z \in Homeless(Merged(b, l, r))}
      BY DEF Conflicts, Asked, asked
    <3> QED
      BY <3>1, <3>2
  <2>2. z \in Found(Merged(b, l, r)["shortcuts"], z.id)
    BY DEF Homeless, Live, Found
  <2>3. z.id \in Ids(l["shortcuts"]) \cup Ids(r["shortcuts"])
    <3>1. Found(Merged(b, l, r)["shortcuts"], z.id) \in
             {Found(l["shortcuts"], z.id), Found(r["shortcuts"], z.id)}
      BY <1>0, HeldIs
    <3> QED
      BY <2>2, <3>1 DEF Found, Ids
  <2>4. Held(b, l, r, answer, "shortcuts", z.id) # {}
    BY <2>3, HeldThere
  <2>5. PICK x \in Entries(L) : x.id = z.id
    BY <1>4, <2>4 DEF Found
  <2> QED
    BY <1>8, <2>1, <2>5 DEF Ids
<1>10. ASSUME NEW y \in Entries(homed)
       PROVE  \E x \in Entries(L) : y = Homed(b, l, r, answer, x)
  BY DEF Entries
<1>11. DOMAIN homed = DOMAIN L /\ \A i \in DOMAIN L : homed[i].id = L[i].id
  BY <1>8 DEF Entries
<1>12. homed \in Seq(Entries(homed))
  <2>1. homed \in [DOMAIN L -> Entries(homed)]
    BY DEF Entries
  <2> HIDE DEF homed
  <2> QED
    BY <1>4, <2>1, RevisedList
<1> HIDE DEF homed
<1>13. UniqueIds(homed)
  BY <1>4, <1>11, SameNames
<1>14. Cardinality(Ids(G)) = Len(G) /\ Cardinality(Ids(homed)) = Len(homed)
  BY <1>3, <1>12, <1>13, UniqueCounts
<1>15. ASSUME NEW y \in Entries(homed) PROVE y.group \in Ids(G)
  <2>1. y.group \in Ids(l["groups"]) \cup Ids(r["groups"])
    BY <1>8, <1>10
  <2>2. Held(b, l, r, answer, "groups", y.group) # {}
    BY <2>1, HeldThere
  <2> QED
    BY <1>3, <2>2 DEF Found, Ids
<1>16. Entries(result.ids) \cap LocalWallpaper = {}
  <2>1. Entries(l.ids) \cap LocalWallpaper = {} /\ Entries(r.ids) \cap LocalWallpaper = {}
    BY DEF Merging
  <2>2. CASE <<"ids", "ids">> \in asked
    <3>1. Decided(l, r, answer, <<"ids", "ids">>) \in {{l.ids}, {r.ids}}
      BY DEF Decided, At
    <3>2. result.ids \in {l.ids, r.ids}
      BY <1>6, <2>2, <3>1 DEF The
    <3> QED
      BY <2>1, <3>2
  <2>3. CASE <<"ids", "ids">> \notin asked
    <3>1. b.ids \in Seq(V) /\ l.ids \in Seq(V) /\ r.ids \in Seq(V)
      BY <1>1 DEF SharedProfile
    <3> QED
      BY <1>6, <2>1, <2>3, <3>1, MergedKeys
  <2> QED
    BY <2>2, <2>3
<1>17. WellFormed(result)
  BY <1>6, <1>14, <1>15, <1>16 DEF WellFormed, Entries
<1>18. Homeless(result) = {}
  <2> SUFFICES ASSUME NEW y \in Live(homed) PROVE y.group \in LiveIds(G)
    BY <1>6 DEF Homeless, LiveIds
  <2>1. PICK x \in Entries(L) : y = Homed(b, l, r, answer, x)
    BY <1>10 DEF Live
  <2>2. ~y.del
    BY DEF Live
  <2>3. y.group \in Kept(b, l, r)
    BY <1>8, <2>1, <2>2
  <2>4. HasLive(Held(b, l, r, answer, "groups", y.group))
    BY <1>0, <2>3, KeepingKeeps DEF answer
  <2> QED
    BY <1>3, <2>4, LiveFound
<1> QED
  BY <1>9, <1>17, <1>18 DEF answer, result

-----------------------------------------------------------------------------
(* Where a dropped shortcut comes to lie *)

\* The shortcuts on the page with x, and the place of one among them.
Mates(list, x) == {y \in Live(list) : y.group = x.group}
PlaceOf(list, x) == Rank(ById(list, x), Mates(list, ById(list, x)))

LEMMA ImageCounts ==
    ASSUME NEW S, IsFiniteSet(S), NEW f, S \subseteq DOMAIN f,
           \A x, y \in S : f[x] = f[y] => x = y
    PROVE  Cardinality({f[x] : x \in S}) = Cardinality(S)
<1> DEFINE T == {f[x] : x \in S}
           g == [x \in S |-> f[x]]
<1>1. g \in Bijection(S, T)
  BY DEF Bijection, Injection, Surjection, IsInjective
<1> HIDE DEF g, T
<1>2. ExistsBijection(S, T)
  BY <1>1 DEF ExistsBijection
<1> QED
  BY <1>2, FS_Bijection DEF T

\* As many entries rank below an entry as its rank says.
LEMMA RankCounts ==
    ASSUME NEW S, IsFiniteSet(S), \A z \in S : z.id \in Int /\ z.sort \in Int,
           \A u, v \in S : u.id = v.id => u = v, NEW t \in S
    PROVE  /\ {y \in S : Rank(y, S) < Rank(t, S)} = {y \in S : Before(y, t)}
           /\ {y \in S : Rank(y, S) < Rank(t, S) + 1} = {y \in S : Before(y, t)} \cup {t}
           /\ Cardinality({y \in S : Before(y, t)}) = Rank(t, S)
           /\ Cardinality({y \in S : Before(y, t)} \cup {t}) = Rank(t, S) + 1
<1> DEFINE B == {y \in S : Before(y, t)}
<1>1. IsFiniteSet(B) /\ t \notin B
  BY FS_Subset DEF Before
<1>2. Cardinality(B) = Rank(t, S)
  BY DEF Rank
<1>3. Cardinality(B \cup {t}) = Rank(t, S) + 1
  <2> HIDE DEF B
  <2> QED
    BY <1>1, <1>2, FS_AddElement
<1>4. \A y \in S : Rank(y, S) \in Nat
  <2> TAKE y \in S
  <2>1. IsFiniteSet({z \in S : Before(z, y)})
    BY FS_Subset
  <2> QED
    BY <2>1, FS_CardinalityType DEF Rank
<1>5. ASSUME NEW y \in S
      PROVE  /\ Before(y, t) => Rank(y, S) < Rank(t, S)
             /\ y = t \/ Before(y, t) \/ Rank(t, S) < Rank(y, S)
  <2>1. y = t \/ Before(y, t) \/ Before(t, y)
    BY DEF Before
  <2>2. Before(y, t) => Rank(y, S) < Rank(t, S)
    BY RankGrows
  <2>3. Before(t, y) => Rank(t, S) < Rank(y, S)
    BY RankGrows
  <2> QED
    BY <2>1, <2>2, <2>3
<1>6. ASSUME NEW y \in S
      PROVE  /\ Rank(y, S) < Rank(t, S) <=> Before(y, t)
             /\ Rank(y, S) < Rank(t, S) + 1 <=> Before(y, t) \/ y = t
  <2>1. PICK m \in Nat, n \in Nat : m = Rank(y, S) /\ n = Rank(t, S)
    BY <1>4
  <2>2. (Before(y, t) => m < n) /\ (y = t \/ Before(y, t) \/ n < m) /\ (y = t => m = n)
    BY <1>5, <2>1
  <2>3. (m < n <=> Before(y, t)) /\ (m < n + 1 <=> Before(y, t) \/ y = t)
    BY <2>1, <2>2
  <2> QED
    BY <2>1, <2>3
<1>7. {y \in S : Rank(y, S) < Rank(t, S)} = B
  BY <1>6
<1>8. {y \in S : Rank(y, S) < Rank(t, S) + 1} = B \cup {t}
  BY <1>6
<1> QED
  BY <1>2, <1>3, <1>7, <1>8

\* After a move: every shortcut under its id, where it came to lie.
LEMMA MovedList ==
    ASSUME NEW V, NEW p \in Profile(V), Named(p), NEW q, NEW id, NEW dest, NEW target, NEW f,
           Moved(p, q, id, dest, target, f)
    PROVE  /\ \A s \in Entries(p.shortcuts) : f[s] \in Entries(q.shortcuts)
                                              /\ ById(q.shortcuts, s.id) = f[s]
                                              /\ ById(p.shortcuts, s.id) = s
           /\ \A s, t \in Entries(p.shortcuts) : f[s] = f[t] => s = t
           /\ Live(q.shortcuts) = {f[s] : s \in Live(p.shortcuts)}
<1>1. UniqueIds(p.shortcuts)
  BY DEF Named
<1>2. \A s \in Entries(p.shortcuts) : f[s].id = s.id /\ f[s].del = s.del
  BY DEF Moved, MovedTo
<1>3. Entries(q.shortcuts) = {f[s] : s \in Entries(p.shortcuts)}
  BY DEF Moved, Entries
<1>4. \A s, t \in Entries(p.shortcuts) : s.id = t.id => s = t
  BY <1>1, OneEntry
<1>5. ASSUME NEW s \in Entries(p.shortcuts)
      PROVE  ById(q.shortcuts, s.id) = f[s] /\ ById(p.shortcuts, s.id) = s
  <2>1. f[s] \in Entries(q.shortcuts) /\ f[s].id = s.id
    BY <1>2, <1>3
  <2>2. \A y \in Entries(q.shortcuts) : y.id = s.id => y = f[s]
    BY <1>2, <1>3, <1>4
  <2>3. \A y \in Entries(p.shortcuts) : y.id = s.id => y = s
    BY <1>4
  <2> QED
    BY <2>1, <2>2, <2>3 DEF ById
<1>6. Live(q.shortcuts) = {f[s] : s \in Live(p.shortcuts)}
  BY <1>2, <1>3 DEF Live
<1> QED
  BY <1>2, <1>3, <1>4, <1>5, <1>6

\* The shortcut takes the place of the one it is dropped on.
LEMMA DropTakes ==
    ASSUME NEW V, NEW p \in Profile(V), Named(p), NEW q, NEW id, NEW dest, NEW target, NEW f,
           Moved(p, q, id, dest, target, f), NEW t \in Live(p.shortcuts), t.id = target,
           t.group = dest, target # id
    PROVE  ById(q.shortcuts, id).group = dest /\ PlaceOf(q.shortcuts, id) = PlaceOf(p.shortcuts, target)
<1> DEFINE source == ById(p.shortcuts, id)
           others == Others(p, id, dest)
           slot == Slot(p, id, dest, target)
           Below == {y \in others : Rank(y, others) < slot}
<1>0. p.shortcuts \in Seq(Shortcut(V)) /\ UniqueIds(p.shortcuts)
  BY DEF Profile, Named
<1>1. /\ source \in Live(p.shortcuts) /\ source \in Entries(p.shortcuts) /\ source.id = id
      /\ t \in Entries(p.shortcuts) /\ t # source
  BY DEF Moved, Live
<1>2. others = {y \in Live(p.shortcuts) : y.group = dest /\ y # source}
  BY DEF Others, LiveIn
<1>3. t \in others /\ others \subseteq Entries(p.shortcuts) /\ others \subseteq Live(p.shortcuts)
      /\ source \notin others
  BY <1>1, <1>2 DEF Live
<1>4. IsFiniteSet(Entries(p.shortcuts)) /\ Entries(p.shortcuts) \subseteq Shortcut(V)
  BY <1>0, EntriesFinite
<1>5. IsFiniteSet(others)
  BY <1>3, <1>4, FS_Subset
<1>6. \A z \in Entries(p.shortcuts) : z.id \in Int /\ z.sort \in Int
  BY <1>4 DEF Shortcut
<1>7. \A u, v \in Entries(p.shortcuts) : u.id = v.id => u = v
  BY <1>0, OneEntry
<1>8. /\ \A s \in Entries(p.shortcuts) : ById(q.shortcuts, s.id) = f[s] /\ ById(p.shortcuts, s.id) = s
      /\ \A u, v \in Entries(p.shortcuts) : f[u] = f[v] => u = v
      /\ Live(q.shortcuts) = {f[s] : s \in Live(p.shortcuts)}
  BY MovedList
<1>9. ById(q.shortcuts, id) = f[source] /\ ById(p.shortcuts, target) = t
  BY <1>1, <1>8
<1>10. /\ f[source].group = dest /\ f[source].sort = slot /\ f[source].id = id
       /\ \A s \in others : f[s].group = dest /\ f[s].sort = Shifted(s, others, slot)
       /\ \A s \in Entries(p.shortcuts) : s \notin others /\ s # source => f[s].group = s.group
       /\ \A s \in Entries(p.shortcuts) : f[s].id = s.id
  BY <1>1, <1>3 DEF Moved, MovedTo
<1>11. slot = Rank(t, others) + (IF source.group = dest /\ Before(source, t) THEN 1 ELSE 0)
  <2>1. {s \in others : s.id = target} # {}
    BY <1>3
  <2> QED
    BY <1>9, <2>1 DEF Slot
<1> HIDE DEF source, others, slot
<1>12. Rank(t, others) \in Nat /\ slot \in Nat /\ \A y \in others : Rank(y, others) \in Nat
  <2>1. \A y : Rank(y, others) \in Nat
    BY <1>0, <1>3, RankIsNumber
  <2> QED
    BY <1>11, <2>1
<1>13. /\ {y \in others : Rank(y, others) < Rank(t, others)} = {y \in others : Before(y, t)}
       /\ {y \in others : Rank(y, others) < Rank(t, others) + 1} = {y \in others : Before(y, t)} \cup {t}
       /\ Cardinality({y \in others : Before(y, t)}) = Rank(t, others)
       /\ Cardinality({y \in others : Before(y, t)} \cup {t}) = Rank(t, others) + 1
  BY <1>3, <1>5, <1>6, <1>7, RankCounts
\* So many come before its new place.
<1>14. Cardinality(Below) = slot
  <2>1. CASE source.group = dest /\ Before(source, t)
    <3>1. slot = Rank(t, others) + 1
      BY <1>11, <1>12, <2>1
    <3> QED
      BY <1>13, <3>1
  <2>2. CASE ~(source.group = dest /\ Before(source, t))
    <3>1. slot = Rank(t, others)
      BY <1>11, <1>12, <2>2
    <3> QED
      BY <1>13, <3>1
  <2> QED
    BY <2>1, <2>2
<1>15. Mates(q.shortcuts, f[source]) = {f[s] : s \in others \cup {source}}
  <2>1. ASSUME NEW s \in Live(p.shortcuts)
        PROVE  f[s].group = dest <=> s \in others \cup {source}
    <3>1. s \in Entries(p.shortcuts)
      BY DEF Live
    <3> QED
      BY <1>2, <1>10, <3>1
  <2> QED
    BY <1>1, <1>3, <1>8, <1>10, <2>1 DEF Mates
<1>16. ASSUME NEW s \in others
       PROVE  Before(f[s], f[source]) <=> Rank(s, others) < slot
  <2>1. PICK m \in Nat, n \in Nat : m = Rank(s, others) /\ n = slot
    BY <1>12
  <2>2. f[s].sort = m + (IF m < n THEN 0 ELSE 1) /\ f[source].sort = n
    BY <1>10, <2>1 DEF Shifted
  <2>3. f[s].sort < f[source].sort <=> m < n
    BY <2>1, <2>2
  <2>4. f[s].sort # f[source].sort
    BY <2>1, <2>2
  <2> QED
    BY <2>1, <2>3, <2>4 DEF Before
<1>17. ~Before(f[source], f[source])
  BY <1>1, <1>6, <1>10, <1>12 DEF Before
<1>18. {y \in Mates(q.shortcuts, f[source]) : Before(y, f[source])} = {f[s] : s \in Below}
  BY <1>15, <1>16, <1>17
<1>19. Rank(f[source], Mates(q.shortcuts, f[source])) = slot
  <2>1. IsFiniteSet(Below) /\ Below \subseteq Entries(p.shortcuts)
    BY <1>3, <1>5, FS_Subset
  <2>2. \A x, y \in Below : f[x] = f[y] => x = y
    BY <1>8, <2>1
  <2> HIDE DEF Below
  <2> DEFINE g == [s \in Below |-> f[s]]
  <2>3. Below \subseteq DOMAIN g /\ \A x, y \in Below : g[x] = g[y] => x = y
    BY <2>2
  <2>4. {g[s] : s \in Below} = {f[s] : s \in Below}
    OBVIOUS
  <2> HIDE DEF g
  <2>5. Cardinality({g[s] : s \in Below}) = Cardinality(Below)
    BY <2>1, <2>3, ImageCounts
  <2> QED
    BY <1>14, <1>18, <2>4, <2>5 DEF Rank
\* So many came before the one it was dropped on.
<1>20. Rank(t, Mates(p.shortcuts, t)) = slot
  <2> DEFINE B == {y \in others : Before(y, t)}
             M == {y \in Mates(p.shortcuts, t) : Before(y, t)}
  <2>1. IsFiniteSet(B) /\ source \notin B
    BY <1>3, <1>5, FS_Subset
  <2>2. CASE source.group = dest /\ Before(source, t)
    <3>1. M = B \cup {source}
      BY <1>1, <1>2, <2>2 DEF Mates
    <3>2. Cardinality(B \cup {source}) = Cardinality(B) + 1
      <4> HIDE DEF B
      <4> QED
        BY <2>1, FS_AddElement
    <3>3. slot = Rank(t, others) + 1
      BY <1>11, <1>12, <2>2
    <3> QED
      BY <1>13, <3>1, <3>2, <3>3 DEF Rank
  <2>3. CASE ~(source.group = dest /\ Before(source, t))
    <3>1. M = B
      BY <1>2, <2>3 DEF Mates
    <3>2. slot = Rank(t, others)
      BY <1>11, <1>12, <2>3
    <3> QED
      BY <1>13, <3>1, <3>2 DEF Rank
  <2> QED
    BY <2>2, <2>3
<1> QED
  BY <1>9, <1>10, <1>19, <1>20 DEF PlaceOf

\* Every other shortcut stays in its group, and in order.
LEMMA DropKeeps ==
    ASSUME NEW V, NEW p \in Profile(V), Named(p), NEW q, NEW id, NEW dest, NEW target, NEW f,
           Moved(p, q, id, dest, target, f),
           NEW s \in Entries(p.shortcuts), s.id # id
    PROVE  /\ f[s].group = s.group
           /\ \A t \in Mates(p.shortcuts, s) :
                 s \in Live(p.shortcuts) /\ t.id # id /\ Before(s, t) => Before(f[s], f[t])
<1> DEFINE source == ById(p.shortcuts, id)
           left_ == LeftBy(p, id)
           others == Others(p, id, dest)
           slot == Slot(p, id, dest, target)
<1>0. p.shortcuts \in Seq(Shortcut(V))
  BY DEF Profile
<1>1. source.id = id /\ slot \in Int /\ \A x \in Entries(p.shortcuts) : MovedTo(p, id, dest, slot, x, f[x])
  BY DEF Moved
<1>2. /\ \A x : x \in others <=> x \in Live(p.shortcuts) /\ x.group = dest /\ x # source
      /\ \A x : x \in left_ <=> x \in Live(p.shortcuts) /\ x.group = source.group /\ x # source
  BY DEF LiveIn, Others, LeftBy
<1>3. others \in SUBSET Entries(p.shortcuts) /\ left_ \in SUBSET Entries(p.shortcuts)
  BY <1>2 DEF Live
<1>4. IsFiniteSet(Entries(p.shortcuts)) /\ Entries(p.shortcuts) \subseteq Shortcut(V)
  BY <1>0, EntriesFinite
<1>5. IsFiniteSet(others) /\ IsFiniteSet(left_)
  BY <1>3, <1>4, FS_Subset
<1>6. \A z \in Entries(p.shortcuts) : z.id \in Int /\ z.sort \in Int
  BY <1>4 DEF Shortcut
<1>7. \A x : Rank(x, others) \in Nat /\ Rank(x, left_) \in Nat
  BY <1>0, <1>3, RankIsNumber
<1>8. ASSUME NEW x \in Entries(p.shortcuts), x # source
      PROVE  /\ f[x].id = x.id
             /\ x \in others => f[x].group = dest /\ f[x].sort = Shifted(x, others, slot)
             /\ x \in left_ /\ x \notin others => f[x].group = x.group /\ f[x].sort = Rank(x, left_)
             /\ x \notin others /\ x \notin left_ => f[x] = x
  BY <1>1, <1>8 DEF MovedTo
<1> HIDE DEF source, left_, others, slot
<1>9. s # source
  BY <1>1
<1>10. f[s].group = s.group
  BY <1>2, <1>8, <1>9
<1>11. ASSUME NEW t \in Mates(p.shortcuts, s), s \in Live(p.shortcuts), t.id # id, Before(s, t)
       PROVE  Before(f[s], f[t])
  <2>1. t \in Entries(p.shortcuts) /\ t \in Live(p.shortcuts) /\ t.group = s.group /\ t # source
    BY <1>1, <1>11 DEF Mates, Live
  <2>2. (s \in others <=> t \in others) /\ (s \in left_ <=> t \in left_)
    BY <1>2, <1>9, <1>11, <2>1
  <2>3. CASE s \in others
    <3>1. Rank(s, others) < Rank(t, others)
      BY <1>3, <1>5, <1>6, <1>11, <2>2, <2>3, RankGrows
    <3>2. PICK m \in Nat, n \in Nat : m = Rank(s, others) /\ n = Rank(t, others)
      BY <1>7
    <3>3. f[s].sort = m + (IF m < slot THEN 0 ELSE 1) /\ f[t].sort = n + (IF n < slot THEN 0 ELSE 1)
      BY <1>8, <1>9, <2>1, <2>2, <2>3, <3>2 DEF Shifted
    <3>4. f[s].sort < f[t].sort
      BY <1>1, <3>1, <3>2, <3>3
    <3> QED
      BY <3>4 DEF Before
  <2>4. CASE s \notin others /\ s \in left_
    <3>1. Rank(s, left_) < Rank(t, left_)
      BY <1>3, <1>5, <1>6, <1>11, <2>2, <2>4, RankGrows
    <3>2. f[s].sort < f[t].sort
      BY <1>8, <1>9, <2>1, <2>2, <2>4, <3>1
    <3> QED
      BY <3>2 DEF Before
  <2>5. CASE s \notin others /\ s \notin left_
    BY <1>8, <1>9, <1>11, <2>1, <2>2, <2>5
  <2> QED
    BY <2>3, <2>4, <2>5
<1> QED
  BY <1>10, <1>11
===============================================================================
