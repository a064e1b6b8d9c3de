---------------------------- MODULE RunQueueProofs ----------------------------
(***************************************************************************)
(* Proofs about RunQueue for every queue the dispatcher may find and any   *)
(* number of runs queued, commands given and runs ended by the polling     *)
(* thread.  The inductive invariant relates the two copies of the queue,   *)
(* the entries that a Start command was given for and the documents of the *)
(* runs to where the main loop is.                                         *)
(***************************************************************************)
EXTENDS RunQueue, FiniteSetTheorems, WellFoundedInduction, TLAPS

-----------------------------------------------------------------------------
(* Erasing entries of a sequence.                                          *)

LEMMA SmallestNumber ==
  ASSUME NEW T, T \subseteq Nat, T # {} PROVE \E n \in T : \A m \in T : n <= m
<1>1. PICK R : IsWellFoundedOn(R, Nat) /\ \A n, m \in Nat : n < m => <<n, m>> \in R
  <2>1. IsWellFoundedOn(OpToRel(<, Nat), Nat)  BY NatLessThanWellFounded
  <2>2. \A n, m \in Nat : n < m => <<n, m>> \in OpToRel(<, Nat)  BY DEF OpToRel
  <2>3. QED  BY <2>1, <2>2, Zenon
<1>2. PICK n \in T : \A m \in T : ~(<<m, n>> \in R)  BY ZenonT(60), <1>1, WFMin
<1>3. \A m \in T : ~(m < n)  BY <1>1, <1>2, Zenon
<1>4. QED  BY <1>3

\* f is the one sequence of the numbers in T in their order.
Ordered(f, T) ==
  /\ f \in [1 .. Cardinality(T) -> T]
  /\ \A j, k \in DOMAIN f : j < k => f[j] < f[k]
  /\ T = {f[k] : k \in DOMAIN f}

LEMMA OrderExists ==
  ASSUME NEW n \in Nat, NEW T \in SUBSET (1 .. n)
  PROVE  (\E f : Ordered(f, T)) /\ Cardinality(T) \in Nat
<1> DEFINE Bad == {m \in Nat : \E U \in SUBSET (1 .. m) : ~\E f : Ordered(f, U)}
<1>1. Bad = {}
  <2> SUFFICES ASSUME Bad # {} PROVE FALSE
    OBVIOUS
  <2>0. Bad \subseteq Nat  OBVIOUS
  <2>1. PICK m \in Bad : m \in Nat /\ \A l \in Bad : m <= l
    <3> HIDE DEF Bad
    <3>1. QED  BY <2>0, SmallestNumber
  <2>2. PICK U \in SUBSET (1 .. m) : ~\E f : Ordered(f, U)  OBVIOUS
  <2>3. CASE U = {}
    <3> DEFINE f == [k \in 1 .. 0 |-> 0]
    <3>1. Cardinality(U) = 0  BY <2>3, FS_EmptySet
    <3>2. f \in [1 .. Cardinality(U) -> U]  BY <2>3, <3>1
    <3>3. Ordered(f, U)  BY <2>3, <3>1, <3>2 DEF Ordered
    <3>4. QED  BY <2>2, <3>3
  <2>4. CASE U # {}
    <3>1. m \in Nat /\ m # 0
      <4>1. m = 0 => U = {}  OBVIOUS
      <4>2. QED  BY <2>1, <2>4, <4>1
    <3>2. m - 1 \in Nat /\ m - 1 \notin Bad
      <4> HIDE DEF Bad
      <4>1. QED  BY <2>1, <3>1
    <3>3. \A V \in SUBSET (1 .. m - 1) : \E f : Ordered(f, V)  BY <3>2
    <3>4. m \in U
      <4> SUFFICES ASSUME m \notin U PROVE FALSE
        OBVIOUS
      <4>1. U \in SUBSET (1 .. m - 1)  BY <3>1
      <4>2. QED  BY <2>2, <3>3, <4>1
    <3> DEFINE V == U \ {m}
    <3>5. V \in SUBSET (1 .. m - 1)  BY <3>1
    <3>6. PICK g : Ordered(g, V)  BY <3>3, <3>5
    <3>7. IsFiniteSet(V)
      <4>1. IsFiniteSet(1 .. m - 1)  BY <3>2, FS_Interval
      <4>2. QED  BY <3>5, <4>1, FS_Subset
    <3>8. PICK c \in Nat : c = Cardinality(V)  BY <3>7, FS_CardinalityType
    <3>9. Cardinality(U) = c + 1
      <4>1. U = V \cup {m} /\ m \notin V  BY <3>4
      <4>2. Cardinality(V \cup {m}) = Cardinality(V) + 1  BY <3>7, FS_AddElement
      <4>3. QED  BY <3>8, <4>1, <4>2
    <3> DEFINE f == [k \in 1 .. c + 1 |-> IF k = c + 1 THEN m ELSE g[k]]
    <3> HIDE DEF V, Bad
    <3>10. /\ g \in [1 .. c -> V] /\ \A j, k \in 1 .. c : j < k => g[j] < g[k]
           /\ \A v \in V : \E k \in 1 .. c : g[k] = v
      BY <3>6, <3>8 DEF Ordered
    <3>11. f \in [1 .. c + 1 -> U]  BY <3>4, <3>10 DEF V
    <3>12. \A j, k \in 1 .. c + 1 : j < k => f[j] < f[k]
      <4> SUFFICES ASSUME NEW j \in 1 .. c + 1, NEW k \in 1 .. c + 1, j < k PROVE f[j] < f[k]
        OBVIOUS
      <4>1. j \in 1 .. c /\ f[j] = g[j] /\ g[j] \in V  BY <3>10
      <4>2. g[j] \in 1 .. m - 1  BY <3>5, <4>1
      <4>3. CASE k = c + 1
        BY <3>1, <4>1, <4>2, <4>3
      <4>4. CASE k # c + 1
        BY <3>10, <4>1, <4>4
      <4>5. QED  BY <4>3, <4>4
    <3>13. \A u \in U : \E k \in 1 .. c + 1 : f[k] = u
      <4> SUFFICES ASSUME NEW u \in U PROVE \E k \in 1 .. c + 1 : f[k] = u
        OBVIOUS
      <4>1. CASE u = m
        <5>1. c + 1 \in 1 .. c + 1 /\ f[c + 1] = m  OBVIOUS
        <5>2. QED  BY <4>1, <5>1
      <4>2. CASE u # m
        <5>1. PICK k \in 1 .. c : g[k] = u  BY <3>10, <4>2 DEF V
        <5>2. k \in 1 .. c + 1 /\ f[k] = u  BY <5>1
        <5>3. QED  BY <5>2
      <4>3. QED  BY <4>1, <4>2
    <3>14. DOMAIN f = 1 .. c + 1  OBVIOUS
    <3> HIDE DEF f
    <3>15. U = {f[k] : k \in DOMAIN f}  BY <3>11, <3>13, <3>14
    <3>16. Ordered(f, U)  BY <3>9, <3>11, <3>12, <3>14, <3>15 DEF Ordered
    <3>17. QED  BY <2>2, <3>16
  <2>5. QED  BY <2>3, <2>4
<1>2. \E f : Ordered(f, T)  BY <1>1
<1>3. Cardinality(T) \in Nat
  <2>1. IsFiniteSet(1 .. n)  BY FS_Interval
  <2>2. QED  BY <2>1, FS_Subset, FS_CardinalityType
<1>4. QED  BY <1>2, <1>3

\* r is made of entries of q: each at most once.
From(r, q, f) ==
  /\ f \in [DOMAIN r -> DOMAIN q]
  /\ \A j, k \in DOMAIN r : f[j] = f[k] => j = k

\* What Left leaves: the entries at the positions, each once.
LEMMA LeftOver ==
  ASSUME NEW S, NEW q \in Seq(S), NEW I \in SUBSET DOMAIN q
  PROVE  /\ Left(q, I) \in Seq(S)
         /\ \A i \in I : \E k \in DOMAIN Left(q, I) : Left(q, I)[k] = q[i]
         /\ \E f : /\ From(Left(q, I), q, f)
                   /\ \A k \in DOMAIN Left(q, I) : f[k] \in I /\ Left(q, I)[k] = q[f[k]]
<1>1. Len(q) \in Nat /\ DOMAIN q = 1 .. Len(q) /\ \A i \in DOMAIN q : q[i] \in S  OBVIOUS
<1>2. (\E f : Ordered(f, I)) /\ Cardinality(I) \in Nat  BY <1>1, OrderExists
<1>3. PICK n \in Nat : n = Cardinality(I)  BY <1>2
<1> DEFINE order == CHOOSE f \in [1 .. Cardinality(I) -> I] :
                      /\ \A j, k \in DOMAIN f : j < k => f[j] < f[k]
                      /\ I = {f[k] : k \in DOMAIN f}
<1>4. Ordered(order, I)
  <2>1. PICK f : Ordered(f, I)  BY <1>2
  <2>2. f \in [1 .. Cardinality(I) -> I]  BY <2>1 DEF Ordered
  <2>3. QED  BY <2>1, <2>2 DEF Ordered
<1>5. Left(q, I) = [k \in DOMAIN order |-> q[order[k]]]  BY DEF Left
<1> HIDE DEF order
<1>6. /\ order \in [1 .. n -> I] /\ DOMAIN order = 1 .. n
      /\ \A j, k \in 1 .. n : j < k => order[j] < order[k]
      /\ \A i \in I : \E k \in 1 .. n : order[k] = i
  BY <1>3, <1>4 DEF Ordered
<1>7. DOMAIN Left(q, I) = 1 .. n /\ \A k \in 1 .. n : Left(q, I)[k] = q[order[k]]
  BY <1>5, <1>6
<1>8. Left(q, I) \in Seq(S)
  <2>1. \A k \in 1 .. n : q[order[k]] \in S  BY <1>1, <1>6
  <2>2. Left(q, I) \in [1 .. n -> S]  BY <1>5, <1>6, <2>1
  <2>3. QED  BY <2>2
<1>9. \A i \in I : \E k \in DOMAIN Left(q, I) : Left(q, I)[k] = q[i]
  BY <1>6, <1>7
<1>10. From(Left(q, I), q, order)
  <2>1. order \in [DOMAIN Left(q, I) -> DOMAIN q]  BY <1>6, <1>7
  <2>2. \A k \in 1 .. n : order[k] \in Nat  BY <1>1, <1>6
  <2>3. \A j, k \in 1 .. n : order[j] = order[k] => j = k
    <3> SUFFICES ASSUME NEW j \in 1 .. n, NEW k \in 1 .. n, order[j] = order[k], j # k
                 PROVE  FALSE
      OBVIOUS
    <3>1. CASE j < k
      BY <1>6, <2>2, <3>1
    <3>2. CASE k < j
      BY <1>6, <2>2, <3>2
    <3>3. QED  BY <3>1, <3>2
  <2>4. QED  BY <1>7, <2>1, <2>3 DEF From
<1>11. \A k \in DOMAIN Left(q, I) : order[k] \in I /\ Left(q, I)[k] = q[order[k]]
  BY <1>6, <1>7
<1>12. QED  BY <1>8, <1>9, <1>10, <1>11

-----------------------------------------------------------------------------
(* A copy of the queue.                                                    *)

\* An entry has one of the m identifiers given out so far; if it is marked as running, it is
\* among those st that a Start command was given for; if it was in the queue q0 at first, its
\* detector is what it was.
EntryOK(e, q0, m, st) ==
  /\ e.id \in 1 .. m
  /\ e.active => e.id \in st
  /\ e.id \in DOMAIN q0 => e.det = q0[e.id].det

\* Two runs that are marked as running have no detector in common.
Apart(e, f) == e.active /\ f.active /\ e.id # f.id => Of(e.det) \cap Of(f.det) = {}

CopyOK(q, q0, m, st) ==
  /\ q \in Seq(Entries) /\ Distinct(q)
  /\ \A i \in DOMAIN q : EntryOK(q[i], q0, m, st)
  /\ \A i, j \in DOMAIN q : Apart(q[i], q[j])

\* The runs of single detectors that have not been started are in q.
Kept(q, q0, st) == \A i \in DOMAIN q0 : q0[i].det \in Detectors => i \in st \cup Ids(q)

\* Nothing is gone from q that was neither started nor a run for all.
Replaces(r, q, st) ==
  \A i \in DOMAIN q :
    q[i].id \in st \/ q[i].det = "all" \/ \E k \in DOMAIN r : r[k].id = q[i].id

LEMMA CopyGrows ==
  ASSUME NEW q, NEW q0, NEW m \in Nat, NEW l \in Nat, m <= l, NEW st, NEW su, st \subseteq su
  PROVE  /\ CopyOK(q, q0, m, st) => CopyOK(q, q0, l, su)
         /\ Kept(q, q0, st) => Kept(q, q0, su)
<1>1. \A e : EntryOK(e, q0, m, st) => EntryOK(e, q0, l, su)  BY DEF EntryOK
<1>2. QED  BY <1>1 DEF CopyOK, Kept

LEMMA Derived ==
  ASSUME NEW q, NEW q0, NEW m, NEW st, CopyOK(q, q0, m, st),
         NEW r \in Seq(Entries), NEW f, From(r, q, f),
         \A k \in DOMAIN r : /\ r[k].id = q[f[k]].id /\ r[k].det = q[f[k]].det
                             /\ r[k].active => q[f[k]].active
  PROVE  /\ CopyOK(r, q0, m, st)
         /\ Kept(q, q0, st) /\ Replaces(r, q, st) => Kept(r, q0, st)
<1>1. /\ \A k \in DOMAIN r : f[k] \in DOMAIN q
      /\ \A j, k \in DOMAIN r : f[j] = f[k] => j = k
  BY DEF From
<1>2. Distinct(r)  BY <1>1 DEF CopyOK, Distinct
<1>3. \A k \in DOMAIN r : EntryOK(r[k], q0, m, st)  BY <1>1 DEF CopyOK, EntryOK
<1>4. \A j, k \in DOMAIN r : Apart(r[j], r[k])
  <2> SUFFICES ASSUME NEW j \in DOMAIN r, NEW k \in DOMAIN r PROVE Apart(r[j], r[k])
    OBVIOUS
  <2>1. Apart(q[f[j]], q[f[k]])  BY <1>1 DEF CopyOK
  <2>2. QED  BY <2>1 DEF Apart
<1>5. ASSUME Kept(q, q0, st), Replaces(r, q, st) PROVE Kept(r, q0, st)
  <2> SUFFICES ASSUME NEW i \in DOMAIN q0, q0[i].det \in Detectors, i \notin st
               PROVE  i \in Ids(r)
    BY DEF Kept
  <2>1. PICK j \in DOMAIN q : q[j].id = i  BY <1>5 DEF Kept, Ids
  <2>2. EntryOK(q[j], q0, m, st)  BY DEF CopyOK
  <2>3. q[j].det \in Detectors  BY <2>1, <2>2 DEF EntryOK
  <2>4. PICK k \in DOMAIN r : r[k].id = i  BY <1>5, <2>1, <2>3 DEF Replaces, Detectors
  <2>5. QED  BY <2>4 DEF Ids
<1>6. QED  BY <1>2, <1>3, <1>4, <1>5 DEF CopyOK

LEMMA LeftCopy ==
  ASSUME NEW q, NEW q0, NEW m, NEW st, CopyOK(q, q0, m, st), NEW I \in SUBSET DOMAIN q,
         \A i \in DOMAIN q : i \in I \/ q[i].active \/ q[i].det = "all"
  PROVE  /\ CopyOK(Left(q, I), q0, m, st)
         /\ Kept(q, q0, st) => Kept(Left(q, I), q0, st)
<1>1. PICK r : r = Left(q, I)  OBVIOUS
<1>2. q \in Seq(Entries)  BY DEF CopyOK
<1>3. r \in Seq(Entries) /\ \A i \in I : \E k \in DOMAIN r : r[k] = q[i]
  BY <1>1, <1>2, LeftOver
<1>4. PICK f : From(r, q, f) /\ \A k \in DOMAIN r : f[k] \in I /\ r[k] = q[f[k]]
  BY <1>1, <1>2, LeftOver
<1>5. Replaces(r, q, st)  BY <1>3 DEF Replaces, CopyOK, EntryOK
<1>6. QED  BY <1>1, <1>3, <1>4, <1>5, Derived

LEMMA PurgeCopy ==
  ASSUME NEW q, NEW q0, NEW m, NEW st, CopyOK(q, q0, m, st), NEW n
  PROVE  /\ CopyOK(Purge(q, n), q0, m, st)
         /\ Kept(q, q0, st) => Kept(Purge(q, n), q0, st)
<1> DEFINE I == {i \in DOMAIN q : ~InTheWay(q[i], n)}
<1>1. I \in SUBSET DOMAIN q /\ \A i \in DOMAIN q : i \in I \/ q[i].active
  BY DEF InTheWay
<1>2. Purge(q, n) = Left(q, I)  BY DEF Purge
<1> HIDE DEF I
<1>3. QED  BY <1>1, <1>2, LeftCopy

LEMMA ScannedCopy ==
  ASSUME NEW q, NEW q0, NEW m, NEW st, CopyOK(q, q0, m, st), NEW n
  PROVE  /\ CopyOK(Scanned(q, n), q0, m, st)
         /\ Kept(q, q0, st) => Kept(Scanned(q, n), q0, st)
         /\ \A k \in DOMAIN Scanned(q, n) : \E i \in DOMAIN q : Scanned(q, n)[k] = q[i]
<1> DEFINE I == {i \in DOMAIN q : i > n \/ ~Unknown(q, i)}
<1>1. I \in SUBSET DOMAIN q /\ \A i \in DOMAIN q : i \in I \/ q[i].det = "all"
  BY DEF Unknown
<1>2. Scanned(q, n) = Left(q, I)  BY DEF Scanned
<1> HIDE DEF I
<1>3. q \in Seq(Entries)  BY DEF CopyOK
<1>4. PICK f : From(Left(q, I), q, f)
               /\ \A k \in DOMAIN Left(q, I) : f[k] \in I /\ Left(q, I)[k] = q[f[k]]
  BY <1>1, <1>3, LeftOver
<1>5. QED  BY <1>1, <1>2, <1>4, LeftCopy

\* An entry of detector n is marked, and nothing else that is running concerns n.
LEMMA MarkCopy ==
  ASSUME NEW q, NEW q0, NEW m, NEW st, CopyOK(q, q0, m, st), NEW n, NEW id,
         NEW on \in BOOLEAN, on => id \in st, n \in Names,
         \A k \in DOMAIN q : q[k].id = id => q[k].det = n
  PROVE  /\ CopyOK(Mark(q, n, id, on), q0, m, st)
         /\ Kept(q, q0, st) => Kept(Mark(q, n, id, on), q0, st)
<1> DEFINE I == {i \in DOMAIN q : q[i].id = id \/ ~InTheWay(q[i], n)}
<1>1. I \in SUBSET DOMAIN q /\ \A i \in DOMAIN q : i \in I \/ q[i].active
  BY DEF InTheWay
<1>2. PICK kept : kept = Left(q, I)  OBVIOUS
<1>3. PICK r : r = Mark(q, n, id, on)  OBVIOUS
<1>4. r = [k \in DOMAIN kept |->
             IF kept[k].id = id THEN [kept[k] EXCEPT !.active = on] ELSE kept[k]]
  BY <1>2, <1>3 DEF Mark
<1> HIDE DEF I
<1>5. q \in Seq(Entries)  BY DEF CopyOK
<1>6. PICK f : From(kept, q, f) /\ \A k \in DOMAIN kept : f[k] \in I /\ kept[k] = q[f[k]]
  BY <1>1, <1>2, <1>5, LeftOver
<1>7. \A k \in DOMAIN kept : kept[k].id = id \/ ~InTheWay(kept[k], n)
  BY <1>6 DEF I
<1>8. CopyOK(kept, q0, m, st) /\ (Kept(q, q0, st) => Kept(kept, q0, st))
  BY <1>1, <1>2, LeftCopy
<1>9. /\ kept \in Seq(Entries) /\ DOMAIN r = DOMAIN kept
      /\ \A k \in DOMAIN kept : kept[k] \in Entries
  BY <1>4, <1>8 DEF CopyOK
<1>10. \A k \in DOMAIN r : /\ r[k] \in Entries /\ r[k].id = kept[k].id /\ r[k].det = kept[k].det
                           /\ r[k].id # id => r[k].active = kept[k].active
                           /\ r[k].id = id => r[k].active = on
  BY <1>4, <1>9 DEF Entries
<1>11. r \in Seq(Entries)  BY SMTT(30), <1>9, <1>10, <1>4
<1>12. \A k \in DOMAIN kept : kept[k].id = id => kept[k].det = n
  BY <1>6 DEF From
<1>13. Distinct(r)  BY <1>8, <1>9, <1>10 DEF CopyOK, Distinct
<1>14. \A k \in DOMAIN r : EntryOK(r[k], q0, m, st)
  <2> SUFFICES ASSUME NEW k \in DOMAIN r PROVE EntryOK(r[k], q0, m, st)
    OBVIOUS
  <2>1. EntryOK(kept[k], q0, m, st)  BY <1>8, <1>9 DEF CopyOK
  <2>2. CASE r[k].id = id
    BY <1>10, <2>1, <2>2 DEF EntryOK
  <2>3. CASE r[k].id # id
    BY <1>10, <2>1, <2>3 DEF EntryOK
  <2>4. QED  BY <2>2, <2>3
<1>15. ASSUME NEW j \in DOMAIN r, NEW k \in DOMAIN r, r[j].active, r[k].active, r[j].id # r[k].id
       PROVE  Of(r[j].det) \cap Of(r[k].det) = {}
  <2>1. CASE r[j].id # id /\ r[k].id # id
    <3>1. Apart(kept[j], kept[k])  BY <1>8, <1>9 DEF CopyOK
    <3>2. QED  BY <1>10, <1>15, <2>1, <3>1 DEF Apart
  <2>2. ASSUME NEW i \in DOMAIN r, NEW l \in DOMAIN r, r[i].id = id, r[l].id # id, r[l].active
        PROVE  Of(r[i].det) \cap Of(r[l].det) = {}
    <3>1. r[i].det = n  BY <1>9, <1>10, <1>12, <2>2
    <3>2. kept[l].active  BY <1>9, <1>10, <2>2
    <3>3. r[l].det # n /\ r[l].det # "all" /\ n # "all"
      BY <1>7, <1>9, <1>10, <2>2, <3>2 DEF InTheWay
    <3>4. QED  BY <3>1, <3>3 DEF Of
  <2>3. QED  BY <1>15, <2>1, <2>2
<1>16. CopyOK(r, q0, m, st)
  <2>1. \A j, k \in DOMAIN r : Apart(r[j], r[k])  BY <1>15 DEF Apart
  <2>2. QED  BY <1>11, <1>13, <1>14, <2>1 DEF CopyOK
<1>17. Kept(kept, q0, st) => Kept(r, q0, st)
  <2>1. Ids(kept) \subseteq Ids(r)  BY <1>9, <1>10 DEF Ids
  <2>2. QED  BY <2>1 DEF Kept
<1>18. QED  BY <1>3, <1>8, <1>16, <1>17

LEMMA Joined ==
  ASSUME NEW S, NEW a \in Seq(S), NEW b \in Seq(S)
  PROVE  /\ a \o b \in Seq(S) /\ Len(a) \in Nat
         /\ \A k \in DOMAIN (a \o b) : /\ k <= Len(a) => k \in DOMAIN a /\ (a \o b)[k] = a[k]
                                       /\ k > Len(a) => /\ k - Len(a) \in DOMAIN b
                                                        /\ (a \o b)[k] = b[k - Len(a)]
                                       /\ k \in Nat
         /\ \A k \in DOMAIN a : k \in DOMAIN (a \o b) /\ (a \o b)[k] = a[k]
         /\ \A k \in DOMAIN b : /\ k + Len(a) \in DOMAIN (a \o b)
                                /\ (a \o b)[k + Len(a)] = b[k]
  OBVIOUS

\* The queue with the runs of the TPC in front, and those of n queued again.
LEMMA PutBackCopy ==
  ASSUME NEW q, NEW q0, NEW m, NEW st, CopyOK(q, q0, m, st), NEW n
  PROVE  /\ CopyOK(PutBack(q, n), q0, m, st)
         /\ Kept(q, q0, st) => Kept(PutBack(q, n), q0, st)
<1> DEFINE I == {i \in DOMAIN q : q[i].det = "tpc"}
           J == {i \in DOMAIN q : q[i].det # "tpc"}
<1>1. I \in SUBSET DOMAIN q /\ J \in SUBSET DOMAIN q /\ I \cap J = {} /\ I \cup J = DOMAIN q
  OBVIOUS
<1>2. PICK a : a = Left(q, I)  OBVIOUS
<1>3. PICK b : b = Left(q, J)  OBVIOUS
<1>4. PICK r : r = PutBack(q, n)  OBVIOUS
<1>5. r = [i \in DOMAIN (a \o b) |->
             IF (a \o b)[i].det = n THEN [(a \o b)[i] EXCEPT !.active = FALSE] ELSE (a \o b)[i]]
  BY <1>2, <1>3, <1>4 DEF PutBack
<1> HIDE DEF I, J
<1>6. q \in Seq(Entries)  BY DEF CopyOK
<1>7. PICK f : From(a, q, f) /\ \A k \in DOMAIN a : f[k] \in I /\ a[k] = q[f[k]]
  BY <1>1, <1>2, <1>6, LeftOver
<1>8. PICK g : From(b, q, g) /\ \A k \in DOMAIN b : g[k] \in J /\ b[k] = q[g[k]]
  BY <1>1, <1>3, <1>6, LeftOver
<1>9. /\ a \in Seq(Entries) /\ b \in Seq(Entries)
      /\ \A i \in I : \E k \in DOMAIN a : a[k] = q[i]
      /\ \A i \in J : \E k \in DOMAIN b : b[k] = q[i]
  BY <1>1, <1>2, <1>3, <1>6, LeftOver
<1>10. PICK c : c = a \o b  OBVIOUS
<1>11. PICK l \in Nat : l = Len(a)  BY <1>9
<1>12. /\ c \in Seq(Entries)
       /\ \A k \in DOMAIN c : /\ k <= l => k \in DOMAIN a /\ c[k] = a[k]
                              /\ k > l => k - l \in DOMAIN b /\ c[k] = b[k - l]
                              /\ k \in Nat /\ c[k] \in Entries
       /\ \A k \in DOMAIN a : k \in DOMAIN c /\ c[k] = a[k]
       /\ \A k \in DOMAIN b : k + l \in DOMAIN c /\ c[k + l] = b[k]
  <2>1. c \in Seq(Entries)  BY <1>9, <1>10, Joined
  <2>2. \A k \in DOMAIN c : c[k] \in Entries  BY <2>1
  <2>3. QED  BY <1>9, <1>10, <1>11, <2>1, <2>2, Joined
<1> DEFINE h == [k \in DOMAIN c |-> IF k <= l THEN f[k] ELSE g[k - l]]
<1>13. /\ DOMAIN r = DOMAIN c
       /\ \A k \in DOMAIN c : /\ r[k] \in Entries /\ r[k].id = c[k].id /\ r[k].det = c[k].det
                              /\ r[k].active => c[k].active
  BY <1>5, <1>10, <1>12 DEF Entries
<1>14. r \in Seq(Entries)  BY <1>5, <1>10, <1>12, <1>13
<1>15. /\ h \in [DOMAIN c -> DOMAIN q]
       /\ \A k \in DOMAIN c : /\ c[k] = q[h[k]] /\ (k <= l <=> h[k] \in I)
                              /\ (k > l <=> h[k] \in J)
  <2>1. \A k \in DOMAIN c :
          /\ k <= l => h[k] = f[k] /\ f[k] \in I /\ c[k] = q[f[k]]
          /\ k > l => h[k] = g[k - l] /\ g[k - l] \in J /\ c[k] = q[g[k - l]]
    BY <1>7, <1>8, <1>12
  <2>2. \A k \in DOMAIN c : h[k] \in I \cup J /\ c[k] = q[h[k]]
                            /\ (k <= l <=> h[k] \in I) /\ (k > l <=> h[k] \in J)
    BY <1>1, <1>12, <2>1
  <2>3. QED  BY <1>1, <2>2
<1>16. From(r, q, h)
  <2>1. ASSUME NEW j \in DOMAIN c, NEW k \in DOMAIN c, h[j] = h[k] PROVE j = k
    <3>1. CASE j <= l /\ k <= l
      BY <1>7, <1>12, <2>1, <3>1 DEF From
    <3>2. CASE j > l /\ k > l
      <4>1. g[j - l] = g[k - l] /\ j - l \in DOMAIN b /\ k - l \in DOMAIN b
        BY <1>12, <2>1, <3>2
      <4>2. j - l = k - l  BY <1>8, <4>1 DEF From
      <4>3. QED  BY <1>12, <4>2
    <3>3. (j <= l <=> k <= l) /\ (j > l <=> k > l) /\ (j <= l \/ j > l)
      BY <1>1, <1>12, <1>15, <2>1
    <3>4. QED  BY <3>1, <3>2, <3>3
  <2>2. QED  BY <1>13, <1>15, <2>1 DEF From
<1> HIDE DEF h
<1>17. Replaces(r, q, st)
  <2>1. \A i \in DOMAIN q : \E k \in DOMAIN c : c[k] = q[i]  BY <1>1, <1>9, <1>12
  <2>2. QED  BY <1>13, <2>1 DEF Replaces
<1>18. \A k \in DOMAIN r : /\ r[k].id = q[h[k]].id /\ r[k].det = q[h[k]].det
                           /\ r[k].active => q[h[k]].active
  BY <1>13, <1>15
<1>19. QED  BY <1>4, <1>14, <1>16, <1>17, <1>18, Derived

\* What was queued while the collection was empty, and the copy that is written behind it.
LEMMA JoinCopies ==
  ASSUME NEW a, NEW b, NEW q0, NEW m, NEW st, CopyOK(a, q0, m, st), CopyOK(b, q0, m, st),
         \A i \in DOMAIN a : ~a[i].active /\ a[i].id \notin Ids(b)
  PROVE  /\ CopyOK(a \o b, q0, m, st)
         /\ Kept(b, q0, st) => Kept(a \o b, q0, st)
<1>1. a \in Seq(Entries) /\ b \in Seq(Entries)  BY DEF CopyOK
<1>2. PICK c : c = a \o b  OBVIOUS
<1>3. PICK l \in Nat : l = Len(a)  BY <1>1
<1>4. /\ c \in Seq(Entries)
      /\ \A k \in DOMAIN c : /\ k <= l => k \in DOMAIN a /\ c[k] = a[k]
                             /\ k > l => k - l \in DOMAIN b /\ c[k] = b[k - l]
                             /\ k \in Nat
      /\ \A k \in DOMAIN b : k + l \in DOMAIN c /\ c[k + l] = b[k]
  BY <1>1, <1>2, <1>3, Joined
<1>5. \A k \in DOMAIN b : b[k].id \in Ids(b)  BY DEF Ids
<1>6. Distinct(c)
  <2> SUFFICES ASSUME NEW j \in DOMAIN c, NEW k \in DOMAIN c, c[j].id = c[k].id PROVE j = k
    BY DEF Distinct
  <2>1. CASE j <= l /\ k <= l
    BY <1>4, <2>1 DEF CopyOK, Distinct
  <2>2. CASE j > l /\ k > l
    <3>1. j - l = k - l  BY <1>4, <2>2 DEF CopyOK, Distinct
    <3>2. QED  BY <1>4, <3>1
  <2>3. CASE (j <= l /\ k > l) \/ (j > l /\ k <= l)
    BY <1>4, <1>5, <2>3
  <2>4. QED  BY <1>4, <2>1, <2>2, <2>3
<1>7. \A k \in DOMAIN c : EntryOK(c[k], q0, m, st)  BY <1>4 DEF CopyOK
<1>8. ASSUME NEW j \in DOMAIN c, NEW k \in DOMAIN c, c[j].active, c[k].active
      PROVE  Apart(c[j], c[k])
  <2>1. j > l /\ k > l  BY <1>4, <1>8
  <2>2. QED  BY <1>4, <2>1 DEF CopyOK
<1>9. \A j, k \in DOMAIN c : Apart(c[j], c[k])  BY <1>8 DEF Apart
<1>10. Kept(b, q0, st) => Kept(c, q0, st)
  <2>1. Ids(b) \subseteq Ids(c)  BY <1>4 DEF Ids
  <2>2. QED  BY <2>1 DEF Kept
<1>11. QED  BY <1>2, <1>4, <1>6, <1>7, <1>9, <1>10 DEF CopyOK

\* A new run behind the others, with an identifier of its own.
LEMMA PushCopy ==
  ASSUME NEW q, NEW q0, NEW m \in Nat, DOMAIN q0 \subseteq 1 .. m, NEW st, CopyOK(q, q0, m, st),
         NEW e \in Entries, e.id = m + 1, ~e.active
  PROVE  /\ CopyOK(Append(q, e), q0, m + 1, st)
         /\ Kept(q, q0, st) => Kept(Append(q, e), q0, st)
         /\ \A k \in DOMAIN Append(q, e) : Append(q, e)[k] = e \/
              (k \in DOMAIN q /\ Append(q, e)[k] = q[k])
<1>1. q \in Seq(Entries)  BY DEF CopyOK
<1>2. PICK r : r = Append(q, e)  OBVIOUS
<1>3. PICK l \in Nat : l = Len(q) + 1  BY <1>1
<1>4. /\ r \in Seq(Entries) /\ r[l] = e
      /\ \A k \in DOMAIN r : (k \in DOMAIN q /\ r[k] = q[k]) \/ k = l
      /\ \A k \in DOMAIN q : k \in DOMAIN r /\ r[k] = q[k]
  BY <1>1, <1>2, <1>3
<1>5. CopyOK(q, q0, m + 1, st)  BY CopyGrows
<1>6. \A k \in DOMAIN q : q[k].id \in 1 .. m  BY DEF CopyOK, EntryOK
<1>7. Distinct(r)  BY <1>4, <1>6 DEF CopyOK, Distinct
<1>8. EntryOK(e, q0, m + 1, st)  BY DEF EntryOK
<1>9. \A k \in DOMAIN r : EntryOK(r[k], q0, m + 1, st)  BY <1>4, <1>5, <1>8 DEF CopyOK
<1>10. \A j, k \in DOMAIN r : Apart(r[j], r[k])  BY <1>4 DEF CopyOK, Apart
<1>11. Kept(q, q0, st) => Kept(r, q0, st)
  <2>1. Ids(q) \subseteq Ids(r)  BY <1>4 DEF Ids
  <2>2. QED  BY <2>1 DEF Kept
<1>12. QED  BY <1>2, <1>4, <1>7, <1>9, <1>10, <1>11 DEF CopyOK

-----------------------------------------------------------------------------
(* The invariant.                                                          *)

\* The types of everything but the two copies of the queue.
RestOK ==
  /\ pc \in {"queue", "scan", "drop", "refill", "command", "start", "stop"}
  /\ then \in {"queue", "command", "stop"} /\ current \in Names
  /\ daq_control \in Seq(Commands)
  /\ state \in [Detectors -> {"IDLE", "RUNNING", "BUSY"}] /\ wants \in [Detectors -> BOOLEAN]
  /\ timer \subseteq Names
  /\ doc \in [Detectors -> {"none", "open", "cut", "ended"}]
  /\ started \subseteq Nat
  /\ queued \in InitialQueues /\ queued \in Seq(Entries)
  /\ count \in [pushes : Nat, commands : Nat, fatal : Nat]

\* The identifiers given out so far.
Issued == Len(queued) + count.pushes

\* While the collection is refilled it holds what was queued since it was dropped, and the
\* copy of the dispatcher the rest.  At first the dispatcher has no copy.
QueueInv ==
  /\ CopyOK(fDAQQueue, queued, Issued, started)
  /\ CopyOK(daq_queue, queued, Issued, started)
  /\ pc = "refill" => \A i \in DOMAIN daq_queue :
       ~daq_queue[i].active /\ daq_queue[i].id \notin Ids(fDAQQueue)
  /\ Kept(fDAQQueue, queued, started) \/ (pc = "queue" /\ timer = {})
  /\ Kept(daq_queue, queued, started) \/ pc \in {"drop", "refill"}

\* A detector with an open run has been told to run, unless the start that made the document
\* has failed and the stop behind it is still to come; and it does not say it is idle.
WillClose(d) ==
  (pc = "stop" \/ (pc \in {"drop", "refill"} /\ then = "stop")) /\ d \in Of(current)

DocInv ==
  /\ unclosed = {}
  /\ \A d \in Detectors : doc[d] = "open" => wants[d] \/ WillClose(d)
  /\ \A d \in Detectors : wants[d] => state[d] # "IDLE"

LEMMA NewCounts ==
  ASSUME RestOK
  PROVE  /\ Issued \in Nat /\ Len(queued) \in Nat /\ DOMAIN queued = 1 .. Len(queued)
         /\ DOMAIN queued \subseteq 1 .. Issued
         /\ \A d \in Detectors : [count EXCEPT !.fatal = @ + 1] \in
              [pushes : Nat, commands : Nat, fatal : Nat]
         /\ [count EXCEPT !.pushes = @ + 1] \in [pushes : Nat, commands : Nat, fatal : Nat]
         /\ [count EXCEPT !.commands = @ + 1] \in [pushes : Nat, commands : Nat, fatal : Nat]
<1>1. queued \in Seq(Entries) /\ count \in [pushes : Nat, commands : Nat, fatal : Nat]
  BY DEF RestOK
<1>2. Len(queued) \in Nat /\ DOMAIN queued = 1 .. Len(queued)  BY <1>1
<1>3. Issued \in Nat /\ Len(queued) <= Issued  BY <1>1, <1>2 DEF Issued
<1>4. QED  BY <1>1, <1>2, <1>3

LEMMA StopType ==
  ASSUME RestOK, NEW n \in Names, Stop(n)
  PROVE  /\ state' \in [Detectors -> {"IDLE", "RUNNING", "BUSY"}]
         /\ wants' \in [Detectors -> BOOLEAN]
         /\ timer' \subseteq Names
         /\ doc' \in [Detectors -> {"none", "open", "cut", "ended"}]
<1>1. \A d \in Detectors : Closed(d) \in {"none", "open", "cut", "ended"}
  BY DEF Closed
<1>2. QED  BY <1>1 DEF Stop, RestOK

LEMMA RestStep == ASSUME RestOK, QueueInv, Next PROVE RestOK'
<1>1. CASE Expire
  <2>1. PICK n \in timer : Stop(n)  BY <1>1 DEF Expire
  <2>2. n \in Names  BY <2>1 DEF RestOK
  <2>3. QED  BY <1>1, <2>1, <2>2, StopType DEF Expire, Sync, RestOK, history
<1>2. CASE StopFailed
  <2>1. current \in Names /\ Stop(current)  BY <1>2 DEF StopFailed, RestOK
  <2>2. QED  BY <1>2, <2>1, StopType DEF StopFailed, Sync, RestOK, history, Names
<1>3. CASE GetRunQueue \/ NothingToStart \/ Drop \/ Refill \/ Refused
  BY <1>3 DEF GetRunQueue, NothingToStart, Drop, Refill, Refused, RestOK, det, history, Names
<1>4. CASE \E old \in BOOLEAN : Requeue(old)
  BY <1>4 DEF Requeue, Sync, RestOK, det, history
<1>5. CASE StartNext
  <2>1. PICK i \in DOMAIN fDAQQueue :
          /\ daq_control' = Append(daq_control, [command |-> "Start", det |-> fDAQQueue[i].det])
          /\ started' = started \cup {fDAQQueue[i].id}
    BY <1>5 DEF StartNext
  <2>2. fDAQQueue[i].det \in Names /\ fDAQQueue[i].id \in Nat
    <3>1. fDAQQueue \in Seq(Entries)  BY DEF QueueInv, CopyOK
    <3>2. fDAQQueue[i] \in Entries  BY <3>1
    <3>3. QED  BY <3>2 DEF Entries
  <2>3. PICK c \in Commands : daq_control' = Append(daq_control, c)
    BY <2>1, <2>2 DEF Commands
  <2>4. daq_control' \in Seq(Commands) /\ started' \subseteq Nat
    <3>1. daq_control \in Seq(Commands) /\ started \subseteq Nat  BY DEF RestOK
    <3>2. daq_control' \in Seq(Commands)  BY <2>3, <3>1
    <3>3. QED  BY <2>1, <2>2, <3>1, <3>2
  <2>5. QED  BY <1>5, <2>4 DEF StartNext, Sync, RestOK, det
<1>6. CASE CheckForCommand
  <2>1. CASE daq_control = <<>>
    BY <1>6, <2>1 DEF CheckForCommand, RestOK, det, history
  <2>2. CASE daq_control # <<>>
    <3>1. PICK c : c = Head(daq_control)  OBVIOUS
    <3>2. c \in Commands /\ daq_control \in Seq(Commands)  BY <2>2, <3>1 DEF RestOK
    <3> DEFINE I == {i \in DOMAIN daq_control : daq_control[i].det # c.det}
    <3>3. daq_control' = Left(daq_control, I)  BY <1>6, <2>2, <3>1 DEF CheckForCommand
    <3>4. I \in SUBSET DOMAIN daq_control  OBVIOUS
    <3> HIDE DEF I
    <3>5. daq_control' \in Seq(Commands)  BY <3>2, <3>3, <3>4, LeftOver
    <3>6. c.det \in Names  BY <3>2 DEF Commands
    <3>7. CASE c.command = "Stop"
      <4>1. Stop(c.det)  BY <1>6, <2>2, <3>1, <3>7 DEF CheckForCommand
      <4>2. QED
        BY <1>6, <2>2, <3>1, <3>5, <3>6, <3>7, <4>1, StopType
        DEF CheckForCommand, Sync, RestOK, history
    <3>8. CASE c.command # "Stop"
      BY <1>6, <2>2, <3>1, <3>5, <3>6, <3>8 DEF CheckForCommand, RestOK, det, history
    <3>9. QED  BY <3>7, <3>8
  <2>3. QED  BY <2>1, <2>2
<1>7. CASE Fails \/ Succeeds
  BY <1>7 DEF Fails, Succeeds, Documented, Sync, RestOK, Names
<1>8. CASE \E d \in Detectors : Report(d)
  BY <1>8 DEF Report, RestOK, loop, history
<1>9. CASE \E d \in Detectors : Fatal(d)
  <2>1. PICK d \in Detectors : Fatal(d)  BY <1>9
  <2>2. Closed(d) \in {"none", "open", "cut", "ended"}  BY DEF Closed
  <2>3. /\ wants' \in [Detectors -> BOOLEAN]
        /\ doc' \in [Detectors -> {"none", "open", "cut", "ended"}]
    BY <2>1, <2>2 DEF Fatal, RestOK
  <2>4. count' \in [pushes : Nat, commands : Nat, fatal : Nat]  BY <2>1, NewCounts DEF Fatal
  <2>5. QED  BY <2>1, <2>3, <2>4 DEF Fatal, RestOK, loop, history
<1>10. CASE \E n \in Names : Push(n)
  <2>1. count' \in [pushes : Nat, commands : Nat, fatal : Nat]  BY <1>10, NewCounts DEF Push
  <2>2. QED  BY <1>10, <2>1 DEF Push, RestOK, loop, det, history
<1>11. CASE \E c \in Commands : UserCommand(c)
  <2>1. count' \in [pushes : Nat, commands : Nat, fatal : Nat]
    BY <1>11, NewCounts DEF UserCommand
  <2>2. daq_control' \in Seq(Commands)  BY <1>11 DEF UserCommand, RestOK
  <2>3. QED  BY <1>11, <2>1, <2>2 DEF UserCommand, RestOK, loop, det, history
<1>12. QED
  BY <1>1, <1>2, <1>3, <1>4, <1>5, <1>6, <1>7, <1>8, <1>9, <1>10, <1>11 DEF Next, MasterLoop

-----------------------------------------------------------------------------
(* The two copies of the queue.                                            *)

\* A step that leaves both of them.
LEMMA QueueUntouched ==
  ASSUME QueueInv, UNCHANGED <<fDAQQueue, daq_queue, queued, started>>, Issued' = Issued,
         pc' = "refill" => pc = "refill",
         pc \in {"drop", "refill"} => pc' \in {"drop", "refill"},
         pc = "queue" /\ timer = {} => pc' = "queue" /\ timer' = {}
  PROVE  QueueInv'
<1>1. PICK f : f = fDAQQueue  OBVIOUS
<1>2. PICK q : q = daq_queue  OBVIOUS
<1>3. PICK q0 : q0 = queued  OBVIOUS
<1>4. PICK st : st = started  OBVIOUS
<1>5. PICK m : m = Issued  OBVIOUS
<1>6. fDAQQueue' = f /\ daq_queue' = q /\ queued' = q0 /\ started' = st /\ Issued' = m
  BY <1>1, <1>2, <1>3, <1>4, <1>5
<1>7. CopyOK(f, q0, m, st) /\ CopyOK(q, q0, m, st)
  BY <1>1, <1>2, <1>3, <1>4, <1>5 DEF QueueInv
<1>8. (Kept(f, q0, st) \/ (pc' = "queue" /\ timer' = {}))
      /\ (Kept(q, q0, st) \/ pc' \in {"drop", "refill"})
  BY <1>1, <1>2, <1>3, <1>4 DEF QueueInv
<1>9. pc' = "refill" => \A i \in DOMAIN q : ~q[i].active /\ q[i].id \notin Ids(f)
  BY <1>1, <1>2 DEF QueueInv
<1>10. QED  BY <1>6, <1>7, <1>8, <1>9 DEF QueueInv

\* A step that gives the dispatcher another copy and leaves the collection.
LEMMA CopyChanged ==
  ASSUME QueueInv, NEW f, fDAQQueue' = f, UNCHANGED <<daq_queue, queued, count>>,
         NEW st, started' = st, started \subseteq st, Issued \in Nat,
         CopyOK(f, queued, Issued, st), Kept(f, queued, st),
         pc \notin {"drop", "refill"}, pc' # "refill"
  PROVE  QueueInv'
<1>1. PICK q : q = daq_queue  OBVIOUS
<1>2. PICK q0 : q0 = queued  OBVIOUS
<1>3. PICK m \in Nat : m = Issued  OBVIOUS
<1>4. daq_queue' = q /\ queued' = q0 /\ Issued' = m  BY <1>1, <1>2, <1>3 DEF Issued
<1>5. CopyOK(q, q0, m, started) /\ Kept(q, q0, started)  BY <1>1, <1>2, <1>3 DEF QueueInv
<1>6. CopyOK(q, q0, m, st) /\ Kept(q, q0, st)  BY <1>5, CopyGrows
<1>7. CopyOK(f, q0, m, st) /\ Kept(f, q0, st)  BY <1>2, <1>3
<1>8. QED  BY <1>4, <1>6, <1>7 DEF QueueInv

LEMMA QueueStep == ASSUME RestOK, QueueInv, Next PROVE QueueInv'
<1>0. Issued \in Nat  BY NewCounts
<1>1. ASSUME NEW n, Stop(n), UNCHANGED <<daq_queue, history, count>>,
             pc \notin {"drop", "refill"}, ~(pc = "queue" /\ timer = {}), pc' = "drop"
      PROVE  QueueInv'
  <2>1. PICK f : f = Purge(fDAQQueue, n)  OBVIOUS
  <2>2. fDAQQueue' = f /\ UNCHANGED <<queued, started>>  BY <1>1, <2>1 DEF Stop, history
  <2>3. CopyOK(f, queued, Issued, started) /\ Kept(f, queued, started)
    BY <1>1, <2>1, PurgeCopy DEF QueueInv
  <2>4. PICK st : st = started  OBVIOUS
  <2>5. QED  BY <1>0, <1>1, <2>2, <2>3, <2>4, CopyChanged
<1>2. CASE Expire
  <2>1. PICK n \in timer : Stop(n)  BY <1>2 DEF Expire
  <2>2. QED  BY <1>1, <1>2, <2>1 DEF Expire, Sync
<1>3. CASE StopFailed
  BY <1>1, <1>3 DEF StopFailed, Sync
<1>4. CASE CheckForCommand
  <2>1. CASE daq_control # <<>> /\ Head(daq_control).command = "Stop"
    BY <1>1, <1>4, <2>1 DEF CheckForCommand, Sync
  <2>2. CASE ~(daq_control # <<>> /\ Head(daq_control).command = "Stop")
    <3>1. /\ UNCHANGED <<fDAQQueue, daq_queue, queued, started, count, timer>>
          /\ pc = "command" /\ pc' \in {"queue", "start"}
      BY <1>4, <2>2 DEF CheckForCommand, det, history
    <3>2. Issued' = Issued  BY <3>1 DEF Issued
    <3>3. QED  BY <3>1, <3>2, QueueUntouched
  <2>3. QED  BY <2>1, <2>2
<1>5. CASE GetRunQueue
  <2>1. PICK f : f = daq_queue  OBVIOUS
  <2>2. PICK st : st = started  OBVIOUS
  <2>3. /\ fDAQQueue' = f /\ UNCHANGED <<daq_queue, queued, started, count>>
        /\ pc = "queue" /\ pc' = "scan"
    BY <1>5, <2>1 DEF GetRunQueue, history
  <2>4. CopyOK(f, queued, Issued, st) /\ Kept(f, queued, st)
    BY <2>1, <2>2, <2>3 DEF QueueInv
  <2>5. QED  BY <1>0, <2>2, <2>3, <2>4, CopyChanged
<1>6. CASE NothingToStart
  <2>1. PICK f : f = Scanned(fDAQQueue, Len(fDAQQueue))  OBVIOUS
  <2>2. PICK st : st = started  OBVIOUS
  <2>3. /\ fDAQQueue' = f /\ UNCHANGED <<daq_queue, queued, started, count>>
        /\ pc = "scan" /\ pc' = "command"
    BY <1>6, <2>1 DEF NothingToStart, history
  <2>4. CopyOK(f, queued, Issued, st) /\ Kept(f, queued, st)
    BY <2>1, <2>2, <2>3, ScannedCopy DEF QueueInv
  <2>5. QED  BY <1>0, <2>2, <2>3, <2>4, CopyChanged
\* The entry that is marked is the only one with its identifier.
<1>7. ASSUME NEW i \in DOMAIN fDAQQueue, NEW e, e = fDAQQueue[i], NEW st, started \subseteq st,
             NEW on \in BOOLEAN, on => e.id \in st, pc = "scan"
      PROVE  LET f == Mark(Scanned(fDAQQueue, i), e.det, e.id, on) IN
             CopyOK(f, queued, Issued, st) /\ Kept(f, queued, st)
  <2>1. /\ CopyOK(fDAQQueue, queued, Issued, st) /\ Kept(fDAQQueue, queued, st)
    BY <1>0, <1>7, CopyGrows DEF QueueInv
  <2>2. PICK r : r = Scanned(fDAQQueue, i)  OBVIOUS
  <2>3. /\ CopyOK(r, queued, Issued, st) /\ Kept(r, queued, st)
        /\ \A k \in DOMAIN r : \E j \in DOMAIN fDAQQueue : r[k] = fDAQQueue[j]
    BY <2>1, <2>2, ScannedCopy
  <2>4. \A k \in DOMAIN r : r[k].id = e.id => r[k].det = e.det
    BY <1>7, <2>1, <2>3 DEF CopyOK, Distinct
  <2>5. e.det \in Names
    <3>1. fDAQQueue \in Seq(Entries)  BY DEF QueueInv, CopyOK
    <3>2. e \in Entries  BY <1>7, <3>1
    <3>3. QED  BY <3>2 DEF Entries
  <2>6. PICK d : d = e.det  OBVIOUS
  <2>7. PICK id : id = e.id  OBVIOUS
  <2>8. CopyOK(Mark(r, d, id, on), queued, Issued, st) /\ Kept(Mark(r, d, id, on), queued, st)
    BY <1>7, <2>3, <2>4, <2>5, <2>6, <2>7, MarkCopy
  <2>9. QED  BY <2>2, <2>6, <2>7, <2>8
<1>8. CASE \E old \in BOOLEAN : Requeue(old)
  <2>1. PICK old \in BOOLEAN : Requeue(old)  BY <1>8
  <2>2. PICK st : st = started  OBVIOUS
  <2>3. PICK i \in DOMAIN fDAQQueue :
          \/ fDAQQueue' = Mark(Scanned(fDAQQueue, i), fDAQQueue[i].det, fDAQQueue[i].id, FALSE)
          \/ fDAQQueue' = Scanned(fDAQQueue, i)
    BY <2>1 DEF Requeue
  <2>4. /\ UNCHANGED <<daq_queue, queued, started, count>>
        /\ pc = "scan" /\ pc' \in {"drop", "command"}
    BY <2>1 DEF Requeue, Sync, history
  <2>5. PICK f : /\ CopyOK(f, queued, Issued, st) /\ Kept(f, queued, st)
                 /\ fDAQQueue' = f
    <3>1. CASE fDAQQueue' = Scanned(fDAQQueue, i)
      <4>1. PICK f : f = Scanned(fDAQQueue, i)  OBVIOUS
      <4>2. CopyOK(f, queued, Issued, st) /\ Kept(f, queued, st)
        BY <2>2, <2>4, <4>1, ScannedCopy DEF QueueInv
      <4>3. QED  BY <3>1, <4>1, <4>2
    <3>2. CASE fDAQQueue' = Mark(Scanned(fDAQQueue, i), fDAQQueue[i].det, fDAQQueue[i].id, FALSE)
      <4>1. PICK e : e = fDAQQueue[i]  OBVIOUS
      <4>2. PICK f : f = Mark(Scanned(fDAQQueue, i), e.det, e.id, FALSE)  OBVIOUS
      <4>3. CopyOK(f, queued, Issued, st) /\ Kept(f, queued, st)
        BY <1>7, <2>2, <2>4, <4>1, <4>2
      <4>4. QED  BY <3>2, <4>1, <4>2, <4>3
    <3>3. QED  BY <2>3, <3>1, <3>2
  <2>6. QED  BY <1>0, <2>2, <2>4, <2>5, CopyChanged
<1>9. CASE StartNext
  <2>1. PICK i \in DOMAIN fDAQQueue :
          /\ fDAQQueue' = Mark(Scanned(fDAQQueue, i), fDAQQueue[i].det, fDAQQueue[i].id, TRUE)
          /\ started' = started \cup {fDAQQueue[i].id}
    BY <1>9 DEF StartNext
  <2>2. /\ UNCHANGED <<daq_queue, queued, count>> /\ pc = "scan" /\ pc' = "drop"
    BY <1>9 DEF StartNext, Sync
  <2>3. PICK e : e = fDAQQueue[i]  OBVIOUS
  <2>4. PICK st : st = started \cup {e.id}  OBVIOUS
  <2>5. PICK f : f = Mark(Scanned(fDAQQueue, i), e.det, e.id, TRUE)  OBVIOUS
  <2>6. CopyOK(f, queued, Issued, st) /\ Kept(f, queued, st)
    BY <1>7, <2>2, <2>3, <2>4, <2>5
  <2>7. fDAQQueue' = f /\ started' = st /\ started \subseteq st
    BY <2>1, <2>3, <2>4, <2>5
  <2>8. QED  BY <1>0, <2>2, <2>6, <2>7, CopyChanged
<1>10. CASE Fails
  <2>1. PICK f : f = PutBack(daq_queue, current)  OBVIOUS
  <2>2. PICK st : st = started  OBVIOUS
  <2>3. /\ fDAQQueue' = f /\ UNCHANGED <<daq_queue, queued, started, count>>
        /\ pc = "start" /\ pc' = "drop"
    BY <1>10, <2>1 DEF Fails, Accepted, Sync
  <2>4. CopyOK(f, queued, Issued, st) /\ Kept(f, queued, st)
    BY <2>1, <2>2, <2>3, PutBackCopy DEF QueueInv
  <2>5. QED  BY <1>0, <2>2, <2>3, <2>4, CopyChanged
<1>11. CASE Drop
  <2>1. PICK f : f = fDAQQueue  OBVIOUS
  <2>2. PICK q0 : q0 = queued  OBVIOUS
  <2>3. PICK st : st = started  OBVIOUS
  <2>4. PICK m : m = Issued  OBVIOUS
  <2>5. /\ daq_queue' = <<>> /\ fDAQQueue' = f /\ queued' = q0 /\ started' = st /\ Issued' = m
        /\ pc = "drop" /\ pc' = "refill"
    BY <1>11, <2>1, <2>2, <2>3, <2>4 DEF Drop, history, Issued
  <2>6. CopyOK(f, q0, m, st) /\ Kept(f, q0, st)
    BY <2>1, <2>2, <2>3, <2>4, <2>5 DEF QueueInv
  <2>7. CopyOK(<<>>, q0, m, st)  BY DEF CopyOK, Distinct
  <2>8. QED  BY <2>5, <2>6, <2>7 DEF QueueInv
<1>12. CASE Refill
  <2>1. PICK f : f = fDAQQueue  OBVIOUS
  <2>2. PICK q0 : q0 = queued  OBVIOUS
  <2>3. PICK st : st = started  OBVIOUS
  <2>4. PICK m : m = Issued  OBVIOUS
  <2>5. PICK q : q = daq_queue \o fDAQQueue  OBVIOUS
  <2>6. /\ daq_queue' = q /\ fDAQQueue' = f /\ queued' = q0 /\ started' = st /\ Issued' = m
        /\ pc = "refill" /\ pc' \in {"queue", "command", "stop"}
    BY <1>12, <2>1, <2>2, <2>3, <2>4, <2>5 DEF Refill, history, Issued, RestOK
  <2>7. CopyOK(f, q0, m, st) /\ Kept(f, q0, st)
    BY <2>1, <2>2, <2>3, <2>4, <2>6 DEF QueueInv
  <2>8. /\ CopyOK(daq_queue, q0, m, st)
        /\ \A i \in DOMAIN daq_queue : ~daq_queue[i].active /\ daq_queue[i].id \notin Ids(f)
    BY <2>1, <2>2, <2>3, <2>4, <2>6 DEF QueueInv
  <2>9. CopyOK(q, q0, m, st) /\ Kept(q, q0, st)
    BY <2>1, <2>5, <2>7, <2>8, JoinCopies
  <2>10. QED  BY <2>6, <2>7, <2>9 DEF QueueInv
<1>13. CASE Refused \/ Succeeds
  <2>1. /\ UNCHANGED <<fDAQQueue, daq_queue, queued, started, count>>
        /\ pc = "start" /\ pc' = "queue"
    BY <1>13 DEF Refused, Succeeds, Accepted, history
  <2>2. Issued' = Issued  BY <2>1 DEF Issued
  <2>3. QED  BY <2>1, <2>2, QueueUntouched
<1>14. CASE \E d \in Detectors : Report(d)
  <2>1. /\ UNCHANGED <<fDAQQueue, daq_queue, queued, started, count, pc, timer>>
    BY <1>14 DEF Report, loop, history
  <2>2. Issued' = Issued  BY <2>1 DEF Issued
  <2>3. QED  BY <2>1, <2>2, QueueUntouched
<1>15. CASE (\E d \in Detectors : Fatal(d)) \/ (\E c \in Commands : UserCommand(c))
  <2>1. /\ UNCHANGED <<fDAQQueue, daq_queue, queued, started, pc, timer>>
        /\ count' = [count EXCEPT !.fatal = @ + 1] \/ count' = [count EXCEPT !.commands = @ + 1]
    BY <1>15 DEF Fatal, UserCommand, loop, det, history
  <2>2. count'.pushes = count.pushes  BY <2>1 DEF RestOK
  <2>3. Issued' = Issued  BY <2>1, <2>2 DEF Issued
  <2>4. QED  BY <2>1, <2>3, QueueUntouched
<1>16. CASE \E n \in Names : Push(n)
  <2>1. PICK n \in Names : Push(n)  BY <1>16
  <2>2. PICK f : f = fDAQQueue  OBVIOUS
  <2>3. PICK q0 : q0 = queued  OBVIOUS
  <2>4. PICK st : st = started  OBVIOUS
  <2>5. PICK m \in Nat : m = Issued  BY <1>0
  <2>6. count'.pushes = count.pushes + 1  BY <2>1 DEF Push, RestOK
  <2>7. Issued' = m + 1 /\ Len(queued) + count'.pushes = m + 1
    <3>1. count.pushes \in Nat /\ Len(queued) \in Nat  BY NewCounts DEF RestOK
    <3>2. queued' = queued  BY <2>1 DEF Push, history
    <3>3. QED  BY <2>5, <2>6, <3>1, <3>2 DEF Issued
  <2>8. PICK e : e = [id |-> m + 1, det |-> n, active |-> FALSE]  OBVIOUS
  <2>9. e \in Entries /\ e.id = m + 1 /\ ~e.active  BY <2>8 DEF Entries
  <2>10. PICK q : q = Append(daq_queue, e)  OBVIOUS
  <2>11. /\ daq_queue' = q /\ fDAQQueue' = f /\ queued' = q0 /\ started' = st
         /\ UNCHANGED <<pc, timer>>
    BY <2>1, <2>2, <2>3, <2>4, <2>7, <2>8, <2>10 DEF Push, loop, det, history
  <2>12. DOMAIN q0 \subseteq 1 .. m  BY <2>3, <2>5, NewCounts
  <2>13. CopyOK(daq_queue, q0, m, st) /\ CopyOK(f, q0, m, st)
    BY <2>2, <2>3, <2>4, <2>5 DEF QueueInv
  <2>14. /\ CopyOK(q, q0, m + 1, st) /\ (Kept(daq_queue, q0, st) => Kept(q, q0, st))
         /\ \A k \in DOMAIN q : q[k] = e \/ (k \in DOMAIN daq_queue /\ q[k] = daq_queue[k])
    BY <2>9, <2>10, <2>12, <2>13, PushCopy
  <2>15. CopyOK(f, q0, m + 1, st)  BY <2>13, CopyGrows
  <2>16. pc = "refill" => \A k \in DOMAIN q : ~q[k].active /\ q[k].id \notin Ids(f)
    <3>1. \A i \in DOMAIN f : f[i].id \in 1 .. m  BY <2>13 DEF CopyOK, EntryOK
    <3>2. e.id \notin Ids(f)  BY <2>9, <3>1 DEF Ids
    <3>3. QED  BY <2>2, <2>9, <2>14, <3>2 DEF QueueInv
  <2>17. /\ Kept(f, q0, st) \/ (pc = "queue" /\ timer = {})
         /\ Kept(q, q0, st) \/ pc \in {"drop", "refill"}
    BY <2>2, <2>3, <2>4, <2>14 DEF QueueInv
  <2>18. QED  BY <2>7, <2>11, <2>14, <2>15, <2>16, <2>17 DEF QueueInv
<1>17. QED
  BY <1>2, <1>3, <1>4, <1>5, <1>6, <1>8, <1>9, <1>10, <1>11, <1>12, <1>13, <1>14, <1>15, <1>16
  DEF Next, MasterLoop

-----------------------------------------------------------------------------
(* The documents of the runs.                                              *)

\* A stop closes the documents of its detectors, which are told not to run.
LEMMA StopCloses ==
  ASSUME RestOK, NEW n, Stop(n), NEW d \in Detectors
  PROVE  /\ d \in Of(n) => doc'[d] # "open" /\ ~wants'[d]
         /\ d \notin Of(n) => doc'[d] = doc[d] /\ wants'[d] = wants[d]
         /\ state' = state
<1>1. Closed(d) # "open"  BY DEF Closed
<1>2. doc'[d] = IF d \in Of(n) THEN Closed(d) ELSE doc[d]
  BY DEF Stop
<1>3. wants'[d] = (wants[d] /\ d \notin Of(n))  BY DEF Stop
<1>4. wants[d] \in BOOLEAN  BY DEF RestOK
<1>5. d \notin Of(n) => wants'[d] = wants[d]  BY <1>3, <1>4
<1>6. QED  BY <1>1, <1>2, <1>3, <1>5 DEF Stop

LEMMA DocStep == ASSUME RestOK, DocInv, Next PROVE DocInv'
<1>1. ASSUME UNCHANGED <<doc, wants, state, unclosed, then, current>>,
             \/ pc' = pc
             \/ pc = "drop" /\ pc' = "refill"
             \/ pc' \notin {"drop", "refill", "stop"} /\ pc \notin {"drop", "refill", "stop"}
      PROVE  DocInv'
  BY <1>1 DEF DocInv, WillClose
<1>2. ASSUME NEW n, Stop(n), unclosed' = unclosed, \A d \in Detectors : WillClose(d) => d \in Of(n)
      PROVE  DocInv'
  <2>1. ASSUME NEW d \in Detectors
        PROVE  (doc'[d] = "open" => wants'[d]) /\ (wants'[d] => state'[d] # "IDLE")
    <3>1. CASE d \in Of(n)
      BY <1>2, <3>1, StopCloses
    <3>2. CASE d \notin Of(n)
      BY <1>2, <3>2, StopCloses DEF DocInv
    <3>3. QED  BY <3>1, <3>2
  <2>2. QED  BY <1>2, <2>1 DEF DocInv
<1>3. CASE Expire
  <2>1. PICK n \in timer : Stop(n)  BY <1>3 DEF Expire
  <2>2. \A d \in Detectors : ~WillClose(d)  BY <1>3 DEF Expire, WillClose
  <2>3. QED  BY <1>2, <1>3, <2>1, <2>2 DEF Expire, history
<1>4. CASE StopFailed
  BY <1>2, <1>4 DEF StopFailed, WillClose, history
<1>5. CASE CheckForCommand
  <2>1. pc = "command" /\ unclosed' = unclosed  BY <1>5 DEF CheckForCommand, history
  <2>2. \A d \in Detectors : ~WillClose(d)  BY <2>1 DEF WillClose
  <2>3. CASE \E n : Stop(n)
    BY <1>2, <2>1, <2>2, <2>3
  <2>4. CASE /\ UNCHANGED <<doc, wants, state>> /\ pc' \in {"queue", "start"}
    BY <2>1, <2>2, <2>4 DEF DocInv
  <2>5. QED  BY <1>5, <2>3, <2>4 DEF CheckForCommand, det
<1>6. CASE Refill
  <2>1. UNCHANGED <<doc, wants, state, unclosed, current>> /\ pc = "refill" /\ pc' = then
    BY <1>6 DEF Refill, det, history
  <2>2. QED  BY <2>1 DEF DocInv, WillClose
<1>7. CASE GetRunQueue \/ NothingToStart \/ Drop
  <2>1. /\ UNCHANGED <<doc, wants, state, unclosed, then, current>>
        /\ (pc = "drop" /\ pc' = "refill") \/ (pc = "queue" /\ pc' = "scan")
             \/ (pc = "scan" /\ pc' = "command")
    BY <1>7 DEF GetRunQueue, NothingToStart, Drop, det, history
  <2>2. QED  BY <1>1, <2>1
<1>8. CASE (\E old \in BOOLEAN : Requeue(old)) \/ StartNext \/ Refused
  <2>1. /\ UNCHANGED <<doc, wants, state, unclosed>> /\ pc \in {"scan", "start"}
    BY <1>8 DEF Requeue, StartNext, Refused, det, history
  <2>2. QED  BY <2>1 DEF DocInv, WillClose
<1>9. CASE Fails \/ Succeeds
  <2>1. /\ pc = "start" /\ \A d \in Of(current) : state[d] = "IDLE"
        /\ Of(current) \subseteq Detectors
        /\ state' = [d \in Detectors |-> IF d \in Of(current) THEN "BUSY" ELSE state[d]]
    BY <1>9 DEF Fails, Succeeds, Accepted, Of, Names, RestOK
  <2>2. \A d \in Detectors : doc[d] = "open" => wants[d] /\ state[d] # "IDLE"
    BY <2>1 DEF DocInv, WillClose
  <2>3. unclosed' = {}
    <3>1. \A d \in Of(current) : doc[d] # "open"  BY <2>1, <2>2
    <3>2. QED  BY <1>9, <3>1 DEF Fails, Succeeds, Documented, DocInv
  <2>4. \A d \in Detectors : doc'[d] = "open" => doc[d] = "open" \/ d \in Of(current)
    BY <1>9 DEF Fails, Succeeds, Documented
  <2>5. CASE Fails
    <3>1. wants' = wants /\ \A d \in Of(current) : WillClose(d)'
      BY <2>5 DEF Fails, Sync, WillClose
    <3>2. \A d \in Detectors : doc'[d] = "open" => wants'[d] \/ WillClose(d)'
      BY <2>2, <2>4, <3>1
    <3>3. \A d \in Detectors : wants'[d] => state'[d] # "IDLE"  BY <2>1, <3>1 DEF DocInv
    <3>4. QED  BY <2>3, <3>2, <3>3 DEF DocInv
  <2>6. CASE Succeeds
    <3>1. \A d \in Detectors : wants'[d] <=> wants[d] \/ d \in Of(current)
      BY <2>6 DEF Succeeds
    <3>2. \A d \in Detectors : wants'[d] => state'[d] # "IDLE"  BY <2>1, <3>1 DEF DocInv
    <3>3. \A d \in Detectors : doc'[d] = "open" => wants'[d]  BY <2>2, <2>4, <3>1
    <3>4. QED  BY <2>3, <3>2, <3>3 DEF DocInv
  <2>7. QED  BY <1>9, <2>5, <2>6
<1>10. CASE \E d \in Detectors : Report(d)
  <2>1. PICK d \in Detectors : Report(d)  BY <1>10
  <2>2. /\ UNCHANGED <<doc, wants, unclosed, pc, then, current>>
        /\ \A e \in Detectors : state'[e] = state[e] \/ (wants[e] => state'[e] # "IDLE")
    BY <2>1 DEF Report, RestOK, loop, history
  <2>3. QED  BY <2>2 DEF DocInv, WillClose
<1>11. CASE \E d \in Detectors : Fatal(d)
  <2>1. PICK d \in Detectors : Fatal(d)  BY <1>11
  <2>2. Closed(d) # "open"  BY DEF Closed
  <2>3. /\ UNCHANGED <<state, unclosed, pc, then, current>>
        /\ doc'[d] # "open" /\ ~wants'[d]
        /\ \A e \in Detectors \ {d} : doc'[e] = doc[e] /\ wants'[e] = wants[e]
    BY <2>1, <2>2 DEF Fatal, RestOK, loop, history
  <2>4. QED  BY <2>3 DEF DocInv, WillClose
<1>12. CASE (\E n \in Names : Push(n)) \/ (\E c \in Commands : UserCommand(c))
  <2>1. UNCHANGED <<doc, wants, state, unclosed, then, current, pc>>
    BY <1>12 DEF Push, UserCommand, det, loop, history
  <2>2. QED  BY <1>1, <2>1
<1>13. QED
  BY <1>3, <1>4, <1>5, <1>6, <1>7, <1>8, <1>9, <1>10, <1>11, <1>12 DEF Next, MasterLoop

-----------------------------------------------------------------------------
(* What follows from it.                                                   *)

LEMMA InitQueue == Init => RestOK /\ QueueInv /\ DocInv
<1> SUFFICES ASSUME Init PROVE RestOK /\ QueueInv /\ DocInv
  OBVIOUS
<1>1. /\ daq_queue \in InitialQueues /\ queued = daq_queue /\ fDAQQueue = <<>> /\ started = {}
      /\ daq_queue \in Seq(Entries)
      /\ \A i \in DOMAIN daq_queue : daq_queue[i].id = i /\ ~daq_queue[i].active
  BY QueueAssumption DEF Init
<1>2. RestOK
  <2>1. daq_control \in Seq(Commands) /\ timer \subseteq Names /\ current \in Names
    BY DEF Init, Names
  <2>2. QED  BY <1>1, <2>1 DEF Init, RestOK
<1>3. QueueInv
  <2>1. Issued = Len(daq_queue) /\ DOMAIN daq_queue = 1 .. Len(daq_queue)
    BY <1>1 DEF Init, Issued
  <2>2. CopyOK(fDAQQueue, queued, Issued, started)  BY <1>1 DEF CopyOK, Distinct
  <2>3. CopyOK(daq_queue, queued, Issued, started)
    BY <1>1, <2>1 DEF CopyOK, Distinct, EntryOK, Apart
  <2>4. Kept(daq_queue, queued, started)  BY <1>1 DEF Kept, Ids
  <2>5. pc = "queue" /\ timer = {}  BY DEF Init
  <2>6. QED  BY <2>2, <2>3, <2>4, <2>5 DEF QueueInv
<1>4. DocInv  BY DEF Init, DocInv
<1>5. QED  BY <1>2, <1>3, <1>4

LEMMA InvStep == RestOK /\ QueueInv /\ DocInv /\ [Next]_vars => (RestOK /\ QueueInv /\ DocInv)'
<1> SUFFICES ASSUME RestOK, QueueInv, DocInv, [Next]_vars PROVE (RestOK /\ QueueInv /\ DocInv)'
  OBVIOUS
<1>1. CASE Next
  BY <1>1, RestStep, QueueStep, DocStep
<1>2. CASE UNCHANGED vars
  <2>1. /\ UNCHANGED <<pc, then, current, fDAQQueue, daq_queue, daq_control>>
        /\ UNCHANGED <<state, wants, timer, doc, started, queued, unclosed, count>>
    BY <1>2 DEF vars, loop, det, history
  <2>2. RestOK'  BY <2>1 DEF RestOK
  <2>3. DocInv'  BY <2>1 DEF DocInv, WillClose
  <2>4. Issued' = Issued  BY <2>1 DEF Issued
  <2>5. QueueInv'  BY <2>1, <2>4, QueueUntouched
  <2>6. QED  BY <2>2, <2>3, <2>5
<1>3. QED  BY <1>1, <1>2

\* Every variable has its type, and neither copy of the queue ever has an entry twice, though
\* the collection is dropped and rewritten while runs are added to it.
THEOREM TypeCorrect == Spec => []TypeOK
<1>1. RestOK /\ QueueInv /\ DocInv => TypeOK  BY DEF RestOK, QueueInv, CopyOK, TypeOK
<1>2. QED  BY <1>1, InitQueue, InvStep, PTL DEF Spec

\* No two runs that are marked as running concern the same detector.
THEOREM OneActivePerDetector == Spec => []AtMostOneActive
<1>1. QueueInv => AtMostOneActive
  BY DEF QueueInv, CopyOK, Distinct, Apart, AtMostOneActive
<1>2. QED  BY <1>1, InitQueue, InvStep, PTL DEF Spec

\* A detector's run document has an end, or the polling thread stopped its run while the
\* detector was not RUNNING, when the detector gets its next one.
THEOREM DocumentsAreClosed == Spec => []RunsAreClosed
<1>1. DocInv => RunsAreClosed  BY DEF DocInv, RunsAreClosed
<1>2. QED  BY <1>1, InitQueue, InvStep, PTL DEF Spec

\* Whatever is dropped, rewritten, erased, purged and put back: a run of one detector that
\* was queued at first stays in the database until its Start command is given.
THEOREM QueuedRunsStay == Spec => []SingleRunsKept
<1>1. RestOK /\ QueueInv => SingleRunsKept
  <2> SUFFICES ASSUME RestOK, QueueInv, pc \in {"queue", "scan", "command", "start"},
                      NEW i \in DOMAIN queued, queued[i].det \in Detectors
               PROVE  queued[i].id \in started \cup Ids(daq_queue)
    BY DEF SingleRunsKept, KeptFor
  <2>1. i \in started \cup Ids(daq_queue)  BY DEF QueueInv, Kept
  <2>2. queued[i].id = i  BY QueueAssumption DEF RestOK
  <2>3. QED  BY <2>1, <2>2
<1>2. QED  BY <1>1, InitQueue, InvStep, PTL DEF Spec
=============================================================================
