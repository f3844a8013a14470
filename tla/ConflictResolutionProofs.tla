---------------------- MODULE ConflictResolutionProofs ----------------------
(***************************************************************************)
(* ConflictResolution proved for every number of versions, set of change   *)
(* identities, text, menu of proposals and policy: what a document holds   *)
(* and renders, that the order of the heads decides nothing, and that no   *)
(* unseen edit is lost.                                                    *)
(***************************************************************************)
EXTENDS ConflictResolution, FiniteSetTheorems, FunctionTheorems,
        SequenceTheorems, WellFoundedInduction, TLAPS

-----------------------------------------------------------------------------
(* Numbers and cardinalities                                               *)

(* A set of naturals that is not empty has a least element.                *)
LEMMA LeastNumber ==
    ASSUME NEW T \in SUBSET Nat, T # {}
    PROVE  \E x \in T : \A y \in T : x <= y
  <1> DEFINE below(x) == {d \in T : d < x}
             F == {below(x) : x \in T}
             S == StrictSubsetOrdering(T)
  <1>0. \A t \in T : t \in Nat
    OBVIOUS
  <1>1. ASSUME NEW x \in T PROVE below(x) \in FiniteSubsetsOf(T)
    <2>1. below(x) \in SUBSET T /\ \A s \in below(x) : s < x
      OBVIOUS
    <2> HIDE DEF below
    <2>2. IsFiniteSet(below(x))
      <3>1. x \in Nat /\ below(x) \in SUBSET Nat
        BY <2>1
      <3>2. \A s \in below(x) : s <= x
        BY <2>1, <3>1
      <3> QED
        BY <3>1, <3>2, FS_BoundedSetOfNaturals
    <2> QED
      BY <2>1, <2>2 DEF FiniteSubsetsOf
  <1>2. F \subseteq FiniteSubsetsOf(T) /\ F # {}
    BY <1>1
  <1>3. IsWellFoundedOn(S, FiniteSubsetsOf(T))
    BY FS_StrictSubsetOrderingWellFounded
  <1>4. PICK s \in F : \A t \in F : <<t, s>> \notin S
    BY <1>2, <1>3, WFMin
  <1>5. PICK x \in T : s = below(x)
    BY <1>4
  <1>6. ASSUME NEW y \in T, ~(x <= y) PROVE FALSE
    <2>0. x \in Nat /\ y \in Nat /\ y < x
      BY <1>0, <1>6
    <2>1. y \in below(x) /\ y \notin below(y) /\ below(y) \subseteq below(x)
      <3>1. y \in below(x) /\ y \notin below(y)
        BY <2>0
      <3>2. ASSUME NEW z \in below(y) PROVE z \in below(x)
        BY <1>0, <2>0, <3>2
      <3> QED
        BY <3>1, <3>2
    <2>2. below(y) \in SUBSET T /\ below(x) \in SUBSET T /\ below(y) \in F
      OBVIOUS
    <2> HIDE DEF below
    <2>3. <<below(y), below(x)>> \in S
      BY <2>1, <2>2 DEF StrictSubsetOrdering
    <2> QED
      BY <1>4, <1>5, <2>2, <2>3
  <1> QED
    BY <1>6

(* A finite set of naturals that is not empty has a greatest element.      *)
LEMMA GreatestNumber ==
    ASSUME NEW T \in SUBSET Nat, IsFiniteSet(T), T # {}
    PROVE  \E x \in T : \A y \in T : y <= x
  <1> DEFINE above(x) == {d \in T : d > x}
             F == {above(x) : x \in T}
             S == StrictSubsetOrdering(T)
  <1>0. \A t \in T : t \in Nat
    OBVIOUS
  <1>1. ASSUME NEW x \in T PROVE above(x) \in FiniteSubsetsOf(T)
    <2>1. above(x) \in SUBSET T
      OBVIOUS
    <2> HIDE DEF above
    <2>2. IsFiniteSet(above(x))
      BY <2>1, FS_Subset
    <2> QED
      BY <2>1, <2>2 DEF FiniteSubsetsOf
  <1>2. F \subseteq FiniteSubsetsOf(T) /\ F # {}
    BY <1>1
  <1>3. IsWellFoundedOn(S, FiniteSubsetsOf(T))
    BY FS_StrictSubsetOrderingWellFounded
  <1>4. PICK s \in F : \A t \in F : <<t, s>> \notin S
    BY <1>2, <1>3, WFMin
  <1>5. PICK x \in T : s = above(x)
    BY <1>4
  <1>6. ASSUME NEW y \in T, ~(y <= x) PROVE FALSE
    <2>0. x \in Nat /\ y \in Nat /\ y > x
      BY <1>0, <1>6
    <2>1. y \in above(x) /\ y \notin above(y) /\ above(y) \subseteq above(x)
      <3>1. y \in above(x) /\ y \notin above(y)
        BY <2>0
      <3>2. ASSUME NEW z \in above(y) PROVE z \in above(x)
        BY <1>0, <2>0, <3>2
      <3> QED
        BY <3>1, <3>2
    <2>2. above(y) \in SUBSET T /\ above(x) \in SUBSET T /\ above(y) \in F
      OBVIOUS
    <2> HIDE DEF above
    <2>3. <<above(y), above(x)>> \in S
      BY <2>1, <2>2 DEF StrictSubsetOrdering
    <2> QED
      BY <1>4, <1>5, <2>2, <2>3
  <1> QED
    BY <1>6

(* Fewer than two elements: all of them are the same.                      *)
LEMMA FewerThanTwo ==
    ASSUME NEW S, IsFiniteSet(S)
    PROVE  Cardinality(S) < 2 <=> \A a, b \in S : a = b
  <1>1. Cardinality(S) \in Nat
    BY FS_CardinalityType
  <1>2. ASSUME Cardinality(S) < 2, NEW a \in S, NEW b \in S PROVE a = b
    <2>1. Cardinality(S) = 0 \/ Cardinality(S) = 1
      BY <1>1, <1>2
    <2>2. S # {}
      BY <1>2
    <2>3. PICK x : S = {x}
      BY <2>1, <2>2, FS_EmptySet, FS_Singleton
    <2> QED
      BY <1>2, <2>3
  <1>3. ASSUME \A a, b \in S : a = b PROVE Cardinality(S) < 2
    <2>1. CASE S = {}
      BY <2>1, FS_EmptySet
    <2>2. CASE S # {}
      <3>1. PICK x : S = {x}
        BY <1>3, <2>2
      <3> QED
        BY <3>1, FS_Singleton
    <2> QED
      BY <2>1, <2>2
  <1> QED
    BY <1>2, <1>3

(* Elements of a finite set of positions are numbered without a gap by how *)
(* many of the set precede them.                                           *)
LEMMA Numbering ==
    ASSUME NEW F \in SUBSET Nat, IsFiniteSet(F)
    PROVE  /\ Cardinality(F) \in Nat
           /\ \A i \in F : Cardinality({j \in F : j < i}) \in 0 .. Cardinality(F) - 1
           /\ \A i, k \in F : Cardinality({j \in F : j < i})
                              = Cardinality({j \in F : j < k}) => i = k
           /\ \A v \in 0 .. Cardinality(F) - 1 :
                \E i \in F : Cardinality({j \in F : j < i}) = v
  <1> DEFINE before(i) == {j \in F : j < i}
             rank == [i \in F |-> Cardinality(before(i))]
             N == Cardinality(F)
  <1>0. \A i \in F : i \in Nat
    OBVIOUS
  <1>1. N \in Nat
    BY FS_CardinalityType
  <1>2. \A i \in F : before(i) \in SUBSET F /\ i \notin before(i)
    OBVIOUS
  <1>3. \A i, k \in F : i < k => before(i) \in SUBSET before(k) /\ i \in before(k)
    <2> SUFFICES ASSUME NEW i \in F, NEW k \in F, i < k
                 PROVE  before(i) \subseteq before(k) /\ i \in before(k)
      OBVIOUS
    <2>1. ASSUME NEW z \in before(i) PROVE z \in before(k)
      BY <1>0, <2>1
    <2> QED
      BY <2>1
  <1>4. \A i \in F : IsFiniteSet(before(i)) /\ Cardinality(before(i)) \in Nat
    <2> HIDE DEF before
    <2> QED
      BY <1>2, FS_Subset, FS_CardinalityType
  <1>5. ASSUME NEW i \in F PROVE Cardinality(before(i)) \in 0 .. N - 1
    <2> HIDE DEF before
    <2>1. Cardinality(before(i)) <= N /\ Cardinality(before(i)) # N
      BY <1>2, FS_Subset
    <2> QED
      BY <1>1, <1>4, <2>1
  <1>6. ASSUME NEW i \in F, NEW k \in F, i < k PROVE Cardinality(before(i)) # Cardinality(before(k))
    <2> HIDE DEF before
    <2>1. before(i) # before(k)
      BY <1>2, <1>3, <1>6
    <2> QED
      BY <1>3, <1>4, <1>6, <2>1, FS_Subset
  <1>7. rank \in Injection(F, 0 .. N - 1)
    <2>1. rank \in [F -> 0 .. N - 1]
      BY <1>5
    <2>2. ASSUME NEW i \in F, NEW k \in F, rank[i] = rank[k] PROVE i = k
      <3>1. rank[i] = Cardinality(before(i)) /\ rank[k] = Cardinality(before(k))
        OBVIOUS
      <3>2. ~(i < k) /\ ~(k < i)
        BY <1>6, <2>2, <3>1
      <3>3. i \in Nat /\ k \in Nat
        BY <1>0
      <3> QED
        BY <3>2, <3>3
    <2>3. \A i, k \in F : rank[i] = rank[k] => i = k
      BY <2>2
    <2> HIDE DEF rank, N
    <2> QED
      BY <2>1, <2>3, Fun_IsInj
  <1>8. IsFiniteSet(0 .. N - 1) /\ Cardinality(0 .. N - 1) = N
    <2> HIDE DEF N
    <2>1. 0 \in Int /\ N - 1 \in Int
      BY <1>1
    <2>2. /\ IsFiniteSet(0 .. N - 1)
          /\ Cardinality(0 .. N - 1) = IF 0 > N - 1 THEN 0 ELSE N - 1 - 0 + 1
      BY <2>1, FS_Interval
    <2> QED
      BY <1>1, <2>2
  <1>9. rank \in Surjection(F, 0 .. N - 1)
    <2> HIDE DEF rank, N
    <2> QED
      BY <1>7, <1>8, FS_Injection DEF N
  <1>10. ASSUME NEW v \in 0 .. N - 1 PROVE \E i \in F : Cardinality(before(i)) = v
    <2>1. PICK i \in F : rank[i] = v
      <3> HIDE DEF rank, N
      <3> QED
        BY <1>9, <1>10 DEF Surjection
    <2> QED
      BY <2>1
  <1>11. ASSUME NEW i \in F, NEW k \in F,
                Cardinality(before(i)) = Cardinality(before(k))
         PROVE  i = k
    <2>1. ~(i < k) /\ ~(k < i)
      BY <1>6, <1>11
    <2> QED
      BY <1>0, <2>1
  <1> QED
    BY <1>1, <1>5, <1>10, <1>11

-----------------------------------------------------------------------------
(* Documents                                                               *)

(* Every object of a document was put by one of its changes, and what its  *)
(* changes delete they inserted.                                           *)
WellFormed(doc) ==
    /\ doc \subseteq Change
    /\ \A c \in doc : \E r \in doc : r.id = c.root
    /\ \A c \in doc : \A t \in c.dels : \E e \in doc : e.id = t[1]

(* All changes of a document belong to group g.                            *)
OfGroup(doc, g) == \A c \in doc : c.group = g

Proposed == [group : Group \cup {NoGroup}, text : [Char -> {0, 1}]]

(* The winning object is one of the document's, put by one of its changes. *)
LEMMA WinnerWasPut ==
    ASSUME NEW doc, WellFormed(doc), doc # {}
    PROVE  /\ Winner(doc) \in Roots(doc)
           /\ Winner(doc) \in ChangeId
           /\ \E c \in doc : c.id = Winner(doc)
  <1>1. Roots(doc) \subseteq ChangeId /\ Roots(doc) # {}
    BY DEF Roots, WellFormed, Change
  <1>2. Roots(doc) \in SUBSET Nat /\ IsFiniteSet(Roots(doc))
    BY <1>1, ChangeIdsAreOrdered, FS_Subset
  <1>3. \E r \in Roots(doc) : \A q \in Roots(doc) : q <= r
    BY <1>1, <1>2, GreatestNumber
  <1>4. Winner(doc) \in Roots(doc)
    BY <1>3 DEF Winner
  <1> QED
    BY <1>1, <1>4 DEF Roots, WellFormed

(* The live insertions of a character are tags of changes of the document. *)
LEMMA LiveType ==
    ASSUME NEW doc, WellFormed(doc), NEW x \in Char
    PROVE  /\ \A t \in Live(doc, x) :
                t \in Tag /\ t[2] = x /\ \E c \in doc : c.id = t[1]
           /\ IsFiniteSet(Live(doc, x))
           /\ Cardinality(Live(doc, x)) \in 0 .. Cardinality(ChangeId)
  <1> DEFINE L == Live(doc, x)
             f == [t \in L |-> t[1]]
  <1>1. \A t \in L : t \in Tag /\ t[2] = x /\ \E c \in doc : c.id = t[1]
    BY DEF Live, WellFormed, Change, Tag
  <1>2. IsFiniteSet(L) /\ Cardinality(L) <= Cardinality(ChangeId)
    <2> HIDE DEF L
    <2>1. f \in [L -> ChangeId]
      BY <1>1 DEF Tag
    <2>2. \A a, b \in L : f[a] = f[b] => a = b
      BY <1>1 DEF Tag
    <2>3. f \in Injection(L, ChangeId)
      <3> HIDE DEF f
      <3> QED
        BY <2>1, <2>2, Fun_IsInj
    <2> QED
      BY <2>3, ChangeIdsAreOrdered, FS_Injection
  <1>3. Cardinality(L) \in Nat /\ Cardinality(ChangeId) \in Nat
    BY <1>2, ChangeIdsAreOrdered, FS_CardinalityType
  <1> HIDE DEF L
  <1>4. Cardinality(L) \in 0 .. Cardinality(ChangeId)
    BY <1>2, <1>3
  <1> QED
    BY <1>1, <1>2, <1>4 DEF L

(* What a document renders is a field, of the group of its changes.        *)
LEMMA JsonType ==
    ASSUME NEW doc, WellFormed(doc), doc # {}
    PROVE  /\ Json(doc) \in [group : Group \cup {NoGroup}, text : Text]
           /\ \A g : OfGroup(doc, g) => Json(doc).group = g
  <1>1. PICK c \in doc : c.id = Winner(doc)
    BY WinnerWasPut
  <1> DEFINE p == CHOOSE q \in doc : q.id = Winner(doc)
  <1>2. p \in doc
    BY <1>1
  <1>3. Json(doc).group = p.group
        /\ Json(doc) = [group |-> p.group,
                        text |-> [x \in Char |-> Cardinality(Live(doc, x))]]
    BY DEF Json
  <1> HIDE DEF p
  <1>4. p.group \in Group \cup {NoGroup}
    BY <1>2 DEF WellFormed, Change
  <1>5. [x \in Char |-> Cardinality(Live(doc, x))] \in Text
    BY LiveType DEF Text
  <1> QED
    BY <1>2, <1>3, <1>4, <1>5 DEF OfGroup

(* Merging documents keeps all of their changes and their form.            *)
LEMMA MergedIsWellFormed ==
    ASSUME NEW docs, \A d \in docs : WellFormed(d)
    PROVE  WellFormed(MergeDocuments(docs))
  BY DEF MergeDocuments, WellFormed

(* A new document renders the field it was made of.                        *)
LEMMA NewDocument ==
    ASSUME NEW id \in ChangeId, NEW f \in Proposed
    PROVE  LET d == FromJson(id, f)
           IN  /\ WellFormed(d) /\ d # {} /\ OfGroup(d, f.group)
               /\ Json(d) = f
  <1> DEFINE n == [id |-> id, root |-> id, group |-> f.group,
                   adds |-> {x \in Char : f.text[x] > 0}, dels |-> {}]
             d == FromJson(id, f)
  <1>1. d = {n} /\ n \in Change
    BY DEF FromJson, Proposed, Change
  <1>2. WellFormed(d) /\ d # {} /\ OfGroup(d, f.group)
    BY <1>1 DEF WellFormed, OfGroup
  <1>3. Winner(d) = id
    <2>1. Roots(d) = {id}
      BY <1>1 DEF Roots
    <2> QED
      BY <2>1, <1>2, WinnerWasPut
  <1>4. ASSUME NEW x \in Char PROVE Cardinality(Live(d, x)) = f.text[x]
    <2>1. Deleted(d) = {}
      BY <1>1 DEF Deleted
    <2>2. /\ n.id = id /\ n.root = id
          /\ x \in n.adds <=> f.text[x] > 0
      OBVIOUS
    <2> HIDE DEF n
    <2>3. \A t : t \in Live(d, x) <=> f.text[x] > 0 /\ t = <<id, x>>
      BY <1>1, <1>3, <2>1, <2>2 DEF Live
    <2>4. CASE f.text[x] = 0
      <3>1. Live(d, x) = {}
        BY <2>3, <2>4
      <3> QED
        BY <2>4, <3>1, FS_EmptySet
    <2>5. CASE f.text[x] = 1
      <3>1. Live(d, x) = {<<id, x>>}
        BY <2>3, <2>5
      <3> QED
        BY <2>5, <3>1, FS_Singleton
    <2> QED
      BY <2>4, <2>5 DEF Proposed
  <1>5. Json(d).group = f.group
    BY <1>2, JsonType
  <1>6. Json(d).text = [x \in Char |-> Cardinality(Live(d, x))]
    BY DEF Json
  <1>7. Json(d) = [group |-> Json(d).group, text |-> Json(d).text]
    BY DEF Json
  <1>8. f.text = [x \in Char |-> f.text[x]]
        /\ f = [group |-> f.group, text |-> f.text]
    BY DEF Proposed
  <1> HIDE DEF d
  <1>9. Json(d).text = f.text
    BY <1>4, <1>6, <1>8
  <1> QED
    BY <1>2, <1>5, <1>7, <1>8, <1>9 DEF d

(* A changed document keeps all changes and renders the field it was       *)
(* changed to, when the identity of the change is new to it.               *)
LEMMA ChangedDocument ==
    ASSUME NEW doc, WellFormed(doc), doc # {},
           NEW id \in ChangeId, NEW f \in Proposed, OfGroup(doc, f.group)
    PROVE  LET d == ChangeDocument(doc, id, f)
           IN  /\ WellFormed(d) /\ d # {} /\ OfGroup(d, f.group)
               /\ doc \subseteq d /\ \A c \in d : c \in doc \/ c.id = id
               /\ (\A c \in doc : c.id # id) => Json(d) = f
  <1> DEFINE adds == {x \in Char : f.text[x] > 0 /\ Live(doc, x) = {}}
             keep(x) == IF f.text[x] = 0 \/ Live(doc, x) = {} THEN {}
                        ELSE {CHOOSE t \in Live(doc, x) : TRUE}
             dels == UNION {Live(doc, x) \ keep(x) : x \in Char}
             n == [id |-> id, root |-> Winner(doc), group |-> f.group,
                   adds |-> adds, dels |-> dels]
             d == ChangeDocument(doc, id, f)
  <1>1. d = IF adds = {} /\ dels = {} THEN doc ELSE doc \cup {n}
    BY DEF ChangeDocument
  <1>2. /\ adds \in SUBSET Char
        /\ \A x \in Char : x \in adds <=> f.text[x] > 0 /\ Live(doc, x) = {}
    OBVIOUS
  <1>3. \A x \in Char : keep(x) \subseteq Live(doc, x)
    OBVIOUS
  <1>4. \A x \in Char :
          /\ f.text[x] = 0 => keep(x) = {}
          /\ f.text[x] = 1 /\ Live(doc, x) # {} => \E t : keep(x) = {t}
    <2> SUFFICES ASSUME NEW x \in Char
                 PROVE  /\ f.text[x] = 0 => keep(x) = {}
                        /\ f.text[x] = 1 /\ Live(doc, x) # {} => \E t : keep(x) = {t}
      OBVIOUS
    <2>1. ASSUME f.text[x] = 1, Live(doc, x) # {} PROVE \E t : keep(x) = {t}
      <3>1. keep(x) = {CHOOSE t \in Live(doc, x) : TRUE}
        BY <2>1
      <3> QED
        BY <3>1
    <2> QED
      BY <2>1
  <1>5. \A t : t \in dels <=> \E x \in Char : t \in Live(doc, x) /\ t \notin keep(x)
    OBVIOUS
  <1>6. \A x \in Char : \A t \in Live(doc, x) :
          t \in Tag /\ t[2] = x /\ \E c \in doc : c.id = t[1]
    BY LiveType
  <1>7. /\ n.id = id /\ n.root = Winner(doc) /\ n.group = f.group
        /\ n.adds = adds /\ n.dels = dels
    OBVIOUS
  <1> HIDE DEF keep
  <1>8. dels \in SUBSET Tag /\ \A t \in dels : \E c \in doc : c.id = t[1]
    BY <1>5, <1>6
  <1>9. n \in Change
    BY <1>2, <1>8, WinnerWasPut DEF Change, Proposed
  <1> HIDE DEF adds, dels, n, d
  <1>10. /\ doc \subseteq d /\ \A c \in d : c \in doc \/ c = n
         /\ d \subseteq doc \cup {n}
    BY <1>1
  <1>11. WellFormed(d)
    <2>1. d \subseteq Change
      BY <1>9, <1>10 DEF WellFormed
    <2>2. ASSUME NEW c \in d PROVE \E r \in d : r.id = c.root
      BY <1>7, <1>10, WinnerWasPut DEF WellFormed
    <2>3. ASSUME NEW c \in d, NEW t \in c.dels PROVE \E e \in d : e.id = t[1]
      BY <1>7, <1>8, <1>10 DEF WellFormed
    <2> QED
      BY <2>1, <2>2, <2>3 DEF WellFormed
  <1>12. d # {} /\ OfGroup(d, f.group)
    BY <1>7, <1>10 DEF OfGroup
  <1>13. ASSUME \A c \in doc : c.id # id, NEW x \in Char
         PROVE  Cardinality(Live(d, x)) = f.text[x]
    <2>1. f.text[x] \in {0, 1}
      BY DEF Proposed
    <2>2. CASE adds = {} /\ dels = {}
      <3>1. d = doc
        BY <1>1, <2>2
      <3>2. CASE f.text[x] = 0
        <4>1. Live(d, x) = {}
          BY <1>4, <1>5, <2>2, <3>1, <3>2
        <4> QED
          BY <3>2, <4>1, FS_EmptySet
      <3>3. CASE f.text[x] = 1
        <4>1. Live(doc, x) # {}
          BY <1>2, <2>2, <3>3
        <4>2. PICK t : keep(x) = {t}
          BY <1>4, <3>3, <4>1
        <4>3. Live(d, x) = {t}
          BY <1>3, <1>5, <2>2, <3>1, <4>2
        <4> QED
          BY <3>3, <4>3, FS_Singleton
      <3> QED
        BY <2>1, <3>2, <3>3
    <2>3. CASE ~(adds = {} /\ dels = {})
      <3>1. d = doc \cup {n}
        BY <1>1, <2>3
      <3>2. Winner(d) = Winner(doc)
        <4>1. Roots(d) = Roots(doc)
          BY <1>7, <3>1, WinnerWasPut DEF Roots
        <4> QED
          BY <4>1 DEF Winner
      <3>3. \A t : t \in Deleted(d) <=> t \in Deleted(doc) \/ t \in dels
        BY <1>7, <3>1 DEF Deleted
      <3>4. <<id, x>> \notin Deleted(doc) /\ <<id, x>> \notin dels
        BY <1>8, <1>13 DEF Deleted, WellFormed
      <3>5. \A t : t \in Live(doc, x) =>
                     (t \in dels <=> t \notin keep(x))
        BY <1>5, <1>6
      <3>6. \A t : t \in Live(d, x) <=>
                     \/ t \in Live(doc, x) /\ t \in keep(x)
                     \/ x \in adds /\ t = <<id, x>>
        <4>1. \A t : t \in Live(d, x) <=>
                /\ t \notin Deleted(d)
                /\ \E c \in d : c.root = Winner(d) /\ x \in c.adds /\ t = <<c.id, x>>
          BY DEF Live
        <4>2. \A t : t \in Live(doc, x) <=>
                /\ t \notin Deleted(doc)
                /\ \E c \in doc : c.root = Winner(doc) /\ x \in c.adds /\ t = <<c.id, x>>
          BY DEF Live
        <4>3. ASSUME NEW t
              PROVE  (\E c \in d : c.root = Winner(d) /\ x \in c.adds /\ t = <<c.id, x>>)
                     <=> \/ \E c \in doc : c.root = Winner(doc) /\ x \in c.adds
                                             /\ t = <<c.id, x>>
                         \/ x \in adds /\ t = <<id, x>>
          BY <1>7, <3>1, <3>2
        <4> QED
          BY <3>3, <3>4, <3>5, <4>1, <4>2, <4>3
      <3>7. CASE f.text[x] = 0
        <4>1. Live(d, x) = {}
          BY <1>2, <1>4, <3>6, <3>7
        <4> QED
          BY <3>7, <4>1, FS_EmptySet
      <3>8. CASE f.text[x] = 1 /\ Live(doc, x) = {}
        <4>1. Live(d, x) = {<<id, x>>}
          BY <1>2, <3>6, <3>8
        <4> QED
          BY <3>8, <4>1, FS_Singleton
      <3>9. CASE f.text[x] = 1 /\ Live(doc, x) # {}
        <4>1. PICK t : keep(x) = {t}
          BY <1>4, <3>9
        <4>2. Live(d, x) = {t}
          BY <1>2, <1>3, <3>6, <3>9, <4>1
        <4> QED
          BY <3>9, <4>2, FS_Singleton
      <3> QED
        BY <2>1, <3>7, <3>8, <3>9
    <2> QED
      BY <2>2, <2>3
  <1>14. ASSUME \A c \in doc : c.id # id PROVE Json(d) = f
    <2>1. Json(d).group = f.group
      BY <1>11, <1>12, JsonType
    <2>2. Json(d) = [group |-> Json(d).group, text |-> Json(d).text]
          /\ Json(d).text = [x \in Char |-> Cardinality(Live(d, x))]
      BY DEF Json
    <2>3. f.text = [x \in Char |-> f.text[x]]
          /\ f = [group |-> f.group, text |-> f.text]
      BY DEF Proposed
    <2>4. Json(d).text = f.text
      BY <1>13, <1>14, <2>2, <2>3
    <2> QED
      BY <2>1, <2>2, <2>3, <2>4
  <1>15. \A c \in d : c \in doc \/ c.id = id
    BY <1>7, <1>10
  <1> QED
    BY <1>10, <1>11, <1>12, <1>14, <1>15 DEF d

-----------------------------------------------------------------------------
(* Candidates and their resolution                                         *)

Source == 1 .. MaxVersion \cup {None}
Candidate == [value : Value, doc : SUBSET Change, source : Source]

(* A value has a document exactly when it has the field, and the document  *)
(* is of the field's group.                                                *)
Sound(value, doc) ==
    /\ value \in Value
    /\ WellFormed(doc)
    /\ value.field = None <=> doc = {}
    /\ value.field # None => OfGroup(doc, value.field.group)

(* The document renders the field, which has a discriminator.              *)
Renders(value, doc) ==
    /\ doc # {} => Json(doc) = value.field
    /\ value.field # None => value.field.group \in Group

SoundCandidates(cs) ==
    /\ cs \in Seq(Candidate)
    /\ \A i \in DOMAIN cs : Sound(cs[i].value, cs[i].doc)

Merged(cs) == [i \in DOMAIN cs |-> MergedCandidate(cs, i)]

(* Positions of a sequence of candidates, and the sets of them.            *)
LEMMA Positions ==
    ASSUME NEW cs \in Seq(Candidate)
    PROVE  /\ Len(cs) \in Nat /\ DOMAIN cs = 1 .. Len(cs)
           /\ \A i \in DOMAIN cs : i \in Nat /\ cs[i] \in Candidate
           /\ IsFiniteSet(DOMAIN cs)
           /\ \A S \in SUBSET DOMAIN cs : IsFiniteSet(S) /\ S \subseteq Nat
  <1>1. Len(cs) \in Nat /\ DOMAIN cs = 1 .. Len(cs)
        /\ cs \in [1 .. Len(cs) -> Candidate]
    BY LenProperties
  <1>2. IsFiniteSet(1 .. Len(cs))
    BY <1>1, FS_Interval
  <1>3. ASSUME NEW S \in SUBSET DOMAIN cs PROVE IsFiniteSet(S) /\ S \subseteq Nat
    BY <1>1, <1>2, <1>3, FS_Subset
  <1> QED
    BY <1>1, <1>2, <1>3

(* A candidate that merges with no other one stays as it is.               *)
LEMMA MergedCandidateCases ==
    ASSUME NEW cs, SoundCandidates(cs), NEW i \in DOMAIN cs
    PROVE  LET group == SameGroup(cs, i)
               doc == MergeDocuments({cs[j].doc : j \in group})
           IN  \/ /\ \A j, k \in group : j = k
                  /\ MergedCandidate(cs, i) = cs[i]
               \/ /\ \E j, k \in group : j # k
                  /\ Grouped(cs, i) /\ i \in group
                  /\ MergedCandidate(cs, i) =
                       [value |-> [cs[i].value EXCEPT !.field = Json(doc)],
                        doc |-> doc, source |-> None]
  <1> DEFINE group == SameGroup(cs, i)
             doc == MergeDocuments({cs[j].doc : j \in group})
  <1>1. IsFiniteSet(group)
    <2>1. group \in SUBSET DOMAIN cs
      BY DEF SameGroup
    <2> QED
      BY <2>1, Positions DEF SoundCandidates
  <1>2. Cardinality(group) < 2 <=> \A j, k \in group : j = k
    BY <1>1, FewerThanTwo
  <1>3. Cardinality(group) \in Nat
    BY <1>1, FS_CardinalityType
  <1>4. MergedCandidate(cs, i) =
          IF Cardinality(group) < 2 THEN cs[i]
          ELSE [value |-> [cs[i].value EXCEPT !.field = Json(doc)],
                doc |-> doc, source |-> None]
    BY DEF MergedCandidate
  <1>5. (\E j \in group : TRUE) => Grouped(cs, i) /\ i \in group
    BY DEF SameGroup
  <1> HIDE DEF group, doc
  <1>6. CASE Cardinality(group) < 2
    BY <1>2, <1>4, <1>6 DEF group, doc
  <1>7. CASE ~(Cardinality(group) < 2)
    BY <1>2, <1>4, <1>5, <1>7 DEF group, doc
  <1> QED
    BY <1>6, <1>7

(* The documents of a merge group make a document of that group.           *)
LEMMA GroupDocument ==
    ASSUME NEW cs, SoundCandidates(cs), NEW i \in DOMAIN cs, Grouped(cs, i)
    PROVE  LET doc == MergeDocuments({cs[j].doc : j \in SameGroup(cs, i)})
           IN  /\ WellFormed(doc) /\ doc # {} /\ cs[i].doc \subseteq doc
               /\ OfGroup(doc, cs[i].value.field.group)
               /\ Json(doc) \in Field /\ Json(doc) # None
               /\ Json(doc).group = cs[i].value.field.group
  <1> DEFINE group == SameGroup(cs, i)
             doc == MergeDocuments({cs[j].doc : j \in group})
             g == cs[i].value.field.group
  <1>1. i \in group /\ group \subseteq DOMAIN cs
    BY DEF SameGroup
  <1>2. \A j \in group : Grouped(cs, j) /\ cs[j].value.field.group = g
    BY DEF SameGroup
  <1>3. cs[i].doc \subseteq doc /\ doc # {}
    BY <1>1 DEF MergeDocuments, Grouped
  <1>4. WellFormed(doc)
    <2>1. \A j \in group : WellFormed(cs[j].doc)
      BY <1>1 DEF SoundCandidates, Sound
    <2> HIDE DEF group
    <2> QED
      BY <2>1, MergedIsWellFormed
  <1>5. OfGroup(doc, g)
    <2>1. \A j \in group : OfGroup(cs[j].doc, g)
      BY <1>1, <1>2 DEF SoundCandidates, Sound, Grouped
    <2> HIDE DEF group, g
    <2> QED
      BY <2>1 DEF OfGroup, MergeDocuments
  <1> HIDE DEF doc, g
  <1>6. /\ Json(doc) \in [group : Group \cup {NoGroup}, text : Text]
        /\ Json(doc).group = g
    BY <1>3, <1>4, <1>5, JsonType
  <1>7. Json(doc) \in Field /\ Json(doc) # None
    BY <1>6, NoneIsNoField DEF Field
  <1> QED
    BY <1>3, <1>4, <1>5, <1>6, <1>7 DEF doc, g

(* A merged candidate is sound, keeps the changes, the rest and the group  *)
(* of the candidate it was, and is new unless it is that candidate.        *)
LEMMA MergedCandidateFacts ==
    ASSUME NEW cs, SoundCandidates(cs), NEW i \in DOMAIN cs
    PROVE  LET m == MergedCandidate(cs, i)
           IN  /\ m \in Candidate /\ Sound(m.value, m.doc)
               /\ cs[i].doc \subseteq m.doc
               /\ m.value.rest = cs[i].value.rest
               /\ m.value.field = None <=> cs[i].value.field = None
               /\ m.value.field # None =>
                    m.value.field.group = cs[i].value.field.group
               /\ m = cs[i] \/ m.source = None
  <1> DEFINE doc == MergeDocuments({cs[j].doc : j \in SameGroup(cs, i)})
             v == [cs[i].value EXCEPT !.field = Json(doc)]
             m == MergedCandidate(cs, i)
  <1>1. cs[i] \in Candidate /\ Sound(cs[i].value, cs[i].doc)
    BY Positions DEF SoundCandidates
  <1>2. CASE m = cs[i]
    BY <1>1, <1>2
  <1>3. CASE Grouped(cs, i) /\ m = [value |-> v, doc |-> doc, source |-> None]
    <2>1. /\ WellFormed(doc) /\ doc # {} /\ cs[i].doc \subseteq doc
          /\ OfGroup(doc, cs[i].value.field.group)
          /\ Json(doc) \in Field /\ Json(doc) # None
          /\ Json(doc).group = cs[i].value.field.group
      BY <1>3, GroupDocument
    <2>2. cs[i].value \in Value /\ cs[i].value.field # None
      BY <1>1, <1>3 DEF Candidate, Grouped
    <2> HIDE DEF doc
    <2>3. v \in Value /\ v.field = Json(doc) /\ v.rest = cs[i].value.rest
      BY <2>1, <2>2 DEF Value
    <2> HIDE DEF v
    <2>4. m.value = v /\ m.doc = doc /\ m.source = None
      BY <1>3
    <2>5. m \in Candidate
      BY <1>3, <2>1, <2>3 DEF Candidate, WellFormed, Source
    <2> HIDE DEF m
    <2>6. Sound(m.value, m.doc)
      BY <2>1, <2>3, <2>4 DEF Sound
    <2> QED
      BY <2>1, <2>2, <2>3, <2>4, <2>5, <2>6 DEF m
  <1> QED
    BY <1>2, <1>3, MergedCandidateCases

(* Either the candidates are the variants, or those of equal value, once   *)
(* merged, are collapsed.                                                  *)
LEMMA ResolveCases ==
    ASSUME NEW cs, SoundCandidates(cs), NEW plan
    PROVE  /\ SoundCandidates(Merged(cs)) /\ DOMAIN Merged(cs) = DOMAIN cs
           /\ Resolve(plan, cs) =
                IF Len(cs) <= 1 \/ plan.strategy = "mvcc" THEN cs
                ELSE Collapse(Merged(cs))
  <1>1. Len(cs) \in Nat /\ DOMAIN cs = 1 .. Len(cs)
    BY Positions DEF SoundCandidates
  <1>2. \A i \in DOMAIN cs : /\ Merged(cs)[i] = MergedCandidate(cs, i)
                             /\ Merged(cs)[i] \in Candidate
                             /\ Sound(Merged(cs)[i].value, Merged(cs)[i].doc)
    BY MergedCandidateFacts DEF Merged
  <1>3. Merged(cs) \in [1 .. Len(cs) -> Candidate]
    BY <1>1, <1>2 DEF Merged
  <1>4. Merged(cs) \in Seq(Candidate) /\ DOMAIN Merged(cs) = DOMAIN cs
    BY <1>1, <1>3
  <1>5. <<>> \o Merged(cs) = Merged(cs)
    BY <1>4, ConcatEmptySeq
  <1>6. Resolve(plan, cs) =
          IF Len(cs) <= 1 \/ plan.strategy = "mvcc" THEN cs
          ELSE Collapse(<<>> \o Merged(cs))
    BY DEF Resolve, Merged
  <1> QED
    BY <1>2, <1>4, <1>5, <1>6 DEF SoundCandidates

Alike(ms, i) == {j \in DOMAIN ms : ms[j].value = ms[i].value}

(* What a variant is made of.                                              *)
LEMMA CollapsedVariant ==
    ASSUME NEW ms, SoundCandidates(ms), NEW i \in DOMAIN Collapse(ms)
    PROVE  /\ i \in DOMAIN ms /\ \A j \in Alike(ms, i) : i <= j
           /\ Collapse(ms)[i].value = ms[i].value
           /\ Collapse(ms)[i].doc = MergeDocuments({ms[j].doc : j \in Alike(ms, i)})
           /\ Collapse(ms)[i].source =
                IF Alike(ms, i) = {i} THEN ms[i].source ELSE None
           /\ Collapse(ms)[i] \in Candidate
           /\ Sound(Collapse(ms)[i].value, Collapse(ms)[i].doc)
  <1> DEFINE vs == Collapse(ms)
             doc == MergeDocuments({ms[j].doc : j \in Alike(ms, i)})
  <1>1. vs = [k \in {k \in DOMAIN ms : \A j \in Alike(ms, k) : k <= j} |->
               [value |-> ms[k].value,
                doc |-> MergeDocuments({ms[j].doc : j \in Alike(ms, k)}),
                source |-> IF Alike(ms, k) = {k} THEN ms[k].source ELSE None]]
    BY DEF Collapse, Alike
  <1>2. /\ i \in DOMAIN ms /\ \A j \in Alike(ms, i) : i <= j
        /\ vs[i] = [value |-> ms[i].value, doc |-> doc,
                    source |-> IF Alike(ms, i) = {i} THEN ms[i].source ELSE None]
    BY <1>1
  <1>3. \A j \in Alike(ms, i) : j \in DOMAIN ms /\ ms[j].value = ms[i].value
    BY DEF Alike
  <1>4. i \in Alike(ms, i)
    BY <1>2 DEF Alike
  <1>5. \A j \in DOMAIN ms : ms[j] \in Candidate /\ Sound(ms[j].value, ms[j].doc)
    BY Positions DEF SoundCandidates
  <1>6. WellFormed(doc)
    <2>1. \A j \in Alike(ms, i) : WellFormed(ms[j].doc)
      BY <1>3, <1>5 DEF Sound
    <2> QED
      BY <2>1, MergedIsWellFormed
  <1>7. Sound(ms[i].value, doc)
    <2>1. ms[i].value \in Value
      BY <1>2, <1>5 DEF Sound
    <2>2. ms[i].value.field = None <=> doc = {}
      BY <1>2, <1>3, <1>4, <1>5 DEF Sound, MergeDocuments
    <2>3. ms[i].value.field # None => OfGroup(doc, ms[i].value.field.group)
      BY <1>2, <1>3, <1>5 DEF Sound, MergeDocuments, OfGroup
    <2> QED
      BY <1>6, <2>1, <2>2, <2>3 DEF Sound
  <1> HIDE DEF doc
  <1>8. vs[i] \in Candidate
    BY <1>2, <1>5, <1>6, <1>7 DEF Candidate, Source, Sound, WellFormed
  <1> HIDE DEF vs
  <1>9. vs[i].value = ms[i].value /\ vs[i].doc = doc
        /\ vs[i].source = IF Alike(ms, i) = {i} THEN ms[i].source ELSE None
    BY <1>2
  <1> QED
    BY <1>2, <1>7, <1>8, <1>9 DEF vs, doc

(* Every candidate is in one variant.                                      *)
LEMMA EveryCandidateCollapses ==
    ASSUME NEW ms, SoundCandidates(ms), NEW k \in DOMAIN ms
    PROVE  \E i \in DOMAIN Collapse(ms) :
              /\ Alike(ms, i) = Alike(ms, k) /\ k \in Alike(ms, i)
              /\ i \in Alike(ms, i)
  <1>1. k \in Alike(ms, k) /\ Alike(ms, k) \in SUBSET DOMAIN ms
    BY DEF Alike
  <1>2. Alike(ms, k) \in SUBSET Nat
    BY <1>1, Positions DEF SoundCandidates
  <1>3. PICK i \in Alike(ms, k) : \A j \in Alike(ms, k) : i <= j
    BY <1>1, <1>2, LeastNumber
  <1>4. i \in DOMAIN ms /\ Alike(ms, i) = Alike(ms, k)
    BY <1>3 DEF Alike
  <1>5. DOMAIN Collapse(ms) = {n \in DOMAIN ms : \A j \in Alike(ms, n) : n <= j}
    BY DEF Collapse, Alike
  <1> QED
    BY <1>1, <1>3, <1>4, <1>5

(* The variants are sound, and those with a source are candidates.         *)
LEMMA ResolvedVariants ==
    ASSUME NEW cs, SoundCandidates(cs), NEW plan
    PROVE  LET vs == Resolve(plan, cs)
           IN  /\ DOMAIN vs \subseteq DOMAIN cs
               /\ \A i \in DOMAIN vs :
                    /\ vs[i] \in Candidate /\ Sound(vs[i].value, vs[i].doc)
                    /\ vs[i].source # None =>
                         \E k \in DOMAIN cs : vs[i].source = cs[k].source
  <1> DEFINE vs == Resolve(plan, cs)
             ms == Merged(cs)
  <1>1. SoundCandidates(ms) /\ DOMAIN ms = DOMAIN cs
    BY ResolveCases
  <1>2. CASE vs = cs
    BY <1>2, Positions DEF SoundCandidates
  <1>3. CASE vs = Collapse(ms)
    <2>1. ASSUME NEW i \in DOMAIN vs
          PROVE  /\ i \in DOMAIN cs
                 /\ vs[i] \in Candidate /\ Sound(vs[i].value, vs[i].doc)
                 /\ vs[i].source # None => vs[i].source = cs[i].source
      <3>1. /\ i \in DOMAIN ms /\ vs[i] \in Candidate
            /\ Sound(vs[i].value, vs[i].doc)
            /\ vs[i].source # None => vs[i].source = ms[i].source
        <4> HIDE DEF vs, ms
        <4> QED
          BY <1>1, <1>3, <2>1, CollapsedVariant
      <3>2. ms[i] = MergedCandidate(cs, i)
        BY <1>1, <3>1 DEF Merged
      <3>3. ms[i] = cs[i] \/ ms[i].source = None
        BY <1>1, <3>1, <3>2, MergedCandidateFacts
      <3> HIDE DEF vs, ms
      <3> QED
        BY <1>1, <3>1, <3>3
    <2> QED
      BY <2>1
  <1> QED
    BY <1>2, <1>3, ResolveCases

(* A candidate that is a stored version stays one, or a new variant has    *)
(* all of its changes and its rest.                                        *)
LEMMA ResolveLosesNothing ==
    ASSUME NEW cs, SoundCandidates(cs), NEW plan,
           NEW k \in DOMAIN cs, cs[k].source # None
    PROVE  LET vs == Resolve(plan, cs)
           IN  \E i \in DOMAIN vs :
                 \/ vs[i].source = cs[k].source
                 \/ /\ vs[i].source = None
                    /\ cs[k].doc \subseteq vs[i].doc
                    /\ vs[i].value.rest = cs[k].value.rest
  <1> DEFINE vs == Resolve(plan, cs)
             ms == Merged(cs)
  <1>1. SoundCandidates(ms) /\ DOMAIN ms = DOMAIN cs
    BY ResolveCases
  <1>2. CASE vs = cs
    BY <1>2
  <1>3. CASE vs = Collapse(ms)
    <2>1. ms[k] = MergedCandidate(cs, k)
      BY DEF Merged
    <2>2. /\ cs[k].doc \subseteq ms[k].doc /\ ms[k].value.rest = cs[k].value.rest
          /\ ms[k] = cs[k] \/ ms[k].source = None
      BY <2>1, MergedCandidateFacts
    <2> HIDE DEF vs, ms
    <2>3. PICK i \in DOMAIN Collapse(ms) :
            Alike(ms, i) = Alike(ms, k) /\ k \in Alike(ms, i) /\ i \in Alike(ms, i)
      BY <1>1, EveryCandidateCollapses
    <2>4. /\ vs[i].value = ms[i].value
          /\ vs[i].doc = MergeDocuments({ms[j].doc : j \in Alike(ms, i)})
          /\ vs[i].source = IF Alike(ms, i) = {i} THEN ms[i].source ELSE None
      BY <1>1, <1>3, <2>3, CollapsedVariant
    <2>5. ms[k].doc \subseteq vs[i].doc /\ ms[i].value = ms[k].value
      BY <2>3, <2>4 DEF MergeDocuments, Alike
    <2>6. vs[i].source = None \/ vs[i].source = cs[k].source
      BY <2>2, <2>3, <2>4
    <2>7. i \in DOMAIN vs
      BY <1>3, <2>3
    <2> QED
      BY <2>2, <2>4, <2>5, <2>6, <2>7 DEF vs
  <1> QED
    BY <1>2, <1>3, ResolveCases DEF vs, ms

(* Merged candidates render their documents, and those of equal value have *)
(* the same one.                                                           *)
LEMMA MergedRenders ==
    ASSUME NEW cs, SoundCandidates(cs),
           \A i \in DOMAIN cs : Renders(cs[i].value, cs[i].doc)
    PROVE  LET ms == Merged(cs)
           IN  /\ \A i \in DOMAIN cs : Renders(ms[i].value, ms[i].doc)
               /\ \A i, k \in DOMAIN cs :
                    ms[i].value = ms[k].value => ms[i].doc = ms[k].doc
  <1> DEFINE ms == Merged(cs)
             group(i) == SameGroup(cs, i)
             doc(i) == MergeDocuments({cs[j].doc : j \in group(i)})
             new(i) == [value |-> [cs[i].value EXCEPT !.field = Json(doc(i))],
                        doc |-> doc(i), source |-> None]
  <1>1. \A i \in DOMAIN cs : ms[i] = MergedCandidate(cs, i)
    BY DEF Merged
  <1>2. ASSUME NEW i \in DOMAIN cs
        PROVE  \/ ms[i] = cs[i] /\ \A j, k \in group(i) : j = k
               \/ Grouped(cs, i) /\ ms[i] = new(i)
    BY <1>1, MergedCandidateCases
  <1>3. ASSUME NEW i \in DOMAIN cs
        PROVE  /\ ms[i].value.field = None <=> cs[i].value.field = None
               /\ ms[i].value.field # None =>
                    ms[i].value.field.group = cs[i].value.field.group
               /\ ms[i].value.field = None <=> ms[i].doc = {}
               /\ cs[i].value.field = None <=> cs[i].doc = {}
    <2>1. /\ Sound(ms[i].value, ms[i].doc) /\ Sound(cs[i].value, cs[i].doc)
          /\ ms[i].value.field = None <=> cs[i].value.field = None
          /\ ms[i].value.field # None =>
               ms[i].value.field.group = cs[i].value.field.group
      BY <1>1, MergedCandidateFacts DEF SoundCandidates
    <2> HIDE DEF ms
    <2> QED
      BY <2>1 DEF Sound
  <1>4. ASSUME NEW i \in DOMAIN cs PROVE Renders(ms[i].value, ms[i].doc)
    <2>1. CASE ms[i] = cs[i]
      BY <2>1
    <2>2. CASE Grouped(cs, i) /\ ms[i] = new(i)
      <3>1. cs[i].value \in Value
        BY DEF SoundCandidates, Sound
      <3>2. ms[i].value.field = Json(doc(i)) /\ ms[i].doc = doc(i)
        BY <2>2, <3>1 DEF Value
      <3>3. cs[i].value.field # None => cs[i].value.field.group \in Group
        BY DEF Renders
      <3> HIDE DEF ms, doc
      <3> QED
        BY <1>3, <3>2, <3>3 DEF Renders
    <2> QED
      BY <1>2, <2>1, <2>2
  <1>5. ASSUME NEW i \in DOMAIN cs, NEW k \in DOMAIN cs,
               ms[i].value = ms[k].value, i # k
        PROVE  ms[i].doc = ms[k].doc
    <2>1. CASE ms[i].value.field = None
      BY <1>3, <1>5, <2>1
    <2>2. CASE ms[i].value.field # None
      <3>1. /\ cs[i].value.field # None /\ cs[k].value.field # None
            /\ cs[i].doc # {} /\ cs[k].doc # {}
            /\ cs[i].value.field.group = cs[k].value.field.group
        BY <1>3, <1>5, <2>2
      <3>2. cs[i].value.field.group # NoGroup
        BY <3>1, GroupsAreNames DEF Renders
      <3>3. Grouped(cs, i) /\ Grouped(cs, k)
        BY <3>1, <3>2 DEF Grouped
      <3>4. i \in group(i) /\ k \in group(i) /\ group(i) = group(k)
        BY <3>1, <3>3 DEF SameGroup
      <3> HIDE DEF group
      <3>5. ms[i] = new(i) /\ ms[k] = new(k)
        BY <1>2, <1>5, <3>4
      <3>6. doc(i) = doc(k)
        BY <3>4
      <3>7. new(i).doc = doc(i) /\ new(k).doc = doc(k)
        OBVIOUS
      <3> HIDE DEF ms, new
      <3> QED
        BY <3>5, <3>6, <3>7
    <2> QED
      BY <2>1, <2>2
  <1> QED
    BY <1>4, <1>5

(* The variants of candidates that render their documents do so too.       *)
LEMMA ResolveRenders ==
    ASSUME NEW cs, SoundCandidates(cs), NEW plan,
           \A i \in DOMAIN cs : Renders(cs[i].value, cs[i].doc)
    PROVE  LET vs == Resolve(plan, cs)
           IN  \A i \in DOMAIN vs : Renders(vs[i].value, vs[i].doc)
  <1> DEFINE vs == Resolve(plan, cs)
             ms == Merged(cs)
  <1>1. SoundCandidates(ms) /\ DOMAIN ms = DOMAIN cs
    BY ResolveCases
  <1>2. CASE vs = cs
    BY <1>2
  <1>3. CASE vs = Collapse(ms)
    <2>1. /\ \A i \in DOMAIN ms : Renders(ms[i].value, ms[i].doc)
          /\ \A i, k \in DOMAIN ms :
               ms[i].value = ms[k].value => ms[i].doc = ms[k].doc
      BY <1>1, MergedRenders
    <2> HIDE DEF vs, ms
    <2>2. ASSUME NEW i \in DOMAIN vs
          PROVE  vs[i].value = ms[i].value /\ vs[i].doc = ms[i].doc /\ i \in DOMAIN ms
      <3>1. /\ i \in DOMAIN ms /\ vs[i].value = ms[i].value
            /\ vs[i].doc = MergeDocuments({ms[j].doc : j \in Alike(ms, i)})
        BY <1>1, <1>3, <2>2, CollapsedVariant
      <3>2. /\ i \in Alike(ms, i)
            /\ \A j \in Alike(ms, i) : ms[j].doc = ms[i].doc
        BY <2>1, <3>1 DEF Alike
      <3>3. {ms[j].doc : j \in Alike(ms, i)} = {ms[i].doc}
        BY <3>2
      <3> QED
        BY <3>1, <3>3 DEF MergeDocuments
    <2> QED
      BY <2>1, <2>2 DEF vs
  <1> QED
    BY <1>2, <1>3, ResolveCases DEF vs, ms

-----------------------------------------------------------------------------
(* The candidates of an update                                             *)

(* Rows have their types and their documents belong to their fields.       *)
Inv ==
    /\ TypeOK
    /\ \A v \in DOMAIN stored : Sound(stored[v].value, stored[v].doc)

(* Every stored document renders the stored field.                         *)
AllRender == \A v \in DOMAIN stored : Renders(stored[v].value, stored[v].doc)

(* Versions are numbered without a gap below the counter.                  *)
LEMMA StoredVersions ==
    ASSUME TypeOK
    PROVE  /\ next \in Nat \ {0} /\ next <= MaxVersion + 1
           /\ DOMAIN stored = 1 .. next - 1
           /\ \A v \in DOMAIN stored :
                v \in Nat /\ v < next /\ v \in 1 .. MaxVersion /\ stored[v] \in Row
           /\ heads \subseteq DOMAIN stored /\ IsFiniteSet(heads)
  <1>1. next \in Nat \ {0} /\ next <= MaxVersion + 1
    BY VersionsAreBounded DEF TypeOK
  <1>2. DOMAIN stored = 1 .. next - 1 /\ \A v \in DOMAIN stored : stored[v] \in Row
    BY DEF TypeOK
  <1>3. \A v \in DOMAIN stored : v \in Nat /\ v < next /\ v \in 1 .. MaxVersion
    BY <1>1, <1>2, VersionsAreBounded
  <1>4. IsFiniteSet(1 .. next - 1)
    BY <1>1, FS_Interval
  <1>5. heads \subseteq DOMAIN stored
    BY DEF TypeOK
  <1>6. IsFiniteSet(heads)
    BY <1>2, <1>4, <1>5, FS_Subset
  <1> QED
    BY <1>1, <1>2, <1>3, <1>5, <1>6

(* An order of a finite set is a sequence that visits all of it.           *)
LEMMA OrderVisitsAll ==
    ASSUME NEW S, IsFiniteSet(S), NEW s \in Orders(S)
    PROVE  /\ Cardinality(S) \in Nat
           /\ s \in [1 .. Cardinality(S) -> S]
           /\ \A i, j \in 1 .. Cardinality(S) : s[i] = s[j] => i = j
           /\ \A v \in S : \E i \in 1 .. Cardinality(S) : s[i] = v
  <1> DEFINE N == Cardinality(S)
  <1>1. N \in Nat
    BY FS_CardinalityType
  <1>2. s \in [1 .. N -> S] /\ \A i, j \in 1 .. N : s[i] = s[j] => i = j
    BY DEF Orders
  <1>3. s \in Injection(1 .. N, S)
    <2> HIDE DEF N
    <2> QED
      BY <1>2, Fun_IsInj
  <1>4. IsFiniteSet(1 .. N) /\ Cardinality(1 .. N) = N
    <2> HIDE DEF N
    <2> QED
      BY <1>1, FS_Interval
  <1>5. s \in Surjection(1 .. N, S)
    <2>1. Cardinality(1 .. N) = Cardinality(S)
      BY <1>4
    <2> HIDE DEF N
    <2> QED
      BY <1>3, <2>1, FS_Injection
  <1>6. \A v \in S : \E i \in 1 .. N : s[i] = v
    BY <1>5 DEF Surjection
  <1> QED
    BY <1>1, <1>2, <1>6

(* A proposed value is a value.                                            *)
LEMMA ProposedValues ==
    ASSUME NEW value \in Values, NEW id \in ChangeId
    PROVE  /\ value \in Value
           /\ value.field # None => value.field \in Proposed
  <1>1. value.rest \in Rest /\ value.field \in Menu
        /\ value = [rest |-> value.rest, field |-> value.field]
    BY DEF Values
  <1>2. value.field = None \/ value.field \in Proposed
    BY <1>1, ProposalsAreFields DEF Proposed
  <1>3. Cardinality(ChangeId) \in Nat /\ Cardinality(ChangeId) # 0
    BY ChangeIdsAreOrdered, FS_CardinalityType, FS_EmptySet
  <1>4. \A n \in {0, 1} : n \in 0 .. Cardinality(ChangeId)
    BY <1>3
  <1>5. [Char -> {0, 1}] \subseteq Text
    BY <1>4 DEF Text
  <1>6. Proposed \subseteq Field
    BY <1>5 DEF Proposed, Field
  <1> QED
    BY <1>1, <1>2, <1>6 DEF Value, Field

(* The candidate an update proposes is sound and new, and its document     *)
(* renders what the client proposed.                                       *)
LEMMA PreparedCandidate ==
    ASSUME Inv, NEW bases \in SUBSET DOMAIN stored, bases # {},
           NEW value \in Values, NEW id \in FreshIds
    PROVE  LET c == PrepareCandidate(bases, value, id)
           IN  /\ c \in Candidate /\ c.source = None
               /\ Sound(c.value, c.doc)
               /\ c.doc # {} => Json(c.doc) = c.value.field
               /\ c.value = value
  <1> DEFINE f == value.field
             docs == {stored[v].doc : v \in bases}
             base == MergeDocuments(docs)
             c == PrepareCandidate(bases, value, id)
  <1>1. id \in ChangeId /\ \A v \in DOMAIN stored : \A e \in stored[v].doc : e.id # id
    BY DEF FreshIds, UsedIds
  <1>2. value \in Value /\ (f # None => f \in Proposed)
    BY <1>1, ProposedValues
  <1>3. /\ c.value = value /\ c.source = None
        /\ c = [value |-> value, source |-> None, doc |-> c.doc]
    BY DEF PrepareCandidate
  <1>4. SUFFICES /\ WellFormed(c.doc) /\ (f = None <=> c.doc = {})
                 /\ f # None => OfGroup(c.doc, f.group)
                 /\ c.doc # {} => Json(c.doc) = f
    <2>1. c \in Candidate
      BY <1>2, <1>3, <1>4 DEF Candidate, Source, WellFormed
    <2> HIDE DEF c
    <2> QED
      BY <1>2, <1>3, <1>4, <2>1 DEF Sound, c
  <1>5. CASE f = None
    <2>1. c.doc = {}
      BY <1>5 DEF PrepareCandidate
    <2> HIDE DEF c
    <2> QED
      BY <1>5, <2>1 DEF WellFormed
  <1>6. CASE f # None /\ \A v \in bases : MergeableBase(v, f)
    <2>1. c.doc = ChangeDocument(base, id, f)
      BY <1>6 DEF PrepareCandidate
    <2>2. \A v \in bases : /\ WellFormed(stored[v].doc) /\ stored[v].doc # {}
                           /\ OfGroup(stored[v].doc, f.group)
      BY <1>6 DEF Inv, Sound, MergeableBase
    <2>3. \A d \in docs : WellFormed(d) /\ OfGroup(d, f.group)
          /\ \A e \in d : e.id # id
      BY <1>1, <2>2
    <2>4. base # {}
      BY <2>2 DEF MergeDocuments
    <2> HIDE DEF docs, f
    <2>5. WellFormed(base)
      BY <2>3, MergedIsWellFormed
    <2>6. OfGroup(base, f.group) /\ \A e \in base : e.id # id
      BY <2>3 DEF OfGroup, MergeDocuments
    <2> HIDE DEF base, c
    <2> QED
      BY <1>1, <1>2, <1>6, <2>1, <2>4, <2>5, <2>6, ChangedDocument
  <1>7. CASE f # None /\ ~ \A v \in bases : MergeableBase(v, f)
    <2>1. c.doc = FromJson(id, f)
      BY <1>7 DEF PrepareCandidate
    <2> HIDE DEF c, f
    <2> QED
      BY <1>1, <1>2, <1>7, <2>1, NewDocument
  <1> QED
    BY <1>5, <1>6, <1>7

(* The candidates of an update: the proposed one and the active heads it   *)
(* did not name.                                                           *)
LEMMA UpdateCandidates ==
    ASSUME Inv, NEW bases \in SUBSET DOMAIN stored, bases # {},
           NEW value \in Values, NEW id \in FreshIds,
           NEW order \in Orders(ConcurrentIn(bases, "active"))
    PROVE  LET cs == Candidates(bases, value, id, order)
               active == ConcurrentIn(bases, "active")
           IN  /\ SoundCandidates(cs)
               /\ Len(cs) = 1 + Cardinality(active)
               /\ cs[1] = PrepareCandidate(bases, value, id)
               /\ \A i \in DOMAIN cs \ {1} : \E v \in active : cs[i] = StoredCandidate(v)
               /\ \A v \in active : \E i \in DOMAIN cs \ {1} : cs[i] = StoredCandidate(v)
  <1> DEFINE active == ConcurrentIn(bases, "active")
             N == Cardinality(active)
             c == PrepareCandidate(bases, value, id)
             tail == [i \in DOMAIN order |-> StoredCandidate(order[i])]
             cs == Candidates(bases, value, id, order)
  <1>1. active \subseteq heads /\ IsFiniteSet(active)
    <2>1. active \in SUBSET heads
      BY DEF ConcurrentIn, Concurrent
    <2>2. IsFiniteSet(heads)
      BY StoredVersions DEF Inv
    <2> QED
      BY <2>1, <2>2, FS_Subset
  <1>2. /\ N \in Nat /\ order \in [1 .. N -> active]
        /\ \A v \in active : \E i \in 1 .. N : order[i] = v
    <2> HIDE DEF active
    <2> QED
      BY <1>1, OrderVisitsAll DEF active
  <1>3. ASSUME NEW v \in active
        PROVE  /\ StoredCandidate(v) \in Candidate
               /\ Sound(StoredCandidate(v).value, StoredCandidate(v).doc)
    <2>1. /\ v \in DOMAIN stored /\ stored[v] \in Row /\ v \in 1 .. MaxVersion
          /\ Sound(stored[v].value, stored[v].doc)
      BY <1>1, <1>3, StoredVersions DEF Inv
    <2> QED
      BY <2>1 DEF StoredCandidate, Candidate, Row, Source
  <1>4. c \in Candidate /\ Sound(c.value, c.doc)
    BY PreparedCandidate
  <1> HIDE DEF active, c
  <1>5. tail \in [1 .. N -> Candidate]
        /\ \A i \in 1 .. N : tail[i] = StoredCandidate(order[i])
    BY <1>2, <1>3
  <1>6. tail \in Seq(Candidate) /\ Len(tail) = N
    <2> HIDE DEF tail, N
    <2> QED
      BY <1>2, <1>5
  <1>7. <<c>> \in Seq(Candidate) /\ Len(<<c>>) = 1 /\ <<c>>[1] = c
    BY <1>4
  <1>8. cs = <<c>> \o tail
    BY DEF Candidates, c
  <1> HIDE DEF cs, tail, N
  <1>9. /\ cs \in Seq(Candidate) /\ Len(cs) = 1 + N
        /\ \A i \in 1 .. 1 + N :
             cs[i] = IF i <= 1 THEN <<c>>[i] ELSE tail[i - 1]
    BY <1>6, <1>7, <1>8, ConcatProperties
  <1>10. DOMAIN cs = 1 .. 1 + N
    BY <1>9, LenProperties
  <1>11. cs[1] = c
    BY <1>2, <1>7, <1>9
  <1>12. ASSUME NEW i \in DOMAIN cs \ {1} PROVE \E v \in active : cs[i] = StoredCandidate(v)
    <2>1. i - 1 \in 1 .. N /\ ~(i <= 1)
      BY <1>2, <1>10
    <2>2. cs[i] = StoredCandidate(order[i - 1]) /\ order[i - 1] \in active
      BY <1>2, <1>5, <1>9, <1>10, <2>1
    <2> QED
      BY <2>2
  <1>13. ASSUME NEW v \in active PROVE \E i \in DOMAIN cs \ {1} : cs[i] = StoredCandidate(v)
    <2>1. PICK k \in 1 .. N : order[k] = v
      BY <1>2
    <2>2. k + 1 \in 1 .. 1 + N /\ ~(k + 1 <= 1) /\ k + 1 - 1 = k
      BY <1>2
    <2>3. cs[k + 1] = StoredCandidate(v)
      BY <1>5, <1>9, <2>1, <2>2
    <2> QED
      BY <1>10, <2>2, <2>3
  <1>14. \A i \in DOMAIN cs : Sound(cs[i].value, cs[i].doc)
    BY <1>3, <1>4, <1>11, <1>12
  <1> QED
    BY <1>9, <1>11, <1>12, <1>13, <1>14 DEF SoundCandidates, cs, active, c, N

Fresh(vs) == {i \in DOMAIN vs : vs[i].source = None}
NewRow(variant) ==
    [state |-> "active", value |-> variant.value, doc |-> variant.doc]

(* A client names versions that are stored.                                *)
LEMMA BasesAreStored ==
    ASSUME Inv, heads # {}, NEW bases \in Bases
    PROVE  bases \subseteq DOMAIN stored /\ bases # {}
  BY DEF Bases, Inv, TypeOK

(* What an update stores: every new variant under a version of its own,    *)
(* which is a head.                                                        *)
LEMMA UpdateEffect ==
    ASSUME Inv, NEW bases \in Bases, NEW value \in Values, NEW id \in FreshIds,
           NEW plan \in Plan, NEW order \in Orders(ConcurrentIn(bases, "active")),
           Update(plan, bases, value, id, order)
    PROVE  LET vs == Resolve(plan, Candidates(bases, value, id, order))
           IN  /\ next' \in Nat \ {0} /\ next <= next' /\ next' <= MaxVersion + 1
               /\ stored' = [v \in 1 .. next' - 1 |-> stored'[v]]
               /\ \A v \in DOMAIN stored : v \in 1 .. next' - 1 /\ stored'[v] = stored[v]
               /\ \A v \in next .. next' - 1 :
                    v \in heads' /\ \E i \in Fresh(vs) : stored'[v] = NewRow(vs[i])
               /\ \A i \in Fresh(vs) :
                    \E v \in next .. next' - 1 : stored'[v] = NewRow(vs[i])
               /\ heads' = {vs[i].source : i \in DOMAIN vs \ Fresh(vs)}
                             \cup ConcurrentIn(bases, "deleted")
                             \cup next .. next' - 1
               /\ named' = bases
  <1> DEFINE vs == Resolve(plan, Candidates(bases, value, id, order))
             F == Fresh(vs)
             version(i) == next + Cardinality({j \in F : j < i})
  <1>1. heads # {} /\ named' = bases /\ next' = next + Cardinality(F)
        /\ next' <= MaxVersion + 1
    BY DEF Update, Fresh
  <1>2. next \in Nat \ {0} /\ DOMAIN stored = 1 .. next - 1
    BY StoredVersions DEF Inv
  <1>3. F \in SUBSET Nat /\ IsFiniteSet(F)
    <2>1. bases \in SUBSET DOMAIN stored /\ bases # {}
      BY <1>1, BasesAreStored
    <2>2. SoundCandidates(Candidates(bases, value, id, order))
      BY <2>1, UpdateCandidates
    <2>3. DOMAIN vs \subseteq DOMAIN Candidates(bases, value, id, order)
      BY <2>2, ResolvedVariants
    <2>4. F \in SUBSET DOMAIN Candidates(bases, value, id, order)
      BY <2>3 DEF Fresh
    <2> HIDE DEF F
    <2> QED
      BY <2>2, <2>4, Positions DEF SoundCandidates
  <1> DEFINE row(v) == IF v < next THEN stored[v]
                       ELSE LET i == CHOOSE i \in F : version(i) = v
                            IN  NewRow(vs[i])
  <1>4. stored' = [v \in 1 .. next' - 1 |-> row(v)]
    <2>1. stored' = [v \in 1 .. next + Cardinality(F) - 1 |-> row(v)]
      BY DEF Update, Fresh, NewRow
    <2>2. next + Cardinality(F) - 1 = next' - 1
      <3>1. Cardinality(F) \in Nat
        BY <1>3, FS_CardinalityType
      <3> HIDE DEF F
      <3> QED
        BY <1>1, <1>2, <3>1
    <2> HIDE DEF row, F
    <2> QED
      BY <2>1, <2>2
  <1>5. heads' = {vs[i].source : i \in DOMAIN vs \ F}
                   \cup ConcurrentIn(bases, "deleted") \cup {version(i) : i \in F}
    BY DEF Update, Fresh, KeptHeads
  <1> HIDE DEF F, vs
  <1>6. /\ Cardinality(F) \in Nat
        /\ \A i \in F : Cardinality({j \in F : j < i}) \in 0 .. Cardinality(F) - 1
        /\ \A i, k \in F : Cardinality({j \in F : j < i})
                           = Cardinality({j \in F : j < k}) => i = k
        /\ \A v \in 0 .. Cardinality(F) - 1 :
             \E i \in F : Cardinality({j \in F : j < i}) = v
    BY <1>3, Numbering
  <1>7. next' \in Nat \ {0} /\ next <= next'
    BY <1>1, <1>2, <1>6
  <1>8. ASSUME NEW i \in F PROVE version(i) \in next .. next' - 1
    <2> DEFINE r == Cardinality({j \in F : j < i})
    <2>1. r \in 0 .. Cardinality(F) - 1
      BY <1>6
    <2> HIDE DEF r
    <2>2. next + r \in next .. next' - 1
      BY <1>1, <1>2, <1>6, <2>1
    <2> QED
      BY <2>2 DEF r
  <1>9. ASSUME NEW i \in F, NEW k \in F, version(i) = version(k) PROVE i = k
    <2> DEFINE r(n) == Cardinality({j \in F : j < n})
    <2>1. r(i) \in Nat /\ r(k) \in Nat
      BY <1>6
    <2>2. next + r(i) = next + r(k)
      BY <1>9
    <2> HIDE DEF r
    <2>3. r(i) = r(k)
      BY <1>2, <2>1, <2>2
    <2> QED
      BY <1>6, <2>3 DEF r
  <1>10. ASSUME NEW v \in next .. next' - 1 PROVE \E i \in F : version(i) = v
    <2>1. v - next \in 0 .. Cardinality(F) - 1
      BY <1>1, <1>2, <1>6, <1>10
    <2>2. PICK i \in F : Cardinality({j \in F : j < i}) = v - next
      BY <1>6, <2>1
    <2>3. version(i) = v
      BY <1>2, <1>10, <2>2
    <2> QED
      BY <2>3
  <1>11. \A v : v < next => row(v) = stored[v]
    OBVIOUS
  <1>12. \A v : ~(v < next) => row(v) = NewRow(vs[CHOOSE i \in F : version(i) = v])
    OBVIOUS
  <1> HIDE DEF version, row
  <1>13. ASSUME NEW v \in next .. next' - 1
         PROVE  \E i \in F : stored'[v] = NewRow(vs[i]) /\ version(i) = v
    <2>1. v \in 1 .. next' - 1 /\ ~(v < next)
      <3> DEFINE m == next'
      <3>1. next \in Nat /\ 1 <= next
        BY <1>2
      <3>2. m \in Nat
        BY <1>7
      <3>3. v \in next .. m - 1
        BY <1>13
      <3> HIDE DEF m
      <3>4. v \in 1 .. m - 1 /\ ~(v < next)
        BY <3>1, <3>2, <3>3
      <3> QED
        BY <3>4 DEF m
    <2> DEFINE k == CHOOSE i \in F : version(i) = v
    <2>2. k \in F /\ version(k) = v
      BY <1>10
    <2>3. row(v) = NewRow(vs[k])
      BY <1>12, <2>1
    <2>4. stored'[v] = NewRow(vs[k])
      BY <1>4, <2>1, <2>3
    <2> QED
      BY <2>2, <2>4
  <1>14. ASSUME NEW i \in F PROVE stored'[version(i)] = NewRow(vs[i])
    BY <1>8, <1>9, <1>13
  <1>15. {version(i) : i \in F} = next .. next' - 1
    BY <1>8, <1>10
  <1>16. ASSUME NEW v \in DOMAIN stored
         PROVE  v \in 1 .. next' - 1 /\ stored'[v] = stored[v]
    <2>1. v \in 1 .. next' - 1 /\ v < next
      BY <1>2, <1>7
    <2>2. row(v) = stored[v]
      BY <1>11, <2>1
    <2> QED
      BY <1>4, <2>1, <2>2
  <1>17. stored' = [v \in 1 .. next' - 1 |-> stored'[v]]
    BY <1>4
  <1>18. \A i \in F : \E v \in next .. next' - 1 : stored'[v] = NewRow(vs[i])
    BY <1>8, <1>14
  <1>19. \A v \in next .. next' - 1 :
           v \in heads' /\ \E i \in F : stored'[v] = NewRow(vs[i])
    BY <1>5, <1>13, <1>15
  <1> QED
    BY <1>1, <1>5, <1>7, <1>15, <1>16, <1>17, <1>18, <1>19 DEF F, vs

-----------------------------------------------------------------------------
(* The invariant                                                           *)

(* A step that only adds rows keeps the invariant when they are sound.     *)
LEMMA RowsAreAdded ==
    ASSUME Inv,
           next' \in Nat \ {0}, next <= next', next' <= MaxVersion + 1,
           stored' = [v \in 1 .. next' - 1 |-> stored'[v]],
           \A v \in DOMAIN stored : v \in 1 .. next' - 1 /\ stored'[v] = stored[v],
           \A v \in next .. next' - 1 :
              stored'[v] \in Row /\ Sound(stored'[v].value, stored'[v].doc),
           heads' \subseteq 1 .. next' - 1, named' \subseteq 1 .. next' - 1
    PROVE  Inv'
  <1> DEFINE n == next'
             rows == stored'
  <1>1. /\ next \in Nat \ {0} /\ DOMAIN stored = 1 .. next - 1
        /\ \A v \in DOMAIN stored :
             stored[v] \in Row /\ Sound(stored[v].value, stored[v].doc)
    BY StoredVersions DEF Inv
  <1>2. n \in Nat \ {0} /\ next <= n /\ n <= MaxVersion + 1
    OBVIOUS
  <1>3. ASSUME NEW v \in 1 .. n - 1
        PROVE  rows[v] \in Row /\ Sound(rows[v].value, rows[v].doc)
    <2>1. CASE v \in DOMAIN stored
      BY <1>1, <2>1
    <2>2. CASE v \notin DOMAIN stored
      <3>1. v \in next .. n - 1
        <4> HIDE DEF n
        <4> QED
          BY <1>1, <1>2, <1>3, <2>2
      <3> QED
        BY <3>1
    <2> QED
      BY <2>1, <2>2
  <1>4. rows \in [1 .. n - 1 -> Row] /\ DOMAIN rows = 1 .. n - 1
    BY <1>3
  <1>5. n \in 1 .. MaxVersion + 1
    <2> HIDE DEF n
    <2> QED
      BY <1>2, VersionsAreBounded
  <1>6. TypeOK'
    BY <1>4, <1>5 DEF TypeOK
  <1> QED
    BY <1>3, <1>4, <1>6 DEF Inv

(* Creation stores one version, whose document renders its value.          *)
LEMMA CreateEffect ==
    ASSUME Inv, NEW value \in Values, NEW id \in FreshIds, Create(value, id)
    PROVE  /\ Inv'
           /\ \A v \in DOMAIN stored' :
                /\ stored'[v].doc # {} => Json(stored'[v].doc) = stored'[v].value.field
                /\ stored'[v].value = value
           /\ heads = {}
  <1> DEFINE doc == IF value.field = None THEN {} ELSE FromJson(id, value.field)
             row == [state |-> "active", value |-> value, doc |-> doc]
  <1>1. id \in ChangeId
    BY DEF FreshIds
  <1>2. value \in Value /\ (value.field # None => value.field \in Proposed)
    BY <1>1, ProposedValues
  <1>3. /\ Sound(value, doc)
        /\ doc # {} => Json(doc) = value.field
    <2>1. CASE value.field = None
      BY <1>2, <2>1 DEF Sound, WellFormed
    <2>2. CASE value.field # None
      <3> DEFINE d == FromJson(id, value.field)
      <3>1. /\ WellFormed(d) /\ d # {} /\ OfGroup(d, value.field.group)
            /\ Json(d) = value.field
        BY <1>1, <1>2, <2>2, NewDocument
      <3>2. doc = d
        BY <2>2
      <3> HIDE DEF d, doc
      <3> QED
        BY <1>2, <2>2, <3>1, <3>2 DEF Sound
    <2> QED
      BY <2>1, <2>2
  <1>4. next = 1 /\ stored' = <<row>> /\ next' = 2 /\ heads' = {1} /\ named' = {}
    BY DEF Create
  <1>5. DOMAIN stored = {} /\ heads = {}
    BY <1>4, StoredVersions DEF Inv
  <1> HIDE DEF doc
  <1>6. row \in Row /\ row.value = value /\ row.doc = doc
    BY <1>2, <1>3 DEF Row, Sound, WellFormed
  <1> HIDE DEF row
  <1>7. DOMAIN stored' = 1 .. 1 /\ stored' = [v \in 1 .. 1 |-> row]
    BY <1>4
  <1>8. /\ next' - 1 = 1 /\ 2 <= MaxVersion + 1 /\ next <= next'
    BY <1>4, VersionsAreBounded
  <1>9. Inv'
    <2>1. /\ next' \in Nat \ {0} /\ next <= next' /\ next' <= MaxVersion + 1
          /\ stored' = [v \in 1 .. next' - 1 |-> stored'[v]]
      BY <1>4, <1>7, <1>8
    <2>2. \A v \in next .. next' - 1 :
            stored'[v] \in Row /\ Sound(stored'[v].value, stored'[v].doc)
      BY <1>3, <1>4, <1>6, <1>7, <1>8
    <2>3. heads' \subseteq 1 .. next' - 1 /\ named' \subseteq 1 .. next' - 1
      BY <1>4, <1>8
    <2> QED
      BY <1>5, <2>1, <2>2, <2>3, RowsAreAdded
  <1> QED
    BY <1>3, <1>5, <1>6, <1>7, <1>9

(* Deletion adds a tombstone, which has neither field nor document.        *)
LEMMA DeleteEffect ==
    ASSUME Inv, NEW bases \in Bases, NEW plan \in Plan, Delete(plan, bases)
    PROVE  /\ Inv'
           /\ DOMAIN stored' = DOMAIN stored \cup {next}
           /\ \A v \in DOMAIN stored : stored'[v] = stored[v]
           /\ stored'[next].doc = {} /\ stored'[next].value.field = None
           /\ heads' = Concurrent(bases) \cup {next} /\ named' = bases
  <1>1. /\ next \in Nat \ {0} /\ DOMAIN stored = 1 .. next - 1
        /\ heads \subseteq DOMAIN stored
        /\ \A v \in DOMAIN stored : v < next /\ stored[v] \in Row
    BY StoredVersions DEF Inv
  <1>2. /\ heads # {} /\ next <= MaxVersion /\ next' = next + 1
        /\ stored' = [v \in 1 .. next |-> IF v < next THEN stored[v] ELSE Tombstone]
        /\ heads' = Concurrent(bases) \cup {next} /\ named' = bases
    BY DEF Delete
  <1>3. bases \subseteq DOMAIN stored
    BY <1>2, BasesAreStored
  <1>4. /\ Tombstone \in Row /\ Tombstone.doc = {} /\ Tombstone.value.field = None
        /\ Sound(Tombstone.value, Tombstone.doc)
    <2>1. PICK v \in DOMAIN stored : stored[v].value.rest \in Rest
      BY <1>1, <1>2 DEF Row, Value
    <2>2. (CHOOSE r \in Rest : TRUE) \in Rest
      BY <2>1
    <2>3. /\ Tombstone.doc = {} /\ Tombstone.value.field = None
          /\ Tombstone.value \in Value /\ Tombstone \in Row
      BY <2>2 DEF Tombstone, Row, Value, Field
    <2> QED
      BY <2>3 DEF Sound, WellFormed
  <1>5. /\ next' - 1 = next /\ next' \in Nat \ {0} /\ next <= next'
        /\ next' <= MaxVersion + 1
    BY <1>1, <1>2, VersionsAreBounded
  <1>6. 1 .. next = DOMAIN stored \cup {next} /\ next .. next = {next}
    BY <1>1
  <1>7. /\ \A v \in DOMAIN stored : v \in 1 .. next /\ stored'[v] = stored[v]
        /\ stored'[next] = Tombstone /\ DOMAIN stored' = 1 .. next
        /\ stored' = [v \in 1 .. next |-> stored'[v]]
    BY <1>1, <1>2, <1>6
  <1>8. Inv'
    <2>1. heads' \subseteq 1 .. next /\ named' \subseteq 1 .. next
      BY <1>1, <1>2, <1>3, <1>6 DEF Concurrent
    <2> QED
      BY <1>4, <1>5, <1>6, <1>7, <2>1, RowsAreAdded
  <1> QED
    BY <1>2, <1>4, <1>6, <1>7, <1>8

(* An update adds its new variants, which are sound, as rows.              *)
LEMMA UpdateKeepsInv ==
    ASSUME Inv, NEW bases \in Bases, NEW value \in Values, NEW id \in FreshIds,
           NEW plan \in Plan, NEW order \in Orders(ConcurrentIn(bases, "active")),
           Update(plan, bases, value, id, order)
    PROVE  Inv'
  <1> DEFINE cs == Candidates(bases, value, id, order)
             vs == Resolve(plan, cs)
  <1>1. heads # {}
    BY DEF Update
  <1>2. bases \in SUBSET DOMAIN stored /\ bases # {}
    BY <1>1, BasesAreStored
  <1>3. /\ SoundCandidates(cs)
        /\ cs[1] = PrepareCandidate(bases, value, id)
        /\ \A i \in DOMAIN cs \ {1} :
             \E v \in ConcurrentIn(bases, "active") : cs[i] = StoredCandidate(v)
    BY <1>2, UpdateCandidates
  <1>4. cs[1].source = None
    <2>1. PrepareCandidate(bases, value, id).source = None
      BY DEF PrepareCandidate
    <2> HIDE DEF cs
    <2> QED
      BY <1>3, <2>1
  <1>5. /\ next' \in Nat \ {0} /\ next <= next' /\ next' <= MaxVersion + 1
        /\ stored' = [v \in 1 .. next' - 1 |-> stored'[v]]
        /\ \A v \in DOMAIN stored : v \in 1 .. next' - 1 /\ stored'[v] = stored[v]
        /\ \A v \in next .. next' - 1 : \E i \in Fresh(vs) : stored'[v] = NewRow(vs[i])
        /\ heads' = {vs[i].source : i \in DOMAIN vs \ Fresh(vs)}
                      \cup ConcurrentIn(bases, "deleted")
                      \cup next .. next' - 1
        /\ named' = bases
    BY UpdateEffect
  <1> HIDE DEF cs
  <1>6. \A i \in DOMAIN vs :
          /\ vs[i] \in Candidate /\ Sound(vs[i].value, vs[i].doc)
          /\ vs[i].source # None => \E k \in DOMAIN cs : vs[i].source = cs[k].source
    BY <1>3, ResolvedVariants
  <1> HIDE DEF vs
  <1>7. ASSUME NEW v \in next .. next' - 1
        PROVE  stored'[v] \in Row /\ Sound(stored'[v].value, stored'[v].doc)
    <2>1. PICK i \in Fresh(vs) : stored'[v] = NewRow(vs[i])
      BY <1>5
    <2>2. vs[i] \in Candidate /\ Sound(vs[i].value, vs[i].doc)
      BY <1>6 DEF Fresh
    <2>3. /\ NewRow(vs[i]) \in Row /\ NewRow(vs[i]).value = vs[i].value
          /\ NewRow(vs[i]).doc = vs[i].doc
      BY <2>2 DEF NewRow, Row, Candidate
    <2> QED
      BY <2>1, <2>2, <2>3
  <1>8. ASSUME NEW i \in DOMAIN vs \ Fresh(vs) PROVE vs[i].source \in DOMAIN stored
    <2>1. PICK k \in DOMAIN cs : vs[i].source = cs[k].source /\ cs[k].source # None
      BY <1>6 DEF Fresh
    <2>2. PICK v \in ConcurrentIn(bases, "active") : cs[k] = StoredCandidate(v)
      BY <1>3, <1>4, <2>1
    <2>3. v \in DOMAIN stored
      BY StoredVersions DEF Inv, ConcurrentIn, Concurrent
    <2> QED
      BY <2>1, <2>2, <2>3 DEF StoredCandidate
  <1>9. ConcurrentIn(bases, "deleted") \subseteq DOMAIN stored
    BY StoredVersions DEF Inv, ConcurrentIn, Concurrent
  <1>10. next .. next' - 1 \subseteq 1 .. next' - 1
    <2> DEFINE m == next'
    <2>1. next \in Nat \ {0} /\ m \in Nat
      BY <1>5, StoredVersions DEF Inv
    <2> HIDE DEF m
    <2>2. next .. m - 1 \subseteq 1 .. m - 1
      BY <2>1
    <2> QED
      BY <2>2 DEF m
  <1>11. heads' \subseteq 1 .. next' - 1 /\ named' \subseteq 1 .. next' - 1
    BY <1>2, <1>5, <1>8, <1>9, <1>10
  <1> QED
    BY <1>5, <1>7, <1>11, RowsAreAdded

(* The invariant holds of the empty entity.                                *)
LEMMA InitInv == Init => Inv
  <1> SUFFICES ASSUME Init PROVE Inv
    OBVIOUS
  <1>1. DOMAIN stored = {} /\ 1 .. 0 = {}
    BY DEF Init
  <1>2. stored \in [1 .. 0 -> Row]
    BY <1>1 DEF Init
  <1>3. 1 \in 1 .. MaxVersion + 1
    BY VersionsAreBounded
  <1>4. TypeOK
    BY <1>2, <1>3 DEF Init, TypeOK
  <1> QED
    BY <1>1, <1>4 DEF Inv

(* The invariant is inductive.                                             *)
LEMMA NextInv == Inv /\ [Next]_vars => Inv'
  <1> SUFFICES ASSUME Inv, [Next]_vars PROVE Inv'
    OBVIOUS
  <1>1. ASSUME NEW value \in Values, NEW id \in FreshIds, Create(value, id) PROVE Inv'
    BY <1>1, CreateEffect
  <1>2. ASSUME NEW bases \in Bases, NEW value \in Values,
               NEW id \in DrawnIds(bases, value), NEW plan \in Plan,
               NEW order \in Orders(ConcurrentIn(bases, "active")),
               Update(plan, bases, value, id, order)
        PROVE  Inv'
    <2>1. id \in FreshIds
      BY DEF DrawnIds
    <2> QED
      BY <1>2, <2>1, UpdateKeepsInv
  <1>3. ASSUME NEW bases \in Bases, NEW plan \in Plan, Delete(plan, bases) PROVE Inv'
    BY <1>3, DeleteEffect
  <1>4. CASE UNCHANGED vars
    BY <1>4 DEF vars, Inv, TypeOK
  <1> QED
    BY <1>1, <1>2, <1>3, <1>4 DEF Next

(* The rows of the entity, its heads and its counter have their types, and *)
(* each document belongs to the field of its row, in every reachable state.*)
LEMMA SpecInv == Spec => []Inv
  BY InitInv, NextInv, PTL DEF Spec

(* Type correctness: what creations, updates and deletions of one entity   *)
(* store (create, update, delete of engine.rs) has its type.               *)
THEOREM ConflictTypeCorrect == Spec => []TypeOK
  <1>1. Inv => TypeOK
    BY DEF Inv
  <1> QED
    BY <1>1, SpecInv, PTL

-----------------------------------------------------------------------------
(* Documents and values                                                    *)

(* Every field a client proposes has its discriminator.                    *)
MenuIsGrouped == \A f \in Menu : f # None => f.group \in Group

(* Documents never mix groups in a sound row.                              *)
LEMMA SoundRowsNeverMix == Inv => GroupsNeverMix
  <1> SUFFICES ASSUME Inv, NEW v \in DOMAIN stored
               PROVE  Cardinality({c.group : c \in stored[v].doc}) <= 1
    BY DEF GroupsNeverMix
  <1> DEFINE groups == {c.group : c \in stored[v].doc}
             g == stored[v].value.field.group
  <1>1. groups \subseteq {g} /\ (stored[v].doc # {} => groups = {g})
        /\ (stored[v].doc = {} => groups = {})
    BY DEF Inv, Sound, OfGroup
  <1> HIDE DEF groups, g
  <1>2. groups = {} \/ groups = {g}
    BY <1>1
  <1>3. Cardinality(groups) <= 1
    <2>1. Cardinality({}) = 0 /\ Cardinality({g}) = 1
      BY FS_EmptySet, FS_Singleton
    <2> QED
      BY <1>2, <2>1
  <1> QED
    BY <1>3 DEF groups

(* Every mutation stores documents that render what is stored beside them. *)
LEMMA NextRenders ==
    ASSUME MenuIsGrouped, Inv, AllRender, [Next]_vars
    PROVE  AllRender'
  <1>1. ASSUME NEW value \in Values, NEW id \in FreshIds, Create(value, id)
        PROVE  AllRender'
    <2>1. value.field # None => value.field.group \in Group
      BY DEF MenuIsGrouped, Values
    <2>2. \A v \in DOMAIN stored' :
            /\ stored'[v].doc # {} => Json(stored'[v].doc) = stored'[v].value.field
            /\ stored'[v].value = value
      BY <1>1, CreateEffect
    <2> QED
      BY <2>1, <2>2 DEF AllRender, Renders
  <1>2. ASSUME NEW bases \in Bases, NEW value \in Values,
               NEW id \in DrawnIds(bases, value), NEW plan \in Plan,
               NEW order \in Orders(ConcurrentIn(bases, "active")),
               Update(plan, bases, value, id, order)
        PROVE  AllRender'
    <2> DEFINE cs == Candidates(bases, value, id, order)
               vs == Resolve(plan, cs)
               c == PrepareCandidate(bases, value, id)
    <2>1. id \in FreshIds
      BY DEF DrawnIds
    <2>2. bases \in SUBSET DOMAIN stored /\ bases # {}
      BY <1>2, BasesAreStored DEF Update
    <2>3. /\ SoundCandidates(cs) /\ cs[1] = c
          /\ \A i \in DOMAIN cs \ {1} :
               \E v \in ConcurrentIn(bases, "active") : cs[i] = StoredCandidate(v)
      BY <2>1, <2>2, UpdateCandidates
    <2>4. Renders(c.value, c.doc)
      <3>1. c.value = value /\ (c.doc # {} => Json(c.doc) = c.value.field)
        BY <2>1, <2>2, PreparedCandidate
      <3>2. value.field # None => value.field.group \in Group
        BY DEF MenuIsGrouped, Values
      <3> HIDE DEF c
      <3> QED
        BY <3>1, <3>2 DEF Renders
    <2>5. \A v \in ConcurrentIn(bases, "active") :
            Renders(StoredCandidate(v).value, StoredCandidate(v).doc)
      BY StoredVersions
         DEF Inv, AllRender, ConcurrentIn, Concurrent, StoredCandidate
    <2>6. /\ stored' = [v \in 1 .. next' - 1 |-> stored'[v]]
          /\ \A v \in DOMAIN stored : stored'[v] = stored[v]
          /\ \A v \in next .. next' - 1 :
               \E i \in Fresh(vs) : stored'[v] = NewRow(vs[i])
      BY <1>2, <2>1, UpdateEffect
    <2> HIDE DEF cs, c
    <2>7. \A i \in DOMAIN cs : Renders(cs[i].value, cs[i].doc)
      BY <2>3, <2>4, <2>5
    <2>8. \A i \in DOMAIN vs : Renders(vs[i].value, vs[i].doc)
      BY <2>3, <2>7, ResolveRenders
    <2> HIDE DEF vs
    <2>9. DOMAIN stored' = 1 .. next' - 1 /\ DOMAIN stored = 1 .. next - 1
          /\ next \in Nat
      BY <2>6, StoredVersions DEF Inv
    <2>10. ASSUME NEW v \in DOMAIN stored'
           PROVE  Renders(stored'[v].value, stored'[v].doc)
      <3>1. CASE v \in DOMAIN stored
        BY <2>6, <3>1 DEF AllRender
      <3>2. CASE v \notin DOMAIN stored
        <4>1. v \in next .. next' - 1
          <5> DEFINE m == next'
          <5>1. v \in 1 .. m - 1 /\ v \notin 1 .. next - 1 /\ next \in Nat
            BY <2>9, <3>2
          <5> HIDE DEF m
          <5>2. v \in next .. m - 1
            BY <5>1
          <5> QED
            BY <5>2 DEF m
        <4>2. PICK i \in Fresh(vs) : stored'[v] = NewRow(vs[i])
          BY <2>6, <4>1
        <4> QED
          BY <2>8, <4>2 DEF Fresh, NewRow
      <3> QED
        BY <3>1, <3>2
    <2> QED
      BY <2>10 DEF AllRender
  <1>3. ASSUME NEW bases \in Bases, NEW plan \in Plan, Delete(plan, bases)
        PROVE  AllRender'
    BY <1>3, DeleteEffect DEF AllRender, Renders
  <1>4. CASE UNCHANGED vars
    BY <1>4 DEF vars, AllRender
  <1> QED
    BY <1>1, <1>2, <1>3, <1>4 DEF Next

(* When fields carry their discriminator, no mutation of an entity leaves a*)
(* stored document that its own checks (stored_candidate) take for         *)
(* corruption, whatever was merged (merge_candidates) and collapsed        *)
(* (collapse_identical_variants) into it, and no document mixes groups.    *)
THEOREM DocumentsMatchValues ==
    ASSUME MenuIsGrouped
    PROVE  Spec => []DocumentMatchesValue
  <1>1. Init => Inv /\ AllRender
    BY InitInv DEF Init, AllRender
  <1>2. Inv /\ AllRender /\ [Next]_vars => Inv' /\ AllRender'
    BY NextInv, NextRenders
  <1>3. Inv /\ AllRender => DocumentMatchesValue
    BY SoundRowsNeverMix DEF DocumentMatchesValue, AllRender, Renders, Corrupt
  <1> QED
    BY <1>1, <1>2, <1>3, PTL DEF Spec

(* Documents of different groups are never merged, with or without a       *)
(* discriminator (prepare_candidate, group_values).                        *)
THEOREM GroupsStayApart == Spec => []GroupsNeverMix
  BY SpecInv, SoundRowsNeverMix, PTL

-----------------------------------------------------------------------------
(* Edits and heads                                                         *)

(* What becomes of a head an update did not name.                          *)
LEMMA UpdateLosesNothing ==
    ASSUME Inv, NEW bases \in Bases, NEW value \in Values, NEW id \in FreshIds,
           NEW plan \in Plan, NEW order \in Orders(ConcurrentIn(bases, "active")),
           Update(plan, bases, value, id, order),
           NEW v \in (heads \ heads') \ bases
    PROVE  \E w \in heads' \ heads :
              /\ stored[v].doc \subseteq stored'[w].doc
              /\ stored'[w].value.rest = stored[v].value.rest
  <1> DEFINE cs == Candidates(bases, value, id, order)
             vs == Resolve(plan, cs)
  <1>1. bases \in SUBSET DOMAIN stored /\ bases # {}
    BY BasesAreStored DEF Update
  <1>2. /\ SoundCandidates(cs)
        /\ \A u \in ConcurrentIn(bases, "active") :
             \E i \in DOMAIN cs \ {1} : cs[i] = StoredCandidate(u)
    BY <1>1, UpdateCandidates
  <1>3. /\ \A u \in next .. next' - 1 : u \in heads'
        /\ \A i \in Fresh(vs) : \E u \in next .. next' - 1 : stored'[u] = NewRow(vs[i])
        /\ heads' = {vs[i].source : i \in DOMAIN vs \ Fresh(vs)}
                      \cup ConcurrentIn(bases, "deleted")
                      \cup next .. next' - 1
    BY UpdateEffect
  <1>4. /\ v \in DOMAIN stored /\ stored[v] \in Row /\ v # None
        /\ \A u \in heads : u \in Nat /\ u < next
        /\ next \in Nat
    BY StoredVersions, NoneIsNoVersion DEF Inv
  <1>5. v \in ConcurrentIn(bases, "active")
    <2>1. v \in Concurrent(bases) /\ v \notin ConcurrentIn(bases, "deleted")
      BY <1>3 DEF Concurrent
    <2>2. stored[v].state \in {"active", "deleted"}
      BY <1>4 DEF Row
    <2> QED
      BY <2>1, <2>2 DEF ConcurrentIn
  <1>6. PICK k \in DOMAIN cs : cs[k] = StoredCandidate(v)
    BY <1>2, <1>5
  <1>7. cs[k].source = v /\ cs[k].doc = stored[v].doc /\ cs[k].value = stored[v].value
    BY <1>6 DEF StoredCandidate
  <1> HIDE DEF cs
  <1>8. PICK i \in DOMAIN vs :
          \/ vs[i].source = cs[k].source
          \/ /\ vs[i].source = None
             /\ cs[k].doc \subseteq vs[i].doc
             /\ vs[i].value.rest = cs[k].value.rest
    BY <1>2, <1>4, <1>7, ResolveLosesNothing
  <1> HIDE DEF vs
  <1>9. CASE vs[i].source = cs[k].source
    BY <1>3, <1>4, <1>7, <1>9 DEF Fresh
  <1>10. CASE /\ vs[i].source = None
              /\ cs[k].doc \subseteq vs[i].doc
              /\ vs[i].value.rest = cs[k].value.rest
    <2>1. PICK w \in next .. next' - 1 : stored'[w] = NewRow(vs[i])
      BY <1>3, <1>10 DEF Fresh
    <2>2. w \in heads' /\ w \notin heads
      BY <1>3, <1>4, <2>1
    <2> QED
      BY <1>7, <1>10, <2>1, <2>2 DEF NewRow
  <1> QED
    BY <1>8, <1>9, <1>10

(* No edit is lost that the author of a mutation never saw                 *)
(* (concurrent_heads, merge_candidates, collapse_identical_variants), with *)
(* every policy and any menu of values.                                    *)
THEOREM UnseenEditsAreKept == Spec => UnseenEditsSurvive
  <1> DEFINE Kept == \A v \in (heads \ heads') \ named' :
                       \E w \in heads' \ heads :
                          /\ stored[v].doc \subseteq stored'[w].doc
                          /\ stored'[w].value.rest = stored[v].value.rest
  <1>1. ASSUME Inv, [Next]_vars PROVE [Kept]_vars
    <2>1. ASSUME NEW value \in Values, NEW id \in FreshIds, Create(value, id) PROVE Kept
      BY <1>1, <2>1, CreateEffect
    <2>2. ASSUME NEW bases \in Bases, NEW value \in Values,
                 NEW id \in DrawnIds(bases, value), NEW plan \in Plan,
                 NEW order \in Orders(ConcurrentIn(bases, "active")),
                 Update(plan, bases, value, id, order)
          PROVE  Kept
      <3>1. id \in FreshIds /\ named' = bases
        BY <2>2 DEF DrawnIds, Update
      <3> QED
        BY <1>1, <2>2, <3>1, UpdateLosesNothing
    <2>3. ASSUME NEW bases \in Bases, NEW plan \in Plan, Delete(plan, bases) PROVE Kept
      BY <1>1, <2>3, DeleteEffect DEF Concurrent
    <2> HIDE DEF Kept
    <2> QED
      BY <1>1, <2>1, <2>2, <2>3 DEF Next
  <1> QED
    BY <1>1, SpecInv, PTL DEF Spec, UnseenEditsSurvive

(* An update that names all heads leaves the one version it creates.       *)
LEMMA UpdateResolvesAll ==
    ASSUME Inv, NEW bases \in Bases, NEW value \in Values, NEW id \in FreshIds,
           NEW plan \in Plan, NEW order \in Orders(ConcurrentIn(bases, "active")),
           Update(plan, bases, value, id, order), heads \subseteq bases
    PROVE  heads' = {next}
  <1> DEFINE cs == Candidates(bases, value, id, order)
             vs == Resolve(plan, cs)
  <1>1. bases \in SUBSET DOMAIN stored /\ bases # {}
    BY BasesAreStored DEF Update
  <1>2. /\ SoundCandidates(cs)
        /\ Len(cs) = 1 + Cardinality(ConcurrentIn(bases, "active"))
        /\ cs[1] = PrepareCandidate(bases, value, id)
    BY <1>1, UpdateCandidates
  <1>3. /\ ConcurrentIn(bases, "active") = {}
        /\ ConcurrentIn(bases, "deleted") = {}
    BY DEF ConcurrentIn, Concurrent
  <1>4. /\ heads' = {vs[i].source : i \in DOMAIN vs \ Fresh(vs)}
                      \cup ConcurrentIn(bases, "deleted")
                      \cup next .. next' - 1
        /\ next' = next + Cardinality(Fresh(vs))
    <2>1. next' = next + Cardinality(Fresh(vs))
      BY DEF Update, Fresh
    <2> QED
      BY <2>1, UpdateEffect
  <1> HIDE DEF cs
  <1>5. Len(cs) = 1 /\ DOMAIN cs = {1}
    <2>1. Len(cs) = 1
      <3>1. Cardinality(ConcurrentIn(bases, "active")) = 0
        BY <1>3, FS_EmptySet
      <3> QED
        BY <1>2, <3>1
    <2>2. DOMAIN cs = 1 .. 1
      BY <1>2, <2>1, Positions DEF SoundCandidates
    <2> QED
      BY <2>1, <2>2
  <1>6. vs = cs
    <2>1. Resolve(plan, cs) = IF Len(cs) <= 1 \/ plan.strategy = "mvcc" THEN cs
                              ELSE Collapse(Merged(cs))
      BY <1>2, ResolveCases
    <2> QED
      BY <1>5, <2>1
  <1>7. Fresh(vs) = {1}
    <2>1. cs[1].source = None
      BY <1>2 DEF PrepareCandidate
    <2> HIDE DEF vs
    <2> QED
      BY <1>5, <1>6, <2>1 DEF Fresh
  <1> HIDE DEF vs
  <1>8. Cardinality(Fresh(vs)) = 1 /\ DOMAIN vs \ Fresh(vs) = {}
    BY <1>5, <1>6, <1>7, FS_Singleton
  <1>9. next \in Nat /\ next' - 1 = next /\ next .. next = {next}
    BY <1>4, <1>8, StoredVersions DEF Inv
  <1> QED
    BY <1>3, <1>4, <1>8, <1>9

(* Naming every current head resolves the entity, as the protocol promises,*)
(* with every policy (selected_bases, concurrent_heads).                   *)
THEOREM NamedHeadsResolve == Spec => NamingAllHeadsResolves
  <1> DEFINE Resolved == heads # {} /\ heads \subseteq named' => heads' = {next}
  <1>1. ASSUME Inv, [Next]_vars PROVE [Resolved]_vars
    <2>1. ASSUME NEW value \in Values, NEW id \in FreshIds, Create(value, id)
          PROVE  Resolved
      BY <1>1, <2>1, CreateEffect
    <2>2. ASSUME NEW bases \in Bases, NEW value \in Values,
                 NEW id \in DrawnIds(bases, value), NEW plan \in Plan,
                 NEW order \in Orders(ConcurrentIn(bases, "active")),
                 Update(plan, bases, value, id, order)
          PROVE  Resolved
      <3>1. id \in FreshIds /\ named' = bases
        BY <2>2 DEF DrawnIds, Update
      <3> QED
        BY <1>1, <2>2, <3>1, UpdateResolvesAll
    <2>3. ASSUME NEW bases \in Bases, NEW plan \in Plan, Delete(plan, bases)
          PROVE  Resolved
      BY <1>1, <2>3, DeleteEffect DEF Concurrent
    <2> HIDE DEF Resolved
    <2> QED
      BY <1>1, <2>1, <2>2, <2>3 DEF Next
  <1> QED
    BY <1>1, SpecInv, PTL DEF Spec, NamingAllHeadsResolves

-----------------------------------------------------------------------------
(* The order of the heads                                                  *)

ActiveHeads == {v \in heads : stored[v].state = "active"}
StoredCandidates(s) == [i \in DOMAIN s |-> StoredCandidate(s[i])]
MergePlan == [strategy |-> "merge", otherwise |-> "mvcc"]
Outcome(s) == LET vs == Resolve(MergePlan, StoredCandidates(s))
              IN  {vs[i] : i \in DOMAIN vs}

(* The candidates of an order of the active heads.                         *)
LEMMA OrderedCandidates ==
    ASSUME Inv, NEW s \in Orders(ActiveHeads)
    PROVE  LET cs == StoredCandidates(s)
           IN  /\ SoundCandidates(cs) /\ Len(cs) = Cardinality(ActiveHeads)
               /\ DOMAIN cs = 1 .. Cardinality(ActiveHeads)
               /\ \A i \in DOMAIN cs : cs[i] = StoredCandidate(s[i])
               /\ \A i, j \in DOMAIN cs : s[i] = s[j] => i = j
               /\ \A v \in ActiveHeads : \E i \in DOMAIN cs : s[i] = v
               /\ \A i \in DOMAIN cs : s[i] \in ActiveHeads
  <1> DEFINE N == Cardinality(ActiveHeads)
             cs == StoredCandidates(s)
  <1>1. ActiveHeads \in SUBSET heads /\ IsFiniteSet(ActiveHeads)
    BY StoredVersions, FS_Subset DEF Inv, ActiveHeads
  <1>2. /\ N \in Nat /\ s \in [1 .. N -> ActiveHeads]
        /\ \A i, j \in 1 .. N : s[i] = s[j] => i = j
        /\ \A v \in ActiveHeads : \E i \in 1 .. N : s[i] = v
    BY <1>1, OrderVisitsAll
  <1>3. \A v \in ActiveHeads :
          /\ StoredCandidate(v) \in Candidate
          /\ Sound(StoredCandidate(v).value, StoredCandidate(v).doc)
    <2> SUFFICES ASSUME NEW v \in ActiveHeads
                 PROVE  /\ StoredCandidate(v) \in Candidate
                        /\ Sound(StoredCandidate(v).value, StoredCandidate(v).doc)
      OBVIOUS
    <2>1. /\ v \in DOMAIN stored /\ stored[v] \in Row /\ v \in 1 .. MaxVersion
          /\ Sound(stored[v].value, stored[v].doc)
      BY <1>1, StoredVersions DEF Inv
    <2> QED
      BY <2>1 DEF StoredCandidate, Candidate, Row, Source
  <1> HIDE DEF N
  <1>4. DOMAIN s = 1 .. N
    BY <1>2
  <1>5. /\ cs \in [1 .. N -> Candidate] /\ DOMAIN cs = 1 .. N
        /\ \A i \in 1 .. N : cs[i] = StoredCandidate(s[i])
    BY <1>2, <1>3, <1>4 DEF StoredCandidates
  <1> HIDE DEF cs
  <1>6. cs \in Seq(Candidate) /\ Len(cs) = N
    BY <1>2, <1>5
  <1>7. \A i \in DOMAIN cs : Sound(cs[i].value, cs[i].doc)
    BY <1>2, <1>3, <1>5
  <1> QED
    BY <1>2, <1>5, <1>6, <1>7 DEF SoundCandidates, N, cs

(* The position of a head in one order, for its position in another.       *)
LEMMA SamePlaces ==
    ASSUME Inv, NEW s \in Orders(ActiveHeads), NEW t \in Orders(ActiveHeads),
           NEW i \in DOMAIN StoredCandidates(s)
    PROVE  \E k \in DOMAIN StoredCandidates(t) :
              /\ s[i] = t[k]
              /\ StoredCandidates(s)[i] = StoredCandidates(t)[k]
  <1>1. PICK k \in DOMAIN StoredCandidates(t) : t[k] = s[i]
    BY OrderedCandidates
  <1> QED
    BY <1>1, OrderedCandidates

(* Whom a head merges with does not depend on the order.                   *)
LEMMA SameGroups ==
    ASSUME Inv, NEW s \in Orders(ActiveHeads), NEW t \in Orders(ActiveHeads),
           NEW i \in DOMAIN StoredCandidates(s),
           NEW k \in DOMAIN StoredCandidates(t), s[i] = t[k],
           NEW j \in SameGroup(StoredCandidates(s), i)
    PROVE  \E l \in SameGroup(StoredCandidates(t), k) :
              /\ s[j] = t[l]
              /\ StoredCandidates(s)[j] = StoredCandidates(t)[l]
  <1> DEFINE cs == StoredCandidates(s)
             ct == StoredCandidates(t)
  <1>1. /\ j \in DOMAIN cs /\ Grouped(cs, j) /\ Grouped(cs, i)
        /\ cs[j].value.field.group = cs[i].value.field.group
    BY DEF SameGroup
  <1>2. PICK l \in DOMAIN ct : s[j] = t[l] /\ cs[j] = ct[l]
    BY <1>1, SamePlaces
  <1>3. cs[i] = ct[k]
    BY OrderedCandidates
  <1> HIDE DEF cs, ct
  <1>4. l \in SameGroup(ct, k)
    BY <1>1, <1>2, <1>3 DEF SameGroup, Grouped
  <1> QED
    BY <1>2, <1>4 DEF cs, ct

(* What a head merges to does not depend on the order.                     *)
LEMMA SameMerge ==
    ASSUME Inv, NEW s \in Orders(ActiveHeads), NEW t \in Orders(ActiveHeads),
           NEW i \in DOMAIN StoredCandidates(s),
           NEW k \in DOMAIN StoredCandidates(t), s[i] = t[k]
    PROVE  Merged(StoredCandidates(s))[i] = Merged(StoredCandidates(t))[k]
  <1> DEFINE cs == StoredCandidates(s)
             ct == StoredCandidates(t)
             gs == SameGroup(cs, i)
             gt == SameGroup(ct, k)
             ds == MergeDocuments({cs[j].doc : j \in gs})
             dt == MergeDocuments({ct[j].doc : j \in gt})
  <1>1. SoundCandidates(cs) /\ SoundCandidates(ct) /\ cs[i] = ct[k]
    BY OrderedCandidates
  <1>2. /\ \A j \in gs : \E l \in gt : s[j] = t[l] /\ cs[j] = ct[l]
        /\ \A l \in gt : \E j \in gs : s[j] = t[l] /\ cs[j] = ct[l]
    BY SameGroups
  <1>3. /\ \A j, l \in gs : s[j] = s[l] => j = l
        /\ \A j, l \in gt : t[j] = t[l] => j = l
    BY OrderedCandidates DEF SameGroup
  <1>4. \/ /\ \A j, l \in gs : j = l
           /\ MergedCandidate(cs, i) = cs[i]
        \/ /\ \E j, l \in gs : j # l
           /\ MergedCandidate(cs, i) =
                [value |-> [cs[i].value EXCEPT !.field = Json(ds)],
                 doc |-> ds, source |-> None]
    BY <1>1, MergedCandidateCases
  <1>5. \/ /\ \A j, l \in gt : j = l
           /\ MergedCandidate(ct, k) = ct[k]
        \/ /\ \E j, l \in gt : j # l
           /\ MergedCandidate(ct, k) =
                [value |-> [ct[k].value EXCEPT !.field = Json(dt)],
                 doc |-> dt, source |-> None]
    BY <1>1, MergedCandidateCases
  <1>6. Merged(cs)[i] = MergedCandidate(cs, i) /\ Merged(ct)[k] = MergedCandidate(ct, k)
    BY DEF Merged
  <1> HIDE DEF cs, ct, gs, gt
  <1>7. {cs[j].doc : j \in gs} = {ct[j].doc : j \in gt}
    BY <1>2
  <1>8. (\A j, l \in gs : j = l) <=> (\A j, l \in gt : j = l)
    BY <1>2, <1>3
  <1>9. ds = dt
    BY <1>7
  <1> HIDE DEF ds, dt
  <1>10. MergedCandidate(cs, i) = MergedCandidate(ct, k)
    BY <1>1, <1>4, <1>5, <1>8, <1>9
  <1> QED
    BY <1>6, <1>10 DEF cs, ct

(* Every variant of one order is a variant of any other.                   *)
LEMMA OutcomeIncluded ==
    ASSUME Inv, NEW s \in Orders(ActiveHeads), NEW t \in Orders(ActiveHeads)
    PROVE  Outcome(s) \subseteq Outcome(t)
  <1> DEFINE cs == StoredCandidates(s)
             ct == StoredCandidates(t)
             ms == Merged(cs)
             mt == Merged(ct)
             vs == Resolve(MergePlan, cs)
             vt == Resolve(MergePlan, ct)
  <1> SUFFICES ASSUME NEW i \in DOMAIN vs
               PROVE  \E k \in DOMAIN vt : vt[k] = vs[i]
    BY DEF Outcome
  <1>1. /\ SoundCandidates(cs) /\ SoundCandidates(ct) /\ Len(cs) = Len(ct)
        /\ \A j, l \in DOMAIN cs : s[j] = s[l] => j = l
        /\ \A j, l \in DOMAIN ct : t[j] = t[l] => j = l
    BY OrderedCandidates
  <1>2. /\ SoundCandidates(ms) /\ DOMAIN ms = DOMAIN cs
        /\ SoundCandidates(mt) /\ DOMAIN mt = DOMAIN ct
    BY <1>1, ResolveCases
  <1>3. /\ vs = IF Len(cs) <= 1 THEN cs ELSE Collapse(ms)
        /\ vt = IF Len(ct) <= 1 THEN ct ELSE Collapse(mt)
    <2>1. MergePlan.strategy # "mvcc"
      BY DEF MergePlan
    <2> QED
      BY <1>1, <2>1, ResolveCases
  <1>4. /\ \A j \in DOMAIN cs : \E l \in DOMAIN ct : s[j] = t[l] /\ cs[j] = ct[l]
        /\ \A l \in DOMAIN ct : \E j \in DOMAIN cs : s[j] = t[l] /\ cs[j] = ct[l]
    BY SamePlaces
  <1>5. \A j \in DOMAIN cs, l \in DOMAIN ct : s[j] = t[l] => ms[j] = mt[l]
    BY SameMerge
  <1> HIDE DEF vs, vt, ms, mt, cs, ct
  <1>6. CASE Len(cs) <= 1
    BY <1>1, <1>3, <1>4, <1>6
  <1>7. CASE ~(Len(cs) <= 1)
    <2>1. vs = Collapse(ms) /\ vt = Collapse(mt)
      BY <1>1, <1>3, <1>7
    <2>2. /\ i \in DOMAIN ms
          /\ vs[i].value = ms[i].value /\ vs[i] \in Candidate
          /\ vs[i].doc = MergeDocuments({ms[j].doc : j \in Alike(ms, i)})
          /\ vs[i].source = IF Alike(ms, i) = {i} THEN ms[i].source ELSE None
      BY <1>2, <2>1, CollapsedVariant
    <2>3. PICK k \in DOMAIN ct : s[i] = t[k] /\ cs[i] = ct[k]
      BY <1>2, <1>4, <2>2
    <2>4. ms[i] = mt[k]
      BY <1>2, <1>5, <2>2, <2>3
    <2>5. PICK g \in DOMAIN vt : /\ Alike(mt, g) = Alike(mt, k)
                                 /\ k \in Alike(mt, g) /\ g \in Alike(mt, g)
      BY <1>2, <2>1, <2>3, EveryCandidateCollapses
    <2>6. /\ g \in DOMAIN mt
          /\ vt[g].value = mt[g].value /\ vt[g] \in Candidate
          /\ vt[g].doc = MergeDocuments({mt[j].doc : j \in Alike(mt, k)})
          /\ vt[g].source = IF Alike(mt, k) = {g} THEN mt[g].source ELSE None
      BY <1>2, <2>1, <2>5, CollapsedVariant
    <2>7. mt[g].value = mt[k].value
      BY <2>5 DEF Alike
    <2>8. ASSUME NEW j \in Alike(ms, i)
          PROVE  \E l \in Alike(mt, k) : s[j] = t[l] /\ ms[j] = mt[l]
      <3>1. j \in DOMAIN cs /\ ms[j].value = ms[i].value
        BY <1>2 DEF Alike
      <3>2. PICK l \in DOMAIN ct : s[j] = t[l]
        BY <1>4, <3>1
      <3>3. ms[j] = mt[l]
        BY <1>5, <3>1, <3>2
      <3> QED
        BY <1>2, <2>4, <3>1, <3>2, <3>3 DEF Alike
    <2>9. ASSUME NEW l \in Alike(mt, k)
          PROVE  \E j \in Alike(ms, i) : s[j] = t[l] /\ ms[j] = mt[l]
      <3>1. l \in DOMAIN ct /\ mt[l].value = mt[k].value
        BY <1>2 DEF Alike
      <3>2. PICK j \in DOMAIN cs : s[j] = t[l]
        BY <1>4, <3>1
      <3>3. ms[j] = mt[l]
        BY <1>5, <3>1, <3>2
      <3> QED
        BY <1>2, <2>4, <3>1, <3>2, <3>3 DEF Alike
    <2>10. vs[i].doc = vt[g].doc
      <3>1. {ms[j].doc : j \in Alike(ms, i)} = {mt[l].doc : l \in Alike(mt, k)}
        BY <2>8, <2>9
      <3> QED
        BY <2>2, <2>6, <3>1
    <2>11. Alike(ms, i) = {i} <=> Alike(mt, k) = {g}
      <3>1. /\ i \in Alike(ms, i) /\ Alike(ms, i) \subseteq DOMAIN cs
            /\ Alike(mt, k) \subseteq DOMAIN ct
        BY <1>2, <2>2 DEF Alike
      <3>2. ASSUME Alike(ms, i) = {i}, NEW l \in Alike(mt, k) PROVE l = k
        <4>1. t[l] = s[i]
          BY <2>9, <3>2
        <4> QED
          BY <1>1, <2>3, <3>1, <4>1
      <3>3. ASSUME Alike(mt, k) = {g}, NEW j \in Alike(ms, i) PROVE j = i
        <4>1. s[j] = t[g] /\ g = k
          BY <2>5, <2>8, <3>3
        <4> QED
          BY <1>1, <2>3, <3>1, <4>1
      <3> QED
        BY <2>5, <3>1, <3>2, <3>3
    <2>12. Alike(mt, k) = {g} => g = k
      BY <2>5
    <2>13. vs[i].source = vt[g].source
      BY <2>2, <2>4, <2>6, <2>11, <2>12
    <2>14. vs[i] = vt[g]
      BY <2>2, <2>4, <2>6, <2>7, <2>10, <2>13 DEF Candidate
    <2> QED
      BY <2>14
  <1> QED
    BY <1>6, <1>7

(* All orders of the active heads have the same variants.                  *)
LEMMA OrdersAgree == Inv => OrderIsImmaterial
  <1> SUFFICES ASSUME Inv PROVE OrderIsImmaterial
    OBVIOUS
  <1> DEFINE N == Cardinality(ActiveHeads)
             outcomes == {Outcome(s) : s \in Orders(ActiveHeads)}
  <1>1. Orders(ActiveHeads) # {}
    <2>1. ActiveHeads \in SUBSET heads /\ IsFiniteSet(heads)
      BY StoredVersions DEF Inv, ActiveHeads
    <2>2. ExistsBijection(1 .. N, ActiveHeads)
      BY <2>1, FS_Subset, FS_CardinalityType
    <2>3. PICK f : f \in Bijection(1 .. N, ActiveHeads)
      BY <2>2 DEF ExistsBijection
    <2>4. /\ f \in [1 .. N -> ActiveHeads]
          /\ \A i, j \in 1 .. N : f[i] = f[j] => i = j
      BY <2>3 DEF Bijection, Injection, IsInjective
    <2>5. f \in Orders(ActiveHeads)
      BY <2>4 DEF Orders
    <2> QED
      BY <2>5
  <1>2. PICK s \in Orders(ActiveHeads) : TRUE
    BY <1>1
  <1>3. \A t \in Orders(ActiveHeads) : Outcome(t) = Outcome(s)
    BY OutcomeIncluded
  <1>4. outcomes = {Outcome(s)}
    BY <1>2, <1>3
  <1>5. Cardinality(outcomes) = 1
    <2> HIDE DEF outcomes
    <2> QED
      BY <1>4, FS_Singleton
  <1> QED
    BY <1>5 DEF OrderIsImmaterial, ActiveHeads, Outcome, StoredCandidates, MergePlan

(* The order in which the heads of an entity are read and merged           *)
(* (concurrent_heads, merge_candidates) decides nothing.                   *)
THEOREM OrdersYieldSameVariants == Spec => []OrderIsImmaterial
  BY SpecInv, OrdersAgree, PTL
=============================================================================
