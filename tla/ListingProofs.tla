--------------------------- MODULE ListingProofs ----------------------------
(***************************************************************************)
(* Proofs about the lists, for any tables, any limits and buffer sizes,    *)
(* and any number of notes created and deleted during a walk.              *)
(***************************************************************************)
EXTENDS Listing, FiniteSetTheorems, SequenceTheorems, WellFoundedInduction, TLAPS

-----------------------------------------------------------------------------
(***************************************************************************)
(* Ordered lists.  An order is a set of pairs here, so that the lemmas     *)
(* apply to the ids of notes and to keys.                                  *)
(***************************************************************************)
Orders(S, R) ==
    /\ \A x \in S : <<x, x>> \notin R
    /\ \A x, y, z \in S : <<x, y>> \in R /\ <<y, z>> \in R => <<x, z>> \in R
    /\ \A x, y \in S : x = y \/ <<x, y>> \in R \/ <<y, x>> \in R

Earlier(S, R, x) == {y \in S : <<y, x>> \in R}
Place(S, R, x) == Cardinality(Earlier(S, R, x))

\* Who comes earlier has fewer before it.
LEMMA PlaceGrows ==
    ASSUME NEW S, NEW R, IsFiniteSet(S), Orders(S, R)
    PROVE  /\ \A x \in S : Place(S, R, x) \in 0 .. Cardinality(S) - 1
           /\ \A x, y \in S : <<x, y>> \in R <=> Place(S, R, x) < Place(S, R, y)
           /\ \A x, y \in S : Place(S, R, x) = Place(S, R, y) => x = y
<1>0. Cardinality(S) \in Nat
  BY FS_CardinalityType
<1>1. ASSUME NEW x \in S PROVE Place(S, R, x) \in 0 .. Cardinality(S) - 1
  <2>1. Earlier(S, R, x) \in SUBSET S /\ x \notin Earlier(S, R, x)
    BY DEF Earlier, Orders
  <2>2. /\ IsFiniteSet(Earlier(S, R, x)) /\ Cardinality(Earlier(S, R, x)) =< Cardinality(S)
        /\ Cardinality(S) # Cardinality(Earlier(S, R, x))
    BY <2>1, FS_Subset
  <2>3. Cardinality(Earlier(S, R, x)) \in Nat
    BY <2>2, FS_CardinalityType
  <2>4. QED
    BY <1>0, <2>2, <2>3 DEF Place
<1>2. ASSUME NEW x \in S, NEW y \in S, <<x, y>> \in R PROVE Place(S, R, x) < Place(S, R, y)
  <2>1. /\ Earlier(S, R, x) \in SUBSET Earlier(S, R, y)
        /\ x \in Earlier(S, R, y) /\ x \notin Earlier(S, R, x)
    BY <1>2 DEF Earlier, Orders
  <2>2. IsFiniteSet(Earlier(S, R, y))
    BY FS_Subset DEF Earlier
  <2>3. /\ Cardinality(Earlier(S, R, x)) =< Cardinality(Earlier(S, R, y))
        /\ Cardinality(Earlier(S, R, y)) # Cardinality(Earlier(S, R, x))
    BY <2>1, <2>2, FS_Subset
  <2>4. QED
    BY <1>0, <1>1, <2>3 DEF Place
<1>3. QED
  <2>1. \A x, y \in S : x = y \/ <<x, y>> \in R \/ <<y, x>> \in R
    BY DEF Orders
  <2>2. \A x \in S : Place(S, R, x) \in Int
    BY <1>0, <1>1
  <2>3. ASSUME NEW x \in S, NEW y \in S, ~(<<x, y>> \in R) PROVE ~(Place(S, R, x) < Place(S, R, y))
    <3>1. x = y \/ Place(S, R, y) < Place(S, R, x)
      BY <1>2, <2>1, <2>3
    <3>2. QED
      BY <2>2, <3>1
  <2>4. ASSUME NEW x \in S, NEW y \in S, x # y PROVE Place(S, R, x) # Place(S, R, y)
    <3>1. Place(S, R, x) < Place(S, R, y) \/ Place(S, R, y) < Place(S, R, x)
      BY <1>2, <2>1, <2>4
    <3>2. QED
      BY <2>2, <3>1
  <2>5. QED
    BY <1>1, <1>2, <2>3, <2>4

\* Every place is taken.
LEMMA PlaceTaken ==
    ASSUME NEW S, NEW R, IsFiniteSet(S), Orders(S, R), NEW k \in 0 .. Cardinality(S) - 1
    PROVE  \E x \in S : Place(S, R, x) = k
<1> DEFINE n == Cardinality(S)
           f == [x \in S |-> Place(S, R, x)]
<1>1. n \in Nat
  BY FS_CardinalityType
<1>2. f \in [S -> 0 .. n - 1]
  BY PlaceGrows
<1>3. IsInjective(f)
  BY PlaceGrows DEF IsInjective
<1>4. f \in Injection(S, 0 .. n - 1)
  BY <1>2, <1>3 DEF Injection
<1>5. IsFiniteSet(0 .. n - 1) /\ Cardinality(0 .. n - 1) = n
  <2> HIDE DEF n
  <2>0. n - 1 \in Int
    BY <1>1
  <2>1. /\ IsFiniteSet(0 .. n - 1)
        /\ Cardinality(0 .. n - 1) = IF 0 > n - 1 THEN 0 ELSE n - 1 - 0 + 1
    BY <2>0, FS_Interval
  <2>2. QED
    BY <1>1, <2>1
<1>6. f \in Surjection(S, 0 .. n - 1)
  BY <1>4, <1>5, FS_Injection
<1>7. \A t \in 0 .. n - 1 : \E x \in S : f[x] = t
  BY <1>6 DEF Surjection
<1>8. QED
  BY <1>7

\* A list with everything at its place.
Lists(o, S, R) ==
    /\ o \in Seq(S) /\ Len(o) = Cardinality(S)
    /\ \A k \in 1 .. Len(o) : Place(S, R, o[k]) = k - 1

\* Such a list has every element, at its place.
LEMMA ListsAll ==
    ASSUME NEW S, NEW R, IsFiniteSet(S), Orders(S, R), NEW o, Lists(o, S, R), NEW x \in S
    PROVE  Place(S, R, x) + 1 \in 1 .. Len(o) /\ o[Place(S, R, x) + 1] = x
<1>1. Cardinality(S) \in Nat /\ Place(S, R, x) \in 0 .. Cardinality(S) - 1
  BY FS_CardinalityType, PlaceGrows
<1>2. Place(S, R, x) + 1 \in 1 .. Len(o)
  BY <1>1 DEF Lists
<1>3. o[Place(S, R, x) + 1] \in S /\ Place(S, R, o[Place(S, R, x) + 1]) = Place(S, R, x)
  BY <1>1, <1>2 DEF Lists
<1>4. QED
  BY <1>2, <1>3, PlaceGrows

\* ORDER BY id.
Ids(S) == {p \in S \X S : p[1] < p[2]}

\* Ids are ordered, and Ordered puts each at its place.
LEMMA OrderedById ==
    ASSUME NEW S \in SUBSET Nat, IsFiniteSet(S)
    PROVE  Orders(S, Ids(S)) /\ Lists(Ordered(S, <), S, Ids(S))
<1>0. \A x, y \in S : <<x, y>> \in Ids(S) <=> x < y
  BY DEF Ids
<1>1. Orders(S, Ids(S))
  <2>1. \A x \in S : x \in Int
    OBVIOUS
  <2>2. \A x, y, z \in S : x < y /\ y < z => x < z
    BY <2>1
  <2>3. \A x, y \in S : ~(x < x) /\ (x = y \/ x < y \/ y < x)
    BY <2>1
  <2>4. QED
    BY <1>0, <2>2, <2>3 DEF Orders
<1>2. \A x \in S : {y \in S : y < x} = Earlier(S, Ids(S), x)
  BY DEF Earlier, Ids
<1>3. Cardinality(S) \in Nat
  BY FS_CardinalityType
<1>4. ASSUME NEW k \in 1 .. Cardinality(S)
      PROVE  /\ Ordered(S, <)[k] \in S
             /\ Place(S, Ids(S), Ordered(S, <)[k]) = k - 1
  <2>1. k - 1 \in 0 .. Cardinality(S) - 1
    BY <1>3
  <2>2. \E x \in S : Place(S, Ids(S), x) = k - 1
    BY <1>1, <2>1, PlaceTaken
  <2>3. \E x \in S : Cardinality({y \in S : y < x}) = k - 1
    BY <1>2, <2>2 DEF Place
  <2>4. Ordered(S, <)[k] = CHOOSE x \in S : Cardinality({y \in S : y < x}) = k - 1
    BY DEF Ordered
  <2>5. /\ Ordered(S, <)[k] \in S
        /\ Cardinality({y \in S : y < Ordered(S, <)[k]}) = k - 1
    BY <2>3, <2>4, Zenon
  <2>6. QED
    BY <1>2, <2>5 DEF Place
<1> DEFINE ord == Ordered(S, <)
<1>5. ord = [k \in 1 .. Cardinality(S) |-> ord[k]]
  BY DEF Ordered
<1>6. \A k \in 1 .. Cardinality(S) : ord[k] \in S /\ Place(S, Ids(S), ord[k]) = k - 1
  BY <1>4
<1> HIDE DEF ord
<1>7. ord \in [1 .. Cardinality(S) -> S]
  BY <1>5, <1>6
<1>8. ord \in Seq(S) /\ Len(ord) = Cardinality(S)
  BY <1>3, <1>7
<1>9. Lists(ord, S, Ids(S))
  BY <1>6, <1>8 DEF Lists
<1>10. QED
  BY <1>1, <1>9 DEF ord

\* A page: what stands in places o to o + n - 1, and no more.
LEMMA PageIs ==
    ASSUME DOMAIN notes \in SUBSET Nat, IsFiniteSet(DOMAIN notes), NEW n \in Nat, NEW o \in Nat
    PROVE  LET S == DOMAIN notes
               page == Page(n, o)
               At(x) == Place(S, Ids(S), x)
           IN  /\ page \in Seq(S) /\ Len(page) =< n
               /\ \A i \in 1 .. Len(page) : At(page[i]) = o + i - 1
               /\ \A x \in S : o =< At(x) /\ At(x) < o + n => x \in ToSet(page)
               /\ Len(page) < n => \A x \in S : At(x) < o + n
<1> DEFINE S == DOMAIN notes
           c == Cardinality(S)
           ord == Ordered(S, <)
           rest == SubSeq(ord, o + 1, c)
           page == Page(n, o)
           At(x) == Place(S, Ids(S), x)
<1>1. /\ c \in Nat /\ Orders(S, Ids(S)) /\ ord \in Seq(S) /\ Len(ord) = c
      /\ \A k \in 1 .. c : At(ord[k]) = k - 1
  BY FS_CardinalityType, OrderedById DEF Lists
<1>2. ASSUME NEW x \in S PROVE At(x) \in 0 .. c - 1 /\ ord[At(x) + 1] = x
  <2>1. Lists(ord, S, Ids(S))
    BY OrderedById
  <2>2. At(x) \in 0 .. c - 1
    BY <1>1, PlaceGrows
  <2>3. ord[At(x) + 1] = x
    BY <1>1, <2>1, ListsAll
  <2>4. QED
    BY <2>2, <2>3
<1> HIDE DEF S, ord, At, c
<1>3. /\ rest \in Seq(S) /\ Len(rest) = (IF o + 1 =< c THEN c - o ELSE 0)
      /\ \A i \in 1 .. c - o : rest[i] = ord[o + i]
  <2>1. \A i \in o + 1 .. c : ord[i] \in S
    BY <1>1
  <2>2. /\ rest \in Seq(S) /\ Len(rest) = (IF o + 1 =< c THEN c - (o + 1) + 1 ELSE 0)
        /\ \A i \in 1 .. c - (o + 1) + 1 : rest[i] = ord[o + 1 + i - 1]
    BY <1>1, <2>1, SubSeqProperties
  <2>3. QED
    BY <1>1, <2>2
<1> DEFINE m == IF Len(rest) < n THEN Len(rest) ELSE n
<1>4. page = SubSeq(rest, 1, m)
  BY DEF Page, AtMost, S, c, ord
<1> HIDE DEF rest
<1>5. m \in Nat /\ m =< Len(rest)
  BY <1>3
<1>6. page \in Seq(S) /\ Len(page) = m /\ \A i \in 1 .. m : page[i] = rest[i]
  <2> HIDE DEF m, page
  <2>1. \A i \in 1 .. m : rest[i] \in S
    BY <1>3, <1>5
  <2>2. /\ SubSeq(rest, 1, m) \in Seq(S) /\ Len(SubSeq(rest, 1, m)) = (IF 1 =< m THEN m - 1 + 1 ELSE 0)
        /\ \A i \in 1 .. m - 1 + 1 : SubSeq(rest, 1, m)[i] = rest[1 + i - 1]
    BY <1>5, <2>1, SubSeqProperties
  <2>3. QED
    BY <1>4, <1>5, <2>2
<1> HIDE DEF page
<1>7. \A i \in 1 .. Len(page) : At(page[i]) = o + i - 1
  BY <1>1, <1>3, <1>5, <1>6
<1>8. ASSUME NEW x \in S, o =< At(x), At(x) < o + n PROVE x \in ToSet(page)
  <2>0. At(x) \in 0 .. c - 1 /\ ord[At(x) + 1] = x
    BY <1>2
  <2>1. At(x) - o + 1 \in 1 .. m /\ At(x) - o + 1 \in 1 .. c - o
    BY <1>1, <1>3, <1>8, <2>0
  <2>2. page[At(x) - o + 1] = x
    <3>1. page[At(x) - o + 1] = rest[At(x) - o + 1]
      BY <1>6, <2>1
    <3>2. rest[At(x) - o + 1] = ord[o + (At(x) - o + 1)]
      BY <1>3, <2>1
    <3>3. o + (At(x) - o + 1) = At(x) + 1
      BY <1>1, <2>0
    <3>4. QED
      BY <2>0, <3>1, <3>2, <3>3
  <2>3. QED
    BY <1>6, <2>1, <2>2 DEF ToSet
<1>9. ASSUME Len(page) < n, NEW x \in S PROVE At(x) < o + n
  BY <1>1, <1>2, <1>3, <1>6, <1>9
<1>10. QED
  BY <1>3, <1>6, <1>7, <1>8, <1>9 DEF page, S, At

-----------------------------------------------------------------------------
(***************************************************************************)
(* The walk.  A note that was shown, and still exists, stands before the   *)
(* offset: so no page shows it again.  A note that was there all the time  *)
(* and was passed over stands before the offset without having been shown; *)
(* a deletion moves at most one note across the offset.                    *)
(***************************************************************************)
Position(x) == Place(DOMAIN notes, Ids(DOMAIN notes), x)
Passed == {x \in stayed \ ToSet(seen) : Position(x) < offset}

WalkTypes ==
    /\ lastId \in Nat /\ DOMAIN notes \in SUBSET (1 .. lastId) /\ stayed \in SUBSET DOMAIN notes
    /\ limit \in Nat \ {0} /\ offset \in Nat /\ deleted \in Nat
    /\ seen \in Seq(Nat) /\ ToSet(seen) \in SUBSET (1 .. lastId)

Walking ==
    /\ walk = "none" => seen = <<>> /\ offset = 0
    /\ \A x \in DOMAIN notes \cap ToSet(seen) : Position(x) < offset
    /\ walk = "on" => Cardinality(Passed) =< deleted

WalkInv == WalkTypes /\ Walking /\ WalkAddsUp

\* The positions of a table with notes numbered from 1.
LEMMA Positions ==
    ASSUME WalkTypes
    PROVE  /\ IsFiniteSet(DOMAIN notes) /\ DOMAIN notes \in SUBSET Nat
           /\ \A x \in DOMAIN notes : Position(x) \in Nat
           /\ \A x, y \in DOMAIN notes : Position(x) = Position(y) => x = y
<1>1. IsFiniteSet(1 .. lastId)
  BY FS_Interval DEF WalkTypes
<1>2. IsFiniteSet(DOMAIN notes) /\ DOMAIN notes \in SUBSET Nat
  BY <1>1, FS_Subset DEF WalkTypes
<1>3. Orders(DOMAIN notes, Ids(DOMAIN notes)) /\ Cardinality(DOMAIN notes) \in Nat
  BY <1>2, OrderedById, FS_CardinalityType
<1>4. /\ \A x \in DOMAIN notes : Position(x) \in 0 .. Cardinality(DOMAIN notes) - 1
      /\ \A x, y \in DOMAIN notes : Position(x) = Position(y) => x = y
  BY <1>2, <1>3, PlaceGrows DEF Position
<1>5. QED
  BY <1>2, <1>3, <1>4

\* Subsets of the table are finite.
LEMMA Few ==
    ASSUME WalkTypes, NEW T \in SUBSET DOMAIN notes, NEW U \in SUBSET T
    PROVE  /\ IsFiniteSet(T) /\ Cardinality(T) \in Nat
           /\ IsFiniteSet(U) /\ Cardinality(U) \in Nat /\ Cardinality(U) =< Cardinality(T)
<1>1. IsFiniteSet(T)
  BY Positions, FS_Subset
<1>2. IsFiniteSet(U) /\ Cardinality(U) =< Cardinality(T)
  BY <1>1, FS_Subset
<1>3. QED
  BY <1>1, <1>2, FS_CardinalityType

\* A new note has the greatest id, and so the last place.
LEMMA CreateStep ==
    ASSUME WalkInv, NEW size, CreateNote(size)
    PROVE  WalkInv'
<1>1. /\ lastId \in Nat /\ lastId' = lastId + 1 /\ DOMAIN notes' = DOMAIN notes \cup {lastId + 1}
      /\ UNCHANGED <<walk, limit, offset, seen, stayed, deleted>>
  BY DEF CreateNote, walkVars, WalkInv, WalkTypes
<1>2. WalkTypes'
  BY <1>1 DEF WalkInv, WalkTypes
<1>3. ASSUME NEW x \in DOMAIN notes PROVE Position(x)' = Position(x)
  <2>1. x \in 1 .. lastId /\ DOMAIN notes \in SUBSET (1 .. lastId)
    BY DEF WalkInv, WalkTypes
  <2>2. Earlier(DOMAIN notes', Ids(DOMAIN notes'), x) = Earlier(DOMAIN notes, Ids(DOMAIN notes), x)
    BY <1>1, <2>1 DEF Earlier, Ids
  <2>3. QED
    BY <2>2 DEF Position, Place
<1>4. \A x \in DOMAIN notes' \cap ToSet(seen') : x \in DOMAIN notes \cap ToSet(seen)
  BY <1>1 DEF WalkInv, WalkTypes
<1>5. Passed' = Passed
  BY <1>1, <1>3 DEF Passed, WalkInv, WalkTypes
<1>6. Walking'
  BY <1>1, <1>3, <1>4, <1>5 DEF Walking, WalkInv
<1>7. WalkAddsUp'
  BY <1>1 DEF WalkAddsUp, WalkInv
<1>8. QED
  BY <1>2, <1>6, <1>7 DEF WalkInv

\* A deletion moves what stands behind it one place forward.
LEMMA DeleteStep ==
    ASSUME WalkInv, NEW i \in DOMAIN notes, DeleteNote(i)
    PROVE  WalkInv'
<1> DEFINE D == DOMAIN notes
<1>1. /\ DOMAIN notes' = D \ {i} /\ stayed' = stayed \ {i}
      /\ deleted' = IF walk = "on" THEN deleted + 1 ELSE deleted
      /\ UNCHANGED <<walk, limit, offset, seen, lastId>>
  BY DEF DeleteNote, walkVars, Restrict
<1>2. WalkTypes /\ WalkTypes'
  BY <1>1 DEF WalkInv, WalkTypes
<1>3. ASSUME NEW x \in D \ {i} PROVE Position(x)' \in Nat /\ Position(x)' =< Position(x) /\ Position(x) =< Position(x)' + 1
  <2> DEFINE E == Earlier(D, Ids(D), x)
  <2>1. Earlier(DOMAIN notes', Ids(DOMAIN notes'), x) = E \ {i}
    BY <1>1 DEF Earlier, Ids
  <2>2. IsFiniteSet(E) /\ Cardinality(E) \in Nat
    BY <1>2, Few DEF Earlier
  <2> HIDE DEF E
  <2>3. Cardinality(E \ {i}) = IF i \in E THEN Cardinality(E) - 1 ELSE Cardinality(E)
    BY <2>2, FS_RemoveElement
  <2>4. Position(x)' = Cardinality(E \ {i})
    BY <2>1 DEF Position, Place
  <2>5. Position(x) = Cardinality(E)
    BY DEF Position, Place, E
  <2>6. Position(x)' \in Nat
    BY <2>2, <2>4, FS_RemoveElement, FS_CardinalityType
  <2>7. QED
    BY <2>2, <2>3, <2>4, <2>5, <2>6
<1>4. \A x \in D : Position(x) \in Nat
  BY <1>2, Positions
<1>5. Passed \in SUBSET D /\ Passed' \in SUBSET (D \ {i}) /\ offset \in Nat /\ deleted \in Nat
  BY <1>1, <1>2 DEF Passed, WalkTypes
<1>6. ASSUME walk = "on" PROVE Cardinality(Passed') =< Cardinality(Passed) + 1
  <2>1. ASSUME NEW x \in Passed' PROVE x \in Passed \/ Position(x) = offset
    <3>1. x \in D \ {i} /\ x \in stayed \ ToSet(seen) /\ Position(x)' < offset
      BY <1>1, <1>5, <2>1 DEF Passed
    <3>2. Position(x) < offset \/ Position(x) = offset
      BY <1>3, <1>4, <1>5, <3>1
    <3>3. QED
      BY <3>1, <3>2 DEF Passed
  <2>2. /\ IsFiniteSet(Passed) /\ Cardinality(Passed) \in Nat
    BY <1>2, <1>5, Few
  <2>3. CASE \E y \in D : Position(y) = offset
    <3>1. PICK y \in D : Position(y) = offset
      BY <2>3
    <3>2. Passed' \in SUBSET (Passed \cup {y})
      BY <1>2, <1>5, <2>1, <3>1, Positions
    <3>3. /\ IsFiniteSet(Passed \cup {y})
          /\ Cardinality(Passed \cup {y}) = IF y \in Passed THEN Cardinality(Passed) ELSE Cardinality(Passed) + 1
      BY <2>2, FS_AddElement
    <3>4. Cardinality(Passed') =< Cardinality(Passed \cup {y})
      BY <3>2, <3>3, FS_Subset
    <3>5. Cardinality(Passed') \in Nat
      BY <1>2, <1>5, Few
    <3>6. QED
      BY <2>2, <3>3, <3>4, <3>5
  <2>4. CASE ~\E y \in D : Position(y) = offset
    <3>1. Passed' \in SUBSET Passed
      BY <1>5, <2>1, <2>4
    <3>2. Cardinality(Passed') =< Cardinality(Passed) /\ Cardinality(Passed') \in Nat
      BY <1>2, <1>5, <3>1, Few
    <3>3. QED
      BY <2>2, <3>2
  <2>5. QED
    BY <2>3, <2>4
<1>7. Walking'
  <2>1. ASSUME NEW x \in DOMAIN notes' \cap ToSet(seen') PROVE Position(x)' < offset'
    <3>1. x \in D \ {i} /\ x \in ToSet(seen) /\ Position(x) < offset
      BY <1>1, <2>1 DEF Walking, WalkInv
    <3>2. QED
      BY <1>1, <1>3, <1>4, <1>5, <3>1
  <2>2. ASSUME walk' = "on" PROVE Cardinality(Passed') =< deleted'
    <3>1. Cardinality(Passed) =< deleted /\ deleted' = deleted + 1
      BY <1>1, <2>2 DEF Walking, WalkInv
    <3>2. Cardinality(Passed) \in Nat /\ Cardinality(Passed') \in Nat
      BY <1>2, <1>5, Few
    <3>3. QED
      BY <1>1, <1>5, <1>6, <2>2, <3>1, <3>2
  <2>3. QED
    BY <1>1, <2>1, <2>2 DEF Walking, WalkInv
<1>8. WalkAddsUp'
  <2>1. ASSUME walk = "done" PROVE Cardinality(stayed' \ ToSet(seen')) =< deleted'
    <3>1. /\ stayed' \ ToSet(seen') \in SUBSET (stayed \ ToSet(seen)) /\ deleted' = deleted
          /\ stayed \ ToSet(seen) \in SUBSET D /\ Cardinality(stayed \ ToSet(seen)) =< deleted
      BY <1>1, <1>2, <2>1 DEF WalkAddsUp, WalkInv, WalkTypes
    <3>2. /\ Cardinality(stayed' \ ToSet(seen')) =< Cardinality(stayed \ ToSet(seen))
          /\ Cardinality(stayed' \ ToSet(seen')) \in Nat /\ Cardinality(stayed \ ToSet(seen)) \in Nat
      BY <1>2, <3>1, Few
    <3>3. QED
      BY <1>5, <3>1, <3>2
  <2>2. QED
    BY <1>1, <2>1 DEF WalkAddsUp, WalkInv
<1>9. QED
  BY <1>2, <1>7, <1>8 DEF WalkInv

\* What a list contains that is put together from two.
LEMMA JoinedIs ==
    ASSUME NEW S, NEW s \in Seq(S), NEW t \in Seq(S)
    PROVE  /\ ToSet(s \o t) = ToSet(s) \cup ToSet(t)
           /\ IsInjective(s) /\ IsInjective(t) /\ ToSet(s) \cap ToSet(t) = {} => IsInjective(s \o t)
<1> DEFINE u == s \o t
           m == Len(s)
           n == Len(t)
<1>1. /\ m \in Nat /\ n \in Nat /\ DOMAIN s = 1 .. m /\ DOMAIN t = 1 .. n
  OBVIOUS
<1>2. u \in Seq(S) /\ Len(u) = m + n /\ \A i \in 1 .. m + n : u[i] = IF i =< m THEN s[i] ELSE t[i - m]
  BY ConcatProperties
<1>3. DOMAIN u = 1 .. m + n
  BY <1>1, <1>2
<1> HIDE DEF u, m, n
<1>4. ASSUME NEW i \in 1 .. m + n
      PROVE  \/ i \in 1 .. m /\ u[i] = s[i] /\ u[i] \in ToSet(s)
             \/ i - m \in 1 .. n /\ u[i] = t[i - m] /\ u[i] \in ToSet(t)
  <2>1. CASE i =< m
    <3>1. i \in 1 .. m /\ u[i] = s[i]
      BY <1>1, <1>2, <2>1
    <3>2. QED
      BY <1>1, <3>1 DEF ToSet
  <2>2. CASE ~(i =< m)
    <3>1. i - m \in 1 .. n /\ u[i] = t[i - m]
      BY <1>1, <1>2, <2>2
    <3>2. QED
      BY <1>1, <3>1 DEF ToSet
  <2>3. QED
    BY <2>1, <2>2
<1>5. ASSUME NEW i \in 1 .. m PROVE i \in 1 .. m + n /\ u[i] = s[i]
  BY <1>1, <1>2
<1>6. ASSUME NEW i \in 1 .. n PROVE i + m \in 1 .. m + n /\ u[i + m] = t[i]
  <2>1. i + m \in 1 .. m + n /\ ~(i + m =< m) /\ (i + m) - m = i
    BY <1>1
  <2>2. QED
    BY <1>2, <2>1
<1>7. ToSet(u) = ToSet(s) \cup ToSet(t)
  <2>1. ToSet(u) \subseteq ToSet(s) \cup ToSet(t)
    BY <1>3, <1>4 DEF ToSet
  <2>2. ToSet(s) \subseteq ToSet(u)
    BY <1>1, <1>3, <1>5 DEF ToSet
  <2>3. ToSet(t) \subseteq ToSet(u)
    BY <1>1, <1>3, <1>6 DEF ToSet
  <2>4. QED
    BY <2>1, <2>2, <2>3
<1>8. ASSUME IsInjective(s), IsInjective(t), ToSet(s) \cap ToSet(t) = {} PROVE IsInjective(u)
  <2>1. ASSUME NEW i \in 1 .. m + n, NEW j \in 1 .. m + n, u[i] = u[j] PROVE i = j
    <3>1. CASE i \in 1 .. m /\ u[i] = s[i] /\ j \in 1 .. m /\ u[j] = s[j]
      BY <1>1, <1>8, <2>1, <3>1 DEF IsInjective
    <3>2. CASE i - m \in 1 .. n /\ u[i] = t[i - m] /\ j - m \in 1 .. n /\ u[j] = t[j - m]
      <4>1. i - m = j - m
        BY <1>1, <1>8, <2>1, <3>2 DEF IsInjective
      <4>2. QED
        BY <1>1, <4>1
    <3>3. ~(u[i] \in ToSet(s) /\ u[j] \in ToSet(t)) /\ ~(u[i] \in ToSet(t) /\ u[j] \in ToSet(s))
      BY <1>8, <2>1
    <3>4. QED
      BY <1>4, <3>1, <3>2, <3>3
  <2>2. QED
    BY <1>3, <2>1 DEF IsInjective
<1>9. QED
  BY <1>7, <1>8 DEF u

\* A page shows what stands from the offset on, and the offset moves behind it.
LEMMA PageStep ==
    ASSUME WalkInv, WalkPage
    PROVE  WalkInv'
<1> DEFINE D == DOMAIN notes
           page == Page(limit, offset)
<1>1. WalkTypes /\ walk = "on" /\ UNCHANGED <<limit, notes, lastId, stayed, deleted>>
  BY DEF WalkPage, noteVars, WalkInv
<1>2. \A x \in D : Position(x)' = Position(x)
  BY <1>1 DEF Position
<1>3. /\ IsFiniteSet(D) /\ D \in SUBSET Nat
      /\ \A x \in D : Position(x) \in Nat
      /\ \A x, y \in D : Position(x) = Position(y) => x = y
  BY <1>1, Positions
<1>4. limit \in Nat \ {0} /\ offset \in Nat /\ deleted \in Nat /\ seen \in Seq(Nat) /\ lastId \in Nat
  BY <1>1 DEF WalkTypes
<1>5. /\ page \in Seq(D) /\ Len(page) =< limit
      /\ \A k \in 1 .. Len(page) : Position(page[k]) = offset + k - 1
      /\ \A x \in D : offset =< Position(x) /\ Position(x) < offset + limit => x \in ToSet(page)
      /\ Len(page) < limit => \A x \in D : Position(x) < offset + limit
  BY <1>3, <1>4, PageIs DEF Position
<1> HIDE DEF page
<1>6. CASE walk' = "refused" /\ UNCHANGED <<seen, offset>>
  <2>1. Passed' = Passed
    BY <1>1, <1>2, <1>6 DEF Passed, WalkTypes
  <2>2. QED
    BY <1>1, <1>2, <1>6 DEF WalkInv, WalkTypes, Walking, WalkAddsUp
<1>7. CASE /\ seen' = seen \o page /\ offset' = offset + limit
           /\ walk' = IF Len(page) < limit THEN "done" ELSE "on"
  <2>1. page \in Seq(Nat) /\ ToSet(page) \in SUBSET D /\ \A k \in 1 .. Len(page) : page[k] \in D
    BY <1>3, <1>5 DEF ToSet
  <2>2. seen' \in Seq(Nat)
    BY <1>4, <1>7, <2>1, ConcatProperties
  <2>3. ToSet(seen') = ToSet(seen) \cup ToSet(page)
    BY <1>4, <1>7, <2>1, JoinedIs
  <2>4. WalkTypes'
    BY <1>1, <1>4, <1>7, <2>1, <2>2, <2>3 DEF WalkTypes
  <2>5. \A x \in D \cap ToSet(seen) : Position(x) < offset
    BY DEF Walking, WalkInv
  <2>6. \A x \in ToSet(page) : offset =< Position(x) /\ Position(x) < offset + limit
    BY <1>4, <1>5 DEF ToSet
  <2>7. ToSet(page) \cap ToSet(seen) = {}
    BY <1>3, <1>4, <2>1, <2>5, <2>6
  <2>8. IsInjective(seen')
    <3>1. ASSUME NEW j \in 1 .. Len(page), NEW k \in 1 .. Len(page), page[j] = page[k] PROVE j = k
      BY <1>4, <1>5, <2>1, <3>1
    <3>2. DOMAIN page = 1 .. Len(page)
      BY <2>1
    <3>3. IsInjective(page)
      BY <3>1, <3>2 DEF IsInjective
    <3>4. IsInjective(seen)
      BY DEF WalkAddsUp, WalkInv
    <3>5. QED
      BY <1>4, <1>7, <2>1, <2>7, <3>3, <3>4, JoinedIs
  <2>9. ASSUME NEW x \in stayed \ ToSet(seen'), Position(x) < offset + limit PROVE x \in Passed
    <3>1. x \in D /\ x \in stayed \ ToSet(seen) /\ x \notin ToSet(page)
      BY <1>1, <2>3 DEF WalkTypes
    <3>2. Position(x) < offset
      BY <1>3, <1>4, <1>5, <2>9, <3>1
    <3>3. QED
      BY <3>1, <3>2 DEF Passed
  <2>10. Cardinality(Passed) =< deleted /\ Passed \in SUBSET D
    BY <1>1 DEF Walking, WalkInv, Passed, WalkTypes
  <2>11. Passed' \in SUBSET Passed
    <3>1. \A x \in Passed' : x \in stayed \ ToSet(seen') /\ Position(x) < offset + limit
      BY <1>1, <1>2, <1>7 DEF Passed, WalkTypes
    <3>2. QED
      BY <2>9, <3>1
  <2>12. Walking'
    <3>1. \A x \in D \cap ToSet(seen') : Position(x) < offset + limit
      BY <1>3, <1>4, <2>3, <2>5, <2>6
    <3>2. Cardinality(Passed') =< Cardinality(Passed) /\ Cardinality(Passed') \in Nat /\ Cardinality(Passed) \in Nat
      BY <1>1, <2>10, <2>11, Few
    <3>3. QED
      BY <1>1, <1>2, <1>4, <1>7, <2>10, <3>1, <3>2 DEF Walking
  <2>13. ASSUME walk' = "done" PROVE Cardinality(stayed' \ ToSet(seen')) =< deleted'
    <3>1. \A x \in D : Position(x) < offset + limit
      BY <1>5, <1>7, <2>13
    <3>2. stayed \ ToSet(seen') \in SUBSET Passed
      BY <1>1, <2>9, <3>1 DEF WalkTypes
    <3>3. /\ Cardinality(stayed \ ToSet(seen')) =< Cardinality(Passed)
          /\ Cardinality(stayed \ ToSet(seen')) \in Nat /\ Cardinality(Passed) \in Nat
      BY <1>1, <2>10, <3>2, Few
    <3>4. QED
      BY <1>1, <1>4, <2>10, <3>3
  <2>14. QED
    BY <2>4, <2>8, <2>12, <2>13 DEF WalkInv, WalkAddsUp
<1>8. QED
  BY <1>6, <1>7 DEF WalkPage, page

\* The first request of a walk finds nothing passed over.
LEMMA BeginStep ==
    ASSUME WalkInv, WalkBegins
    PROVE  WalkInv'
<1>1. /\ walk = "none" /\ walk' = "on" /\ stayed' = DOMAIN notes /\ deleted' = 0
      /\ UNCHANGED <<limit, offset, seen, notes, lastId>> /\ seen = <<>> /\ offset = 0
  BY DEF WalkBegins, WalkInv, Walking
<1>2. WalkTypes /\ WalkTypes'
  BY <1>1 DEF WalkInv, WalkTypes
<1>3. \A x \in DOMAIN notes : Position(x) \in Nat /\ Position(x)' = Position(x)
  BY <1>1, <1>2, Positions DEF Position
<1>4. Passed' = {}
  BY <1>1, <1>3 DEF Passed
<1>5. Cardinality(Passed') = 0
  BY <1>4, FS_EmptySet
<1>6. DOMAIN notes \cap ToSet(seen) = {}
  BY <1>1 DEF ToSet
<1>7. QED
  BY <1>1, <1>2, <1>5, <1>6 DEF WalkInv, Walking, WalkAddsUp

\* The walk's invariant holds along every behaviour.
LEMMA WalkInvHolds == ListingSpec => []WalkInv
<1>1. ListingInit => WalkInv
  <2> SUFFICES ASSUME ListingInit PROVE WalkInv
    OBVIOUS
  <2>1. DOMAIN notes = {} /\ ToSet(seen) = {} /\ seen = <<>> /\ seen \in Seq(Nat)
    BY DEF ListingInit, ToSet
  <2>2. QED
    BY <2>1, ListAssumption DEF ListingInit, WalkInv, WalkTypes, Walking, WalkAddsUp, IsInjective
<1>2. WalkInv /\ [ListingNext]_listingVars => WalkInv'
  <2> SUFFICES ASSUME WalkInv, [ListingNext]_listingVars PROVE WalkInv'
    OBVIOUS
  <2>1. CASE UNCHANGED <<walkVars, noteVars>>
    <3>1. UNCHANGED <<notes, lastId, stayed, deleted, walk, limit, offset, seen>>
      BY <2>1 DEF walkVars, noteVars
    <3>2. Passed' = Passed /\ \A x : Position(x)' = Position(x)
      BY <3>1 DEF Passed, Position
    <3>3. QED
      BY <3>1, <3>2 DEF WalkInv, WalkTypes, Walking, WalkAddsUp
  <2>2. CASE KvNext \/ UNCHANGED listingVars
    BY <2>1, <2>2 DEF KvNext, ChangeKey, KvList, listingVars
  <2>3. CASE NotesNext
    BY <2>3, CreateStep, DeleteStep, BeginStep, PageStep DEF NotesNext
  <2>4. QED
    BY <2>2, <2>3 DEF ListingNext
<1>3. QED
  BY <1>1, <1>2, PTL DEF ListingSpec

\* Whatever is created and deleted during a walk, no note is shown twice, and a
\* finished walk missed at most as many of the notes that stayed as were deleted.
THEOREM WalkAddsUpHolds == ListingSpec => []WalkAddsUp
BY WalkInvHolds, PTL DEF WalkInv

-----------------------------------------------------------------------------
(***************************************************************************)
(* The order of keys.  Behind its last character a key has the rank 0 for  *)
(* ever; then Before compares at the first place where two keys differ.    *)
(***************************************************************************)
\* No two characters have the same rank.
LEMMA RankIs == \A c, d \in KeyChars : Rank[c] \in 1 .. 5 /\ (Rank[c] = Rank[d] => c = d)
<1>1. Rank["A"] = 1 /\ Rank["B"] = 2 /\ Rank["us"] = 3 /\ Rank["a"] = 4 /\ Rank["b"] = 5
  BY DEF Rank
<1>2. QED
  BY <1>1 DEF KeyChars

RankAt(k, i) == IF i =< Len(k) THEN Rank[k[i]] ELSE 0

\* Ranks are at most 5, and keys with the same ranks are the same.
LEMMA RankAtIs ==
    ASSUME NEW k \in Seq(KeyChars), NEW l \in Seq(KeyChars)
    PROVE  /\ \A i \in Nat \ {0} : /\ RankAt(k, i) \in 0 .. 5
                                   /\ RankAt(k, i) = 0 <=> i > Len(k)
                                   /\ RankAt(k, i) = RankAt(l, i) /\ i =< Len(k) => i =< Len(l) /\ k[i] = l[i]
           /\ (\A i \in Nat \ {0} : RankAt(k, i) = RankAt(l, i)) => k = l
<1>1. /\ Len(k) \in Nat /\ \A i \in 1 .. Len(k) : k[i] \in KeyChars /\ Rank[k[i]] \in 1 .. 5
      /\ Len(l) \in Nat /\ \A i \in 1 .. Len(l) : l[i] \in KeyChars /\ Rank[l[i]] \in 1 .. 5
  BY RankIs
<1>2. \A i \in Nat \ {0} : RankAt(k, i) \in 0 .. 5 /\ (RankAt(k, i) = 0 <=> i > Len(k))
  BY <1>1 DEF RankAt
<1>3. ASSUME NEW i \in Nat \ {0}, RankAt(k, i) = RankAt(l, i), i =< Len(k) PROVE i =< Len(l) /\ k[i] = l[i]
  <2>1. i \in 1 .. Len(k) /\ RankAt(k, i) = Rank[k[i]] /\ Rank[k[i]] # 0
    BY <1>1, <1>3 DEF RankAt
  <2>2. i =< Len(l)
    BY <1>3, <2>1 DEF RankAt
  <2>3. i \in 1 .. Len(l) /\ Rank[l[i]] = Rank[k[i]]
    BY <1>1, <1>3, <2>1, <2>2 DEF RankAt
  <2>4. QED
    BY <1>1, <2>1, <2>2, <2>3, RankIs
<1>4. ASSUME \A i \in Nat \ {0} : RankAt(k, i) = RankAt(l, i) PROVE k = l
  <2>1. \A i \in 1 .. Len(k) : i =< Len(l) /\ k[i] = l[i]
    BY <1>1, <1>3, <1>4
  <2>2. Len(k) = Len(l)
    <3>1. ~(Len(k) < Len(l))
      <4>1. SUFFICES ASSUME Len(k) < Len(l) PROVE FALSE
        OBVIOUS
      <4>2. Len(k) + 1 \in 1 .. Len(l) /\ Len(k) + 1 \in Nat \ {0} /\ ~(Len(k) + 1 =< Len(k))
        BY <1>1, <4>1
      <4>3. RankAt(k, Len(k) + 1) = 0 /\ RankAt(l, Len(k) + 1) = Rank[l[Len(k) + 1]]
        BY <1>1, <4>2 DEF RankAt
      <4>4. QED
        BY <1>1, <1>4, <4>2, <4>3
    <3>2. Len(k) # 0 => Len(k) =< Len(l)
      BY <1>1, <2>1
    <3>3. QED
      BY <1>1, <3>1, <3>2
  <2>3. QED
    BY <1>1, <2>1, <2>2
<1>5. QED
  BY <1>2, <1>3, <1>4

\* IsPrefix, character by character.
LEMMA PrefixIs ==
    ASSUME NEW S, NEW k \in Seq(S), NEW l \in Seq(S)
    PROVE  IsPrefix(k, l) <=> Len(k) =< Len(l) /\ \A i \in 1 .. Len(k) : k[i] = l[i]
<1> DEFINE m == Len(k)
<1>1. m \in Nat /\ Len(l) \in Nat /\ SubSeq(k, 1, m) = k
  BY SubSeqFull
<1>2. ASSUME m =< Len(l)
      PROVE  /\ SubSeq(l, 1, m) \in Seq(S) /\ Len(SubSeq(l, 1, m)) = m
             /\ \A i \in 1 .. m : SubSeq(l, 1, m)[i] = l[i]
  <2>1. \A i \in 1 .. m : l[i] \in S
    BY <1>1, <1>2
  <2> HIDE DEF m
  <2>2. /\ SubSeq(l, 1, m) \in Seq(S)
        /\ Len(SubSeq(l, 1, m)) = IF 1 =< m THEN m - 1 + 1 ELSE 0
        /\ \A i \in 1 .. m - 1 + 1 : SubSeq(l, 1, m)[i] = l[1 + i - 1]
    BY <1>1, <2>1, SubSeqProperties
  <2>3. QED
    BY <1>1, <2>2
<1>3. ASSUME m =< Len(l), \A i \in 1 .. m : k[i] = l[i] PROVE SubSeq(l, 1, m) = k
  BY <1>1, <1>2, <1>3
<1>4. QED
  BY <1>1, <1>2, <1>3 DEF IsPrefix

\* The order compares at the first difference.
LEMMA BeforeIs ==
    ASSUME NEW k \in Seq(KeyChars), NEW l \in Seq(KeyChars)
    PROVE  Before(k, l) <=> \E i \in Nat \ {0} : /\ RankAt(k, i) < RankAt(l, i)
                                                /\ \A j \in 1 .. i - 1 : RankAt(k, j) = RankAt(l, j)
<1>0. /\ Len(k) \in Nat /\ DOMAIN k = 1 .. Len(k) /\ Len(l) \in Nat /\ DOMAIN l = 1 .. Len(l)
  OBVIOUS
<1>1. ASSUME IsStrictPrefix(k, l)
      PROVE  \E i \in Nat \ {0} : /\ RankAt(k, i) < RankAt(l, i)
                                  /\ \A j \in 1 .. i - 1 : RankAt(k, j) = RankAt(l, j)
  <2>1. Len(k) =< Len(l) /\ (\A i \in 1 .. Len(k) : k[i] = l[i]) /\ k # l
    BY <1>1, PrefixIs DEF IsStrictPrefix
  <2>2. Len(k) < Len(l)
    <3>1. Len(k) = Len(l) => k = l
      BY <2>1, SeqEqual
    <3>2. Len(k) =< Len(l) /\ Len(k) # Len(l)
      BY <2>1, <3>1, Zenon
    <3>3. \A a, b \in Nat : a =< b /\ a # b => a < b
      OBVIOUS
    <3>4. QED
      BY <1>0, <3>2, <3>3, Zenon
  <2>3. /\ Len(k) + 1 \in Nat \ {0} /\ RankAt(k, Len(k) + 1) = 0 /\ RankAt(l, Len(k) + 1) \in 0 .. 5
        /\ RankAt(l, Len(k) + 1) # 0
    <3>1. Len(k) + 1 \in Nat \ {0} /\ ~(Len(k) + 1 > Len(l)) /\ Len(k) + 1 > Len(k)
      BY <1>0, <2>2
    <3>2. \A i \in Nat \ {0} : RankAt(l, i) \in 0 .. 5 /\ (RankAt(l, i) = 0 <=> i > Len(l))
      BY RankAtIs
    <3>3. \A i \in Nat \ {0} : RankAt(k, i) = 0 <=> i > Len(k)
      BY RankAtIs
    <3>4. QED
      BY <3>1, <3>2, <3>3
  <2>4. \A j \in 1 .. (Len(k) + 1) - 1 : RankAt(k, j) = RankAt(l, j)
    BY <1>0, <2>1 DEF RankAt
  <2>5. QED
    BY <2>3, <2>4
<1>2. ASSUME NEW i \in DOMAIN k \cap DOMAIN l, Rank[k[i]] < Rank[l[i]], \A j \in 1 .. i - 1 : k[j] = l[j]
      PROVE  /\ i \in Nat \ {0} /\ RankAt(k, i) < RankAt(l, i)
             /\ \A j \in 1 .. i - 1 : RankAt(k, j) = RankAt(l, j)
  BY <1>0, <1>2 DEF RankAt
<1>3. ASSUME NEW i \in Nat \ {0}, RankAt(k, i) < RankAt(l, i), \A j \in 1 .. i - 1 : RankAt(k, j) = RankAt(l, j)
      PROVE  Before(k, l)
  <2>1. RankAt(k, i) \in 0 .. 5 /\ RankAt(l, i) \in 0 .. 5 /\ i =< Len(l)
    BY <1>0, <1>3, RankAtIs
  <2>2. \A j \in 1 .. i - 1 : j =< Len(k) => k[j] = l[j]
    BY <1>0, <1>3, RankAtIs
  <2>3. CASE i =< Len(k)
    <3>1. i \in DOMAIN k \cap DOMAIN l /\ Rank[k[i]] < Rank[l[i]] /\ \A j \in 1 .. i - 1 : k[j] = l[j]
      BY <1>0, <1>3, <2>1, <2>2, <2>3 DEF RankAt
    <3>2. QED
      BY <3>1 DEF Before
  <2>4. CASE ~(i =< Len(k))
    <3>1. Len(k) < Len(l) /\ \A j \in 1 .. Len(k) : k[j] = l[j]
      BY <1>0, <2>1, <2>2, <2>4
    <3>2. IsPrefix(k, l) /\ k # l
      BY <1>0, <3>1, PrefixIs
    <3>3. QED
      BY <3>2 DEF Before, IsStrictPrefix
  <2>5. QED
    BY <2>3, <2>4
<1>4. QED
  BY <1>1, <1>2, <1>3 DEF Before

\* A nonempty set of naturals has a least element.
LEMMA LeastExists ==
    ASSUME NEW T \in SUBSET Nat, T # {}
    PROVE  \E x \in T : \A y \in T : x =< y
<1>1. PICK x \in T : \A y \in T : <<y, x>> \notin OpToRel(<, Nat)
  BY WFMin, NatLessThanWellFounded, Zenon
<1>2. \A y \in T : ~(y < x)
  BY <1>1 DEF OpToRel
<1>3. QED
  BY <1>2

\* So it is a strict total order of keys.
LEMMA KeysOrder ==
    ASSUME NEW k \in Seq(KeyChars), NEW l \in Seq(KeyChars), NEW m \in Seq(KeyChars)
    PROVE  /\ ~Before(k, k)
           /\ Before(k, l) /\ Before(l, m) => Before(k, m)
           /\ k = l \/ Before(k, l) \/ Before(l, k)
<1>1. \A i \in Nat \ {0} : RankAt(k, i) \in 0 .. 5 /\ RankAt(l, i) \in 0 .. 5 /\ RankAt(m, i) \in 0 .. 5
  BY RankAtIs
<1>2. ~Before(k, k)
  BY <1>1, BeforeIs
<1>3. ASSUME Before(k, l), Before(l, m) PROVE Before(k, m)
  <2>1. PICK i \in Nat \ {0} : RankAt(k, i) < RankAt(l, i) /\ \A j \in 1 .. i - 1 : RankAt(k, j) = RankAt(l, j)
    BY <1>3, BeforeIs
  <2>2. PICK h \in Nat \ {0} : RankAt(l, h) < RankAt(m, h) /\ \A j \in 1 .. h - 1 : RankAt(l, j) = RankAt(m, j)
    BY <1>3, BeforeIs
  <2>3. CASE i =< h
    <3>1. RankAt(k, i) < RankAt(m, i)
      <4>1. RankAt(l, i) =< RankAt(m, i)
        BY <1>1, <2>2, <2>3
      <4>2. QED
        BY <1>1, <2>1, <4>1
    <3>2. \A j \in 1 .. i - 1 : RankAt(k, j) = RankAt(m, j)
      BY <2>1, <2>2, <2>3
    <3>3. QED
      BY <3>1, <3>2, BeforeIs
  <2>4. CASE h < i
    <3>1. h \in 1 .. i - 1 /\ RankAt(k, h) = RankAt(l, h)
      BY <2>1, <2>4
    <3>2. RankAt(k, h) < RankAt(m, h) /\ \A j \in 1 .. h - 1 : RankAt(k, j) = RankAt(m, j)
      BY <2>1, <2>2, <2>4, <3>1
    <3>3. QED
      BY <3>2, BeforeIs
  <2>5. QED
    BY <2>3, <2>4
<1>4. ASSUME k # l PROVE Before(k, l) \/ Before(l, k)
  <2> DEFINE T == {i \in Nat \ {0} : RankAt(k, i) # RankAt(l, i)}
  <2>1. T # {}
    <3>1. (\A i \in Nat \ {0} : RankAt(k, i) = RankAt(l, i)) => k = l
      BY RankAtIs
    <3>2. ~(\A i \in Nat \ {0} : RankAt(k, i) = RankAt(l, i))
      BY <1>4, <3>1, Zenon
    <3>3. QED
      BY <3>2
  <2>2. T \in SUBSET Nat
    OBVIOUS
  <2>3. PICK i \in T : \A j \in T : i =< j
    BY <2>1, <2>2, LeastExists
  <2>4. \A j \in 1 .. i - 1 : RankAt(k, j) = RankAt(l, j)
    BY <2>3
  <2>5. RankAt(k, i) < RankAt(l, i) \/ RankAt(l, i) < RankAt(k, i)
    BY <1>1, <2>3
  <2>6. QED
    BY <2>3, <2>4, <2>5, BeforeIs
<1>5. QED
  BY <1>2, <1>3, <1>4

\* ORDER BY key.
Sorted(S) == {p \in S \X S : Before(p[1], p[2])}

\* Keys are ordered, and Ordered puts each at its place.
LEMMA OrderedByKey ==
    ASSUME NEW S \in SUBSET Seq(KeyChars), IsFiniteSet(S)
    PROVE  Orders(S, Sorted(S)) /\ Lists(Ordered(S, Before), S, Sorted(S))
<1>0. \A x, y \in S : <<x, y>> \in Sorted(S) <=> Before(x, y)
  BY DEF Sorted
<1>1. Orders(S, Sorted(S))
  <2>1. \A x \in S : x \in Seq(KeyChars)
    OBVIOUS
  <2>2. \A x, y, z \in S : Before(x, y) /\ Before(y, z) => Before(x, z)
    BY <2>1, KeysOrder
  <2>3. \A x, y \in S : ~Before(x, x) /\ (x = y \/ Before(x, y) \/ Before(y, x))
    BY <2>1, KeysOrder
  <2>4. QED
    BY <1>0, <2>2, <2>3, Zenon DEF Orders
<1>2. \A x \in S : {y \in S : Before(y, x)} = Earlier(S, Sorted(S), x)
  BY <1>0 DEF Earlier
<1>3. Cardinality(S) \in Nat
  BY FS_CardinalityType
<1> DEFINE ord == Ordered(S, Before)
           At(k) == CHOOSE x \in S : Cardinality({y \in S : Before(y, x)}) = k - 1
<1>4. ASSUME NEW k \in 1 .. Cardinality(S)
      PROVE  At(k) \in S /\ Place(S, Sorted(S), At(k)) = k - 1
  <2>1. k - 1 \in 0 .. Cardinality(S) - 1
    BY <1>3
  <2>2. \E x \in S : Place(S, Sorted(S), x) = k - 1
    BY <1>1, <2>1, PlaceTaken
  <2>3. \E x \in S : Cardinality({y \in S : Before(y, x)}) = k - 1
    BY <1>2, <2>2 DEF Place
  <2>4. At(k) \in S /\ Cardinality({y \in S : Before(y, At(k))}) = k - 1
    BY <2>3, Zenon
  <2>5. QED
    BY <1>2, <2>4 DEF Place
<1>5. ord = [k \in 1 .. Cardinality(S) |-> At(k)]
  BY Zenon DEF Ordered
<1> HIDE DEF ord, At
<1>6. ord \in [1 .. Cardinality(S) -> S] /\ \A k \in 1 .. Cardinality(S) : ord[k] = At(k)
  BY <1>4, <1>5
<1>7. ord \in Seq(S) /\ Len(ord) = Cardinality(S)
  BY <1>3, <1>6
<1>8. Lists(ord, S, Sorted(S))
  BY <1>4, <1>6, <1>7 DEF Lists
<1>9. QED
  BY <1>1, <1>8 DEF ord

-----------------------------------------------------------------------------
(* Queries, LIKE, and the size of an answer *)

\* A text in which one character has been put for another.
LEMMA Replaced ==
    ASSUME NEW C, NEW t \in Seq(C), NEW a, NEW b \in C
    PROVE  [i \in DOMAIN t |-> IF t[i] = a THEN b ELSE t[i]] \in Seq(C)
<1> DEFINE f == [i \in DOMAIN t |-> IF t[i] = a THEN b ELSE t[i]]
<1>1. DOMAIN t = 1 .. Len(t) /\ Len(t) \in Nat
  OBVIOUS
<1>2. DOMAIN f = DOMAIN t /\ f = [i \in DOMAIN f |-> f[i]] /\ \A i \in DOMAIN f : f[i] \in C
  OBVIOUS
<1> HIDE DEF f
<1>3. f \in [1 .. Len(t) -> C]
  BY <1>1, <1>2
<1>4. QED
  BY <1>1, <1>3 DEF f

\* A text with one character behind it.
LEMMA Appended ==
    ASSUME NEW C, NEW s \in Seq(C), NEW c \in C
    PROVE  /\ s \o <<c>> \in Seq(C) /\ Len(s \o <<c>>) = Len(s) + 1 /\ (s \o <<c>>)[Len(s) + 1] = c
           /\ \A i \in 1 .. Len(s) : (s \o <<c>>)[i] = s[i]
OBVIOUS

\* The first parameter of a name is one of the query's.
LEMMA QueryIs ==
    ASSUME NEW query \in Queries
    PROVE  HttpQueryGet(query, "prefix").text \in Seq(QueryChars) /\ ParseLimit(query) \in 0 .. MaxList
<1> DEFINE Params == [name : {"prefix", "limit"}, text : Seq(QueryChars), num : Int]
<1>0. query \in Seq(Params) /\ \A p \in Params : p.text \in Seq(QueryChars)
  BY QueriesAssumption
<1> HIDE DEF Params
<1>1. ASSUME NEW name PROVE HttpQueryGet(query, name).text \in Seq(QueryChars)
  <2> DEFINE hits == {i \in DOMAIN query : query[i].name = name}
             first == CHOOSE i \in hits : \A j \in hits : i =< j
             q == query[first]
             plain == [i \in DOMAIN q.text |-> IF q.text[i] = "+" THEN " " ELSE q.text[i]]
  <2>1. CASE hits = {}
    <3>1. HttpQueryGet(query, name) = [found |-> FALSE, text |-> <<>>, num |-> 0]
      BY <2>1 DEF HttpQueryGet
    <3>2. QED
      BY <3>1
  <2>2. CASE hits # {}
    <3>1. hits \in SUBSET Nat /\ hits \subseteq DOMAIN query
      BY <1>0
    <3>2. \E i \in hits : \A j \in hits : i =< j
      BY <2>2, <3>1, LeastExists
    <3>3. first \in hits
      BY <3>2, Zenon
    <3> HIDE DEF first
    <3>4. first \in DOMAIN query
      BY <3>1, <3>3
    <3>5. q \in Params
      BY <1>0, <3>4
    <3>6. HttpQueryGet(query, name) = [found |-> TRUE, num |-> q.num, text |-> plain]
      BY <2>2, Zenon DEF HttpQueryGet, first
    <3> HIDE DEF q
    <3>7. q.text \in Seq(QueryChars) /\ " " \in QueryChars
      BY <1>0, <3>5 DEF QueryChars
    <3>8. plain \in Seq(QueryChars)
      BY <3>7, Replaced
    <3> HIDE DEF plain
    <3>9. QED
      BY <3>6, <3>8
  <2>3. QED
    BY <2>1, <2>2
<1>2. ParseLimit(query) \in 0 .. MaxList
  <2>1. MaxList \in Nat /\ DefaultLimit \in 1 .. MaxList
    BY ListAssumption
  <2> DEFINE l == HttpQueryGet(query, "limit")
  <2>2. ParseLimit(query) = IF ~l.found THEN DefaultLimit ELSE IF l.num \in 1 .. MaxList THEN l.num ELSE 0
    BY DEF ParseLimit
  <2> HIDE DEF l
  <2>3. QED
    BY <2>1, <2>2
<1>3. QED
  BY <1>1, <1>2

\* What the pattern of a prefix matches, as long as its buffer takes it.
LEMMA LikeIs ==
    ASSUME NEW prefix \in Seq(QueryChars), Len(prefix) =< MaxKey, NEW k \in Seq(KeyChars)
    PROVE  Like(Pattern(prefix), k) <=>
               /\ Len(k) >= Len(prefix)
               /\ \A i \in 1 .. Len(prefix) : prefix[i] = "us" \/ Lower(prefix[i]) = Lower(k[i])
<1> DEFINE n == Len(prefix)
           pattern == prefix \o <<"%">>
<1>1. MaxKey \in Nat /\ n \in Nat /\ Len(k) \in Nat
  BY ListAssumption
<1>2. /\ pattern \in Seq(QueryChars) /\ Len(pattern) = n + 1 /\ pattern[n + 1] = "%"
      /\ \A i \in 1 .. n : pattern[i] = prefix[i]
  <2>1. "%" \in QueryChars
    BY DEF QueryChars
  <2>2. QED
    BY <2>1, Appended
<1> HIDE DEF pattern, n
<1>3. Pattern(prefix) = pattern
  <2>1. Pattern(prefix) = SubSeq(pattern, 1, IF Len(pattern) < MaxKey + 1 THEN Len(pattern) ELSE MaxKey + 1)
    BY DEF Pattern, AtMost, pattern
  <2>2. (IF Len(pattern) < MaxKey + 1 THEN Len(pattern) ELSE MaxKey + 1) = Len(pattern)
    BY <1>1, <1>2 DEF n
  <2>3. SubSeq(pattern, 1, Len(pattern)) = pattern
    BY <1>2, SubSeqFull
  <2>4. QED
    BY <2>1, <2>2, <2>3
<1>4. pattern # <<>> /\ Last(pattern) = "%"
  BY <1>1, <1>2 DEF Last
<1>5. Front(pattern) = prefix
  <2>1. \A i \in 1 .. n : pattern[i] \in QueryChars
    BY <1>1, <1>2
  <2>2. /\ SubSeq(pattern, 1, n) \in Seq(QueryChars) /\ Len(SubSeq(pattern, 1, n)) = (IF 1 =< n THEN n - 1 + 1 ELSE 0)
        /\ \A i \in 1 .. n - 1 + 1 : SubSeq(pattern, 1, n)[i] = pattern[1 + i - 1]
    BY <1>1, <2>1, SubSeqProperties
  <2>3. Len(SubSeq(pattern, 1, n)) = n /\ \A i \in 1 .. n : SubSeq(pattern, 1, n)[i] = prefix[i]
    BY <1>1, <1>2, <2>2
  <2>4. SubSeq(pattern, 1, n) = prefix
    BY <2>2, <2>3, SeqEqual DEF n
  <2>5. Len(pattern) - 1 = n
    BY <1>1, <1>2
  <2>6. QED
    BY <2>4, <2>5 DEF Front
<1>6. Like(pattern, k) <=> /\ Len(k) >= Len(prefix)
                           /\ \A i \in DOMAIN prefix : prefix[i] = "us" \/ Lower(prefix[i]) = Lower(k[i])
  BY <1>4, <1>5, Zenon DEF Like
<1>7. DOMAIN prefix = 1 .. Len(prefix)
  OBVIOUS
<1>8. QED
  BY <1>3, <1>6, <1>7, Zenon

\* The rows of a list: matching keys, in order, the first n of them.
LEMMA RowsAre ==
    ASSUME keys \in SUBSET Seq(KeyChars), IsFiniteSet(keys), NEW prefix, NEW n \in Nat
    PROVE  LET M == {k \in keys : Like(Pattern(prefix), k)}
               rows == Rows(prefix, n)
           IN  /\ rows \in Seq(M)
               /\ \A k \in M \ ToSet(rows) : Len(rows) = n /\ \A r \in ToSet(rows) : Before(r, k)
<1> DEFINE M == {k \in keys : Like(Pattern(prefix), k)}
           rows == Rows(prefix, n)
           ord == Ordered(M, Before)
           c == Len(ord)
           m == IF c < n THEN c ELSE n
           At(x) == Place(M, Sorted(M), x)
<1>1. M \in SUBSET Seq(KeyChars) /\ IsFiniteSet(M)
  BY FS_Subset
<1>2. rows = SubSeq(ord, 1, m)
  BY DEF Rows, AtMost
<1> HIDE DEF M, rows
<1>3. Orders(M, Sorted(M)) /\ Lists(ord, M, Sorted(M))
  BY <1>1, OrderedByKey
<1> HIDE DEF ord
<1>4. /\ ord \in Seq(M) /\ c \in Nat /\ m \in Nat /\ m =< c /\ m =< n
      /\ \A i \in 1 .. c : At(ord[i]) = i - 1
  BY <1>3 DEF Lists
<1>5. ASSUME NEW k \in M PROVE At(k) + 1 \in 1 .. c /\ ord[At(k) + 1] = k /\ At(k) \in Nat
  <2>1. At(k) + 1 \in 1 .. c /\ ord[At(k) + 1] = k
    BY <1>1, <1>3, ListsAll
  <2>2. At(k) \in 0 .. Cardinality(M) - 1 /\ Cardinality(M) \in Nat
    BY <1>1, <1>3, PlaceGrows, FS_CardinalityType
  <2>3. QED
    BY <2>1, <2>2
<1>6. rows \in Seq(M) /\ Len(rows) = m /\ \A i \in 1 .. m : rows[i] = ord[i]
  <2> HIDE DEF m, c
  <2>1. \A i \in 1 .. m : ord[i] \in M
    BY <1>4 DEF c
  <2>2. /\ SubSeq(ord, 1, m) \in Seq(M) /\ Len(SubSeq(ord, 1, m)) = (IF 1 =< m THEN m - 1 + 1 ELSE 0)
        /\ \A i \in 1 .. m - 1 + 1 : SubSeq(ord, 1, m)[i] = ord[1 + i - 1]
    BY <1>4, <2>1, SubSeqProperties
  <2>3. QED
    BY <1>2, <1>4, <2>2
<1>7. ASSUME NEW k \in M \ ToSet(rows) PROVE m = n /\ m =< At(k)
  <2>1. At(k) + 1 \in 1 .. c /\ ord[At(k) + 1] = k /\ At(k) \in Nat
    BY <1>5
  <2>2. ~(At(k) + 1 \in 1 .. m)
    BY <1>6, <2>1 DEF ToSet
  <2>3. QED
    BY <1>4, <2>1, <2>2
<1>8. ASSUME NEW k \in M \ ToSet(rows), NEW r \in ToSet(rows) PROVE Before(r, k)
  <2>1. PICK i \in 1 .. m : r = rows[i]
    BY <1>6 DEF ToSet
  <2>2. r \in M /\ At(r) = i - 1
    BY <1>4, <1>6, <2>1
  <2> HIDE DEF m, c, At
  <2>3. At(r) < At(k)
    <3>1. m \in Nat /\ m =< At(k) /\ At(k) \in Nat
      BY <1>4, <1>5, <1>7
    <3>2. QED
      BY <2>1, <2>2, <3>1
  <2>4. <<r, k>> \in Sorted(M)
    BY <1>1, <1>3, <2>2, <2>3, PlaceGrows DEF At
  <2>5. QED
    BY <2>4 DEF Sorted
<1>9. QED
  BY <1>6, <1>7, <1>8 DEF M, rows

\* Nothing adds up to 0.
LEMMA SumOfNone == ASSUME NEW s, DOMAIN s = {} PROVE FoldLeft(+, 0, s) = 0
<1> DEFINE Step(it) == [t \in SUBSET (DOMAIN s) |-> IF t = {} THEN 0 ELSE it[t \ {Max(t)}] + s[Max(t)]]
           sum == CHOOSE it : it = Step(it)
           some == [t \in {{}} |-> 0]
<1>1. FoldLeft(+, 0, s) = sum[DOMAIN s]
  BY Zenon DEF FoldLeft, MapThenFoldSet
<1>2. some = Step(some)
  OBVIOUS
<1>3. sum = Step(sum)
  <2> HIDE DEF Step, some
  <2>1. QED BY <1>2
<1>4. Step(sum)[{}] = 0
  <2> HIDE DEF sum
  <2> QED OBVIOUS
<1> HIDE DEF sum, Step
<1> QED BY <1>1, <1>3, <1>4

\* One number adds up to itself.
LEMMA SumOfOne == ASSUME NEW s, DOMAIN s = {1}, s[1] \in Nat PROVE FoldLeft(+, 0, s) = s[1]
<1> DEFINE Step(it) == [t \in SUBSET (DOMAIN s) |-> IF t = {} THEN 0 ELSE it[t \ {Max(t)}] + s[Max(t)]]
           sum == CHOOSE it : it = Step(it)
           some == [t \in {{}, {1}} |-> IF t = {} THEN 0 ELSE s[1]]
<1>0. Max({1}) = 1
  <2>1. \E x \in {1} : \A y \in {1} : x >= y
    OBVIOUS
  <2>2. (CHOOSE x \in {1} : \A y \in {1} : x >= y) \in {1}
    BY <2>1, Zenon
  <2>3. QED BY <2>2 DEF Max
<1>a. SUBSET (DOMAIN s) = {{}, {1}}
  BY Zenon
<1>1. FoldLeft(+, 0, s) = sum[DOMAIN s]
  BY Zenon DEF FoldLeft, MapThenFoldSet
<1>2. some = Step(some)
  <2>1. some[{}] = 0 OBVIOUS
  <2>2. {1} \ {1} = {} OBVIOUS
  <2>3. \A t \in {{}, {1}} : (IF t = {} THEN 0 ELSE some[t \ {Max(t)}] + s[Max(t)]) = (IF t = {} THEN 0 ELSE s[1])
    <3> HIDE DEF some
    <3> QED
    BY <1>0, <2>1, <2>2
  <2>4. Step(some) = [t \in {{}, {1}} |-> IF t = {} THEN 0 ELSE some[t \ {Max(t)}] + s[Max(t)]]
    BY <1>a, Zenon
  <2> QED BY <2>3, <2>4
<1>3. sum = Step(sum)
  <2> HIDE DEF Step, some
  <2>1. QED BY <1>2
<1>4. sum[{}] = 0
  <2>1. Step(sum)[{}] = 0
    <3> HIDE DEF sum
    <3> QED BY <1>a
  <2> HIDE DEF sum, Step
  <2> QED BY <1>3, <2>1
<1>5. sum[{1}] = s[1]
  <2>1. Step(sum)[{1}] = sum[{1} \ {Max({1})}] + s[Max({1})]
    <3> HIDE DEF sum
    <3> QED BY <1>a
  <2>2. {1} \ {1} = {} OBVIOUS
  <2> HIDE DEF sum, Step
  <2>3. sum[{1}] = 0 + s[1]
    BY <1>0, <1>3, <1>4, <2>1, <2>2
  <2> QED BY <2>3
<1> HIDE DEF sum, Step
<1> QED BY <1>1, <1>5

\* A list of no row or of one that can be written fits its answer.
LEMMA StatusIs ==
    ASSUME NEW rows \in Seq(Keys), Len(rows) =< 1, \A i \in DOMAIN rows : RowSize[rows[i]] # 0
    PROVE  KvStatus(rows) = 200
<1> DEFINE sizes == SizesOf(rows)
           Total(s) == FoldLeft(+, 0, s)
           bad == {i \in DOMAIN sizes : sizes[i] = 0 \/ Total(SubSeq(sizes, 1, i)) > Room}
<1>1. Room \in Nat /\ Wrap \in 0 .. Room /\ RowSize \in [Keys -> 0 .. Room - Wrap]
  BY ListAssumption
<1>2. DOMAIN sizes = DOMAIN rows /\ \A i \in DOMAIN rows : sizes[i] \in 1 .. Room - Wrap
  <2>1. \A i \in DOMAIN rows : rows[i] \in Keys
    OBVIOUS
  <2>2. \A i \in DOMAIN rows : RowSize[rows[i]] \in 1 .. Room - Wrap
    BY <1>1, <2>1
  <2>3. QED
    BY <2>2 DEF SizesOf
<1>3. DOMAIN rows = {} \/ DOMAIN rows = {1}
  <2>1. DOMAIN rows = 1 .. Len(rows) /\ Len(rows) \in Nat
    OBVIOUS
  <2>2. QED
    BY <2>1
<1> HIDE DEF sizes
<1>4. bad = {} => ListStatus(sizes) = 200
  BY Zenon DEF ListStatus
<1>5. ListStatus(sizes) = 200 /\ ~(Total(sizes) > Room - Wrap) => KvStatus(rows) = 200
  BY Zenon DEF KvStatus, sizes
<1> HIDE DEF Total
<1>6. /\ Total(sizes) \in 0 .. Room - Wrap
      /\ \A i \in DOMAIN sizes : Total(SubSeq(sizes, 1, i)) \in 0 .. Room
  <2>1. CASE DOMAIN rows = {}
    <3>1. Total(sizes) = 0
      BY <1>2, <2>1, SumOfNone, Zenon DEF Total
    <3>2. QED
      BY <1>1, <1>2, <2>1, <3>1
  <2>2. CASE DOMAIN rows = {1}
    <3>1. sizes[1] \in 1 .. Room - Wrap /\ DOMAIN sizes = {1}
      BY <1>2, <2>2
    <3>2. Total(sizes) = sizes[1]
      <4>1. sizes[1] \in Nat
        BY <1>1, <3>1
      <4>2. QED
        BY <3>1, <4>1, SumOfOne, Zenon DEF Total
    <3>3. SubSeq(sizes, 1, 1) = sizes
      <4>1. sizes = [i \in {1} |-> sizes[i]]
        BY <3>1 DEF sizes, SizesOf
      <4>2. SubSeq(sizes, 1, 1) = [i \in {1} |-> sizes[1 + i - 1]]
        OBVIOUS
      <4>3. QED
        BY <4>1, <4>2
    <3>4. \A i \in DOMAIN sizes : SubSeq(sizes, 1, i) = sizes
      BY <3>1, <3>3, Zenon
    <3>5. Total(sizes) \in 0 .. Room - Wrap /\ Total(sizes) \in 0 .. Room
      BY <1>1, <3>1, <3>2
    <3>6. QED
      BY <3>4, <3>5, Zenon
  <2>3. QED
    BY <1>3, <2>1, <2>2
<1>7. bad = {}
  <2>1. ASSUME NEW i \in DOMAIN sizes PROVE sizes[i] # 0 /\ ~(Total(SubSeq(sizes, 1, i)) > Room)
    BY <1>1, <1>2, <1>6
  <2>2. QED
    BY <2>1
<1>8. ~(Total(sizes) > Room - Wrap)
  BY <1>1, <1>6
<1>9. QED
  BY <1>4, <1>5, <1>7, <1>8

-----------------------------------------------------------------------------
(* The keys *)

\* What handle_kv_list answers.
KvRows(query) == Rows(HttpQueryGet(query, "prefix").text, ParseLimit(query))
KvAnswers(query) == IF Accepted(query) THEN KvStatus(KvRows(query)) ELSE 400

\* The answer that is looked at is the one the keys of now would give.
KvInv ==
    /\ keys \in SUBSET Keys /\ IsFiniteSet(keys)
    /\ \/ listed = NoList
       \/ \E query \in Queries :
              listed = [query |-> query, status |-> KvAnswers(query), keys |-> keys,
                        rows |-> IF KvAnswers(query) = 200 THEN KvRows(query) ELSE <<>>]

\* KvInv holds at the start.
LEMMA KvInvInit == ListingInit => KvInv
BY FS_EmptySet DEF ListingInit, KvInv

\* KvInv is kept by every step: a change of the keys drops the answer.
LEMMA KvInvNext == KvInv /\ [ListingNext]_listingVars => KvInv'
<1> SUFFICES ASSUME KvInv, [ListingNext]_listingVars
             PROVE  KvInv'
  OBVIOUS
<1>1. ASSUME NEW k \in Keys, ChangeKey(k) PROVE KvInv'
  <2>1. listed' = NoList /\ (keys' = keys \cup {k} \/ keys' = keys \ {k})
    BY <1>1 DEF ChangeKey
  <2>2. keys' \in SUBSET Keys
    BY <2>1 DEF KvInv
  <2>3. IsFiniteSet(keys')
    BY <2>1, FS_AddElement, FS_RemoveElement DEF KvInv
  <2>4. QED
    BY <2>1, <2>2, <2>3 DEF KvInv, NoList
<1>2. ASSUME NEW query \in Queries, KvList(query) PROVE KvInv'
  <2>1. keys' = keys
    BY <1>2 DEF KvList
  <2>2. listed' = [query |-> query, status |-> KvAnswers(query), keys |-> keys,
                   rows |-> IF KvAnswers(query) = 200 THEN KvRows(query) ELSE <<>>]
    BY <1>2, Zenon DEF KvList, KvAnswers, KvRows
  <2>3. KvAnswers(query)' = KvAnswers(query) /\ KvRows(query)' = KvRows(query)
    BY <2>1 DEF KvAnswers, KvRows, Rows
  <2>4. listed' = [query |-> query, status |-> KvAnswers(query)', keys |-> keys',
                   rows |-> IF KvAnswers(query)' = 200 THEN KvRows(query)' ELSE <<>>]
    BY <2>1, <2>2, <2>3, Zenon
  <2>5. keys' \in SUBSET Keys /\ IsFiniteSet(keys')
    BY <2>1 DEF KvInv
  <2>6. QED
    BY <2>4, <2>5, Zenon DEF KvInv
<1>3. ASSUME UNCHANGED kvVars PROVE KvInv'
  <2>1. keys' = keys /\ listed' = listed
    BY <1>3 DEF kvVars
  <2>2. \A query : KvAnswers(query)' = KvAnswers(query) /\ KvRows(query)' = KvRows(query)
    BY <2>1 DEF KvAnswers, KvRows, Rows
  <2>3. keys' \in SUBSET Keys /\ IsFiniteSet(keys')
    BY <2>1 DEF KvInv
  <2>4. CASE listed = NoList
    BY <2>1, <2>3, <2>4 DEF KvInv, NoList
  <2>5. CASE listed # NoList
    <3>1. PICK query \in Queries :
              listed = [query |-> query, status |-> KvAnswers(query), keys |-> keys,
                        rows |-> IF KvAnswers(query) = 200 THEN KvRows(query) ELSE <<>>]
      BY <2>5, Zenon DEF KvInv
    <3>2. listed' = [query |-> query, status |-> KvAnswers(query)', keys |-> keys',
                     rows |-> IF KvAnswers(query)' = 200 THEN KvRows(query)' ELSE <<>>]
      BY <2>1, <2>2, <3>1, Zenon
    <3>3. QED
      BY <2>3, <3>2, Zenon DEF KvInv
  <2>6. QED
    BY <2>4, <2>5
<1>4. ASSUME NotesNext PROVE UNCHANGED kvVars
  BY <1>4 DEF NotesNext, CreateNote, DeleteNote, WalkBegins, WalkPage
<1>5. ASSUME UNCHANGED listingVars PROVE UNCHANGED kvVars
  BY <1>5 DEF listingVars
<1>6. QED
  BY <1>1, <1>2, <1>3, <1>4, <1>5 DEF ListingNext, KvNext

\* KvInv says what PrefixListing asks of every answer.
LEMMA KvInvListing == KvInv => PrefixListing
<1> SUFFICES ASSUME KvInv
             PROVE  PrefixListing
  OBVIOUS
<1>1. CASE listed = NoList
  <2>1. listed.status = 0
    BY <1>1 DEF NoList
  <2>2. QED
    BY <2>1 DEF PrefixListing
<1>2. CASE listed # NoList
  <2>1. PICK query \in Queries :
            listed = [query |-> query, status |-> KvAnswers(query), keys |-> keys,
                      rows |-> IF KvAnswers(query) = 200 THEN KvRows(query) ELSE <<>>]
    BY <1>2, Zenon DEF KvInv
  <2> DEFINE prefix == HttpQueryGet(query, "prefix").text
             n == ParseLimit(query)
             M == {k \in keys : Like(Pattern(prefix), k)}
             page == Rows(prefix, n)
             begins == {k \in keys : IsPrefix(prefix, k)}
  <2>2. /\ listed.query = query /\ listed.status = KvAnswers(query) /\ listed.keys = keys
        /\ listed.status = 200 => listed.rows = page
    BY <2>1 DEF KvRows
  <2>3. prefix \in Seq(QueryChars) /\ n \in Nat
    BY QueryIs, ListAssumption
  <2>4. /\ keys \in SUBSET Seq(KeyChars) /\ IsFiniteSet(keys) /\ keys \in SUBSET Keys
    BY KeysAssumption DEF KvInv
  <2>5. /\ KvAnswers(query) # 400 => Accepted(query) /\ KvAnswers(query) = KvStatus(page)
        /\ Accepted(query) => Len(prefix) =< MaxKey
    BY DEF KvAnswers, KvRows, Accepted
  <2>6. PrefixListing <=>
            /\ listed.status = 200 =>
                 /\ \A k \in begins \ ToSet(listed.rows) :
                        Len(listed.rows) = n /\ \A r \in ToSet(listed.rows) : Before(r, k)
                 /\ \/ "us" \in ToSet(prefix)
                    \/ \E k \in keys \ begins :
                           Len(k) >= Len(prefix) /\ \A i \in DOMAIN prefix : Lower(k[i]) = Lower(prefix[i])
                    \/ ToSet(listed.rows) \subseteq begins
            /\ listed.status \in {413, 500} => Len(page) > 1 \/ \E i \in DOMAIN page : RowSize[page[i]] = 0
    <3>1. /\ HttpQueryGet(listed.query, "prefix").text = prefix /\ ParseLimit(listed.query) = n
          /\ {k \in listed.keys : IsPrefix(prefix, k)} = begins
      BY <2>2, Zenon
    <3> HIDE DEF prefix, n, begins, page
    <3>2. QED
      BY <2>2, <3>1 DEF PrefixListing, page
  <2> HIDE DEF prefix, n
  <2>7. /\ page \in Seq(M)
        /\ \A k \in M \ ToSet(page) : Len(page) = n /\ \A r \in ToSet(page) : Before(r, k)
    BY <2>3, <2>4, RowsAre, Zenon
  <2> HIDE DEF page
  <2>8. ASSUME Len(prefix) =< MaxKey, NEW k \in keys
        PROVE  k \in M <=> /\ Len(k) >= Len(prefix)
                           /\ \A i \in 1 .. Len(prefix) : prefix[i] = "us" \/ Lower(prefix[i]) = Lower(k[i])
    <3>1. k \in Seq(KeyChars)
      BY <2>4
    <3>2. QED
      BY <2>3, <2>8, <3>1, LikeIs
  <2>9. ASSUME Len(prefix) =< MaxKey PROVE begins \subseteq M
    <3>1. SUFFICES ASSUME NEW k \in begins PROVE k \in M
      OBVIOUS
    <3>2. Len(k) >= Len(prefix) /\ \A i \in 1 .. Len(prefix) : k[i] = prefix[i]
      <4>1. k \in Seq(KeyChars) /\ IsPrefix(prefix, k)
        BY <2>4
      <4>2. k \in Seq(QueryChars)
        <5>1. KeyChars \subseteq QueryChars
          BY DEF QueryChars
        <5>2. QED
          BY <4>1, <5>1
      <4>3. Len(prefix) =< Len(k) /\ \A i \in 1 .. Len(prefix) : prefix[i] = k[i]
        BY <2>3, <4>1, <4>2, PrefixIs
      <4>4. Len(prefix) \in Nat /\ Len(k) \in Nat
        BY <2>3, <4>1
      <4>5. QED
        BY <4>3, <4>4
    <3>3. QED
      BY <2>8, <2>9, <3>2
  <2>10. ASSUME listed.status = 200
         PROVE  \A k \in begins \ ToSet(page) : Len(page) = n /\ \A r \in ToSet(page) : Before(r, k)
    BY <2>2, <2>5, <2>7, <2>9, <2>10
  <2>11. ASSUME Len(prefix) =< MaxKey, "us" \notin ToSet(prefix), NEW r \in ToSet(page), r \notin begins
         PROVE  \E k \in keys \ begins :
                   Len(k) >= Len(prefix) /\ \A i \in DOMAIN prefix : Lower(k[i]) = Lower(prefix[i])
    <3>1. r \in M /\ r \in keys
      BY <2>7 DEF ToSet
    <3>2. DOMAIN prefix = 1 .. Len(prefix) /\ \A i \in DOMAIN prefix : prefix[i] # "us"
      BY <2>3, <2>11 DEF ToSet
    <3>3. Len(r) >= Len(prefix) /\ \A i \in 1 .. Len(prefix) : prefix[i] = "us" \/ Lower(prefix[i]) = Lower(r[i])
      BY <2>8, <2>11, <3>1
    <3>4. QED
      BY <2>11, <3>1, <3>2, <3>3
  <2>12. ASSUME listed.status \in {413, 500}
         PROVE  Len(page) > 1 \/ \E i \in DOMAIN page : RowSize[page[i]] = 0
    <3>1. KvStatus(page) # 200
      BY <2>2, <2>5, <2>12
    <3>2. page \in Seq(Keys) /\ Len(page) \in Nat
      BY <2>4, <2>7
    <3>3. QED
      BY <3>1, <3>2, StatusIs
  <2>13. QED
    <3> HIDE DEF begins
    <3>1. ASSUME listed.status = 200
          PROVE  Len(prefix) =< MaxKey /\ listed.rows = page
      BY <2>2, <2>5, <3>1
    <3>2. QED
      BY <2>6, <2>10, <2>11, <2>12, <3>1, Zenon
<1>3. QED
  BY <1>1, <1>2

\* handle_kv_list lists every key that begins with the prefix, up to the limit
\* and in order, nothing else unless LIKE's '_' or its case-blindness lets it
\* in, and fails only for an unreadable row or for rows too long together.
THEOREM PrefixListingHolds == ListingSpec => []PrefixListing
<1>1. QED
  BY KvInvInit, KvInvNext, KvInvListing, PTL DEF ListingSpec
=============================================================================
