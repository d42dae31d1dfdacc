--------------------------- MODULE Operator_proofs ---------------------------
(***************************************************************************)
(* Proofs about what surrounds a run: the scope page, the schedule and its *)
(* slots, and retention, each for every value of its constants, and, with  *)
(* VerifyCache_proofs, the type of the composition of MCOperator.  Each    *)
(* section has the inductive invariant of its component, one lemma per     *)
(* action, and the theorems; see README.md, section 8.                     *)
(***************************************************************************)
EXTENDS MCOperator, VerifyCache_proofs, FiniteSetTheorems, WellFoundedInduction

(* A set of numbers that is not empty has a least one.                     *)
LEMMA LeastNumber ==
  ASSUME NEW T, T \subseteq Nat, T # {}
  PROVE  \E n \in T : \A m \in T : n <= m
<1>1. PICK n \in T : \A m \in T : ~(<<m, n>> \in OpToRel(<, Nat))
  BY NatLessThanWellFounded, WFMin
<1>2. \A m \in T : ~(m < n)
  BY <1>1 DEF OpToRel
<1> QED
  BY <1>2

-----------------------------------------------------------------------------
(* The scope page.                                                         *)
Lists == {<<>>} \cup {TablesOf[d] : d \in DatabaseNames}
Selections == [DatabaseNames -> SUBSET TableNames]
Pages == [level : {"databases", "tables"}, dbs : {<<>>, Granted}, tables : Lists,
          dbIndex : 0..Len(Granted), dbMark : 0..Len(Granted), tableIndex : Nat, tableMark : Nat,
          filter : Queries, search : BOOLEAN, loading : BOOLEAN,
          selDbs : SUBSET DatabaseNames, selTables : Selections]

(* The cursors and marks of page p are inside its lists, and the cursor of *)
(* the tables is on one that the search shows.                             *)
Pointing(p) ==
  /\ p.dbs # <<>> => p.dbIndex \in 1..Len(p.dbs)
  /\ {p.tableIndex, p.tableMark} \subseteq 0..Len(p.tables)
  /\ p.tables # <<>> => p.tableIndex \in 1..Len(p.tables)
  /\ VisibleTables(p) # {} => p.tableIndex \in VisibleTables(p)

(* A database with selected tables is selected.                            *)
Covers(dbs, tables) == \A d \in DatabaseNames : tables[d] # {} => d \in dbs

Sound(p) == p \in Pages /\ Pointing(p) /\ Covers(p.selDbs, p.selTables)

ScopeInv ==
  /\ Sound(scope)
  /\ listing \in BOOLEAN /\ asked \in [DatabaseNames -> 0..MaxAsked]

-----------------------------------------------------------------------------
(* Lists and positions.                                                    *)
LEMMA ListFacts ==
  /\ Len(Granted) \in Nat /\ DOMAIN Granted = 1..Len(Granted)
  /\ \A i \in 1..Len(Granted) : Granted[i] \in DatabaseNames
  /\ \A l \in Lists : /\ Len(l) \in Nat /\ DOMAIN l = 1..Len(l)
                      /\ l = <<>> <=> Len(l) = 0
                      /\ \A i \in 1..Len(l) : l[i] \in TableNames
  /\ <<>> \in Lists /\ Len(<<>>) = 0
  /\ Granted = <<>> <=> Len(Granted) = 0
<1>1. Granted \in Seq(STRING) /\ \A d \in DatabaseNames : TablesOf[d] \in Seq(STRING)
  BY ScopeAssumption
<1>2. Len(Granted) \in Nat /\ DOMAIN Granted = 1..Len(Granted) /\ (Granted = <<>> <=> Len(Granted) = 0)
  BY <1>1
<1>3. \A i \in 1..Len(Granted) : Granted[i] \in DatabaseNames
  BY <1>2 DEF DatabaseNames, Range
<1>4. ASSUME NEW l \in Lists
      PROVE  /\ Len(l) \in Nat /\ DOMAIN l = 1..Len(l) /\ (l = <<>> <=> Len(l) = 0)
             /\ \A i \in 1..Len(l) : l[i] \in TableNames
  <2>1. CASE l = <<>>
    BY <2>1
  <2>2. ASSUME NEW d \in DatabaseNames, l = TablesOf[d]
        PROVE  /\ Len(l) \in Nat /\ DOMAIN l = 1..Len(l) /\ (l = <<>> <=> Len(l) = 0)
               /\ \A i \in 1..Len(l) : l[i] \in TableNames
    <3>1. Len(l) \in Nat /\ DOMAIN l = 1..Len(l) /\ (l = <<>> <=> Len(l) = 0)
      BY <1>1, <2>2
    <3>2. \A i \in 1..Len(l) : l[i] \in Range(TablesOf[d])
      BY <2>2, <3>1 DEF Range
    <3> QED
      BY <3>1, <3>2 DEF TableNames
  <2> QED
    BY <2>1, <2>2 DEF Lists
<1> QED
  BY <1>2, <1>3, <1>4 DEF Lists

LEMMA PageFields ==
  ASSUME NEW p \in Pages
  PROVE  /\ p.level \in {"databases", "tables"} /\ p.dbs \in {<<>>, Granted} /\ p.tables \in Lists
         /\ p.dbIndex \in 0..Len(Granted) /\ p.dbMark \in 0..Len(Granted)
         /\ p.tableIndex \in Nat /\ p.tableMark \in Nat
         /\ p.filter \in Queries /\ p.search \in BOOLEAN /\ p.loading \in BOOLEAN
         /\ p.selDbs \in SUBSET DatabaseNames /\ p.selTables \in Selections
BY DEF Pages

LEMMA GreatestNumber ==
  ASSUME NEW n \in Nat, NEW T, T \subseteq 0..n, T # {}
  PROVE  \E g \in T : \A m \in T : m <= g
<1> DEFINE left == {n - m : m \in T}
<1>0. \A m \in T : n - m \in Nat
  OBVIOUS
<1>1. left \subseteq Nat /\ left # {}
  BY <1>0
<1>2. PICK k \in left : \A m \in left : k <= m
  <2> HIDE DEF left
  <2> QED
    BY <1>1, LeastNumber
<1>3. PICK g \in T : k = n - g
  OBVIOUS
<1>4. ASSUME NEW m \in T
      PROVE  m <= g
  <2>1. k <= n - m /\ m \in 0..n /\ g \in 0..n
    BY <1>2
  <2> QED
    BY <1>3, <2>1
<1> QED
  BY <1>4

LEMMA VisibleFacts ==
  ASSUME NEW p \in Pages
  PROVE  /\ VisibleTables(p) \subseteq 1..Len(p.tables) /\ Len(p.tables) \in Nat
         /\ IsFiniteSet(VisibleTables(p))
<1>1. p.tables \in Lists
  BY PageFields
<1>2. VisibleTables(p) \subseteq 1..Len(p.tables) /\ Len(p.tables) \in Nat
  BY <1>1, ListFacts DEF VisibleTables
<1>3. IsFiniteSet(1..Len(p.tables))
  BY <1>2, FS_Interval
<1> QED
  BY <1>2, <1>3, FS_Subset

LEMMA VisibleEnds ==
  ASSUME NEW p \in Pages, VisibleTables(p) # {}
  PROVE  Min(VisibleTables(p)) \in VisibleTables(p) /\ Max(VisibleTables(p)) \in VisibleTables(p)
<1> DEFINE visible == VisibleTables(p)
<1>1. visible \subseteq 0..Len(p.tables) /\ Len(p.tables) \in Nat /\ visible \subseteq Nat
  BY VisibleFacts
<1>2. \E n \in visible : \A m \in visible : n <= m
  BY <1>1, LeastNumber
<1>3. \E n \in visible : \A m \in visible : m <= n
  <2> DEFINE n == Len(p.tables)
  <2>1. n \in Nat /\ visible \subseteq 0..n /\ visible # {}
    BY <1>1
  <2> HIDE DEF visible, n
  <2> QED
    BY <2>1, GreatestNumber
<1>4. \E n \in visible : \A m \in visible : n >= m
  BY <1>1, <1>3
<1> HIDE DEF visible
<1>5. Min(visible) \in visible
  BY <1>2 DEF Min
<1>6. Max(visible) \in visible
  BY <1>4 DEF Max
<1> QED
  BY <1>5, <1>6 DEF visible

(* A count that starts at 0 and gets to k has a first moment where it does.*)
LEMMA FirstReached ==
  ASSUME NEW n \in Nat, NEW c \in [0..n -> Nat], c[0] = 0, NEW k \in Nat, 0 < k, k <= c[n]
  PROVE  \E i \in 1..n : i - 1 \in 0..n /\ c[i - 1] < k /\ k <= c[i]
<1> DEFINE far == {i \in 0..n : k <= c[i]}
<1>1. far \subseteq Nat /\ n \in far
  OBVIOUS
<1>2. PICK i \in far : \A m \in far : i <= m
  <2> HIDE DEF far
  <2> QED
    BY <1>1, LeastNumber
<1>3. i \in 1..n /\ i - 1 \in 0..n
  OBVIOUS
<1>4. i - 1 \notin far
  BY <1>2, <1>3
<1> QED
  BY <1>3, <1>4

(* Every position up to the number of visible tables belongs to one of     *)
(* them: the first table up to which there are that many.                  *)
LEMMA PositionTaken ==
  ASSUME NEW p \in Pages, NEW k \in 1..Cardinality(VisibleTables(p))
  PROVE  \E i \in VisibleTables(p) : Position(p, i) = k
<1> DEFINE visible == VisibleTables(p)
           n == Len(p.tables)
           upto(i) == {j \in visible : j <= i}
           c == [i \in 0..n |-> Cardinality(upto(i))]
<1>1. visible \subseteq 1..n /\ n \in Nat /\ IsFiniteSet(visible) /\ Cardinality(visible) \in Nat
  BY VisibleFacts, FS_CardinalityType
<1>2. k \in Nat /\ 0 < k /\ k <= Cardinality(visible)
  BY <1>1
<1>3. \A i \in Int : IsFiniteSet(upto(i)) /\ Cardinality(upto(i)) \in Nat
  <2> TAKE i \in Int
  <2>1. upto(i) \in SUBSET visible
    OBVIOUS
  <2> HIDE DEF upto, visible
  <2> QED
    BY <1>1, <2>1, FS_Subset, FS_CardinalityType
<1>4. upto(n) = visible /\ upto(0) = {}
  BY <1>1
<1> HIDE DEF n
<1>5. c \in [0..n -> Nat]
  <2> HIDE DEF upto
  <2> QED
    BY <1>1, <1>3
<1>6. c[0] = 0 /\ c[n] = Cardinality(visible)
  <2> HIDE DEF upto, visible
  <2> QED
    BY <1>1, <1>4, FS_EmptySet
<1>7. PICK i \in 1..n : i - 1 \in 0..n /\ c[i - 1] < k /\ k <= c[i]
  <2> HIDE DEF c, visible
  <2> QED
    BY <1>1, <1>2, <1>5, <1>6, FirstReached
<1>8. /\ c[i - 1] = Cardinality(upto(i - 1)) /\ c[i] = Cardinality(upto(i))
      /\ c[i - 1] \in Nat /\ c[i] \in Nat
  <2> HIDE DEF upto
  <2> QED
    BY <1>1, <1>5, <1>7
<1>9. /\ i \notin visible => upto(i) = upto(i - 1)
      /\ i \in visible => upto(i) = upto(i - 1) \cup {i} /\ i \notin upto(i - 1)
  BY <1>1
<1>10. i \in visible
  <2> HIDE DEF upto, visible, c
  <2> QED
    BY <1>2, <1>7, <1>8, <1>9
<1>11. c[i] = c[i - 1] + 1
  <2>1. IsFiniteSet(upto(i - 1))
    BY <1>1, <1>3
  <2> HIDE DEF upto, visible, c
  <2> QED
    BY <1>8, <1>9, <1>10, <2>1, FS_AddElement
<1>12. Cardinality(upto(i)) = k
  <2> HIDE DEF upto, visible, c
  <2> QED
    BY <1>2, <1>7, <1>8, <1>11
<1> QED
  BY <1>10, <1>12 DEF Position

-----------------------------------------------------------------------------
(* What the operators change of a page.                                    *)
SameLists(q, p) == q.dbs = p.dbs /\ q.tables = p.tables /\ q.filter = p.filter
SameCursors(q, p) ==
  /\ q.dbIndex = p.dbIndex /\ q.dbMark = p.dbMark
  /\ q.tableIndex = p.tableIndex /\ q.tableMark = p.tableMark
SameSelection(q, p) == q.selDbs = p.selDbs /\ q.selTables = p.selTables

LEMMA StaysPointing ==
  ASSUME NEW p \in Pages, NEW q \in Pages, Pointing(p), SameLists(q, p), SameCursors(q, p)
  PROVE  Pointing(q)
<1>1. VisibleTables(q) = VisibleTables(p)
  BY DEF VisibleTables, SameLists
<1> QED
  BY <1>1 DEF Pointing, SameLists, SameCursors

(* q is p with the selection of databases D and of tables T.               *)
Selects(q, p, D, T) ==
  q \in Pages /\ SameLists(q, p) /\ SameCursors(q, p) /\ q.selDbs = D /\ q.selTables = T

LEMMA PutDbs ==
  ASSUME NEW p \in Pages, NEW D \in SUBSET DatabaseNames
  PROVE  Selects([p EXCEPT !.selDbs = D], p, D, p.selTables)
BY DEF Selects, SameLists, SameCursors, Pages

LEMMA PutTables ==
  ASSUME NEW p \in Pages, NEW T \in Selections
  PROVE  Selects([p EXCEPT !.selTables = T], p, p.selDbs, T)
BY DEF Selects, SameLists, SameCursors, Pages

LEMMA PutBoth ==
  ASSUME NEW p \in Pages, NEW D \in SUBSET DatabaseNames, NEW T \in Selections
  PROVE  /\ Selects([p EXCEPT !.selDbs = D, !.selTables = T], p, D, T)
         /\ Selects([p EXCEPT !.selTables = T, !.selDbs = D], p, D, T)
<1> DEFINE h == [p EXCEPT !.selDbs = D]
           k == [p EXCEPT !.selTables = T]
<1>1. Selects(h, p, D, p.selTables) /\ Selects(k, p, p.selDbs, T)
  BY PutDbs, PutTables
<1>2. /\ [p EXCEPT !.selDbs = D, !.selTables = T] = [h EXCEPT !.selTables = T]
      /\ [p EXCEPT !.selTables = T, !.selDbs = D] = [k EXCEPT !.selDbs = D]
  OBVIOUS
<1> HIDE DEF h, k
<1>3. Selects([h EXCEPT !.selTables = T], h, D, T) /\ Selects([k EXCEPT !.selDbs = D], k, D, T)
  BY <1>1, PutDbs, PutTables DEF Selects
<1> QED
  BY <1>1, <1>2, <1>3 DEF Selects, SameLists, SameCursors

LEMMA SelectsSound ==
  ASSUME NEW p, Sound(p), NEW D, NEW T, NEW q, Selects(q, p, D, T), Covers(D, T)
  PROVE  Sound(q)
BY StaysPointing DEF Sound, Selects

(* q is p with other cursors.                                              *)
Points(q, p, d, e, i, m) ==
  /\ q \in Pages /\ SameLists(q, p) /\ SameSelection(q, p)
  /\ q.dbIndex = d /\ q.dbMark = e /\ q.tableIndex = i /\ q.tableMark = m

LEMMA PointsSound ==
  ASSUME NEW p, Sound(p), NEW d, NEW e, NEW i, NEW m, NEW q, Points(q, p, d, e, i, m),
         p.dbs # <<>> => d \in 1..Len(p.dbs),
         i = p.tableIndex \/ i \in VisibleTables(p), m \in 0..Len(p.tables)
  PROVE  Sound(q)
<1>1. VisibleTables(q) = VisibleTables(p) /\ q.tables = p.tables /\ q.dbs = p.dbs
  BY DEF VisibleTables, SameLists, Points
<1>2. VisibleTables(p) \subseteq 1..Len(p.tables) /\ Len(p.tables) \in Nat
  BY VisibleFacts DEF Sound
<1>3. {i, m} \subseteq 0..Len(p.tables) /\ (p.tables # <<>> => i \in 1..Len(p.tables))
      /\ (VisibleTables(p) # {} => i \in VisibleTables(p))
  BY <1>2 DEF Sound, Pointing
<1>4. Pointing(q)
  BY <1>1, <1>3 DEF Pointing, Points
<1> QED
  BY <1>4 DEF Sound, Points, SameSelection

LEMMA PutDbIndex ==
  ASSUME NEW p \in Pages, NEW d \in 0..Len(Granted)
  PROVE  Points([p EXCEPT !.dbIndex = d], p, d, p.dbMark, p.tableIndex, p.tableMark)
BY DEF Points, SameLists, SameSelection, Pages

LEMMA PutDbMark ==
  ASSUME NEW p \in Pages, NEW d \in 0..Len(Granted)
  PROVE  Points([p EXCEPT !.dbMark = d], p, p.dbIndex, d, p.tableIndex, p.tableMark)
BY DEF Points, SameLists, SameSelection, Pages

LEMMA PutTableIndex ==
  ASSUME NEW p \in Pages, NEW i \in Nat
  PROVE  Points([p EXCEPT !.tableIndex = i], p, p.dbIndex, p.dbMark, i, p.tableMark)
BY DEF Points, SameLists, SameSelection, Pages

LEMMA PutTableMark ==
  ASSUME NEW p \in Pages, NEW m \in Nat
  PROVE  Points([p EXCEPT !.tableMark = m], p, p.dbIndex, p.dbMark, p.tableIndex, m)
BY DEF Points, SameLists, SameSelection, Pages

-----------------------------------------------------------------------------
(* Every operator keeps a page sound.                                      *)
LEMMA CurrentFacts ==
  ASSUME NEW s, Sound(s), s.dbs # <<>>
  PROVE  Current(s) \in DatabaseNames
<1>1. s.dbs = Granted /\ s.dbIndex \in 1..Len(Granted)
  BY PageFields DEF Sound, Pointing
<1> QED
  BY <1>1, ListFacts DEF Current

LEMMA NameFacts ==
  ASSUME NEW s, Sound(s), NEW indexes, indexes \subseteq 1..Len(s.tables)
  PROVE  {s.tables[i] : i \in indexes} \subseteq TableNames
BY PageFields, ListFacts DEF Sound

LEMMA ToggleDatabaseSound == ASSUME NEW s, Sound(s) PROVE Sound(ToggleDatabase(s))
<1>1. CASE s.dbs = <<>>
  BY <1>1 DEF ToggleDatabase
<1>2. CASE s.dbs # <<>>
  <2> DEFINE d == Current(s)
             T == [s.selTables EXCEPT ![d] = {}]
  <2>1. /\ d \in DatabaseNames /\ s \in Pages /\ s.selTables \in Selections
        /\ s.selDbs \in SUBSET DatabaseNames /\ Covers(s.selDbs, s.selTables)
    BY <1>2, CurrentFacts, PageFields DEF Sound
  <2> HIDE DEF d
  <2>2. T \in Selections /\ Covers(s.selDbs \ {d}, T) /\ Covers(s.selDbs \cup {d}, s.selTables)
    BY <2>1 DEF Selections, Covers
  <2>3. CASE d \in s.selDbs
    <3> DEFINE q == [s EXCEPT !.selDbs = s.selDbs \ {d}, !.selTables = T]
    <3>1. ToggleDatabase(s) = q
      BY <1>2, <2>3 DEF ToggleDatabase, d
    <3> HIDE DEF T
    <3>2. Selects(q, s, s.selDbs \ {d}, T)
      BY <2>1, <2>2, PutBoth
    <3> QED
      BY <2>2, <3>1, <3>2, SelectsSound
  <2>4. CASE d \notin s.selDbs
    <3> DEFINE q == [s EXCEPT !.selDbs = s.selDbs \cup {d}]
    <3>1. ToggleDatabase(s) = q
      BY <1>2, <2>4 DEF ToggleDatabase, d
    <3>2. Selects(q, s, s.selDbs \cup {d}, s.selTables)
      BY <2>1, PutDbs
    <3> QED
      BY <2>2, <3>1, <3>2, SelectsSound
  <2> QED
    BY <2>3, <2>4
<1> QED
  BY <1>1, <1>2

(* The tables of the current database become X, and it is selected.        *)
LEMMA AddsTables ==
  ASSUME NEW s, Sound(s), s.dbs # <<>>, NEW X \in SUBSET TableNames
  PROVE  /\ Sound([s EXCEPT !.selDbs = s.selDbs \cup {Current(s)},
                            !.selTables = [s.selTables EXCEPT ![Current(s)] = X]])
         /\ Sound([s EXCEPT !.selTables = [s.selTables EXCEPT ![Current(s)] = X],
                            !.selDbs = s.selDbs \cup {Current(s)}])
<1> DEFINE d == Current(s)
           D == s.selDbs \cup {d}
           T == [s.selTables EXCEPT ![d] = X]
<1>1. /\ d \in DatabaseNames /\ s \in Pages /\ s.selTables \in Selections
      /\ s.selDbs \in SUBSET DatabaseNames /\ Covers(s.selDbs, s.selTables)
  BY CurrentFacts, PageFields DEF Sound
<1> HIDE DEF d
<1>2. T \in Selections /\ D \in SUBSET DatabaseNames /\ Covers(D, T)
  BY <1>1 DEF Selections, Covers
<1> HIDE DEF D, T
<1>3. /\ Selects([s EXCEPT !.selDbs = D, !.selTables = T], s, D, T)
      /\ Selects([s EXCEPT !.selTables = T, !.selDbs = D], s, D, T)
  BY <1>1, <1>2, PutBoth
<1>4. /\ Sound([s EXCEPT !.selDbs = D, !.selTables = T])
      /\ Sound([s EXCEPT !.selTables = T, !.selDbs = D])
  BY <1>2, <1>3, SelectsSound
<1> QED
  BY <1>4 DEF D, T, d

(* The tables of the current database become fewer.                        *)
LEMMA RemovesTables ==
  ASSUME NEW s, Sound(s), s.dbs # <<>>, NEW X, X \subseteq s.selTables[Current(s)]
  PROVE  Sound([s EXCEPT !.selTables = [s.selTables EXCEPT ![Current(s)] = X]])
<1> DEFINE d == Current(s)
           T == [s.selTables EXCEPT ![d] = X]
<1>1. /\ d \in DatabaseNames /\ s \in Pages /\ s.selTables \in Selections
      /\ Covers(s.selDbs, s.selTables)
  BY CurrentFacts, PageFields DEF Sound
<1> HIDE DEF d
<1>2. T \in Selections /\ Covers(s.selDbs, T)
  BY <1>1 DEF Selections, Covers, d
<1> HIDE DEF T
<1>3. Selects([s EXCEPT !.selTables = T], s, s.selDbs, T)
  BY <1>1, <1>2, PutTables
<1>4. Sound([s EXCEPT !.selTables = T])
  BY <1>2, <1>3, SelectsSound
<1> QED
  BY <1>4 DEF T, d

LEMMA ToggleTableSound == ASSUME NEW s, Sound(s) PROVE Sound(ToggleTable(s))
<1>1. CASE s.dbs = <<>> \/ s.tables = <<>>
  BY <1>1 DEF ToggleTable
<1>2. CASE s.dbs # <<>> /\ s.tables # <<>>
  <2> DEFINE d == Current(s)
             t == s.tables[s.tableIndex]
             old == s.selTables[d]
  <2>1. d \in DatabaseNames /\ s \in Pages /\ s.selTables \in Selections
    BY <1>2, CurrentFacts, PageFields DEF Sound
  <2>2. t \in TableNames
    BY <1>2, PageFields, ListFacts DEF Sound, Pointing
  <2>3. old \in SUBSET TableNames
    BY <2>1 DEF Selections
  <2>4. CASE t \in old
    <3>1. Sound([s EXCEPT !.selTables = [s.selTables EXCEPT ![d] = old \ {t}]])
      BY <1>2, RemovesTables
    <3> QED
      BY <1>2, <2>4, <3>1 DEF ToggleTable
  <2>5. CASE t \notin old
    <3>1. old \cup {t} \in SUBSET TableNames
      BY <2>2, <2>3
    <3> HIDE DEF old, t
    <3>2. Sound([s EXCEPT !.selDbs = s.selDbs \cup {d},
                          !.selTables = [s.selTables EXCEPT ![d] = old \cup {t}]])
      BY <1>2, <3>1, AddsTables
    <3> QED
      BY <1>2, <2>5, <3>2 DEF ToggleTable, old, t
  <2> QED
    BY <2>4, <2>5
<1> QED
  BY <1>1, <1>2

LEMMA SelectTablesSound ==
  ASSUME NEW s, Sound(s), NEW indexes, indexes \subseteq 1..Len(s.tables)
  PROVE  Sound(SelectTables(s, indexes))
<1>1. CASE s.dbs = <<>> \/ s.tables = <<>>
  BY <1>1 DEF SelectTables
<1>2. CASE s.dbs # <<>> /\ s.tables # <<>>
  <2> DEFINE d == Current(s)
             X == s.selTables[d] \cup {s.tables[i] : i \in indexes}
  <2>1. d \in DatabaseNames /\ s \in Pages /\ s.selTables \in Selections
    BY <1>2, CurrentFacts, PageFields DEF Sound
  <2>2. X \in SUBSET TableNames
    BY <2>1, NameFacts DEF Selections
  <2>3. SelectTables(s, indexes) = [s EXCEPT !.selDbs = s.selDbs \cup {d},
                                             !.selTables = [s.selTables EXCEPT ![d] = X]]
    BY <1>2 DEF SelectTables
  <2> HIDE DEF X
  <2>4. Sound([s EXCEPT !.selDbs = s.selDbs \cup {d},
                        !.selTables = [s.selTables EXCEPT ![d] = X]])
    BY <1>2, <2>2, AddsTables
  <2> QED
    BY <2>3, <2>4
<1> QED
  BY <1>1, <1>2

Without(T, names) == [d \in DatabaseNames |-> IF d \in names THEN {} ELSE T[d]]

LEMMA WithoutFacts ==
  ASSUME NEW s, Sound(s), NEW names
  PROVE  /\ Without(s.selTables, names) \in Selections
         /\ Covers(s.selDbs \ names, Without(s.selTables, names))
         /\ Covers(s.selDbs \cup names, Without(s.selTables, names))
BY PageFields DEF Without, Sound, Covers, Selections

LEMMA SelectDatabasesSound ==
  ASSUME NEW s, Sound(s), NEW names \in SUBSET DatabaseNames
  PROVE  Sound(SelectDatabases(s, names))
<1> DEFINE D == s.selDbs \cup names
           T == Without(s.selTables, names)
<1>1. s \in Pages /\ D \in SUBSET DatabaseNames
  BY PageFields DEF Sound
<1>2. T \in Selections /\ Covers(D, T)
  BY WithoutFacts
<1>3. SelectDatabases(s, names) = [s EXCEPT !.selDbs = D, !.selTables = T]
  BY DEF SelectDatabases, Without
<1> HIDE DEF D, T
<1>4. Selects([s EXCEPT !.selDbs = D, !.selTables = T], s, D, T)
  BY <1>1, <1>2, PutBoth
<1> QED
  BY <1>2, <1>3, <1>4, SelectsSound

LEMMA MarkedFacts == ASSUME NEW s, Sound(s) PROVE MarkedDatabases(s) \in SUBSET DatabaseNames
<1>1. CASE s.dbs = <<>>
  BY <1>1 DEF MarkedDatabases
<1>2. CASE s.dbs # <<>>
  <2>1. s.dbs = Granted /\ s.dbIndex \in 1..Len(Granted) /\ s.dbMark \in 0..Len(Granted)
    BY <1>2, PageFields DEF Sound, Pointing
  <2>2. DBRange(s) \subseteq 1..Len(Granted)
    BY <2>1, ListFacts DEF DBRange, Between
  <2> QED
    BY <1>2, <2>1, <2>2, ListFacts DEF MarkedDatabases
<1> QED
  BY <1>1, <1>2

LEMMA RangeFacts ==
  ASSUME NEW s, Sound(s)
  PROVE  /\ TableRange(s) \subseteq 1..Len(s.tables) /\ VisibleTables(s) \subseteq 1..Len(s.tables)
         /\ Range(s.dbs) \in SUBSET DatabaseNames
<1>1. VisibleTables(s) \subseteq 1..Len(s.tables) /\ s.dbs \in {<<>>, Granted}
  BY VisibleFacts, PageFields DEF Sound
<1>2. TableRange(s) \subseteq VisibleTables(s)
  BY DEF TableRange
<1>3. Range(s.dbs) \in SUBSET DatabaseNames
  BY <1>1 DEF Range, DatabaseNames
<1> QED
  BY <1>1, <1>2, <1>3

LEMMA SelectAllSound == ASSUME NEW s, Sound(s) PROVE Sound(SelectAll(s))
BY RangeFacts, SelectTablesSound, SelectDatabasesSound DEF SelectAll

LEMMA SelectMarkedSound == ASSUME NEW s, Sound(s) PROVE Sound(SelectMarked(s))
BY RangeFacts, MarkedFacts, SelectTablesSound, SelectDatabasesSound DEF SelectMarked

LEMMA ClearTablesSound == ASSUME NEW s, Sound(s) PROVE Sound(ClearTables(s))
<1>1. CASE s.dbs = <<>>
  BY <1>1 DEF ClearTables
<1>2. CASE s.dbs # <<>>
  <2>1. {} \in SUBSET TableNames
    OBVIOUS
  <2>2. ClearTables(s) = [s EXCEPT !.selTables = [s.selTables EXCEPT ![Current(s)] = {}],
                                   !.selDbs = s.selDbs \cup {Current(s)}]
    BY <1>2 DEF ClearTables
  <2> QED
    BY <1>2, <2>1, <2>2, AddsTables
<1> QED
  BY <1>1, <1>2

LEMMA ClearMarkedSound == ASSUME NEW s, Sound(s) PROVE Sound(ClearMarked(s))
<1>1. CASE s.level = "tables" /\ (s.dbs = <<>> \/ s.tables = <<>>)
  BY <1>1 DEF ClearMarked
<1>2. CASE s.level = "tables" /\ s.dbs # <<>> /\ s.tables # <<>>
  <2> DEFINE d == Current(s)
             left == s.selTables[d] \ {s.tables[i] : i \in TableRange(s)}
             T == [s.selTables EXCEPT ![d] = left]
  <2>1. /\ d \in DatabaseNames /\ s \in Pages /\ s.selTables \in Selections
        /\ s.selDbs \in SUBSET DatabaseNames
    BY <1>2, CurrentFacts, PageFields DEF Sound
  <2>2. left \in SUBSET TableNames /\ left \subseteq s.selTables[d]
    BY <2>1 DEF Selections
  <2> HIDE DEF left
  <2>3. CASE s.selTables[d] # {} /\ left = {}
    <3>1. ClearMarked(s) = [s EXCEPT !.selTables = T, !.selDbs = s.selDbs \cup {d}]
      BY <1>2, <2>3 DEF ClearMarked, left
    <3>2. Sound([s EXCEPT !.selTables = T, !.selDbs = s.selDbs \cup {d}])
      BY <1>2, <2>2, AddsTables
    <3> QED
      BY <3>1, <3>2
  <2>4. CASE ~(s.selTables[d] # {} /\ left = {})
    <3>1. ClearMarked(s) = [s EXCEPT !.selTables = T, !.selDbs = s.selDbs]
      BY <1>2, <2>4 DEF ClearMarked, left
    <3>2. T \in Selections /\ Covers(s.selDbs, T)
      BY <2>1, <2>2 DEF Sound, Covers, Selections
    <3> HIDE DEF T
    <3>3. Selects([s EXCEPT !.selTables = T, !.selDbs = s.selDbs], s, s.selDbs, T)
      BY <2>1, <3>2, PutBoth
    <3> QED
      BY <3>1, <3>2, <3>3, SelectsSound
  <2> QED
    BY <2>3, <2>4
<1>3. CASE s.level # "tables"
  <2> DEFINE names == MarkedDatabases(s)
             D == s.selDbs \ names
             T == Without(s.selTables, names)
  <2>1. s \in Pages /\ D \in SUBSET DatabaseNames
    BY PageFields DEF Sound
  <2>2. T \in Selections /\ Covers(D, T)
    BY WithoutFacts
  <2>3. ClearMarked(s) = [s EXCEPT !.selDbs = D, !.selTables = T]
    BY <1>3 DEF ClearMarked, Without
  <2> HIDE DEF D, T
  <2>4. Selects([s EXCEPT !.selDbs = D, !.selTables = T], s, D, T)
    BY <2>1, <2>2, PutBoth
  <2> QED
    BY <2>2, <2>3, <2>4, SelectsSound
<1> QED
  BY <1>1, <1>2, <1>3

LEMMA ClearAllSound == ASSUME NEW s, Sound(s) PROVE Sound(ClearAll(s))
<1>1. NoTables \in Selections /\ Covers({}, NoTables) /\ {} \in SUBSET DatabaseNames
  BY DEF NoTables, Selections, Covers
<1>2. Selects(ClearAll(s), s, {}, NoTables)
  BY <1>1, PutBoth DEF ClearAll, Sound
<1> QED
  BY <1>1, <1>2, SelectsSound

LEMMA ClearSound == ASSUME NEW s, Sound(s) PROVE Sound(Clear(s))
BY ClearMarkedSound, ClearTablesSound, ClearAllSound DEF Clear

LEMMA ToggleSound == ASSUME NEW s, Sound(s) PROVE Sound(Toggle(s))
BY ToggleTableSound, ToggleDatabaseSound DEF Toggle

LEMMA MarkStartSound == ASSUME NEW s, Sound(s) PROVE Sound(MarkStart(s))
<1>1. s \in Pages /\ s.dbIndex \in 0..Len(Granted) /\ s.tableIndex \in Nat
      /\ s.tableIndex \in 0..Len(s.tables) /\ s.tableMark \in 0..Len(s.tables)
      /\ (s.dbs # <<>> => s.dbIndex \in 1..Len(s.dbs))
  BY PageFields DEF Sound, Pointing
<1>2. Sound([s EXCEPT !.tableMark = s.tableIndex])
  BY <1>1, PutTableMark, PointsSound
<1>3. Sound([s EXCEPT !.dbMark = s.dbIndex])
  BY <1>1, PutDbMark, PointsSound
<1> QED
  BY <1>2, <1>3 DEF MarkStart

LEMMA VisualRangeSound == ASSUME NEW s, Sound(s) PROVE Sound(VisualRange(s))
BY MarkStartSound, SelectMarkedSound DEF VisualRange

(* The cursor of the tables moves to another visible table.                *)
LEMMA CursorSound ==
  ASSUME NEW s, Sound(s), NEW i \in VisibleTables(s)
  PROVE  Sound([s EXCEPT !.tableIndex = i])
<1>1. s \in Pages /\ s.tableMark \in 0..Len(s.tables) /\ (s.dbs # <<>> => s.dbIndex \in 1..Len(s.dbs))
  BY DEF Sound, Pointing
<1>2. i \in Nat
  BY <1>1, VisibleFacts
<1> QED
  BY <1>1, <1>2, PutTableIndex, PointsSound

LEMMA DatabaseCursorSound ==
  ASSUME NEW s, Sound(s), s.dbs # <<>>, NEW d \in 1..Len(s.dbs)
  PROVE  Sound([s EXCEPT !.dbIndex = d])
<1>1. s \in Pages /\ s.tableMark \in 0..Len(s.tables)
  BY DEF Sound, Pointing
<1>2. d \in 0..Len(Granted)
  BY <1>1, PageFields, ListFacts
<1> QED
  BY <1>1, <1>2, PutDbIndex, PointsSound

LEMMA MoveTableSound ==
  ASSUME NEW s, Sound(s), NEW delta \in Int
  PROVE  Sound(MoveTable(s, delta))
<1> DEFINE visible == VisibleTables(s)
           total == Cardinality(visible)
           to == IF s.tableIndex \in visible THEN Clamp(Position(s, s.tableIndex) + delta, total)
                 ELSE IF delta < 0 THEN total ELSE 1
<1>1. CASE visible = {}
  BY <1>1 DEF MoveTable
<1>2. CASE visible # {}
  <2>1. s \in Pages /\ IsFiniteSet(visible)
    BY VisibleFacts DEF Sound
  <2>2. total \in Nat /\ total >= 1
    <3> HIDE DEF visible
    <3>1. total \in Nat
      BY <2>1, FS_CardinalityType
    <3>2. total # 0
      BY <1>2, <2>1, FS_EmptySet
    <3> QED
      BY <3>1, <3>2
  <2>3. Position(s, s.tableIndex) \in Nat
    <3>1. {j \in visible : j <= s.tableIndex} \in SUBSET visible
      OBVIOUS
    <3>2. IsFiniteSet({j \in visible : j <= s.tableIndex})
      BY <2>1, <3>1, FS_Subset
    <3>3. Cardinality({j \in visible : j <= s.tableIndex}) \in Nat
      BY <3>2, FS_CardinalityType
    <3> QED
      BY <3>3 DEF Position
  <2>4. to \in 1..total
    <3> HIDE DEF total, visible
    <3> QED
      BY <2>2, <2>3 DEF Clamp
  <2> HIDE DEF to
  <2> DEFINE i == CHOOSE j \in visible : Position(s, j) = to
  <2>5. i \in visible
    BY <2>1, <2>4, PositionTaken
  <2>6. MoveTable(s, delta) = [s EXCEPT !.tableIndex = i]
    BY <1>2 DEF MoveTable, to
  <2> HIDE DEF i
  <2> QED
    BY <2>5, <2>6, CursorSound
<1> QED
  BY <1>1, <1>2

LEMMA MoveSelectionSound ==
  ASSUME NEW s, Sound(s), NEW delta \in Int
  PROVE  Sound(MoveSelection(s, delta))
<1>1. CASE s.level = "tables" \/ s.dbs = <<>>
  BY <1>1, MoveTableSound DEF MoveSelection
<1>2. CASE s.level # "tables" /\ s.dbs # <<>>
  <2> DEFINE d == Clamp(s.dbIndex + delta, Len(s.dbs))
  <2>1. s.dbIndex \in 1..Len(s.dbs) /\ Len(s.dbs) \in Nat
    BY <1>2, PageFields, ListFacts DEF Sound, Pointing
  <2>2. d \in 1..Len(s.dbs)
    BY <2>1 DEF Clamp
  <2>3. MoveSelection(s, delta) = [s EXCEPT !.dbIndex = d]
    BY <1>2 DEF MoveSelection
  <2> HIDE DEF d
  <2> QED
    BY <1>2, <2>2, <2>3, DatabaseCursorSound
<1> QED
  BY <1>1, <1>2

LEMMA MoveToEndSound ==
  ASSUME NEW s, Sound(s), NEW toLast \in BOOLEAN
  PROVE  Sound(MoveToEnd(s, toLast))
<1>1. ASSUME VisibleTables(s) # {}
      PROVE  /\ Sound([s EXCEPT !.tableIndex = Max(VisibleTables(s))])
             /\ Sound([s EXCEPT !.tableIndex = Min(VisibleTables(s))])
  BY <1>1, VisibleEnds, CursorSound DEF Sound
<1>2. ASSUME s.dbs # <<>>
      PROVE  Sound([s EXCEPT !.dbIndex = Len(s.dbs)]) /\ Sound([s EXCEPT !.dbIndex = 1])
  <2>1. Len(s.dbs) \in 1..Len(s.dbs) /\ 1 \in 1..Len(s.dbs)
    BY <1>2, PageFields, ListFacts DEF Sound, Pointing
  <2> QED
    BY <1>2, <2>1, DatabaseCursorSound
<1>3. CASE s.level = "tables" /\ VisibleTables(s) # {}
  <2>1. MoveToEnd(s, toLast) = [s EXCEPT !.tableIndex = IF toLast THEN Max(VisibleTables(s))
                                                      ELSE Min(VisibleTables(s))]
    BY <1>3 DEF MoveToEnd
  <2> QED
    BY <1>1, <1>3, <2>1
<1>4. CASE s.level # "tables" /\ s.dbs # <<>>
  <2>1. MoveToEnd(s, toLast) = [s EXCEPT !.dbIndex = IF toLast THEN Len(s.dbs) ELSE 1]
    BY <1>4 DEF MoveToEnd
  <2> QED
    BY <1>2, <1>4, <2>1
<1>5. CASE IF s.level = "tables" THEN VisibleTables(s) = {} ELSE s.dbs = <<>>
  BY <1>5 DEF MoveToEnd
<1> QED
  BY <1>3, <1>4, <1>5

-----------------------------------------------------------------------------
(* q is p on another level, with or without the search and the wait.       *)
Shows(q, p, l, f, w) ==
  /\ q \in Pages /\ SameLists(q, p) /\ SameCursors(q, p) /\ SameSelection(q, p)
  /\ q.level = l /\ q.search = f /\ q.loading = w

LEMMA ShowsSound ==
  ASSUME NEW p, Sound(p), NEW q, NEW l, NEW f, NEW w, Shows(q, p, l, f, w)
  PROVE  Sound(q)
BY StaysPointing DEF Sound, Shows, SameSelection

LEMMA PutFlags ==
  ASSUME NEW p \in Pages
  PROVE  /\ Shows([p EXCEPT !.level = "databases"], p, "databases", p.search, p.loading)
         /\ \A f \in BOOLEAN : Shows([p EXCEPT !.search = f], p, p.level, f, p.loading)
         /\ \A w \in BOOLEAN : Shows([p EXCEPT !.loading = w], p, p.level, p.search, w)
BY DEF Shows, SameLists, SameCursors, SameSelection, Pages

LEMMA FlagsSound ==
  ASSUME NEW p, Sound(p)
  PROVE  /\ Sound([p EXCEPT !.level = "databases"])
         /\ \A f \in BOOLEAN : Sound([p EXCEPT !.search = f]) /\ Sound([p EXCEPT !.loading = f])
BY PutFlags, ShowsSound DEF Sound

(* The search gets another text, and the cursor of the tables follows it.  *)
LEMMA SearchSound ==
  ASSUME NEW p, Sound(p), NEW t \in Queries, NEW m \in {0, p.tableMark}, NEW s \in Pages,
         s.dbs = p.dbs, s.tables = p.tables, s.filter = t, SameSelection(s, p),
         s.dbIndex = p.dbIndex, s.dbMark = p.dbMark, s.tableIndex = p.tableIndex, s.tableMark = m
  PROVE  Sound(EnsureTableVisible(s))
<1>1. /\ s.dbs # <<>> => s.dbIndex \in 1..Len(s.dbs)
      /\ {s.tableIndex, s.tableMark} \subseteq 0..Len(s.tables)
      /\ s.tables # <<>> => s.tableIndex \in 1..Len(s.tables)
      /\ Covers(s.selDbs, s.selTables)
  BY PageFields, ListFacts DEF Sound, Pointing, SameSelection
<1>2. CASE VisibleTables(s) = {}
  BY <1>1, <1>2 DEF EnsureTableVisible, Sound, Pointing
<1>3. CASE VisibleTables(s) # {}
  <2> DEFINE visible == VisibleTables(s)
             i == IF s.tableIndex \in visible THEN s.tableIndex ELSE Min(visible)
             k == IF s.tableMark \in visible THEN s.tableMark ELSE 0
             h == [s EXCEPT !.tableIndex = i]
             q == [h EXCEPT !.tableMark = k]
  <2>1. visible \subseteq 1..Len(s.tables) /\ Len(s.tables) \in Nat /\ i \in visible
    BY <1>3, VisibleFacts, VisibleEnds
  <2>2. i \in Nat /\ k \in 0..Len(s.tables) /\ k \in Nat /\ i \in 0..Len(s.tables)
        /\ i \in 1..Len(s.tables)
    BY <2>1
  <2>3. EnsureTableVisible(s) = q
    BY <1>3 DEF EnsureTableVisible
  <2> HIDE DEF i, k
  <2>4. Points(h, s, s.dbIndex, s.dbMark, i, s.tableMark)
    BY <2>2, PutTableIndex
  <2> HIDE DEF h
  <2>5. Points(q, h, h.dbIndex, h.dbMark, h.tableIndex, k)
    BY <2>2, <2>4, PutTableMark DEF Points
  <2> HIDE DEF q, visible
  <2>6. /\ q \in Pages /\ SameLists(q, s) /\ SameSelection(q, s)
        /\ q.dbIndex = s.dbIndex /\ q.tableIndex = i /\ q.tableMark = k
    BY <2>4, <2>5 DEF Points, SameLists, SameSelection
  <2>7. VisibleTables(q) = visible
    BY <2>6 DEF VisibleTables, SameLists, visible
  <2> QED
    BY <1>1, <2>1, <2>2, <2>3, <2>6, <2>7 DEF Sound, Pointing, SameLists, SameSelection
<1> QED
  BY <1>2, <1>3

LEMMA TypeSearchSound ==
  ASSUME NEW p, Sound(p), NEW t \in Queries
  PROVE  Sound(EnsureTableVisible([p EXCEPT !.filter = t]))
<1> DEFINE s == [p EXCEPT !.filter = t]
<1>1. /\ s \in Pages /\ SameCursors(s, p) /\ SameSelection(s, p)
      /\ s.dbs = p.dbs /\ s.tables = p.tables /\ s.filter = t
  BY DEF Pages, Sound, SameCursors, SameSelection
<1> HIDE DEF s
<1>2. Sound(EnsureTableVisible(s))
  BY <1>1, SearchSound DEF SameCursors
<1> QED
  BY <1>2 DEF s

LEMMA ClearSearchSound ==
  ASSUME NEW p, Sound(p)
  PROVE  Sound(EnsureTableVisible([p EXCEPT !.filter = TableNames, !.tableMark = 0]))
<1> DEFINE h == [p EXCEPT !.filter = TableNames]
           s == [h EXCEPT !.tableMark = 0]
<1>1. /\ h \in Pages /\ SameCursors(h, p) /\ SameSelection(h, p)
      /\ h.dbs = p.dbs /\ h.tables = p.tables /\ h.filter = TableNames
  BY ScopeAssumption DEF Pages, Sound, SameCursors, SameSelection
<1> HIDE DEF h
<1>2. Points(s, h, h.dbIndex, h.dbMark, h.tableIndex, 0)
  BY <1>1, PutTableMark
<1> HIDE DEF s
<1>3. /\ s \in Pages /\ SameSelection(s, p) /\ s.dbs = p.dbs /\ s.tables = p.tables
      /\ s.filter = TableNames /\ s.dbIndex = p.dbIndex /\ s.dbMark = p.dbMark
      /\ s.tableIndex = p.tableIndex /\ s.tableMark = 0
  BY <1>1, <1>2 DEF Points, SameLists, SameSelection, SameCursors
<1>4. Sound(EnsureTableVisible(s))
  BY <1>3, SearchSound, ScopeAssumption
<1> QED
  BY <1>4 DEF s, h

LEMMA ShowTablesSound ==
  ASSUME Sound(scope), NEW d \in DatabaseNames
  PROVE  Sound(ShowTables(d))
<1> DEFINE i == IF TablesOf[d] = <<>> THEN 0 ELSE 1
           q == ShowTables(d)
<1>1. TablesOf[d] \in Lists /\ TableNames \in Queries
  BY ScopeAssumption DEF Lists
<1>2. /\ q \in Pages /\ q.tables = TablesOf[d] /\ q.tableIndex = i /\ q.tableMark = 0
      /\ q.filter = TableNames /\ SameSelection(q, scope)
      /\ q.dbs = scope.dbs /\ q.dbIndex = scope.dbIndex
  <2>1. i \in Nat /\ scope \in Pages
    BY DEF Sound
  <2> HIDE DEF i
  <2>2. q = [scope EXCEPT !.loading = FALSE, !.tables = TablesOf[d], !.level = "tables",
                          !.tableIndex = i, !.tableMark = 0, !.filter = TableNames,
                          !.search = FALSE]
    BY DEF ShowTables, i
  <2> HIDE DEF q
  <2> DEFINE a == [scope EXCEPT !.loading = FALSE]
             b == [a EXCEPT !.tables = TablesOf[d]]
             c == [b EXCEPT !.level = "tables"]
             e == [c EXCEPT !.tableIndex = i]
             f == [e EXCEPT !.tableMark = 0]
             g == [f EXCEPT !.filter = TableNames]
             h == [g EXCEPT !.search = FALSE]
             Still(x) == SameSelection(x, scope) /\ x.dbs = scope.dbs /\ x.dbIndex = scope.dbIndex
  <2>3. q = h
    BY <2>2
  <2>4. a \in Pages /\ Still(a)
    BY <2>1 DEF Pages, SameSelection
  <2> HIDE DEF a
  <2>5. b \in Pages /\ Still(b) /\ b.tables = TablesOf[d]
    BY <1>1, <2>4 DEF Pages, SameSelection
  <2> HIDE DEF b
  <2>6. c \in Pages /\ Still(c) /\ c.tables = TablesOf[d]
    BY <2>5 DEF Pages, SameSelection
  <2> HIDE DEF c
  <2>7. e \in Pages /\ Still(e) /\ e.tables = TablesOf[d] /\ e.tableIndex = i
    BY <2>1, <2>6 DEF Pages, SameSelection
  <2> HIDE DEF e
  <2>8. f \in Pages /\ Still(f) /\ f.tables = TablesOf[d] /\ f.tableIndex = i /\ f.tableMark = 0
    BY <2>7 DEF Pages, SameSelection
  <2> HIDE DEF f
  <2>9. g \in Pages /\ Still(g) /\ g.tables = TablesOf[d] /\ g.tableIndex = i /\ g.tableMark = 0
        /\ g.filter = TableNames
    BY <1>1, <2>8 DEF Pages, SameSelection
  <2> HIDE DEF g
  <2>10. h \in Pages /\ Still(h) /\ h.tables = TablesOf[d] /\ h.tableIndex = i /\ h.tableMark = 0
         /\ h.filter = TableNames
    BY <2>9 DEF Pages, SameSelection
  <2> QED
    BY <2>3, <2>10
<1> HIDE DEF q
<1>3. Len(q.tables) \in Nat /\ (q.tables = <<>> <=> Len(q.tables) = 0)
  BY <1>1, <1>2, ListFacts
<1>4. {q.tableIndex, q.tableMark} \subseteq 0..Len(q.tables)
      /\ (q.tables # <<>> => q.tableIndex \in 1..Len(q.tables))
  BY <1>2, <1>3
<1>5. VisibleTables(q) # {} => q.tableIndex \in VisibleTables(q)
  <2>1. VisibleTables(q) = 1..Len(q.tables)
    BY <1>1, <1>2, ListFacts DEF VisibleTables
  <2> QED
    BY <1>2, <1>3, <1>4, <2>1
<1>6. Pointing(q) /\ Covers(q.selDbs, q.selTables)
  BY <1>2, <1>4, <1>5 DEF Pointing, Sound, SameSelection
<1> QED
  BY <1>2, <1>6 DEF Sound, q

LEMMA DatabasesSound ==
  ASSUME Sound(scope)
  PROVE  Sound([scope EXCEPT !.loading = FALSE, !.dbs = Granted,
                             !.dbIndex = IF Granted = <<>> THEN 0 ELSE 1, !.dbMark = 0])
<1> DEFINE i == IF Granted = <<>> THEN 0 ELSE 1
           a == [scope EXCEPT !.loading = FALSE]
           b == [a EXCEPT !.dbs = Granted]
           c == [b EXCEPT !.dbIndex = i]
           q == [c EXCEPT !.dbMark = 0]
           Still(x) == /\ SameSelection(x, scope) /\ x.tables = scope.tables
                       /\ x.filter = scope.filter /\ x.tableIndex = scope.tableIndex
                       /\ x.tableMark = scope.tableMark
<1>1. q = [scope EXCEPT !.loading = FALSE, !.dbs = Granted, !.dbIndex = i, !.dbMark = 0]
  OBVIOUS
<1>2. i \in 0..Len(Granted) /\ 0 \in 0..Len(Granted) /\ (Granted # <<>> => i \in 1..Len(Granted))
  BY ListFacts
<1> HIDE DEF i
<1>3. a \in Pages /\ Still(a)
  BY DEF Pages, SameSelection, Sound
<1> HIDE DEF a
<1>4. b \in Pages /\ Still(b) /\ b.dbs = Granted
  BY <1>3 DEF Pages, SameSelection
<1> HIDE DEF b
<1>5. c \in Pages /\ Still(c) /\ c.dbs = Granted /\ c.dbIndex = i
  BY <1>2, <1>4 DEF Pages, SameSelection
<1> HIDE DEF c
<1>6. q \in Pages /\ Still(q) /\ q.dbs = Granted /\ q.dbIndex = i
  BY <1>2, <1>5 DEF Pages, SameSelection
<1> HIDE DEF q
<1>7. VisibleTables(q) = VisibleTables(scope)
  BY <1>6 DEF VisibleTables
<1>8. Sound(q)
  BY <1>2, <1>6, <1>7 DEF Sound, Pointing, SameSelection
<1> QED
  BY <1>1, <1>8 DEF i

LEMMA LoadedFacts ==
  ASSUME NEW s \in Pages, NEW cfg \in EnvScopes
  PROVE  /\ Selects(Loaded(s, cfg), s,
                    cfg.dbs \cup {d \in DatabaseNames : cfg.tables[d] # {}}, cfg.tables)
         /\ Covers(cfg.dbs \cup {d \in DatabaseNames : cfg.tables[d] # {}}, cfg.tables)
<1> DEFINE D == cfg.dbs \cup {d \in DatabaseNames : cfg.tables[d] # {}}
<1>1. D \in SUBSET DatabaseNames /\ cfg.tables \in Selections /\ Covers(D, cfg.tables)
  BY ScopeAssumption DEF Selections, Covers
<1>2. Loaded(s, cfg) = [s EXCEPT !.selDbs = D, !.selTables = cfg.tables]
  BY DEF Loaded
<1> HIDE DEF D
<1>3. Selects(Loaded(s, cfg), s, D, cfg.tables)
  BY <1>1, <1>2, PutBoth
<1> QED
  BY <1>1, <1>3 DEF D

-----------------------------------------------------------------------------
LEMMA ScopeStart == ScopeInit => ScopeInv
<1> SUFFICES ASSUME ScopeInit PROVE ScopeInv
  OBVIOUS
<1> DEFINE p == [level |-> "databases", dbs |-> <<>>, tables |-> <<>>,
                 dbIndex |-> 0, dbMark |-> 0, tableIndex |-> 0, tableMark |-> 0,
                 filter |-> TableNames, search |-> FALSE, loading |-> FALSE,
                 selDbs |-> {}, selTables |-> NoTables]
<1>1. PICK cfg \in EnvScopes : scope = Loaded(p, cfg)
  BY DEF ScopeInit
<1>2. p \in Pages
  BY ScopeAssumption, ListFacts DEF Pages, Selections, NoTables
<1>3. Pointing(p) /\ Covers(p.selDbs, p.selTables)
  BY DEF Pointing, Covers, NoTables, VisibleTables
<1> HIDE DEF p
<1>4. Sound(scope)
  BY <1>1, <1>2, <1>3, LoadedFacts, SelectsSound DEF Sound
<1>5. listing \in BOOLEAN /\ asked \in [DatabaseNames -> 0..MaxAsked]
  <2>1. listing = FALSE /\ asked = [d \in DatabaseNames |-> 0]
    BY DEF ScopeInit
  <2>2. 0 \in 0..MaxAsked
    BY ScopeAssumption
  <2> QED
    BY <2>1, <2>2
<1> QED
  BY <1>4, <1>5 DEF ScopeInv

LEMMA ScopeStep == ScopeInv /\ [ScopeNext]_scopeVars => ScopeInv'
<1> SUFFICES ASSUME ScopeInv, [ScopeNext]_scopeVars
             PROVE  ScopeInv'
  OBVIOUS
<1>1. Sound(scope) /\ listing \in BOOLEAN /\ asked \in [DatabaseNames -> 0..MaxAsked]
  BY DEF ScopeInv
<1>2. Sound(scope')
  <2>1. CASE ScopeKey
    <3>1. \A delta \in Moves : delta \in Int
      BY ScopeAssumption DEF Moves
    <3> QED
      BY <1>1, <2>1, <3>1, ToggleSound, SelectAllSound, SelectMarkedSound, ClearSound, ClearAllSound,
         MarkStartSound, VisualRangeSound, MoveSelectionSound, MoveToEndSound DEF ScopeKey
  <2>2. CASE BackToDatabases \/ OpenDatabase \/ EnterStep \/ OpenSearch \/ CloseSearch
    BY <1>1, <2>2, FlagsSound DEF BackToDatabases, OpenDatabase, EnterStep, OpenSearch, CloseSearch
  <2>3. CASE TypeSearch
    BY <1>1, <2>3, TypeSearchSound DEF TypeSearch
  <2>4. CASE ClearSearch
    BY <1>1, <2>4, ClearSearchSound DEF ClearSearch
  <2>5. CASE DatabasesListed
    BY <1>1, <2>5, FlagsSound, DatabasesSound DEF DatabasesListed
  <2>6. CASE TablesListed
    BY <1>1, <2>6, FlagsSound, ShowTablesSound DEF TablesListed
  <2>7. CASE ScopeReloaded
    <3>1. PICK cfg \in EnvScopes : scope' = Loaded(scope, cfg)
      BY <2>7 DEF ScopeReloaded
    <3> QED
      BY <1>1, <3>1, LoadedFacts, SelectsSound DEF Sound
  <2>8. CASE UNCHANGED scopeVars
    BY <1>1, <2>8 DEF scopeVars
  <2> QED
    BY <2>1, <2>2, <2>3, <2>4, <2>5, <2>6, <2>7, <2>8 DEF ScopeNext
<1>3. listing' \in BOOLEAN
  BY <1>1 DEF ScopeNext, ScopeKey, BackToDatabases, OpenDatabase, EnterStep, OpenSearch, TypeSearch,
     ClearSearch, CloseSearch, DatabasesListed, TablesListed, ScopeReloaded, scopeVars
<1>4. asked' \in [DatabaseNames -> 0..MaxAsked]
  <2>1. CASE OpenDatabase
    <3>1. Current(scope) \in DatabaseNames
      BY <1>1, <2>1, CurrentFacts DEF OpenDatabase
    <3>2. asked[Current(scope)] + 1 \in 0..MaxAsked
      BY <1>1, <2>1, <3>1, ScopeAssumption DEF OpenDatabase
    <3> QED
      BY <1>1, <2>1, <3>1, <3>2 DEF OpenDatabase
  <2>2. CASE TablesListed
    <3>1. PICK d \in DatabaseNames : asked[d] > 0 /\ asked' = [asked EXCEPT ![d] = asked[d] - 1]
      BY <2>2 DEF TablesListed
    <3>2. asked[d] - 1 \in 0..MaxAsked
      BY <1>1, <3>1, ScopeAssumption
    <3> QED
      BY <1>1, <3>1, <3>2
  <2> QED
    BY <1>1, <2>1, <2>2 DEF ScopeNext, ScopeKey, BackToDatabases, EnterStep, OpenSearch, TypeSearch,
       ClearSearch, CloseSearch, DatabasesListed, ScopeReloaded, scopeVars
<1> QED
  BY <1>2, <1>3, <1>4 DEF ScopeInv, Sound, Pointing, Covers, VisibleTables

LEMMA ScopeAlways == ScopeSpec => []ScopeInv
<1> QED
  BY ScopeStart, ScopeStep, PTL DEF ScopeSpec

LEMMA ScopeTyped == ScopeInv => ScopeTypeOK
<1> SUFFICES ASSUME ScopeInv PROVE ScopeTypeOK
  OBVIOUS
<1>1. scope \in Pages /\ {scope.tableIndex, scope.tableMark} \subseteq 0..Len(scope.tables)
  BY DEF ScopeInv, Sound, Pointing
<1> QED
  BY <1>1, PageFields DEF ScopeInv, ScopeTypeOK, Lists, Selections

(* The fields of the scope page keep their types, for any databases,       *)
(* tables and searches.                                                    *)
THEOREM ScopeTypeCorrect == ScopeSpec => []ScopeTypeOK
BY ScopeTyped, ScopeAlways, PTL

(* A backup restricted to some tables of a database also lists that        *)
(* database, after any sequence of keys, answers and reloads.              *)
THEOREM TablesAlwaysCovered == ScopeSpec => []TablesImplyDatabase
<1>1. ScopeInv => TablesImplyDatabase
  <2> SUFFICES ASSUME ScopeInv, NEW d \in DatabaseNames, AppliedScope(scope).tables[d] # {}
               PROVE  d \in AppliedScope(scope).dbs
    BY DEF TablesImplyDatabase
  <2>1. Covers(scope.selDbs, scope.selTables)
    BY DEF ScopeInv, Sound
  <2> QED
    BY <2>1 DEF Covers, AppliedScope, NoTables
<1> QED
  BY <1>1, ScopeAlways, PTL

(* No key and no late answer makes the page index out of its lists, nor    *)
(* leaves the cursor on a table that the search hides.                     *)
THEOREM CursorAlwaysShown == ScopeSpec => []CursorShown
<1>1. ScopeInv => CursorShown
  <2> SUFFICES ASSUME ScopeInv PROVE CursorShown
    OBVIOUS
  <2>1. scope \in Pages /\ Pointing(scope)
    BY DEF ScopeInv, Sound
  <2>2. /\ DOMAIN scope.tables = 1..Len(scope.tables)
        /\ scope.dbs # <<>> => DOMAIN scope.dbs = 1..Len(scope.dbs)
    BY <2>1, PageFields, ListFacts
  <2> QED
    BY <2>1, <2>2 DEF Pointing, CursorShown
<1> QED
  BY <1>1, ScopeAlways, PTL

-----------------------------------------------------------------------------
(* The schedule of the timer, from the editor to systemd.                  *)
(* The schedule lock: one transaction at a time is between its read and    *)
(* its end.                                                                *)
InTransaction == Forward \cup Undoing
OneApplier ==
  \A a, b \in Appliers : tx[a].phase \in InTransaction /\ tx[b].phase \in InTransaction => a = b

(* What a transaction holds in its memory from its load and its read on.   *)
Prepared(t) ==
  /\ t.phase # "idle" => t.cfg \in Configs /\ t.cfg.plan \in Rendered
  /\ t.phase \in InTransaction \ {"read"} => t.oldEnv \in Configs

(* How far the three parties are at each phase of the transaction t, when  *)
(* e, d and l are .env, the drop-in and the timer that systemd runs.       *)
Stage(t, e, d, l) ==
  /\ t.phase \in {"save", "reload", "restart", "verify", "audit"} => d = t.cfg.plan
  /\ t.phase \in {"reload", "restart", "verify", "audit"} => t.foreign \/ e = t.cfg
  /\ t.phase = "audit" => l = t.cfg.plan /\ ~strange
  /\ t.phase \in {"undoEnv", "undoReload", "undoRestart"} => t.failed \/ d = t.oldTimer
  /\ t.phase \in {"undoReload", "undoRestart"} => t.failed \/ t.foreign \/ e = t.oldEnv
  /\ t.phase = "undoRestart" => t.failed \/ l = d

ApplyInv ==
  /\ ApplyTypeOK /\ OneApplier
  /\ \A a \in Appliers : Prepared(tx[a]) /\ Stage(tx[a], env, dropin, loaded)

-----------------------------------------------------------------------------
Transactions == [phase : Before \cup InTransaction,
                 cfg : Configs \cup {Absent}, oldTimer : Calendars,
                 oldEnv : Configs \cup {Absent}, active : BOOLEAN,
                 failed : BOOLEAN, foreign : BOOLEAN]

LEMMA ApplyTypeUnfolded ==
  ApplyTypeOK <=> /\ env \in Configs /\ over \in Plans \cup {Absent}
                  /\ dropin \in Calendars /\ loaded \in Calendars
                  /\ strange \in BOOLEAN /\ active \in BOOLEAN
                  /\ tx \in [Appliers -> Transactions]
BY DEF ApplyTypeOK, Transactions, InTransaction

(* The new record of a transaction: the old one t in phase p, with the     *)
(* flag of the rollback f.                                                 *)
Moved(g, t, p, f) ==
  /\ g \in Transactions
  /\ g.phase = p /\ g.cfg = t.cfg /\ g.oldTimer = t.oldTimer /\ g.oldEnv = t.oldEnv
  /\ g.active = t.active /\ g.failed = f /\ g.foreign = t.foreign

LEMMA GoesTo ==
  ASSUME tx \in [Appliers -> Transactions], NEW a \in Appliers,
         NEW p \in Before \cup InTransaction, To(a, p)
  PROVE  \E g : Moved(g, tx[a], p, tx[a].failed) /\ tx' = [tx EXCEPT ![a] = g]
<1> DEFINE t == tx[a]
           g == [t EXCEPT !.phase = p]
<1>1. t \in Transactions
  OBVIOUS
<1>2. tx' = [tx EXCEPT ![a] = g]
  BY DEF To
<1> HIDE DEF t
<1>3. Moved(g, t, p, t.failed)
  BY <1>1 DEF Moved, Transactions
<1> QED
  BY <1>2, <1>3 DEF t

LEMMA GoesSpoilt ==
  ASSUME tx \in [Appliers -> Transactions], NEW a \in Appliers,
         NEW p \in Before \cup InTransaction, Spoil(a, p)
  PROVE  \E g : Moved(g, tx[a], p, TRUE) /\ tx' = [tx EXCEPT ![a] = g]
<1> DEFINE t == tx[a]
           h == [t EXCEPT !.phase = p]
           g == [h EXCEPT !.failed = TRUE]
<1>1. t \in Transactions
  OBVIOUS
<1>2. tx' = [tx EXCEPT ![a] = g]
  BY DEF Spoil
<1> HIDE DEF t
<1>3. Moved(h, t, p, t.failed)
  BY <1>1 DEF Moved, Transactions
<1> HIDE DEF h
<1>4. Moved(g, t, p, TRUE)
  BY <1>3 DEF Moved, Transactions
<1> QED
  BY <1>2, <1>4 DEF t

LEMMA IdleTransaction == Idle \in Transactions /\ Idle.phase = "idle"
BY DEF Idle, Transactions, Before, Calendars

(* A step of one applier, which alone may touch the files: what it must    *)
(* leave for the invariant.                                                *)
LEMMA ApplierStep ==
  ASSUME ApplyInv, NEW a \in Appliers, NEW g \in Transactions,
         tx' = [tx EXCEPT ![a] = g], strange' = strange, over' = over,
         env' \in Configs, dropin' \in Calendars, loaded' \in Calendars, active' \in BOOLEAN,
         tx[a].phase \in InTransaction \/ UNCHANGED <<env, dropin, loaded>>,
         g.phase \in InTransaction => tx[a].phase \in InTransaction \/ ~Held,
         Prepared(g), Stage(g, env', dropin', loaded')
  PROVE  ApplyInv'
<1>1. \A b \in Appliers : tx'[b] = IF b = a THEN g ELSE tx[b]
  BY ApplyTypeUnfolded DEF ApplyInv
<1>2. tx' \in [Appliers -> Transactions]
  BY ApplyTypeUnfolded DEF ApplyInv
<1>3. ApplyTypeOK'
  BY <1>2, ApplyTypeUnfolded
  DEF ApplyInv, ApplyTypeOK, Transactions, InTransaction
<1>4. ASSUME NEW b \in Appliers, b # a, g.phase \in InTransaction \/ tx[a].phase \in InTransaction
      PROVE  tx[b].phase \notin InTransaction
  BY <1>4 DEF ApplyInv, OneApplier, Held, InTransaction
<1>5. OneApplier'
  BY <1>1, <1>4 DEF ApplyInv, OneApplier
<1>6. ASSUME NEW b \in Appliers
      PROVE  Prepared(tx'[b]) /\ Stage(tx'[b], env', dropin', loaded')
  <2>1. CASE b = a
    BY <1>1, <2>1
  <2>2. CASE b # a
    <3>1. tx'[b] = tx[b] /\ Prepared(tx[b]) /\ Stage(tx[b], env, dropin, loaded)
      BY <1>1, <2>2 DEF ApplyInv
    <3>2. CASE tx[a].phase \in InTransaction
      BY <1>4, <2>2, <3>1, <3>2 DEF Stage, InTransaction, Forward, Undoing
    <3> QED
      BY <3>1, <3>2
  <2> QED
    BY <2>1, <2>2
<1>7. (\A b \in Appliers : Prepared(tx[b]) /\ Stage(tx[b], env, dropin, loaded))'
  BY <1>6 DEF Stage, Prepared
<1> QED
  BY <1>3, <1>5, <1>7 DEF ApplyInv

(* The end of a transaction, with whatever it left in the files.           *)
LEMMA EndStep ==
  ASSUME ApplyInv, NEW a \in Appliers, End(a), strange' = strange, over' = over,
         env' \in Configs, dropin' \in Calendars, loaded' \in Calendars, active' \in BOOLEAN,
         tx[a].phase \in InTransaction \/ UNCHANGED <<env, dropin, loaded>>
  PROVE  ApplyInv'
<1>1. Prepared(Idle) /\ Stage(Idle, env', dropin', loaded') /\ Idle.phase \notin InTransaction
  BY IdleTransaction DEF Prepared, Stage, InTransaction, Forward, Undoing
<1> QED
  BY <1>1, IdleTransaction, ApplierStep DEF End

-----------------------------------------------------------------------------
LEMMA ApplyStart == ApplyInit => ApplyInv
<1> SUFFICES ASSUME ApplyInit PROVE ApplyInv
  OBVIOUS
<1>1. tx \in [Appliers -> Transactions] /\ \A a \in Appliers : tx[a].phase = "idle"
  BY IdleTransaction DEF ApplyInit
<1>2. ApplyTypeOK
  BY <1>1, ApplyTypeUnfolded DEF ApplyInit, Calendars
<1> QED
  BY <1>1, <1>2 DEF ApplyInv, OneApplier, Prepared, Stage, InTransaction, Forward, Undoing

LEMMA ApplyTypes ==
  ASSUME ApplyInv, NEW a \in Appliers
  PROVE  /\ env \in Configs /\ dropin \in Calendars /\ loaded \in Calendars /\ active \in BOOLEAN
         /\ tx \in [Appliers -> Transactions] /\ tx[a] \in Transactions
         /\ tx[a].cfg \in Configs \cup {Absent} /\ tx[a].oldTimer \in Calendars
         /\ Prepared(tx[a]) /\ Stage(tx[a], env, dropin, loaded)
<1>1. tx[a] \in Transactions
  BY ApplyTypeUnfolded DEF ApplyInv
<1> QED
  BY <1>1, ApplyTypeUnfolded DEF ApplyInv, Transactions

LEMMA LoadSettingsStep ==
  ASSUME ApplyInv, NEW a \in Appliers, LoadSettings(a)
  PROVE  ApplyInv'
<1> DEFINE t == tx[a]
           h == [t EXCEPT !.phase = "lock"]
           g == [h EXCEPT !.cfg = Effective]
<1>1. Effective \in Configs /\ Effective.plan \in Rendered
  BY ApplyTypeUnfolded DEF ApplyInv, Effective, Configs, LoadSettings
<1>2. t \in Transactions
  BY ApplyTypes
<1>3. tx' = [tx EXCEPT ![a] = g]
  BY ApplyTypes DEF LoadSettings
<1> HIDE DEF t
<1>4. h \in Transactions /\ h.phase = "lock"
  BY <1>2 DEF Transactions, Before
<1> HIDE DEF h
<1>5. g \in Transactions /\ g.phase = "lock" /\ g.cfg = Effective
  BY <1>1, <1>4 DEF Transactions
<1> HIDE DEF g
<1>6. Prepared(g) /\ Stage(g, env, dropin, loaded) /\ g.phase \notin InTransaction
  BY <1>1, <1>5 DEF Prepared, Stage, InTransaction, Forward, Undoing
<1>7. UNCHANGED filesVars
  BY DEF LoadSettings
<1> QED
  BY <1>3, <1>5, <1>6, <1>7, ApplyTypes, ApplierStep DEF filesVars

LEMMA TakeLockStep ==
  ASSUME ApplyInv, NEW a \in Appliers, TakeScheduleLock(a)
  PROVE  ApplyInv'
<1>1. PICK g : Moved(g, tx[a], "read", tx[a].failed) /\ tx' = [tx EXCEPT ![a] = g]
  BY GoesTo, ApplyTypes DEF TakeScheduleLock, InTransaction, Forward
<1>2. Prepared(g) /\ Stage(g, env, dropin, loaded)
  BY <1>1, ApplyTypes DEF Moved, Prepared, Stage, TakeScheduleLock, InTransaction, Forward, Undoing
<1> QED
  BY <1>1, <1>2, ApplyTypes, ApplierStep DEF TakeScheduleLock, filesVars, Moved

LEMMA ReadOldStep ==
  ASSUME ApplyInv, NEW a \in Appliers, ReadOld(a)
  PROVE  ApplyInv'
<1>0. UNCHANGED filesVars /\ tx[a].phase = "read" /\ "read" \in InTransaction
  BY DEF ReadOld, InTransaction, Forward
<1>1. CASE End(a)
  BY <1>0, <1>1, ApplyTypes, EndStep DEF filesVars
<1>2. CASE ~End(a)
  <2> DEFINE t == tx[a]
             h == [t EXCEPT !.phase = "write", !.oldTimer = dropin]
             g == [h EXCEPT !.oldEnv = env, !.active = active]
  <2>1. tx' = [tx EXCEPT ![a] = g]
    BY <1>2, ApplyTypes DEF ReadOld
  <2>2. t \in Transactions /\ Prepared(t) /\ t.phase # "idle"
    BY <1>0, ApplyTypes
  <2> HIDE DEF t
  <2>3. h \in Transactions /\ h.phase = "write" /\ h.cfg = t.cfg
    BY <2>2, ApplyTypes DEF Transactions, InTransaction, Forward
  <2> HIDE DEF h
  <2>4. g \in Transactions /\ g.phase = "write" /\ g.cfg = t.cfg /\ g.oldEnv = env
    BY <2>3, ApplyTypes DEF Transactions
  <2> HIDE DEF g
  <2>5. Prepared(g) /\ Stage(g, env, dropin, loaded)
    BY <2>2, <2>4, ApplyTypes DEF Prepared, Stage
  <2> QED
    BY <1>0, <2>1, <2>4, <2>5, ApplyTypes, ApplierStep DEF filesVars
<1> QED
  BY <1>1, <1>2

LEMMA WriteDropInStep ==
  ASSUME ApplyInv, NEW a \in Appliers, WriteDropIn(a)
  PROVE  ApplyInv'
<1>1. /\ tx[a].phase = "write" /\ "write" \in InTransaction /\ tx[a].cfg.plan \in Calendars
      /\ UNCHANGED <<env, over, loaded, strange, active>> /\ dropin' \in Calendars
  BY ApplyTypes DEF WriteDropIn, Prepared, InTransaction, Forward, Calendars
<1>2. CASE End(a)
  BY <1>1, <1>2, ApplyTypes, EndStep
<1>3. CASE dropin' = tx[a].cfg.plan /\ To(a, "save")
  <2>1. PICK g : Moved(g, tx[a], "save", tx[a].failed) /\ tx' = [tx EXCEPT ![a] = g]
    BY <1>3, GoesTo, ApplyTypes DEF InTransaction, Forward
  <2>2. Prepared(g) /\ Stage(g, env', dropin', loaded')
    BY <1>1, <1>3, <2>1, ApplyTypes DEF Moved, Prepared, Stage, InTransaction, Forward, Undoing
  <2> QED
    BY <1>1, <2>1, <2>2, ApplyTypes, ApplierStep DEF Moved
<1> QED
  BY <1>2, <1>3 DEF WriteDropIn

(* A step of a transaction that goes on to another of its phases, with the *)
(* flag of the rollback f.                                                 *)
LEMMA GoesOn ==
  ASSUME ApplyInv, NEW a \in Appliers, NEW p \in InTransaction \ {"read"}, NEW f \in BOOLEAN,
         NEW g, Moved(g, tx[a], p, f), tx' = [tx EXCEPT ![a] = g],
         tx[a].phase \in InTransaction \ {"read"},
         strange' = strange, over' = over,
         env' \in Configs, dropin' \in Calendars, loaded' \in Calendars, active' \in BOOLEAN,
         Stage(g, env', dropin', loaded')
  PROVE  ApplyInv'
<1>1. Prepared(g)
  BY ApplyTypes DEF Moved, Prepared, InTransaction, Forward, Undoing
<1> QED
  BY <1>1, ApplierStep DEF Moved

LEMMA ForwardStep ==
  ASSUME ApplyInv, NEW a \in Appliers,
         SaveSettings(a) \/ Reload(a) \/ RestartTimer(a) \/ Verify(a)
  PROVE  ApplyInv'
<1> DEFINE t == tx[a]
<1>1. /\ t.phase \in {"save", "reload", "restart", "verify"} /\ t \in Transactions
      /\ Prepared(t) /\ Stage(t, env, dropin, loaded) /\ t.failed \in BOOLEAN
  BY ApplyTypes DEF SaveSettings, Reload, RestartTimer, Verify, Transactions
<1>2. t.phase \in InTransaction \ {"read"}
  BY <1>1 DEF InTransaction, Forward
<1>3. t.cfg \in Configs
  BY <1>1 DEF Prepared
<1>4. /\ strange' = strange /\ over' = over /\ dropin' = dropin
      /\ env' \in Configs /\ loaded' \in Calendars /\ active' \in BOOLEAN /\ dropin' \in Calendars
  BY <1>3, ApplyTypes DEF SaveSettings, Reload, RestartTimer, Verify, filesVars
<1>5. ASSUME To(a, "undoTimer")
      PROVE  ApplyInv'
  <2>1. "undoTimer" \in InTransaction \ {"read"}
    BY DEF InTransaction, Undoing
  <2>2. PICK g : Moved(g, t, "undoTimer", t.failed) /\ tx' = [tx EXCEPT ![a] = g]
    BY <1>5, <2>1, GoesTo, ApplyTypes
  <2>3. Stage(g, env', dropin', loaded')
    BY <2>2 DEF Moved, Stage
  <2> QED
    BY <1>1, <1>2, <1>4, <2>1, <2>2, <2>3, GoesOn
<1>6. ASSUME NEW p \in {"reload", "restart", "verify", "audit"}, To(a, p),
             t.foreign \/ env' = t.cfg, dropin = t.cfg.plan,
             p = "audit" => loaded' = t.cfg.plan /\ ~strange
      PROVE  ApplyInv'
  <2>1. p \in InTransaction \ {"read"}
    BY DEF InTransaction, Forward
  <2>2. PICK g : Moved(g, t, p, t.failed) /\ tx' = [tx EXCEPT ![a] = g]
    BY <1>6, <2>1, GoesTo, ApplyTypes
  <2>3. Stage(g, env', dropin', loaded')
    BY <1>4, <1>6, <2>2 DEF Moved, Stage
  <2> QED
    BY <1>1, <1>2, <1>4, <2>1, <2>2, <2>3, GoesOn
<1>7. CASE SaveSettings(a)
  BY <1>1, <1>5, <1>6, <1>7 DEF SaveSettings, Stage
<1>8. CASE Reload(a)
  BY <1>1, <1>5, <1>6, <1>8 DEF Reload, Stage
<1>9. CASE RestartTimer(a)
  BY <1>1, <1>5, <1>6, <1>9 DEF RestartTimer, Stage
<1>10. CASE Verify(a)
  BY <1>1, <1>5, <1>6, <1>10 DEF Verify, Stage, Drifted, filesVars
<1> QED
  BY <1>7, <1>8, <1>9, <1>10

LEMMA UndoStep ==
  ASSUME ApplyInv, NEW a \in Appliers, UndoTimer(a) \/ UndoEnv(a) \/ UndoReload(a)
  PROVE  ApplyInv'
<1> DEFINE t == tx[a]
<1>1. /\ t.phase \in {"undoTimer", "undoEnv", "undoReload"} /\ t \in Transactions
      /\ Prepared(t) /\ Stage(t, env, dropin, loaded) /\ t.failed \in BOOLEAN
  BY ApplyTypes DEF UndoTimer, UndoEnv, UndoReload, Transactions
<1>2. t.phase \in InTransaction \ {"read"}
  BY <1>1 DEF InTransaction, Undoing
<1>3. t.oldEnv \in Configs /\ t.oldTimer \in Calendars
  BY <1>1, <1>2, ApplyTypes DEF Prepared
<1>4. /\ strange' = strange /\ over' = over
      /\ env' \in Configs /\ loaded' \in Calendars /\ active' \in BOOLEAN /\ dropin' \in Calendars
  BY <1>3, ApplyTypes DEF UndoTimer, UndoEnv, UndoReload
<1>5. ASSUME NEW p \in {"undoEnv", "undoReload", "undoRestart"},
             \/ To(a, p) /\ \A g : Moved(g, t, p, t.failed) => Stage(g, env', dropin', loaded')
             \/ Spoil(a, p)
      PROVE  ApplyInv'
  <2>1. p \in InTransaction \ {"read"}
    BY DEF InTransaction, Undoing
  <2>2. CASE Spoil(a, p)
    <3>1. PICK g : Moved(g, t, p, TRUE) /\ tx' = [tx EXCEPT ![a] = g]
      BY <2>1, <2>2, GoesSpoilt, ApplyTypes
    <3>2. Stage(g, env', dropin', loaded')
      BY <3>1 DEF Moved, Stage
    <3> QED
      BY <1>2, <1>4, <2>1, <3>1, <3>2, GoesOn
  <2>3. CASE ~Spoil(a, p)
    <3>1. PICK g : Moved(g, t, p, t.failed) /\ tx' = [tx EXCEPT ![a] = g]
      BY <1>5, <2>1, <2>3, GoesTo, ApplyTypes
    <3>2. Stage(g, env', dropin', loaded')
      BY <1>5, <2>3, <3>1
    <3> QED
      BY <1>1, <1>2, <1>4, <2>1, <3>1, <3>2, GoesOn
  <2> QED
    BY <2>2, <2>3
<1>6. CASE UndoTimer(a)
  <2>1. dropin' = t.oldTimer => \A g : Moved(g, t, "undoEnv", t.failed) => Stage(g, env', dropin', loaded')
    BY DEF Moved, Stage
  <2> QED
    BY <1>5, <1>6, <2>1 DEF UndoTimer
<1>7. CASE UndoEnv(a)
  <2>1. dropin' = dropin /\ t.phase = "undoEnv"
    BY <1>7 DEF UndoEnv
  <2>2. env' = t.oldEnv => \A g : Moved(g, t, "undoReload", t.failed) => Stage(g, env', dropin', loaded')
    BY <1>1, <2>1 DEF Moved, Stage
  <2> QED
    BY <1>5, <1>7, <2>2 DEF UndoEnv
<1>8. CASE UndoReload(a)
  <2>1. dropin' = dropin /\ env' = env /\ t.phase = "undoReload"
    BY <1>8 DEF UndoReload
  <2>2. loaded' = dropin => \A g : Moved(g, t, "undoRestart", t.failed) => Stage(g, env', dropin', loaded')
    BY <1>1, <2>1 DEF Moved, Stage
  <2> QED
    BY <1>5, <1>8, <2>2 DEF UndoReload
<1> QED
  BY <1>6, <1>7, <1>8

(* The steps that end a transaction.                                       *)
LEMMA EndsStep ==
  ASSUME ApplyInv, NEW a \in Appliers, Refuse(a) \/ Audit(a) \/ UndoRestart(a) \/ CrashApply(a)
  PROVE  ApplyInv'
<1>1. /\ End(a) /\ strange' = strange /\ over' = over /\ UNCHANGED <<env, dropin, loaded>>
      /\ active' \in BOOLEAN
  BY ApplyTypes DEF Refuse, Audit, UndoRestart, CrashApply, filesVars
<1> QED
  BY <1>1, ApplyTypes, EndStep

(* A writer outside of the transactions changes .env and marks them.       *)
LEMMA SaveOtherStep ==
  ASSUME ApplyInv, SaveOther
  PROVE  ApplyInv'
<1>1. env' \in Configs /\ UNCHANGED <<over, dropin, loaded, strange, active>>
  BY DEF SaveOther
<1>2. ASSUME NEW a \in Appliers
      PROVE  /\ tx'[a] \in Transactions /\ tx'[a].phase = tx[a].phase /\ tx'[a].cfg = tx[a].cfg
             /\ tx'[a].oldTimer = tx[a].oldTimer /\ tx'[a].oldEnv = tx[a].oldEnv
             /\ tx'[a].failed = tx[a].failed /\ tx'[a].foreign = (tx[a].phase \in InTransaction)
  <2> DEFINE t == tx[a]
             f == t.phase \in InTransaction
             g == [t EXCEPT !.foreign = f]
  <2>1. tx'[a] = g /\ t \in Transactions /\ f \in BOOLEAN
    BY ApplyTypes DEF SaveOther, InTransaction
  <2> HIDE DEF t, f
  <2>2. g \in Transactions /\ g.phase = t.phase /\ g.cfg = t.cfg /\ g.oldTimer = t.oldTimer
        /\ g.oldEnv = t.oldEnv /\ g.failed = t.failed /\ g.foreign = f
    BY <2>1 DEF Transactions
  <2> QED
    BY <2>1, <2>2 DEF t, f
<1>3. tx' \in [Appliers -> Transactions]
  <2>1. \E F : tx' = [a \in Appliers |-> F[a]]
    <3>1. tx' = [a \in Appliers |-> tx'[a]]
      BY DEF SaveOther
    <3> QED
      BY <3>1
  <2> QED
    BY <1>2, <2>1
<1>4. ApplyTypeOK'
  BY <1>1, <1>3, ApplyTypeUnfolded DEF ApplyInv, ApplyTypeOK, Transactions, InTransaction
<1>5. OneApplier'
  BY <1>2 DEF ApplyInv, OneApplier
<1>6. ASSUME NEW a \in Appliers
      PROVE  Prepared(tx'[a]) /\ Stage(tx'[a], env', dropin', loaded')
  <2>1. Prepared(tx'[a])
    BY <1>2, ApplyTypes DEF Prepared
  <2>2. CASE tx[a].phase \in InTransaction
    <3>1. tx'[a].foreign
      BY <1>2, <2>2
    <3> QED
      BY <1>1, <1>2, <2>1, <3>1, ApplyTypes DEF Stage
  <2>3. CASE tx[a].phase \notin InTransaction
    BY <1>2, <2>1, <2>3 DEF Stage, InTransaction, Forward, Undoing
  <2> QED
    BY <2>2, <2>3
<1>7. (\A a \in Appliers : Prepared(tx[a]) /\ Stage(tx[a], env, dropin, loaded))'
  BY <1>1, <1>6 DEF Prepared, Stage
<1> QED
  BY <1>4, <1>5, <1>7 DEF ApplyInv

LEMMA OverrideStep ==
  ASSUME ApplyInv,
         SaveTemporaryOverrides \/ ClearTemporaryOverrides \/ SwitchTimer \/ UNCHANGED applyVars
  PROVE  ApplyInv'
<1>1. /\ UNCHANGED <<env, dropin, loaded, strange, tx>>
      /\ over' \in Plans \cup {Absent} /\ active' \in BOOLEAN
  BY ApplyTypeUnfolded
  DEF ApplyInv, SaveTemporaryOverrides, ClearTemporaryOverrides, SwitchTimer, applyVars, filesVars
<1> QED
  BY <1>1 DEF ApplyInv, ApplyTypeOK, OneApplier, Prepared, Stage

LEMMA ApplyStep == ApplyInv /\ [ApplyNext]_applyVars => ApplyInv'
<1> SUFFICES ASSUME ApplyInv, [ApplyNext]_applyVars
             PROVE  ApplyInv'
  OBVIOUS
<1>1. ASSUME NEW a \in Appliers, ApplySteps(a)
      PROVE  ApplyInv'
  BY <1>1, LoadSettingsStep, TakeLockStep, ReadOldStep, WriteDropInStep, ForwardStep, UndoStep,
     EndsStep DEF ApplySteps
<1> QED
  BY <1>1, SaveOtherStep, OverrideStep DEF ApplyNext

LEMMA ApplyAlways == ApplySpec => []ApplyInv
<1> QED
  BY ApplyStart, ApplyStep, PTL DEF ApplySpec

-----------------------------------------------------------------------------
(* The three files, the timer and the transactions keep their types, for   *)
(* any number of appliers, plans and other settings.                       *)
THEOREM ApplyTypeCorrect == ApplySpec => []ApplyTypeOK
<1>1. ApplyInv => ApplyTypeOK
  BY DEF ApplyInv
<1> QED
  BY <1>1, ApplyAlways, PTL

(* What a transaction may leave at its end: it has to be its audit or the  *)
(* last step of its rollback, or a crash before it.                        *)
Whole(a) ==
  /\ tx[a].phase = "audit" /\ tx'[a].phase = "idle" => Installed(a)
  /\ tx[a].phase = "undoRestart" /\ tx'[a].phase = "idle" => Restored(a) \/ tx[a].failed

LEMMA WholeStep ==
  ASSUME ApplyInv, NEW a \in Appliers, [ApplyNext]_applyVars
  PROVE  Whole(a)
<1>1. Stage(tx[a], env, dropin, loaded) /\ tx[a] \in Transactions
  BY ApplyTypes
<1>2. ASSUME tx[a].phase = "audit"
      PROVE  Installed(a)
  BY <1>1, <1>2 DEF Stage, Installed
<1>3. ASSUME tx[a].phase = "undoRestart", tx'[a].phase = "idle", ~tx[a].failed
      PROVE  Restored(a)
  <2>1. UNCHANGED <<env, dropin, loaded>>
    <3>1. ASSUME NEW b \in Appliers, ApplySteps(b), b = a
          PROVE  UNCHANGED <<env, dropin, loaded>>
      BY <1>3, <3>1 DEF ApplySteps, LoadSettings, Refuse, TakeScheduleLock, ReadOld, WriteDropIn,
         SaveSettings, Reload, RestartTimer, Verify, Audit, UndoTimer, UndoEnv, UndoReload,
         UndoRestart, CrashApply, filesVars
    <3>2. ASSUME NEW b \in Appliers, ApplySteps(b), b # a
          PROVE  FALSE
      BY <1>3, <3>2, ApplyTypes DEF ApplySteps, LoadSettings, Refuse, TakeScheduleLock, ReadOld,
         WriteDropIn, SaveSettings, Reload, RestartTimer, Verify, Audit, UndoTimer, UndoEnv,
         UndoReload, UndoRestart, CrashApply, To, End, Spoil
    <3>3. ASSUME SaveOther
          PROVE  FALSE
      <4> DEFINE t == tx[a]
                 f == t.phase \in Forward \cup Undoing
                 g == [t EXCEPT !.foreign = f]
      <4>1. tx'[a] = g
        BY <3>3 DEF SaveOther
      <4>2. g.phase = t.phase
        BY <1>1 DEF Transactions
      <4> QED
        BY <1>3, <4>1, <4>2
    <3> QED
      BY <1>3, <3>1, <3>2, <3>3 DEF ApplyNext, SaveTemporaryOverrides, ClearTemporaryOverrides,
         SwitchTimer, applyVars, filesVars
  <2> QED
    BY <1>1, <1>3, <2>1 DEF Stage, Restored
<1> QED
  BY <1>2, <1>3 DEF Whole

(* An applied schedule is all or nothing: a transaction that reaches its   *)
(* audit has installed one schedule in .env, the drop-in and the running   *)
(* timer, and a rollback without an error has restored all three, whatever *)
(* other appliers, writers of .env and crashes did.                        *)
THEOREM AppliedAllOrNothing == ApplySpec => ApplyAllOrNothing
<1>1. ApplyInv /\ [ApplyNext]_applyVars => \A a \in Appliers : Whole(a)
  BY WholeStep
<1>2. ApplyInv /\ [ApplyNext]_applyVars => [\A a \in Appliers : Whole(a)]_applyVars
  BY <1>1
<1> QED
  BY <1>2, ApplyAlways, PTL DEF ApplySpec, ApplyAllOrNothing, Whole

-----------------------------------------------------------------------------
(* The slots of a calendar schedule.                                       *)
(* Multiples of n lie at least n apart.                                    *)
LEMMA Spread ==
  ASSUME NEW n \in Nat \ {0}, NEW j \in Int, NEW k \in Int, j < k
  PROVE  j * n + n <= k * n
<1>1. k - j - 1 \in Nat
  OBVIOUS
<1>2. (k - j - 1) * n >= 0
  BY <1>1
<1>3. (k - j - 1) * n = k * n - j * n - n
  OBVIOUS
<1>4. j * n \in Int /\ k * n \in Int
  OBVIOUS
<1> QED
  BY <1>2, <1>3, <1>4

LEMMA Division ==
  ASSUME NEW n \in Nat \ {0}, NEW a \in Int
  PROVE  \E q \in Int, r \in 0..(n - 1) :
           q = a \div n /\ r = a % n /\ q * n \in Int /\ a = q * n + r
<1> DEFINE q == a \div n
           r == a % n
<1>1. q \in Int /\ r \in 0..(n - 1) /\ r = a - n * q
  <2>1. a \div n \in Int
    OBVIOUS
  <2>2. a % n \in 0..(n - 1)
    OBVIOUS
  <2>3. a % n = a - n * (a \div n)
    OBVIOUS
  <2> QED
    BY <2>1, <2>2, <2>3
<1>2. q = a \div n /\ r = a % n
  OBVIOUS
<1> HIDE DEF q, r
<1>3. n * q = q * n /\ q * n \in Int /\ r \in Int
  BY <1>1
<1>4. a = q * n + r
  BY <1>1, <1>3
<1> QED
  BY <1>1, <1>2, <1>3, <1>4

(* Quotient and remainder are the only ones.                               *)
LEMMA OneQuotient ==
  ASSUME NEW n \in Nat \ {0}, NEW k \in Int, NEW h \in 0..(n - 1), NEW a, a = k * n + h
  PROVE  a \div n = k /\ a % n = h
<1>1. a \in Int /\ k * n \in Int /\ h \in Int
  OBVIOUS
<1>2. PICK j \in Int, r \in 0..(n - 1) : j = a \div n /\ r = a % n /\ j * n \in Int /\ a = j * n + r
  BY <1>1, Division
<1>3. ~(j < k)
  <2>1. j < k => j * n + n <= k * n
    BY Spread
  <2>2. a = j * n + r /\ j * n \in Int
    BY <1>2
  <2> QED
    BY <1>1, <2>1, <2>2
<1>4. ~(k < j)
  <2>1. k < j => k * n + n <= j * n
    BY Spread
  <2>2. a = j * n + r /\ j * n \in Int
    BY <1>2
  <2> QED
    BY <1>1, <2>1, <2>2
<1>5. j = k
  BY <1>3, <1>4
<1>6. r = h
  BY <1>1, <1>2, <1>5
<1> QED
  BY <1>2, <1>5, <1>6

-----------------------------------------------------------------------------
(* The calendar of the zone that the operator named: every moment is in    *)
(* one day and is one time of it.                                          *)
Midnight(k) == k * Day - ScheduleZone

LEMMA DayNumbers ==
  /\ Day \in Nat \ {0} /\ Week \in Nat \ {0} /\ ScheduleZone \in Int
  /\ \A k \in Int : k * Day \in Int /\ Midnight(k) \in Int
  /\ \A j, k \in Int : j < k => Midnight(j) + Day <= Midnight(k)
<1>1. Day \in Nat \ {0} /\ Week \in Nat \ {0} /\ ScheduleZone \in Int
  BY SlotAssumption
<1>2. \A k \in Int : k * Day \in Int /\ Midnight(k) \in Int
  BY <1>1 DEF Midnight
<1>3. ASSUME NEW j \in Int, NEW k \in Int, j < k
      PROVE  Midnight(j) + Day <= Midnight(k)
  <2>1. j * Day + Day <= k * Day
    BY <1>1, <1>3, Spread
  <2>2. j * Day \in Int /\ k * Day \in Int
    BY <1>2
  <2> DEFINE x == j * Day
             y == k * Day
  <2> HIDE DEF x, y
  <2>3. x + Day - ScheduleZone <= y - ScheduleZone /\ x \in Int /\ y \in Int
    BY <1>1, <2>1, <2>2 DEF x, y
  <2> QED
    BY <1>1, <2>3 DEF Midnight, x, y
<1> QED
  BY <1>1, <1>2, <1>3

LEMMA InDay ==
  ASSUME NEW t \in Int
  PROVE  \E k \in Int, h \in 0..(Day - 1) :
           /\ t = Midnight(k) + h /\ DayStart(t, ScheduleZone) = Midnight(k)
           /\ Weekday(t, ScheduleZone) = k % Week
<1>1. PICK k \in Int, h \in 0..(Day - 1) :
        k = (t + ScheduleZone) \div Day /\ k * Day \in Int /\ t + ScheduleZone = k * Day + h
  BY DayNumbers, Division
<1>2. DayStart(t, ScheduleZone) = Midnight(k) /\ Weekday(t, ScheduleZone) = k % Week
  BY <1>1 DEF DayStart, Midnight, Weekday
<1>3. t = Midnight(k) + h
  BY <1>1, DayNumbers DEF Midnight
<1> QED
  BY <1>2, <1>3

LEMMA TimeOfDay ==
  ASSUME NEW k \in Int, NEW h \in 0..(Day - 1), NEW t, t = Midnight(k) + h
  PROVE  t \in Int /\ DayStart(t, ScheduleZone) = Midnight(k) /\ Weekday(t, ScheduleZone) = k % Week
<1>1. t \in Int /\ t + ScheduleZone = k * Day + h
  BY DayNumbers DEF Midnight
<1>2. (t + ScheduleZone) \div Day = k
  BY <1>1, DayNumbers, OneQuotient
<1> QED
  BY <1>1, <1>2 DEF DayStart, Midnight, Weekday

LEMMA ScheduleFacts ==
  ASSUME NEW s \in Schedules
  PROVE  /\ s.times \subseteq 0..(Day - 1) /\ s.times \subseteq Nat /\ s.weekday \in 0..(Week - 1)
         /\ Min(s.times) \in s.times /\ \A h \in s.times : Min(s.times) <= h
<1>1. /\ s.times \subseteq 0..(Day - 1) /\ s.times \subseteq Nat /\ s.weekday \in 0..(Week - 1)
      /\ s.times # {}
  BY SlotAssumption
<1>2. \E m \in s.times : \A h \in s.times : m <= h
  BY <1>1, LeastNumber
<1> QED
  BY <1>1, <1>2 DEF Min

-----------------------------------------------------------------------------
(* The next target is the first slot after the last success, if the        *)
(* process runs in the zone of the schedule.                               *)
DailySlot(t, s) == t - DayStart(t, ScheduleZone) \in s.times
WeeklySlot(t, s) ==
  t - DayStart(t, ScheduleZone) = Min(s.times) /\ Weekday(t, ScheduleZone) = s.weekday

FirstDaily(n, t, s) ==
  /\ n \in Int /\ n > t /\ DailySlot(n, s)
  /\ \A u \in Int : u > t /\ DailySlot(u, s) => n <= u
FirstWeekly(n, t, s) ==
  /\ n \in Int /\ n > t /\ WeeklySlot(n, s)
  /\ \A u \in Int : u > t /\ WeeklySlot(u, s) => n <= u

LEMMA NextDaily ==
  ASSUME ScheduleZone = LocalZone, NEW s \in Schedules, NEW t \in Int
  PROVE  FirstDaily(nextDailyTargetAfter(t, s), t, s)
<1>1. PICK k \in Int, g \in 0..(Day - 1) :
        t = Midnight(k) + g /\ DayStart(t, ScheduleZone) = Midnight(k)
  BY InDay
<1> DEFINE day == Midnight(k)
           m == Min(s.times)
           later == {target \in {day + h : h \in s.times} : target > t}
<1>2. /\ s.times \subseteq 0..(Day - 1) /\ s.times \subseteq Nat /\ m \in s.times
      /\ \A h \in s.times : m <= h
  BY ScheduleFacts
<1>3. nextDailyTargetAfter(t, s) = IF later # {} THEN Min(later) ELSE day + Day + m
  BY <1>1 DEF nextDailyTargetAfter, DailyTargets
<1>4. day \in Int /\ day <= t /\ t < day + Day /\ Day \in Nat \ {0}
  BY <1>1, DayNumbers
<1>5. Midnight(k + 1) = day + Day
  <2>1. (k + 1) * Day = k * Day + Day
    BY DayNumbers
  <2> QED
    BY <2>1, DayNumbers DEF Midnight
(* Where a slot after t is.                                                *)
<1>6. ASSUME NEW u \in Int, u > t, DailySlot(u, s)
      PROVE  (\E h \in s.times : u = day + h) \/ u >= day + Day + m
  <2>1. PICK j \in Int, h \in 0..(Day - 1) :
          u = Midnight(j) + h /\ DayStart(u, ScheduleZone) = Midnight(j)
    BY InDay
  <2>2. Midnight(j) \in Int /\ h \in s.times /\ m <= h /\ h \in Nat /\ m \in Nat
    <3>1. Midnight(j) \in Int
      BY DayNumbers
    <3>2. h \in s.times
      BY <1>6, <2>1, <3>1 DEF DailySlot
    <3> QED
      BY <1>2, <3>1, <3>2
  <2>3. CASE j < k
    <3>1. Midnight(j) + Day <= day
      BY <2>3, DayNumbers
    <3> QED
      BY <1>4, <1>6, <2>1, <2>2, <3>1
  <2>4. CASE j = k
    BY <2>1, <2>2, <2>4
  <2>5. CASE k < j
    <3>1. day + Day <= Midnight(j)
      BY <2>5, DayNumbers
    <3> QED
      BY <1>4, <2>1, <2>2, <3>1
  <2> QED
    BY <2>3, <2>4, <2>5
<1>7. CASE later # {}
  <2> DEFINE after == {h \in s.times : day + h > t}
  <2>1. after \subseteq Nat /\ after # {}
    BY <1>2, <1>7
  <2>2. PICK h \in after : \A i \in after : h <= i
    <3> HIDE DEF after
    <3> QED
      BY <2>1, LeastNumber
  <2>3. /\ day + h \in later /\ \A x \in later : day + h <= x
        /\ h \in s.times /\ h \in 0..(Day - 1) /\ day + h > t
    BY <1>2, <1>4, <2>2
  <2>4. Min(later) \in later /\ \A x \in later : Min(later) <= x
    <3> HIDE DEF later
    <3> QED
      BY <2>3 DEF Min
  <2> DEFINE n == Min(later)
  <2>5. PICK i \in s.times : n = day + i
    BY <2>4
  <2>6. i \in 0..(Day - 1) /\ n > t
    BY <1>2, <2>4
  <2>7. n \in Int /\ DayStart(n, ScheduleZone) = day
    <3> HIDE DEF n
    <3> QED
      BY <2>5, <2>6, TimeOfDay
  <2>8. DailySlot(n, s)
    <3> HIDE DEF n, day
    <3> QED
      BY <1>4, <2>5, <2>6, <2>7 DEF DailySlot
  <2>9. ASSUME NEW u \in Int, u > t, DailySlot(u, s)
        PROVE  n <= u
    <3>1. CASE \E j \in s.times : u = day + j
      BY <2>4, <2>9, <3>1
    <3>2. CASE u >= day + Day + m
      <4>1. n <= day + Day /\ m \in Nat
        <5> HIDE DEF n, day, m
        <5> QED
          BY <1>2, <1>4, <2>5, <2>6
      <4> HIDE DEF n, day, m
      <4> QED
        BY <1>4, <2>7, <3>2, <4>1
    <3> HIDE DEF n
    <3> QED
      BY <1>6, <2>9, <3>1, <3>2
  <2> QED
    BY <1>3, <1>7, <2>6, <2>7, <2>8, <2>9 DEF FirstDaily
<1>8. CASE later = {}
  <2> DEFINE n == day + Day + m
  <2>1. m \in 0..(Day - 1) /\ n = Midnight(k + 1) + m /\ n \in Int /\ n > t
    <3>1. m \in 0..(Day - 1)
      BY <1>2
    <3> HIDE DEF m, day
    <3> QED
      BY <1>4, <1>5, <3>1
  <2>2. DayStart(n, ScheduleZone) = day + Day
    <3>1. k + 1 \in Int
      OBVIOUS
    <3> HIDE DEF n, m, day
    <3> QED
      BY <1>5, <2>1, <3>1, TimeOfDay
  <2>3. DailySlot(n, s)
    <3> HIDE DEF day, m
    <3> QED
      BY <1>2, <1>4, <2>1, <2>2 DEF DailySlot
  <2>4. ASSUME NEW u \in Int, u > t, DailySlot(u, s)
        PROVE  n <= u
    <3>1. ~\E h \in s.times : u = day + h
      BY <1>8, <2>4
    <3> QED
      BY <1>6, <2>4, <3>1
  <2> QED
    BY <1>3, <1>8, <2>1, <2>3, <2>4 DEF FirstDaily
<1> QED
  BY <1>7, <1>8

(* The weekdays repeat after Week days: from day k the first one that is w *)
(* comes in at most Week - 1 days, and the others whole weeks later.       *)
LEMMA WeekdayAhead ==
  ASSUME NEW k \in Int, NEW w \in 0..(Week - 1)
  PROVE  \E a \in 0..(Week - 1) :
           /\ a = (Week + w - (k % Week)) % Week
           /\ (k + a) % Week = w /\ (k + a + Week) % Week = w
           /\ \A j \in Int : j >= k /\ j % Week = w => j = k + a \/ j >= k + a + Week
<1>0. Week \in Nat \ {0} /\ Week \in Int
  BY DayNumbers
<1>1. PICK q \in Int, r \in 0..(Week - 1) : r = k % Week /\ q * Week \in Int /\ k = q * Week + r
  BY <1>0, Division
<1> DEFINE a == IF r <= w THEN w - r ELSE Week + w - r
<1>2. a \in 0..(Week - 1)
  BY <1>0
<1>3. a = (Week + w - r) % Week
  <2>1. CASE r <= w
    <3>1. Week + w - r = 1 * Week + a /\ a \in 0..(Week - 1)
      BY <1>0, <1>2, <2>1
    <3> HIDE DEF a
    <3> QED
      BY <1>0, <3>1, OneQuotient
  <2>2. CASE ~(r <= w)
    <3>1. Week + w - r = 0 * Week + a /\ a \in 0..(Week - 1)
      BY <1>0, <1>2, <2>2
    <3> HIDE DEF a
    <3> QED
      BY <1>0, <3>1, OneQuotient
  <2> QED
    BY <2>1, <2>2
<1>4. PICK c \in Int : k + a = c * Week + w /\ c * Week \in Int
  <2>1. CASE r <= w
    BY <1>1, <2>1
  <2>2. CASE ~(r <= w)
    <3>1. (q + 1) * Week = q * Week + Week
      BY <1>0
    <3> DEFINE x == q * Week
    <3>2. (q + 1) * Week = x + Week /\ k = x + r /\ x \in Int
      BY <1>1, <3>1
    <3> HIDE DEF x
    <3>3. k + a = (q + 1) * Week + w /\ (q + 1) * Week \in Int /\ q + 1 \in Int
      BY <1>0, <1>1, <2>2, <3>2
    <3> QED
      BY <3>3
  <2> QED
    BY <2>1, <2>2
<1> HIDE DEF a
<1>5. (k + a) % Week = w
  BY <1>0, <1>4, OneQuotient
<1>6. (k + a + Week) % Week = w
  <2>1. (c + 1) * Week = c * Week + Week
    BY <1>0
  <2> DEFINE later == k + a + Week
  <2>2. later = (c + 1) * Week + w /\ c + 1 \in Int
    BY <1>0, <1>2, <1>4, <2>1
  <2> HIDE DEF later
  <2>3. later % Week = w
    BY <1>0, <2>2, OneQuotient
  <2> QED
    BY <2>3 DEF later
<1>7. ASSUME NEW j \in Int, j >= k, j % Week = w
      PROVE  j = k + a \/ j >= k + a + Week
  <2>1. PICK d \in Int : d * Week \in Int /\ j = d * Week + w
    BY <1>0, <1>7, Division
  <2>2. CASE d < c
    <3>1. d * Week + Week <= c * Week
      BY <1>0, <2>2, Spread
    <3> DEFINE x == d * Week
               y == c * Week
    <3>2. x \in Int /\ y \in Int /\ x + Week <= y /\ j = x + w /\ k + a = y + w
      BY <1>4, <2>1, <3>1
    <3> HIDE DEF x, y
    <3>3. a >= Week
      BY <1>0, <1>2, <1>7, <3>2
    <3> QED
      BY <1>0, <1>2, <3>3
  <2>3. CASE d = c
    BY <1>4, <2>1, <2>3
  <2>4. CASE c < d
    <3>1. c * Week + Week <= d * Week
      BY <1>0, <2>4, Spread
    <3> DEFINE x == d * Week
               y == c * Week
    <3>2. x \in Int /\ y \in Int /\ y + Week <= x /\ j = x + w /\ k + a = y + w
      BY <1>4, <2>1, <3>1
    <3> HIDE DEF x, y
    <3> QED
      BY <1>0, <1>2, <3>2
  <2> QED
    BY <2>2, <2>3, <2>4
<1> QED
  BY <1>1, <1>2, <1>3, <1>5, <1>6, <1>7

LEMMA DaysLater ==
  ASSUME NEW k \in Int, NEW a \in Int
  PROVE  Midnight(k) + a * Day = Midnight(k + a)
<1>1. (k + a) * Day = k * Day + a * Day
  BY DayNumbers
<1>2. k * Day \in Int /\ a * Day \in Int /\ ScheduleZone \in Int
  BY DayNumbers
<1> DEFINE x == k * Day
           y == a * Day
           z == (k + a) * Day
<1>3. z = x + y /\ x \in Int /\ y \in Int
  BY <1>1, <1>2
<1> HIDE DEF x, y, z
<1>5. Midnight(k) = x - ScheduleZone
  BY DEF Midnight, x
<1>6. Midnight(k + a) = z - ScheduleZone
  BY DEF Midnight, z
<1>7. Midnight(k) + y = Midnight(k + a)
  <2>1. ScheduleZone \in Int
    BY <1>2
  <2> QED
    BY <1>3, <1>5, <1>6, <2>1
<1> QED
  BY <1>7 DEF y

LEMMA NextWeekly ==
  ASSUME ScheduleZone = LocalZone, NEW s \in Schedules, NEW t \in Int
  PROVE  FirstWeekly(nextWeeklyTargetAfter(t, s), t, s)
<1>1. PICK k \in Int, g \in 0..(Day - 1) :
        /\ t = Midnight(k) + g /\ DayStart(t, ScheduleZone) = Midnight(k)
        /\ Weekday(t, ScheduleZone) = k % Week
  BY InDay
<1>2. s.weekday \in 0..(Week - 1) /\ Min(s.times) \in 0..(Day - 1)
  BY ScheduleFacts
<1>3. PICK a \in 0..(Week - 1) :
        /\ a = (Week + s.weekday - (k % Week)) % Week
        /\ (k + a) % Week = s.weekday /\ (k + a + Week) % Week = s.weekday
        /\ \A j \in Int : j >= k /\ j % Week = s.weekday => j = k + a \/ j >= k + a + Week
  BY <1>2, WeekdayAhead
<1> DEFINE m == Min(s.times)
           target == Midnight(k + a) + m
           next == Midnight(k + a + Week) + m
<1>4. /\ Day \in Nat \ {0} /\ Week \in Nat \ {0} /\ a \in Int /\ k + a \in Int /\ k + a + Week \in Int
      /\ Midnight(k) \in Int /\ Midnight(k + a) \in Int /\ Midnight(k + a + Week) \in Int
  <2>1. Day \in Nat \ {0} /\ Week \in Nat \ {0} /\ a \in Int
    BY DayNumbers
  <2>2. k + a \in Int /\ k + a + Week \in Int
    BY <2>1
  <2> QED
    BY <2>1, <2>2, DayNumbers
<1>5. target + Week * Day = next
  <2>1. Midnight(k + a) + Week * Day = Midnight(k + a + Week) /\ Week * Day \in Int /\ m \in Int
    BY <1>2, <1>4, DaysLater
  <2> DEFINE x == Midnight(k + a)
             y == Week * Day
  <2>2. x + y = Midnight(k + a + Week) /\ x \in Int /\ y \in Int
    BY <1>4, <2>1
  <2> HIDE DEF x, y, m
  <2>3. x + m + y = x + y + m
    BY <2>1, <2>2
  <2> QED
    BY <2>2, <2>3 DEF x, y
<1>6. nextWeeklyTargetAfter(t, s) = IF target > t THEN target ELSE next
  <2>1. (Week + s.weekday - Weekday(t, LocalZone)) % Week = a
    BY <1>1, <1>3
  <2>2. WeeklyTarget(DayStart(t, LocalZone) + a * Day, s) = target
    BY <1>1, <1>4, DaysLater DEF WeeklyTarget
  <2> HIDE DEF target, next
  <2> QED
    BY <1>5, <2>1, <2>2 DEF nextWeeklyTargetAfter
<1>7. target \in Int /\ WeeklySlot(target, s)
  <2>1. /\ target \in Int /\ DayStart(target, ScheduleZone) = Midnight(k + a)
        /\ Weekday(target, ScheduleZone) = (k + a) % Week
    BY <1>2, <1>4, TimeOfDay
  <2>2. target - Midnight(k + a) = m
    BY <1>2, <1>4
  <2> QED
    BY <1>3, <2>1, <2>2 DEF WeeklySlot
<1>8. next \in Int /\ WeeklySlot(next, s)
  <2>1. /\ next \in Int /\ DayStart(next, ScheduleZone) = Midnight(k + a + Week)
        /\ Weekday(next, ScheduleZone) = (k + a + Week) % Week
    BY <1>2, <1>4, TimeOfDay
  <2>2. next - Midnight(k + a + Week) = m
    BY <1>2, <1>4
  <2> QED
    BY <1>3, <2>1, <2>2 DEF WeeklySlot
<1>9. next > t
  <2>1. k < k + a + Week
    BY <1>4
  <2>2. Midnight(k) + Day <= Midnight(k + a + Week)
    BY <1>4, <2>1, DayNumbers
  <2> QED
    BY <1>1, <1>2, <1>4, <2>2
(* Where a slot after t is.                                                *)
<1>10. ASSUME NEW u \in Int, u > t, WeeklySlot(u, s)
       PROVE  u = target \/ next <= u
  <2>1. PICK j \in Int, h \in 0..(Day - 1) :
          /\ u = Midnight(j) + h /\ DayStart(u, ScheduleZone) = Midnight(j)
          /\ Weekday(u, ScheduleZone) = j % Week
    BY InDay
  <2>2. Midnight(j) \in Int
    BY DayNumbers
  <2>3. h = m /\ j % Week = s.weekday
    BY <1>10, <2>1, <2>2 DEF WeeklySlot
  <2>4. j >= k
    <3>1. ASSUME j < k PROVE FALSE
      <4>1. Midnight(j) + Day <= Midnight(k)
        BY <3>1, DayNumbers
      <4> QED
        BY <1>1, <1>4, <1>10, <2>1, <2>2, <4>1
    <3> QED
      BY <3>1
  <2>5. j = k + a \/ j >= k + a + Week
    BY <1>3, <2>3, <2>4
  <2>6. CASE j = k + a
    BY <2>1, <2>3, <2>6
  <2>7. CASE j >= k + a + Week
    <3>1. Midnight(k + a + Week) <= Midnight(j)
      <4>1. CASE j = k + a + Week
        BY <1>4, <4>1
      <4>2. CASE k + a + Week < j
        <5>1. Midnight(k + a + Week) + Day <= Midnight(j)
          BY <1>4, <4>2, DayNumbers
        <5> QED
          BY <1>4, <2>2, <5>1
      <4> QED
        BY <1>4, <2>7, <4>1, <4>2
    <3> QED
      BY <1>2, <1>4, <2>1, <2>2, <2>3, <3>1
  <2> QED
    BY <2>5, <2>6, <2>7
<1>11. target <= next
  <2>1. Midnight(k + a) + Day <= Midnight(k + a + Week)
    BY <1>4, DayNumbers
  <2> QED
    BY <1>2, <1>4, <2>1
<1>12. CASE target > t
  <2> HIDE DEF target, next
  <2> QED
    BY <1>6, <1>7, <1>8, <1>10, <1>11, <1>12 DEF FirstWeekly
<1>13. CASE ~(target > t)
  <2> HIDE DEF target, next
  <2> QED
    BY <1>6, <1>8, <1>9, <1>10, <1>13 DEF FirstWeekly
<1> QED
  BY <1>12, <1>13

-----------------------------------------------------------------------------
LEMMA SlotStart == SlotInit => SlotTypeOK
<1> SUFFICES ASSUME SlotInit PROVE SlotTypeOK
  OBVIOUS
<1>1. Week * Day \in Int /\ Horizon \in Int /\ Week * Day <= Horizon
  BY SlotAssumption
<1>2. now \in Instants
  <2> DEFINE x == Week * Day
  <2>1. x \in Int /\ x <= Horizon /\ now = x
    BY <1>1 DEF SlotInit
  <2> HIDE DEF x
  <2>2. x \in x..Horizon
    BY <1>1, <2>1
  <2> QED
    BY <2>1, <2>2 DEF Instants, x
<1> QED
  BY <1>2, SlotAssumption DEF SlotInit, SlotTypeOK

LEMMA SlotStep == SlotTypeOK /\ [SlotNext]_slotVars => SlotTypeOK'
<1> SUFFICES ASSUME SlotTypeOK, [SlotNext]_slotVars
             PROVE  SlotTypeOK'
  OBVIOUS
<1>1. CASE Tick
  <2> DEFINE x == Week * Day
  <2>1. x \in Int /\ Horizon \in Int /\ now \in x..Horizon /\ now < Horizon /\ now' = now + 1
    BY <1>1, SlotAssumption DEF Tick, SlotTypeOK, Instants
  <2> HIDE DEF x
  <2>2. now' \in x..Horizon
    BY <2>1
  <2>3. now' \in Instants
    BY <2>2 DEF Instants, x
  <2> QED
    BY <1>1, <2>3 DEF Tick, SlotTypeOK, Instants
<1>2. CASE StartDue \/ StartForced \/ EndRun
  BY <1>2 DEF StartDue, StartForced, EndRun, SlotTypeOK, Instants
<1>3. CASE EditSchedule
  BY <1>3, SlotAssumption DEF EditSchedule, SlotTypeOK, Instants
<1>4. CASE UNCHANGED slotVars
  BY <1>4 DEF slotVars, SlotTypeOK, Instants
<1> QED
  BY <1>1, <1>2, <1>3, <1>4 DEF SlotNext

LEMMA SlotAlways == SlotSpec => []SlotTypeOK
<1> QED
  BY SlotStart, SlotStep, PTL DEF SlotSpec

(* The clock, the schedule and its state keep their types, for any length  *)
(* of the day and the week.                                                *)
THEOREM SlotTypeCorrect == SlotSpec => []SlotTypeOK
<1> QED
  BY SlotAlways

LEMMA TypeMeansDue ==
  ASSUME ScheduleZone = LocalZone, SlotTypeOK
  PROVE  DueAtSlots
<1> SUFFICES ASSUME schedule.kind \in {"daily", "weekly"}, last # Never
             PROVE  Due(now, schedule, last) <=> \E t \in Slots(schedule) : last < t /\ t <= now
  BY DEF DueAtSlots
<1> DEFINE x == Week * Day
<1>0. x \in Nat /\ Horizon \in Nat
  BY SlotAssumption
<1>1. schedule \in Schedules /\ now \in x..Horizon /\ last \in x..Horizon
  BY DEF SlotTypeOK, Instants
<1> HIDE DEF x
<1>2. now \in 0..Horizon /\ last \in 0..Horizon /\ now \in Int /\ last \in Int
  BY <1>0, <1>1
<1>3. CASE schedule.kind = "daily"
  <2> DEFINE n == nextDailyTargetAfter(last, schedule)
  <2>1. FirstDaily(n, last, schedule)
    BY <1>1, <1>2, NextDaily
  <2>2. Due(now, schedule, last) <=> now >= n
    BY <1>3 DEF Due
  <2>3. \A t : t \in Slots(schedule) <=> t \in 0..Horizon /\ DailySlot(t, schedule)
    BY <1>3 DEF Slots, DailySlot
  <2> HIDE DEF n
  <2> QED
    BY <1>0, <1>2, <2>1, <2>2, <2>3 DEF FirstDaily
<1>4. CASE schedule.kind = "weekly"
  <2> DEFINE n == nextWeeklyTargetAfter(last, schedule)
  <2>1. FirstWeekly(n, last, schedule)
    BY <1>1, <1>2, NextWeekly
  <2>2. Due(now, schedule, last) <=> now >= n
    BY <1>4 DEF Due
  <2>3. \A t : t \in Slots(schedule) <=> t \in 0..Horizon /\ WeeklySlot(t, schedule)
    BY <1>4 DEF Slots, WeeklySlot
  <2> HIDE DEF n
  <2> QED
    BY <1>0, <1>2, <2>1, <2>2, <2>3 DEF FirstWeekly
<1> QED
  BY <1>3, <1>4

(* A run counts as due exactly when a slot of the calendar schedule lies   *)
(* between the last success and now, for any length of the day and the     *)
(* week, any times and weekday and any zone, if the process runs in the    *)
(* zone of the schedule.                                                   *)
THEOREM DueOnlyAtSlots == ASSUME ScheduleZone = LocalZone PROVE SlotSpec => []DueAtSlots
<1>1. SlotTypeOK => DueAtSlots
  BY TypeMeansDue
<1> QED
  BY <1>1, SlotAlways, PTL

-----------------------------------------------------------------------------
(* Retention.                                                              *)
Folders == [place : {"none", "local", "quarantine"}, capture : {"whole", "damaged", "held"},
            committed : BOOLEAN, pinned : BOOLEAN, tested : BOOLEAN]
Passes == [phase : PassPhases, todo : SUBSET RunIds, at : RunIds \cup {0}]

(* The folders that a pass still has to move are in place, and none of     *)
(* them belongs to the run that the pass is part of; the one that it moves *)
(* was whole when it was read and is in the journal.                       *)
ToMove == pass.todo \cup (IF pass.phase \in {"intent", "move"} THEN {pass.at} ELSE {})
WasWhole(r) == folder[r].capture = "whole" \/ r \in hurt
RetentionInv ==
  /\ RetentionTypeOK
  /\ \A r \in ToMove : Local(r) /\ r # CurrentRun
  /\ pass.phase \in {"idle", "plan"} => pass.todo = {}
  /\ pass.phase \in {"intent", "move"} => pass.at \notin pass.todo /\ WasWhole(pass.at)
  /\ pass.phase = "move" => pass.at \in audit

LEMMA RetentionUnfolded ==
  RetentionTypeOK <=>
    /\ folder \in [RunIds -> Folders] /\ policy \in Policies /\ events \in 0..MaxEvents
    /\ proved \subseteq RunIds /\ audit \subseteq RunIds /\ hurt \subseteq RunIds
    /\ pass \in Passes
    /\ pass.phase \in {"intent", "move"} => pass.at # 0
    /\ \A r \in pass.todo : folder[r].place = "local"
BY DEF RetentionTypeOK, Folders, Passes

LEMMA PassFields ==
  ASSUME NEW g \in Passes
  PROVE  g.phase \in PassPhases /\ g.todo \subseteq RunIds /\ g.at \in RunIds \cup {0}
BY DEF Passes

LEMMA FolderFields ==
  ASSUME NEW g \in Folders
  PROVE  /\ [g EXCEPT !.place = "quarantine"] \in Folders
         /\ [g EXCEPT !.place = "quarantine"].place = "quarantine"
         /\ [g EXCEPT !.pinned = TRUE] \in Folders
         /\ [g EXCEPT !.pinned = TRUE].place = g.place
         /\ [g EXCEPT !.pinned = TRUE].capture = g.capture
         /\ [g EXCEPT !.capture = "damaged"] \in Folders
         /\ [g EXCEPT !.capture = "damaged"].place = g.place
BY DEF Folders

LEMMA TestedField ==
  ASSUME NEW g \in Folders, NEW ok \in BOOLEAN
  PROVE  /\ [g EXCEPT !.tested = ok] \in Folders
         /\ [g EXCEPT !.tested = ok].place = g.place
         /\ [g EXCEPT !.tested = ok].capture = g.capture
BY DEF Folders

LEMMA CandidatesHealthy == Candidates \subseteq Healthy
BY DEF Candidates

LEMMA RunNumber ==
  ASSUME RetentionTypeOK
  PROVE  Captured \subseteq RunIds /\ CurrentRun \in Nat
<1>1. IsFiniteSet(RunIds)
  BY RetentionAssumption, FS_Interval DEF RunIds
<1>2. Captured \in SUBSET RunIds
  BY DEF Captured
<1> QED
  BY <1>1, <1>2, FS_Subset, FS_CardinalityType DEF CurrentRun

(* After a step that leaves every folder where it is, the newest run is    *)
(* the same one.                                                           *)
LEMMA SamePlaces ==
  ASSUME \A r \in RunIds : folder'[r].place = folder[r].place
  PROVE  CurrentRun' = CurrentRun /\ \A r \in RunIds : Local(r)' <=> Local(r)
<1>1. Captured' = Captured
  BY DEF Captured
<1> QED
  BY <1>1 DEF CurrentRun, Local

(* The end of a pass, and the time before the next one.                    *)
LEMMA Rest ==
  ASSUME RetentionTypeOK', pass'.phase \in {"idle", "plan"}, pass'.todo = {}
  PROVE  RetentionInv'
BY DEF RetentionInv, ToMove

LEMMA IdlePass == ASSUME EndPass PROVE pass' \in Passes /\ pass'.phase = "idle" /\ pass'.todo = {}
BY DEF EndPass, Passes, PassPhases

-----------------------------------------------------------------------------
LEMMA RetentionStart == RetentionInit => RetentionInv
<1> SUFFICES ASSUME RetentionInit PROVE RetentionInv
  OBVIOUS
<1>1. pass \in Passes /\ pass.phase = "idle" /\ pass.todo = {}
  BY DEF RetentionInit, Passes, PassPhases
<1>2. folder \in [RunIds -> Folders] /\ 0 \in 0..MaxEvents
  BY RetentionAssumption DEF RetentionInit, NoFolder, Folders
<1>3. RetentionTypeOK
  BY <1>1, <1>2, RetentionUnfolded DEF RetentionInit
<1> QED
  BY <1>1, <1>3 DEF RetentionInv, ToMove

LEMMA CaptureKeeps == ASSUME RetentionInv, Capture PROVE RetentionInv'
<1> DEFINE r == CurrentRun + 1
<1>0. RetentionTypeOK /\ pass.phase = "idle"
  BY DEF RetentionInv, Capture
<1>1. r \in RunIds
  BY <1>0, RunNumber, RetentionAssumption DEF Capture, RunIds
<1>2. PICK g \in Folders : folder' = [folder EXCEPT ![r] = g]
  <2>1. PICK c \in {"whole", "held"}, b \in BOOLEAN :
          folder' = [folder EXCEPT ![r] = [NoFolder EXCEPT !.place = "local", !.capture = c,
                                                           !.committed = b]]
    BY DEF Capture
  <2>2. [NoFolder EXCEPT !.place = "local", !.capture = c, !.committed = b] \in Folders
    BY DEF NoFolder, Folders
  <2> QED
    BY <2>1, <2>2
<1> HIDE DEF r
<1>3. folder' \in [RunIds -> Folders]
  BY <1>0, <1>2, RetentionUnfolded
<1>4. pass.todo = {}
  BY <1>0 DEF RetentionInv
<1>5. pass' = [pass EXCEPT !.phase = "plan"] /\ pass \in Passes
  BY <1>0, RetentionUnfolded DEF Capture
<1>6. pass' \in Passes /\ pass'.phase = "plan" /\ pass'.todo = {}
  BY <1>4, <1>5 DEF Passes, PassPhases
<1>7. UNCHANGED <<policy, events, proved, audit, hurt>>
  BY DEF Capture, Stays
<1>8. RetentionTypeOK'
  BY <1>0, <1>3, <1>6, <1>7, RetentionUnfolded DEF RetentionTypeOK, Folders, Passes
<1> QED
  BY <1>6, <1>8, Rest

LEMMA PlanKeeps == ASSUME RetentionInv, PlanRetention PROVE RetentionInv'
<1>0. RetentionTypeOK /\ UNCHANGED <<folder, policy, events, proved, audit>> /\ hurt' = {}
  BY DEF RetentionInv, PlanRetention, Stays
<1>1. Candidates \subseteq RunIds /\ \A r \in Candidates : Local(r) /\ r # CurrentRun
  BY CandidatesHealthy DEF Healthy
<1> HIDE DEF Candidates
<1>2. pass' \in Passes /\ pass'.phase = "apply" /\ pass'.todo = Candidates
  BY <1>1 DEF PlanRetention, Passes, PassPhases
<1>3. RetentionTypeOK'
  BY <1>0, <1>1, <1>2, RetentionUnfolded DEF RetentionTypeOK, Folders, Passes, Local
<1>4. \A r \in ToMove' : r \in RunIds /\ Local(r)' /\ r # CurrentRun'
  BY <1>0, <1>1, <1>2, SamePlaces DEF ToMove
<1> QED
  BY <1>2, <1>3, <1>4 DEF RetentionInv

LEMMA ReverifyKeeps == ASSUME RetentionInv, ReverifyCandidate PROVE RetentionInv'
<1>0. RetentionTypeOK /\ UNCHANGED <<folder, policy, events, proved, audit, hurt>>
      /\ pass.phase = "apply"
  BY DEF RetentionInv, ReverifyCandidate, Stays
<1>1. pass \in Passes /\ pass.todo \subseteq RunIds
  BY <1>0, RetentionUnfolded, PassFields
<1>2. CASE EndPass
  BY <1>0, <1>2, IdlePass, Rest, RetentionUnfolded DEF RetentionTypeOK, Folders, Passes
<1>3. CASE ~EndPass
  <2>1. PICK r : r = Min(pass.todo) /\ pass.todo # {} /\ folder[r].capture = "whole"
                 /\ pass' = [phase |-> "intent", todo |-> Remaining(r), at |-> r]
    BY <1>3 DEF ReverifyCandidate
  <2>2. r \in pass.todo
    <3>1. pass.todo \subseteq Nat
      BY <1>1, RetentionAssumption DEF RunIds
    <3>2. \E n \in pass.todo : \A m \in pass.todo : n <= m
      BY <2>1, <3>1, LeastNumber
    <3> QED
      BY <2>1, <3>2 DEF Min
  <2>3. r \in RunIds /\ r # 0 /\ Local(r) /\ r # CurrentRun
    BY <1>1, <2>2, RetentionAssumption DEF RetentionInv, ToMove, RunIds
  <2>4. pass' \in Passes /\ pass'.phase = "intent" /\ pass'.at = r
        /\ pass'.todo \subseteq pass.todo
    BY <1>1, <2>1, <2>3 DEF Remaining, Passes, PassPhases
  <2>5. RetentionTypeOK'
    BY <1>0, <2>3, <2>4, RetentionUnfolded DEF RetentionTypeOK, Folders, Passes
  <2>6. \A s \in ToMove' : s \in RunIds /\ Local(s) /\ s # CurrentRun
    BY <1>1, <2>3, <2>4 DEF ToMove, RetentionInv
  <2>7. \A s \in ToMove' : Local(s)' /\ s # CurrentRun'
    BY <1>0, <2>6, SamePlaces
  <2> QED
    BY <1>0, <2>1, <2>4, <2>5, <2>7 DEF RetentionInv, WasWhole, Remaining
<1> QED
  BY <1>2, <1>3

(* The one that a pass is about to move.                                   *)
LEMMA AtHand ==
  ASSUME RetentionInv, pass.phase \in {"intent", "move"}
  PROVE  pass.at \in RunIds /\ Local(pass.at) /\ pass.at # CurrentRun
BY RetentionUnfolded, PassFields DEF RetentionInv, ToMove

LEMMA PassUpdate ==
  ASSUME NEW g \in Passes
  PROVE  /\ [g EXCEPT !.phase = "move"] \in Passes
         /\ [g EXCEPT !.phase = "move"].phase = "move"
         /\ [g EXCEPT !.phase = "move"].todo = g.todo
         /\ [g EXCEPT !.phase = "move"].at = g.at
         /\ [g EXCEPT !.phase = "apply", !.at = 0] \in Passes
         /\ [g EXCEPT !.phase = "apply", !.at = 0].phase = "apply"
         /\ [g EXCEPT !.phase = "apply", !.at = 0].todo = g.todo
BY DEF Passes, PassPhases

LEMMA AuditKeeps == ASSUME RetentionInv, WriteAudit PROVE RetentionInv'
<1>0. RetentionTypeOK /\ UNCHANGED <<folder, policy, events, proved, hurt>>
      /\ pass.phase = "intent" /\ pass \in Passes
  BY RetentionUnfolded DEF RetentionInv, WriteAudit, Stays
<1>1. \A s \in ToMove : s \in RunIds /\ Local(s)' /\ s # CurrentRun'
  BY <1>0, SamePlaces, RetentionUnfolded, PassFields DEF RetentionInv, ToMove
<1>2. CASE pass' = [pass EXCEPT !.phase = "apply", !.at = 0] /\ audit' = audit
  <2>1. pass' \in Passes /\ pass'.phase = "apply" /\ pass'.todo = pass.todo
    BY <1>0, <1>2, PassUpdate
  <2>2. RetentionTypeOK'
    BY <1>0, <1>2, <2>1, RetentionUnfolded DEF RetentionTypeOK, Folders, Passes
  <2> QED
    BY <1>1, <2>1, <2>2 DEF RetentionInv, ToMove
<1>3. CASE pass' = [pass EXCEPT !.phase = "move"] /\ audit' = audit \cup {pass.at}
  <2>1. pass' \in Passes /\ pass'.phase = "move" /\ pass'.todo = pass.todo /\ pass'.at = pass.at
    BY <1>0, <1>3, PassUpdate
  <2>2. audit' \subseteq RunIds
    BY <1>0, <1>3, AtHand, RetentionUnfolded
  <2>3. RetentionTypeOK'
    BY <1>0, <2>1, <2>2, RetentionUnfolded DEF RetentionTypeOK, Folders, Passes
  <2> QED
    BY <1>0, <1>1, <1>3, <2>1, <2>3 DEF RetentionInv, ToMove, WasWhole
<1>4. CASE EndPass /\ audit' = audit
  BY <1>0, <1>4, IdlePass, Rest, RetentionUnfolded DEF RetentionTypeOK, Folders, Passes
<1> QED
  BY <1>2, <1>3, <1>4 DEF WriteAudit

LEMMA MoveKeeps == ASSUME RetentionInv, MoveFolder PROVE RetentionInv'
<1>0. RetentionTypeOK /\ UNCHANGED <<audit, policy, events, proved, hurt>>
      /\ pass.phase = "move" /\ pass \in Passes
  BY RetentionUnfolded DEF RetentionInv, MoveFolder, Stays
<1>1. CASE EndPass /\ folder' = folder
  BY <1>0, <1>1, IdlePass, Rest, RetentionUnfolded DEF RetentionTypeOK, Folders, Passes
<1>2. CASE folder' = [folder EXCEPT ![pass.at].place = "quarantine"]
           /\ pass' = [pass EXCEPT !.phase = "apply", !.at = 0]
  <2>1. pass.at \in RunIds /\ Local(pass.at) /\ pass.at \notin pass.todo
    BY <1>0, AtHand DEF RetentionInv
  <2>2. folder \in [RunIds -> Folders] /\ folder[pass.at] \in Folders
    BY <1>0, <2>1, RetentionUnfolded
  <2>3. PICK g \in Folders : g.place = "quarantine" /\ folder' = [folder EXCEPT ![pass.at] = g]
    BY <1>2, <2>2, FolderFields
  <2>4. folder' \in [RunIds -> Folders]
        /\ \A r \in RunIds : folder'[r] = IF r = pass.at THEN g ELSE folder[r]
    BY <2>1, <2>2, <2>3
  <2>5. pass' \in Passes /\ pass'.phase = "apply" /\ pass'.todo = pass.todo
        /\ pass.todo \subseteq RunIds
    BY <1>0, <1>2, PassUpdate, PassFields
  <2>6. RetentionTypeOK'
    BY <1>0, <2>1, <2>4, <2>5, RetentionUnfolded DEF RetentionTypeOK, Folders, Passes
  <2>7. Captured' = Captured
    BY <2>1, <2>3, <2>4 DEF Captured, Local
  <2>8. \A r \in ToMove' : Local(r)' /\ r # CurrentRun'
    BY <2>1, <2>4, <2>5, <2>7 DEF RetentionInv, ToMove, Local, CurrentRun
  <2> QED
    BY <2>5, <2>6, <2>8 DEF RetentionInv
<1> QED
  BY <1>1, <1>2 DEF MoveFolder

LEMMA CrashPassKeeps == ASSUME RetentionInv, CrashPass PROVE RetentionInv'
<1>1. RetentionTypeOK /\ UNCHANGED <<folder, audit, policy, events, proved, hurt>> /\ EndPass
  BY DEF RetentionInv, CrashPass, Stays
<1> QED
  BY <1>1, IdlePass, Rest, RetentionUnfolded DEF RetentionTypeOK, Folders, Passes

(* What happens beside a pass leaves every folder where it is, and damages *)
(* none that is not put down in hurt.                                      *)
Touched(r, g) ==
  /\ folder' = [folder EXCEPT ![r] = g] /\ g.place = folder[r].place
  /\ g.capture = folder[r].capture \/ r \in hurt'

LEMMA BesideStep ==
  ASSUME RetentionInv, NEW r \in RunIds, PinRun(r) \/ RestoreTest(r) \/ DamageRun(r)
  PROVE  /\ Event /\ proved' \subseteq RunIds /\ hurt' \subseteq RunIds /\ hurt \subseteq hurt'
         /\ \E g \in Folders : Touched(r, g)
<1>1. folder \in [RunIds -> Folders] /\ folder[r] \in Folders /\ proved \subseteq RunIds
      /\ hurt \subseteq RunIds
  BY RetentionUnfolded DEF RetentionInv
<1>2. [folder EXCEPT ![r] = folder[r]] = folder
  BY <1>1
<1>3. CASE PinRun(r)
  <2>1. folder' = [folder EXCEPT ![r] = [folder[r] EXCEPT !.pinned = TRUE]]
    BY <1>3 DEF PinRun
  <2>2. Touched(r, [folder[r] EXCEPT !.pinned = TRUE])
    BY <1>1, <2>1, FolderFields DEF Touched
  <2> QED
    BY <1>1, <1>3, <2>2, FolderFields DEF PinRun
<1>4. ASSUME NEW ok \in BOOLEAN, RecordTest(r, ok)
      PROVE  proved' \subseteq RunIds /\ \E g \in Folders : Touched(r, g)
  <2>1. proved' \subseteq RunIds
    BY <1>1, <1>4 DEF RecordTest
  <2>2. CASE folder' = [folder EXCEPT ![r].tested = ok]
    <3>1. folder' = [folder EXCEPT ![r] = [folder[r] EXCEPT !.tested = ok]]
      BY <2>2
    <3>2. Touched(r, [folder[r] EXCEPT !.tested = ok])
      BY <1>1, <3>1, TestedField DEF Touched
    <3> QED
      BY <1>1, <2>1, <3>2, TestedField
  <2>3. CASE folder' = folder
    <3>1. Touched(r, folder[r])
      BY <1>2, <2>3 DEF Touched
    <3> QED
      BY <1>1, <2>1, <3>1
  <2> QED
    BY <1>4, <2>2, <2>3 DEF RecordTest
<1>5. CASE RestoreTest(r)
  BY <1>1, <1>4, <1>5 DEF RestoreTest
<1>6. CASE DamageRun(r)
  <2>1. folder' = [folder EXCEPT ![r] = [folder[r] EXCEPT !.capture = "damaged"]]
        /\ r \in hurt'
    BY <1>6 DEF DamageRun
  <2>2. Touched(r, [folder[r] EXCEPT !.capture = "damaged"])
    BY <1>1, <2>1, FolderFields DEF Touched
  <2> QED
    BY <1>1, <1>6, <2>2, FolderFields DEF DamageRun
<1> QED
  BY <1>3, <1>5, <1>6

LEMMA BesideKeeps ==
  ASSUME RetentionInv, NEW r \in RunIds, PinRun(r) \/ RestoreTest(r) \/ DamageRun(r)
  PROVE  RetentionInv'
<1>0. PICK g \in Folders : Touched(r, g)
  BY BesideStep
<1>1. RetentionTypeOK /\ UNCHANGED <<policy, pass, audit>> /\ events < MaxEvents
      /\ events' = events + 1 /\ proved' \subseteq RunIds /\ hurt' \subseteq RunIds
      /\ hurt \subseteq hurt'
  BY BesideStep DEF RetentionInv, Event
<1>2. folder' \in [RunIds -> Folders]
      /\ \A s \in RunIds : /\ folder'[s].place = folder[s].place
                           /\ folder'[s].capture = folder[s].capture \/ s \in hurt'
  BY <1>0, <1>1, RetentionUnfolded DEF Touched
<1>3. pass \in Passes /\ pass.todo \subseteq RunIds /\ events' \in 0..MaxEvents
  BY <1>1, RetentionAssumption, RetentionUnfolded, PassFields
<1>4. RetentionTypeOK'
  BY <1>1, <1>2, <1>3, RetentionUnfolded DEF RetentionTypeOK, Folders, Passes
<1>5. \A s \in ToMove' : s \in RunIds /\ Local(s)' /\ s # CurrentRun'
  BY <1>1, <1>2, <1>3, AtHand, SamePlaces DEF RetentionInv, ToMove
<1>6. pass.phase \in {"intent", "move"} => WasWhole(pass.at)'
  BY <1>1, <1>2, AtHand DEF RetentionInv, WasWhole
<1> QED
  BY <1>1, <1>4, <1>5, <1>6 DEF RetentionInv

LEMMA RetentionIdle == ASSUME RetentionInv, UNCHANGED retentionVars PROVE RetentionInv'
BY DEF retentionVars, RetentionInv, RetentionTypeOK, ToMove, Local, WasWhole, CurrentRun, Captured

LEMMA RetentionKeeps == ASSUME RetentionInv, [RetentionNext]_retentionVars PROVE RetentionInv'
BY CaptureKeeps, PlanKeeps, ReverifyKeeps, AuditKeeps, MoveKeeps, CrashPassKeeps, BesideKeeps,
   RetentionIdle
   DEF RetentionNext

(* Every state of retention has the form of its type.                      *)
THEOREM RetentionTypeCorrect == RetentionSpec => []RetentionTypeOK
<1>1. RetentionInv => RetentionTypeOK
  BY DEF RetentionInv
<1> QED
  BY <1>1, RetentionStart, RetentionKeeps, PTL DEF RetentionSpec

(* Retention only moves a folder away that has its QUARANTINE_INTENT in    *)
(* the journal, is not of the run that it is part of, and was whole when   *)
(* it was read again: only damage after the plan can have changed that.    *)
THEOREM MovesAlwaysJournaled ==
  RetentionSpec => [][\A r \in RunIds : Local(r) /\ folder'[r].place = "quarantine"
                                       => r \in audit /\ r # CurrentRun /\ WasWhole(r)]_retentionVars
<1> DEFINE Leaves(r) == Local(r) /\ folder'[r].place = "quarantine"
<1>1. ASSUME RetentionInv, RetentionNext, NEW r \in RunIds, Leaves(r)
      PROVE  r \in audit /\ r # CurrentRun /\ WasWhole(r)
  <2>0. folder \in [RunIds -> Folders] /\ folder'[r].place # folder[r].place
    BY <1>1, RetentionUnfolded DEF RetentionInv, Local
  <2>1. ~UNCHANGED folder
    BY <2>0
  <2>2. ~Capture
    <3>1. SUFFICES ASSUME Capture PROVE FALSE
      OBVIOUS
    <3>2. CASE r = CurrentRun + 1
      BY <1>1, <2>0, <3>1, <3>2 DEF Capture, NoFolder, Local
    <3>3. CASE r # CurrentRun + 1
      BY <2>0, <3>1, <3>3 DEF Capture
    <3> QED
      BY <3>2, <3>3
  <2>3. \A s \in RunIds : ~(PinRun(s) \/ RestoreTest(s) \/ DamageRun(s))
    BY <1>1, <2>0, BesideStep DEF Touched
  <2>4. MoveFolder
    BY <1>1, <2>1, <2>2, <2>3
       DEF RetentionNext, PlanRetention, ReverifyCandidate, WriteAudit, CrashPass
  <2>5. pass.phase = "move" /\ r = pass.at
    BY <2>0, <2>4 DEF MoveFolder
  <2> QED
    BY <1>1, <2>5, AtHand DEF RetentionInv
<1>2. RetentionInv /\ [RetentionNext]_retentionVars
      => [\A r \in RunIds : Local(r) /\ folder'[r].place = "quarantine"
                           => r \in audit /\ r # CurrentRun /\ WasWhole(r)]_retentionVars
  BY <1>1
<1> QED
  BY <1>2, RetentionStart, RetentionKeeps, PTL DEF RetentionSpec

-----------------------------------------------------------------------------
(* The composition: a step of one component leaves the others alone.       *)
TogetherInv == ScopeInv /\ ApplyInv /\ SlotTypeOK /\ RetentionInv /\ CacheInv

LEMMA TogetherStart == OperatorInit => TogetherInv
BY ScopeStart, ApplyStart, SlotStart, RetentionStart, CacheStart DEF OperatorInit, TogetherInv

LEMMA TogetherStep == TogetherInv /\ [OperatorNext]_operatorVars => TogetherInv'
<1> SUFFICES ASSUME TogetherInv, [OperatorNext]_operatorVars PROVE TogetherInv'
  OBVIOUS
<1>1. [ScopeNext]_scopeVars /\ [ApplyNext]_applyVars /\ [SlotNext]_slotVars
      /\ [RetentionNext]_retentionVars /\ [CacheNext]_cacheVars
  BY DEF OperatorNext, operatorVars, keptVars
<1> QED
  BY <1>1, ScopeStep, ApplyStep, SlotStep, RetentionKeeps, CacheStep DEF TogetherInv

(* The structs and files of the five components together have the form     *)
(* that the code gives them, whichever of them move.                       *)
THEOREM OperatorTypeCorrect == OperatorSpec => []OperatorTypeOK
<1>1. TogetherInv => OperatorTypeOK
  BY ScopeTyped
     DEF TogetherInv, OperatorTypeOK, ApplyInv, RetentionInv, CacheInv
<1> QED
  BY <1>1, TogetherStart, TogetherStep, PTL DEF OperatorSpec
=============================================================================
