-------------------------- MODULE Pagination_proofs --------------------------
(***************************************************************************)
(* Proofs about Pagination: no row is shown twice in its place, and a row  *)
(* is skipped only at a cut cursor or at a page that was torn.             *)
(***************************************************************************)
EXTENDS Pagination, FiniteSetTheorems, TLAPS

(***************************************************************************)
(* The order of places, and what a cursor loses.                           *)
(***************************************************************************)
LEMMA TruncBelow ==
  ASSUME NEW t \in Nat
  PROVE  Trunc(t) \in Nat /\ Trunc(t) <= t
BY DEF Trunc

\* Between a key and what its cursor keeps of it lies one millisecond.
LEMMA TruncSame ==
  ASSUME NEW a \in Nat, NEW b \in Nat, Trunc(b) <= a, a <= b
  PROVE  Trunc(a) = Trunc(b)
BY DEF Trunc

LEMMA LessTransitive ==
  ASSUME NEW a \in Place, NEW b \in Place, NEW c \in Place,
         Less(a, b), Less(b, c)
  PROVE  Less(a, c)
BY DEF Less, Place

LEMMA LessIrreflexive ==
  ASSUME NEW a \in Place
  PROVE  ~Less(a, a)
BY DEF Less, Place

\* A cursor is the place of its row or one that is less.
LEMMA TruncLess ==
  ASSUME NEW k \in Nat, NEW i \in Nat, NEW p \in Place,
         Less(p, [key |-> Trunc(k), id |-> i])
  PROVE  Less(p, [key |-> k, id |-> i])
BY TruncBelow DEF Less, Place


-----------------------------------------------------------------------------
\* What the walk has shown lies behind its cursor.
SeenIsPassed ==
  stage # "done" =>
    \A i \in seen : table[i] # Unborn /\ (Present(i) => ~Past(cursor, i))

OwedIsListed == \A i \in owed : Listed(i)

\* The rows are the next of those owed.
IsPage(rows) ==
  /\ rows \subseteq Candidates
  /\ Cardinality(rows) <= limit + 1
  /\ Cardinality(rows) < limit + 1 => owed \cap Candidates \subseteq rows
  /\ \A i \in rows, j \in (owed \cap Candidates) \ rows :
       Before(PlaceOf(i), PlaceOf(j))

FirstQuery == stage = "reading" => torn \/ IsPage(ids)

Inv ==
  /\ TypeOK
  /\ NoRepeats
  /\ SeenIsPassed
  /\ OwedIsListed
  /\ FirstQuery
  /\ SkipsHaveAReason

LEMMA RowType ==
  ASSUME TypeOK, NEW i \in Ids, Present(i)
  PROVE  /\ table[i] \in Row
         /\ PlaceOf(i) \in Place
         /\ CursorOf(i) \in Place /\ CursorOf(i) # Start
<1>1. table[i] \in Row
  BY DEF TypeOK, Present
<1>2. table[i].key \in Nat /\ i \in Nat
  BY <1>1, PaginationAssumption DEF Row
<1>3. Trunc(table[i].key) \in Nat
  BY <1>2, TruncBelow
<1>. QED
  BY <1>1, <1>2, <1>3 DEF PlaceOf, CursorOf, Place, Start

LEMMA BeforeTransitive ==
  ASSUME NEW a \in Place, NEW b \in Place, NEW c \in Place,
         Before(a, b), Before(b, c)
  PROVE  Before(a, c)
BY LessTransitive DEF Before

LEMMA BeforeIrreflexive ==
  ASSUME NEW a \in Place
  PROVE  ~Before(a, a)
BY LessIrreflexive DEF Before

\* What comes after the cursor of a row comes after the row.
LEMMA AfterCursor ==
  ASSUME TypeOK, NEW last \in Ids, Present(last), NEW p \in Place,
         Before(CursorOf(last), p)
  PROVE  Before(PlaceOf(last), p)
<1>1. table[last].key \in Nat /\ last \in Nat
  BY RowType, PaginationAssumption DEF Row
<1>2. CASE ByPrice
  BY <1>2 DEF CursorOf, PlaceOf
<1>3. CASE ~ByPrice
  BY <1>1, <1>3, TruncLess DEF CursorOf, PlaceOf, Before, ByPrice
<1>. QED
  BY <1>2, <1>3

\* A row that the walk has passed stays passed when it goes on.
LEMMA StaysPassed ==
  ASSUME TypeOK, NEW last \in Candidates, NEW i \in Ids, Present(i),
         ~Past(cursor, i)
  PROVE  ~Past(CursorOf(last), i)
<1>1. last \in Ids /\ Present(last) /\ Past(cursor, last)
  BY DEF Candidates, Listed
<1>2. PlaceOf(last) \in Place /\ PlaceOf(i) \in Place /\ CursorOf(last) # Start
  BY <1>1, RowType
<1>3. cursor # Start /\ cursor \in Place
  BY DEF Past, TypeOK
<1>. QED
  BY <1>1, <1>2, <1>3, AfterCursor, BeforeTransitive DEF Past

\* Nor does it meet again the rows of the page it has just shown.
LEMMA PageIsPassed ==
  ASSUME TypeOK, NEW items \in SUBSET Candidates, NEW last, IsLast(last, items),
         NEW i \in items
  PROVE  ~Past(CursorOf(last), i)
<1>1. /\ last \in Ids /\ Present(last)
      /\ i \in Ids /\ Present(i)
  BY DEF IsLast, Candidates, Listed
<1>2. PlaceOf(last) \in Place /\ PlaceOf(i) \in Place /\ CursorOf(last) # Start
  BY <1>1, RowType
<1>3. i = last \/ Before(PlaceOf(i), PlaceOf(last))
  BY DEF IsLast
<1>4. SUFFICES ASSUME Before(PlaceOf(last), PlaceOf(i))
               PROVE  FALSE
  BY <1>1, <1>2, AfterCursor DEF Past
<1>. QED
  BY <1>2, <1>3, <1>4, BeforeTransitive, BeforeIrreflexive

\* A row that a cursor jumps over is in the millisecond that it was cut to.
LEMMA Jumped ==
  ASSUME TypeOK, NEW last \in Ids, Present(last), NEW i \in Ids, Present(i),
         Before(PlaceOf(last), PlaceOf(i)), ~Past(CursorOf(last), i)
  PROVE  /\ ~ByPrice
         /\ Trunc(table[last].key) # table[last].key
         /\ Trunc(table[i].key) = Trunc(table[last].key)
<1>1. ~Before(CursorOf(last), PlaceOf(i))
  BY DEF Past
<1>2. ~ByPrice /\ Trunc(table[last].key) # table[last].key
  BY <1>1 DEF CursorOf, PlaceOf
<1>3. table[i].key \in Nat /\ table[last].key \in Nat /\ i \in Nat /\ last \in Nat
  BY RowType, PaginationAssumption DEF Row
<1>4. table[i].key <= table[last].key /\ Trunc(table[last].key) <= table[i].key
  BY <1>1, <1>2, <1>3, TruncBelow DEF Before, Less, PlaceOf, CursorOf, ByPrice
<1>. QED
  BY <1>2, <1>3, <1>4, TruncSame


-----------------------------------------------------------------------------
LEMMA FiniteSubset ==
  ASSUME NEW S \in SUBSET Ids
  PROVE  IsFiniteSet(S) /\ Cardinality(S) \in Nat
BY PaginationAssumption, FS_Subset, FS_CardinalityType

\* A page with nothing after it is all there was to show.
LEMMA LastPage ==
  ASSUME TypeOK, NEW rows \in SUBSET Ids,
         NEW items \in SUBSET rows, IsFirst(items, limit, rows), ~HasMore(rows)
  PROVE  items = rows /\ Cardinality(rows) < limit + 1
<1>1. /\ IsFiniteSet(rows) /\ Cardinality(rows) \in Nat
      /\ Cardinality(items) \in Nat
      /\ limit \in Nat
  BY FiniteSubset, PaginationAssumption DEF TypeOK
<1>2. Cardinality(items) <= Cardinality(rows)
      /\ (Cardinality(rows) = Cardinality(items) => rows = items)
  BY <1>1, FS_Subset
<1>3. Cardinality(items) <= limit /\ (Cardinality(items) < limit => items = rows)
  BY DEF IsFirst
<1>4. Cardinality(rows) <= limit
  BY <1>1 DEF HasMore
<1>. QED
  BY <1>1, <1>2, <1>3, <1>4

\* What an answer does to the state, without its choice of a page.
LEMMA AnswerType ==
  ASSUME TypeOK, NEW rows \in SUBSET Candidates, Answer(rows)
  PROVE  TypeOK'
<1>1. PICK items \in SUBSET rows :
        /\ seen' = seen \cup items
        /\ again' = again \cup (seen \cap items)
        /\ ids' = {} /\ owed' = owed \ items
        /\ \/ /\ stage' = "asking"
              /\ \E last \in items :
                   /\ IsLast(last, items)
                   /\ cursor' = CursorOf(last)
                   /\ cuts' = cuts \cup ({cursor'.key} \ {table[last].key})
           \/ stage' = "done" /\ cursor' = Start /\ cuts' = cuts
        /\ UNCHANGED <<list, limit, table, torn>>
  BY DEF Answer
<1>2. items \subseteq Ids
  BY DEF Candidates
<1>3. stage' \in Stages /\ cursor' \in Place \cup {Start} /\ cuts' \subseteq Nat
  <2>1. CASE stage' = "done" /\ cursor' = Start /\ cuts' = cuts
    BY <2>1 DEF TypeOK, Stages
  <2>2. CASE stage' = "asking" /\ \E last \in items :
                   /\ cursor' = CursorOf(last)
                   /\ cuts' = cuts \cup ({cursor'.key} \ {table[last].key})
    <3>1. PICK last \in items :
            /\ cursor' = CursorOf(last)
            /\ cuts' = cuts \cup ({cursor'.key} \ {table[last].key})
      BY <2>2
    <3>2. last \in Ids /\ Present(last)
      BY DEF Candidates, Listed
    <3>3. cursor' \in Place
      BY <3>1, <3>2, RowType
    <3>4. cursor'.key \in Nat
      BY <3>3 DEF Place
    <3>. QED
      BY <2>2, <3>1, <3>3, <3>4 DEF TypeOK, Stages
  <2>. QED
    BY <1>1, <2>1, <2>2
<1>. QED
  BY <1>1, <1>2, <1>3 DEF TypeOK

LEMMA AnswerSeen ==
  ASSUME Inv, stage # "done", NEW rows \in SUBSET Candidates, Answer(rows)
  PROVE  NoRepeats' /\ SeenIsPassed'
<1>1. PICK items \in SUBSET rows :
        /\ seen' = seen \cup items
        /\ again' = again \cup (seen \cap items)
        /\ \/ \E last \in items : IsLast(last, items) /\ cursor' = CursorOf(last)
           \/ stage' = "done"
        /\ UNCHANGED <<list, limit, table, torn>>
  BY DEF Answer
<1>2. \A i \in items : i \in Ids /\ Listed(i) /\ Past(cursor, i)
  BY DEF Candidates
<1>3. NoRepeats'
  BY <1>1, <1>2 DEF Inv, NoRepeats, SeenIsPassed, Listed
<1>4. SeenIsPassed'
  <2>1. SUFFICES ASSUME stage' # "done", NEW i \in seen'
                 PROVE  /\ table[i] # Unborn
                        /\ Present(i) => ~(cursor' = Start \/ Before(cursor', PlaceOf(i)))
    BY <1>1 DEF SeenIsPassed, Present, Past, PlaceOf, Before
  <2>2. PICK last \in items : IsLast(last, items) /\ cursor' = CursorOf(last)
    BY <1>1, <2>1
  <2>3. SUFFICES table[i] # Unborn /\ (Present(i) => ~Past(CursorOf(last), i))
    BY <2>2 DEF Past
  <2>4. CASE i \in items
    BY <1>2, <2>2, <2>4, PageIsPassed DEF Inv, Listed, Present, Missing
  <2>5. CASE i \in seen
    <3>1. i \in Ids /\ last \in Candidates
      BY <2>5 DEF Inv, TypeOK
    <3>. QED
      BY <2>5, <3>1, StaysPassed DEF Inv, SeenIsPassed
  <2>. QED
    BY <1>1, <2>1, <2>4, <2>5
<1>. QED
  BY <1>3, <1>4

LEMMA AnswerOwed ==
  ASSUME Inv, stage # "done", NEW rows \in SUBSET Candidates, Answer(rows),
         torn \/ IsPage(rows)
  PROVE  SkipsHaveAReason' /\ OwedIsListed'
<1>1. PICK items \in SUBSET rows :
        /\ IsFirst(items, limit, rows)
        /\ owed' = owed \ items
        /\ \/ /\ HasMore(rows) /\ stage' = "asking"
              /\ \E last \in items :
                   /\ IsLast(last, items)
                   /\ cursor' = CursorOf(last)
                   /\ cuts' = cuts \cup ({cursor'.key} \ {table[last].key})
           \/ ~HasMore(rows) /\ stage' = "done" /\ cuts' = cuts
        /\ UNCHANGED <<list, limit, table, torn>>
  BY DEF Answer
<1>2. OwedIsListed'
  BY <1>1 DEF Inv, OwedIsListed, Listed, Present, Filtered
<1>3. ASSUME NEW i \in owed', Passed(i)'
      PROVE  Excused(i)'
  <2>1. i \in owed /\ i \in Ids /\ i \notin items /\ Listed(i) /\ Present(i)
    BY <1>1, <1>3 DEF Inv, TypeOK, OwedIsListed, Listed
  <2>2. Excused(i) => Excused(i)'
    BY <1>1 DEF Excused, ByPrice
  <2>3. CASE torn \/ ~Past(cursor, i)
    BY <2>1, <2>2, <2>3 DEF Inv, SkipsHaveAReason, Passed, Excused
  <2>4. CASE ~torn /\ Past(cursor, i)
    <3>1. /\ i \in owed \cap Candidates
          /\ IsPage(rows)
      BY <2>1, <2>4 DEF Candidates
    <3>2. CASE ~HasMore(rows)
      <4>1. rows \in SUBSET Ids /\ Cardinality(rows) \in Nat
        BY FiniteSubset DEF Candidates
      <4>2. items = rows /\ Cardinality(rows) < limit + 1
        BY <1>1, <3>1, <3>2, <4>1, LastPage DEF Inv, IsFirst
      <4>. QED
        BY <2>1, <3>1, <4>2 DEF IsPage
    <3>3. CASE HasMore(rows)
      <4>1. PICK last \in items :
              /\ stage' = "asking"
              /\ cursor' = CursorOf(last)
              /\ cuts' = cuts \cup ({cursor'.key} \ {table[last].key})
        BY <1>1, <3>3
      <4>2. last \in Ids /\ Present(last)
        BY DEF Candidates, Listed
      <4>3. Before(PlaceOf(last), PlaceOf(i))
        BY <1>1, <2>1, <3>1 DEF IsFirst, IsPage
      <4>4. ~Past(CursorOf(last), i)
        BY <1>1, <1>3, <4>1 DEF Passed, Past, Before, PlaceOf
      <4>5. /\ ~ByPrice
            /\ Trunc(table[last].key) # table[last].key
            /\ Trunc(table[i].key) = Trunc(table[last].key)
        BY <2>1, <4>2, <4>3, <4>4, Jumped DEF Inv
      <4>6. cursor'.key = Trunc(table[last].key)
        BY <4>1, <4>5 DEF CursorOf
      <4>. QED
        BY <1>1, <4>1, <4>5, <4>6 DEF Excused, ByPrice
    <3>. QED
      BY <3>2, <3>3
  <2>. QED
    BY <2>3, <2>4
<1>. QED
  BY <1>2, <1>3 DEF SkipsHaveAReason


-----------------------------------------------------------------------------
LEMMA AnswerStep ==
  ASSUME Inv, stage # "done", NEW rows \in SUBSET Candidates, Answer(rows),
         torn \/ IsPage(rows)
  PROVE  Inv'
<1>1. TypeOK' /\ NoRepeats' /\ SeenIsPassed' /\ SkipsHaveAReason' /\ OwedIsListed'
  BY AnswerType, AnswerSeen, AnswerOwed DEF Inv
<1>2. stage' # "reading"
  BY DEF Answer
<1>. QED
  BY <1>1, <1>2 DEF Inv, FirstQuery

LEMMA OpenStep ==
  ASSUME Inv, Open
  PROVE  Inv'
<1>1. TypeOK'
  BY DEF Inv, TypeOK, Open, Stages
<1>2. NoRepeats' /\ SeenIsPassed' /\ FirstQuery'
  BY DEF Open, NoRepeats, SeenIsPassed, FirstQuery
<1>3. OwedIsListed'
  BY DEF Open, OwedIsListed, Listed, Present, Filtered
<1>4. SkipsHaveAReason'
  BY DEF Open, SkipsHaveAReason, Passed, Past
<1>. QED
  BY <1>1, <1>2, <1>3, <1>4 DEF Inv

LEMMA ReadIdsStep ==
  ASSUME Inv, ReadIds
  PROVE  Inv'
<1>1. /\ ids' \in SUBSET Candidates /\ IsFirst(ids', limit + 1, Candidates)
      /\ stage = "asking" /\ stage' = "reading"
      /\ UNCHANGED <<list, limit, table, cursor, walk>>
  BY DEF ReadIds
<1>2. TypeOK'
  BY <1>1 DEF Inv, TypeOK, Stages, Candidates, walk
<1>3. NoRepeats' /\ SeenIsPassed' /\ OwedIsListed'
  BY <1>1 DEF Inv, NoRepeats, SeenIsPassed, OwedIsListed, Listed, Present, Past,
       Before, PlaceOf, Filtered, walk
<1>4. SkipsHaveAReason'
  BY <1>1 DEF Inv, SkipsHaveAReason, Passed, Excused, ByPrice, Past, Before, PlaceOf, walk
<1>5. FirstQuery'
  <2>1. PICK P \in SUBSET Candidates : P = ids' /\ IsFirst(P, limit + 1, Candidates)
    BY <1>1
  <2>2. IsPage(P)
    BY <2>1 DEF IsPage, IsFirst
  <2>3. IsPage(ids)'
    BY <1>1, <2>1, <2>2 DEF IsPage, Candidates, Listed, Present, Filtered, Past,
         Before, PlaceOf, walk
  <2>. QED
    BY <2>3 DEF FirstQuery
<1>. QED
  BY <1>2, <1>3, <1>4, <1>5 DEF Inv

LEMMA ReadRowsStep ==
  ASSUME Inv, ReadRows
  PROVE  Inv'
<1>1. stage = "reading" /\ Answer(ids \cap Candidates)
  BY DEF ReadRows
<1>2. torn \/ (IsPage(ids) /\ ids \cap Candidates = ids)
  BY <1>1 DEF Inv, FirstQuery, IsPage
<1>3. stage # "done" /\ ids \cap Candidates \in SUBSET Candidates
  BY <1>1
<1>. QED
  BY <1>1, <1>2, <1>3, AnswerStep

LEMMA ReadPageStep ==
  ASSUME Inv, ReadPage
  PROVE  Inv'
<1>1. PICK rows \in SUBSET Candidates :
        IsFirst(rows, limit + 1, Candidates) /\ Answer(rows) /\ stage = "asking"
  BY DEF ReadPage
<1>2. IsPage(rows)
  BY <1>1 DEF IsPage, IsFirst
<1>. QED
  BY <1>1, <1>2, AnswerStep


\* A row is written: the walk gives it up if it was owed, notes that the page is
\* torn if it was in it, and the row keeps its place if it counts as shown.
LEMMA WriteStep ==
  ASSUME Inv, NEW i \in Ids, NEW row \in Row \cup {Deleted}, Put(i, row),
         UNCHANGED <<list, limit, request, again, cuts>>,
         seen' \subseteq seen, owed' \subseteq owed, i \notin owed',
         torn' \in BOOLEAN, torn => torn', torn' \/ i \notin ids,
         \/ stage = "done" \/ i \notin seen' \/ row = Deleted
         \/ Present(i) /\ row.key = table[i].key
  PROVE  Inv'
<1>1. /\ table' \in [Ids -> Row \cup Missing]
      /\ table'[i] = row
      /\ \A j \in Ids \ {i} : table'[j] = table[j]
  BY DEF Inv, TypeOK, Put, Missing
<1>2. TypeOK'
  BY <1>1 DEF Inv, TypeOK, request
<1>3. NoRepeats'
  BY DEF Inv, NoRepeats
<1>4. SeenIsPassed'
  <2>1. SUFFICES ASSUME stage # "done", NEW j \in seen'
                 PROVE  /\ table'[j] # Unborn
                        /\ table'[j] \notin Missing =>
                             ~(cursor = Start \/ Before(cursor, [key |-> table'[j].key, id |-> j]))
    BY DEF SeenIsPassed, Present, Past, PlaceOf, Before, request
  <2>2. /\ j \in Ids /\ table[j] # Unborn
        /\ Present(j) => ~Past(cursor, j)
    BY <2>1 DEF Inv, TypeOK, SeenIsPassed
  <2>3. CASE j # i
    BY <1>1, <2>2, <2>3 DEF Present, Past, PlaceOf
  <2>4. CASE j = i /\ row = Deleted
    BY <1>1, <2>4, PaginationAssumption DEF Missing
  <2>5. CASE j = i /\ Present(i) /\ row.key = table[i].key /\ row # Deleted
    <3>1. PlaceOf(i) = [key |-> table'[i].key, id |-> i]
      BY <1>1, <2>5 DEF PlaceOf
    <3>2. row # Unborn
      BY <2>5, PaginationAssumption DEF Missing
    <3>3. table'[j] # Unborn
      BY <1>1, <2>5, <3>2
    <3>. QED
      BY <1>1, <2>2, <2>5, <3>1, <3>3 DEF Past
  <2>. QED
    BY <2>1, <2>3, <2>4, <2>5
<1>5. OwedIsListed'
  BY <1>1 DEF Inv, TypeOK, OwedIsListed, Listed, Present, Filtered
<1>6. SkipsHaveAReason'
  BY <1>1 DEF Inv, TypeOK, SkipsHaveAReason, Passed, Excused, ByPrice, Past, Before,
       PlaceOf, request
<1>7. FirstQuery'
  <2>1. SUFFICES ASSUME stage = "reading", ~torn, i \notin ids
                 PROVE  IsPage(ids)'
    BY DEF FirstQuery, request
  <2>2. IsPage(ids) /\ ids \subseteq Ids /\ owed \subseteq Ids
    BY <2>1 DEF Inv, FirstQuery, TypeOK
  <2>3. \A j \in Ids \ {i} : j \in Candidates <=> j \in Candidates'
    BY <1>1 DEF Candidates, Listed, Present, Filtered, Past, Before, PlaceOf, request
  <2>4. \A j, k \in Ids \ {i} :
          Before(PlaceOf(j), PlaceOf(k)) <=> Before(PlaceOf(j), PlaceOf(k))'
    BY <1>1 DEF Before, PlaceOf
  <2>5. ids' = ids /\ limit' = limit
    BY DEF request
  <2>6. /\ ids \subseteq Candidates'
        /\ Cardinality(ids) < limit + 1 => owed' \cap Candidates' \subseteq ids
    BY <2>1, <2>2, <2>3 DEF IsPage
  <2>7. ASSUME NEW j \in ids, NEW k \in (owed' \cap Candidates') \ ids
        PROVE  Before(PlaceOf(j), PlaceOf(k))'
    <3>1. j \in Ids \ {i} /\ k \in Ids \ {i} /\ k \in (owed \cap Candidates) \ ids
      BY <2>1, <2>2, <2>3, <2>7
    <3>2. Before(PlaceOf(j), PlaceOf(k))
      BY <2>2, <2>7, <3>1 DEF IsPage
    <3>. QED
      BY <2>4, <3>1, <3>2
  <2>. QED
    BY <2>2, <2>5, <2>6, <2>7 DEF IsPage
<1>. QED
  BY <1>2, <1>3, <1>4, <1>5, <1>6, <1>7 DEF Inv


LEMMA CreateStep ==
  ASSUME Inv, NEW i \in Ids, Create(i)
  PROVE  Inv'
<1>1. PICK row \in Row : Put(i, row)
  BY DEF Create
<1>2. table[i] = Unborn /\ UNCHANGED <<list, limit, request, walk>>
  BY DEF Create
<1>3. i \notin owed /\ (stage = "done" \/ i \notin seen) /\ (torn \/ i \notin ids)
  BY <1>2 DEF Inv, TypeOK, OwedIsListed, SeenIsPassed, FirstQuery, IsPage,
       Candidates, Listed, Present, Missing
<1>4. torn \in BOOLEAN
  BY DEF Inv, TypeOK
<1>. QED
  BY <1>1, <1>2, <1>3, <1>4, WriteStep DEF walk

LEMMA RelistStep ==
  ASSUME Inv, NEW i \in Ids, Relist(i)
  PROVE  Inv'
<1>. DEFINE row == [table[i] EXCEPT !.listed = ~@]
<1>1. /\ Present(i) /\ Put(i, row) /\ seen' = seen /\ Displaced(i)
  BY DEF Relist
<1>2. table[i] \in Row
  BY <1>1, RowType DEF Inv
<1>3. row \in Row /\ row.key = table[i].key
  BY <1>2 DEF Row
<1>4. torn \in BOOLEAN
  BY DEF Inv, TypeOK
<1>. QED
  BY <1>1, <1>3, <1>4, WriteStep DEF Displaced

LEMMA RepriceStep ==
  ASSUME Inv, NEW i \in Ids, Reprice(i)
  PROVE  Inv'
<1>1. PICK price \in Keys : Put(i, [table[i] EXCEPT !.key = price])
  BY DEF Reprice
<1>2. Present(i) /\ Displaced(i) /\ seen' = seen \ {i}
  BY DEF Reprice
<1>3. [table[i] EXCEPT !.key = price] \in Row
  BY <1>2, RowType DEF Inv, Row
<1>4. torn \in BOOLEAN
  BY DEF Inv, TypeOK
<1>. QED
  BY <1>1, <1>2, <1>3, <1>4, WriteStep DEF Displaced

LEMMA RemoveStep ==
  ASSUME Inv, NEW i \in Ids, Remove(i)
  PROVE  Inv'
<1>1. Put(i, Deleted) /\ Displaced(i) /\ seen' = seen
  BY DEF Remove
<1>2. torn \in BOOLEAN
  BY DEF Inv, TypeOK
<1>. QED
  BY <1>1, <1>2, WriteStep DEF Displaced

-----------------------------------------------------------------------------
LEMMA Initially == Init => Inv
<1>. SUFFICES ASSUME Init PROVE Inv
  OBVIOUS
<1>1. TypeOK
  BY DEF Init, TypeOK, Missing, Stages
<1>. QED
  BY <1>1 DEF Init, Inv, NoRepeats, SeenIsPassed, OwedIsListed, FirstQuery,
       SkipsHaveAReason

LEMMA Inductive == Inv /\ [Next]_vars => Inv'
<1>. SUFFICES ASSUME Inv, [Next]_vars PROVE Inv'
  OBVIOUS
<1>1. CASE Next
  BY <1>1, OpenStep, ReadIdsStep, ReadRowsStep, ReadPageStep, CreateStep, RelistStep,
     RepriceStep, RemoveStep DEF Next, Read
<1>2. CASE UNCHANGED vars
  BY <1>2 DEF vars, walk, request, Inv, TypeOK, NoRepeats, SeenIsPassed, OwedIsListed,
       FirstQuery, IsPage, SkipsHaveAReason, Candidates, Listed, Present, Filtered,
       Passed, Past, Excused, Before, PlaceOf, ByPrice
<1>. QED
  BY <1>1, <1>2

THEOREM Invariance == Spec => []Inv
BY Initially, Inductive, PTL DEF Spec

\* Every list, row, cursor and page has its type.
THEOREM Types == Spec => []TypeOK
<1>1. Inv => TypeOK
  BY DEF Inv
<1>. QED
  BY <1>1, Invariance, PTL

\* However the table changes, no walk shows a row twice at its place.
THEOREM NothingIsRepeated == Spec => []NoRepeats
<1>1. Inv => NoRepeats
  BY DEF Inv
<1>. QED
  BY <1>1, Invariance, PTL

\* A walk leaves out a row that it owed only at a cut cursor or a torn page.
THEOREM SkipsAreExplained == Spec => []SkipsHaveAReason
<1>1. Inv => SkipsHaveAReason
  BY DEF Inv
<1>. QED
  BY <1>1, Invariance, PTL


WholeKeys == \A k \in Keys : Trunc(k) = k
Uncut == WholeKeys => cuts = {}

\* If createdAt had no microseconds to lose, nothing would be skipped except at a
\* torn page: the comparison by rows, not the cursor's fields, is all that matters.
THEOREM WholeKeysSkipNothing == Spec => [](WholeKeys => torn \/ NoSkips)
<1>1. Init => Inv /\ Uncut
  BY Initially DEF Init, Uncut
<1>2. Inv /\ Uncut /\ [Next]_vars => Uncut'
  <2>. SUFFICES ASSUME Inv, WholeKeys, cuts = {}, [Next]_vars
                PROVE  cuts' = {}
    BY DEF Uncut, WholeKeys
  <2>1. ASSUME NEW rows \in SUBSET Candidates, Answer(rows)
        PROVE  cuts' = {}
    <3>1. SUFFICES ASSUME NEW last \in rows,
                          cursor' = CursorOf(last),
                          cuts' = cuts \cup ({cursor'.key} \ {table[last].key})
                   PROVE  cuts' = {}
      BY <2>1 DEF Answer
    <3>2. table[last].key \in Keys
      BY RowType DEF Inv, Candidates, Listed, Row
    <3>3. cursor'.key = table[last].key
      BY <3>1, <3>2 DEF CursorOf, WholeKeys
    <3>. QED
      BY <3>1, <3>3
  <2>2. ASSUME Next PROVE cuts' = {}
    <3>1. CASE Open
      BY <3>1 DEF Open
    <3>2. CASE ReadIds
      BY <3>2 DEF ReadIds, walk
    <3>3. CASE ReadRows
      BY <2>1, <3>3 DEF ReadRows
    <3>4. CASE ReadPage
      BY <2>1, <3>4 DEF ReadPage
    <3>5. CASE \E i \in Ids : Create(i) \/ Relist(i) \/ Reprice(i) \/ Remove(i)
      BY <3>5 DEF Create, Relist, Reprice, Remove, Displaced, walk
    <3>. QED
      BY <2>2, <3>1, <3>2, <3>3, <3>4, <3>5 DEF Next, Read
  <2>3. CASE UNCHANGED vars
    BY <2>3 DEF vars, walk
  <2>. QED
    BY <2>2, <2>3
<1>3. Inv /\ Uncut => (WholeKeys => torn \/ NoSkips)
  BY DEF Inv, SkipsHaveAReason, NoSkips, Excused, Uncut
<1>. QED
  BY <1>1, <1>2, <1>3, Inductive, PTL DEF Spec

-----------------------------------------------------------------------------
\* A cursor never goes back, nor stands still: the page after a page begins
\* further down the list, so that in a list by age, which has no places above
\* those of the newest rows, a walk has an end.
CursorsAdvance ==
  [][Read /\ stage' = "asking" => cursor = Start \/ Before(cursor, cursor')]_vars

\* What a cursor loses of its row's key only takes it further.
LEMMA CursorIsPast ==
  ASSUME TypeOK, NEW last \in Ids, Present(last), NEW c \in Place,
         Before(c, PlaceOf(last))
  PROVE  Before(c, CursorOf(last))
<1>1. table[last].key \in Nat /\ last \in Nat
  BY RowType, PaginationAssumption DEF Row
<1>2. CASE ByPrice
  BY <1>2 DEF CursorOf, PlaceOf
<1>3. CASE ~ByPrice
  <2>1. /\ Trunc(table[last].key) \in Nat
        /\ Trunc(table[last].key) <= table[last].key
    BY <1>1, TruncBelow
  <2>2. Less(PlaceOf(last), c)
    BY <1>3 DEF Before, ByPrice
  <2>3. Less(CursorOf(last), c)
    BY <1>1, <1>3, <2>1, <2>2 DEF Less, CursorOf, PlaceOf, Place
  <2>. QED
    BY <1>3, <2>3 DEF Before, ByPrice
<1>. QED
  BY <1>2, <1>3

\* However the table changes during a walk, and whatever the cursors lose, each
\* page that is not the last one takes the cursor strictly further.
THEOREM CursorsGetOn == Spec => CursorsAdvance
<1>1. ASSUME Inv, NEW rows \in SUBSET Candidates, Answer(rows), stage' = "asking",
             cursor # Start
      PROVE  Before(cursor, cursor')
  <2>1. PICK last \in rows : cursor' = CursorOf(last)
    BY <1>1 DEF Answer, IsLast
  <2>2. last \in Ids /\ Present(last) /\ Past(cursor, last)
    BY DEF Candidates, Listed
  <2>3. cursor \in Place /\ Before(cursor, PlaceOf(last))
    BY <1>1, <2>2 DEF Inv, TypeOK, Past
  <2>4. Before(cursor, CursorOf(last))
    <3>1. TypeOK
      BY <1>1 DEF Inv
    <3>. QED
      BY <2>2, <2>3, <3>1, CursorIsPast
  <2>. QED
    BY <2>1, <2>4
<1>2. ASSUME Inv, Read, stage' = "asking", cursor # Start
      PROVE  Before(cursor, cursor')
  <2>1. ids \cap Candidates \in SUBSET Candidates
    OBVIOUS
  <2>2. ~ReadIds
    BY <1>2 DEF ReadIds
  <2>. QED
    BY <1>1, <1>2, <2>1, <2>2 DEF Read, ReadRows, ReadPage
<1>3. Inv => [Read /\ stage' = "asking" =>
                cursor = Start \/ Before(cursor, cursor')]_vars
  BY <1>2
<1>. QED
  BY <1>3, Invariance, PTL DEF CursorsAdvance

=============================================================================
