--------------------------- MODULE RunLayerProofs ---------------------------
(***************************************************************************)
(* Proofs about a run, for all command lines, steps and tags; first what   *)
(* every message and every key leaves of the user interface.               *)
(***************************************************************************)
EXTENDS RunLayer, SequenceTheorems, WellFoundedInduction, TLAPS

-----------------------------------------------------------------------------
(* The user interface.                                                     *)

Status == {"running", "failed", "done", "skipped"}

\* The list: no step is in it twice, and it is in the order of the tags, so
\* that there is a place to insert an item at.
ItemsInv ==
    /\ items \in Seq(Item)
    /\ \A i, j \in DOMAIN items : items[i].name = items[j].name => i = j
    /\ \A i, j \in DOMAIN items :
           i <= j => TagKey[items[i].name] <= TagKey[items[j].name]

\* The selection: as long as nothing was filtered its copy is an item of the
\* list as it is, and there is one as soon as a step was seen running.
SelectionInv ==
    /\ loop \in {"off", "up", "quit"}
    /\ cursor \in (IF items = <<>> THEN {0} ELSE DOMAIN items)
    /\ last \in Item \cup {NoItem}
    /\ filter \in BOOLEAN
    /\ filtered \in BOOLEAN
    /\ filter => filtered
    /\ ~filtered /\ last # NoItem => \E i \in DOMAIN items : last = items[i]
    /\ ~filtered /\ status # "waiting" => last # NoItem
    /\ loop # "up" => items = <<>> /\ status = "waiting"

InterfaceInv == ItemsInv /\ SelectionInv

-----------------------------------------------------------------------------

LEMMA NoItemIsNone == NoItem \notin Item
<1> SUFFICES ASSUME NoItem \in Item PROVE FALSE
  OBVIOUS
<1>1. DOMAIN NoItem = {"name", "status"}
  BY DEF Item
<1>2. DOMAIN NoItem = {"name"}
  BY DEF NoItem
<1>3. QED
  BY <1>1, <1>2

\* Where an item is inserted.
LEMMA PlaceExists ==
    ASSUME ItemsInv, NEW k \in Nat
    PROVE  \E n \in 0..Len(items) : \A i \in DOMAIN items :
               i <= n <=> TagKey[items[i].name] <= k
<1> USE TagKeyAssumption
<1> DEFINE After == {i \in DOMAIN items : ~(TagKey[items[i].name] <= k)}
           R == OpToRel(<, Nat)
<1>s. /\ Len(items) \in Nat /\ DOMAIN items = 1..Len(items)
      /\ \A i \in DOMAIN items : items[i] \in Item
  BY DEF ItemsInv
<1>n. \A i \in DOMAIN items : items[i].name \in Step
  BY <1>s DEF Item
<1>0. /\ Len(items) \in Nat /\ DOMAIN items = 1..Len(items)
      /\ \A i \in DOMAIN items : TagKey[items[i].name] \in Nat
  BY <1>s, <1>n
<1>1. CASE After = {}
  <2>1. Len(items) \in 0..Len(items)
    BY <1>0
  <2>2. \A i \in DOMAIN items : i <= Len(items) /\ TagKey[items[i].name] <= k
    BY <1>0, <1>1
  <2>3. QED
    BY <2>1, <2>2
<1>2. CASE After # {}
  <2>1. PICK t : t \in After
    BY <1>2
  <2>2. After \subseteq Nat
    BY <1>0
  <2>3. IsWellFoundedOn(R, Nat)
    BY NatLessThanWellFounded
  <2>4. PICK m \in After : \A y \in After : <<y, m>> \notin R
    <3> HIDE DEF After, R
    <3> QED
      BY <2>1, <2>2, <2>3, WFMin
  <2>5. \A y \in After : m <= y
    <3> TAKE y \in After
    <3>1. y \in Nat /\ m \in Nat
      BY <2>2
    <3>2. ~(y < m)
      BY <2>4, <3>1 DEF OpToRel
    <3>3. QED
      BY <3>1, <3>2
  <2>6. m \in 1..Len(items) /\ m - 1 \in 0..Len(items) /\ k < TagKey[items[m].name]
    BY <1>0
  <2>7. ASSUME NEW i \in DOMAIN items
        PROVE  i <= m - 1 <=> TagKey[items[i].name] <= k
    <3>1. CASE i < m
      <4>1. i \notin After
        BY <1>0, <2>5, <2>6, <3>1
      <4>2. QED
        BY <1>0, <2>6, <3>1, <4>1
    <3>2. CASE m <= i
      <4>1. TagKey[items[m].name] <= TagKey[items[i].name]
        BY <1>0, <2>6, <3>2 DEF ItemsInv
      <4>2. QED
        BY <1>0, <2>6, <3>2, <4>1
    <3>3. QED
      BY <1>0, <2>6, <3>1, <3>2
  <2>8. QED
    BY <2>6, <2>7
<1>3. QED
  BY <1>1, <1>2

LEMMA InsertAtFacts ==
    ASSUME NEW S, NEW s \in Seq(S), NEW n \in 0..Len(s), NEW e \in S
    PROVE  /\ InsertAt(s, 1 + n, e) \in Seq(S)
           /\ Len(InsertAt(s, 1 + n, e)) = Len(s) + 1
           /\ \A j \in 1..Len(s) + 1 :
                  InsertAt(s, 1 + n, e)[j] =
                      IF j <= n THEN s[j] ELSE IF j = n + 1 THEN e ELSE s[j - 1]
<1> DEFINE front == SubSeq(s, 1, (1 + n) - 1)
           back == SubSeq(s, 1 + n, Len(s))
<1>0. Len(s) \in Nat /\ n \in Nat /\ n <= Len(s) /\ (1 + n) - 1 = n
  OBVIOUS
<1>1. /\ front \in Seq(S) /\ Len(front) = n
      /\ \A j \in 1..n : front[j] = s[j]
  BY <1>0
<1>2. /\ back \in Seq(S) /\ Len(back) = Len(s) - n
      /\ \A j \in 1..Len(s) - n : back[j] = s[n + j]
  BY <1>0
<1> HIDE DEF front, back
<1> DEFINE head == front \o <<e>>
<1>4. /\ head \in Seq(S) /\ Len(head) = n + 1
      /\ \A j \in 1..n + 1 : head[j] = IF j <= n THEN s[j] ELSE e
  BY <1>0, <1>1
<1>3. InsertAt(s, 1 + n, e) = head \o back
  BY DEF InsertAt, front, back
<1> HIDE DEF head
<1>5. /\ InsertAt(s, 1 + n, e) \in Seq(S)
      /\ Len(InsertAt(s, 1 + n, e)) = Len(s) + 1
      /\ \A j \in 1..Len(s) + 1 : InsertAt(s, 1 + n, e)[j] =
             IF j <= n + 1 THEN head[j] ELSE back[j - (n + 1)]
  <2>1. /\ head \o back \in Seq(S)
        /\ Len(head \o back) = Len(head) + Len(back)
        /\ \A j \in 1..Len(head) + Len(back) : (head \o back)[j] =
               IF j <= Len(head) THEN head[j] ELSE back[j - Len(head)]
    <3>1. head \in Seq(S) /\ back \in Seq(S)
      BY <1>2, <1>4
    <3>2. QED
      BY <3>1, ConcatProperties, Zenon
  <2>2. Len(head) = n + 1 /\ Len(head) + Len(back) = Len(s) + 1
    BY <1>0, <1>2, <1>4
  <2>3. QED
    BY <1>3, <2>1, <2>2
<1>6. ASSUME NEW j \in 1..Len(s) + 1
      PROVE  InsertAt(s, 1 + n, e)[j] =
                 IF j <= n THEN s[j] ELSE IF j = n + 1 THEN e ELSE s[j - 1]
  <2>1. CASE j <= n + 1
    <3>1. InsertAt(s, 1 + n, e)[j] = head[j] /\ j \in 1..n + 1
      BY <1>0, <1>5, <2>1
    <3>2. j <= n \/ j = n + 1
      BY <1>0, <2>1
    <3>3. QED
      BY <1>0, <1>4, <3>1, <3>2
  <2>2. CASE n + 1 < j
    <3>1. InsertAt(s, 1 + n, e)[j] = back[j - (n + 1)]
      BY <1>0, <1>5, <2>2
    <3>2. j - (n + 1) \in 1..Len(s) - n /\ n + (j - (n + 1)) = j - 1
      BY <1>0, <2>2
    <3>3. back[j - (n + 1)] = s[j - 1]
      BY <1>2, <3>2
    <3>4. QED
      BY <1>0, <2>2, <3>1, <3>3
  <2>3. QED
    BY <1>0, <2>1, <2>2
<1>7. QED
  BY <1>5, <1>6

\* The same, of lists of items.
LEMMA InsertAtItems ==
    \A s \in Seq(Item), e \in Item : \A n \in 0..Len(s) :
        /\ InsertAt(s, 1 + n, e) \in Seq(Item)
        /\ Len(InsertAt(s, 1 + n, e)) = Len(s) + 1
        /\ \A j \in 1..Len(s) + 1 :
               InsertAt(s, 1 + n, e)[j] =
                   IF j <= n THEN s[j] ELSE IF j = n + 1 THEN e ELSE s[j - 1]
<1> SUFFICES ASSUME NEW s \in Seq(Item), NEW e \in Item, NEW n \in 0..Len(s)
             PROVE  /\ InsertAt(s, 1 + n, e) \in Seq(Item)
                    /\ Len(InsertAt(s, 1 + n, e)) = Len(s) + 1
                    /\ \A j \in 1..Len(s) + 1 :
                           InsertAt(s, 1 + n, e)[j] =
                               IF j <= n THEN s[j] ELSE IF j = n + 1 THEN e ELSE s[j - 1]
  OBVIOUS
<1> QED BY InsertAtFacts

\* What inserting an item makes of the list: the order is kept.
LEMMA InsertedFacts ==
    ASSUME ItemsInv, NEW item \in Item, item.name \notin Names(items)
    PROVE  /\ Inserted(item) \in Seq(Item)
           /\ Inserted(item) # <<>>
           /\ \A i, j \in DOMAIN Inserted(item) :
                  Inserted(item)[i].name = Inserted(item)[j].name => i = j
           /\ \A i, j \in DOMAIN Inserted(item) : i <= j =>
                  TagKey[Inserted(item)[i].name] <= TagKey[Inserted(item)[j].name]
           /\ \A i \in DOMAIN Inserted(item) :
                  Inserted(item)[i] = item \/ \E k \in DOMAIN items : Inserted(item)[i] = items[k]
           /\ \E i \in DOMAIN Inserted(item) : Inserted(item)[i] = item
           /\ \A k \in DOMAIN items :
                  \E i \in DOMAIN Inserted(item) : Inserted(item)[i] = items[k]
<1> DEFINE before(n) == \A i \in DOMAIN items :
                            i <= n <=> TagKey[items[i].name] <= TagKey[item.name]
           n == CHOOSE n \in 0..Len(items) : before(n)
           new == Inserted(item)
           m == Len(items)
<1>1. /\ items \in Seq(Item) /\ m \in Nat /\ DOMAIN items = 1..m
      /\ \A i, j \in DOMAIN items : items[i].name = items[j].name => i = j
      /\ \A i, j \in DOMAIN items :
             i <= j => TagKey[items[i].name] <= TagKey[items[j].name]
  BY DEF ItemsInv
<1>2. \A x \in Item : TagKey[x.name] \in Nat
  BY TagKeyAssumption DEF Item
<1>3. n \in 0..m /\ before(n)
  <2>1. \E k \in 0..m : before(k)
    BY <1>2, PlaceExists
  <2> HIDE DEF before
  <2>2. QED
    BY <2>1
<1>4. new = InsertAt(items, 1 + n, item)
  BY DEF Inserted
<1> HIDE DEF n, new
<1>5. /\ new \in Seq(Item) /\ Len(new) = m + 1
      /\ \A j \in 1..m + 1 :
             new[j] = IF j <= n THEN items[j] ELSE IF j = n + 1 THEN item ELSE items[j - 1]
  <2>1. items \in Seq(Item) /\ n \in 0..Len(items) /\ item \in Item
    BY <1>1, <1>3
  <2>2. /\ InsertAt(items, 1 + n, item) \in Seq(Item)
        /\ Len(InsertAt(items, 1 + n, item)) = Len(items) + 1
        /\ \A j \in 1..Len(items) + 1 :
               InsertAt(items, 1 + n, item)[j] =
                   IF j <= n THEN items[j] ELSE IF j = n + 1 THEN item ELSE items[j - 1]
    BY <2>1, InsertAtItems, Zenon
  <2>3. QED
    BY <1>4, <2>2
<1>6. DOMAIN new = 1..m + 1
  BY <1>5
\* Where an element of the new list was in the old one.
<1> DEFINE from(j) == IF j <= n THEN j ELSE j - 1
<1>7. \A j \in 1..m + 1 : j # n + 1 => from(j) \in 1..m /\ new[j] = items[from(j)]
  BY <1>1, <1>3, <1>5
<1>8. n + 1 \in 1..m + 1 /\ new[n + 1] = item
  BY <1>1, <1>3, <1>5
<1>9. \A j \in 1..m : items[j].name # item.name
  BY <1>1 DEF Names
<1>10. \A i, j \in 1..m + 1 : new[i].name = new[j].name => i = j
  <2> SUFFICES ASSUME NEW i \in 1..m + 1, NEW j \in 1..m + 1, new[i].name = new[j].name
               PROVE  i = j
    OBVIOUS
  <2>1. CASE i # n + 1 /\ j # n + 1
    <3>1. from(i) = from(j)
      BY <1>1, <1>7, <2>1
    <3>2. QED
      BY <1>1, <1>3, <2>1, <3>1
  <2>2. CASE i = n + 1 \/ j = n + 1
    BY <1>7, <1>8, <1>9, <2>2
  <2>3. QED
    BY <2>1, <2>2
<1>11. \A i, j \in 1..m + 1 : i <= j => TagKey[new[i].name] <= TagKey[new[j].name]
  <2> SUFFICES ASSUME NEW i \in 1..m + 1, NEW j \in 1..m + 1, i <= j
               PROVE  TagKey[new[i].name] <= TagKey[new[j].name]
    OBVIOUS
  <2>0. /\ TagKey[item.name] \in Nat
        /\ \A k \in 1..m : items[k] \in Item /\ TagKey[items[k].name] \in Nat
    BY <1>1, <1>2
  <2>1. CASE i # n + 1 /\ j # n + 1
    <3>1. from(i) <= from(j)
      BY <1>1, <1>3, <2>1
    <3>2. QED
      BY <1>1, <1>7, <2>1, <3>1
  <2>2. CASE i = n + 1 /\ j # n + 1
    <3>1. ~(from(j) <= n)
      BY <1>1, <1>3, <2>2
    <3>2. ~(TagKey[items[from(j)].name] <= TagKey[item.name])
      BY <1>1, <1>3, <1>7, <2>2, <3>1
    <3>3. QED
      BY <1>7, <1>8, <2>0, <2>2, <3>2
  <2>3. CASE j = n + 1 /\ i # n + 1
    <3>1. from(i) <= n
      BY <1>1, <1>3, <2>3
    <3>2. TagKey[items[from(i)].name] <= TagKey[item.name]
      BY <1>1, <1>3, <1>7, <2>3, <3>1
    <3>3. QED
      BY <1>7, <1>8, <2>0, <2>3, <3>2
  <2>4. CASE i = n + 1 /\ j = n + 1
    BY <1>8, <2>0, <2>4
  <2>5. QED
    BY <2>1, <2>2, <2>3, <2>4
<1>12. \A j \in 1..m + 1 : new[j] = item \/ \E k \in 1..m : new[j] = items[k]
  BY <1>7, <1>8
<1>13. \A k \in 1..m : \E j \in 1..m + 1 : new[j] = items[k]
  <2> TAKE k \in 1..m
  <2>1. CASE k <= n
    BY <1>1, <1>5, <2>1
  <2>2. CASE n < k
    <3>1. k + 1 \in 1..m + 1 /\ ~(k + 1 <= n) /\ k + 1 # n + 1 /\ (k + 1) - 1 = k
      BY <1>1, <1>3, <2>2
    <3>2. QED
      BY <1>5, <3>1
  <2>3. QED
    BY <1>1, <1>3, <2>1, <2>2
<1>14. new # <<>>
  BY <1>1, <1>5
<1>15. QED
  BY <1>1, <1>5, <1>6, <1>8, <1>10, <1>11, <1>12, <1>13, <1>14 DEF new

-----------------------------------------------------------------------------
(* What a message leaves.                                                  *)

\* The copy of the selection is taken anew.
LEMMA UpdateLastSelectedFacts ==
    ASSUME UpdateLastSelected, items' \in Seq(Item), last \in Item \cup {NoItem},
           cursor' \in (IF items' = <<>> THEN {0} ELSE DOMAIN items')
    PROVE  /\ last' \in Item \cup {NoItem}
           /\ ~filter' /\ items' = <<>> => last' = last
           /\ ~filter' /\ items' # <<>> => /\ last' = items'[cursor']
                                           /\ last' # NoItem
<1>1. PICK selected \in SelectedItems(items', cursor', filter') :
          last' = IF selected = NoItem THEN last ELSE selected
  BY DEF UpdateLastSelected
<1>2. \A i \in DOMAIN items' : items'[i] \in Item /\ items'[i] # NoItem
  <2>1. \A i \in DOMAIN items' : items'[i] \in Item
    OBVIOUS
  <2>2. QED
    BY <2>1, NoItemIsNone
<1>3. CASE filter'
  BY <1>1, <1>2, <1>3 DEF SelectedItems, ToSet
<1>4. CASE ~filter' /\ items' = <<>>
  <2>1. cursor' \notin DOMAIN items'
    BY <1>4
  <2>2. selected = NoItem
    BY <1>1, <1>4, <2>1 DEF SelectedItems
  <2>3. QED
    BY <1>1, <1>4, <2>2
<1>5. CASE ~filter' /\ items' # <<>>
  <2>1. cursor' \in DOMAIN items'
    BY <1>5
  <2>2. selected = items'[cursor']
    BY <1>1, <1>5, <2>1 DEF SelectedItems
  <2>3. QED
    BY <1>1, <1>2, <1>5, <2>1, <2>2
<1>6. QED
  BY <1>3, <1>4, <1>5

LEMMA EmptyList == <<>> \in Seq(Item) /\ DOMAIN <<>> = {}
OBVIOUS

LEMMA QuitFacts == Quit => InterfaceInv'
<1> SUFFICES ASSUME Quit PROVE InterfaceInv'
  OBVIOUS
<1>1. ItemsInv'
  BY EmptyList DEF Quit, ItemsInv
<1>2. SelectionInv'
  BY DEF Quit, SelectionInv
<1>3. QED
  BY <1>1, <1>2 DEF InterfaceInv

\* The list with other statuses is a list of the same steps.
LEMMA Restated ==
    ASSUME ItemsInv, DOMAIN items' = DOMAIN items, items' = [i \in DOMAIN items |-> items'[i]],
           \A i \in DOMAIN items : items'[i] \in Item /\ items'[i].name = items[i].name
    PROVE  ItemsInv' /\ Names(items') = Names(items)
<1>1. items \in Seq(Item) /\ Len(items) \in Nat /\ DOMAIN items = 1..Len(items)
  BY DEF ItemsInv
<1>2. items' \in Seq(Item)
  BY <1>1
<1>3. QED
  BY <1>2 DEF ItemsInv, Names

LEMMA WithStatusFacts ==
    ASSUME NEW x \in Item, NEW s \in Status
    PROVE  /\ WithStatus(x, s) \in Item
           /\ WithStatus(x, s).name = x.name /\ WithStatus(x, s).status = s
BY DEF WithStatus, Item, Status

\* A step starts or ends: it is in the list, with its new status.  What the
\* others are shown with, f, stays.
LEMMA HandleStepMessageFacts ==
    ASSUME InterfaceInv, loop = "up", NEW name \in Step, NEW s \in Status,
           HandleStepMessage(name, s)
    PROVE  /\ InterfaceInv' /\ loop' = "up" /\ filtered' = filtered
           /\ status' = IF s = "running" THEN "running" ELSE status
           /\ Names(items') = Names(items) \cup {name}
           /\ \A i \in DOMAIN items' :
                  IF items'[i].name = name THEN items'[i].status = s
                  ELSE \E k \in DOMAIN items : items'[i] = items[k]
<1>0. ItemsInv /\ SelectionInv
  BY DEF InterfaceInv
<1> DEFINE item == [name |-> name, status |-> s]
<1>1. item \in Item /\ item.name = name /\ item.status = s
  BY DEF Item, Status
<1>2. /\ UNCHANGED <<loop, panel, filter, filtered>>
      /\ status' = IF s = "running" THEN "running" ELSE status
      /\ UpdateLastSelected
  BY DEF HandleStepMessage
<1>3. /\ ItemsInv' /\ items' # <<>>
      /\ cursor' \in DOMAIN items'
      /\ Names(items') = Names(items) \cup {name}
      /\ \A i \in DOMAIN items' :
             IF items'[i].name = name THEN items'[i].status = s
             ELSE \E k \in DOMAIN items : items'[i] = items[k]
  <2>1. CASE name \notin Names(items)
    <3>1. items' = Inserted(item) /\ cursor' = FindCurrentSelection(items')
      BY <2>1 DEF HandleStepMessage
    <3> HIDE DEF item
    <3>2. /\ items' \in Seq(Item) /\ items' # <<>>
          /\ \A i, j \in DOMAIN items' : items'[i].name = items'[j].name => i = j
          /\ \A i, j \in DOMAIN items' :
                 i <= j => TagKey[items'[i].name] <= TagKey[items'[j].name]
          /\ \A i \in DOMAIN items' :
                 items'[i] = item \/ \E k \in DOMAIN items : items'[i] = items[k]
          /\ \E i \in DOMAIN items' : items'[i] = item
          /\ \A k \in DOMAIN items : \E i \in DOMAIN items' : items'[i] = items[k]
      BY <1>0, <1>1, <2>1, <3>1, InsertedFacts
    <3>3. ItemsInv'
      BY <3>2 DEF ItemsInv
    <3>4. cursor' \in DOMAIN items'
      <4>1. 1 \in DOMAIN items'
        BY <3>2
      <4>2. last.name \in Names(items') => Position(items', last.name) \in DOMAIN items'
        BY DEF Names, Position
      <4>3. QED
        BY <3>1, <4>1, <4>2 DEF FindCurrentSelection
    <3>5. Names(items') = Names(items) \cup {name}
      BY <1>1, <3>2 DEF Names
    <3>6. \A k \in DOMAIN items : items[k].name # name
      BY <2>1 DEF Names
    <3>7. \A i \in DOMAIN items' :
              IF items'[i].name = name THEN items'[i].status = s
              ELSE \E k \in DOMAIN items : items'[i] = items[k]
      BY <1>1, <3>2, <3>6
    <3>8. QED
      BY <3>2, <3>3, <3>4, <3>5, <3>7
  <2>2. CASE name \in Names(items)
    <3>1. /\ items' = [i \in DOMAIN items |->
                          IF items[i].name = name THEN WithStatus(items[i], s) ELSE items[i]]
          /\ cursor' = cursor
      BY <2>2 DEF HandleStepMessage
    <3>2. \A i \in DOMAIN items : items[i] \in Item
      BY <1>0 DEF ItemsInv
    <3>3. \A i \in DOMAIN items :
              /\ items'[i] \in Item /\ items'[i].name = items[i].name
              /\ IF items[i].name = name THEN items'[i].status = s ELSE items'[i] = items[i]
      BY <3>1, <3>2, WithStatusFacts
    <3>4. DOMAIN items' = DOMAIN items /\ items' = [i \in DOMAIN items |-> items'[i]]
      BY <3>1
    <3>5. ItemsInv' /\ Names(items') = Names(items)
      BY <1>0, <3>3, <3>4, Restated
    <3>6. items # <<>>
      BY <2>2 DEF Names
    <3>7. cursor \in DOMAIN items
      BY <1>0, <3>6 DEF SelectionInv
    <3>8. \E i \in DOMAIN items' : TRUE
      BY <3>4, <3>7
    <3>9. items' # <<>>
      BY <3>8
    <3>10. QED
      BY <2>2, <3>1, <3>3, <3>4, <3>5, <3>7, <3>9
  <2>3. QED
    BY <2>1, <2>2
<1>4. /\ last' \in Item \cup {NoItem}
      /\ ~filter' => last' = items'[cursor'] /\ last' # NoItem
  <2>1. items' \in Seq(Item)
    BY <1>3 DEF ItemsInv
  <2>2. QED
    BY <1>0, <1>2, <1>3, <2>1, UpdateLastSelectedFacts DEF SelectionInv
<1>5. SelectionInv'
  BY <1>0, <1>2, <1>3, <1>4 DEF SelectionInv
<1>6. QED
  BY <1>2, <1>3, <1>5 DEF InterfaceInv

\* The pipeline has ended: the interface shows how, unless nobody could see
\* it, and the steps that were shown as running, if there are any, have failed.
LEMMA HandlePipelineDoneFacts ==
    ASSUME InterfaceInv, loop = "up", NEW s \in {"done", "failed"},
           HandlePipelineDone(s)
    PROVE  /\ InterfaceInv'
           /\ \/ loop' = "quit"
              \/ /\ loop' = "up" /\ status' = s /\ filtered' = filtered
                 /\ Names(items') = Names(items)
                 /\ \A i \in DOMAIN items' :
                        \E k \in DOMAIN items :
                            /\ items'[i].name = items[k].name
                            /\ items'[i].status =
                                   IF s = "failed" /\ items[k].status = "running"
                                   THEN "failed" ELSE items[k].status
<1>0. ItemsInv /\ SelectionInv
  BY DEF InterfaceInv
<1>1. CASE Quit
  BY <1>1, QuitFacts DEF Quit
<1>2. CASE ~Quit
  <2>1. /\ status # "waiting" /\ status' = s
        /\ items' = IF s # "failed" THEN items
                    ELSE [i \in DOMAIN items |->
                             IF items[i].status = "running"
                             THEN WithStatus(items[i], "failed") ELSE items[i]]
        /\ UNCHANGED <<loop, cursor, panel, filter, filtered>>
        /\ UpdateLastSelected
    BY <1>2 DEF HandlePipelineDone, QuitsUnseen
  <2>2. /\ items \in Seq(Item)
        /\ \A i \in DOMAIN items : items[i] \in Item
    BY <1>0 DEF ItemsInv
  <2>3. \A i \in DOMAIN items : items'[i] \in Item /\ items'[i].name = items[i].name
    <3>1. "failed" \in Status
      BY DEF Status
    <3>2. QED
      BY <2>1, <2>2, <3>1, WithStatusFacts
  <2>4. DOMAIN items' = DOMAIN items /\ items' = [i \in DOMAIN items |-> items'[i]]
    BY <2>1, <2>2
  <2>5. ItemsInv' /\ Names(items') = Names(items)
    BY <1>0, <2>3, <2>4, Restated
  <2>6. items' \in Seq(Item) /\ (items' = <<>> <=> items = <<>>)
    <3>1. items' \in Seq(Item)
      BY <2>5 DEF ItemsInv
    <3>2. QED
      BY <2>2, <2>4, <3>1
  <2>7. \A i \in DOMAIN items' :
            \E k \in DOMAIN items :
                /\ items'[i].name = items[k].name
                /\ items'[i].status = IF s = "failed" /\ items[k].status = "running"
                                      THEN "failed" ELSE items[k].status
    <3>1. "failed" \in Status
      BY DEF Status
    <3>2. \A i \in DOMAIN items :
              items'[i].status = IF s = "failed" /\ items[i].status = "running"
                                 THEN "failed" ELSE items[i].status
      BY <2>1, <2>2, <3>1, WithStatusFacts
    <3>3. QED
      BY <2>3, <2>4, <3>2
  <2>8. /\ last' \in Item \cup {NoItem}
        /\ ~filter' /\ items' = <<>> => last' = last
        /\ ~filter' /\ items' # <<>> => last' = items'[cursor'] /\ last' # NoItem
    BY <1>0, <2>1, <2>4, <2>6, UpdateLastSelectedFacts DEF SelectionInv
  <2>9. SelectionInv'
    BY <1>0, <2>1, <2>4, <2>6, <2>8 DEF SelectionInv
  <2>10. QED
    BY <2>1, <2>5, <2>7, <2>9 DEF InterfaceInv
<1>3. QED
  BY <1>1, <1>2

\* Scrolling puts the copy of the selection into the list, which is what the
\* list has already unless it was filtered.
LEMMA UpdateSelectedViewportFacts ==
    ASSUME InterfaceInv, UpdateSelectedViewport
    PROVE  /\ ItemsInv' /\ Names(items') = Names(items)
           /\ DOMAIN items' = DOMAIN items
           /\ items # <<>> /\ items' # <<>>
           /\ ~filtered => items' = items
<1>0. ItemsInv /\ SelectionInv
  BY DEF InterfaceInv
<1> DEFINE at == Position(items, last.name)
<1>1. /\ last # NoItem /\ last.name \in Names(items)
      /\ items' = [items EXCEPT ![at] = last]
  BY DEF UpdateSelectedViewport
<1>2. at \in DOMAIN items /\ items[at].name = last.name
  BY <1>1 DEF Names, Position
<1> HIDE DEF at
<1>3. last \in Item
  BY <1>0, <1>1 DEF SelectionInv
<1>4. \A i \in DOMAIN items : items[i] \in Item
  BY <1>0 DEF ItemsInv
<1>5. DOMAIN items' = DOMAIN items /\ items' = [i \in DOMAIN items |-> items'[i]]
  BY <1>1
<1>6. \A i \in DOMAIN items : items'[i] \in Item /\ items'[i].name = items[i].name
  BY <1>1, <1>2, <1>3, <1>4
<1>7. ItemsInv' /\ Names(items') = Names(items)
  BY <1>0, <1>5, <1>6, Restated
<1>8. items # <<>> /\ items' # <<>>
  <2>1. items \in Seq(Item) /\ items' \in Seq(Item)
    BY <1>0, <1>7 DEF ItemsInv
  <2>2. QED
    BY <1>2, <1>5, <2>1
<1>9. ASSUME ~filtered PROVE items' = items
  <2>1. PICK i \in DOMAIN items : last = items[i]
    BY <1>0, <1>1, <1>9 DEF SelectionInv
  <2>2. i = at
    BY <1>0, <1>2, <2>1 DEF ItemsInv
  <2>3. items \in Seq(Item)
    BY <1>0 DEF ItemsInv
  <2>4. QED
    BY <1>1, <1>2, <2>1, <2>2, <2>3
<1>10. QED
  BY <1>5, <1>7, <1>8, <1>9

\* Whatever the user does, the list has the same steps, and is the same if
\* it was never filtered.
LEMMA UserFacts ==
    ASSUME InterfaceInv, User
    PROVE  /\ InterfaceInv'
           /\ loop = "up"
           /\ loop' = "quit" \/
                 /\ loop' = "up" /\ status' = status
                 /\ Names(items') = Names(items)
                 /\ ~filtered' => ~filtered /\ items' = items
<1>0. ItemsInv /\ SelectionInv
  BY DEF InterfaceInv
<1>a. ASSUME UNCHANGED items PROVE ItemsInv' /\ Names(items') = Names(items)
  BY <1>0, <1>a DEF ItemsInv
<1>1. CASE DetailsKey
  <2>1. /\ loop = "up" /\ UpdateSelectedViewport
        /\ UNCHANGED <<loop, status, cursor, last, panel, filter, filtered>>
    BY <1>1 DEF DetailsKey
  <2>2. /\ ItemsInv' /\ Names(items') = Names(items)
        /\ DOMAIN items' = DOMAIN items
        /\ items # <<>> /\ items' # <<>>
        /\ ~filtered => items' = items
    BY <2>1, UpdateSelectedViewportFacts
  <2>3. SelectionInv'
    BY <1>0, <2>1, <2>2 DEF SelectionInv
  <2>4. QED
    BY <2>1, <2>2, <2>3 DEF InterfaceInv
<1>2. CASE ListKey
  <2>1. SelectionInv'
    BY <1>0, <1>2 DEF ListKey, SelectionInv
  <2>2. QED
    BY <1>2, <1>a, <2>1 DEF ListKey, InterfaceInv
<1>3. CASE FilterKey
  <2>1. SelectionInv'
    BY <1>0, <1>3 DEF FilterKey, SelectionInv
  <2>2. QED
    BY <1>3, <1>a, <2>1 DEF FilterKey, InterfaceInv
<1>4. CASE TabKey
  <2>1. SelectionInv'
    BY <1>0, <1>4 DEF TabKey, SelectionInv
  <2>2. QED
    BY <1>4, <1>a, <2>1 DEF TabKey, InterfaceInv
<1>5. CASE QuitKey
  BY <1>5, QuitFacts DEF QuitKey, Quit
<1>6. CASE Mouse
  <2>1. /\ loop = "up" /\ UpdateLastSelected
        /\ UNCHANGED <<loop, status, panel, filter, filtered>>
    BY <1>6 DEF Mouse
  <2>2. /\ ItemsInv' /\ Names(items') = Names(items)
        /\ cursor' \in (IF items' = <<>> THEN {0} ELSE DOMAIN items')
        /\ ~filtered => items' = items
    <3>1. CASE panel = "list"
      <4>1. cursor' \in DOMAIN items /\ items' = items
        BY <1>6, <3>1 DEF Mouse
      <4>2. QED
        BY <1>a, <4>1
    <3>2. CASE panel # "list"
      <4>1. UpdateSelectedViewport /\ cursor' = cursor
        BY <1>6, <3>2 DEF Mouse
      <4>2. /\ ItemsInv' /\ Names(items') = Names(items)
            /\ DOMAIN items' = DOMAIN items
            /\ items # <<>> /\ items' # <<>>
            /\ ~filtered => items' = items
        BY <4>1, UpdateSelectedViewportFacts
      <4>3. QED
        BY <1>0, <4>1, <4>2 DEF SelectionInv
    <3>3. QED
      BY <3>1, <3>2
  <2>3. items' \in Seq(Item) /\ last \in Item \cup {NoItem}
    BY <1>0, <2>2 DEF ItemsInv, SelectionInv
  <2>4. /\ last' \in Item \cup {NoItem}
        /\ ~filter' /\ items' = <<>> => last' = last
        /\ ~filter' /\ items' # <<>> => last' = items'[cursor'] /\ last' # NoItem
    BY <2>1, <2>2, <2>3, UpdateLastSelectedFacts
  <2>5. SelectionInv'
    BY <1>0, <2>1, <2>2, <2>4 DEF SelectionInv
  <2>6. QED
    BY <2>1, <2>2, <2>5 DEF InterfaceInv
<1>7. CASE Tick
  <2>1. /\ loop = "up" /\ UpdateLastSelected
        /\ UNCHANGED <<loop, items, status, cursor, panel, filter, filtered>>
    BY <1>7 DEF Tick
  <2>2. /\ items' \in Seq(Item) /\ last \in Item \cup {NoItem}
        /\ cursor' \in (IF items' = <<>> THEN {0} ELSE DOMAIN items')
    BY <1>0, <2>1 DEF ItemsInv, SelectionInv
  <2>3. /\ last' \in Item \cup {NoItem}
        /\ ~filter' /\ items' = <<>> => last' = last
        /\ ~filter' /\ items' # <<>> => last' = items'[cursor'] /\ last' # NoItem
    BY <2>1, <2>2, UpdateLastSelectedFacts
  <2>4. SelectionInv'
    BY <1>0, <2>1, <2>2, <2>3 DEF SelectionInv
  <2>5. QED
    BY <1>a, <2>1, <2>4 DEF InterfaceInv
<1>8. QED
  BY <1>1, <1>2, <1>3, <1>4, <1>5, <1>6, <1>7 DEF User

LEMMA InitInterfaceFacts == InitInterface => InterfaceInv
<1> SUFFICES ASSUME InitInterface PROVE InterfaceInv
  OBVIOUS
<1>1. ItemsInv
  BY EmptyList DEF InitInterface, ItemsInv
<1>2. SelectionInv
  BY DEF InitInterface, SelectionInv
<1>3. QED
  BY <1>1, <1>2 DEF InterfaceInv

-----------------------------------------------------------------------------
(* The order of the steps of a run.                                        *)

LEMMA PhaseNames ==
    /\ DOMAIN Phases = 1..22
    /\ Phases[1] = "summary" /\ Phases[2] = "context dir"
    /\ Phases[3] = "step context" /\ Phases[4] = "secrets"
    /\ Phases[5] = "report" /\ Phases[6] = "otel"
    /\ Phases[7] = "logging" /\ Phases[8] = "envs"
    /\ Phases[9] = "image policy" /\ Phases[10] = "template"
    /\ Phases[11] = "teardown" /\ Phases[12] = "events"
    /\ Phases[13] = "cel" /\ Phases[14] = "tags"
    /\ Phases[15] = "runtime" /\ Phases[16] = "fork"
    /\ Phases[17] = "lifecycle" /\ Phases[18] = "provider"
    /\ Phases[19] = "pipeline" /\ Phases[20] = "inputs"
    /\ Phases[21] = "output" /\ Phases[22] = "execute"
BY DEF Phases

LEMMA PhaseNumbers ==
    \A i \in 1..22 : i \in {1, 2, 3, 4, 5, 6, 7, 8, 9, 10, 11, 12, 13, 14, 15, 16,
                            17, 18, 19, 20, 21, 22}
OBVIOUS

Rank(p) ==
    CASE p = "summary" -> 1 [] p = "context dir" -> 2
      [] p = "step context" -> 3 [] p = "secrets" -> 4
      [] p = "report" -> 5 [] p = "otel" -> 6
      [] p = "logging" -> 7 [] p = "envs" -> 8
      [] p = "image policy" -> 9 [] p = "template" -> 10
      [] p = "teardown" -> 11 [] p = "events" -> 12
      [] p = "cel" -> 13 [] p = "tags" -> 14
      [] p = "runtime" -> 15 [] p = "fork" -> 16
      [] p = "lifecycle" -> 17 [] p = "provider" -> 18
      [] p = "pipeline" -> 19 [] p = "inputs" -> 20
      [] p = "output" -> 21 [] p = "execute" -> 22

LEMMA PhasesDistinct == \A i, j \in 1..22 : Phases[i] = Phases[j] => i = j
<1>1. ASSUME NEW i \in 1..22 PROVE Rank(Phases[i]) = i
  <2>1. i \in {1, 2, 3, 4, 5, 6, 7, 8, 9, 10, 11, 12, 13, 14, 15, 16, 17, 18, 19, 20, 21, 22}
    BY PhaseNumbers
  <2>2. /\ Rank(Phases[1]) = 1 /\ Rank(Phases[2]) = 2 /\ Rank(Phases[3]) = 3
        /\ Rank(Phases[4]) = 4 /\ Rank(Phases[5]) = 5 /\ Rank(Phases[6]) = 6
        /\ Rank(Phases[7]) = 7 /\ Rank(Phases[8]) = 8 /\ Rank(Phases[9]) = 9
        /\ Rank(Phases[10]) = 10 /\ Rank(Phases[11]) = 11 /\ Rank(Phases[12]) = 12
        /\ Rank(Phases[13]) = 13 /\ Rank(Phases[14]) = 14 /\ Rank(Phases[15]) = 15
        /\ Rank(Phases[16]) = 16 /\ Rank(Phases[17]) = 17 /\ Rank(Phases[18]) = 18
        /\ Rank(Phases[19]) = 19 /\ Rank(Phases[20]) = 20 /\ Rank(Phases[21]) = 21
        /\ Rank(Phases[22]) = 22
    BY PhaseNames DEF Rank
  <2>3. QED
    BY <2>1, <2>2
<1>2. QED
  BY <1>1

LEMMA Places ==
    /\ \A p \in Phase : Place(p) \in 1..22 /\ Phases[Place(p)] = p
    /\ \A n \in 1..22 : Phases[n] \in Phase /\ Place(Phases[n]) = n
<1>1. DOMAIN Phases = 1..22
  BY DEF Phases
<1>2. Phase = {Phases[i] : i \in 1..22}
  BY <1>1 DEF Phase, ToSet
<1>3. \A p \in Phase : Place(p) \in 1..22 /\ Phases[Place(p)] = p
  <2> TAKE p \in Phase
  <2>1. \E i \in DOMAIN Phases : Phases[i] = p
    BY <1>1, <1>2
  <2>2. QED
    BY <1>1, <2>1 DEF Place
<1>4. \A n \in 1..22 : Phases[n] \in Phase
  BY <1>2
<1>5. \A n \in 1..22 : Place(Phases[n]) = n
  BY <1>3, <1>4, PhasesDistinct
<1>6. QED
  BY <1>3, <1>4, <1>5

\* The steps of a run that its proofs name.
LEMMA Named ==
    \A p \in Phase : /\ Place(p) = 1 <=> p = "summary"
                     /\ Place(p) = 2 <=> p = "context dir"
                     /\ Place(p) = 3 <=> p = "step context"
                     /\ Place(p) = 5 <=> p = "report"
                     /\ Place(p) = 21 <=> p = "output"
                     /\ Place(p) = 22 <=> p = "execute"
<1> TAKE p \in Phase
<1>1. \A n \in 1..22 : Place(p) = n <=> p = Phases[n]
  BY Places
<1>2. /\ Place(p) = 1 <=> p = Phases[1]
      /\ Place(p) = 2 <=> p = Phases[2]
      /\ Place(p) = 3 <=> p = Phases[3]
      /\ Place(p) = 5 <=> p = Phases[5]
      /\ Place(p) = 21 <=> p = Phases[21]
      /\ Place(p) = 22 <=> p = Phases[22]
  BY <1>1
<1>3. /\ Phases[1] = "summary" /\ Phases[2] = "context dir"
      /\ Phases[3] = "step context" /\ Phases[5] = "report"
      /\ Phases[21] = "output" /\ Phases[22] = "execute"
  BY PhaseNames
<1>4. QED
  BY <1>2, <1>3

LEMMA Neighbours ==
    ASSUME NEW p \in Phase
    PROVE  /\ p # "execute" => Inner(p) \in Phase /\ Place(Inner(p)) = Place(p) + 1
           /\ p # "summary" => Outer(p) \in Phase /\ Place(Outer(p)) = Place(p) - 1
<1>1. /\ Place(p) \in 1..22
      /\ Place(p) = 22 <=> p = "execute"
      /\ Place(p) = 1 <=> p = "summary"
  BY Places, Named
<1>2. ASSUME p # "execute"
      PROVE  Inner(p) \in Phase /\ Place(Inner(p)) = Place(p) + 1
  <2>1. Place(p) + 1 \in 1..22
    BY <1>1, <1>2
  <2>2. QED
    BY <2>1, Places DEF Inner
<1>3. ASSUME p # "summary"
      PROVE  Outer(p) \in Phase /\ Place(Outer(p)) = Place(p) - 1
  <2>1. Place(p) - 1 \in 1..22
    BY <1>1, <1>3
  <2>2. QED
    BY <2>1, Places DEF Outer
<1>4. QED
  BY <1>2, <1>3

\* One step up, by numbers.
LEMMA OneUp ==
    ASSUME phase \in Phase, phase # "summary", phase' = Outer(phase)
    PROVE  /\ phase = "step context" => ~(Place(phase) < 3) /\ Place(phase') < 3
           /\ phase # "step context" => (Place(phase') < 3 <=> Place(phase) < 3)
           /\ phase = "report" => Place(phase) >= 5 /\ Place(phase') < 5 /\ ~(Place(phase') >= 5)
           /\ phase # "report" => (Place(phase') < 5 <=> Place(phase) < 5)
           /\ phase # "report" => (Place(phase') >= 5 <=> Place(phase) >= 5)
           /\ Place(phase') >= 5 => phase # "step context"
<1>1. PICK n \in 1..22 : n = Place(phase)
  BY Places
<1>2. Place(phase') = n - 1
  BY <1>1, Neighbours
<1>3. /\ n = 3 <=> phase = "step context"
      /\ n = 5 <=> phase = "report"
  BY <1>1, Named
<1> DEFINE m == Place(phase')
<1>4. m = n - 1
  BY <1>2
<1> HIDE DEF m
<1>5. /\ n = 3 => ~(n < 3) /\ m < 3
      /\ n # 3 => (m < 3 <=> n < 3)
      /\ n = 5 => n >= 5 /\ m < 5 /\ ~(m >= 5)
      /\ n # 5 => (m < 5 <=> n < 5) /\ (m >= 5 <=> n >= 5)
      /\ m >= 5 => n # 3
  BY <1>4
<1>6. QED
  BY <1>1, <1>3, <1>5 DEF m

-----------------------------------------------------------------------------
(* The inductive invariant.                                                *)

Errors == [of : {"none", "run", "pipeline"},
           cause : {"none", "container", "step", "bare"}, joined : BOOLEAN]

FlowInv ==
    /\ options.retries \in 0 .. MaxRetries
    /\ phase \in Phase
    /\ way \in {"down", "up", "done"}
    /\ exit \in {"running", "ok", "failed", "crashed", "panicked"}
    /\ exit = "running" => way # "done"
    /\ Over <=> way = "done"
    /\ way = "done" => phase = "summary"
    /\ err \in Errors
    /\ dir \in {"none", "there", "removed"}
    /\ printed \in {"nothing", "error", "success"}

\* Attempts: one more than contexts were handed back while one is under way,
\* which it is in Execute only, and never more than the retries allow.
AttemptInv ==
    /\ attempts \in Nat
    /\ stepContext \in Nat
    /\ \/ attempts = stepContext
       \/ attempts = stepContext + 1 /\ way = "down" /\ phase = "execute"
    /\ way = "down" /\ phase # "execute" => attempts = 0
    /\ attempts <= options.retries + 1
    /\ way = "down" /\ attempts = stepContext => attempts <= options.retries
    /\ attempts > 0 => Built

\* The steps of every attempt, and what they told last.  Without goroutines
\* of their own none goes on when its attempt has returned.
StepInv ==
    /\ step \in [Attempt -> [Step -> {"idle", "up", "panicked"} \cup Ended]]
    /\ sent \in [Step -> {"none", "running"} \cup Ended]
    /\ revived \subseteq Step
    /\ \A a \in Attempt : a > attempts => \A s \in Step : step[a][s] = "idle"
    /\ options.goroutines \/ \A a \in Attempt : a <= stepContext => StillUp(a) = {}
    /\ attempts = 0 => \A s \in Step : sent[s] = "none"

\* context.json: outside of its step it holds the last context, or the error
\* that comes up is a joined one.
StoredInv ==
    /\ stored # NoFile => /\ way # "down" /\ Place(phase) < 3
                          /\ stored = stepContext \/ (stored = Partial /\ err.joined)
    /\ attempts > 0 /\ way # "down" /\ Place(phase) < 3 =>
           stored = stepContext \/ err.joined

\* The report: its entries are the steps that ended; on the way up to it the
\* error of an attempt is one that is published, and outside of it what there
\* was then is, or the error is a joined one.
Chains == {c \in Attempt \X Step : step[c[1]][c[2]] \in Ended}

ReportInv ==
    /\ rows = IF options.report THEN Chains ELSE {}
    /\ late \subseteq Attempt \X Step
    /\ late # {} => ~Reporting /\ options.goroutines
    /\ attempts > 0 /\ way # "down" /\ Place(phase) >= 5 => err.of # "run"
    /\ attempts > 0 /\ options.report /\ way # "down" /\ Place(phase) < 5 =>
           published = rows \ late \/ err.joined

\* The screen: it is up between the entry of Execute and the return of Output
\* and lists what the steps told.
Listed == \A i \in DOMAIN items : items[i].status = Shown(items[i].name)

ScreenInv ==
    /\ loop = "up" => \/ way = "down" /\ phase = "execute"
                      \/ way = "up" /\ phase = "output"
    /\ way = "down" /\ phase # "execute" => loop = "off"
    /\ notified => way # "down"
    /\ revived # {} => notified /\ options.goroutines
    /\ loop = "up" => Names(items) = {s \in Step : sent[s] # "none"}
    /\ loop = "up" /\ ~filtered => Listed
    /\ loop = "up" /\ notified =>
           status = IF revived # {} THEN "running"
                    ELSE IF err = NoError THEN "done" ELSE "failed"

IInv == /\ FlowInv /\ AttemptInv /\ StepInv /\ StoredInv /\ ReportInv
        /\ InterfaceInv /\ ScreenInv

-----------------------------------------------------------------------------
(* The moves of a run: most actions go one step down or one step up and    *)
(* differ in little else.                                                  *)

Descends ==
    /\ exit = "running" /\ way = "down" /\ phase # "execute"
    /\ phase' = Inner(phase) /\ way' = "down" /\ err' = err
    /\ dir' \in {dir, "there"} /\ stepContext' \in {stepContext, 0}
    /\ UNCHANGED <<options, stored, published, printed, exit, attempts, step,
                   told, reported, notified>>
    /\ UNCHANGED <<items, status, cursor, last, panel, filter, filtered>>
    /\ loop' = loop \/ (phase = "output" /\ loop' = UIOutput)

TurnsBack ==
    /\ exit = "running" /\ way = "down" /\ phase # "summary"
    /\ phase = "execute" => ~Built
    /\ phase' = Outer(phase) /\ way' = "up" /\ err' \in {NoError, RunError}
    /\ UNCHANGED <<options, results, pipelineVars, notified, uiVars>>

Ascends ==
    /\ exit = "running" /\ way = "up" /\ phase # "summary"
    /\ phase' = Outer(phase) /\ way' = "up"
    /\ err' = err \/ (phase \in {"report", "step context"} /\ err' = Joined(err))
    /\ dir' \in {dir, "removed"}
    /\ IF phase = "step context" THEN stored' = stepContext \/ err' = Joined(err) ELSE TRUE
    /\ \/ stored' = stored
       \/ phase = "step context" /\ stored' = stepContext
       \/ phase = "step context" /\ stored' = Partial /\ err' = Joined(err)
    /\ IF phase = "report" /\ options.report /\ Publishes(err)
       THEN published' = rows \/ err' = Joined(err)
       ELSE published' = published
    /\ phase = "output" => loop # "up"
    /\ UNCHANGED <<options, printed, exit, pipelineVars, notified, uiVars>>

Finishes ==
    /\ exit = "running" /\ way = "up" /\ phase = "summary"
    /\ way' = "done" /\ exit' \in {"ok", "failed", "crashed"}
    /\ printed' \in {printed, "error", "success"}
    /\ UNCHANGED <<options, phase, err, dir, stored, published, pipelineVars,
                   notified, uiVars>>

\* The user, a signal, or nobody.
Interrupts ==
    /\ UNCHANGED uiVars \/ (loop = "up" /\ Quit) \/ User
    /\ UNCHANGED <<options, flow, results, pipelineVars, notified>>

Move == Descends \/ TurnsBack \/ Ascends \/ Finishes \/ Interrupts

LEMMA PassesMoves ==
    ASSUME NEW p, p \notin {"summary", "step context", "report", "output", "execute"},
           Passes(p)
    PROVE  Move
<1> USE DEF flow, results, pipelineVars, told, reported, uiVars
<1>1. CASE Sound(p) /\ CallNext(p)
  <2>1. Descends
    BY <1>1 DEF Passes, Sound, Down, CallNext, Descends
  <2>2. QED
    BY <2>1 DEF Move
<1>2. CASE Up(p) /\ Return(p, err)
  <2>1. Ascends
    BY <1>2 DEF Passes, Up, Return, Ascends
  <2>2. QED
    BY <2>1 DEF Move
<1>3. QED
  BY <1>1, <1>2 DEF Passes

LEMMA SetUpFailsMoves ==
    ASSUME NEW p, p # "execute", SetUpFails(p)
    PROVE  Move
<1>1. p # "summary"
  BY DEF SetUpFails, Fallible
<1>2. TurnsBack
  BY <1>1 DEF SetUpFails, Down, Return, TurnsBack
<1>3. QED
  BY <1>2 DEF Move

LEMMA SurroundingsMove == Surroundings => Move
<1> SUFFICES ASSUME Surroundings PROVE Move
  OBVIOUS
<1>1. PICK p \in {"secrets", "envs", "tags", "teardown", "pipeline", "otel",
                  "logging", "image policy", "template", "events", "cel",
                  "runtime", "provider", "inputs"} : Passes(p) \/ SetUpFails(p)
  BY DEF Surroundings, Secrets, Envs, Tags, Teardown, PipelineStep, Otel,
         Logging, ImagePolicy, Template, Events, CEL, ContainerRuntime,
         Provider, InputsStep, SetsUp
<1>2. QED
  BY <1>1, PassesMoves, SetUpFailsMoves

LEMMA EnterMoves == Enter => Move
<1> SUFFICES ASSUME Enter PROVE Move
  OBVIOUS
<1> USE DEF flow, results, pipelineVars, told, reported, uiVars
<1>1. CASE Surroundings
  BY <1>1, SurroundingsMove
<1>2. CASE \E p \in {"context dir", "step context", "report", "fork", "output"} : SetUpFails(p)
  BY <1>2, SetUpFailsMoves
<1>3. CASE EnterSummary \/ EnterReport \/ EnterLifecycle
  <2>1. Descends
    BY <1>3 DEF EnterSummary, EnterReport, EnterLifecycle, Sound, Down, CallNext, Descends
  <2>2. QED
    BY <2>1 DEF Move
<1>4. CASE EnterContextDir \/ EnterStepContext
  <2>1. Descends
    BY <1>4 DEF EnterContextDir, EnterStepContext, Sound, Down, CallNext, Descends
  <2>2. QED
    BY <2>1 DEF Move
<1>5. CASE Fork
  <2>1. CASE ~options.fork /\ CallNext("fork")
    <3>1. Descends
      BY <1>5, <2>1 DEF Fork, Sound, Down, CallNext, Descends
    <3>2. QED
      BY <3>1 DEF Move
  <2>2. CASE options.fork /\ \E e \in {NoError, RunError} : Return("fork", e)
    <3>1. TurnsBack
      BY <1>5, <2>2 DEF Fork, Sound, Down, Return, TurnsBack
    <3>2. QED
      BY <3>1 DEF Move
  <2>3. QED
    BY <1>5, <2>1, <2>2 DEF Fork
<1>6. CASE EnterOutput
  <2>1. Descends
    BY <1>6 DEF EnterOutput, Sound, Down, CallNext, Descends
  <2>2. QED
    BY <2>1 DEF Move
<1>7. QED
  BY <1>1, <1>2, <1>3, <1>4, <1>5, <1>6 DEF Enter

LEMMA LeaveMoves == Leave => Move \/ NotifyUI
<1> SUFFICES ASSUME Leave PROVE Move \/ NotifyUI
  OBVIOUS
<1> USE DEF flow, results, pipelineVars, told, reported, uiVars
<1>1. CASE LeaveFork \/ LeaveLifecycle
  <2>1. Ascends
    BY <1>1 DEF LeaveFork, LeaveLifecycle, Up, Return, Ascends
  <2>2. QED
    BY <2>1 DEF Move
<1>2. CASE LeaveOutput
  <2>1. Ascends
    BY <1>2 DEF LeaveOutput, Up, Return, Ascends
  <2>2. QED
    BY <2>1 DEF Move
<1>3. CASE LeaveReport
  <2>1. Ascends
    BY <1>3 DEF LeaveReport, Up, Return, Ascends
  <2>2. QED
    BY <2>1 DEF Move
<1>4. CASE LeaveStepContext
  <2>1. Ascends
    BY <1>4 DEF LeaveStepContext, Up, Return, Ascends
  <2>2. QED
    BY <2>1 DEF Move
<1>5. CASE LeaveContextDir
  <2>1. Ascends
    BY <1>5 DEF LeaveContextDir, Up, Return, Ascends
  <2>2. QED
    BY <2>1 DEF Move
<1>6. CASE LeaveSummary
  <2>1. Finishes
    BY <1>6 DEF LeaveSummary, Up, Finish, Finishes
  <2>2. QED
    BY <2>1 DEF Move
<1>7. QED
  BY <1>1, <1>2, <1>3, <1>4, <1>5, <1>6 DEF Leave

\* The actions that are no such move.
ChainMoves(a, s) ==
    \/ StartStep(a, s) \/ PanicStep(a, s) \/ PanicProcess(a, s)
    \/ \E outcome \in Ended : EndStep(a, s, outcome)

Other == \/ NotifyUI \/ BeginAttempt \/ GiveUp \/ EndAttempt
         \/ \E a \in 1 .. attempts, s \in Step : ChainMoves(a, s)

LEMMA NextMoves == [Next]_vars => Move \/ Other
<1> SUFFICES ASSUME [Next]_vars PROVE Move \/ Other
  OBVIOUS
<1>1. CASE Enter
  BY <1>1, EnterMoves
<1>2. CASE Leave
  BY <1>2, LeaveMoves DEF Other
<1>3. CASE Execute
  <2>1. CASE Build
    <3>1. TurnsBack
      BY <2>1 DEF Build, Down, Return, TurnsBack
    <3>2. QED
      BY <3>1 DEF Move
  <2>2. QED
    BY <1>3, <2>1 DEF Execute, Other, ChainMoves
<1>4. CASE Steps \/ Panic
  BY <1>4 DEF Steps, Panic, Other, ChainMoves
<1>5. CASE Cancel \/ ByUser \/ UNCHANGED vars
  <2>1. Interrupts
    BY <1>5 DEF Cancel, ByUser, vars, Interrupts
  <2>2. QED
    BY <2>1 DEF Move
<1>6. QED
  BY <1>1, <1>2, <1>3, <1>4, <1>5 DEF Next

LEMMA OptionsKept == Move \/ Other => options' = options /\ Built' = Built
<1> SUFFICES ASSUME Move \/ Other PROVE options' = options /\ Built' = Built
  OBVIOUS
<1>1. options' = options
  BY DEF Move, Descends, TurnsBack, Ascends, Finishes, Interrupts, Other, NotifyUI,
         BeginAttempt, GiveUp, EndAttempt, ChainMoves, StartStep, EndStep, PanicStep,
         PanicProcess
<1>2. Built' = Built
  BY <1>1 DEF Built, Inputted
<1>3. QED
  BY <1>1, <1>2

LEMMA ErrorFacts ==
    /\ NoError \in Errors /\ RunError \in Errors
    /\ \A c \in {"none", "container", "step", "bare"} :
           /\ PipelineError(c) \in Errors
           /\ PipelineError(c).of = "pipeline"
    /\ NoError.of = "none"
    /\ \A e \in Errors : Joined(e) \in Errors /\ Joined(e).joined /\ Joined(e) # NoError
<1>1. /\ NoError \in Errors /\ RunError \in Errors
      /\ \A c \in {"none", "container", "step", "bare"} :
             PipelineError(c) \in Errors /\ PipelineError(c).of = "pipeline"
      /\ NoError.of = "none" /\ ~NoError.joined
  BY DEF Errors, NoError, RunError, PipelineError
<1>2. \A e \in Errors : Joined(e) \in Errors /\ Joined(e).joined
  BY DEF Errors, Joined, RunError
<1>3. QED
  BY <1>1, <1>2

-----------------------------------------------------------------------------
(* The invariant holds at first.                                           *)

LEMMA ProfileKeepsRetries ==
    ASSUME NEW o \in Options
    PROVE  ApplyFlagProfile(o).retries = o.retries
<1>1. \A p \in Profile : \A x : DOMAIN x = Option =>
          DOMAIN FlagProfile(p, x) = Option /\ FlagProfile(p, x).retries = x.retries
  BY DEF Profile, FlagProfile, DebugProfile, GithubActionsProfile, Option
<1>2. QED
  BY <1>1, OptionsAssumption DEF ApplyFlagProfile

LEMMA InitIInv == Init => IInv
<1> SUFFICES ASSUME Init PROVE IInv
  OBVIOUS
<1>2. "summary" \in Phase /\ Place("summary") = 1
  <2>1. Phases[1] = "summary"
    BY PhaseNames
  <2>2. Phases[1] \in Phase /\ Place(Phases[1]) = 1
    BY Places
  <2>3. QED
    BY <2>1, <2>2
<1> USE DEF Init
<1>1. options.retries \in 0 .. MaxRetries
  BY ProfileKeepsRetries, OptionsAssumption
<1>3. FlowInv
  BY <1>1, <1>2, ErrorFacts DEF FlowInv, Over
<1>4. AttemptInv
  BY <1>1, OptionsAssumption DEF AttemptInv
<1>5. StepInv
  BY DEF StepInv, StillUp
<1>6. StoredInv /\ ReportInv
  <2>1. Chains = {}
    <3>1. "idle" \notin Ended
      BY DEF Ended
    <3>2. QED
      BY <3>1 DEF Chains
  <2>2. QED
    BY <2>1 DEF StoredInv, ReportInv
<1>7. InterfaceInv
  BY InitInterfaceFacts
<1>8. ScreenInv
  BY DEF ScreenInv, InitInterface
<1>9. QED
  BY <1>3, <1>4, <1>5, <1>6, <1>7, <1>8 DEF IInv

-----------------------------------------------------------------------------
(* Every step preserves every part of it.                                  *)

\* A chain moves in an attempt that was begun: its state and what it told
\* change, or the process ends.
LEMMA ChainFacts ==
    ASSUME FlowInv, AttemptInv, NEW a \in 1 .. attempts, NEW s \in Step,
           ChainMoves(a, s)
    PROVE  /\ a \in Attempt /\ attempts > 0
           /\ UNCHANGED <<options, phase, way, err, dir, stored, published, printed,
                          stepContext, attempts, notified>>
           /\ way # "done"
           /\ exit' = exit \/ exit' = "panicked"
           /\ a > stepContext \/ StillUp(a) # {}
           /\ a > stepContext => way = "down"
<1>1. a \in Attempt /\ attempts > 0
  BY OptionsAssumption DEF AttemptInv, FlowInv, Attempt
<1>2. PICK outcome \in Ended :
          \/ StartStep(a, s) \/ PanicStep(a, s) \/ PanicProcess(a, s)
          \/ EndStep(a, s, outcome)
  <2>1. "done" \in Ended
    BY DEF Ended
  <2>2. QED
    BY <2>1 DEF ChainMoves
<1>3. /\ UNCHANGED <<options, phase, way, err, dir, stored, published, printed,
                     stepContext, attempts, notified>>
      /\ exit' = exit \/ exit' = "panicked"
      /\ Alive(a)
  BY <1>2 DEF StartStep, PanicStep, PanicProcess, EndStep, flow, results, pipelineVars
<1>4. way # "done"
  BY <1>3 DEF Alive, FlowInv
<1>5. a > stepContext => way = "down"
  BY DEF AttemptInv
<1>6. QED
  BY <1>1, <1>3, <1>4, <1>5 DEF Alive

LEMMA FlowStep ==
    ASSUME FlowInv, AttemptInv, Move \/ Other
    PROVE  FlowInv'
<1> USE DEF FlowInv, Over, flow, results
<1>1. /\ options' = options
      /\ Joined(err) \in Errors
      /\ phase # "execute" => Inner(phase) \in Phase
      /\ phase # "summary" => Outer(phase) \in Phase
      /\ NoError \in Errors /\ RunError \in Errors
      /\ \A c \in {"none", "container", "step", "bare"} : PipelineError(c) \in Errors
  BY OptionsKept, ErrorFacts, Neighbours
<1>2. CASE Descends
  BY <1>1, <1>2 DEF Descends
<1>3. CASE TurnsBack
  BY <1>1, <1>3 DEF TurnsBack
<1>4. CASE Ascends
  BY <1>1, <1>4 DEF Ascends
<1>5. CASE Finishes
  BY <1>1, <1>5 DEF Finishes
<1>6. CASE Interrupts
  BY <1>1, <1>6 DEF Interrupts
<1>7. CASE GiveUp
  BY <1>1, <1>7 DEF GiveUp, Down, Return
<1>8. CASE EndAttempt
  <2>1. PICK cause \in Causes :
            IF cause = "none" THEN Return("execute", NoError)
            ELSE IF attempts <= options.retries THEN UNCHANGED flow
            ELSE Return("execute", PipelineError(cause))
    BY <1>8 DEF EndAttempt
  <2>2. cause \in {"none", "container", "step", "bare"}
    BY <2>1 DEF Causes
  <2>3. Return("execute", NoError) \/ UNCHANGED flow
            \/ Return("execute", PipelineError(cause))
    BY <2>1
  <2>4. exit = "running" /\ way = "down" /\ phase = "execute" /\ UNCHANGED results
    BY <1>8 DEF EndAttempt, Attempting, Down
  <2>5. QED
    BY <1>1, <2>2, <2>3, <2>4 DEF Return
<1>9. CASE NotifyUI \/ BeginAttempt
  <2>1. UNCHANGED <<flow, results>>
    BY <1>9 DEF NotifyUI, BeginAttempt
  <2>2. QED
    BY <1>1, <2>1
<1>10. ASSUME NEW a \in 1 .. attempts, NEW s \in Step, ChainMoves(a, s) PROVE FlowInv'
  <2>1. /\ UNCHANGED <<options, phase, way, err, dir, printed>>
        /\ way # "done" /\ exit' \in {exit, "panicked"}
    BY <1>10, ChainFacts
  <2>2. QED
    BY <2>1
<1>11. QED
  BY <1>2, <1>3, <1>4, <1>5, <1>6, <1>7, <1>8, <1>9, <1>10 DEF Move, Other

LEMMA AttemptStep ==
    ASSUME FlowInv, AttemptInv, Move \/ Other
    PROVE  AttemptInv'
<1> USE DEF AttemptInv, pipelineVars, flow
<1>1. /\ options' = options /\ Built' = Built
      /\ options.retries \in Nat
  BY OptionsKept, OptionsAssumption DEF FlowInv
<1>2. CASE Descends
  BY <1>1, <1>2 DEF Descends
<1>3. CASE TurnsBack
  BY <1>1, <1>3 DEF TurnsBack
<1>4. CASE Ascends
  BY <1>1, <1>4 DEF Ascends
<1>5. CASE Finishes
  BY <1>1, <1>5 DEF Finishes
<1>6. CASE Interrupts
  BY <1>1, <1>6 DEF Interrupts
<1>7. CASE GiveUp
  BY <1>1, <1>7 DEF GiveUp, Down, Return
<1>8. CASE EndAttempt
  <2>1. PICK cause \in Causes :
            IF cause = "none" THEN Return("execute", NoError)
            ELSE IF attempts <= options.retries THEN UNCHANGED flow
            ELSE Return("execute", PipelineError(cause))
    BY <1>8 DEF EndAttempt
  <2>2. (attempts <= options.retries /\ UNCHANGED flow) \/ way' = "up"
    BY <2>1 DEF Return
  <2>3. /\ way = "down" /\ phase = "execute" /\ attempts > stepContext
        /\ attempts' = attempts /\ stepContext' = attempts
    BY <1>8 DEF EndAttempt, Attempting, Down
  <2>4. QED
    BY <1>1, <2>2, <2>3
<1>9. CASE BeginAttempt
  BY <1>1, <1>9 DEF BeginAttempt, Down
<1>10. CASE NotifyUI
  BY <1>1, <1>10 DEF NotifyUI
<1>11. ASSUME NEW a \in 1 .. attempts, NEW s \in Step, ChainMoves(a, s) PROVE AttemptInv'
  <2>1. UNCHANGED <<phase, way, stepContext, attempts>>
    BY <1>11, ChainFacts
  <2>2. QED
    BY <1>1, <2>1
<1>12. QED
  BY <1>2, <1>3, <1>4, <1>5, <1>6, <1>7, <1>8, <1>9, <1>10, <1>11 DEF Move, Other

\* What a chain does to the steps and to what they told.
LEMMA ChainChanges ==
    ASSUME NEW a, NEW s, ChainMoves(a, s)
    PROVE  \/ UNCHANGED <<step, sent, revived, rows, late>>
           \/ /\ step[a][s] = "idle" /\ step' = [step EXCEPT ![a][s] = "up"]
              /\ sent' = [sent EXCEPT ![s] = "running"]
              /\ revived' = IF notified THEN revived \cup {s} ELSE revived
              /\ UNCHANGED <<rows, late>>
           \/ /\ step[a][s] = "up" /\ step' = [step EXCEPT ![a][s] = "panicked"]
              /\ UNCHANGED <<sent, revived, rows, late>>
           \/ \E outcome \in Ended :
                 /\ step[a][s] = "up" /\ step' = [step EXCEPT ![a][s] = outcome]
                 /\ sent' = [sent EXCEPT ![s] = outcome]
                 /\ rows' = IF options.report THEN rows \cup {<<a, s>>} ELSE rows
                 /\ late' = IF Reporting THEN late ELSE late \cup {<<a, s>>}
                 /\ UNCHANGED revived
BY DEF ChainMoves, StartStep, PanicStep, PanicProcess, EndStep, pipelineVars, told, reported

LEMMA StepStep ==
    ASSUME FlowInv, AttemptInv, StepInv, Move \/ Other
    PROVE  StepInv'
<1> USE DEF pipelineVars, told
<1>0. options' = options
  BY OptionsKept
<1>1. CASE UNCHANGED pipelineVars
  <2>1. \A a : StillUp(a)' = StillUp(a)
    BY <1>1 DEF StillUp
  <2>2. UNCHANGED <<step, sent, revived, attempts, stepContext>>
    BY <1>1
  <2>3. QED
    BY <1>0, <2>1, <2>2 DEF StepInv
<1>2. CASE Descends
  <2>1. attempts = 0 /\ UNCHANGED <<attempts, step, sent, revived>>
    BY <1>2 DEF Descends, AttemptInv
  <2>2. stepContext = 0 /\ stepContext' = 0
    BY <1>2, <2>1 DEF Descends, AttemptInv
  <2>3. \A a : StillUp(a)' = StillUp(a)
    BY <2>1 DEF StillUp
  <2>4. QED
    BY <1>0, <2>1, <2>2, <2>3 DEF StepInv
<1>3. CASE BeginAttempt
  <2>1. /\ attempts' = attempts + 1 /\ attempts \in Nat
        /\ UNCHANGED <<stepContext, step, sent, revived>>
    BY <1>3 DEF BeginAttempt, AttemptInv
  <2>2. \A a : StillUp(a)' = StillUp(a)
    BY <2>1 DEF StillUp
  <2>3. \A a \in Attempt : a \in Nat
    BY OptionsAssumption DEF Attempt
  <2>4. QED
    BY <1>0, <2>1, <2>2, <2>3 DEF StepInv
<1>4. CASE EndAttempt
  <2>1. /\ attempts > stepContext /\ stepContext' = attempts
        /\ UNCHANGED <<attempts, sent, revived>>
        /\ step' = [step EXCEPT ![attempts] = [s \in Step |-> Settled(step[attempts][s])]]
        /\ StillUp(attempts) = {} \/ options.goroutines
    BY <1>4 DEF EndAttempt, Attempting, LeavesBehind
  <2>2. attempts \in Attempt /\ attempts \in Nat /\ attempts = stepContext + 1 /\ stepContext \in Nat
    BY <2>1, OptionsAssumption DEF AttemptInv, FlowInv, Attempt
  <2>3. \A s \in Step : step[attempts][s] \in {"idle", "up", "panicked"} \cup Ended
    BY <2>2 DEF StepInv
  <2>4. ASSUME NEW s \in Step
        PROVE  /\ Settled(step[attempts][s]) \in {"idle", "up", "panicked"} \cup Ended
               /\ Settled(step[attempts][s]) = "up" => step[attempts][s] = "up"
    BY <2>3 DEF Settled, Ended
  <2>5. /\ step' \in [Attempt -> [Step -> {"idle", "up", "panicked"} \cup Ended]]
        /\ \A a \in Attempt : a # attempts => step'[a] = step[a]
        /\ step'[attempts] = [s \in Step |-> Settled(step[attempts][s])]
    BY <2>1, <2>2, <2>4 DEF StepInv
  <2>6. options.goroutines \/ \A a \in Attempt : a <= stepContext' => StillUp(a)' = {}
    <3> SUFFICES ASSUME ~options.goroutines, NEW a \in Attempt, a <= attempts
                 PROVE  StillUp(a)' = {}
      BY <2>1
    <3>1. CASE a = attempts
      BY <2>1, <2>4, <2>5, <3>1 DEF StillUp
    <3>2. CASE a # attempts
      <4>1. a <= stepContext
        BY <2>2, <3>2, OptionsAssumption DEF Attempt
      <4>2. StillUp(a) = {}
        BY <4>1 DEF StepInv
      <4>3. QED
        BY <2>5, <3>2, <4>2 DEF StillUp
    <3>3. QED
      BY <3>1, <3>2
  <2>7. \A a \in Attempt : a > attempts => a # attempts
    BY <2>2, OptionsAssumption DEF Attempt
  <2>8. QED
    BY <1>0, <2>1, <2>2, <2>5, <2>6, <2>7 DEF StepInv
<1>5. ASSUME NEW a \in 1 .. attempts, NEW s \in Step, ChainMoves(a, s) PROVE StepInv'
  <2>1. /\ a \in Attempt /\ attempts > 0
        /\ UNCHANGED <<stepContext, attempts>>
        /\ a > stepContext \/ StillUp(a) # {}
    BY <1>5, ChainFacts
  <2>2. PICK now \in {"up", "panicked"} \cup Ended, to \in {"running"} \cup Ended :
            /\ step' = step \/ step' = [step EXCEPT ![a][s] = now]
            /\ sent' = sent \/ sent' = [sent EXCEPT ![s] = to]
            /\ revived' \in {revived, revived \cup {s}}
    BY <1>5, ChainChanges
  <2>3. options.goroutines \/ \A b \in Attempt : b <= stepContext => StillUp(b)' = {}
    <3> SUFFICES ASSUME ~options.goroutines, NEW b \in Attempt, b <= stepContext
                 PROVE  StillUp(b)' = {}
      OBVIOUS
    <3>1. StillUp(b) = {}
      BY DEF StepInv
    <3>2. stepContext \in Nat /\ a \in Nat /\ b \in Nat
      BY <2>1, OptionsAssumption DEF Attempt, AttemptInv
    <3>3. a # b
      BY <2>1, <3>1, <3>2
    <3>4. step'[b] = step[b]
      BY <2>2, <3>3 DEF StepInv
    <3>5. QED
      BY <3>1, <3>4 DEF StillUp
  <2>4. \A b \in Attempt : b > attempts => b # a
    BY <2>1, OptionsAssumption DEF Attempt, AttemptInv
  <2>5. /\ step' \in [Attempt -> [Step -> {"idle", "up", "panicked"} \cup Ended]]
        /\ \A b \in Attempt : b # a => step'[b] = step[b]
    BY <2>1, <2>2 DEF StepInv
  <2>6. sent' \in [Step -> {"none", "running"} \cup Ended] /\ revived' \subseteq Step
    BY <2>2 DEF StepInv
  <2>7. QED
    BY <1>0, <2>1, <2>3, <2>4, <2>5, <2>6 DEF StepInv
<1>6. CASE TurnsBack \/ Ascends \/ Finishes \/ Interrupts \/ NotifyUI \/ GiveUp
  BY <1>1, <1>6 DEF TurnsBack, Ascends, Finishes, Interrupts, NotifyUI, GiveUp
<1>7. QED
  BY <1>2, <1>3, <1>4, <1>5, <1>6 DEF Move, Other

LEMMA StoredStep ==
    ASSUME FlowInv, AttemptInv, StoredInv, Move \/ Other
    PROVE  StoredInv'
<1> USE DEF StoredInv, AttemptInv, pipelineVars, results, flow
<1>1. /\ Place(phase) \in 1..22
      /\ Place(phase) = 1 <=> phase = "summary"
      /\ Place(phase) = 2 <=> phase = "context dir"
      /\ Place(phase) = 3 <=> phase = "step context"
      /\ Place(phase) = 22 <=> phase = "execute"
      /\ phase # "summary" => Place(Outer(phase)) = Place(phase) - 1
      /\ err \in Errors
  BY Places, Named, Neighbours DEF FlowInv
<1>2. CASE Descends
  BY <1>2 DEF Descends
<1>3. CASE TurnsBack
  <2>1. attempts = 0
    BY <1>3 DEF TurnsBack
  <2>2. stored = NoFile
    BY <1>3 DEF TurnsBack
  <2>3. QED
    BY <1>3, <2>1, <2>2 DEF TurnsBack
<1>4. CASE Ascends
  <2>1. /\ way = "up" /\ way' = "up" /\ phase' = Outer(phase) /\ phase # "summary"
        /\ UNCHANGED <<attempts, stepContext>>
        /\ attempts = stepContext
    BY <1>4 DEF Ascends
  <2>2. /\ phase = "step context" => ~(Place(phase) < 3) /\ Place(phase') < 3
        /\ phase # "step context" => (Place(phase') < 3 <=> Place(phase) < 3)
    BY <2>1, OneUp DEF FlowInv
  <2>3. err.joined => err'.joined
    BY <1>1, <1>4, ErrorFacts DEF Ascends
  <2>4. CASE phase = "step context"
    <3>1. /\ \/ stored' = stored \/ stored' = stepContext
             \/ stored' = Partial /\ err' = Joined(err)
          /\ stored = NoFile
      <4>1. \/ stored' = stored \/ stored' = stepContext
            \/ stored' = Partial /\ err' = Joined(err)
        BY <1>4 DEF Ascends
      <4>2. ~(Place(phase) < 3)
        BY <2>2, <2>4
      <4>3. QED
        BY <4>1, <4>2
    <3>2. stored' = stepContext \/ err'.joined
      BY <1>1, <1>4, <2>4, ErrorFacts DEF Ascends
    <3>3. Place(phase') < 3
      BY <2>2, <2>4
    <3>4. QED
      BY <1>1, <2>1, <3>1, <3>2, <3>3, ErrorFacts
  <2>5. CASE phase # "step context"
    <3>1. stored' = stored
      BY <1>4, <2>5 DEF Ascends
    <3>2. Place(phase') < 3 <=> Place(phase) < 3
      BY <2>2, <2>5
    <3>3. QED
      BY <2>1, <2>3, <3>1, <3>2
  <2>6. QED
    BY <2>4, <2>5
<1>5. CASE Finishes
  BY <1>5 DEF Finishes
<1>6. CASE Interrupts
  BY <1>6 DEF Interrupts
<1>7. CASE GiveUp \/ EndAttempt
  <2>1. way = "down" /\ phase = "execute" /\ stored' = stored /\ stored = NoFile
    BY <1>7 DEF GiveUp, EndAttempt, Attempting, Down
  <2>2. UNCHANGED flow \/ (way' = "up" /\ phase' = Outer("execute"))
    BY <1>7 DEF GiveUp, EndAttempt, Return
  <2>3. Place(Outer("execute")) = 21
    BY <1>1, <2>1
  <2>4. QED
    BY <2>1, <2>2, <2>3
<1>8. CASE BeginAttempt
  <2>1. way = "down" /\ way' = "down" /\ stored' = stored
    BY <1>8 DEF BeginAttempt, Down
  <2>2. QED
    BY <2>1
<1>9. CASE NotifyUI
  BY <1>9 DEF NotifyUI
<1>10. ASSUME NEW a \in 1 .. attempts, NEW s \in Step, ChainMoves(a, s) PROVE StoredInv'
  <2>1. UNCHANGED <<phase, way, err, stored, stepContext, attempts>>
    BY <1>10, ChainFacts
  <2>2. QED
    BY <2>1
<1>11. QED
  BY <1>2, <1>3, <1>4, <1>5, <1>6, <1>7, <1>8, <1>9, <1>10 DEF Move, Other

\* The entries of the report stay as long as the steps that ended do.
LEMMA ChainsKept == step' = step => Chains' = Chains
BY DEF Chains

LEMMA BelowFive == \A n \in 1..22 : n < 5 => ~(n >= 5)
OBVIOUS

LEMMA ReportStep ==
    ASSUME FlowInv, AttemptInv, StepInv, ReportInv, Move \/ Other
    PROVE  ReportInv'
<1> USE DEF ReportInv, AttemptInv, pipelineVars, reported, results, flow
<1>1. /\ Place(phase) \in 1..22
      /\ Place(phase) = 1 <=> phase = "summary"
      /\ Place(phase) = 3 <=> phase = "step context"
      /\ Place(phase) = 5 <=> phase = "report"
      /\ Place(phase) = 22 <=> phase = "execute"
      /\ phase # "summary" => Place(Outer(phase)) = Place(phase) - 1
      /\ err \in Errors
      /\ options' = options
      /\ attempts \in Nat
  BY Places, Named, Neighbours, OptionsKept DEF FlowInv
<1>r. Place("report") = 5
  <2>1. 5 \in 1..22
    OBVIOUS
  <2>2. Phases[5] \in Phase /\ Place(Phases[5]) = 5
    BY <2>1, Places
  <2>3. Phases[5] = "report"
    BY PhaseNames
  <2>4. QED
    BY <2>2, <2>3
<1>2. CASE Descends
  <2>1. UNCHANGED <<step, rows, late, attempts>> /\ way = "down" /\ way' = "down"
    BY <1>2 DEF Descends
  <2>2. Reporting /\ Reporting'
    BY <2>1 DEF Reporting
  <2>3. late = {} /\ late' = {}
    BY <2>1, <2>2
  <2>4. rows' = IF options'.report THEN Chains' ELSE {}
    BY <1>1, <2>1, ChainsKept
  <2>5. QED
    BY <2>1, <2>3, <2>4
<1>3. CASE TurnsBack
  <2>1. attempts = 0 /\ attempts' = attempts /\ UNCHANGED <<step, rows, late>> /\ way = "down"
    BY <1>3 DEF TurnsBack
  <2>2. late = {} /\ late' = {}
    BY <2>1 DEF Reporting
  <2>3. rows' = IF options'.report THEN Chains' ELSE {}
    BY <1>1, <2>1, ChainsKept
  <2>4. ~(attempts' > 0)
    BY <2>1
  <2>5. QED
    BY <2>2, <2>3, <2>4
<1>4. CASE Ascends
  <2>1. /\ way = "up" /\ way' = "up" /\ phase' = Outer(phase) /\ phase # "summary"
        /\ UNCHANGED <<attempts, step, rows, late>>
    BY <1>4 DEF Ascends
  <2>2. /\ phase = "report" => Place(phase) >= 5 /\ Place(phase') < 5 /\ ~(Place(phase') >= 5)
        /\ phase # "report" => (Place(phase') < 5 <=> Place(phase) < 5)
        /\ phase # "report" => (Place(phase') >= 5 <=> Place(phase) >= 5)
        /\ Place(phase') >= 5 => phase # "step context"
    BY <2>1, OneUp DEF FlowInv
  <2>3. err.joined => err'.joined
    BY <1>1, <1>4, ErrorFacts DEF Ascends
  <2>r. rows' = (IF options.report THEN Chains' ELSE {})
    BY <2>1, ChainsKept
  <2>4. CASE phase = "report"
    <3>0. late = {}
      BY <1>r, <2>2, <2>4 DEF Reporting
    <3>1. ASSUME attempts > 0, options.report PROVE published' = rows \/ err'.joined
      <4>1. err.of # "run"
        BY <1>1, <2>1, <2>4, <3>1
      <4>2. options.report /\ Publishes(err)
        BY <1>1, <3>1, <4>1 DEF Errors, Publishes
      <4>3. QED
        BY <1>1, <1>4, <2>4, <4>2, ErrorFacts DEF Ascends
    <3>2. Place(phase') < 5 /\ ~(Place(phase') >= 5)
      BY <2>2, <2>4
    <3>3. rows' \ late' = rows
      BY <2>1, <3>0
    <3>4. QED
      BY <1>1, <2>1, <2>r, <3>0, <3>1, <3>2, <3>3
  <2>5. CASE phase # "report"
    <3>1. published' = published
      BY <1>4, <2>5 DEF Ascends
    <3>2. Place(phase') < 5 <=> Place(phase) < 5
      BY <2>2, <2>5
    <3>3. Place(phase') >= 5 <=> Place(phase) >= 5
      BY <2>2, <2>5
    <3>4. Place(phase') >= 5 => err' = err
      BY <1>4, <2>2, <2>5 DEF Ascends
    <3>5. Reporting' <=> Reporting
      BY <1>r, <2>1, <3>3 DEF Reporting
    <3>6. QED
      BY <1>1, <2>1, <2>3, <2>r, <3>1, <3>2, <3>3, <3>4, <3>5
  <2>6. QED
    BY <2>4, <2>5
<1>5. CASE Finishes
  <2>1. /\ UNCHANGED <<phase, err, attempts, step, rows, late, published>>
        /\ way = "up" /\ way' = "done"
    BY <1>5 DEF Finishes
  <2>2. Reporting' <=> Reporting
    BY <2>1 DEF Reporting
  <2>3. QED
    BY <1>1, <2>1, <2>2, ChainsKept
<1>6. CASE Interrupts \/ NotifyUI
  <2>1. UNCHANGED <<phase, way, err, attempts, step, rows, late, published>>
    BY <1>6 DEF Interrupts, NotifyUI
  <2>2. Reporting' <=> Reporting
    BY <2>1 DEF Reporting
  <2>3. QED
    BY <1>1, <2>1, <2>2, ChainsKept
<1>7. CASE GiveUp \/ EndAttempt
  <2>1. way = "down" /\ phase = "execute" /\ UNCHANGED <<rows, late, attempts>>
    BY <1>7 DEF GiveUp, EndAttempt, Attempting, Down
  <2>2. \/ UNCHANGED flow
        \/ /\ way' = "up" /\ phase' = Outer("execute")
           /\ err' = NoError \/ \E c \in {"none", "container", "step", "bare"} :
                                    err' = PipelineError(c)
    BY <1>7 DEF GiveUp, EndAttempt, Causes, Return
  <2>3. err' = err \/ err'.of # "run"
    BY <2>2, ErrorFacts
  <2>4. way' = "up" /\ phase' = Outer("execute") => Place(phase') = 21
    BY <1>1, <2>1
  <2>8. late = {}
    BY <2>1 DEF Reporting
  <2>9. Chains' = Chains
    <3>1. CASE GiveUp
      BY <3>1, ChainsKept DEF GiveUp
    <3>2. CASE EndAttempt
      <4>1. step' = [step EXCEPT ![attempts] = [s \in Step |-> Settled(step[attempts][s])]]
        BY <3>2 DEF EndAttempt
      <4>2. \A o : Settled(o) \in Ended <=> o \in Ended
        <5> TAKE o
        <5>1. CASE o \in Ended
          BY <5>1 DEF Settled, Ended
        <5>2. CASE o \notin Ended
          <6>1. Settled(o) = "idle" \/ Settled(o) = o
            BY <5>2 DEF Settled
          <6>2. QED
            BY <5>2, <6>1 DEF Ended
        <5>3. QED
          BY <5>1, <5>2
      <4>3. \A a \in Attempt, s \in Step : step'[a][s] \in Ended <=> step[a][s] \in Ended
        BY <4>1, <4>2 DEF StepInv
      <4>4. QED
        BY <4>3 DEF Chains
    <3>3. QED
      BY <1>7, <3>1, <3>2
  <2>5. CASE UNCHANGED flow
    BY <1>1, <2>1, <2>5, <2>8, <2>9
  <2>6. CASE way' = "up" /\ phase' = Outer("execute") /\ err'.of # "run"
    <3>1. Place(phase') = 21
      BY <2>4, <2>6
    <3>2. ~(Place(phase') < 5)
      BY <3>1
    <3>3. QED
      BY <1>1, <2>1, <2>6, <2>8, <2>9, <3>2
  <2>7. QED
    BY <2>2, <2>5, <2>6, ErrorFacts
<1>8. CASE BeginAttempt
  <2>1. /\ way = "down" /\ way' = "down" /\ UNCHANGED <<step, rows, late>>
    BY <1>8 DEF BeginAttempt, Down
  <2>2. Reporting /\ Reporting'
    BY <2>1 DEF Reporting
  <2>3. QED
    BY <1>1, <2>1, <2>2, ChainsKept
<1>9. ASSUME NEW a \in 1 .. attempts, NEW s \in Step, ChainMoves(a, s) PROVE ReportInv'
  <2>1. /\ a \in Attempt /\ attempts > 0
        /\ UNCHANGED <<phase, way, err, published, stepContext, attempts>>
        /\ a > stepContext \/ StillUp(a) # {}
        /\ a > stepContext => way = "down"
    BY <1>9, ChainFacts
  <2>2. Reporting' <=> Reporting
    BY <2>1 DEF Reporting
  <2>3. CASE UNCHANGED <<rows, late>> /\ Chains' = Chains
    BY <1>1, <2>1, <2>2, <2>3
  <2>4. ASSUME NEW now \in {"up", "panicked"}, step[a][s] \in {"idle", "up"},
               step' = [step EXCEPT ![a][s] = now]
        PROVE  Chains' = Chains
    <3>1. now \notin Ended /\ step[a][s] \notin Ended
      BY <2>4 DEF Ended
    <3>2. \A b \in Attempt, t \in Step : step'[b][t] \in Ended <=> step[b][t] \in Ended
      BY <2>1, <2>4, <3>1 DEF StepInv
    <3>3. QED
      BY <3>2 DEF Chains
  <2>5. ASSUME NEW outcome \in Ended,
               step[a][s] = "up", step' = [step EXCEPT ![a][s] = outcome],
               rows' = IF options.report THEN rows \cup {<<a, s>>} ELSE rows,
               late' = IF Reporting THEN late ELSE late \cup {<<a, s>>}
        PROVE  ReportInv'
    <3>1. step[a][s] \notin Ended
      BY <2>5 DEF Ended
    <3>2. Chains' = Chains \cup {<<a, s>>} /\ <<a, s>> \notin Chains
      <4>1. \A b \in Attempt, t \in Step :
                step'[b][t] \in Ended <=> step[b][t] \in Ended \/ (b = a /\ t = s)
        BY <2>1, <2>5, <3>1 DEF StepInv
      <4>2. ASSUME NEW c \in Attempt \X Step
            PROVE  step'[c[1]][c[2]] \in Ended <=> step[c[1]][c[2]] \in Ended \/ c = <<a, s>>
        <5>1. c[1] \in Attempt /\ c[2] \in Step /\ c = <<c[1], c[2]>>
          OBVIOUS
        <5>2. c = <<a, s>> <=> c[1] = a /\ c[2] = s
          BY <5>1
        <5>3. QED
          BY <4>1, <5>1, <5>2
      <4>3. <<a, s>> \in Attempt \X Step
        BY <2>1
      <4>4. <<a, s>>[1] = a /\ <<a, s>>[2] = s
        OBVIOUS
      <4>5. QED
        BY <3>1, <4>2, <4>3, <4>4 DEF Chains
    <3>3. rows' = (IF options.report THEN Chains' ELSE {})
      BY <2>5, <3>2
    <3>4. late' \subseteq Attempt \X Step
      BY <2>1, <2>5
    <3>5. ~Reporting => options.goroutines
      <4> SUFFICES ASSUME ~Reporting PROVE options.goroutines
        OBVIOUS
      <4>1. ~(a > stepContext)
        BY <2>1 DEF Reporting
      <4>2. a <= stepContext /\ StillUp(a) # {}
        BY <2>1, <4>1, OptionsAssumption DEF Attempt
      <4>3. QED
        BY <2>1, <4>2 DEF StepInv
    <3>6. late' # {} => ~Reporting' /\ options'.goroutines
      BY <1>1, <2>2, <2>5, <3>5
    <3>7. ASSUME options.report, way # "down", Place(phase) < 5
          PROVE  rows' \ late' = rows \ late
      <4>0. ~(Place(phase) >= 5)
        BY <1>1, <3>7, BelowFive
      <4>1. ~Reporting
        BY <1>r, <3>7, <4>0 DEF Reporting
      <4>2. rows' = rows \cup {<<a, s>>} /\ late' = late \cup {<<a, s>>} /\ <<a, s>> \notin rows
        BY <2>5, <3>2, <3>7, <4>1
      <4>3. QED
        BY <4>2
    <3>8. QED
      BY <1>1, <2>1, <3>3, <3>4, <3>6, <3>7
  <2>6. CASE UNCHANGED <<step, rows, late>>
    BY <2>3, <2>6, ChainsKept
  <2>7. CASE /\ step[a][s] = "idle" /\ step' = [step EXCEPT ![a][s] = "up"]
             /\ UNCHANGED <<rows, late>>
    BY <2>3, <2>4, <2>7
  <2>8. CASE /\ step[a][s] = "up" /\ step' = [step EXCEPT ![a][s] = "panicked"]
             /\ UNCHANGED <<rows, late>>
    BY <2>3, <2>4, <2>8
  <2>9. QED
    BY <1>9, <2>5, <2>6, <2>7, <2>8, ChainChanges
<1>10. QED
  BY <1>2, <1>3, <1>4, <1>5, <1>6, <1>7, <1>8, <1>9 DEF Move, Other

LEMMA InterfaceKept == InterfaceInv /\ UNCHANGED uiVars => InterfaceInv'
BY DEF InterfaceInv, ItemsInv, SelectionInv, uiVars

\* What the list shows of steps that told nothing new stays.
LEMMA ShownKept ==
    ASSUME UNCHANGED <<sent, revived, notified>>, notified => err' = err
    PROVE  \A t : Shown(t)' = Shown(t)
BY DEF Shown

LEMMA ListedKept ==
    ASSUME UNCHANGED <<sent, revived, notified, items>>, notified => err' = err, Listed
    PROVE  Listed'
BY DEF Shown, Listed

LEMMA ListedNow ==
    ASSUME \A i \in DOMAIN items' : \A t :
               items'[i].name = t => items'[i].status = Shown(t)'
    PROVE  Listed'
BY DEF Shown, Listed

\* A message about a step: what it says becomes what the step told last.
LEMMA MessageStep ==
    ASSUME StepInv, InterfaceInv, ScreenInv,
           UNCHANGED <<options, phase, way, err, notified>>,
           NEW s \in Step, NEW to \in {"running"} \cup Ended,
           sent' = [sent EXCEPT ![s] = to],
           revived' = IF to = "running" /\ notified THEN revived \cup {s} ELSE revived,
           notified /\ to = "running" => options.goroutines,
           Send(HandleStepMessage(s, to))
    PROVE  InterfaceInv' /\ ScreenInv'
<1>1. revived' # {} => notified' /\ options'.goroutines
  BY DEF ScreenInv
<1>2. CASE loop # "up"
  <2>1. UNCHANGED uiVars
    BY <1>2 DEF Send
  <2>2. loop' = loop /\ loop' # "up"
    BY <1>2, <2>1 DEF uiVars
  <2>3. ScreenInv'
    BY <1>1, <2>2 DEF ScreenInv
  <2>4. QED
    BY <2>1, <2>3, InterfaceKept
<1>3. CASE loop = "up"
  <2>1. HandleStepMessage(s, to) /\ to \in Status
    BY <1>3 DEF Send, Ended, Status
  <2>2. /\ InterfaceInv' /\ loop' = "up" /\ filtered' = filtered
        /\ status' = IF to = "running" THEN "running" ELSE status
        /\ Names(items') = Names(items) \cup {s}
        /\ \A i \in DOMAIN items' :
               IF items'[i].name = s THEN items'[i].status = to
               ELSE \E k \in DOMAIN items : items'[i] = items[k]
    BY <1>3, <2>1, HandleStepMessageFacts
  <2>3. to # "none" /\ sent \in [Step -> {"none", "running"} \cup Ended]
    BY DEF Ended, StepInv
  <2>4. Names(items') = {t \in Step : sent'[t] # "none"}
    <3>1. Names(items) = {t \in Step : sent[t] # "none"}
      BY <1>3 DEF ScreenInv
    <3>2. QED
      BY <2>2, <2>3, <3>1
  <2>s. /\ Shown(s)' = to
        /\ \A t \in Step : t # s => Shown(t)' = Shown(t)
    <3>1. sent'[s] = to /\ \A t \in Step : t # s => sent'[t] = sent[t]
      BY <2>3
    <3>2. to = "running" /\ notified' => s \in revived'
      OBVIOUS
    <3>3. \A t : t # s => (t \in revived' <=> t \in revived)
      OBVIOUS
    <3>4. Shown(s)' = to
      BY <3>1, <3>2 DEF Shown
    <3>5. ASSUME NEW t \in Step, t # s PROVE Shown(t)' = Shown(t)
      BY <3>1, <3>3, <3>5 DEF Shown
    <3>6. QED
      BY <3>4, <3>5
  <2>5. ~filtered' => Listed'
    <3> SUFFICES ASSUME ~filtered', NEW i \in DOMAIN items', NEW t, items'[i].name = t
                 PROVE  items'[i].status = Shown(t)'
      BY ListedNow
    <3>1. CASE t = s
      BY <2>2, <2>s, <3>1
    <3>2. CASE t # s
      <4>1. PICK k \in DOMAIN items : items'[i] = items[k]
        BY <2>2, <3>2
      <4>2. items[k].status = Shown(t)
        BY <1>3, <2>2, <4>1 DEF ScreenInv, Listed
      <4>3. items[k] \in Item
        BY DEF InterfaceInv, ItemsInv
      <4>4. t \in Step
        BY <4>1, <4>3 DEF Item
      <4>5. QED
        BY <2>s, <3>2, <4>1, <4>2, <4>4
    <3>3. QED
      BY <3>1, <3>2
  <2>6. notified' => status' = IF revived' # {} THEN "running"
                              ELSE IF err' = NoError THEN "done" ELSE "failed"
    <3>1. notified => status = IF revived # {} THEN "running"
                               ELSE IF err = NoError THEN "done" ELSE "failed"
      BY <1>3 DEF ScreenInv
    <3>2. CASE to = "running"
      <4>1. notified => revived' # {}
        BY <3>2
      <4>2. QED
        BY <2>2, <3>2, <4>1
    <3>3. CASE to # "running"
      BY <2>2, <3>1, <3>3
    <3>4. QED
      BY <3>2, <3>3
  <2>7. /\ \/ way' = "down" /\ phase' = "execute"
           \/ way' = "up" /\ phase' = "output"
        /\ notified' => way' # "down"
    BY <1>3 DEF ScreenInv
  <2>8. ~(way' = "down" /\ phase' # "execute")
    BY <2>7
  <2>9. ScreenInv'
    BY <1>1, <2>2, <2>4, <2>5, <2>6, <2>7, <2>8 DEF ScreenInv
  <2>10. QED
    BY <2>2, <2>9
<1>4. QED
  BY <1>2, <1>3

LEMMA ScreenStep ==
    ASSUME FlowInv, AttemptInv, StepInv, InterfaceInv, ScreenInv, Move \/ Other
    PROVE  InterfaceInv' /\ ScreenInv'
<1>0. options' = options
  BY OptionsKept
<1>1. /\ phase \in Phase
      /\ Outer("execute") = "output"
      /\ Inner("output") = "execute"
  <2>1. "execute" \in Phase /\ "output" \in Phase
    <3>1. Phases[21] = "output" /\ Phases[22] = "execute"
      BY PhaseNames
    <3>2. Phases[21] \in Phase /\ Phases[22] \in Phase
      BY Places
    <3>3. QED
      BY <3>1, <3>2
  <2>2. Place("execute") = 22 /\ Place("output") = 21
    BY <2>1, Named
  <2>3. Outer("execute") \in Phase /\ Place(Outer("execute")) = 21
    BY <2>1, <2>2, Neighbours
  <2>4. Inner("output") \in Phase /\ Place(Inner("output")) = 22
    BY <2>1, <2>2, Neighbours
  <2>5. QED
    BY <2>3, <2>4, Named DEF FlowInv
<1>2. ASSUME UNCHANGED <<options, uiVars, sent, revived, notified>>, loop # "up",
             way' = "down" /\ phase' # "execute" => loop = "off",
             notified => way' # "down"
      PROVE  InterfaceInv' /\ ScreenInv'
  <2>1. InterfaceInv'
    BY <1>2, InterfaceKept
  <2>2. loop' = loop
    BY <1>2 DEF uiVars
  <2>3. QED
    BY <1>2, <2>1, <2>2 DEF ScreenInv
<1>3. ASSUME UNCHANGED <<options, uiVars, sent, revived, notified>>,
             way = "down", phase = "execute",
             UNCHANGED flow \/ (way' = "up" /\ phase' = "output")
      PROVE  InterfaceInv' /\ ScreenInv'
  <2>1. InterfaceInv'
    BY <1>3, InterfaceKept
  <2>2. ~notified
    BY <1>3 DEF ScreenInv
  <2>3. UNCHANGED <<loop, items, filtered, sent, notified, revived>>
    BY <1>3 DEF uiVars
  <2>4. \/ way' = "down" /\ phase' = "execute"
        \/ way' = "up" /\ phase' = "output"
    BY <1>3 DEF flow
  <2>5. Names(items') = Names(items)
    BY <2>3
  <2>6. Listed => Listed'
    BY <2>2, <2>3, ListedKept
  <2>7. ~notified' /\ revived' = {}
    BY <2>2, <2>3 DEF ScreenInv
  <2>8. ~(way' = "down" /\ phase' # "execute")
    BY <2>4
  <2>9. ScreenInv'
    BY <2>3, <2>4, <2>5, <2>6, <2>7, <2>8 DEF ScreenInv
  <2>10. QED
    BY <2>1, <2>9
<1>4. CASE Descends
  <2>1. /\ way = "down" /\ phase # "execute" /\ way' = "down"
        /\ UNCHANGED <<options, sent, revived, notified>> /\ ~notified
        /\ loop = "off" /\ attempts = 0 /\ revived = {}
    BY <1>4 DEF Descends, ScreenInv, AttemptInv, told
  <2>2. CASE loop' = loop
    <3>1. UNCHANGED uiVars
      BY <1>4, <2>2 DEF Descends, uiVars
    <3>2. QED
      BY <1>2, <2>1, <3>1
  <2>3. CASE phase = "output" /\ loop' = UIOutput
    <3>1. items = <<>> /\ status = "waiting"
      BY <2>1 DEF InterfaceInv, SelectionInv
    <3>2. /\ UNCHANGED <<items, status, cursor, last, panel, filter, filtered>>
          /\ loop' \in {"up", "off"}
      BY <1>4, <2>3 DEF Descends, UIOutput
    <3>3. InterfaceInv'
      BY <3>1, <3>2 DEF InterfaceInv, ItemsInv, SelectionInv
    <3>4. phase' = "execute"
      BY <1>1, <1>4, <2>3 DEF Descends
    <3>5. \A s \in Step : sent'[s] = "none"
      BY <2>1 DEF StepInv
    <3>6. DOMAIN items' = {} /\ Names(items') = {}
      BY <3>1, <3>2, EmptyList DEF Names
    <3>7. Listed'
      BY <3>6 DEF Listed
    <3>8. Names(items') = {s \in Step : sent'[s] # "none"}
      BY <3>5, <3>6
    <3>9. QED
      BY <2>1, <3>3, <3>4, <3>7, <3>8 DEF ScreenInv
  <2>4. QED
    BY <1>4, <2>2, <2>3 DEF Descends
<1>5. CASE TurnsBack
  <2>1. /\ way = "down" /\ way' = "up" /\ phase' = Outer(phase)
        /\ UNCHANGED <<options, uiVars, sent, revived, notified>>
    BY <1>5 DEF TurnsBack, pipelineVars, told
  <2>2. CASE phase = "execute"
    BY <1>1, <1>3, <2>1, <2>2
  <2>3. CASE phase # "execute"
    <3>1. loop = "off"
      BY <2>1, <2>3 DEF ScreenInv
    <3>2. QED
      BY <1>2, <2>1, <3>1
  <2>4. QED
    BY <2>2, <2>3
<1>6. CASE Ascends
  <2>1. /\ way' = "up" /\ UNCHANGED <<options, uiVars, sent, revived, notified>>
        /\ loop # "up"
    BY <1>6 DEF Ascends, ScreenInv, pipelineVars, told
  <2>2. QED
    BY <1>2, <2>1
<1>7. CASE Finishes
  <2>1. /\ way' = "done" /\ UNCHANGED <<options, uiVars, sent, revived, notified>>
        /\ loop # "up"
    BY <1>7 DEF Finishes, ScreenInv, pipelineVars, told
  <2>2. QED
    BY <1>2, <2>1
<1>8. CASE Interrupts
  <2>1. UNCHANGED <<options, phase, way, err, sent, revived, notified>>
    BY <1>8 DEF Interrupts, flow, pipelineVars, told
  <2>s. Listed /\ items' = items => Listed'
    BY <2>1, ListedKept
  <2>2. CASE UNCHANGED uiVars
    <3>1. InterfaceInv' /\ UNCHANGED <<loop, items, filtered, status>>
      BY <2>2, InterfaceKept DEF uiVars
    <3>2. Names(items') = Names(items)
      BY <3>1
    <3>3. QED
      BY <2>1, <2>s, <3>1, <3>2 DEF ScreenInv
  <2>3. CASE loop = "up" /\ Quit
    <3>1. InterfaceInv'
      BY <2>3, QuitFacts
    <3>2. loop' = "quit"
      BY <2>3 DEF Quit
    <3>3. ~(way' = "down" /\ phase' # "execute")
      BY <2>1, <2>3 DEF ScreenInv
    <3>4. QED
      BY <2>1, <3>1, <3>2, <3>3 DEF ScreenInv
  <2>4. CASE User
    <3>1. /\ InterfaceInv'
          /\ loop = "up"
          /\ loop' = "quit" \/
                /\ loop' = "up" /\ status' = status
                /\ Names(items') = Names(items)
                /\ ~filtered' => ~filtered /\ items' = items
      BY <2>4, UserFacts
    <3>2. QED
      BY <2>1, <2>s, <3>1 DEF ScreenInv
  <2>5. QED
    BY <1>8, <2>2, <2>3, <2>4 DEF Interrupts
<1>9. CASE BeginAttempt \/ GiveUp \/ EndAttempt
  <2>1. /\ way = "down" /\ phase = "execute"
        /\ UNCHANGED <<options, uiVars, sent, revived, notified>>
    BY <1>9 DEF BeginAttempt, GiveUp, EndAttempt, Attempting, Down, pipelineVars, told
  <2>2. UNCHANGED flow \/ (way' = "up" /\ phase' = Outer("execute"))
    BY <1>9 DEF BeginAttempt, GiveUp, EndAttempt, Return
  <2>3. QED
    BY <1>1, <1>3, <2>1, <2>2
<1>10. ASSUME NEW a \in 1 .. attempts, NEW s \in Step, ChainMoves(a, s)
       PROVE  InterfaceInv' /\ ScreenInv'
  <2>1. /\ a \in Attempt
        /\ UNCHANGED <<options, phase, way, err, stepContext, attempts, notified>>
        /\ a > stepContext \/ StillUp(a) # {}
        /\ a > stepContext => way = "down"
    BY <1>10, ChainFacts
  <2>2. notified => options.goroutines
    <3> SUFFICES ASSUME notified PROVE options.goroutines
      OBVIOUS
    <3>1. way # "down"
      BY DEF ScreenInv
    <3>2. ~(a > stepContext) /\ StillUp(a) # {}
      BY <2>1, <3>1
    <3>3. a <= stepContext
      BY <2>1, <3>2, OptionsAssumption DEF Attempt, AttemptInv
    <3>4. QED
      BY <2>1, <3>2, <3>3 DEF StepInv
  <2>3. CASE StartStep(a, s)
    <3>1. /\ sent' = [sent EXCEPT ![s] = "running"]
          /\ revived' = IF notified THEN revived \cup {s} ELSE revived
          /\ Send(HandleStepMessage(s, "running"))
      BY <2>3 DEF StartStep
    <3> DEFINE to == "running"
    <3>2. to \in {"running"} \cup Ended /\ to = "running"
      OBVIOUS
    <3>3. /\ sent' = [sent EXCEPT ![s] = to]
          /\ revived' = IF to = "running" /\ notified THEN revived \cup {s} ELSE revived
          /\ notified /\ to = "running" => options.goroutines
          /\ Send(HandleStepMessage(s, to))
      BY <2>2, <3>1
    <3> HIDE DEF to
    <3>4. QED
      BY <2>1, <3>2, <3>3, MessageStep
  <2>4. ASSUME NEW outcome \in Ended, EndStep(a, s, outcome)
        PROVE  InterfaceInv' /\ ScreenInv'
    <3>1. /\ sent' = [sent EXCEPT ![s] = outcome] /\ revived' = revived
          /\ Send(HandleStepMessage(s, outcome))
      BY <2>4 DEF EndStep
    <3>2. outcome # "running" /\ outcome \in {"running"} \cup Ended
      BY DEF Ended
    <3>3. /\ revived' = IF outcome = "running" /\ notified THEN revived \cup {s} ELSE revived
          /\ notified /\ outcome = "running" => options.goroutines
      BY <3>1, <3>2
    <3>4. QED
      BY <2>1, <3>1, <3>2, <3>3, MessageStep
  <2>5. CASE PanicStep(a, s)
    <3>1. UNCHANGED <<sent, revived, uiVars>>
      BY <2>5 DEF PanicStep, told
    <3>3. InterfaceInv' /\ UNCHANGED <<loop, items, filtered, status>>
      BY <3>1, InterfaceKept DEF uiVars
    <3>2. Listed => Listed'
      BY <2>1, <3>1, <3>3, ListedKept
    <3>4. Names(items') = Names(items)
      BY <3>3
    <3>5. QED
      BY <2>1, <3>1, <3>2, <3>3, <3>4 DEF ScreenInv
  <2>6. CASE PanicProcess(a, s)
    <3>1. /\ UNCHANGED <<sent, revived>>
          /\ IF loop = "up" THEN Quit ELSE UNCHANGED uiVars
      BY <2>6 DEF PanicProcess, pipelineVars, told
    <3>2. InterfaceInv' /\ (loop' = loop \/ (loop = "up" /\ loop' = "quit")) /\ loop' # "up"
      <4>1. CASE loop = "up"
        BY <3>1, <4>1, QuitFacts DEF Quit
      <4>2. CASE loop # "up"
        BY <3>1, <4>2, InterfaceKept DEF uiVars
      <4>3. QED
        BY <4>1, <4>2
    <3>3. QED
      BY <2>1, <3>1, <3>2 DEF ScreenInv
  <2>7. QED
    BY <1>10, <2>3, <2>4, <2>5, <2>6 DEF ChainMoves
<1>11. CASE NotifyUI
  <2> DEFINE how == IF err = NoError THEN "done" ELSE "failed"
  <2>1. /\ way = "up" /\ phase = "output" /\ ~notified /\ notified'
        /\ UNCHANGED <<options, phase, way, err, sent, revived>>
        /\ IF loop = "up" THEN HandlePipelineDone(how) ELSE UNCHANGED uiVars
    BY <1>11 DEF NotifyUI, Up, flow, pipelineVars, told
  <2>r. revived = {} /\ revived' = {}
    BY <2>1 DEF ScreenInv
  <2>2. CASE loop # "up"
    <3>1. InterfaceInv' /\ loop' = loop
      BY <2>1, <2>2, InterfaceKept DEF uiVars
    <3>2. QED
      BY <2>1, <2>2, <2>r, <3>1 DEF ScreenInv
  <2>3. CASE loop = "up"
    <3>1. how \in {"done", "failed"}
      OBVIOUS
    <3>2. HandlePipelineDone(how)
      BY <2>1, <2>3
    <3> HIDE DEF how
    <3>3. /\ InterfaceInv'
          /\ \/ loop' = "quit"
             \/ /\ loop' = "up" /\ status' = how /\ filtered' = filtered
                /\ Names(items') = Names(items)
                /\ \A i \in DOMAIN items' :
                       \E k \in DOMAIN items :
                           /\ items'[i].name = items[k].name
                           /\ items'[i].status =
                                  IF how = "failed" /\ items[k].status = "running"
                                  THEN "failed" ELSE items[k].status
      BY <2>3, <3>1, <3>2, HandlePipelineDoneFacts
    <3>4. how = "failed" <=> err # NoError
      BY DEF how
    <3>5. ~filtered' /\ loop' # "quit" => Listed'
      <4> SUFFICES ASSUME ~filtered', loop' # "quit", NEW i \in DOMAIN items',
                          NEW t, items'[i].name = t
                   PROVE  items'[i].status = Shown(t)'
        BY ListedNow
      <4>1. PICK k \in DOMAIN items :
                /\ items'[i].name = items[k].name
                /\ items'[i].status = IF how = "failed" /\ items[k].status = "running"
                                      THEN "failed" ELSE items[k].status
        BY <3>3
      <4>2. ~filtered
        BY <3>3
      <4>3. items[k].status = Shown(t)
        BY <2>3, <4>1, <4>2 DEF ScreenInv, Listed
      <4>4. items[k].status = sent[t]
        BY <2>1, <4>3 DEF Shown
      <4>5. Shown(t)' = IF sent[t] = "running" /\ err # NoError THEN "failed" ELSE sent[t]
        BY <2>1, <2>r DEF Shown
      <4>6. QED
        BY <3>4, <4>1, <4>4, <4>5
    <3>6. CASE loop' = "quit"
      BY <2>1, <2>r, <3>3, <3>6 DEF ScreenInv
    <3>7. CASE loop' # "quit"
      <4>1. /\ loop' = "up" /\ status' = how /\ Names(items') = Names(items)
        BY <3>3, <3>7
      <4>2. status' = IF err' = NoError THEN "done" ELSE "failed"
        BY <2>1, <4>1 DEF how
      <4>3. Names(items') = {t \in Step : sent'[t] # "none"}
        BY <2>1, <2>3, <4>1 DEF ScreenInv
      <4>4. QED
        BY <2>1, <2>r, <3>3, <3>5, <3>7, <4>1, <4>2, <4>3 DEF ScreenInv
    <3>8. QED
      BY <3>6, <3>7
  <2>4. QED
    BY <2>2, <2>3
<1>12. QED
  BY <1>4, <1>5, <1>6, <1>7, <1>8, <1>9, <1>10, <1>11 DEF Move, Other

LEMMA Invariance == Spec => []IInv
<1>1. Init => IInv
  BY InitIInv
<1>2. IInv /\ [Next]_vars => IInv'
  <2> SUFFICES ASSUME IInv, [Next]_vars PROVE IInv'
    OBVIOUS
  <2>1. Move \/ Other
    BY NextMoves
  <2>2. /\ FlowInv /\ AttemptInv /\ StepInv /\ StoredInv /\ ReportInv
        /\ InterfaceInv /\ ScreenInv
    BY DEF IInv
  <2>3. FlowInv' /\ AttemptInv'
    BY <2>1, <2>2, FlowStep, AttemptStep
  <2>4. StepInv' /\ StoredInv' /\ ReportInv'
    BY <2>1, <2>2, StepStep, StoredStep, ReportStep
  <2>5. InterfaceInv' /\ ScreenInv'
    BY <2>1, <2>2, ScreenStep
  <2>6. QED
    BY <2>3, <2>4, <2>5 DEF IInv
<1>3. QED
  BY <1>1, <1>2, PTL DEF Spec

-----------------------------------------------------------------------------

(* Every variable of a run has its type; in particular no command line     *)
(* makes it begin more attempts than --retry allows and one.               *)
THEOREM TypeCorrect == Spec => []TypeOK
<1>1. IInv => TypeOK
  <2> SUFFICES ASSUME IInv PROVE TypeOK
    OBVIOUS
  <2>1. /\ FlowInv /\ AttemptInv /\ StepInv /\ StoredInv /\ InterfaceInv
        /\ MaxRetries \in Nat
    BY OptionsAssumption DEF IInv
  <2>2. attempts \in 0 .. MaxRetries + 1 /\ stepContext \in 0 .. MaxRetries + 1
    <3>1. /\ options.retries \in 0 .. MaxRetries
          /\ attempts \in Nat /\ stepContext \in Nat
          /\ attempts <= options.retries + 1
          /\ stepContext <= attempts
      BY <2>1 DEF FlowInv, AttemptInv
    <3>2. QED
      BY <2>1, <3>1
  <2>3. stored \in {Partial, NoFile} \cup (0 .. MaxRetries + 1)
    <3>1. stored = NoFile \/ stored = Partial \/ stored = stepContext
      BY <2>1 DEF StoredInv
    <3>2. QED
      BY <2>1, <2>2, <3>1
  <2>4. /\ phase \in Phase /\ way \in {"down", "up", "done"}
        /\ err.of \in {"none", "run", "pipeline"}
        /\ dir \in {"none", "there", "removed"}
        /\ printed \in {"nothing", "error", "success"}
        /\ exit \in {"running", "ok", "failed", "crashed", "panicked"}
    BY <2>1 DEF FlowInv, Errors
  <2>5. /\ step \in [Attempt -> [Step -> {"idle", "up", "panicked"} \cup Ended]]
        /\ sent \in [Step -> {"none", "running"} \cup Ended]
        /\ revived \subseteq Step
    BY <2>1 DEF StepInv
  <2>8. rows \subseteq Attempt \X Step /\ late \subseteq Attempt \X Step
    BY DEF IInv, ReportInv, Chains
  <2>6. /\ loop \in {"off", "up", "quit"} /\ items \in Seq(Item)
        /\ cursor \in (IF items = <<>> THEN {0} ELSE DOMAIN items)
        /\ last \in Item \cup {NoItem}
    BY <2>1 DEF InterfaceInv, ItemsInv, SelectionInv
  <2>7. QED
    BY <2>2, <2>3, <2>4, <2>5, <2>6, <2>8 DEF TypeOK
<1>2. QED
  BY <1>1, Invariance, PTL

(* Whatever a run meets, short of a panic that ends its process, the       *)
(* context.json that it leaves behind is that of its last attempt, and if  *)
(* an attempt left none or a part of one the error says so.                *)
THEOREM LastIsStored == Spec => []StoredIsLast
<1>1. IInv => StoredIsLast
  <2> SUFFICES ASSUME IInv, Over
               PROVE  /\ stored \notin {NoFile, Partial} => stored = attempts
                      /\ attempts > 0 \/ stored = Partial => stored = attempts \/ err.joined
    BY DEF StoredIsLast
  <2>1. way = "done" /\ phase = "summary" /\ phase \in Phase
    BY DEF IInv, FlowInv
  <2>2. Place(phase) < 3
    <3>1. Place(phase) = 1
      BY <2>1, Named
    <3>2. QED
      BY <3>1
  <2>3. attempts = stepContext
    BY <2>1 DEF IInv, AttemptInv
  <2>4. QED
    BY <2>1, <2>2, <2>3 DEF IInv, StoredInv, NoFile, Partial
<1>2. QED
  BY <1>1, Invariance, PTL

(* Whatever a run meets, its report lists the steps that ended, except     *)
(* those that an attempt left behind and that ended after it was written,  *)
(* or the error says that there is no report.                              *)
THEOREM ReportIsComplete == Spec => []ReportComplete
<1>1. IInv => ReportComplete
  <2> SUFFICES ASSUME IInv, Over, options.report
               PROVE  /\ attempts > 0 => published = Chains \ late \/ err.joined
                      /\ late # {} => options.goroutines
    BY DEF ReportComplete, Chains
  <2>1. way = "done" /\ phase = "summary" /\ phase \in Phase
    BY DEF IInv, FlowInv
  <2>2. Place(phase) < 5
    <3>1. Place(phase) = 1
      BY <2>1, Named
    <3>2. QED
      BY <3>1
  <2>3. QED
    BY <2>1, <2>2 DEF IInv, ReportInv
<1>2. QED
  BY <1>1, Invariance, PTL

(* For any steps, tags and order of keys, ticks and messages: the list that *)
(* a user sees when the pipeline has ended is the list of its steps, with  *)
(* the steps that told of no end failed if the pipeline has; and the status *)
(* of the pipeline is right unless a step that an attempt left behind has  *)
(* started since.                                                          *)
THEOREM StatusIsShown == Spec => []StatusShown
<1>1. IInv => StatusShown
  <2> SUFFICES ASSUME IInv, loop = "up", notified, ~filtered
               PROVE  /\ View.screen = "main"
                      /\ View.status = (IF revived # {} THEN "running"
                                        ELSE IF err = NoError THEN "done" ELSE "failed")
                      /\ Names(View.list) = {s \in Step : sent[s] # "none"}
                      /\ \A i \in DOMAIN View.list :
                             View.list[i].status = Shown(View.list[i].name)
                      /\ revived # {} => options.goroutines
    BY DEF StatusShown
  <2>1. /\ status = IF revived # {} THEN "running"
                    ELSE IF err = NoError THEN "done" ELSE "failed"
        /\ Names(items) = {s \in Step : sent[s] # "none"}
        /\ \A i \in DOMAIN items : items[i].status = Shown(items[i].name)
        /\ revived # {} => options.goroutines
    BY DEF IInv, ScreenInv, Listed
  <2>2. last # NoItem
    BY <2>1 DEF IInv, InterfaceInv, SelectionInv
  <2>3. View = [screen |-> "main", list |-> items, status |-> status, details |-> last.name]
    BY <2>2 DEF View
  <2>4. View.screen = "main" /\ View.list = items /\ View.status = status
    BY <2>3
  <2>5. QED
    BY <2>1, <2>4
<1>2. QED
  BY <1>1, Invariance, PTL

=============================================================================
