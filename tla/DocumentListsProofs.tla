------------------------- MODULE DocumentListsProofs -------------------------
(***************************************************************************)
(* Proofs about DocumentLists, for every number of documents, page size,   *)
(* set of searches and filters, and every bound.                           *)
(***************************************************************************)
EXTENDS DocumentLists, FiniteSetTheorems, TLAPS

-----------------------------------------------------------------------------
(* Pages. *)

\* Dividing by a positive number gives no more.
LEMMA Quotient ==
  ASSUME NEW n \in Nat, NEW p \in Nat \ {0}
  PROVE  n \div p \in 0 .. n
OBVIOUS

\* There is a first page, and there are no more pages than documents.
LEMMA LastPageTyped ==
  ASSUME NEW k, k.search \subseteq Docs
  PROVE  LastPage(k) \in 1 .. NumDocs
<1> DEFINE n == Cardinality(Matching(k))
<1>1. IsFiniteSet(Docs) /\ Cardinality(Docs) = NumDocs
  BY FS_Interval, SizesAssumption DEF Docs
<1>2. Matching(k) \subseteq Docs
  BY DEF Matching
<1>3. n \in Nat /\ n <= NumDocs
  BY <1>1, <1>2, FS_Subset, FS_CardinalityType
<1>4. CASE n = 0
  BY <1>4, SizesAssumption DEF LastPage
<1>5. CASE n # 0
  <2>1. n - 1 \in Nat
    BY <1>3, <1>5
  <2>2. (n - 1) \div PerPage \in 0 .. (n - 1)
    BY <2>1, Quotient, SizesAssumption
  <2>3. LastPage(k) = ((n - 1) \div PerPage) + 1
    BY <1>5 DEF LastPage
  <2>4. QED
    BY <1>3, <2>1, <2>2, <2>3, SizesAssumption
<1>6. QED
  BY <1>4, <1>5

\* What the server answers is a page of documents.
LEMMA PageTyped ==
  ASSUME NEW k \in Keys, status \in [Docs -> Rules!Statuses]
  PROVE  PageOf(k) \in Data /\ PageOf(k).pages = LastPage(k)
<1>1. k.search \subseteq Docs
  BY SearchesAssumption DEF Keys
<1>2. LastPage(k) \in 1 .. NumDocs
  BY <1>1, LastPageTyped
<1>3. Matching(k) \subseteq Docs
  BY <1>1 DEF Matching
<1>4. {[id |-> d, status |-> status[d]] :
         d \in {e \in Matching(k) : Newer(Matching(k), e) \div PerPage = k.page - 1}}
      \in SUBSET [id : Docs, status : Rules!Statuses]
  BY <1>3
<1>5. QED
  BY <1>2, <1>4 DEF PageOf, Data

-----------------------------------------------------------------------------
(* Type correctness. *)

\* A query whose fetch, once answered, has an answer.
Lists == {q \in Query(Data) : q.fetch = "answered" => q.answer \in Data}

\* The operations of the cache keep a query typed, whatever it holds.
LEMMA ListTyped ==
  ASSUME NEW q \in Lists
  PROVE  /\ \A b \in BOOLEAN : Mounted(q, b) \in Lists
         /\ \A b \in BOOLEAN : Invalidated(q, b) \in Lists
         /\ \A d \in Data : Answered(q, d) \in Lists
         /\ Failed(q) \in Lists
         /\ q.fetch = "answered" => Arrived(q) \in Lists
BY DEF Lists, Query, Ask, Mounted, Invalidated, Survives, Answered, Arrived, Failed

StatusOK == status \in [Docs -> Rules!Statuses]

ScreenOK ==
  /\ list \in {"mine", "all"} /\ box \in Searches /\ timer \in Searches \cup {Nil}
  /\ key \in Keys /\ key.list = list
  /\ last \in Keys \cup {Nil}

CacheOK == cache \in [Keys -> Lists]

CallsOK == calls \subseteq Call /\ \A c, d \in calls : c.n = d.n => c = d

\* The calls that were made have the numbers up to made.
CountsOK ==
  /\ edits \in 0 .. MaxEdits /\ made \in 0 .. MaxCalls /\ others \in 0 .. MaxOthers
  /\ \A c \in calls : c.n <= made

ListsOK == StatusOK /\ ScreenOK /\ CacheOK /\ CallsOK /\ CountsOK

LEMMA ListsAreTyped == ListsOK => TypeOK
BY DEF ListsOK, TypeOK, StatusOK, ScreenOK, CacheOK, CallsOK, CountsOK, Lists

\* A key with another search, status or page is a key.
LEMMA KeyTyped ==
  ASSUME NEW k \in Keys
  PROVE  /\ 1 \in 1 .. NumDocs
         /\ \A p \in 1 .. NumDocs :
              /\ [k EXCEPT !.page = p] \in Keys
              /\ [k EXCEPT !.page = p].list = k.list
              /\ \A s \in Searches :
                   /\ [k EXCEPT !.search = s, !.page = p] \in Keys
                   /\ [k EXCEPT !.search = s, !.page = p].list = k.list
              /\ \A f \in Filters \cup {Nil} :
                   /\ [k EXCEPT !.status = f, !.page = p] \in Keys
                   /\ [k EXCEPT !.status = f, !.page = p].list = k.list
<1>1. 1 \in 1 .. NumDocs
  BY SizesAssumption
<1>2. ASSUME NEW p \in 1 .. NumDocs
      PROVE  [k EXCEPT !.page = p] \in Keys /\ [k EXCEPT !.page = p].list = k.list
  BY DEF Keys
<1>3. ASSUME NEW p \in 1 .. NumDocs, NEW s \in Searches
      PROVE  /\ [k EXCEPT !.search = s, !.page = p] \in Keys
             /\ [k EXCEPT !.search = s, !.page = p].list = k.list
  BY DEF Keys
<1>4. ASSUME NEW p \in 1 .. NumDocs, NEW f \in Filters \cup {Nil}
      PROVE  /\ [k EXCEPT !.status = f, !.page = p] \in Keys
             /\ [k EXCEPT !.status = f, !.page = p].list = k.list
  BY DEF Keys
<1>5. QED
  BY <1>1, <1>2, <1>3, <1>4

LEMMA FreshTyped ==
  ASSUME NEW l \in {"mine", "all"}
  PROVE  Fresh(l) \in Keys /\ Fresh(l).list = l
BY SizesAssumption, SearchesAssumption DEF Fresh, Keys

\* Another query of the same list.
LEMMA AskKeeps ==
  ASSUME ScreenOK, CacheOK, NEW k \in Keys, AskList(k)
  PROVE  CacheOK' /\ key' = k /\ last' \in Keys \cup {Nil}
<1>1. Mounted(cache[k], FALSE) \in Lists
  BY ListTyped DEF CacheOK
<1>2. QED
  BY <1>1 DEF AskList, ScreenOK, CacheOK

LEMMA EditKeeps ==
  ASSUME CountsOK, Edit, UNCHANGED <<made, others, calls>> PROVE CountsOK'
BY BoundsAssumption DEF CountsOK, Edit

LEMMA HappenKeeps ==
  ASSUME CountsOK, Happen, UNCHANGED <<edits, made, calls>> PROVE CountsOK'
BY BoundsAssumption DEF CountsOK, Happen

LEMMA InitTyped == ASSUME Init PROVE ListsOK
<1>1. StatusOK
  BY StatusesAssumption DEF Init, StatusOK
<1>2. ScreenOK
  BY SearchesAssumption, FreshTyped DEF Init, ScreenOK
<1>3. NoQuery \in Lists
  BY DEF NoQuery, Lists, Query
<1>4. Mounted(NoQuery, FALSE) \in Lists
  BY <1>3, ListTyped
<1>5. CacheOK
  BY <1>3, <1>4 DEF Init, CacheOK
<1>6. CallsOK /\ CountsOK
  BY BoundsAssumption DEF Init, CallsOK, CountsOK
<1>7. QED
  BY <1>1, <1>2, <1>5, <1>6 DEF ListsOK

\* The data that is shown is a page of documents.
LEMMA DataTyped == ASSUME ListsOK, data # Nil PROVE data \in Data
BY DEF ListsOK, ScreenOK, CacheOK, Lists, Query, data

\* What the user does to the list keeps the types.
LEMMA ListStepTyped ==
  ASSUME ListsOK,
         \/ \E s \in Searches : handleSearchChange(s)
         \/ ApplySearch \/ clearFilters \/ removeSearchPill
         \/ \E f \in Filters \cup {Nil} : handleStatusChange(f)
         \/ \E p \in 1 .. NumDocs : SetPage(p)
         \/ \E l \in {"mine", "all"} : GoTo(l)
         \/ \E aged \in BOOLEAN : Focus(aged)
  PROVE  ListsOK'
<1>0. StatusOK /\ ScreenOK /\ CacheOK /\ CallsOK /\ CountsOK
  BY DEF ListsOK
<1>1. key \in Keys /\ key.list = list
  BY <1>0 DEF ScreenOK
<1>2. ASSUME NEW s \in Searches, handleSearchChange(s) PROVE ListsOK'
  <2>1. CountsOK'
    BY <1>0, <1>2, EditKeeps DEF handleSearchChange
  <2>2. QED
    BY <1>0, <1>2, <2>1
    DEF handleSearchChange, ListsOK, StatusOK, ScreenOK, CacheOK, CallsOK
<1>3. ASSUME ApplySearch PROVE ListsOK'
  <2>1. timer \in Searches
    BY <1>0, <1>3 DEF ApplySearch, ScreenOK
  <2>2. /\ [key EXCEPT !.search = timer, !.page = 1] \in Keys
        /\ [key EXCEPT !.search = timer, !.page = 1].list = list
    BY <1>1, <2>1, KeyTyped
  <2>3. /\ CacheOK' /\ key' = [key EXCEPT !.search = timer, !.page = 1]
        /\ last' \in Keys \cup {Nil}
    BY <1>0, <1>3, <2>2, AskKeeps DEF ApplySearch
  <2>4. ScreenOK'
    BY <1>0, <1>3, <2>2, <2>3 DEF ApplySearch, ScreenOK
  <2>5. StatusOK' /\ CallsOK' /\ CountsOK'
    BY <1>0, <1>3 DEF ApplySearch, StatusOK, CallsOK, CountsOK, counts
  <2>6. QED
    BY <2>3, <2>4, <2>5 DEF ListsOK
<1>4. ASSUME clearFilters PROVE ListsOK'
  <2>1. Fresh("all") \in Keys /\ Fresh("all").list = list
    BY <1>4, FreshTyped DEF clearFilters
  <2>2. CacheOK' /\ key' = Fresh("all") /\ last' \in Keys \cup {Nil}
    BY <1>0, <1>4, <2>1, AskKeeps DEF clearFilters
  <2>3. ScreenOK'
    BY <1>0, <1>4, <2>1, <2>2, SearchesAssumption DEF clearFilters, ScreenOK
  <2>4. CountsOK'
    BY <1>0, <1>4, EditKeeps DEF clearFilters
  <2>5. StatusOK' /\ CallsOK'
    BY <1>0, <1>4 DEF clearFilters, StatusOK, CallsOK
  <2>6. QED
    BY <2>2, <2>3, <2>4, <2>5 DEF ListsOK
<1>5. ASSUME removeSearchPill PROVE ListsOK'
  <2>1. /\ [key EXCEPT !.search = Docs, !.page = 1] \in Keys
        /\ [key EXCEPT !.search = Docs, !.page = 1].list = list
    BY <1>1, KeyTyped, SearchesAssumption
  <2>2. /\ CacheOK' /\ key' = [key EXCEPT !.search = Docs, !.page = 1]
        /\ last' \in Keys \cup {Nil}
    BY <1>0, <1>5, <2>1, AskKeeps DEF removeSearchPill
  <2>3. ScreenOK'
    BY <1>0, <1>5, <2>1, <2>2, SearchesAssumption DEF removeSearchPill, ScreenOK
  <2>4. CountsOK'
    BY <1>0, <1>5, EditKeeps DEF removeSearchPill
  <2>5. StatusOK' /\ CallsOK'
    BY <1>0, <1>5 DEF removeSearchPill, StatusOK, CallsOK
  <2>6. QED
    BY <2>2, <2>3, <2>4, <2>5 DEF ListsOK
<1>6. ASSUME NEW f \in Filters \cup {Nil}, handleStatusChange(f) PROVE ListsOK'
  <2>1. /\ [key EXCEPT !.status = f, !.page = 1] \in Keys
        /\ [key EXCEPT !.status = f, !.page = 1].list = list
    BY <1>1, KeyTyped
  <2>2. /\ CacheOK' /\ key' = [key EXCEPT !.status = f, !.page = 1]
        /\ last' \in Keys \cup {Nil}
    BY <1>0, <1>6, <2>1, AskKeeps DEF handleStatusChange
  <2>3. ScreenOK'
    BY <1>0, <1>6, <2>1, <2>2 DEF handleStatusChange, ScreenOK
  <2>4. CountsOK'
    BY <1>0, <1>6, EditKeeps DEF handleStatusChange
  <2>5. StatusOK' /\ CallsOK'
    BY <1>0, <1>6 DEF handleStatusChange, StatusOK, CallsOK
  <2>6. QED
    BY <2>2, <2>3, <2>4, <2>5 DEF ListsOK
<1>7. ASSUME NEW p \in 1 .. NumDocs, SetPage(p) PROVE ListsOK'
  <2>1. [key EXCEPT !.page = p] \in Keys /\ [key EXCEPT !.page = p].list = list
    BY <1>1, KeyTyped
  <2>2. CacheOK' /\ key' = [key EXCEPT !.page = p] /\ last' \in Keys \cup {Nil}
    BY <1>0, <1>7, <2>1, AskKeeps DEF SetPage
  <2>3. ScreenOK'
    BY <1>0, <1>7, <2>1, <2>2 DEF SetPage, ScreenOK
  <2>4. CountsOK'
    BY <1>0, <1>7, EditKeeps DEF SetPage
  <2>5. StatusOK' /\ CallsOK'
    BY <1>0, <1>7 DEF SetPage, StatusOK, CallsOK
  <2>6. QED
    BY <2>2, <2>3, <2>4, <2>5 DEF ListsOK
<1>8. ASSUME NEW l \in {"mine", "all"}, GoTo(l) PROVE ListsOK'
  <2>1. Fresh(l) \in Keys /\ Fresh(l).list = l
    BY FreshTyped
  <2>2. Mounted(cache[Fresh(l)], FALSE) \in Lists
    BY <1>0, <2>1, ListTyped DEF CacheOK
  <2>3. CacheOK' /\ ScreenOK'
    BY <1>0, <1>8, <2>1, <2>2, SearchesAssumption DEF GoTo, CacheOK, ScreenOK
  <2>4. CountsOK'
    BY <1>0, <1>8, EditKeeps DEF GoTo
  <2>5. StatusOK' /\ CallsOK'
    BY <1>0, <1>8 DEF GoTo, StatusOK, CallsOK
  <2>6. QED
    BY <2>3, <2>4, <2>5 DEF ListsOK
<1>9. ASSUME NEW aged \in BOOLEAN, Focus(aged) PROVE ListsOK'
  <2>1. Mounted(cache[key], aged) \in Lists
    BY <1>0, <1>1, ListTyped DEF CacheOK
  <2>2. CacheOK'
    BY <1>0, <1>9, <2>1 DEF Focus, CacheOK
  <2>3. CountsOK'
    BY <1>0, <1>9, HappenKeeps DEF Focus
  <2>4. StatusOK' /\ CallsOK' /\ ScreenOK'
    BY <1>0, <1>9 DEF Focus, StatusOK, CallsOK, ScreenOK, user
  <2>5. QED
    BY <2>2, <2>3, <2>4 DEF ListsOK
<1>10. QED
  BY <1>2, <1>3, <1>4, <1>5, <1>6, <1>7, <1>8, <1>9

\* A call that moves on keeps the calls typed.
LEMMA MoveKeeps ==
  ASSUME CallsOK, \A d \in calls : d.n <= made,
         NEW c \in calls, NEW stage \in {"sent", "ok", "failed"}, Move(c, stage),
         made' = made
  PROVE  CallsOK' /\ \A d \in calls' : d.n <= made'
<1>1. c \in Call
  BY DEF CallsOK
<1>2. [c EXCEPT !.stage = stage] \in Call /\ [c EXCEPT !.stage = stage].n = c.n
  BY <1>1 DEF Call
<1>3. QED
  BY <1>2 DEF CallsOK, Move

\* The menu and what becomes of its calls keep the types.
LEMMA CallStepTyped ==
  ASSUME ListsOK,
         \/ data # Nil /\ \E r \in data.rows, s \in Rules!Statuses : ActionMenu(r, s)
         \/ \E c \in calls :
              update_status(c) \/ Lose(c) \/ StatusSucceeds(c) \/ StatusFails(c)
  PROVE  ListsOK'
<1>0. StatusOK /\ ScreenOK /\ CacheOK /\ CallsOK /\ CountsOK
  BY DEF ListsOK
<1>1. \A c \in calls : c.of \in Docs /\ c.to \in Rules!Statuses /\ c.n <= made
  BY <1>0 DEF CallsOK, CountsOK, Call
<1>2. ASSUME data # Nil, NEW r \in data.rows, NEW s \in Rules!Statuses, ActionMenu(r, s)
      PROVE  ListsOK'
  <2>1. r.id \in Docs
    BY <1>2, DataTyped DEF Data
  <2>2. made \in Nat /\ made < MaxCalls /\ made' = made + 1
    BY <1>0, <1>2, BoundsAssumption DEF ActionMenu, CountsOK
  <2> DEFINE new == [n |-> made + 1, of |-> r.id, to |-> s, stage |-> "sent"]
  <2>3. new \in Call
    BY <2>1, <2>2, BoundsAssumption DEF Call
  <2>4. new.n = made + 1
    OBVIOUS
  <2>5. calls' = calls \cup {new}
    BY <1>2 DEF ActionMenu
  <2>6. \A d \in calls : d.n \in Nat /\ d.n <= made
    BY <1>0, <1>1, BoundsAssumption DEF CallsOK, Call
  <2>7. \A d \in calls : d.n # new.n
    BY <2>2, <2>4, <2>6
  <2>8. CallsOK'
    BY <1>0, <2>3, <2>5, <2>7 DEF CallsOK
  <2>9. CountsOK'
    <3>1. \A d \in calls' : d.n <= made'
      BY <2>2, <2>4, <2>5, <2>6
    <3>2. made' \in 0 .. MaxCalls
      BY <2>2, BoundsAssumption
    <3>3. edits' = edits /\ others' = others
      BY <1>2 DEF ActionMenu
    <3>4. QED
      BY <1>0, <3>1, <3>2, <3>3 DEF CountsOK
  <2>10. StatusOK' /\ ScreenOK' /\ CacheOK'
    BY <1>0, <1>2 DEF ActionMenu, StatusOK, ScreenOK, CacheOK, user
  <2>11. QED
    BY <2>8, <2>9, <2>10 DEF ListsOK
<1>3. ASSUME NEW c \in calls, update_status(c) PROVE ListsOK'
  <2>1. \E stage \in {"sent", "ok", "failed"} : Move(c, stage)
    BY <1>3 DEF update_status
  <2>2. made' = made /\ edits' = edits /\ others' = others
    BY <1>3 DEF update_status, counts
  <2>3. CallsOK' /\ \A d \in calls' : d.n <= made'
    BY <1>0, <1>1, <2>1, <2>2, MoveKeeps
  <2>4. CountsOK'
    BY <1>0, <2>2, <2>3 DEF CountsOK
  <2>5. StatusOK'
    BY <1>0, <1>1, <1>3 DEF update_status, StatusOK
  <2>6. ScreenOK' /\ CacheOK'
    BY <1>0, <1>3 DEF update_status, ScreenOK, CacheOK, user
  <2>7. QED
    BY <2>3, <2>4, <2>5, <2>6 DEF ListsOK
<1>4. ASSUME NEW c \in calls, Lose(c) PROVE ListsOK'
  <2>1. made' = made /\ edits' = edits /\ others' \in 0 .. MaxOthers
    BY <1>0, <1>4, BoundsAssumption DEF Lose, Happen, CountsOK
  <2>2. CallsOK' /\ \A d \in calls' : d.n <= made'
    BY <1>0, <1>1, <1>4, <2>1, MoveKeeps DEF Lose
  <2>3. CountsOK'
    BY <1>0, <2>1, <2>2 DEF CountsOK
  <2>4. StatusOK' /\ ScreenOK' /\ CacheOK'
    BY <1>0, <1>4 DEF Lose, StatusOK, ScreenOK, CacheOK, user
  <2>5. QED
    BY <2>2, <2>3, <2>4 DEF ListsOK
<1>5. ASSUME NEW c \in calls, StatusSucceeds(c) PROVE ListsOK'
  <2>1. \A k \in Keys : cache[k] \in Lists /\ Invalidated(cache[k], k = key) \in Lists
    <3>1. ASSUME NEW k \in Keys PROVE cache[k] \in Lists /\ (k = key) \in BOOLEAN
      BY <1>0 DEF CacheOK
    <3>2. QED
      BY <3>1, ListTyped
  <2>2. CacheOK'
    BY <1>5, <2>1 DEF StatusSucceeds, CacheOK
  <2>3. CallsOK' /\ CountsOK'
    BY <1>0, <1>5 DEF StatusSucceeds, CallsOK, CountsOK, counts
  <2>4. StatusOK' /\ ScreenOK'
    BY <1>0, <1>5 DEF StatusSucceeds, StatusOK, ScreenOK, user
  <2>5. QED
    BY <2>2, <2>3, <2>4 DEF ListsOK
<1>6. ASSUME NEW c \in calls, StatusFails(c) PROVE ListsOK'
  BY <1>0, <1>6
  DEF StatusFails, ListsOK, StatusOK, ScreenOK, CacheOK, CallsOK, CountsOK, user, counts
<1>7. QED
  BY <1>2, <1>3, <1>4, <1>5, <1>6

\* The fetches and others keep the types.
LEMMA ServerStepTyped ==
  ASSUME ListsOK,
         \/ \E k \in Keys : AnswerList(k) \/ ListFails(k) \/ ListArrives(k)
         \/ \E d \in Docs, s \in Rules!Statuses : ChangeElsewhere(d, s)
  PROVE  ListsOK'
<1>0. StatusOK /\ ScreenOK /\ CacheOK /\ CallsOK /\ CountsOK
  BY DEF ListsOK
<1>1. \A k \in Keys : cache[k] \in Lists
  BY <1>0 DEF CacheOK
<1>2. ASSUME NEW k \in Keys, AnswerList(k) PROVE ListsOK'
  <2>1. Answered(cache[k], PageOf(k)) \in Lists /\ Failed(cache[k]) \in Lists
    BY <1>0, <1>1, PageTyped, ListTyped DEF StatusOK
  <2>2. CacheOK'
    BY <1>0, <1>2, <2>1 DEF AnswerList, CacheOK
  <2>3. QED
    BY <1>0, <1>2, <2>2
    DEF AnswerList, ListsOK, StatusOK, ScreenOK, CallsOK, CountsOK, user, counts
<1>3. ASSUME NEW k \in Keys, ListFails(k) PROVE ListsOK'
  <2>1. Failed(cache[k]) \in Lists
    BY <1>1, ListTyped
  <2>2. CacheOK'
    BY <1>0, <1>3, <2>1 DEF ListFails, CacheOK
  <2>3. CountsOK'
    BY <1>0, <1>3, HappenKeeps DEF ListFails
  <2>4. StatusOK' /\ ScreenOK' /\ CallsOK'
    BY <1>0, <1>3 DEF ListFails, StatusOK, ScreenOK, CallsOK, user
  <2>5. QED
    BY <2>2, <2>3, <2>4 DEF ListsOK
<1>4. ASSUME NEW k \in Keys, ListArrives(k) PROVE ListsOK'
  <2>1. Arrived(cache[k]) \in Lists
    BY <1>1, <1>4, ListTyped DEF ListArrives
  <2>2. CacheOK'
    BY <1>0, <1>4, <2>1 DEF ListArrives, CacheOK
  <2>3. QED
    BY <1>0, <1>4, <2>2
    DEF ListArrives, ListsOK, StatusOK, ScreenOK, CallsOK, CountsOK, user, counts
<1>5. ASSUME NEW d \in Docs, NEW s \in Rules!Statuses, ChangeElsewhere(d, s)
      PROVE  ListsOK'
  <2>1. StatusOK'
    BY <1>0, <1>5 DEF ChangeElsewhere, StatusOK
  <2>2. CountsOK'
    BY <1>0, <1>5, HappenKeeps DEF ChangeElsewhere
  <2>3. ScreenOK' /\ CacheOK' /\ CallsOK'
    BY <1>0, <1>5 DEF ChangeElsewhere, ScreenOK, CacheOK, CallsOK, user
  <2>4. QED
    BY <2>1, <2>2, <2>3 DEF ListsOK
<1>6. QED
  BY <1>2, <1>3, <1>4, <1>5

LEMMA NextTyped == ASSUME ListsOK, [Next]_vars PROVE ListsOK'
<1>1. CASE UNCHANGED vars
  BY <1>1 DEF vars, user, counts, ListsOK, StatusOK, ScreenOK, CacheOK, CallsOK, CountsOK
<1>2. CASE User
  BY <1>2, ListStepTyped, CallStepTyped DEF User
<1>3. CASE \E c \in calls :
             update_status(c) \/ Lose(c) \/ StatusSucceeds(c) \/ StatusFails(c)
  BY <1>3, CallStepTyped
<1>4. CASE \/ \E k \in Keys : AnswerList(k) \/ ListFails(k) \/ ListArrives(k)
           \/ \E d \in Docs, s \in Rules!Statuses : ChangeElsewhere(d, s)
  BY <1>4, ServerStepTyped
<1>5. QED
  BY <1>1, <1>2, <1>3, <1>4 DEF Next

LEMMA ListsStayTyped == Spec => []ListsOK
<1>1. Init => ListsOK
  BY InitTyped
<1>2. ListsOK /\ [Next]_vars => ListsOK'
  BY NextTyped
<1>3. QED
  BY <1>1, <1>2, PTL DEF Spec

\* The documents, the lists and the queries stay typed, and no two calls have the
\* same number.
THEOREM ListsTypeCorrect == Spec => []TypeOK
<1>1. ListsOK => TypeOK
  BY ListsAreTyped
<1>2. QED
  BY <1>1, ListsStayTyped, PTL

-----------------------------------------------------------------------------
(* The search. *)

\* What the timer will apply is what the box shows, and what was applied is, once
\* the timer has fired, unless the search was cleared meanwhile.
SearchOK ==
  ~cleared => IF timer = Nil THEN key.search = box ELSE timer = box

LEMMA SearchStep == ASSUME ListsOK, SearchOK, [Next]_vars PROVE SearchOK'
<1>1. key \in Keys
  BY DEF ListsOK, ScreenOK
<1>2. /\ \A s \in Searches : [key EXCEPT !.search = s, !.page = 1].search = s
      /\ \A f \in Filters \cup {Nil} : [key EXCEPT !.status = f, !.page = 1].search = key.search
      /\ \A p \in 1 .. NumDocs : [key EXCEPT !.page = p].search = key.search
  BY <1>1 DEF Keys
<1>3. ASSUME NEW s \in Searches, handleSearchChange(s) PROVE SearchOK'
  <2>1. s # Nil
    BY NilAssumption
  <2>2. QED
    BY <1>3, <2>1 DEF handleSearchChange, SearchOK
<1>4. ASSUME ApplySearch PROVE SearchOK'
  <2>1. timer \in Searches
    BY <1>4 DEF ApplySearch, ListsOK, ScreenOK
  <2>2. key'.search = timer
    BY <1>2, <1>4, <2>1 DEF ApplySearch, AskList
  <2>3. QED
    BY <1>4, <2>2 DEF ApplySearch, SearchOK
<1>5. ASSUME clearFilters PROVE SearchOK'
  BY <1>5 DEF clearFilters, SearchOK, AskList, Fresh
<1>6. ASSUME removeSearchPill PROVE SearchOK'
  <2>1. key'.search = Docs
    BY <1>2, <1>6, SearchesAssumption DEF removeSearchPill, AskList
  <2>2. QED
    BY <1>6, <2>1 DEF removeSearchPill, SearchOK
<1>7. ASSUME NEW f \in Filters \cup {Nil}, handleStatusChange(f) PROVE SearchOK'
  BY <1>2, <1>7 DEF handleStatusChange, SearchOK, AskList
<1>8. ASSUME NEW p \in 1 .. NumDocs, SetPage(p) PROVE SearchOK'
  BY <1>2, <1>8 DEF SetPage, SearchOK, AskList
<1>9. ASSUME NEW l \in {"mine", "all"}, GoTo(l) PROVE SearchOK'
  BY <1>9 DEF GoTo, SearchOK, Fresh
<1>10. ASSUME UNCHANGED <<box, timer, key, cleared>> PROVE SearchOK'
  BY <1>10 DEF SearchOK
<1>11. CASE UNCHANGED vars
  BY <1>10, <1>11 DEF vars, user, history
<1>12. CASE User
  <2>1. CASE \E aged \in BOOLEAN : Focus(aged)
    BY <1>10, <2>1 DEF Focus, user, history
  <2>2. CASE data # Nil /\ \E r \in data.rows, s \in Rules!Statuses : ActionMenu(r, s)
    BY <1>10, <2>2 DEF ActionMenu, user, history
  <2>3. QED
    BY <1>3, <1>4, <1>5, <1>6, <1>7, <1>8, <1>9, <1>12, <2>1, <2>2 DEF User
<1>13. CASE \E c \in calls :
              update_status(c) \/ Lose(c) \/ StatusSucceeds(c) \/ StatusFails(c)
  BY <1>10, <1>13 DEF update_status, Lose, StatusSucceeds, StatusFails, user, history
<1>14. CASE \/ \E k \in Keys : AnswerList(k) \/ ListFails(k) \/ ListArrives(k)
            \/ \E d \in Docs, s \in Rules!Statuses : ChangeElsewhere(d, s)
  BY <1>10, <1>14 DEF AnswerList, ListFails, ListArrives, ChangeElsewhere, user, history
<1>15. QED
  BY <1>11, <1>12, <1>13, <1>14 DEF Next

\* The list is searched for what the box shows once typing has paused, unless the
\* search was cleared in the pause.
THEOREM SearchesAreApplied == Spec => []TypedIsApplied
<1>1. Init => SearchOK
  BY DEF Init, SearchOK, Fresh
<1>2. ListsOK /\ SearchOK /\ [Next]_vars => SearchOK'
  BY SearchStep
<1>3. SearchOK => TypedIsApplied
  BY DEF SearchOK, TypedIsApplied
<1>4. QED
  BY <1>1, <1>2, <1>3, ListsStayTyped, PTL DEF Spec

-----------------------------------------------------------------------------
(* The pages. *)

\* Until a status changes, every answer and all data tell the pages there are.
PagesOK ==
  ~changed =>
    \A k \in Keys :
      /\ cache[k].data # Nil => cache[k].data.pages = LastPage(k)
      /\ cache[k].fetch = "answered" => cache[k].answer.pages = LastPage(k)

\* How many pages there are depends on the search and the filter, and on nothing
\* else while no status changes.
LEMMA SamePages ==
  ASSUME NEW k, NEW l, k.search = l.search, k.status = l.status
  PROVE  LastPage(k) = LastPage(l)
BY DEF LastPage, Matching

LEMMA KeptPages ==
  ASSUME status' = status, NEW k PROVE Matching(k)' = Matching(k) /\ LastPage(k)' = LastPage(k)
BY DEF LastPage, Matching

\* The operations of the cache invent no data.
LEMMA DataKept ==
  ASSUME NEW q \in Lists
  PROVE  /\ \A b \in BOOLEAN :
              /\ Mounted(q, b).data = q.data
              /\ Mounted(q, b).fetch = "answered" =>
                   q.fetch = "answered" /\ Mounted(q, b).answer = q.answer
              /\ Invalidated(q, b).data = q.data
              /\ Invalidated(q, b).fetch = "answered" =>
                   q.fetch = "answered" /\ Invalidated(q, b).answer = q.answer
         /\ \A d \in Data : Answered(q, d).data = q.data /\ Answered(q, d).answer = d
         /\ Failed(q).data = q.data /\ Failed(q).fetch = "idle"
         /\ Arrived(q).data = q.answer /\ Arrived(q).fetch = "idle"
BY DEF Lists, Query, Ask, Mounted, Invalidated, Survives, Answered, Arrived, Failed

\* So it stays while no query gets new data or a new answer.
LEMMA PagesKept ==
  ASSUME PagesOK, status' = status, changed' = changed,
         \A k \in Keys :
           /\ cache'[k].data = cache[k].data
           /\ cache'[k].fetch = "answered" =>
                cache[k].fetch = "answered" /\ cache'[k].answer = cache[k].answer
  PROVE  PagesOK'
<1>1. \A k \in Keys : LastPage(k)' = LastPage(k)
  BY KeptPages
<1>2. QED
  BY <1>1 DEF PagesOK

\* Every operation but an answer and an arrival leaves data and answers as they are.
LEMMA PagesKeptByOperations ==
  ASSUME ListsOK, PagesOK, status' = status, changed' = changed,
         \A k \in Keys : \E b \in BOOLEAN :
           cache'[k] \in {cache[k], Mounted(cache[k], b), Invalidated(cache[k], b),
                         Failed(cache[k])}
  PROVE  PagesOK'
<1>1. ASSUME NEW k \in Keys
      PROVE  /\ cache'[k].data = cache[k].data
             /\ cache'[k].fetch = "answered" =>
                  cache[k].fetch = "answered" /\ cache'[k].answer = cache[k].answer
  <2>1. cache[k] \in Lists
    BY DEF ListsOK, CacheOK
  <2>2. PICK b \in BOOLEAN :
          cache'[k] \in {cache[k], Mounted(cache[k], b), Invalidated(cache[k], b),
                        Failed(cache[k])}
    OBVIOUS
  <2>3. CASE cache'[k] = cache[k]
    BY <2>3
  <2>4. CASE cache'[k] = Mounted(cache[k], b)
    BY <2>1, <2>4, DataKept
  <2>5. CASE cache'[k] = Invalidated(cache[k], b)
    BY <2>1, <2>5, DataKept
  <2>6. CASE cache'[k] = Failed(cache[k])
    BY <2>1, <2>6, DataKept
  <2>7. QED
    BY <2>2, <2>3, <2>4, <2>5, <2>6
<1>2. QED
  BY <1>1, PagesKept

LEMMA PagesKeptByAsk ==
  ASSUME ListsOK, PagesOK, NEW k \in Keys, AskList(k), status' = status, changed' = changed
  PROVE  PagesOK'
<1>1. cache' = cache \/ cache' = [cache EXCEPT ![k] = Mounted(@, FALSE)]
  BY DEF AskList
<1>2. \A j \in Keys : cache'[j] = cache[j] \/ cache'[j] = Mounted(cache[j], FALSE)
  BY <1>1 DEF ListsOK, CacheOK
<1>3. QED
  BY <1>2, PagesKeptByOperations

\* The first page always exists.
LEMMA FirstPageExists ==
  ASSUME key' \in Keys, key'.page = 1, status' = status PROVE PagesExist'
<1>1. key'.search \subseteq Docs
  BY SearchesAssumption DEF Keys
<1>2. LastPage(key') \in 1 .. NumDocs
  BY <1>1, LastPageTyped
<1>3. LastPage(key)' = LastPage(key')
  BY DEF LastPage, Matching
<1>4. QED
  BY <1>2, <1>3, SizesAssumption DEF PagesExist

\* What the user does to the list.
LEMMA ListStepPages ==
  ASSUME ListsOK, ListsOK', PagesOK, PagesExist,
         \/ \E s \in Searches : handleSearchChange(s)
         \/ ApplySearch \/ clearFilters \/ removeSearchPill
         \/ \E f \in Filters \cup {Nil} : handleStatusChange(f)
         \/ \E p \in 1 .. NumDocs : SetPage(p)
         \/ \E l \in {"mine", "all"} : GoTo(l)
         \/ \E aged \in BOOLEAN : Focus(aged)
  PROVE  PagesOK' /\ PagesExist'
<1>1. key \in Keys /\ key' \in Keys
  BY DEF ListsOK, ScreenOK
<1>2. /\ \A s \in Searches : [key EXCEPT !.search = s, !.page = 1].page = 1
      /\ \A f \in Filters \cup {Nil} : [key EXCEPT !.status = f, !.page = 1].page = 1
      /\ \A p \in 1 .. NumDocs : /\ [key EXCEPT !.page = p].page = p
                                 /\ [key EXCEPT !.page = p].search = key.search
                                 /\ [key EXCEPT !.page = p].status = key.status
  BY <1>1 DEF Keys
<1>3. ASSUME AskList(key'), key'.page = 1, status' = status, changed' = changed
      PROVE  PagesOK' /\ PagesExist'
  BY <1>1, <1>3, PagesKeptByAsk, FirstPageExists
<1>4. ASSUME NEW s \in Searches, handleSearchChange(s) PROVE PagesOK' /\ PagesExist'
  <2>1. PagesOK'
    BY <1>4, PagesKept DEF handleSearchChange
  <2>2. LastPage(key)' = LastPage(key)
    BY <1>4 DEF handleSearchChange, LastPage, Matching
  <2>3. QED
    BY <1>4, <2>1, <2>2 DEF handleSearchChange, PagesExist
<1>5. ASSUME ApplySearch PROVE PagesOK' /\ PagesExist'
  <2>1. timer \in Searches
    BY <1>5 DEF ApplySearch, ListsOK, ScreenOK
  <2>2. key' = [key EXCEPT !.search = timer, !.page = 1] /\ AskList(key')
    BY <1>5 DEF ApplySearch, AskList
  <2>3. QED
    BY <1>2, <1>3, <1>5, <2>1, <2>2 DEF ApplySearch
<1>6. ASSUME clearFilters PROVE PagesOK' /\ PagesExist'
  <2>1. key' = Fresh("all") /\ AskList(key')
    BY <1>6 DEF clearFilters, AskList
  <2>2. key'.page = 1
    BY <2>1 DEF Fresh
  <2>3. QED
    BY <1>3, <1>6, <2>1, <2>2 DEF clearFilters
<1>7. ASSUME removeSearchPill PROVE PagesOK' /\ PagesExist'
  <2>1. key' = [key EXCEPT !.search = Docs, !.page = 1] /\ AskList(key')
    BY <1>7 DEF removeSearchPill, AskList
  <2>2. QED
    BY <1>2, <1>3, <1>7, <2>1, SearchesAssumption DEF removeSearchPill
<1>8. ASSUME NEW f \in Filters \cup {Nil}, handleStatusChange(f)
      PROVE  PagesOK' /\ PagesExist'
  <2>1. key' = [key EXCEPT !.status = f, !.page = 1] /\ AskList(key')
    BY <1>8 DEF handleStatusChange, AskList
  <2>2. QED
    BY <1>2, <1>3, <1>8, <2>1 DEF handleStatusChange
<1>9. ASSUME NEW p \in 1 .. NumDocs, SetPage(p) PROVE PagesOK' /\ PagesExist'
  <2>1. key' = [key EXCEPT !.page = p] /\ AskList(key')
    BY <1>9 DEF SetPage, AskList
  <2>2. PagesOK'
    BY <1>1, <1>9, <2>1, PagesKeptByAsk DEF SetPage
  <2>3. key'.page = p /\ key'.search = key.search /\ key'.status = key.status
    BY <1>2, <2>1
  <2>4. LastPage(key)' = LastPage(key)
    BY <1>9, <2>3 DEF SetPage, LastPage, Matching
  <2>5. CASE cache[key].data = Nil \/ changed
    <3>1. CASE cache[key].data = Nil
      <4>1. astray'
        BY <1>9, <3>1 DEF SetPage
      <4>2. QED
        BY <2>2, <4>1 DEF PagesExist
    <3>2. CASE changed
      <4>1. changed'
        BY <1>9, <3>2 DEF SetPage
      <4>2. QED
        BY <2>2, <4>1 DEF PagesExist
    <3>3. QED
      BY <2>5, <3>1, <3>2
  <2>6. CASE cache[key].data # Nil /\ ~changed
    <3>1. p \in 1 .. cache[key].data.pages
      BY <1>9, <2>6 DEF SetPage, data
    <3>2. cache[key].data.pages = LastPage(key)
      BY <1>1, <2>6 DEF PagesOK
    <3>3. LastPage(key) \in 1 .. NumDocs
      <4>1. key.search \subseteq Docs
        BY <1>1, SearchesAssumption DEF Keys
      <4>2. QED
        BY <4>1, LastPageTyped
    <3>4. ~(key'.page > LastPage(key)')
      BY <2>3, <2>4, <3>1, <3>2, <3>3, SizesAssumption
    <3>5. QED
      BY <2>2, <3>4 DEF PagesExist
  <2>7. QED
    BY <2>2, <2>5, <2>6
<1>10. ASSUME NEW l \in {"mine", "all"}, GoTo(l) PROVE PagesOK' /\ PagesExist'
  <2>1. key' = Fresh(l) /\ key'.page = 1 /\ status' = status /\ changed' = changed
    BY <1>10 DEF GoTo, Fresh
  <2>2. cache' = [cache EXCEPT ![key'] = Mounted(@, FALSE)]
    BY <1>10 DEF GoTo
  <2>3. \A j \in Keys : cache'[j] = cache[j] \/ cache'[j] = Mounted(cache[j], FALSE)
    BY <1>1, <2>2 DEF ListsOK, CacheOK
  <2>4. QED
    BY <1>1, <2>1, <2>3, PagesKeptByOperations, FirstPageExists
<1>11. ASSUME NEW aged \in BOOLEAN, Focus(aged) PROVE PagesOK' /\ PagesExist'
  <2>1. /\ cache' = [cache EXCEPT ![key] = Mounted(@, aged)]
        /\ status' = status /\ changed' = changed /\ key' = key /\ astray' = astray
    BY <1>11 DEF Focus, user, history
  <2>2. \A j \in Keys : cache'[j] = cache[j] \/ cache'[j] = Mounted(cache[j], aged)
    BY <1>1, <2>1 DEF ListsOK, CacheOK
  <2>3. PagesOK'
    BY <2>1, <2>2, PagesKeptByOperations
  <2>4. LastPage(key)' = LastPage(key)
    BY <2>1 DEF LastPage, Matching
  <2>5. QED
    BY <2>1, <2>3, <2>4 DEF PagesExist
<1>12. QED
  BY <1>4, <1>5, <1>6, <1>7, <1>8, <1>9, <1>10, <1>11

\* The menu, its calls, the fetches and others.
LEMMA OtherStepPages ==
  ASSUME ListsOK, PagesOK, PagesExist,
         \/ data # Nil /\ \E r \in data.rows, s \in Rules!Statuses : ActionMenu(r, s)
         \/ \E c \in calls :
              update_status(c) \/ Lose(c) \/ StatusSucceeds(c) \/ StatusFails(c)
         \/ \E k \in Keys : AnswerList(k) \/ ListFails(k) \/ ListArrives(k)
         \/ \E d \in Docs, s \in Rules!Statuses : ChangeElsewhere(d, s)
  PROVE  PagesOK' /\ PagesExist'
<1>1. \A k \in Keys : cache[k] \in Lists
  BY DEF ListsOK, CacheOK
<1>2. key' = key /\ astray' = astray
  BY DEF ActionMenu, update_status, Lose, StatusSucceeds, StatusFails, AnswerList,
         ListFails, ListArrives, ChangeElsewhere, user, history
<1>3. CASE changed'
  BY <1>3 DEF PagesOK, PagesExist
<1>4. CASE ~changed'
  <2>1. status' = status /\ changed' = changed
    BY <1>4 DEF ActionMenu, update_status, Lose, StatusSucceeds, StatusFails, AnswerList,
                ListFails, ListArrives, ChangeElsewhere, history
  <2>2. LastPage(key)' = LastPage(key)
    BY <1>2, <2>1 DEF LastPage, Matching
  <2>3. PagesExist'
    BY <1>2, <2>1, <2>2 DEF PagesExist
  <2>4. ASSUME cache' = cache PROVE PagesOK'
    BY <2>1, <2>4, PagesKept
  <2>5. ASSUME NEW c \in calls, StatusSucceeds(c) PROVE PagesOK'
    <3>1. \A k \in Keys : \/ cache'[k] = cache[k]
                          \/ cache'[k] = Invalidated(cache[k], k = key)
      BY <2>5 DEF StatusSucceeds
    <3>2. \A k \in Keys : (k = key) \in BOOLEAN
      OBVIOUS
    <3>3. QED
      BY <2>1, <3>1, <3>2, PagesKeptByOperations
  <2>6. ASSUME NEW k \in Keys, AnswerList(k) PROVE PagesOK'
    <3>1. PageOf(k) \in Data /\ PageOf(k).pages = LastPage(k)
      BY PageTyped DEF ListsOK, StatusOK
    <3>2. cache'[k] = Answered(cache[k], PageOf(k)) \/ cache'[k] = Failed(cache[k])
      BY <2>6 DEF AnswerList, ListsOK, CacheOK
    <3>3. \A j \in Keys \ {k} : cache'[j] = cache[j]
      BY <2>6 DEF AnswerList, ListsOK, CacheOK
    <3>4. \A j \in Keys : LastPage(j)' = LastPage(j)
      BY <2>1, KeptPages
    <3>5. /\ cache'[k].data = cache[k].data
          /\ cache'[k].fetch = "answered" => cache'[k].answer = PageOf(k)
      BY <1>1, <3>1, <3>2, DataKept
    <3>6. QED
      BY <2>1, <3>1, <3>3, <3>4, <3>5 DEF PagesOK
  <2>7. ASSUME NEW k \in Keys, ListFails(k) PROVE PagesOK'
    <3>1. \A j \in Keys : cache'[j] = cache[j] \/ cache'[j] = Failed(cache[j])
      BY <2>7 DEF ListFails, ListsOK, CacheOK
    <3>2. QED
      BY <2>1, <3>1, PagesKeptByOperations
  <2>8. ASSUME NEW k \in Keys, ListArrives(k) PROVE PagesOK'
    <3>1. cache'[k] = Arrived(cache[k]) /\ cache[k].fetch = "answered"
      BY <2>8 DEF ListArrives, ListsOK, CacheOK
    <3>2. \A j \in Keys \ {k} : cache'[j] = cache[j]
      BY <2>8 DEF ListArrives, ListsOK, CacheOK
    <3>3. \A j \in Keys : LastPage(j)' = LastPage(j)
      BY <2>1, KeptPages
    <3>4. cache'[k].data = cache[k].answer /\ cache'[k].fetch = "idle"
      BY <1>1, <3>1, DataKept
    <3>5. QED
      BY <2>1, <3>1, <3>2, <3>3, <3>4 DEF PagesOK
  <2>9. CASE data # Nil /\ \E r \in data.rows, s \in Rules!Statuses : ActionMenu(r, s)
    BY <2>3, <2>4, <2>9 DEF ActionMenu
  <2>10. CASE \E c \in calls : update_status(c) \/ Lose(c) \/ StatusFails(c)
    BY <2>3, <2>4, <2>10 DEF update_status, Lose, StatusFails
  <2>11. CASE \E d \in Docs, s \in Rules!Statuses : ChangeElsewhere(d, s)
    BY <2>3, <2>4, <2>11 DEF ChangeElsewhere
  <2>12. QED
    BY <2>3, <2>5, <2>6, <2>7, <2>8, <2>9, <2>10, <2>11
<1>5. QED
  BY <1>3, <1>4

LEMMA PagesStep ==
  ASSUME ListsOK, ListsOK', PagesOK, PagesExist, [Next]_vars
  PROVE  PagesOK' /\ PagesExist'
<1>1. CASE UNCHANGED vars
  BY <1>1 DEF vars, user, history, PagesOK, PagesExist, LastPage, Matching
<1>2. CASE User
  BY <1>2, ListStepPages, OtherStepPages DEF User
<1>3. CASE \/ \E c \in calls :
                update_status(c) \/ Lose(c) \/ StatusSucceeds(c) \/ StatusFails(c)
           \/ \E k \in Keys : AnswerList(k) \/ ListFails(k) \/ ListArrives(k)
           \/ \E d \in Docs, s \in Rules!Statuses : ChangeElsewhere(d, s)
  BY <1>3, OtherStepPages
<1>4. QED
  BY <1>1, <1>2, <1>3 DEF Next

LEMMA InitPages == ASSUME Init PROVE PagesOK /\ PagesExist
<1>1. key.page = 1 /\ key.search = Docs
  BY DEF Init, Fresh
<1>2. LastPage(key) \in 1 .. NumDocs
  BY <1>1, LastPageTyped
<1>3. PagesExist
  BY <1>1, <1>2, SizesAssumption DEF PagesExist
<1>4. \A k \in Keys : cache[k].data = Nil /\ cache[k].fetch # "answered"
  BY DEF Init, Mounted, Ask, NoQuery
<1>5. QED
  BY <1>3, <1>4 DEF PagesOK

\* The page that is asked for exists, unless a status changed or the page was
\* chosen while another list was shown.
THEOREM AskedPagesExist == Spec => []PagesExist
<1>1. Init => PagesOK /\ PagesExist
  BY InitPages
<1>2. ListsOK /\ ListsOK' /\ PagesOK /\ PagesExist /\ [Next]_vars => PagesOK' /\ PagesExist'
  BY PagesStep
<1>3. QED
  BY <1>1, <1>2, ListsStayTyped, PTL DEF Spec
-----------------------------------------------------------------------------
(* What the lists show. *)

\* This client was told of every change of a status.
Told == ~unseen /\ \A c \in calls : c.stage # "ok"

\* What a query has, or what its fetch brings, is the page as it is now.
Tells(q, k) ==
  /\ q.fetch = "answered" => q.answer = PageOf(k)
  /\ q.data # Nil /\ ~q.stale => q.data = PageOf(k)

\* A change this client was told of left nothing fresh and nothing answered, but in
\* the queries whose first fetch it found under way.
TruthInv == Told => \A k \in Keys \ blind : Tells(cache[k], k)

\* A page only changes with a status.
LEMMA SamePage ==
  ASSUME status' = status, NEW k PROVE PageOf(k)' = PageOf(k)
<1>1. Matching(k)' = Matching(k) /\ LastPage(k)' = LastPage(k)
  BY KeptPages
<1>2. QED
  BY <1>1 DEF PageOf, Newer

\* A query that is asked, or left alone, still tells the page.
LEMMA MountedTells ==
  ASSUME NEW k, NEW q \in Lists, Tells(q, k), NEW b \in BOOLEAN
  PROVE  Tells(Mounted(q, b), k)
<1>1. CASE Mounted(q, b) = q
  BY <1>1
<1>2. CASE Mounted(q, b) = Ask(q)
  <2>1. Ask(q).fetch = "asked" /\ Ask(q).data = q.data /\ Ask(q).stale = q.stale
    BY DEF Ask, Lists, Query
  <2>2. QED
    BY <1>2, <2>1 DEF Tells
<1>3. QED
  BY <1>1, <1>2 DEF Mounted

\* A failed fetch leaves the data as it was.
LEMMA FailedTells ==
  ASSUME NEW k, NEW q \in Lists, Tells(q, k) PROVE Tells(Failed(q), k)
<1>1. Failed(q).fetch = "idle" /\ Failed(q).data = q.data /\ Failed(q).stale = q.stale
  BY DEF Failed, Lists, Query
<1>2. QED
  BY <1>1 DEF Tells

\* What arrives is what was answered.
LEMMA ArrivedTells ==
  ASSUME NEW k, NEW q \in Lists, Tells(q, k), q.fetch = "answered"
  PROVE  Tells(Arrived(q), k)
<1>1. Arrived(q).data = q.answer /\ Arrived(q).fetch = "idle"
  BY DEF Arrived
<1>2. QED
  BY <1>1 DEF Tells

\* What the server answers is the page.
LEMMA AnsweredTells ==
  ASSUME NEW k, NEW q \in Lists, Tells(q, k) PROVE Tells(Answered(q, PageOf(k)), k)
<1>1. PICK d : d = PageOf(k)
  OBVIOUS
<1>2. Answered(q, d).answer = d /\ Answered(q, d).data = q.data
      /\ Answered(q, d).stale = q.stale
  BY DEF Answered, Lists, Query
<1>3. QED
  BY <1>1, <1>2 DEF Tells

\* An invalidation leaves nothing that is fresh or answered, unless it is survived.
LEMMA InvalidatedIsStale ==
  ASSUME NEW q \in Lists, NEW b \in BOOLEAN, ~Survives(q, b)
  PROVE  Invalidated(q, b).stale = TRUE /\ Invalidated(q, b).fetch # "answered"
<1>1. PICK s : s = [q EXCEPT !.stale = TRUE]
  OBVIOUS
<1>2. s.stale = TRUE /\ s.fetch = q.fetch
  BY <1>1 DEF Lists, Query
<1>3. CASE b
  <2>1. Invalidated(q, b) = [s EXCEPT !.fetch = "asked", !.answer = Nil]
    BY <1>1, <1>3 DEF Invalidated, Ask
  <2>2. [s EXCEPT !.fetch = "asked", !.answer = Nil].fetch = "asked"
    BY <1>1 DEF Lists, Query
  <2>3. [s EXCEPT !.fetch = "asked", !.answer = Nil].stale = s.stale
    BY <1>1 DEF Lists, Query
  <2>4. QED
    BY <1>2, <2>1, <2>2, <2>3
<1>4. CASE ~b
  <2>1. q.fetch = "idle"
    BY <1>4 DEF Survives
  <2>2. Invalidated(q, b) = s
    BY <1>1, <1>4 DEF Invalidated
  <2>3. QED
    BY <1>2, <2>1, <2>2
<1>5. QED
  BY <1>3, <1>4

\* A step that tells this client of no more and changes no status, and after which
\* every query tells its page if it did.
LEMMA TruthKept ==
  ASSUME TruthInv, status' = status, blind' = blind, Told' => Told,
         \A k \in Keys : Tells(cache[k], k) => Tells(cache'[k], k)
  PROVE  TruthInv'
<1>1. SUFFICES ASSUME Told' PROVE \A k \in Keys \ blind' : Tells(cache[k], k)'
  BY DEF TruthInv
<1>2. ASSUME NEW k \in Keys \ blind' PROVE Tells(cache[k], k)'
  <2>1. Tells(cache'[k], k)
    BY <1>1, <1>2 DEF TruthInv
  <2>2. PageOf(k)' = PageOf(k)
    BY SamePage
  <2>3. QED
    BY <2>1, <2>2 DEF Tells
<1>3. QED
  BY <1>2

LEMMA TruthKeptByAsk ==
  ASSUME ListsOK, TruthInv, NEW k \in Keys, NEW b \in BOOLEAN,
         cache' = cache \/ cache' = [cache EXCEPT ![k] = Mounted(@, b)],
         status' = status, blind' = blind, Told' => Told
  PROVE  TruthInv'
<1>1. \A j \in Keys : cache[j] \in Lists
  BY DEF ListsOK, CacheOK
<1>2. \A j \in Keys : cache'[j] = cache[j] \/ cache'[j] = Mounted(cache[j], b)
  BY DEF ListsOK, CacheOK
<1>3. ASSUME NEW j \in Keys, Tells(cache[j], j) PROVE Tells(cache'[j], j)
  <2>1. CASE cache'[j] = cache[j]
    BY <1>3, <2>1
  <2>2. CASE cache'[j] = Mounted(cache[j], b)
    BY <1>1, <1>3, <2>2, MountedTells
  <2>3. QED
    BY <1>2, <2>1, <2>2
<1>4. QED
  BY <1>3, TruthKept

\* What the user does to the list.
LEMMA ListStepTruth ==
  ASSUME ListsOK, ListsOK', TruthInv,
         \/ \E s \in Searches : handleSearchChange(s)
         \/ ApplySearch \/ clearFilters \/ removeSearchPill
         \/ \E f \in Filters \cup {Nil} : handleStatusChange(f)
         \/ \E p \in 1 .. NumDocs : SetPage(p)
         \/ \E l \in {"mine", "all"} : GoTo(l)
         \/ \E aged \in BOOLEAN : Focus(aged)
  PROVE  TruthInv'
<1>1. key \in Keys /\ key' \in Keys
  BY DEF ListsOK, ScreenOK
<1>2. status' = status /\ blind' = blind /\ calls' = calls /\ unseen' = unseen
  BY DEF handleSearchChange, ApplySearch, clearFilters, removeSearchPill,
         handleStatusChange, SetPage, GoTo, Focus, history
<1>3. Told' => Told
  BY <1>2 DEF Told
<1>4. ASSUME AskList(key') PROVE TruthInv'
  <2>1. cache' = cache \/ cache' = [cache EXCEPT ![key'] = Mounted(@, FALSE)]
    BY <1>4 DEF AskList
  <2>2. QED
    BY <1>1, <1>2, <1>3, <2>1, TruthKeptByAsk
<1>5. ASSUME NEW s \in Searches, handleSearchChange(s) PROVE TruthInv'
  <2>1. cache' = cache
    BY <1>5 DEF handleSearchChange
  <2>2. QED
    BY <1>1, <1>2, <1>3, <2>1, TruthKeptByAsk
<1>6. ASSUME \/ ApplySearch \/ clearFilters \/ removeSearchPill
             \/ \E f \in Filters \cup {Nil} : handleStatusChange(f)
             \/ \E p \in 1 .. NumDocs : SetPage(p)
      PROVE  TruthInv'
  <2>1. PICK k : AskList(k)
    BY <1>6 DEF ApplySearch, clearFilters, removeSearchPill, handleStatusChange, SetPage
  <2>2. key' = k
    BY <2>1 DEF AskList
  <2>3. QED
    BY <1>4, <2>1, <2>2
<1>7. ASSUME NEW l \in {"mine", "all"}, GoTo(l) PROVE TruthInv'
  <2>1. cache' = [cache EXCEPT ![key'] = Mounted(@, FALSE)]
    BY <1>7 DEF GoTo
  <2>2. QED
    BY <1>1, <1>2, <1>3, <2>1, TruthKeptByAsk
<1>8. ASSUME NEW aged \in BOOLEAN, Focus(aged) PROVE TruthInv'
  <2>1. cache' = [cache EXCEPT ![key] = Mounted(@, aged)]
    BY <1>8 DEF Focus
  <2>2. QED
    BY <1>1, <1>2, <1>3, <2>1, TruthKeptByAsk
<1>9. QED
  BY <1>5, <1>6, <1>7, <1>8

\* An operation of the menu, and what becomes of it.
LEMMA CallStepTruth ==
  ASSUME ListsOK, TruthInv,
         \/ data # Nil /\ \E r \in data.rows, s \in Rules!Statuses : ActionMenu(r, s)
         \/ \E c \in calls :
              update_status(c) \/ Lose(c) \/ StatusSucceeds(c) \/ StatusFails(c)
  PROVE  TruthInv'
<1>1. \A k \in Keys : cache[k] \in Lists
  BY DEF ListsOK, CacheOK
<1>2. ASSUME status' = status, blind' = blind, cache' = cache, Told' => Told
      PROVE  TruthInv'
  BY <1>2, TruthKept
<1>3. ASSUME NEW r \in data.rows, NEW s \in Rules!Statuses, ActionMenu(r, s)
      PROVE  TruthInv'
  <2>1. calls \subseteq calls' /\ unseen' = unseen
    BY <1>3 DEF ActionMenu, history
  <2>2. Told' => Told
    BY <2>1 DEF Told
  <2>3. QED
    BY <1>2, <1>3, <2>2 DEF ActionMenu, history
<1>4. ASSUME NEW c \in calls, update_status(c) PROVE TruthInv'
  <2>0. c \in Call
    BY DEF ListsOK, CallsOK
  <2>1. CASE Move(c, "ok")
    <3>1. [c EXCEPT !.stage = "ok"].stage = "ok"
      BY <2>0 DEF Call
    <3>2. [c EXCEPT !.stage = "ok"] \in calls'
      BY <2>1 DEF Move
    <3>3. ~Told'
      BY <3>1, <3>2 DEF Told
    <3>4. QED
      BY <3>3 DEF TruthInv
  <2>2. CASE Move(c, "failed") /\ UNCHANGED <<status, changed>>
    <3>1. c.stage = "sent" /\ calls \ {c} \subseteq calls' /\ unseen' = unseen
      BY <1>4, <2>2 DEF update_status, Move
    <3>2. Told' => Told
      BY <3>1 DEF Told
    <3>3. QED
      BY <1>2, <1>4, <2>2, <3>2 DEF update_status
  <2>3. QED
    BY <1>4, <2>1, <2>2 DEF update_status
<1>5. ASSUME NEW c \in calls, Lose(c) PROVE TruthInv'
  <2>1. CASE c.stage = "ok"
    <3>1. unseen'
      BY <1>5, <2>1 DEF Lose
    <3>2. QED
      BY <3>1 DEF TruthInv, Told
  <2>2. CASE c.stage # "ok"
    <3>1. calls \ {c} \subseteq calls' /\ (unseen' => unseen) /\ (unseen => unseen')
      BY <1>5, <2>2 DEF Lose, Move
    <3>2. Told' => Told
      BY <2>2, <3>1 DEF Told
    <3>3. QED
      BY <1>2, <1>5, <3>2 DEF Lose
  <2>3. QED
    BY <2>1, <2>2
<1>6. ASSUME NEW c \in calls, StatusSucceeds(c) PROVE TruthInv'
  <2>1. SUFFICES ASSUME NEW k \in Keys \ blind' PROVE Tells(cache[k], k)'
    BY DEF TruthInv
  <2>2. k.list \in invalidatedLists /\ (k = key) \in BOOLEAN
    BY DEF Keys, invalidatedLists
  <2>3. ~Survives(cache[k], k = key)
    BY <1>6, <2>1 DEF StatusSucceeds
  <2>4. cache'[k] = Invalidated(cache[k], k = key)
    BY <1>6, <2>2 DEF StatusSucceeds
  <2>5. cache'[k].stale = TRUE /\ cache'[k].fetch # "answered"
    BY <1>1, <2>2, <2>3, <2>4, InvalidatedIsStale
  <2>6. QED
    BY <2>5 DEF Tells
<1>7. ASSUME NEW c \in calls, StatusFails(c) PROVE TruthInv'
  <2>1. c.stage = "failed" /\ calls \ {c} \subseteq calls' /\ unseen' = unseen
    BY <1>7 DEF StatusFails, history
  <2>2. Told' => Told
    BY <2>1 DEF Told
  <2>3. QED
    BY <1>2, <1>7, <2>2 DEF StatusFails, history
<1>8. QED
  BY <1>3, <1>4, <1>5, <1>6, <1>7

\* The fetches, and what others do.
LEMMA FetchStepTruth ==
  ASSUME ListsOK, TruthInv,
         \/ \E k \in Keys : AnswerList(k) \/ ListFails(k) \/ ListArrives(k)
         \/ \E d \in Docs, s \in Rules!Statuses : ChangeElsewhere(d, s)
  PROVE  TruthInv'
<1>1. \A k \in Keys : cache[k] \in Lists
  BY DEF ListsOK, CacheOK
<1>2. ASSUME NEW k \in Keys, AnswerList(k) \/ ListFails(k) \/ ListArrives(k)
      PROVE  TruthInv'
  <2>1. status' = status /\ blind' = blind /\ calls' = calls /\ unseen' = unseen
    BY <1>2 DEF AnswerList, ListFails, ListArrives, history
  <2>2. Told' => Told
    BY <2>1 DEF Told
  <2>3. \A j \in Keys \ {k} : cache'[j] = cache[j]
    BY <1>2 DEF AnswerList, ListFails, ListArrives, ListsOK, CacheOK
  <2>4. \/ cache'[k] = Answered(cache[k], PageOf(k))
        \/ cache'[k] = Failed(cache[k])
        \/ cache[k].fetch = "answered" /\ cache'[k] = Arrived(cache[k])
    BY <1>2 DEF AnswerList, ListFails, ListArrives, ListsOK, CacheOK
  <2>5. Tells(cache[k], k) => Tells(cache'[k], k)
    BY <1>1, <2>4, AnsweredTells, FailedTells, ArrivedTells
  <2>6. QED
    BY <2>1, <2>2, <2>3, <2>5, TruthKept
<1>3. ASSUME NEW d \in Docs, NEW s \in Rules!Statuses, ChangeElsewhere(d, s)
      PROVE  TruthInv'
  BY <1>3 DEF ChangeElsewhere, TruthInv, Told
<1>4. QED
  BY <1>2, <1>3

LEMMA TruthStep == ListsOK /\ ListsOK' /\ TruthInv /\ [Next]_vars => TruthInv'
<1>1. SUFFICES ASSUME ListsOK, ListsOK', TruthInv, [Next]_vars PROVE TruthInv'
  OBVIOUS
<1>2. CASE UNCHANGED vars
  <2>1. status' = status /\ blind' = blind /\ cache' = cache /\ (Told' => Told)
    BY <1>2 DEF vars, history, Told
  <2>2. QED
    BY <1>1, <2>1, TruthKept
<1>3. CASE User
  BY <1>1, <1>3, ListStepTruth, CallStepTruth DEF User
<1>4. CASE \E c \in calls :
             update_status(c) \/ Lose(c) \/ StatusSucceeds(c) \/ StatusFails(c)
  BY <1>1, <1>4, CallStepTruth
<1>5. CASE \/ \E k \in Keys : AnswerList(k) \/ ListFails(k) \/ ListArrives(k)
           \/ \E d \in Docs, s \in Rules!Statuses : ChangeElsewhere(d, s)
  BY <1>1, <1>5, FetchStepTruth
<1>6. QED
  BY <1>1, <1>2, <1>3, <1>4, <1>5 DEF Next

LEMMA InitTruth == Init => TruthInv
<1>1. SUFFICES ASSUME Init PROVE \A k \in Keys : Tells(cache[k], k)
  BY DEF TruthInv
<1>2. \A k \in Keys : cache[k].data = Nil /\ cache[k].fetch # "answered"
  BY <1>1 DEF Init, Mounted, Ask, NoQuery
<1>3. QED
  BY <1>2 DEF Tells

\* When nothing is under way, the list shows the documents as they are after every
\* change this client was told of, unless the change found its first fetch under way.
THEOREM ListsAreTrue == Spec => []ListIsTrue
<1>1. TruthInv /\ ListsOK => ListIsTrue
  BY DEF TruthInv, ListIsTrue, Told, Tells, Settled, ListsOK, ScreenOK
<1>2. QED
  BY <1>1, InitTruth, TruthStep, ListsStayTyped, PTL DEF Spec
=============================================================================
