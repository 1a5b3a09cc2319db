----------------------- MODULE DocumentRequestsProofs -----------------------
(***************************************************************************)
(* Proofs about DocumentRequests, for every number of threads, areas,      *)
(* series, requests and aborted requests; and, in the last sections, about *)
(* DerivedTray, where an office routes what citizens submit as documents   *)
(* are routed here.                                                        *)
(***************************************************************************)
EXTENDS DocumentRequests, DerivedTray, SequenceTheorems, FiniteSetTheorems, TLAPS

-----------------------------------------------------------------------------
(* Tables: the position of a row is its id. *)

\* Appending a row to a table of n rows: the rows keep their ids, the new one
\* has id n + 1.
LEMMA AppendRow ==
  ASSUME NEW S, NEW n \in Nat, NEW t \in [1 .. n -> S], NEW e \in S
  PROVE  /\ t \in Seq(S) /\ Len(t) = n
         /\ Append(t, e) \in [1 .. n + 1 -> S]
         /\ Append(t, e) \in Seq(S)
         /\ Len(Append(t, e)) = n + 1
         /\ \A i \in 1 .. n : Append(t, e)[i] = t[i]
         /\ Append(t, e)[n + 1] = e
<1>1. t \in Seq(S) /\ Len(t) = n
  BY SeqDef
<1>2. /\ Append(t, e) \in Seq(S)
      /\ Len(Append(t, e)) = n + 1
      /\ \A i \in 1 .. n : Append(t, e)[i] = t[i]
      /\ Append(t, e)[n + 1] = e
  BY <1>1, AppendProperties
<1>3. Append(t, e) \in [1 .. n + 1 -> S]
  BY <1>2, LenProperties
<1>4. QED
  BY <1>1, <1>2, <1>3

-----------------------------------------------------------------------------
(* Rows, tables and the values threads hold. *)

\* The rules only name statuses, and every transition has a flow action.
LEMMA RulesTyped ==
  ASSUME NEW from, NEW to, ValidTransition(from, to)
  PROVE  /\ from \in Statuses /\ to \in Statuses
         /\ from # to
         /\ ActionFor(from, to) \in FlowActions
BY DEF ValidTransition, ActionFor, FLOW_ACTION, FlowActions, TRANSITIONS, Statuses

\* What one may assume of a request by its stage.
LEMMA RequestTyped ==
  ASSUME NEW r \in Request
  PROVE  /\ r.stage = "numbered" =>
              /\ r.series \in Series /\ r.number \in Nat \ {0}
              /\ r.area \in OptionalArea
         /\ r.stage = "loaded" =>
              /\ r.doc \in Nat \ {0} /\ r.status \in Statuses
              /\ r.area \in OptionalArea
         /\ r.stage = "recording" =>
              /\ r.doc \in Nat \ {0} /\ r.flow \in Flow
         /\ r.stage \in {"idle", "numbered", "loaded", "recording"}
         /\ r.stage = "idle" => r = Idle
BY DEF Request, Idle

\* The ids are 1, 2, ..., and a series has finitely many documents.
LEMMA SeriesFinite ==
  ASSUME documents \in Seq(Document)
  PROVE  /\ Documents = 1 .. Len(documents) /\ Len(documents) \in Nat
         /\ \A s : IsFiniteSet(InSeries(s)) /\ Cardinality(InSeries(s)) \in Nat
<1>1. Documents = 1 .. Len(documents) /\ Len(documents) \in Nat
  BY LenProperties DEF Documents
<1>2. IsFiniteSet(Documents)
  BY <1>1, FS_Interval
<1>3. ASSUME NEW s PROVE IsFiniteSet(InSeries(s)) /\ Cardinality(InSeries(s)) \in Nat
  BY <1>2, FS_Subset, FS_CardinalityType DEF InSeries
<1>4. QED
  BY <1>1, <1>3
-----------------------------------------------------------------------------
(* Type correctness. *)

\* The part of TypeOK about the tables, and the one about the threads.
TablesOK ==
  /\ documents \in Seq(Document)
  /\ flows \in [Documents -> Seq(Flow)]
  /\ versions \in [Documents -> Seq(Version)]

ThreadsOK ==
  /\ requests \in [Workers -> Request]
  /\ \A w \in Workers : requests[w].stage \in {"loaded", "recording"}
                          => requests[w].doc \in Documents
  /\ arrived \in Nat
  /\ aborted \in Nat

LEMMA TypeSplit == TypeOK <=> TablesOK /\ ThreadsOK
BY DEF TypeOK, TablesOK, ThreadsOK

\* A thread that moves to a typed request keeps the threads typed.
LEMMA ThreadMoves ==
  ASSUME ThreadsOK, NEW w \in Workers, NEW r \in Request, Become(w, r),
         r.stage \in {"loaded", "recording"} => r.doc \in Documents',
         Documents \subseteq Documents', arrived' \in Nat, aborted' \in Nat
  PROVE  ThreadsOK'
BY DEF ThreadsOK, Become

\* An update of a loaded row keeps the tables typed and every id.
LEMMA UpdateTyped ==
  ASSUME TablesOK, NEW r, r.doc \in Documents, r.status \in Statuses,
         r.area \in OptionalArea, NEW to \in Statuses, NEW area \in OptionalArea,
         UpdateDocument(r, to, area)
  PROVE  TablesOK' /\ Documents' = Documents
<1> DEFINE row == [documents[r.doc] EXCEPT
                    !.status = IF to # r.status THEN to ELSE @,
                    !.area   = IF area # r.area THEN area ELSE @]
           v == [from |-> r.status, to |-> to,
                 from_area |-> r.area, to_area |-> area]
<1>1. Documents = 1 .. Len(documents)
  BY SeriesFinite DEF TablesOK
<1>2. documents[r.doc] \in Document
  BY <1>1, ElementOfSeq DEF TablesOK
<1>3. row \in Document
  BY <1>2 DEF Document
<1>4. documents' = [documents EXCEPT ![r.doc] = row]
  BY DEF UpdateDocument
<1>5. documents' \in Seq(Document) /\ Len(documents') = Len(documents)
  BY <1>1, <1>3, <1>4, ExceptSeq DEF TablesOK
<1>6. Documents' = Documents
  BY <1>1, <1>5, LenProperties DEF Documents
<1>7. v \in Version
  BY DEF Version, OptionalStatus
<1>8. versions' = [versions EXCEPT ![r.doc] = Append(versions[r.doc], v)]
  BY DEF UpdateDocument
<1>9. versions[r.doc] \in Seq(Version)
  BY DEF TablesOK
<1>10. Append(versions[r.doc], v) \in Seq(Version)
  BY <1>7, <1>9, AppendProperties
<1>11. versions' \in [Documents' -> Seq(Version)]
  BY <1>6, <1>8, <1>10 DEF TablesOK
<1>12. flows' \in [Documents' -> Seq(Flow)]
  BY <1>6 DEF TablesOK, UpdateDocument
<1>13. QED
  BY <1>5, <1>6, <1>11, <1>12 DEF TablesOK

\* A new document keeps the tables typed and gets the next id.
LEMMA InsertTyped ==
  ASSUME TablesOK, NEW w \in Workers, requests[w] \in Request, InsertDocument(w)
  PROVE  /\ TablesOK'
         /\ Len(documents') = Len(documents) + 1
         /\ Documents' = Documents \cup {Len(documents) + 1}
         /\ \A d \in Documents : documents'[d] = documents[d]
         /\ documents'[Len(documents) + 1] =
              [series |-> requests[w].series, number |-> requests[w].number,
               status |-> "registrado", area |-> requests[w].area]
<1> DEFINE r == requests[w]
           n == Len(documents)
           row == [series |-> r.series, number |-> r.number,
                   status |-> "registrado", area |-> r.area]
           v == [from |-> None, to |-> "registrado",
                 from_area |-> None, to_area |-> r.area]
<1>1. Documents = 1 .. n /\ n \in Nat
  BY SeriesFinite DEF TablesOK
<1>2. r.series \in Series /\ r.number \in Nat \ {0} /\ r.area \in OptionalArea
  BY RequestTyped DEF InsertDocument
<1>3. row \in Document
  BY <1>2 DEF Document, Statuses
<1>4. documents \in [1 .. n -> Document]
  BY <1>1, LenProperties DEF TablesOK
<1>5. documents' = Append(documents, row)
  BY DEF InsertDocument
<1>6. /\ documents' \in Seq(Document)
      /\ Len(documents') = n + 1
      /\ \A d \in 1 .. n : documents'[d] = documents[d]
      /\ documents'[n + 1] = row
  BY <1>1, <1>3, <1>4, <1>5, AppendRow
<1>7. Documents' = 1 .. n + 1
  BY <1>6, LenProperties DEF Documents
<1>8. <<>> \in Seq(Flow)
  BY EmptySeq
<1>9. flows' = Append(flows, <<>>)
  BY DEF InsertDocument
<1>10. flows' \in [1 .. n + 1 -> Seq(Flow)]
  BY <1>1, <1>8, <1>9, AppendRow DEF TablesOK
<1>11. v \in Version
  BY <1>2 DEF Version, OptionalStatus, Statuses, OptionalArea
<1>12. <<v>> \in Seq(Version)
  BY <1>11
<1>13. versions' = Append(versions, <<v>>)
  BY DEF InsertDocument
<1>14. versions' \in [1 .. n + 1 -> Seq(Version)]
  <2> HIDE DEF v
  <2>1. versions \in [1 .. n -> Seq(Version)]
    BY <1>1 DEF TablesOK
  <2>2. QED
    BY <1>1, <1>12, <1>13, <2>1, AppendRow
<1>15. TablesOK'
  BY <1>6, <1>7, <1>10, <1>14 DEF TablesOK
<1>16. Documents' = Documents \cup {n + 1}
  BY <1>1, <1>7
<1>17. QED
  BY <1>1, <1>6, <1>15, <1>16

\* Tables that do not change stay typed and keep their ids.
LEMMA TablesUnchanged ==
  ASSUME TablesOK, UNCHANGED tables
  PROVE  TablesOK' /\ Documents' = Documents
BY DEF TablesOK, tables, Documents

LEMMA TypeInit == Init => TypeOK
<1> SUFFICES ASSUME Init PROVE TypeOK
  OBVIOUS
<1>1. documents \in Seq(Document) /\ Len(documents) = 0
  BY EmptySeq DEF Init
<1>2. Documents = {}
  BY <1>1, SeriesFinite
<1>3. flows \in [Documents -> Seq(Flow)] /\ versions \in [Documents -> Seq(Version)]
  <2>1. DOMAIN flows = {} /\ DOMAIN versions = {}
    BY DEF Init
  <2>2. QED
    BY <1>2, <2>1 DEF Init
<1>4. QED
  BY <1>1, <1>3 DEF Init, TypeOK, Request, Idle

\* A thread that ends its request, or takes one up, without touching a table.
LEMMA ReadKeepsTypes ==
  ASSUME TypeOK, NEW w \in Workers, NEW r \in Request, Become(w, r),
         UNCHANGED tables, arrived' \in Nat, aborted' \in Nat,
         r.stage \in {"loaded", "recording"} => r.doc \in Documents
  PROVE  TypeOK'
<1>1. TablesOK /\ ThreadsOK
  BY TypeSplit
<1>2. TablesOK' /\ Documents' = Documents
  BY <1>1, TablesUnchanged
<1>3. ThreadsOK'
  BY <1>1, <1>2, ThreadMoves
<1>4. QED
  BY <1>2, <1>3 DEF TypeOK, TablesOK, ThreadsOK

LEMMA IdleTyped == Idle \in Request /\ Idle.stage = "idle"
BY DEF Idle, Request

LEMMA TypeStep ==
  ASSUME TypeOK, [Next]_vars
  PROVE  TypeOK'
<1> USE DEF Proceed
<1>1. /\ TablesOK /\ ThreadsOK
      /\ arrived \in Nat /\ aborted \in Nat
      /\ \A w \in Workers : requests[w] \in Request
  BY TypeSplit DEF ThreadsOK
<1>2. ASSUME NEW w \in Workers, NEW s \in Series, NEW a \in OptionalArea,
             AssignDocumentNumber(w, s, a)
      PROVE  TypeOK'
  <2> DEFINE r == [stage |-> "numbered", series |-> s,
                   number |-> Cardinality(InSeries(s)) + 1, area |-> a]
  <2>1. Cardinality(InSeries(s)) \in Nat
    BY <1>1, SeriesFinite DEF TablesOK
  <2>2. r \in Request /\ r.stage = "numbered"
    BY <2>1 DEF Request
  <2>3. Become(w, r) /\ UNCHANGED tables /\ arrived' \in Nat /\ aborted' \in Nat
    BY <1>1, <1>2 DEF AssignDocumentNumber, Accept
  <2>4. QED
    BY <2>2, <2>3, ReadKeepsTypes
<1>3. ASSUME NEW w \in Workers, NEW d \in Documents, SetDocument(w, d)
      PROVE  TypeOK'
  <2> DEFINE r == [stage |-> "loaded", doc |-> d,
                   status |-> documents[d].status, area |-> documents[d].area]
  <2>1. d \in Nat \ {0} /\ documents[d] \in Document
    BY <1>1, SeriesFinite, ElementOfSeq DEF TablesOK
  <2>2. r \in Request /\ r.stage = "loaded" /\ r.doc = d
    BY <2>1 DEF Request, Document
  <2>3. Become(w, r) /\ UNCHANGED tables /\ arrived' \in Nat /\ aborted' \in Nat
    BY <1>1, <1>3 DEF SetDocument, Accept
  <2>4. QED
    BY <2>2, <2>3, ReadKeepsTypes
<1>4. ASSUME NEW w \in Workers, InsertDocument(w)
      PROVE  TypeOK'
  <2> DEFINE f == [action |-> "registrado", from |-> None, to |-> "registrado",
                   from_area |-> None, to_area |-> requests[w].area]
             r == [stage |-> "recording", doc |-> Len(documents) + 1, flow |-> f]
  <2>1. TablesOK' /\ Documents' = Documents \cup {Len(documents) + 1}
    BY <1>1, <1>4, InsertTyped
  <2>2. requests[w].area \in OptionalArea
    BY <1>1, <1>4, RequestTyped DEF InsertDocument
  <2>3. f \in Flow
    BY <2>2 DEF Flow, FlowActions, OptionalStatus, OptionalArea, Statuses
  <2>4. Len(documents) \in Nat
    BY <1>1, SeriesFinite DEF TablesOK
  <2>5. r \in Request /\ r.doc \in Documents'
    BY <2>1, <2>3, <2>4 DEF Request
  <2>6. Become(w, r) /\ arrived' \in Nat /\ aborted' \in Nat
    BY <1>1, <1>4 DEF InsertDocument
  <2>7. ThreadsOK'
    BY <1>1, <2>1, <2>5, <2>6, ThreadMoves
  <2>8. QED
    BY <2>1, <2>7 DEF TypeOK, TablesOK, ThreadsOK
<1>5. ASSUME NEW w \in Workers, RaiseNotUnique(w) \/ Refuse(w) \/ Abort(w)
      PROVE  TypeOK'
  <2>1. Become(w, Idle) /\ UNCHANGED tables /\ arrived' \in Nat /\ aborted' \in Nat
    BY <1>1, <1>5 DEF RaiseNotUnique, Refuse, Abort
  <2>2. QED
    BY <2>1, IdleTyped, ReadKeepsTypes
<1>6. ASSUME NEW w \in Workers, NEW to \in Statuses, NEW a \in OptionalArea,
             CommitTransition(w, to, a)
      PROVE  TypeOK'
  <2> DEFINE r == requests[w]
             f == [action |-> ActionFor(r.status, to), from |-> r.status,
                   to |-> to, from_area |-> r.area, to_area |-> a]
             n == [stage |-> "recording", doc |-> r.doc, flow |-> f]
             b == IF a # None THEN a ELSE r.area
  <2>1. /\ r.stage = "loaded" /\ ValidTransition(r.status, to)
        /\ UpdateDocument(r, to, b)
        /\ Become(w, n) /\ arrived' \in Nat /\ aborted' \in Nat
    BY <1>1, <1>6 DEF CommitTransition
  <2>2. /\ r.doc \in Nat \ {0} /\ r.doc \in Documents
        /\ r.status \in Statuses /\ r.area \in OptionalArea /\ b \in OptionalArea
    BY <1>1, <2>1, RequestTyped DEF ThreadsOK
  <2>3. TablesOK' /\ Documents' = Documents
    BY <1>1, <2>1, <2>2, UpdateTyped
  <2>4. f \in Flow
    BY <2>1, <2>2, RulesTyped DEF Flow, OptionalStatus
  <2>5. n \in Request /\ n.doc \in Documents'
    BY <2>2, <2>3, <2>4 DEF Request
  <2>6. ThreadsOK'
    BY <1>1, <2>1, <2>3, <2>5, ThreadMoves
  <2>7. QED
    BY <2>3, <2>6 DEF TypeOK, TablesOK, ThreadsOK
<1>7. ASSUME NEW w \in Workers, NEW a \in OptionalArea, CommitArea(w, a)
      PROVE  TypeOK'
  <2> DEFINE r == requests[w]
  <2>1. /\ r.stage = "loaded" /\ UpdateDocument(r, r.status, a)
        /\ Become(w, Idle) /\ arrived' \in Nat /\ aborted' \in Nat
    BY <1>1, <1>7 DEF CommitArea
  <2>2. r.doc \in Documents /\ r.status \in Statuses /\ r.area \in OptionalArea
    BY <1>1, <2>1, RequestTyped DEF ThreadsOK
  <2>3. TablesOK' /\ Documents' = Documents
    BY <1>1, <2>1, <2>2, UpdateTyped
  <2>4. ThreadsOK'
    BY <1>1, <2>1, <2>3, IdleTyped, ThreadMoves
  <2>5. QED
    BY <2>3, <2>4 DEF TypeOK, TablesOK, ThreadsOK
<1>8. ASSUME NEW w \in Workers, CreateFlow(w)
      PROVE  TypeOK'
  <2> DEFINE r == requests[w]
  <2>1. /\ r.stage = "recording"
        /\ flows' = [flows EXCEPT ![r.doc] = Append(flows[r.doc], r.flow)]
        /\ Become(w, Idle) /\ arrived' \in Nat /\ aborted' \in Nat
        /\ UNCHANGED <<documents, versions>>
    BY <1>1, <1>8 DEF CreateFlow
  <2>2. r.doc \in Documents /\ r.flow \in Flow
    BY <1>1, <2>1, RequestTyped DEF ThreadsOK
  <2>3. Append(flows[r.doc], r.flow) \in Seq(Flow)
    BY <1>1, <2>2, AppendProperties DEF TablesOK
  <2>4. TablesOK' /\ Documents' = Documents
    BY <1>1, <2>1, <2>3 DEF TablesOK, Documents
  <2>5. ThreadsOK'
    BY <1>1, <2>1, <2>4, IdleTyped, ThreadMoves
  <2>6. QED
    BY <2>4, <2>5 DEF TypeOK, TablesOK, ThreadsOK
<1>9. CASE UNCHANGED vars
  BY <1>9 DEF TypeOK, vars, tables, Documents
<1>10. QED
  BY <1>2, <1>3, <1>4, <1>5, <1>6, <1>7, <1>8, <1>9 DEF Next, Rest, Arrive, Step

\* Type correctness of the tables and of what the threads hold, for any number
\* of threads, requests, areas and series.
THEOREM TypeCorrect == Spec => []TypeOK
<1>1. Init => TypeOK
  BY TypeInit
<1>2. TypeOK /\ [Next]_vars => TypeOK'
  BY TypeStep
<1>3. QED
  BY <1>1, <1>2, PTL DEF Spec
-----------------------------------------------------------------------------
(* The numbers of a series are consecutive.  By itself this is not inductive: *)
(* the thread that inserts could hold any number not yet taken.  It holds one *)
(* more than a count made earlier, and a count never exceeds a later one; so  *)
(* a number the unique index lets pass is the successor of the last.          *)

NumbersInv ==
  /\ NumbersAreConsecutive
  /\ \A w \in Workers, s \in Series :
       (requests[w].stage = "numbered" /\ requests[w].series = s)
         => requests[w].number <= Cardinality(InSeries(s)) + 1

\* A step that keeps every document in its series under its number.
LEMMA SameNumbers ==
  ASSUME Documents' = Documents, NumbersAreConsecutive,
         \A d \in Documents : /\ documents'[d].series = documents[d].series
                              /\ documents'[d].number = documents[d].number
  PROVE  /\ \A s : InSeries(s)' = InSeries(s)
         /\ NumbersAreConsecutive'
<1>1. ASSUME NEW s PROVE InSeries(s)' = InSeries(s)
  BY DEF InSeries
<1>2. ASSUME NEW s \in Series
      PROVE  /\ {documents'[d].number : d \in InSeries(s)'}
                  = 1 .. Cardinality(InSeries(s)')
             /\ \A d, e \in InSeries(s)' :
                  documents'[d].number = documents'[e].number => d = e
  <2>1. \A d \in InSeries(s) : documents'[d].number = documents[d].number
    BY DEF InSeries
  <2>2. {documents'[d].number : d \in InSeries(s)}
          = {documents[d].number : d \in InSeries(s)}
    BY <2>1
  <2>3. QED
    BY <1>1, <2>1, <2>2 DEF NumbersAreConsecutive
<1>3. NumbersAreConsecutive'
  BY <1>2 DEF NumbersAreConsecutive
<1>4. QED
  BY <1>1, <1>3

\* A new document whose number is not taken and at most the count plus one has
\* the next number of its series; no series gets smaller.
LEMMA NewNumberIsNext ==
  ASSUME documents \in Seq(Document), NumbersAreConsecutive,
         NEW s0 \in Series, NEW k \in Nat \ {0}, NEW n,
         Documents' = Documents \cup {n}, n \notin Documents,
         \A d \in Documents : documents'[d] = documents[d],
         documents'[n].series = s0, documents'[n].number = k,
         ~Taken(s0, k), k <= Cardinality(InSeries(s0)) + 1
  PROVE  /\ NumbersAreConsecutive'
         /\ \A s : /\ Cardinality(InSeries(s)) \in Nat
                   /\ Cardinality(InSeries(s)') \in Nat
                   /\ Cardinality(InSeries(s)) <= Cardinality(InSeries(s)')
<1>1. ASSUME NEW s
      PROVE  /\ IsFiniteSet(InSeries(s)) /\ Cardinality(InSeries(s)) \in Nat
             /\ n \notin InSeries(s)
  BY SeriesFinite DEF InSeries
<1>2. ASSUME NEW s, s # s0
      PROVE  InSeries(s)' = InSeries(s)
  BY <1>2 DEF InSeries
<1>3. InSeries(s0)' = InSeries(s0) \cup {n}
  BY DEF InSeries
<1>4. Cardinality(InSeries(s0)') = Cardinality(InSeries(s0)) + 1
  BY <1>1, <1>3, FS_AddElement
<1>5. k = Cardinality(InSeries(s0)) + 1
  <2>1. k \notin {documents[d].number : d \in InSeries(s0)}
    BY DEF Taken
  <2>2. k \notin 1 .. Cardinality(InSeries(s0))
    BY <2>1 DEF NumbersAreConsecutive
  <2>3. QED
    BY <1>1, <2>2
<1>6. ASSUME NEW s \in Series
      PROVE  /\ {documents'[d].number : d \in InSeries(s)'}
                  = 1 .. Cardinality(InSeries(s)')
             /\ \A d, e \in InSeries(s)' :
                  documents'[d].number = documents'[e].number => d = e
  <2>1. /\ {documents[d].number : d \in InSeries(s)} = 1 .. Cardinality(InSeries(s))
        /\ \A d, e \in InSeries(s) :
             documents[d].number = documents[e].number => d = e
    BY DEF NumbersAreConsecutive
  <2>2. \A d \in InSeries(s) : documents'[d] = documents[d]
    BY DEF InSeries
  <2>3. {documents'[d].number : d \in InSeries(s)}
          = {documents[d].number : d \in InSeries(s)}
    BY <2>2
  <2>4. CASE s # s0
    BY <1>2, <2>1, <2>2, <2>3, <2>4
  <2>5. CASE s = s0
    <3>1. {documents'[d].number : d \in InSeries(s)'}
            = {documents'[d].number : d \in InSeries(s)} \cup {k}
      BY <1>3, <2>5
    <3>2. 1 .. Cardinality(InSeries(s)') = (1 .. Cardinality(InSeries(s))) \cup {k}
      BY <1>1, <1>4, <1>5, <2>5
    <3>3. \A d \in InSeries(s) : documents[d].number # k
      BY <2>5 DEF Taken
    <3>4. QED
      BY <1>3, <2>1, <2>2, <2>3, <2>5, <3>1, <3>2, <3>3
  <2>6. QED
    BY <2>4, <2>5
<1>7. NumbersAreConsecutive'
  BY <1>6 DEF NumbersAreConsecutive
<1>8. QED
  BY <1>1, <1>2, <1>4, <1>7

\* A thread that leaves every document in its series under its number, and
\* takes up a number, if any, no higher than the count plus one.
LEMMA NumbersKept ==
  ASSUME TypeOK, NumbersInv, NEW w \in Workers, NEW r, Become(w, r),
         Documents' = Documents,
         \A d \in Documents : /\ documents'[d].series = documents[d].series
                              /\ documents'[d].number = documents[d].number,
         \A s \in Series : (r.stage = "numbered" /\ r.series = s)
                             => r.number <= Cardinality(InSeries(s)) + 1
  PROVE  NumbersInv'
<1>1. NumbersAreConsecutive' /\ \A s : InSeries(s)' = InSeries(s)
  BY SameNumbers DEF NumbersInv
<1>2. ASSUME NEW v \in Workers, NEW s \in Series,
             requests'[v].stage = "numbered", requests'[v].series = s
      PROVE  requests'[v].number <= Cardinality(InSeries(s)) + 1
  BY <1>2 DEF NumbersInv, TypeOK, Become
<1>3. QED
  BY <1>1, <1>2 DEF NumbersInv

\* An update writes neither series nor number.
LEMMA UpdateKeepsNumbers ==
  ASSUME TablesOK, NEW r, r.doc \in Documents, NEW to, NEW area,
         UpdateDocument(r, to, area)
  PROVE  \A d \in Documents : /\ documents'[d].series = documents[d].series
                              /\ documents'[d].number = documents[d].number
<1>1. \A d \in Documents : documents[d] \in Document
  BY SeriesFinite, ElementOfSeq DEF TablesOK
<1>2. QED
  BY <1>1 DEF UpdateDocument, Document, Documents

LEMMA NumbersStep ==
  ASSUME TypeOK, NumbersInv, [Next]_vars
  PROVE  NumbersInv'
<1> USE DEF Proceed
<1>1. /\ TablesOK /\ ThreadsOK
      /\ \A w \in Workers : requests[w] \in Request
      /\ \A s : Cardinality(InSeries(s)) \in Nat
  BY TypeSplit, SeriesFinite DEF ThreadsOK, TablesOK
<1>2. ASSUME NEW w \in Workers, NEW s \in Series, NEW a \in OptionalArea,
             AssignDocumentNumber(w, s, a)
      PROVE  NumbersInv'
  <2> DEFINE r == [stage |-> "numbered", series |-> s,
                   number |-> Cardinality(InSeries(s)) + 1, area |-> a]
  <2>1. Become(w, r) /\ UNCHANGED documents
    BY <1>2 DEF AssignDocumentNumber, tables
  <2>2. \A t \in Series : r.series = t => r.number <= Cardinality(InSeries(t)) + 1
    BY <1>1
  <2>3. Documents' = Documents
    BY <2>1 DEF Documents
  <2>4. QED
    BY <2>1, <2>2, <2>3, NumbersKept
<1>3. ASSUME NEW w \in Workers, NEW d \in Documents, SetDocument(w, d)
      PROVE  NumbersInv'
  <2>1. PICK r : Become(w, r) /\ r.stage = "loaded" /\ UNCHANGED documents
    BY <1>3 DEF SetDocument, tables
  <2>2. Documents' = Documents
    BY <2>1 DEF Documents
  <2>3. QED
    BY <2>1, <2>2, NumbersKept
<1>4. ASSUME NEW w \in Workers, InsertDocument(w)
      PROVE  NumbersInv'
  <2>1. PICK s0, k, n : /\ s0 = requests[w].series /\ k = requests[w].number
                        /\ n = Len(documents) + 1
    OBVIOUS
  <2>2. /\ s0 \in Series /\ k \in Nat \ {0} /\ ~Taken(s0, k)
        /\ k <= Cardinality(InSeries(s0)) + 1
    BY <1>1, <1>4, <2>1, RequestTyped DEF InsertDocument, NumbersInv
  <2>3. /\ Documents' = Documents \cup {n}
        /\ \A d \in Documents : documents'[d] = documents[d]
        /\ documents'[n].series = s0 /\ documents'[n].number = k
    <3>1. /\ Documents' = Documents \cup {Len(documents) + 1}
          /\ \A d \in Documents : documents'[d] = documents[d]
          /\ documents'[Len(documents) + 1] =
               [series |-> requests[w].series, number |-> requests[w].number,
                status |-> "registrado", area |-> requests[w].area]
      BY <1>1, <1>4, InsertTyped
    <3>2. QED
      BY <2>1, <3>1
  <2>4. n \notin Documents /\ documents \in Seq(Document)
    BY <1>1, <2>1, SeriesFinite DEF TablesOK
  <2>5. /\ NumbersAreConsecutive'
        /\ \A s : /\ Cardinality(InSeries(s)) \in Nat
                  /\ Cardinality(InSeries(s)') \in Nat
                  /\ Cardinality(InSeries(s)) <= Cardinality(InSeries(s)')
    BY <2>2, <2>3, <2>4, NewNumberIsNext DEF NumbersInv
  <2>6. ASSUME NEW v \in Workers, NEW s \in Series,
               requests'[v].stage = "numbered", requests'[v].series = s
        PROVE  requests'[v].number <= Cardinality(InSeries(s)') + 1
    <3>1. v # w /\ requests'[v] = requests[v]
      BY <1>1, <1>4, <2>6 DEF InsertDocument, Become, ThreadsOK
    <3>2. requests[v].number \in Nat
      BY <1>1, <2>6, <3>1, RequestTyped
    <3>3. requests[v].number <= Cardinality(InSeries(s)) + 1
      BY <2>6, <3>1 DEF NumbersInv
    <3>4. QED
      BY <2>5, <3>1, <3>2, <3>3
  <2>7. QED
    BY <2>5, <2>6 DEF NumbersInv
<1>5. ASSUME NEW w \in Workers,
             RaiseNotUnique(w) \/ Refuse(w) \/ Abort(w) \/ CreateFlow(w)
      PROVE  NumbersInv'
  <2>1. Become(w, Idle) /\ UNCHANGED documents
    BY <1>5 DEF RaiseNotUnique, Refuse, Abort, CreateFlow, tables
  <2>2. Documents' = Documents
    BY <2>1 DEF Documents
  <2>3. QED
    BY <2>1, <2>2, IdleTyped, NumbersKept
<1>6. ASSUME NEW w \in Workers, NEW r, NEW to \in Statuses,
             NEW area \in OptionalArea,
             requests[w].stage = "loaded", UpdateDocument(requests[w], to, area),
             Become(w, r), r.stage # "numbered"
      PROVE  NumbersInv'
  <2>1. /\ requests[w].doc \in Documents /\ requests[w].status \in Statuses
        /\ requests[w].area \in OptionalArea
    BY <1>1, <1>6, RequestTyped DEF ThreadsOK
  <2>2. Documents' = Documents
    BY <1>1, <1>6, <2>1, UpdateTyped
  <2>3. QED
    BY <1>1, <1>6, <2>1, <2>2, UpdateKeepsNumbers, NumbersKept
<1>7. ASSUME NEW w \in Workers, NEW to \in Statuses, NEW a \in OptionalArea,
             CommitTransition(w, to, a)
      PROVE  NumbersInv'
  <2> DEFINE area == IF a # None THEN a ELSE requests[w].area
  <2>1. requests[w].stage = "loaded" /\ UpdateDocument(requests[w], to, area)
    BY <1>7 DEF CommitTransition
  <2>2. area \in OptionalArea
    BY <1>1, <2>1, RequestTyped
  <2>3. PICK r : Become(w, r) /\ r.stage = "recording"
    BY <1>7 DEF CommitTransition
  <2>4. QED
    BY <1>6, <2>1, <2>2, <2>3
<1>8. ASSUME NEW w \in Workers, NEW a \in OptionalArea, CommitArea(w, a)
      PROVE  NumbersInv'
  <2>1. /\ requests[w].stage = "loaded"
        /\ UpdateDocument(requests[w], requests[w].status, a)
        /\ Become(w, Idle)
    BY <1>8 DEF CommitArea
  <2>2. requests[w].status \in Statuses
    BY <1>1, <2>1, RequestTyped
  <2>3. QED
    BY <1>6, <2>1, <2>2, IdleTyped
<1>9. CASE UNCHANGED vars
  BY <1>9 DEF NumbersInv, NumbersAreConsecutive, InSeries, Documents, vars, tables
<1>10. QED
  BY <1>2, <1>3, <1>4, <1>5, <1>7, <1>8, <1>9 DEF Next, Rest, Arrive, Step

LEMMA NumbersInit == Init => NumbersInv
<1> SUFFICES ASSUME Init PROVE NumbersInv
  OBVIOUS
<1>1. \A s : InSeries(s) = {}
  BY DEF Init, InSeries, Documents
<1>2. \A s : Cardinality(InSeries(s)) = 0
  BY <1>1, FS_EmptySet
<1>3. QED
  BY <1>1, <1>2 DEF Init, NumbersInv, NumbersAreConsecutive, Idle

\* Art. 5-b of the numbering rule, for any number of threads: the numbers of a
\* series are 1, 2, ... without a gap or a repetition, although they are counted
\* and inserted in separate statements.
THEOREM NumbersConsecutive == Spec => []NumbersAreConsecutive
<1>1. Init => NumbersInv
  BY NumbersInit
<1>2. TypeOK /\ NumbersInv /\ [Next]_vars => NumbersInv'
  BY NumbersStep
<1>3. NumbersInv => NumbersAreConsecutive
  BY DEF NumbersInv
<1>4. QED
  BY <1>1, <1>2, <1>3, TypeCorrect, PTL DEF Spec
-----------------------------------------------------------------------------
(* The histories: flow entries against PaperTrail versions, and what a step may
   not change of the past. *)

\* A longer trail attests what a shorter one did.
LEMMA AttestedKept ==
  ASSUME NEW vs \in Seq(Version), NEW v \in Version, NEW f, Attested(vs, f)
  PROVE  Attested(Append(vs, v), f)
<1> DEFINE ws == Append(vs, v)
<1>1. PICK i \in StatusChanges(vs) :
        /\ vs[i].from = f.from /\ vs[i].to = f.to
        /\ vs[i].from_area = f.from_area
        /\ f.to_area \in {vs[i].to_area, None}
  BY DEF Attested
<1>2. i \in 1 .. Len(vs) /\ DOMAIN ws = 1 .. Len(vs) + 1 /\ ws[i] = vs[i]
  BY AppendProperties, LenProperties DEF StatusChanges
<1>3. i \in StatusChanges(ws)
  BY <1>1, <1>2, LenProperties DEF StatusChanges
<1>4. QED
  BY <1>1, <1>2, <1>3 DEF Attested

\* A trail attests the legal flow its last version is the change of.
LEMMA AttestedByLast ==
  ASSUME NEW vs \in Seq(Version), NEW v \in Version, NEW f, LegalFlow(f),
         v.from = f.from, v.to = f.to, f.from # f.to,
         v.from_area = f.from_area, f.to_area \in {v.to_area, None}
  PROVE  Attested(Append(vs, v), f)
<1> DEFINE ws == Append(vs, v)
           n == Len(vs) + 1
<1>1. n \in DOMAIN ws /\ ws[n] = v
  BY AppendProperties, LenProperties
<1>2. n \in StatusChanges(ws)
  BY <1>1 DEF StatusChanges
<1>3. QED
  BY <1>1, <1>2 DEF Attested

\* How an update extends the trails: by one version, of one document.
LEMMA UpdateExtends ==
  ASSUME TablesOK, NEW r, r.doc \in Documents, r.status \in Statuses,
         r.area \in OptionalArea, NEW to \in Statuses, NEW area \in OptionalArea,
         UpdateDocument(r, to, area)
  PROVE  LET v == [from |-> r.status, to |-> to,
                   from_area |-> r.area, to_area |-> area]
         IN  /\ v \in Version
             /\ versions'[r.doc] = Append(versions[r.doc], v)
             /\ \A d \in Documents \ {r.doc} : versions'[d] = versions[d]
             /\ flows' = flows /\ Documents' = Documents
<1>1. Documents' = Documents
  BY UpdateTyped
<1>2. QED
  BY <1>1 DEF UpdateDocument, TablesOK, Version, OptionalStatus

\* Steps that leave histories alone and hand no new entry to a thread.
LEMMA AttestedQuiet ==
  ASSUME TypeOK, FlowsAreAttested, NEW w \in Workers, NEW r, Become(w, r),
         r.stage # "recording", Documents' = Documents, UNCHANGED <<flows, versions>>
  PROVE  FlowsAreAttested'
<1>1. \A d \in Documents' : \A i \in DOMAIN flows'[d] :
        Attested(versions'[d], flows'[d][i])
  BY DEF FlowsAreAttested
<1>2. ASSUME NEW v \in Workers, requests'[v].stage = "recording"
      PROVE  Attested(versions'[requests'[v].doc], requests'[v].flow)
  <2>1. requests'[v] = requests[v]
    BY <1>2 DEF Become, TypeOK
  <2>2. QED
    BY <1>2, <2>1 DEF FlowsAreAttested
<1>3. QED
  BY <1>1, <1>2 DEF FlowsAreAttested

\* An update of a document whose entry, if one is due, is the change it makes.
LEMMA AttestedUpdate ==
  ASSUME TypeOK, FlowsAreAttested, NEW w \in Workers, NEW r, Become(w, r),
         NEW to \in Statuses, NEW area \in OptionalArea,
         requests[w].stage = "loaded", UpdateDocument(requests[w], to, area),
         r.stage = "recording" =>
           /\ r.doc = requests[w].doc
           /\ LegalFlow(r.flow)
           /\ r.flow.from = requests[w].status /\ r.flow.to = to
           /\ r.flow.from # r.flow.to
           /\ r.flow.from_area = requests[w].area
           /\ r.flow.to_area \in {area, None}
  PROVE  FlowsAreAttested'
<1> DEFINE v == [from |-> requests[w].status, to |-> to,
                 from_area |-> requests[w].area, to_area |-> area]
           d0 == requests[w].doc
<1>1. /\ TablesOK /\ d0 \in Documents
      /\ requests[w].status \in Statuses /\ requests[w].area \in OptionalArea
  BY TypeSplit, RequestTyped DEF ThreadsOK
<1>2. /\ v \in Version
      /\ versions'[d0] = Append(versions[d0], v)
      /\ \A d \in Documents \ {d0} : versions'[d] = versions[d]
      /\ flows' = flows /\ Documents' = Documents
  BY <1>1, UpdateExtends
<1>3. \A d \in Documents : versions[d] \in Seq(Version)
  BY <1>1 DEF TablesOK
<1> HIDE DEF v
<1>4. ASSUME NEW d \in Documents, NEW f, Attested(versions[d], f)
      PROVE  Attested(versions'[d], f)
  BY <1>2, <1>3, <1>4, AttestedKept
<1>5. \A d \in Documents' : \A i \in DOMAIN flows'[d] :
        Attested(versions'[d], flows'[d][i])
  BY <1>2, <1>4 DEF FlowsAreAttested
<1>6. ASSUME NEW u \in Workers, requests'[u].stage = "recording"
      PROVE  Attested(versions'[requests'[u].doc], requests'[u].flow)
  <2>1. CASE u = w
    <3>1. requests'[u] = r
      BY <2>1 DEF Become, TypeOK
    <3>2. Attested(Append(versions[d0], v), r.flow)
      BY <1>1, <1>2, <1>3, <1>6, <3>1, AttestedByLast DEF v
    <3>3. QED
      BY <1>2, <1>6, <3>1, <3>2
  <2>2. CASE u # w
    <3>1. requests'[u] = requests[u] /\ requests[u].doc \in Documents
      BY <1>6, <2>2 DEF Become, TypeOK
    <3>2. QED
      BY <1>4, <1>6, <3>1 DEF FlowsAreAttested
  <2>3. QED
    BY <2>1, <2>2
<1>7. QED
  BY <1>5, <1>6 DEF FlowsAreAttested

\* A registration: the first version attests the first entry.
LEMMA AttestedInsert ==
  ASSUME TypeOK, FlowsAreAttested, NEW w \in Workers, InsertDocument(w)
  PROVE  FlowsAreAttested'
<1> DEFINE n == Len(documents)
           v == [from |-> None, to |-> "registrado",
                 from_area |-> None, to_area |-> requests[w].area]
           f == [action |-> "registrado", from |-> None, to |-> "registrado",
                 from_area |-> None, to_area |-> requests[w].area]
           r == [stage |-> "recording", doc |-> n + 1, flow |-> f]
<1>1. TablesOK /\ requests[w] \in Request
  BY TypeSplit DEF ThreadsOK
<1>2. Documents = 1 .. n /\ n \in Nat /\ Documents' = Documents \cup {n + 1}
  BY <1>1, InsertTyped, SeriesFinite DEF TablesOK
<1>3. /\ flows' = Append(flows, <<>>) /\ versions' = Append(versions, <<v>>)
      /\ Become(w, r)
  BY DEF InsertDocument, Proceed
<1>4. requests[w].area \in OptionalArea
  BY <1>1, RequestTyped DEF InsertDocument
<1>5. v \in Version /\ <<v>> \in Seq(Version) /\ <<>> \in Seq(Flow) /\ <<>> \in Seq(Version)
  BY <1>4, EmptySeq DEF Version, OptionalStatus, OptionalArea, Statuses
<1>6. Attested(<<v>>, f)
  BY DEF Attested, StatusChanges, LegalFlow, None
<1> HIDE DEF v, f
<1>7. flows \in [1 .. n -> Seq(Flow)] /\ versions \in [1 .. n -> Seq(Version)]
  BY <1>1, <1>2 DEF TablesOK
<1>8. (\A d \in 1 .. n : flows'[d] = flows[d]) /\ flows'[n + 1] = <<>>
  BY <1>2, <1>3, <1>5, <1>7, AppendRow
<1>9. (\A d \in 1 .. n : versions'[d] = versions[d]) /\ versions'[n + 1] = <<v>>
  BY <1>2, <1>3, <1>5, <1>7, AppendRow
<1>10. ASSUME NEW d \in Documents', NEW i \in DOMAIN flows'[d]
       PROVE  Attested(versions'[d], flows'[d][i])
  <2>1. d # n + 1
    BY <1>8
  <2>2. QED
    BY <1>2, <1>8, <1>9, <2>1 DEF FlowsAreAttested
<1>11. ASSUME NEW u \in Workers, requests'[u].stage = "recording"
       PROVE  Attested(versions'[requests'[u].doc], requests'[u].flow)
  <2>1. CASE u = w
    <3>1. requests'[u] = r
      BY <1>3, <2>1 DEF Become, TypeOK
    <3>2. QED
      BY <1>6, <1>9, <3>1
  <2>2. CASE u # w
    <3>1. requests'[u] = requests[u] /\ requests[u].doc \in 1 .. n
      BY <1>2, <1>3, <1>11, <2>2 DEF Become, TypeOK
    <3>2. QED
      BY <1>9, <1>11, <3>1 DEF FlowsAreAttested
  <2>3. QED
    BY <2>1, <2>2
<1>12. QED
  BY <1>10, <1>11 DEF FlowsAreAttested

\* The entry a thread held becomes the last of its document.
LEMMA AttestedCreate ==
  ASSUME TypeOK, FlowsAreAttested, NEW w \in Workers, CreateFlow(w)
  PROVE  FlowsAreAttested'
<1>1. PICK d0, f : d0 = requests[w].doc /\ f = requests[w].flow
  OBVIOUS
<1>2. /\ requests[w].stage = "recording"
      /\ flows' = [flows EXCEPT ![d0] = Append(flows[d0], f)]
      /\ versions' = versions /\ Documents' = Documents
      /\ Become(w, Idle)
  BY <1>1 DEF CreateFlow, Proceed, Documents
<1>3. /\ d0 \in Documents /\ f \in Flow /\ Attested(versions[d0], f)
  BY <1>1, <1>2, RequestTyped DEF TypeOK, FlowsAreAttested
<1>4. ASSUME NEW d \in Documents, NEW i \in DOMAIN flows'[d]
      PROVE  Attested(versions[d], flows'[d][i])
  <2>1. flows \in [Documents -> Seq(Flow)] /\ flows[d] \in Seq(Flow)
    BY DEF TypeOK
  <2>2. CASE d # d0
    <3>1. flows'[d] = flows[d]
      BY <1>2, <2>1, <2>2
    <3>2. QED
      BY <1>4, <3>1 DEF FlowsAreAttested
  <2>3. CASE d = d0
    <3>1. flows'[d] = Append(flows[d], f)
      BY <1>2, <1>3, <2>1, <2>3
    <3>2. /\ i \in 1 .. Len(flows[d]) + 1
          /\ i \in 1 .. Len(flows[d]) => flows'[d][i] = flows[d][i]
          /\ i = Len(flows[d]) + 1 => flows'[d][i] = f
      BY <1>3, <2>1, <3>1, AppendProperties, LenProperties
    <3>3. \A j \in 1 .. Len(flows[d]) : Attested(versions[d], flows[d][j])
      BY <2>1, LenProperties DEF FlowsAreAttested
    <3>4. QED
      BY <1>3, <2>1, <2>3, <3>2, <3>3, LenProperties
  <2>4. QED
    BY <2>2, <2>3
<1>5. ASSUME NEW u \in Workers, requests'[u].stage = "recording"
      PROVE  Attested(versions'[requests'[u].doc], requests'[u].flow)
  <2>1. requests'[u] = requests[u]
    BY <1>2, <1>5, IdleTyped DEF Become, TypeOK
  <2>2. QED
    BY <1>2, <1>5, <2>1 DEF FlowsAreAttested
<1>6. QED
  BY <1>2, <1>4, <1>5 DEF FlowsAreAttested

LEMMA AttestedStep ==
  ASSUME TypeOK, FlowsAreAttested, [Next]_vars
  PROVE  FlowsAreAttested'
<1> USE DEF Proceed
<1>1. ASSUME NEW w \in Workers, NEW s \in Series, NEW a \in OptionalArea,
             AssignDocumentNumber(w, s, a)
      PROVE  FlowsAreAttested'
  <2>1. PICK r : Become(w, r) /\ r.stage = "numbered" /\ UNCHANGED tables
    BY <1>1 DEF AssignDocumentNumber
  <2>2. QED
    BY <2>1, AttestedQuiet DEF tables, Documents
<1>2. ASSUME NEW w \in Workers, NEW d \in Documents, SetDocument(w, d)
      PROVE  FlowsAreAttested'
  <2>1. PICK r : Become(w, r) /\ r.stage = "loaded" /\ UNCHANGED tables
    BY <1>2 DEF SetDocument
  <2>2. QED
    BY <2>1, AttestedQuiet DEF tables, Documents
<1>3. ASSUME NEW w \in Workers, RaiseNotUnique(w) \/ Refuse(w) \/ Abort(w)
      PROVE  FlowsAreAttested'
  <2>1. Become(w, Idle) /\ UNCHANGED tables
    BY <1>3 DEF RaiseNotUnique, Refuse, Abort
  <2>2. QED
    BY <2>1, IdleTyped, AttestedQuiet DEF tables, Documents
<1>4. ASSUME NEW w \in Workers, NEW to \in Statuses, NEW a \in OptionalArea,
             CommitTransition(w, to, a)
      PROVE  FlowsAreAttested'
  <2> DEFINE q == requests[w]
             area == IF a # None THEN a ELSE q.area
             f == [action |-> ActionFor(q.status, to), from |-> q.status,
                   to |-> to, from_area |-> q.area, to_area |-> a]
             r == [stage |-> "recording", doc |-> q.doc, flow |-> f]
  <2>1. /\ q.stage = "loaded" /\ ValidTransition(q.status, to)
        /\ RequiresArea(to) => a # None
        /\ UpdateDocument(q, to, area) /\ Become(w, r)
    BY <1>4 DEF CommitTransition
  <2>2. area \in OptionalArea
    BY <2>1, RequestTyped DEF TypeOK
  <2>3. LegalFlow(f) /\ f.from # f.to /\ f.to_area \in {area, None}
    BY <2>1, RulesTyped DEF LegalFlow
  <2>4. QED
    BY <2>1, <2>2, <2>3, AttestedUpdate
<1>5. ASSUME NEW w \in Workers, NEW a \in OptionalArea, CommitArea(w, a)
      PROVE  FlowsAreAttested'
  <2>1. /\ requests[w].stage = "loaded" /\ Become(w, Idle)
        /\ UpdateDocument(requests[w], requests[w].status, a)
    BY <1>5 DEF CommitArea
  <2>2. requests[w].status \in Statuses
    BY <2>1, RequestTyped DEF TypeOK
  <2>3. QED
    BY <2>1, <2>2, IdleTyped, AttestedUpdate
<1>6. CASE UNCHANGED vars
  BY <1>6 DEF FlowsAreAttested, vars, tables, Documents
<1>7. QED
  BY <1>1, <1>2, <1>3, <1>4, <1>5, <1>6, AttestedInsert, AttestedCreate
     DEF Next, Rest, Arrive, Step

\* Every flow entry, written or about to be, is legal and has its PaperTrail
\* version, for any number of threads and whatever is cut short.
THEOREM FlowsAttested == Spec => []FlowsAreAttested
<1>1. Init => FlowsAreAttested
  BY DEF Init, FlowsAreAttested, Documents, Idle
<1>2. TypeOK /\ FlowsAreAttested /\ [Next]_vars => FlowsAreAttested'
  BY AttestedStep
<1>3. QED
  BY <1>1, <1>2, TypeCorrect, PTL DEF Spec
-----------------------------------------------------------------------------
(* The past is immutable. *)

LEMMA AppendedOne ==
  ASSUME NEW S, NEW old \in Seq(S), NEW e \in S
  PROVE  Appended(old, Append(old, e)) /\ Append(old, e) # old
<1>1. /\ Append(old, e) \in Seq(S) /\ Len(Append(old, e)) = Len(old) + 1
      /\ \A i \in 1 .. Len(old) : Append(old, e)[i] = old[i]
  BY AppendProperties
<1>2. Len(old) \in Nat
  BY LenProperties
<1>3. SubSeq(Append(old, e), 1, Len(old)) = old
  <2> DEFINE new == Append(old, e)
             sub == SubSeq(new, 1, Len(old))
  <2>1. \A i \in 1 .. Len(old) : new[i] \in S
    BY <1>1, ElementOfSeq
  <2> HIDE DEF new
  <2>2. /\ sub \in Seq(S)
        /\ Len(sub) = (IF 1 <= Len(old) THEN Len(old) - 1 + 1 ELSE 0)
        /\ \A i \in 1 .. Len(old) - 1 + 1 : sub[i] = new[1 + i - 1]
    BY <1>2, <2>1, SubSeqProperties
  <2>3. Len(sub) = Len(old) /\ \A i \in 1 .. Len(sub) : sub[i] = old[i]
    BY <1>1, <1>2, <2>2 DEF new
  <2>4. QED
    BY <2>2, <2>3, SeqEqual DEF new
<1>4. Append(old, e) # old
  <2> DEFINE new == Append(old, e)
  <2>1. Len(new) = Len(old) + 1
    BY <1>1
  <2> HIDE DEF new
  <2>2. new # old
    BY <1>2, <2>1
  <2>3. QED
    BY <2>2 DEF new
<1>5. QED
  BY <1>1, <1>3, <1>4 DEF Appended

\* What PastIsImmutable says of document d.
Immutable(d) ==
  /\ d \in Documents'
  /\ documents'[d].number = documents[d].number
  /\ documents'[d].series = documents[d].series
  /\ Appended(flows[d], flows'[d])
  /\ Appended(versions[d], versions'[d])
  /\ documents'[d] # documents[d] => versions'[d] # versions[d]

\* An update adds one version to the document it changes.
LEMMA ImmutableUpdate ==
  ASSUME TypeOK, NEW w \in Workers, requests[w].stage = "loaded",
         NEW to \in Statuses, NEW area \in OptionalArea,
         UpdateDocument(requests[w], to, area), NEW d \in Documents
  PROVE  Immutable(d)
<1> DEFINE r == requests[w]
           v == [from |-> r.status, to |-> to,
                 from_area |-> r.area, to_area |-> area]
<1>1. TablesOK /\ r.doc \in Documents /\ r.status \in Statuses /\ r.area \in OptionalArea
  BY TypeSplit, RequestTyped DEF ThreadsOK
<1>2. /\ v \in Version
      /\ versions'[r.doc] = Append(versions[r.doc], v)
      /\ \A e \in Documents \ {r.doc} : versions'[e] = versions[e]
      /\ flows' = flows /\ Documents' = Documents
  BY <1>1, UpdateExtends
<1>3. documents'[d].series = documents[d].series /\ documents'[d].number = documents[d].number
  BY <1>1, UpdateKeepsNumbers
<1> HIDE DEF v
<1>4. versions[d] \in Seq(Version)
  BY <1>1 DEF TablesOK
<1>5. CASE d = r.doc
  <2>1. Appended(versions[d], versions'[d]) /\ versions'[d] # versions[d]
    BY <1>2, <1>4, <1>5, AppendedOne
  <2>2. QED
    BY <1>2, <1>3, <2>1 DEF Immutable, Appended
<1>6. CASE d # r.doc
  <2>1. documents'[d] = documents[d]
    BY <1>6 DEF UpdateDocument, Documents
  <2>2. QED
    BY <1>2, <1>3, <1>6, <2>1 DEF Immutable, Appended
<1>7. QED
  BY <1>5, <1>6

LEMMA ImmutableStep ==
  ASSUME TypeOK, [Next]_vars, NEW d \in Documents
  PROVE  Immutable(d)
<1> USE DEF Proceed
<1>1. TablesOK /\ \A w \in Workers : requests[w] \in Request
  BY TypeSplit DEF ThreadsOK
<1>2. CASE UNCHANGED tables
  BY <1>2 DEF Immutable, Appended, tables, Documents
<1>3. ASSUME NEW w \in Workers, InsertDocument(w)
      PROVE  Immutable(d)
  <2> DEFINE v == [from |-> None, to |-> "registrado",
                   from_area |-> None, to_area |-> requests[w].area]
             n == Len(documents)
  <2>1. /\ Documents' = Documents \cup {n + 1} /\ Documents = 1 .. n /\ n \in Nat
        /\ documents'[d] = documents[d]
    BY <1>1, <1>3, InsertTyped, SeriesFinite DEF TablesOK
  <2>2. flows' = Append(flows, <<>>) /\ versions' = Append(versions, <<v>>)
    BY <1>3 DEF InsertDocument
  <2>3. requests[w].area \in OptionalArea
    BY <1>1, <1>3, RequestTyped DEF InsertDocument
  <2>4. <<v>> \in Seq(Version) /\ <<>> \in Seq(Flow)
    BY <2>3 DEF Version, OptionalStatus, OptionalArea, Statuses
  <2> HIDE DEF v
  <2>5. flows \in [1 .. n -> Seq(Flow)] /\ versions \in [1 .. n -> Seq(Version)]
    BY <1>1, <2>1 DEF TablesOK
  <2>6. flows'[d] = flows[d] /\ versions'[d] = versions[d]
    <3>1. flows'[d] = flows[d]
      BY <2>1, <2>2, <2>4, <2>5, AppendRow
    <3>2. versions'[d] = versions[d]
      BY <2>1, <2>2, <2>4, <2>5, AppendRow
    <3>3. QED
      BY <3>1, <3>2
  <2>7. QED
    BY <2>1, <2>6 DEF Immutable, Appended
<1>4. ASSUME NEW w \in Workers, NEW to \in Statuses, NEW a \in OptionalArea,
             CommitTransition(w, to, a)
      PROVE  Immutable(d)
  <2> DEFINE area == IF a # None THEN a ELSE requests[w].area
  <2>1. requests[w].stage = "loaded" /\ UpdateDocument(requests[w], to, area)
    BY <1>4 DEF CommitTransition
  <2>2. area \in OptionalArea
    BY <1>1, <2>1, RequestTyped
  <2>3. QED
    BY <2>1, <2>2, ImmutableUpdate
<1>5. ASSUME NEW w \in Workers, NEW a \in OptionalArea, CommitArea(w, a)
      PROVE  Immutable(d)
  <2>1. /\ requests[w].stage = "loaded"
        /\ UpdateDocument(requests[w], requests[w].status, a)
    BY <1>5 DEF CommitArea
  <2>2. requests[w].status \in Statuses
    BY <1>1, <2>1, RequestTyped
  <2>3. QED
    BY <2>1, <2>2, ImmutableUpdate
<1>6. ASSUME NEW w \in Workers, CreateFlow(w)
      PROVE  Immutable(d)
  <2>1. PICK d0, f : d0 = requests[w].doc /\ f = requests[w].flow
    OBVIOUS
  <2>2. /\ flows' = [flows EXCEPT ![d0] = Append(flows[d0], f)]
        /\ UNCHANGED <<documents, versions>>
    BY <1>6, <2>1 DEF CreateFlow
  <2>3. f \in Flow
    BY <1>1, <1>6, <2>1, RequestTyped DEF CreateFlow
  <2>4. flows \in [Documents -> Seq(Flow)]
    BY <1>1 DEF TablesOK
  <2>5. Appended(flows[d], flows'[d])
    <3>1. CASE d = d0
      BY <2>2, <2>3, <2>4, <3>1, AppendedOne
    <3>2. CASE d # d0
      BY <2>2, <2>4, <3>2 DEF Appended
    <3>3. QED
      BY <3>1, <3>2
  <2>6. QED
    BY <2>2, <2>5 DEF Immutable, Appended, Documents
<1>7. QED
  BY <1>2, <1>3, <1>4, <1>5, <1>6
     DEF Next, Rest, Arrive, Step, AssignDocumentNumber, SetDocument,
         RaiseNotUnique, Refuse, Abort, vars

\* Numbers and series never change, histories only grow at the end, and no row
\* changes without a version: for any number of threads.
THEOREM PastImmutable == Spec => PastIsImmutable
<1>1. TypeOK /\ [Next]_vars =>
        [\A d \in Documents :
           /\ d \in Documents'
           /\ documents'[d].number = documents[d].number
           /\ documents'[d].series = documents[d].series
           /\ Appended(flows[d], flows'[d])
           /\ Appended(versions[d], versions'[d])
           /\ documents'[d] # documents[d] => versions'[d] # versions[d]]_vars
  BY ImmutableStep DEF Immutable
<1>2. QED
  BY <1>1, TypeCorrect, PTL DEF Spec, PastIsImmutable
-----------------------------------------------------------------------------
(* Counting.  A transition adds a version and a thread that is to write the   *)
(* entry, the entry takes the place of the thread, and a thread that is cut   *)
(* short leaves one version more than there are entries.                      *)

\* The entries of d, written or about to be.
Known(d) == Len(flows[d]) + Cardinality(Recording(d))

\* What ChangesAreRecorded says of document d.
Counted(d) == Cardinality(StatusVersions(d)) \in Known(d) .. Known(d) + aborted

\* What is counted is finite.
LEMMA CountsTyped ==
  ASSUME TypeOK, NEW d \in Documents
  PROVE  /\ versions[d] \in Seq(Version) /\ flows[d] \in Seq(Flow)
         /\ Len(flows[d]) \in Nat
         /\ IsFiniteSet(Recording(d)) /\ Cardinality(Recording(d)) \in Nat
         /\ IsFiniteSet(StatusVersions(d)) /\ Cardinality(StatusVersions(d)) \in Nat
<1>1. versions[d] \in Seq(Version) /\ flows[d] \in Seq(Flow)
  BY DEF TypeOK
<1>2. DOMAIN versions[d] = 1 .. Len(versions[d]) /\ Len(versions[d]) \in Nat
      /\ Len(flows[d]) \in Nat
  BY <1>1, LenProperties
<1>3. IsFiniteSet(DOMAIN versions[d])
  BY <1>2, FS_Interval
<1>4. Recording(d) \subseteq Workers /\ StatusVersions(d) \subseteq DOMAIN versions[d]
  BY DEF Recording, StatusVersions, StatusChanges
<1>5. QED
  BY <1>1, <1>2, <1>3, <1>4, WorkersAssumption, FS_Subset, FS_CardinalityType

\* The threads that are to write an entry of d, after a step of w.
LEMMA RecordingMoves ==
  ASSUME TypeOK, NEW w \in Workers, NEW r, Become(w, r), NEW d
  PROVE  Recording(d)' = IF r.stage = "recording" /\ r.doc = d
                         THEN Recording(d) \cup {w} ELSE Recording(d) \ {w}
<1>1. requests'[w] = r /\ \A u \in Workers \ {w} : requests'[u] = requests[u]
  BY DEF TypeOK, Become
<1>2. QED
  BY <1>1 DEF Recording

\* A version more is a status change more when its status differs.
LEMMA ChangesAppended ==
  ASSUME NEW vs \in Seq(Version), NEW v \in Version
  PROVE  /\ v.from = v.to => StatusChanges(Append(vs, v)) = StatusChanges(vs)
         /\ v.from # v.to =>
              StatusChanges(Append(vs, v)) = StatusChanges(vs) \cup {Len(vs) + 1}
         /\ Len(vs) + 1 \notin StatusChanges(vs)
<1> DEFINE ws == Append(vs, v)
           n == Len(vs)
<1>1. n \in Nat /\ DOMAIN vs = 1 .. n
  BY LenProperties
<1>2. ws \in Seq(Version) /\ Len(ws) = n + 1 /\ ws[n + 1] = v
      /\ \A i \in 1 .. n : ws[i] = vs[i]
  BY AppendProperties
<1>3. DOMAIN ws = 1 .. n + 1
  BY <1>2, LenProperties
<1> HIDE DEF ws, n
<1>4. QED
  BY <1>1, <1>2, <1>3 DEF StatusChanges, ws, n

\* A document none of whose histories changes, and which no thread takes up or
\* leaves.
LEMMA CountedKept ==
  ASSUME NEW d \in Documents, Counted(d), aborted' = aborted,
         flows'[d] = flows[d], versions'[d] = versions[d], Recording(d)' = Recording(d)
  PROVE  Counted(d)'
<1>1. StatusVersions(d)' = StatusVersions(d)
  BY DEF StatusVersions
<1>2. Known(d)' = Known(d)
  BY DEF Known
<1>3. QED
  BY <1>1, <1>2 DEF Counted

\* An update of the loaded document: a change of status has a thread that is to
\* write its entry.
LEMMA CountedUpdate ==
  ASSUME TypeOK, NEW w \in Workers, requests[w].stage = "loaded", NEW r, Become(w, r),
         NEW to \in Statuses, NEW area \in OptionalArea,
         UpdateDocument(requests[w], to, area), aborted' = aborted,
         r.stage \in {"recording", "idle"},
         r.stage = "recording" <=> requests[w].status # to,
         r.stage = "recording" => r.doc = requests[w].doc,
         NEW d \in Documents, Counted(d)
  PROVE  Counted(d)'
<1> DEFINE q == requests[w]
           v == [from |-> q.status, to |-> to, from_area |-> q.area, to_area |-> area]
<1>1. TablesOK /\ q.doc \in Documents /\ q.status \in Statuses /\ q.area \in OptionalArea
  BY TypeSplit, RequestTyped DEF ThreadsOK
<1>2. /\ v \in Version
      /\ versions'[q.doc] = Append(versions[q.doc], v)
      /\ \A e \in Documents \ {q.doc} : versions'[e] = versions[e]
      /\ flows' = flows /\ Documents' = Documents
  BY <1>1, UpdateExtends
<1>3. v.from = q.status /\ v.to = to
  OBVIOUS
<1> HIDE DEF v
<1>4. w \notin Recording(d)
  BY DEF Recording
<1>5. Recording(d)' = IF r.stage = "recording" /\ r.doc = d
                      THEN Recording(d) \cup {w} ELSE Recording(d) \ {w}
  BY RecordingMoves
<1>6. CASE d # q.doc
  BY <1>2, <1>4, <1>5, <1>6, CountedKept
<1>7. CASE d = q.doc
  <2>1. /\ versions[d] \in Seq(Version) /\ Len(flows[d]) \in Nat
        /\ IsFiniteSet(Recording(d)) /\ Cardinality(Recording(d)) \in Nat
        /\ IsFiniteSet(StatusVersions(d)) /\ Cardinality(StatusVersions(d)) \in Nat
    BY CountsTyped
  <2>2. aborted \in Nat
    BY DEF TypeOK
  <2>3. StatusVersions(d)' = StatusChanges(Append(versions[d], v))
    BY <1>2, <1>7 DEF StatusVersions
  <2>4. CASE q.status = to
    <3>1. StatusVersions(d)' = StatusVersions(d)
      BY <1>2, <1>3, <2>1, <2>3, <2>4, ChangesAppended DEF StatusVersions
    <3>2. Recording(d)' = Recording(d)
      BY <1>4, <1>5, <2>4
    <3>3. QED
      BY <1>2, <3>1, <3>2 DEF Counted, Known
  <2>5. CASE q.status # to
    <3>1. /\ StatusVersions(d)' = StatusVersions(d) \cup {Len(versions[d]) + 1}
          /\ Len(versions[d]) + 1 \notin StatusVersions(d)
      BY <1>2, <1>3, <2>1, <2>3, <2>5, ChangesAppended DEF StatusVersions
    <3>2. Recording(d)' = Recording(d) \cup {w}
      BY <1>5, <1>7, <2>5
    <3>3. Cardinality(StatusVersions(d)') = Cardinality(StatusVersions(d)) + 1
      <4>1. PICK k : k = Len(versions[d]) + 1
        OBVIOUS
      <4>2. k \notin StatusVersions(d) /\ StatusVersions(d)' = StatusVersions(d) \cup {k}
        BY <3>1, <4>1
      <4>3. Cardinality(StatusVersions(d) \cup {k}) = Cardinality(StatusVersions(d)) + 1
        BY <2>1, <4>2, FS_AddElement
      <4>4. QED
        BY <4>2, <4>3
    <3>4. Cardinality(Recording(d)') = Cardinality(Recording(d)) + 1
      <4>1. w \notin Recording(d) /\ IsFiniteSet(Recording(d))
        BY <1>4, <2>1
      <4>2. Cardinality(Recording(d) \cup {w}) = Cardinality(Recording(d)) + 1
        BY <4>1, FS_AddElement
      <4>3. QED
        BY <3>2, <4>2
    <3>5. flows'[d] = flows[d]
      BY <1>2
    <3>6. QED
      BY <2>1, <2>2, <3>3, <3>4, <3>5 DEF Counted, Known
  <2>6. QED
    BY <2>4, <2>5
<1>8. QED
  BY <1>6, <1>7

\* A registration: one version, no entry, and the thread that is to write it.
LEMMA CountedInsert ==
  ASSUME TypeOK, ChangesAreRecorded, NEW w \in Workers, InsertDocument(w),
         NEW d \in Documents'
  PROVE  Counted(d)'
<1> DEFINE n == Len(documents)
           v == [from |-> None, to |-> "registrado",
                 from_area |-> None, to_area |-> requests[w].area]
           f == [action |-> "registrado", from |-> None, to |-> "registrado",
                 from_area |-> None, to_area |-> requests[w].area]
           r == [stage |-> "recording", doc |-> n + 1, flow |-> f]
<1>1. TablesOK /\ requests[w] \in Request /\ requests[w].stage = "numbered"
  BY TypeSplit DEF ThreadsOK, InsertDocument
<1>2. Documents = 1 .. n /\ n \in Nat /\ Documents' = Documents \cup {n + 1}
  BY <1>1, InsertTyped, SeriesFinite DEF TablesOK
<1>3. /\ flows' = Append(flows, <<>>) /\ versions' = Append(versions, <<v>>)
      /\ Become(w, r) /\ aborted' = aborted
  BY DEF InsertDocument, Proceed
<1>4. requests[w].area \in OptionalArea
  BY <1>1, RequestTyped
<1>5. v \in Version /\ <<v>> \in Seq(Version) /\ <<>> \in Seq(Flow)
  BY <1>4, EmptySeq DEF Version, OptionalStatus, OptionalArea, Statuses
<1>6. StatusChanges(<<v>>) = {1}
  BY DEF StatusChanges, None
<1>7. r.stage = "recording" /\ r.doc = n + 1
  OBVIOUS
<1> HIDE DEF v, r
<1>8. flows \in [1 .. n -> Seq(Flow)] /\ versions \in [1 .. n -> Seq(Version)]
  BY <1>1, <1>2 DEF TablesOK
<1>9. (\A e \in 1 .. n : flows'[e] = flows[e]) /\ flows'[n + 1] = <<>>
  BY <1>2, <1>3, <1>5, <1>8, AppendRow
<1>10. (\A e \in 1 .. n : versions'[e] = versions[e]) /\ versions'[n + 1] = <<v>>
  BY <1>2, <1>3, <1>5, <1>8, AppendRow
<1>11. Recording(d)' = IF n + 1 = d THEN Recording(d) \cup {w} ELSE Recording(d) \ {w}
  BY <1>3, <1>7, RecordingMoves
<1>12. w \notin Recording(d)
  BY <1>1 DEF Recording
<1>13. CASE d \in Documents
  <2>1. Recording(d)' = Recording(d)
    BY <1>2, <1>11, <1>12, <1>13
  <2>2. Counted(d)
    BY <1>13 DEF ChangesAreRecorded, Counted, Known
  <2>3. QED
    BY <1>2, <1>3, <1>9, <1>10, <1>13, <2>1, <2>2, CountedKept
<1>14. CASE d = n + 1
  <2>1. Recording(d) = {}
    BY <1>2, <1>14 DEF Recording, TypeOK
  <2>2. Recording(d)' = {w}
    BY <1>11, <1>14, <2>1
  <2>3. StatusVersions(d)' = {1}
    BY <1>6, <1>10, <1>14 DEF StatusVersions
  <2>4. Cardinality({w}) = 1 /\ Cardinality({1}) = 1
    BY FS_Singleton
  <2>5. Len(flows'[d]) = 0
    BY <1>9, <1>14
  <2>6. aborted' \in Nat
    BY <1>3 DEF TypeOK
  <2>7. Known(d)' = 1 /\ Cardinality(StatusVersions(d)') = 1
    BY <2>2, <2>3, <2>4, <2>5 DEF Known
  <2>8. 1 \in 1 .. 1 + aborted'
    <3>1. \A k \in Nat : 1 \in 1 .. 1 + k
      OBVIOUS
    <3>2. QED
      BY <2>6, <3>1
  <2>9. QED
    BY <2>7, <2>8 DEF Counted
<1>15. QED
  BY <1>2, <1>13, <1>14

\* The entry takes the place of the thread that was to write it.
LEMMA CountedCreate ==
  ASSUME TypeOK, NEW w \in Workers, CreateFlow(w), NEW d \in Documents, Counted(d)
  PROVE  Counted(d)'
<1>1. PICK d0, f : d0 = requests[w].doc /\ f = requests[w].flow
  OBVIOUS
<1>2. /\ requests[w].stage = "recording"
      /\ flows' = [flows EXCEPT ![d0] = Append(flows[d0], f)]
      /\ versions' = versions /\ aborted' = aborted
      /\ Become(w, Idle)
  BY <1>1 DEF CreateFlow, Proceed
<1>3. d0 \in Documents /\ f \in Flow
  BY <1>1, <1>2, RequestTyped DEF TypeOK
<1>4. Recording(d)' = Recording(d) \ {w}
  BY <1>2, IdleTyped, RecordingMoves
<1>5. CASE d # d0
  <2>1. w \notin Recording(d)
    BY <1>1, <1>5 DEF Recording
  <2>2. flows'[d] = flows[d] /\ versions'[d] = versions[d]
    BY <1>2, <1>5 DEF TypeOK
  <2>3. QED
    BY <1>2, <1>4, <2>1, <2>2, CountedKept
<1>6. CASE d = d0
  <2>1. /\ flows[d] \in Seq(Flow) /\ Len(flows[d]) \in Nat
        /\ IsFiniteSet(Recording(d)) /\ Cardinality(Recording(d)) \in Nat
    BY CountsTyped
  <2>2. w \in Recording(d)
    BY <1>1, <1>2, <1>6 DEF Recording
  <2>3. Cardinality(Recording(d)') = Cardinality(Recording(d)) - 1
    BY <1>4, <2>1, <2>2, FS_RemoveElement
  <2>4. flows'[d] = Append(flows[d], f)
    BY <1>2, <1>3, <1>6 DEF TypeOK
  <2>5. Len(flows'[d]) = Len(flows[d]) + 1
    BY <1>3, <2>1, <2>4, AppendProperties
  <2>6. StatusVersions(d)' = StatusVersions(d)
    BY <1>2 DEF StatusVersions
  <2>7. Known(d)' = Known(d)
    BY <2>1, <2>3, <2>5 DEF Known
  <2>8. QED
    BY <1>2, <2>6, <2>7 DEF Counted
<1>7. QED
  BY <1>5, <1>6

\* A thread that is cut short may leave a change without its entry.
LEMMA CountedAbort ==
  ASSUME TypeOK, NEW w \in Workers, Abort(w), NEW d \in Documents, Counted(d)
  PROVE  Counted(d)'
<1>1. Become(w, Idle) /\ UNCHANGED tables /\ aborted' = aborted + 1
  BY DEF Abort
<1>2. Recording(d)' = Recording(d) \ {w}
  BY <1>1, IdleTyped, RecordingMoves
<1>3. /\ Len(flows[d]) \in Nat
      /\ IsFiniteSet(Recording(d)) /\ Cardinality(Recording(d)) \in Nat
      /\ Cardinality(StatusVersions(d)) \in Nat /\ aborted \in Nat
  BY CountsTyped DEF TypeOK
<1>4. Cardinality(Recording(d)') \in Cardinality(Recording(d)) - 1 .. Cardinality(Recording(d))
  <2>1. Cardinality(Recording(d) \ {w})
          \in {Cardinality(Recording(d)) - 1, Cardinality(Recording(d))}
    BY <1>3, FS_RemoveElement
  <2>2. QED
    BY <1>2, <1>3, <2>1
<1>5. StatusVersions(d)' = StatusVersions(d) /\ flows'[d] = flows[d]
  BY <1>1 DEF tables, StatusVersions
<1>6. QED
  BY <1>1, <1>3, <1>4, <1>5 DEF Counted, Known

LEMMA RecordedStep ==
  ASSUME TypeOK, ChangesAreRecorded, [Next]_vars
  PROVE  ChangesAreRecorded'
<1> USE DEF Proceed
<1>0. \A d \in Documents : Counted(d)
  BY DEF ChangesAreRecorded, Counted, Known
<1>1. SUFFICES ASSUME NEW d \in Documents' PROVE Counted(d)'
  BY DEF ChangesAreRecorded, Counted, Known
\* A thread that ends, or takes up, what writes no entry.
<1>2. ASSUME NEW w \in Workers, NEW r, Become(w, r), r.stage # "recording",
             requests[w].stage # "recording", UNCHANGED <<tables, aborted>>
      PROVE  Counted(d)'
  <2>1. d \in Documents /\ flows'[d] = flows[d] /\ versions'[d] = versions[d]
    BY <1>2 DEF tables, Documents
  <2>2. Recording(d)' = Recording(d)
    BY <1>2, RecordingMoves DEF Recording
  <2>3. QED
    BY <1>0, <1>2, <2>1, <2>2, CountedKept
<1>3. ASSUME NEW w \in Workers, Arrive(w)
      PROVE  Counted(d)'
  <2>1. \E r : Become(w, r) /\ r.stage \in {"numbered", "loaded"}
    <3>1. ASSUME NEW s \in Series, NEW a \in OptionalArea, AssignDocumentNumber(w, s, a)
          PROVE  \E r : Become(w, r) /\ r.stage = "numbered"
      BY <3>1 DEF AssignDocumentNumber
    <3>2. ASSUME NEW e \in Documents, SetDocument(w, e)
          PROVE  \E r : Become(w, r) /\ r.stage = "loaded"
      BY <3>2 DEF SetDocument
    <3>3. QED
      BY <1>3, <3>1, <3>2 DEF Arrive
  <2>2. requests[w] = Idle /\ UNCHANGED <<tables, aborted>>
    BY <1>3 DEF Arrive, AssignDocumentNumber, SetDocument, Accept
  <2>3. QED
    BY <1>2, <2>1, <2>2, IdleTyped
<1>4. ASSUME NEW w \in Workers, RaiseNotUnique(w) \/ Refuse(w)
      PROVE  Counted(d)'
  <2>1. Become(w, Idle) /\ UNCHANGED <<tables, aborted>> /\ requests[w].stage # "recording"
    BY <1>4 DEF RaiseNotUnique, Refuse
  <2>2. QED
    BY <1>2, <2>1, IdleTyped
<1>5. ASSUME NEW w \in Workers, NEW to \in Statuses, NEW a \in OptionalArea,
             CommitTransition(w, to, a)
      PROVE  Counted(d)'
  <2> DEFINE q == requests[w]
             area == IF a # None THEN a ELSE q.area
             f == [action |-> ActionFor(q.status, to), from |-> q.status,
                   to |-> to, from_area |-> q.area, to_area |-> a]
             r == [stage |-> "recording", doc |-> q.doc, flow |-> f]
  <2>1. /\ q.stage = "loaded" /\ ValidTransition(q.status, to)
        /\ UpdateDocument(q, to, area) /\ Become(w, r) /\ aborted' = aborted
    BY <1>5 DEF CommitTransition
  <2>2. area \in OptionalArea /\ q.status # to
    BY <2>1, RequestTyped, RulesTyped DEF TypeOK
  <2>3. r.stage = "recording" /\ r.doc = q.doc
    OBVIOUS
  <2>4. d \in Documents
    BY <2>1 DEF UpdateDocument, Documents
  <2> HIDE DEF area, r
  <2>5. QED
    BY <1>0, <2>1, <2>2, <2>3, <2>4, CountedUpdate
<1>6. ASSUME NEW w \in Workers, NEW a \in OptionalArea, CommitArea(w, a)
      PROVE  Counted(d)'
  <2>1. /\ requests[w].stage = "loaded" /\ Become(w, Idle) /\ aborted' = aborted
        /\ UpdateDocument(requests[w], requests[w].status, a)
    BY <1>6 DEF CommitArea
  <2>2. requests[w].status \in Statuses
    BY <2>1, RequestTyped DEF TypeOK
  <2>3. d \in Documents
    BY <2>1 DEF UpdateDocument, Documents
  <2>4. QED
    BY <1>0, <2>1, <2>2, <2>3, IdleTyped, CountedUpdate
<1>7. ASSUME NEW w \in Workers, CreateFlow(w) \/ Abort(w)
      PROVE  Counted(d)'
  <2>1. d \in Documents
    BY <1>7 DEF CreateFlow, Abort, tables, Documents
  <2>2. QED
    BY <1>0, <1>7, <2>1, CountedCreate, CountedAbort
<1>8. CASE UNCHANGED vars
  <2>1. d \in Documents /\ Recording(d)' = Recording(d)
    BY <1>8 DEF vars, tables, Documents, Recording
  <2>2. QED
    BY <1>0, <1>8, <2>1, CountedKept DEF vars, tables
<1>9. QED
  BY <1>3, <1>4, <1>5, <1>6, <1>7, <1>8, CountedInsert DEF Next, Rest, Step

\* The status changes of a document are its entries, plus those a thread is to
\* write, plus at most one for every request that was cut short.
THEOREM ChangesRecorded == Spec => []ChangesAreRecorded
<1>1. Init => ChangesAreRecorded
  BY DEF Init, ChangesAreRecorded, Documents
<1>2. TypeOK /\ ChangesAreRecorded /\ [Next]_vars => ChangesAreRecorded'
  BY RecordedStep
<1>3. QED
  BY <1>1, <1>2, TypeCorrect, PTL DEF Spec
-----------------------------------------------------------------------------
(* The register.  With one thread nothing changes between the read of a       *)
(* handler and its commit, so the commit is the step of the register, and the *)
(* entry that is still to be written counts as written.                       *)

\* What the one thread remembers of the database is still so.
CurrentInv ==
  \A w \in Workers :
    /\ requests[w].stage = "numbered" =>
         requests[w].number = Cardinality(InSeries(requests[w].series)) + 1
    /\ requests[w].stage = "loaded" =>
         /\ requests[w].status = documents[requests[w].doc].status
         /\ requests[w].area = documents[requests[w].doc].area

\* The rules the register was given are those of the endpoints.
LEMMA SameRules ==
  /\ Ledger!None = None /\ Ledger!Statuses = Statuses
  /\ Ledger!OptionalArea = OptionalArea
  /\ \A from, to : Ledger!ValidTransition(from, to) <=> ValidTransition(from, to)
  /\ \A from, to : Ledger!ActionFor(from, to) = ActionFor(from, to)
  /\ \A to : Ledger!RequiresArea(to) <=> RequiresArea(to)
<1>1. Ledger!None = None /\ Ledger!Statuses = Statuses
  BY DEF Ledger!None, None, Ledger!Statuses, Statuses
<1>2. Ledger!OptionalArea = OptionalArea
  BY <1>1 DEF Ledger!OptionalArea, OptionalArea
<1>3. \A from, to : Ledger!ValidTransition(from, to) <=> ValidTransition(from, to)
  BY <1>1 DEF Ledger!ValidTransition, ValidTransition, Ledger!TRANSITIONS, TRANSITIONS
<1>4. \A from, to : Ledger!ActionFor(from, to) = ActionFor(from, to)
  BY <1>1 DEF Ledger!ActionFor, ActionFor, Ledger!FLOW_ACTION, FLOW_ACTION
<1>5. \A to : Ledger!RequiresArea(to) <=> RequiresArea(to)
  BY DEF Ledger!RequiresArea, RequiresArea, Ledger!REQUIRES_AREA, REQUIRES_AREA
<1>6. QED
  BY <1>1, <1>2, <1>3, <1>4, <1>5

\* So are its numbers.
LEMMA SameCardinality == \A S : Ledger!Cardinality(S) = Cardinality(S)
BY Zenon DEF Ledger!Cardinality, Cardinality

\* The table with one row more is the one that has it at the end.
LEMMA AppendedRow ==
  ASSUME NEW S, NEW n \in Nat, NEW t \in [1 .. n -> S], NEW e \in S,
         NEW u \in [1 .. n + 1 -> S], u[n + 1] = e, \A i \in 1 .. n : u[i] = t[i]
  PROVE  u = Append(t, e)
<1> DEFINE a == Append(t, e)
<1>1. a \in [1 .. n + 1 -> S]
  BY AppendRow
<1>2. a[n + 1] = e
  BY AppendRow
<1>3. \A i \in 1 .. n : a[i] = t[i]
  BY AppendRow
<1> HIDE DEF a
<1>4. \A i \in 1 .. n + 1 : u[i] = a[i]
  BY <1>2, <1>3
<1>5. u = a
  BY <1>1, <1>4
<1>6. QED
  BY <1>5 DEF a

\* The histories the register sees, for the one thread w.
LEMMA SettledHistories ==
  ASSUME TypeOK, NEW w, Workers = {w}
  PROVE  /\ DOMAIN settledFlows = Documents
         /\ \A d \in Documents :
              settledFlows[d] =
                IF requests[w].stage = "recording" /\ requests[w].doc = d
                THEN Append(flows[d], requests[w].flow) ELSE flows[d]
         /\ settledFlows \in [Documents -> Seq(Flow)]
<1>1. DOMAIN settledFlows = Documents
  BY DEF settledFlows
<1>2. ASSUME NEW d \in Documents
      PROVE  /\ settledFlows[d] =
                  IF requests[w].stage = "recording" /\ requests[w].doc = d
                  THEN Append(flows[d], requests[w].flow) ELSE flows[d]
             /\ settledFlows[d] \in Seq(Flow)
  <2>1. flows[d] \in Seq(Flow)
    BY DEF TypeOK
  <2>2. CASE requests[w].stage = "recording" /\ requests[w].doc = d
    <3>1. Recording(d) = {w}
      BY <2>2 DEF Recording
    <3>2. (CHOOSE v \in Recording(d) : TRUE) = w
      BY <3>1
    <3>3. settledFlows[d] = Append(flows[d], requests[w].flow)
      BY <3>1, <3>2 DEF settledFlows
    <3>4. requests[w].flow \in Flow
      BY <2>2, RequestTyped DEF TypeOK
    <3>5. QED
      BY <2>1, <2>2, <3>3, <3>4, AppendProperties
  <2>3. CASE ~(requests[w].stage = "recording" /\ requests[w].doc = d)
    <3>1. Recording(d) = {}
      BY <2>3 DEF Recording
    <3>2. QED
      BY <2>1, <2>3, <3>1 DEF settledFlows
  <2>4. QED
    BY <2>2, <2>3
<1>3. settledFlows \in [Documents -> Seq(Flow)]
  <2>1. settledFlows = [d \in Documents |-> settledFlows[d]]
    BY DEF settledFlows
  <2>2. QED
    BY <1>2, <2>1
<1>4. QED
  BY <1>1, <1>2, <1>3

\* The histories the register sees after a step.
SettledAs(w) ==
  /\ DOMAIN settledFlows = Documents
  /\ \A d \in Documents :
       settledFlows[d] =
         IF requests[w].stage = "recording" /\ requests[w].doc = d
         THEN Append(flows[d], requests[w].flow) ELSE flows[d]
  /\ settledFlows \in [Documents -> Seq(Flow)]

LEMMA SettledNext ==
  ASSUME NEW w, Workers = {w}
  PROVE  TypeOK' => SettledAs(w)'
<1>1. TypeOK => SettledAs(w)
  BY SettledHistories DEF SettledAs
<1>2. QED
  BY <1>1, PTL

\* Two histories that are the same for every document.
LEMMA SettledSame ==
  ASSUME TypeOK, TypeOK', NEW w, Workers = {w}, Documents' = Documents,
         NEW g \in [Documents -> Seq(Flow)],
         \A d \in Documents :
           g[d] = IF requests'[w].stage = "recording" /\ requests'[w].doc = d
                  THEN Append(flows'[d], requests'[w].flow) ELSE flows'[d]
  PROVE  settledFlows' = g
<1>1. SettledAs(w)'
  BY SettledNext
<1>2. settledFlows' \in [Documents -> Seq(Flow)]
  BY <1>1 DEF SettledAs
<1>3. \A d \in Documents : settledFlows'[d] = g[d]
  BY <1>1 DEF SettledAs
<1>4. QED
  BY <1>2, <1>3

\* The one thread moves.
LEMMA OnlyMove ==
  ASSUME TypeOK, NEW w, Workers = {w}, NEW r, Become(w, r)
  PROVE  requests'[w] = r
BY DEF TypeOK, Become

\* A step that touches no table and holds no entry.
LEMMA LedgerQuiet ==
  ASSUME TypeOK, TypeOK', NEW w, Workers = {w}, NEW r, Become(w, r),
         requests[w].stage # "recording", r.stage # "recording", UNCHANGED tables
  PROVE  settledFlows' = settledFlows /\ documents' = documents
<1>1. requests'[w] = r
  BY OnlyMove
<1>2. SettledAs(w)
  BY SettledHistories DEF SettledAs
<1>3. documents' = documents /\ flows' = flows /\ Documents' = Documents
  BY DEF tables, Documents
<1>4. QED
  BY <1>1, <1>2, <1>3, SettledSame DEF SettledAs

LEMMA LedgerInsert ==
  ASSUME TypeOK, TypeOK', CurrentInv, NEW w, Workers = {w}, InsertDocument(w)
  PROVE  Ledger!Next
<1> DEFINE n == Len(documents)
           r == requests[w]
           f == [action |-> "registrado", from |-> None, to |-> "registrado",
                 from_area |-> None, to_area |-> r.area]
           q == [stage |-> "recording", doc |-> n + 1, flow |-> f]
<1>1. TablesOK /\ r \in Request /\ r.stage = "numbered"
  BY TypeSplit DEF ThreadsOK, InsertDocument
<1>2. Documents = 1 .. n /\ n \in Nat /\ Documents' = Documents \cup {n + 1}
  BY <1>1, InsertTyped, SeriesFinite DEF TablesOK
<1>3. flows' = Append(flows, <<>>) /\ Become(w, q) /\ aborted' = aborted
  BY DEF InsertDocument, Proceed
<1>4. r.series \in Series /\ r.area \in OptionalArea
  BY <1>1, RequestTyped
<1>5. r.number = Cardinality(InSeries(r.series)) + 1
  BY <1>1 DEF CurrentInv
<1>6. q.stage = "recording" /\ q.doc = n + 1 /\ q.flow = f
  OBVIOUS
<1>7. f \in Flow
  BY <1>4 DEF Flow, FlowActions, OptionalStatus, OptionalArea, Statuses
<1> HIDE DEF q
<1>8. requests'[w] = q
  BY <1>3, OnlyMove
<1>9. SettledAs(w) /\ SettledAs(w)'
  BY SettledHistories, SettledNext DEF SettledAs
<1>10. <<>> \in Seq(Flow) /\ flows \in [1 .. n -> Seq(Flow)]
  BY <1>1, <1>2, EmptySeq DEF TablesOK
<1>11. (\A d \in 1 .. n : flows'[d] = flows[d]) /\ flows'[n + 1] = <<>>
  BY <1>2, <1>3, <1>10, AppendRow
<1>12. \A d \in Documents : settledFlows'[d] = settledFlows[d]
  <2>1. TAKE d \in Documents
  <2>2. d # n + 1 /\ d \in Documents'
    BY <1>2
  <2>3. settledFlows[d] = flows[d]
    BY <1>1, <1>9 DEF SettledAs
  <2>4. settledFlows'[d] = flows'[d]
    BY <1>6, <1>8, <1>9, <2>2 DEF SettledAs
  <2>5. QED
    BY <1>2, <1>11, <2>3, <2>4
<1> HIDE DEF f
<1>13. settledFlows'[n + 1] = <<f>>
  <2>1. settledFlows'[n + 1] = Append(flows'[n + 1], f)
    BY <1>2, <1>6, <1>8, <1>9 DEF SettledAs
  <2>2. QED
    BY <1>7, <1>11, <2>1
<1>14. settledFlows' = Append(settledFlows, <<f>>)
  <2>1. PICK k, H, e, old, new :
          /\ k = n /\ H = Seq(Flow) /\ e = <<f>>
          /\ old = settledFlows /\ new = settledFlows'
    OBVIOUS
  <2>2. k \in Nat /\ e \in H /\ old \in [1 .. k -> H]
    BY <1>2, <1>7, <1>9, <2>1 DEF SettledAs
  <2>3. /\ new \in [1 .. k + 1 -> H] /\ new[k + 1] = e
        /\ \A d \in 1 .. k : new[d] = old[d]
    BY <1>2, <1>9, <1>12, <1>13, <2>1 DEF SettledAs
  <2>4. new = Append(old, e)
    BY <2>2, <2>3, AppendedRow
  <2>5. QED
    BY <2>1, <2>4
<1>15. documents' = Append(documents, [series |-> r.series, number |-> r.number,
                                       status |-> "registrado", area |-> r.area])
  BY DEF InsertDocument
<1>16. Ledger!NextNumber(r.series) = r.number
  <2>1. \A s : Ledger!NextNumber(s) = Cardinality(InSeries(s)) + 1
    BY SameCardinality DEF Ledger!NextNumber, InSeries, Documents
  <2>2. QED
    BY <1>5, <2>1
<1>17. Ledger!Register(r.series, r.area)
  BY <1>3, <1>14, <1>15, <1>16, SameRules DEF Ledger!Register, f
<1>18. QED
  BY <1>4, <1>17, SameRules DEF Ledger!Next

LEMMA LedgerTransition ==
  ASSUME TypeOK, TypeOK', CurrentInv, NEW w, Workers = {w},
         NEW to \in Statuses, NEW a \in OptionalArea, CommitTransition(w, to, a)
  PROVE  Ledger!Next
<1> DEFINE q == requests[w]
           d0 == q.doc
           old == documents[d0]
           area == IF a # None THEN a ELSE q.area
           f == [action |-> ActionFor(q.status, to), from |-> q.status,
                 to |-> to, from_area |-> q.area, to_area |-> a]
           r == [stage |-> "recording", doc |-> q.doc, flow |-> f]
<1>1. /\ q.stage = "loaded" /\ ValidTransition(q.status, to)
      /\ RequiresArea(to) => a # None
      /\ UpdateDocument(q, to, area) /\ Become(w, r) /\ aborted' = aborted
  BY DEF CommitTransition, Proceed
<1>2. /\ d0 \in Documents /\ q \in Request /\ q.status \in Statuses
      /\ q.area \in OptionalArea
  BY <1>1, RequestTyped DEF TypeOK
<1>3. q.status = old.status /\ q.area = old.area
  BY <1>1 DEF CurrentInv
<1>4. old \in Document
  BY <1>2, SeriesFinite, ElementOfSeq DEF TypeOK
<1>5. documents' = [documents EXCEPT
        ![d0].status = to, ![d0].area = IF a = None THEN old.area ELSE a]
  <2>1. documents' = [documents EXCEPT
          ![d0].status = IF to # q.status THEN to ELSE @,
          ![d0].area   = IF area # q.area THEN area ELSE @]
    BY <1>1 DEF UpdateDocument
  <2>2. documents' = [documents EXCEPT
          ![d0] = [old EXCEPT !.status = to, !.area = IF a = None THEN old.area ELSE a]]
    BY <1>3, <1>4, <2>1 DEF Document
  <2>3. QED
    BY <1>4, <2>2 DEF Document
<1>6. flows' = flows /\ Documents' = Documents
  BY <1>1 DEF UpdateDocument, Documents
<1>7. r.stage = "recording" /\ r.doc = d0 /\ r.flow = f
  OBVIOUS
<1>8. f \in Flow
  BY <1>1, <1>2, RulesTyped DEF Flow, OptionalStatus
<1> HIDE DEF r, f
<1>9. requests'[w] = r
  BY <1>1, OnlyMove
<1>10. SettledAs(w)
  BY SettledHistories DEF SettledAs
<1> DEFINE g == [settledFlows EXCEPT ![d0] = Append(@, f)]
<1>11. settledFlows \in [Documents -> Seq(Flow)]
       /\ \A d \in Documents : settledFlows[d] = flows[d]
  BY <1>1, <1>10 DEF SettledAs
<1>12. Append(flows[d0], f) \in Seq(Flow)
  BY <1>2, <1>8, AppendProperties DEF TypeOK
<1>13. g \in [Documents -> Seq(Flow)]
       /\ \A d \in Documents : g[d] = IF d = d0 THEN Append(flows[d], f) ELSE flows[d]
  BY <1>2, <1>11, <1>12
<1> HIDE DEF g
<1>14. settledFlows' = g
  BY <1>6, <1>7, <1>9, <1>13, SettledSame
<1>15. Ledger!Transition(d0, to, a)
  <2>1. /\ Ledger!ValidTransition(old.status, to)
        /\ Ledger!RequiresArea(to) => a # Ledger!None
    BY <1>1, <1>3, SameRules
  <2>2. settledFlows' = [settledFlows EXCEPT
          ![d0] = Append(@, [action |-> Ledger!ActionFor(old.status, to),
                             from |-> old.status, to |-> to,
                             from_area |-> old.area, to_area |-> a])]
    BY <1>3, <1>14, SameRules DEF g, f
  <2>3. Ledger!None = None
    BY SameRules
  <2>4. QED
    BY <1>1, <1>5, <2>1, <2>2, <2>3 DEF Ledger!Transition
<1>16. QED
  BY <1>2, <1>15, SameRules DEF Ledger!Next, Documents

LEMMA LedgerMove ==
  ASSUME TypeOK, TypeOK', CurrentInv, NEW w, Workers = {w},
         NEW a \in OptionalArea, CommitArea(w, a)
  PROVE  Ledger!Next
<1> DEFINE q == requests[w]
           d0 == q.doc
<1>1. /\ q.stage = "loaded" /\ UpdateDocument(q, q.status, a) /\ a # q.area
      /\ Become(w, Idle) /\ aborted' = aborted
  BY DEF CommitArea, Proceed
<1>2. d0 \in Documents
  BY <1>1 DEF TypeOK
<1>3. documents[d0] \in Document
  BY <1>2, SeriesFinite, ElementOfSeq DEF TypeOK
<1>4. documents' = [documents EXCEPT ![d0].area = a]
  BY <1>1, <1>3 DEF UpdateDocument, Document
<1>5. flows' = flows /\ Documents' = Documents /\ requests'[w] = Idle
  BY <1>1, OnlyMove DEF UpdateDocument, Documents
<1>6. SettledAs(w)
  BY SettledHistories DEF SettledAs
<1>7. settledFlows' = settledFlows
  BY <1>1, <1>5, <1>6, IdleTyped, SettledSame DEF SettledAs
<1>8. Ledger!Move(d0, a)
  BY <1>1, <1>4, <1>7 DEF Ledger!Move
<1>9. QED
  BY <1>2, <1>8, SameRules DEF Ledger!Next, Documents

LEMMA LedgerCreate ==
  ASSUME TypeOK, TypeOK', NEW w, Workers = {w}, CreateFlow(w)
  PROVE  UNCHANGED <<documents, settledFlows, aborted>>
<1>1. PICK d0, f : d0 = requests[w].doc /\ f = requests[w].flow
  OBVIOUS
<1>2. /\ requests[w].stage = "recording"
      /\ flows' = [flows EXCEPT ![d0] = Append(flows[d0], f)]
      /\ documents' = documents /\ aborted' = aborted /\ Documents' = Documents
      /\ Become(w, Idle)
  BY <1>1 DEF CreateFlow, Proceed, Documents
<1>3. requests'[w] = Idle
  BY <1>2, OnlyMove
<1>4. d0 \in Documents /\ flows \in [Documents -> Seq(Flow)]
  BY <1>1, <1>2 DEF TypeOK
<1>5. SettledAs(w)
  BY SettledHistories DEF SettledAs
<1>6. \A d \in Documents : settledFlows[d] = flows'[d]
  BY <1>1, <1>2, <1>4, <1>5 DEF SettledAs
<1>7. settledFlows' = settledFlows
  BY <1>2, <1>3, <1>5, <1>6, IdleTyped, SettledSame DEF SettledAs
<1>8. QED
  BY <1>2, <1>7

\* A thread that is cut short costs one history its last entry at most.
LEMMA LedgerAbort ==
  ASSUME TypeOK, TypeOK', NEW w, Workers = {w}, Abort(w)
  PROVE  Ledger!Next
<1> DEFINE q == requests[w]
           d0 == q.doc
           f == q.flow
<1>1. Become(w, Idle) /\ UNCHANGED tables /\ aborted' = aborted + 1
  BY DEF Abort
<1>2. documents' = documents /\ flows' = flows /\ Documents' = Documents
  BY <1>1 DEF tables, Documents
<1>3. requests'[w] = Idle
  BY <1>1, OnlyMove
<1>4. SettledAs(w)
  BY SettledHistories DEF SettledAs
<1>5. CASE q.stage # "recording"
  <2>1. settledFlows' = settledFlows
    BY <1>1, <1>5, IdleTyped, LedgerQuiet
  <2>2. QED
    BY <1>1, <1>2, <2>1 DEF Ledger!Next, Ledger!Lose
<1>6. CASE q.stage = "recording"
  <2>1. d0 \in Documents /\ f \in Flow /\ flows[d0] \in Seq(Flow)
    BY <1>6, RequestTyped DEF TypeOK
  <2>2. settledFlows[d0] = Append(flows[d0], f)
        /\ \A d \in Documents \ {d0} : settledFlows[d] = flows[d]
    BY <1>4, <1>6, <2>1 DEF SettledAs
  <2> DEFINE h == flows[d0]
             k == Append(h, f)
             g == [settledFlows EXCEPT ![d0] = h]
  <2>3. Appended(h, k) /\ k # h /\ Len(h) \in Nat
    BY <2>1, AppendedOne, LenProperties
  <2>4. SubSeq(k, 1, Len(k) - 1) = h
    BY <2>3 DEF Appended
  <2>5. k # <<>>
    BY <2>1, AppendProperties
  <2>6. /\ g \in [Documents -> Seq(Flow)]
        /\ \A d \in Documents : g[d] = flows'[d]
    BY <1>2, <1>4, <2>1, <2>2 DEF SettledAs
  <2> HIDE DEF g
  <2>7. settledFlows' = g
    BY <1>2, <1>3, <2>6, IdleTyped, SettledSame
  <2>8. settledFlows' = [settledFlows EXCEPT ![d0] = SubSeq(@, 1, Len(@) - 1)]
    BY <2>2, <2>4, <2>7 DEF g
  <2>9. settledFlows[d0] # <<>>
    BY <2>2, <2>5
  <2>10. Ledger!Lose
    BY <1>1, <1>2, <2>1, <2>8, <2>9 DEF Ledger!Lose, Documents
  <2>11. QED
    BY <2>10 DEF Ledger!Next
<1>7. QED
  BY <1>5, <1>6

LEMMA LedgerStep ==
  ASSUME TypeOK, TypeOK', CurrentInv, NEW w, Workers = {w}, [Next]_vars
  PROVE  [Ledger!Next]_<<documents, settledFlows, aborted>>
<1>1. w \in Workers /\ \A v \in Workers : v = w
  OBVIOUS
<1>2. CASE Arrive(w)
  <2>1. \E r : Become(w, r) /\ r.stage # "recording"
    <3>1. ASSUME NEW s \in Series, NEW a \in OptionalArea, AssignDocumentNumber(w, s, a)
          PROVE  \E r : Become(w, r) /\ r.stage = "numbered"
      BY <3>1 DEF AssignDocumentNumber
    <3>2. ASSUME NEW e \in Documents, SetDocument(w, e)
          PROVE  \E r : Become(w, r) /\ r.stage = "loaded"
      BY <3>2 DEF SetDocument
    <3>3. QED
      BY <1>2, <3>1, <3>2 DEF Arrive
  <2>2. requests[w] = Idle /\ UNCHANGED <<tables, aborted>>
    BY <1>2 DEF Arrive, AssignDocumentNumber, SetDocument, Accept
  <2>3. QED
    BY <2>1, <2>2, IdleTyped, LedgerQuiet
<1>3. CASE RaiseNotUnique(w) \/ Refuse(w)
  <2>1. Become(w, Idle) /\ UNCHANGED <<tables, aborted>> /\ requests[w].stage # "recording"
    BY <1>3 DEF RaiseNotUnique, Refuse, Proceed
  <2>2. QED
    BY <2>1, IdleTyped, LedgerQuiet
<1>4. CASE UNCHANGED vars
  <2>1. UNCHANGED <<documents, flows, requests, aborted>> /\ Documents' = Documents
    BY <1>4 DEF vars, tables, Documents
  <2>2. settledFlows' = settledFlows
    <3>1. SettledAs(w)
      BY SettledHistories DEF SettledAs
    <3>2. \A d \in Documents :
            settledFlows[d] =
              IF requests'[w].stage = "recording" /\ requests'[w].doc = d
              THEN Append(flows'[d], requests'[w].flow) ELSE flows'[d]
      BY <2>1, <3>1 DEF SettledAs
    <3>3. settledFlows \in [Documents -> Seq(Flow)] /\ Documents' = Documents
      BY <2>1, <3>1 DEF SettledAs
    <3>4. QED
      BY <3>2, <3>3, SettledSame
  <2>3. QED
    BY <2>1, <2>2
<1>5. CASE Step(w)
  BY <1>3, <1>5, LedgerInsert, LedgerTransition, LedgerMove, LedgerCreate DEF Step
<1>6. QED
  BY <1>1, <1>2, <1>4, <1>5, LedgerAbort DEF Next, Rest

LEMMA CurrentStep ==
  ASSUME TypeOK, CurrentInv, NEW w, Workers = {w}, [Next]_vars
  PROVE  CurrentInv'
<1>1. \A v \in Workers : v = w
  OBVIOUS
<1>2. ASSUME NEW r, Become(w, r), r.stage \notin {"numbered", "loaded"}
      PROVE  CurrentInv'
  <2>1. \A v \in Workers : requests'[v].stage \notin {"numbered", "loaded"}
    BY <1>1, <1>2, OnlyMove
  <2>2. QED
    BY <2>1 DEF CurrentInv
<1>3. ASSUME NEW s \in Series, NEW a \in OptionalArea, AssignDocumentNumber(w, s, a)
      PROVE  CurrentInv'
  <2> DEFINE r == [stage |-> "numbered", series |-> s,
                   number |-> Cardinality(InSeries(s)) + 1, area |-> a]
  <2>1. Become(w, r) /\ documents' = documents
    BY <1>3 DEF AssignDocumentNumber, tables
  <2>2. requests'[w] = r
    BY <2>1, OnlyMove
  <2>3. \A t : InSeries(t)' = InSeries(t)
    BY <2>1 DEF InSeries, Documents
  <2>4. r.stage = "numbered" /\ r.series = s /\ r.number = Cardinality(InSeries(s)) + 1
    OBVIOUS
  <2> HIDE DEF r
  <2>5. \A v \in Workers :
          /\ requests'[v].stage = "numbered" /\ requests'[v].series = s
          /\ requests'[v].number = Cardinality(InSeries(s)) + 1
    BY <1>1, <2>2, <2>4
  <2>6. \A v \in Workers : InSeries(requests[v].series)' = InSeries(s)
    BY <2>1, <2>5 DEF InSeries, Documents
  <2>7. QED
    BY <2>5, <2>6 DEF CurrentInv
<1>4. ASSUME NEW d \in Documents, SetDocument(w, d)
      PROVE  CurrentInv'
  <2> DEFINE r == [stage |-> "loaded", doc |-> d,
                   status |-> documents[d].status, area |-> documents[d].area]
  <2>1. Become(w, r) /\ documents' = documents
    BY <1>4 DEF SetDocument, tables
  <2>2. requests'[w] = r
    BY <2>1, OnlyMove
  <2>3. QED
    BY <1>1, <2>1, <2>2 DEF CurrentInv
<1>5. CASE Step(w)
  <2>1. \E r : Become(w, r) /\ r.stage \in {"idle", "recording"}
    <3>1. CASE RaiseNotUnique(w) \/ Refuse(w) \/ CreateFlow(w)
      BY <3>1, IdleTyped DEF RaiseNotUnique, Refuse, CreateFlow, Proceed
    <3>2. CASE InsertDocument(w)
      BY <3>2 DEF InsertDocument, Proceed
    <3>3. ASSUME NEW to \in Statuses, NEW a \in OptionalArea, CommitTransition(w, to, a)
          PROVE  \E r : Become(w, r) /\ r.stage \in {"idle", "recording"}
      BY <3>3 DEF CommitTransition, Proceed
    <3>4. ASSUME NEW a \in OptionalArea, CommitArea(w, a)
          PROVE  \E r : Become(w, r) /\ r.stage \in {"idle", "recording"}
      BY <3>4, IdleTyped DEF CommitArea, Proceed
    <3>5. QED
      BY <1>5, <3>1, <3>2, <3>3, <3>4 DEF Step
  <2>2. QED
    BY <1>2, <2>1
<1>6. CASE Abort(w)
  BY <1>2, <1>6, IdleTyped DEF Abort
<1>7. CASE UNCHANGED vars
  BY <1>7 DEF CurrentInv, vars, tables, InSeries, Documents
<1>8. QED
  BY <1>1, <1>3, <1>4, <1>5, <1>6, <1>7 DEF Next, Rest, Arrive

\* With one thread the endpoints implement the register: every commit is a step
\* of it, and the write of the entry that is due changes nothing it shows.
THEOREM OneThreadImplements ==
  ASSUME NEW w, Workers = {w}
  PROVE  Spec => ImplementsLedger
<1>1. Init => CurrentInv /\ Ledger!Init
  <2> SUFFICES ASSUME Init PROVE CurrentInv /\ Ledger!Init
    OBVIOUS
  <2>1. CurrentInv
    BY DEF Init, CurrentInv, Idle
  <2>2. DOMAIN flows = {} /\ Documents = {}
    BY DEF Init, Documents
  <2>3. settledFlows = <<>>
    BY <2>2 DEF settledFlows
  <2>4. QED
    BY <2>1, <2>3 DEF Init, Ledger!Init
<1>2. TypeOK /\ CurrentInv /\ [Next]_vars => CurrentInv'
  BY CurrentStep
<1>3. TypeOK /\ TypeOK' /\ CurrentInv /\ [Next]_vars
        => [Ledger!Next]_<<documents, settledFlows, aborted>>
  BY LedgerStep
<1>4. QED
  BY <1>1, <1>2, <1>3, TypeCorrect, PTL DEF Spec, ImplementsLedger, Ledger!Spec
-----------------------------------------------------------------------------
(* The tray of an office, for every set of submissions and areas: its types. *)

\* A query whose fetch, once answered, has an answer.
Lists == {q \in Query(SUBSET Submissions) :
            q.fetch = "answered" => q.answer \in SUBSET Submissions}

\* The operations of the cache keep a query typed, whatever it holds.
LEMMA QueryTyped ==
  ASSUME NEW q \in Lists
  PROVE  /\ Ask(q) \in Lists
         /\ \A b \in BOOLEAN : Mounted(q, b) \in Lists
         /\ \A b \in BOOLEAN : Invalidated(q, b) \in Lists
         /\ \A d \in SUBSET Submissions : Answered(q, d) \in Lists
         /\ q.fetch = "answered" => Arrived(q) \in Lists /\ q.answer \subseteq Submissions
BY DEF Lists, Query, NoQuery, Ask, Mounted, Invalidated, Survives, Answered, Arrived

\* What one may assume of a call.
LEMMA CallTyped ==
  ASSUME NEW c \in Call
  PROVE  /\ c.op \in Ops /\ c.of \in Submissions /\ c.area \in Offices \cup {Nil}
         /\ \A stage \in {"sent", "ok", "failed"} :
              /\ [c EXCEPT !.stage = stage] \in Call
              /\ [c EXCEPT !.stage = stage].op = c.op
              /\ [c EXCEPT !.stage = stage].of = c.of
              /\ [c EXCEPT !.stage = stage].area = c.area
              /\ [c EXCEPT !.stage = stage].picked = c.picked
BY DEF Call

CallsOK == calls \subseteq Call /\ \A c, d \in calls : c.op = d.op => c = d

ScreenOK ==
  /\ filter \in Filters
  /\ tray \in [Filters -> Lists]
  /\ listed \subseteq Submissions
  /\ reDeriv \in [of : Submissions \cup {Nil}, area : Offices \cup {Nil}]
  /\ confirm \in Submissions \cup {Nil}
  /\ picked \in Submissions \cup {Nil}
  /\ handled \subseteq Submissions /\ slipped \subseteq Filters

CountsOK == made \in 0 .. MaxCalls /\ others \in 0 .. MaxOthers

TableOK == table \in [Submissions -> Row]

TrayOK == TableOK /\ ScreenOK /\ CallsOK /\ CountsOK

LEMMA TrayIsTyped == TrayOK => TrayTypeOK
BY DEF TrayTypeOK, TrayOK, TableOK, ScreenOK, CallsOK, CountsOK, Lists

\* A call that moves on keeps the calls typed, and one of each mutation.
LEMMA ReplaceKeeps ==
  ASSUME CallsOK, NEW c \in calls, NEW stage \in {"sent", "ok", "failed"}, Replace(c, stage)
  PROVE  CallsOK'
<1>1. \A d \in calls : d \in Call
  BY DEF CallsOK
<1>2. [c EXCEPT !.stage = stage] \in Call /\ [c EXCEPT !.stage = stage].op = c.op
  BY <1>1, CallTyped
<1>3. QED
  BY <1>1, <1>2 DEF CallsOK, Replace

\* A new call is of a mutation that has none under way.
LEMMA SendKeeps ==
  ASSUME CallsOK, CountsOK, ScreenOK, NEW op \in Ops, NEW s \in Submissions,
         NEW a \in Offices \cup {Nil}, Send(op, s, a)
  PROVE  CallsOK' /\ CountsOK'
<1> DEFINE new == [op |-> op, of |-> s, area |-> a,
                   picked |-> IF op = "derivar" THEN picked ELSE Nil, stage |-> "sent"]
<1>1. new \in Call /\ new.op = op
  BY DEF Call, ScreenOK
<1>2. \A d \in calls : d.op # op
  BY DEF Send, Pending
<1>3. calls' = calls \cup {new}
  BY DEF Send
<1>4. CallsOK'
  BY <1>1, <1>2, <1>3 DEF CallsOK
<1>5. CountsOK'
  BY TrayBounds DEF Send, CountsOK
<1>6. QED
  BY <1>4, <1>5

LEMMA HappenKeeps == ASSUME CountsOK, Happen, made' = made PROVE CountsOK'
BY TrayBounds DEF CountsOK, Happen

LEMMA InitTyped == TrayInit => TrayOK
<1>1. ASSUME TrayInit PROVE TrayOK
  <2>1. NoQuery \in Lists /\ Ask(NoQuery) \in Lists
    BY DEF Lists, Query, NoQuery, Ask
  <2>2. tray \in [Filters -> Lists]
    BY <1>1, <2>1 DEF TrayInit
  <2>3. TableOK
    BY <1>1, AreaAssumption DEF TrayInit, TableOK, Row, TrayStatuses
  <2>4. ScreenOK
    BY <1>1, <2>2 DEF TrayInit, ScreenOK, Filters
  <2>5. CallsOK
    BY <1>1 DEF TrayInit, CallsOK
  <2>6. CountsOK
    <3>1. made = 0 /\ others = 0
      BY <1>1 DEF TrayInit
    <3>2. QED
      BY <3>1, TrayBounds DEF CountsOK
  <2>7. QED
    BY <2>3, <2>4, <2>5, <2>6 DEF TrayOK
<1>2. QED
  BY <1>1

\* What the officer does keeps the types.
LEMMA TrayOfficerTyped == ASSUME TrayOK, Officer PROVE TrayOK'
<1>0. TableOK /\ ScreenOK /\ CallsOK /\ CountsOK
  BY DEF TrayOK
<1>1. \A f \in Filters : tray[f] \in Lists
  BY <1>0 DEF ScreenOK
<1>2. ASSUME NEW f \in Filters, SetFilter(f) PROVE TrayOK'
  <2>1. Mounted(tray[f], FALSE) \in Lists
    BY <1>1, QueryTyped
  <2>2. ScreenOK'
    BY <1>0, <1>2, <2>1 DEF SetFilter, ScreenOK, dialogs, history
  <2>3. TableOK' /\ CallsOK' /\ CountsOK'
    BY <1>0, <1>2 DEF SetFilter, TableOK, CallsOK, CountsOK, counts
  <2>4. QED
    BY <2>2, <2>3 DEF TrayOK
<1>3. ASSUME NEW s \in Submissions, OpenReDeriv(s) \/ OpenConfirm(s) PROVE TrayOK'
  <2>1. ScreenOK'
    <3>1. CASE OpenReDeriv(s)
      BY <1>0, <3>1 DEF OpenReDeriv, ScreenOK, history
    <3>2. CASE OpenConfirm(s)
      BY <1>0, <3>2 DEF OpenConfirm, ScreenOK, history
    <3>3. QED
      BY <1>3, <3>1, <3>2
  <2>2. TableOK' /\ CallsOK' /\ CountsOK'
    BY <1>0, <1>3 DEF OpenReDeriv, OpenConfirm, TableOK, CallsOK, CountsOK, counts
  <2>3. QED
    BY <2>1, <2>2 DEF TrayOK
<1>4. ASSUME CloseDialog PROVE TrayOK'
  BY <1>0, <1>4 DEF TrayOK, CloseDialog, TableOK, ScreenOK, CallsOK, CountsOK, counts, history
<1>5. ASSUME NEW a \in Offices, PickArea(a) PROVE TrayOK'
  BY <1>0, <1>5 DEF TrayOK, PickArea, TableOK, ScreenOK, CallsOK, CountsOK, counts
<1>6. ASSUME ConfirmReDeriv \/ ConfirmFinalizar PROVE TrayOK'
  <2>1. PICK op \in Ops, s \in Submissions, a \in Offices \cup {Nil} : Send(op, s, a)
    BY <1>0, <1>6 DEF ConfirmReDeriv, ConfirmFinalizar, ScreenOK, Ops
  <2>2. CallsOK' /\ CountsOK'
    BY <1>0, <2>1, SendKeeps
  <2>3. TableOK' /\ ScreenOK'
    BY <1>0, <2>1 DEF Send, TableOK, ScreenOK, dialogs, history
  <2>4. QED
    BY <2>2, <2>3 DEF TrayOK
<1>7. ASSUME Focus PROVE TrayOK'
  <2>1. Mounted(tray[filter], TRUE) \in Lists
    BY <1>0, <1>1, QueryTyped DEF ScreenOK
  <2>2. ScreenOK'
    BY <1>0, <1>7, <2>1 DEF Focus, ScreenOK, dialogs, history
  <2>3. CountsOK'
    BY <1>0, <1>7, HappenKeeps DEF Focus
  <2>4. TableOK' /\ CallsOK'
    BY <1>0, <1>7 DEF Focus, TableOK, CallsOK
  <2>5. QED
    BY <2>2, <2>3, <2>4 DEF TrayOK
<1>8. QED
  BY <1>2, <1>3, <1>4, <1>5, <1>6, <1>7 DEF Officer

\* What becomes of a call keeps the types.
LEMMA CallStepTyped ==
  ASSUME TrayOK, AreaWasChosenForIt, NEW c \in calls,
         UpdateStatus(c) \/ Lose(c) \/ Succeed(c) \/ Fail(c)
  PROVE  TrayOK'
<1>0. TableOK /\ ScreenOK /\ CallsOK /\ CountsOK
  BY DEF TrayOK
<1>1. c \in Call
  BY <1>0 DEF CallsOK
<1>2. ASSUME UpdateStatus(c) PROVE TrayOK'
  <2>1. c.of \in Submissions /\ (c.op = "derivar" => c.area \in Offices)
    BY <1>1, CallTyped DEF AreaWasChosenForIt
  <2>2. TableOK'
    BY <1>0, <1>2, <2>1 DEF UpdateStatus, TableOK, Row, TrayStatuses
  <2>3. CallsOK'
    BY <1>0, <1>2, ReplaceKeeps DEF UpdateStatus
  <2>4. ScreenOK' /\ CountsOK'
    BY <1>0, <1>2 DEF UpdateStatus, ScreenOK, CountsOK, dialogs, counts, history
  <2>5. QED
    BY <2>2, <2>3, <2>4 DEF TrayOK
<1>3. ASSUME Lose(c) PROVE TrayOK'
  <2>1. CallsOK'
    BY <1>0, <1>3, ReplaceKeeps DEF Lose
  <2>2. CountsOK'
    BY <1>0, <1>3, HappenKeeps DEF Lose
  <2>3. TableOK' /\ ScreenOK'
    BY <1>0, <1>3 DEF Lose, TableOK, ScreenOK, dialogs, history
  <2>4. QED
    BY <2>1, <2>2, <2>3 DEF TrayOK
<1>4. ASSUME Succeed(c) PROVE TrayOK'
  <2>1. InvalidateTray \in [Filters -> Lists]
    BY <1>0, QueryTyped DEF InvalidateTray, ScreenOK
  <2>2. ScreenOK'
    BY <1>0, <1>1, <1>4, <2>1, CallTyped DEF Succeed, ScreenOK
  <2>3. CallsOK' /\ TableOK' /\ CountsOK'
    BY <1>0, <1>4 DEF Succeed, CallsOK, TableOK, CountsOK, counts
  <2>4. QED
    BY <2>2, <2>3 DEF TrayOK
<1>5. ASSUME Fail(c) PROVE TrayOK'
  BY <1>0, <1>5 DEF TrayOK, Fail, TableOK, ScreenOK, CallsOK, CountsOK, dialogs, counts, history
<1>6. QED
  BY <1>2, <1>3, <1>4, <1>5

\* Others and the queries keep the types.
LEMMA ElsewhereTyped ==
  ASSUME TrayOK, \/ \E s \in Submissions, row \in Row : MoveElsewhere(s, row)
                 \/ \E f \in Filters : AnswerTray(f) \/ TrayArrives(f)
  PROVE  TrayOK'
<1>0. TableOK /\ ScreenOK /\ CallsOK /\ CountsOK
  BY DEF TrayOK
<1>1. ASSUME NEW s \in Submissions, NEW row \in Row, MoveElsewhere(s, row) PROVE TrayOK'
  <2>1. CountsOK'
    BY <1>0, <1>1, HappenKeeps DEF MoveElsewhere
  <2>2. TableOK'
    BY <1>0, <1>1 DEF MoveElsewhere, TableOK
  <2>3. ScreenOK' /\ CallsOK'
    BY <1>0, <1>1 DEF MoveElsewhere, ScreenOK, CallsOK, dialogs
  <2>4. QED
    BY <2>1, <2>2, <2>3 DEF TrayOK
<1>2. ASSUME NEW f \in Filters, AnswerTray(f) PROVE TrayOK'
  <2>1. Answered(tray[f], Offered) \in Lists
    BY <1>0, QueryTyped DEF ScreenOK, Offered
  <2>2. ScreenOK'
    BY <1>0, <1>2, <2>1 DEF AnswerTray, ScreenOK, dialogs, history
  <2>3. TableOK' /\ CallsOK' /\ CountsOK'
    BY <1>0, <1>2 DEF AnswerTray, TableOK, CallsOK, CountsOK, counts
  <2>4. QED
    BY <2>2, <2>3 DEF TrayOK
<1>3. ASSUME NEW f \in Filters, TrayArrives(f) PROVE TrayOK'
  <2>1. Arrived(tray[f]) \in Lists
    BY <1>0, <1>3, QueryTyped DEF ScreenOK, TrayArrives
  <2>2. listed' \subseteq Submissions
    BY <1>0, <1>3, QueryTyped DEF ScreenOK, TrayArrives
  <2>3. ScreenOK'
    BY <1>0, <1>3, <2>1, <2>2 DEF TrayArrives, ScreenOK, history
  <2>4. TableOK' /\ CallsOK' /\ CountsOK'
    BY <1>0, <1>3 DEF TrayArrives, TableOK, CallsOK, CountsOK, counts
  <2>5. QED
    BY <2>3, <2>4 DEF TrayOK
<1>4. QED
  BY <1>1, <1>2, <1>3
-----------------------------------------------------------------------------
(* The tray: an area is routed to the submission it was chosen for. *)

\* What is chosen in the open dialog was chosen for its submission, so that the
\* button sends nothing else.
DialogIsItsOwn ==
  /\ reDeriv.area # Mine
  /\ reDeriv.of # Nil /\ reDeriv.area # Nil => picked = reDeriv.of

TrayInv == TrayOK /\ AreaWasChosenForIt /\ DialogIsItsOwn

LEMMA TrayStarts == TrayInit => TrayInv
<1>1. ASSUME TrayInit PROVE AreaWasChosenForIt
  BY <1>1 DEF TrayInit, AreaWasChosenForIt
<1>2. ASSUME TrayInit PROVE DialogIsItsOwn
  <2>1. reDeriv = [of |-> Nil, area |-> Nil]
    BY <1>2 DEF TrayInit
  <2>2. QED
    BY <1>2, <2>1, AreaAssumption DEF DialogIsItsOwn
<1>3. QED
  BY InitTyped, <1>1, <1>2 DEF TrayInv

LEMMA TrayTyped == TrayOK /\ AreaWasChosenForIt /\ [TrayNext]_trayVars => TrayOK'
<1>1. ASSUME TrayOK, UNCHANGED trayVars PROVE TrayOK'
  BY <1>1 DEF TrayOK, TableOK, ScreenOK, CallsOK, CountsOK, trayVars, dialogs, counts, history
<1>2. QED
  BY <1>1, TrayOfficerTyped, CallStepTyped, ElsewhereTyped DEF TrayNext

LEMMA TrayMoves == TrayInv /\ [TrayNext]_trayVars => TrayInv'
<1> SUFFICES ASSUME TrayInv, [TrayNext]_trayVars PROVE AreaWasChosenForIt' /\ DialogIsItsOwn'
  BY TrayTyped DEF TrayInv
<1>0. TrayOK /\ AreaWasChosenForIt /\ DialogIsItsOwn
  BY DEF TrayInv
<1>1. reDeriv \in [of : Submissions \cup {Nil}, area : Offices \cup {Nil}]
  BY <1>0 DEF TrayOK, ScreenOK
<1>2. \A c \in calls : c \in Call
  BY <1>0 DEF TrayOK, CallsOK
<1>3. CASE UNCHANGED <<reDeriv, calls, picked>>
  BY <1>0, <1>3 DEF AreaWasChosenForIt, DialogIsItsOwn
<1>4. ASSUME NEW s \in Submissions, OpenReDeriv(s) \/ OpenConfirm(s)
      PROVE  AreaWasChosenForIt' /\ DialogIsItsOwn'
  BY <1>0, <1>4, AreaAssumption
  DEF OpenReDeriv, OpenConfirm, AreaWasChosenForIt, DialogIsItsOwn, history
<1>5. ASSUME CloseDialog PROVE AreaWasChosenForIt' /\ DialogIsItsOwn'
  BY <1>0, <1>1, <1>5 DEF CloseDialog, AreaWasChosenForIt, DialogIsItsOwn, history
<1>6. ASSUME NEW a \in Offices, PickArea(a) PROVE AreaWasChosenForIt' /\ DialogIsItsOwn'
  BY <1>0, <1>1, <1>6 DEF PickArea, AreaWasChosenForIt, DialogIsItsOwn
<1>7. ASSUME ConfirmReDeriv \/ ConfirmFinalizar
      PROVE  AreaWasChosenForIt' /\ DialogIsItsOwn'
  <2>1. DialogIsItsOwn'
    BY <1>0, <1>7 DEF ConfirmReDeriv, ConfirmFinalizar, Send, DialogIsItsOwn, dialogs, history
  <2>2. CASE ConfirmReDeriv
    <3>1. picked = reDeriv.of /\ reDeriv.area \notin {Nil, Mine}
      BY <1>0, <2>2 DEF ConfirmReDeriv, DialogIsItsOwn
    <3>2. QED
      BY <1>0, <2>1, <2>2, <3>1 DEF ConfirmReDeriv, Send, AreaWasChosenForIt
  <2>3. CASE ConfirmFinalizar
    BY <1>0, <2>1, <2>3 DEF ConfirmFinalizar, Send, AreaWasChosenForIt
  <2>4. QED
    BY <1>7, <2>2, <2>3
<1>8. ASSUME NEW c \in calls, UpdateStatus(c) \/ Lose(c)
      PROVE  AreaWasChosenForIt' /\ DialogIsItsOwn'
  <2>1. PICK stage \in {"ok", "failed"} : Replace(c, stage)
    BY <1>8 DEF UpdateStatus, Lose
  <2> DEFINE moved == [c EXCEPT !.stage = stage]
  <2>2. AreaWasChosenForIt'
    <3>1. moved.op = c.op /\ moved.of = c.of /\ moved.area = c.area /\ moved.picked = c.picked
      BY <1>2, <2>1, CallTyped
    <3>2. calls' = (calls \ {c}) \cup {moved}
      BY <2>1 DEF Replace
    <3> HIDE DEF moved
    <3>3. QED
      BY <1>0, <3>1, <3>2 DEF AreaWasChosenForIt
  <2>3. DialogIsItsOwn'
    BY <1>0, <1>8 DEF UpdateStatus, Lose, DialogIsItsOwn, dialogs, history
  <2>4. QED
    BY <2>2, <2>3
<1>9. ASSUME NEW c \in calls, Succeed(c) \/ Fail(c)
      PROVE  AreaWasChosenForIt' /\ DialogIsItsOwn'
  BY <1>0, <1>1, <1>9, AreaAssumption
  DEF Succeed, Fail, AreaWasChosenForIt, DialogIsItsOwn, dialogs, history
<1>10. QED
  <2>1. ASSUME \/ \E f \in Filters : SetFilter(f) \/ AnswerTray(f) \/ TrayArrives(f)
               \/ \E s \in Submissions, row \in Row : MoveElsewhere(s, row)
               \/ Focus
               \/ UNCHANGED trayVars
        PROVE  UNCHANGED <<reDeriv, calls, picked>>
    BY <2>1
    DEF SetFilter, AnswerTray, TrayArrives, MoveElsewhere, Focus, trayVars, dialogs, history
  <2>2. QED
    BY <1>3, <1>4, <1>5, <1>6, <1>7, <1>8, <1>9, <2>1 DEF TrayNext, Officer

\* The table, the cache, the dialogs and the calls stay typed: no submission is
\* ever moved to an area that is none.
THEOREM TrayTypeCorrect == TraySpec => []TrayTypeOK
<1>0. TrayInit => TrayInv
  BY TrayStarts
<1>1. TrayInv => TrayTypeOK
  BY TrayIsTyped DEF TrayInv
<1>2. QED
  BY <1>0, TrayMoves, <1>1, PTL DEF TraySpec

\* An office routes a submission to the area chosen for it and to no other,
\* however dialogs are closed, opened and answered.
THEOREM AreaChosen == TraySpec => []AreaWasChosenForIt
<1>0. TrayInit => TrayInv
  BY TrayStarts
<1>1. TrayInv => AreaWasChosenForIt
  BY DEF TrayInv
<1>2. QED
  BY <1>0, TrayMoves, <1>1, PTL DEF TraySpec
-----------------------------------------------------------------------------
(* The tray: what was moved out is offered no more. *)

\* An answer, or data that is not stale, without what was handled.
Without(q) ==
  /\ q.fetch = "answered" => q.answer \cap handled = {}
  /\ q.data # Nil /\ ~q.stale => q.data \cap handled = {}

\* What was handled stays out of the tray: an office only moves a submission out.
HandledInv ==
  /\ handled \cap Offered = {}
  /\ \A f \in Filters \ slipped : Without(tray[f])

\* A query that is asked, or left alone, still is without it.
LEMMA WithoutKept ==
  ASSUME NEW q \in Lists, Without(q), NEW b \in BOOLEAN PROVE Without(Mounted(q, b))
<1>1. CASE Mounted(q, b) = q
  BY <1>1
<1>2. CASE Mounted(q, b) = Ask(q)
  <2>1. Ask(q).fetch = "asked" /\ Ask(q).data = q.data /\ Ask(q).stale = q.stale
    BY DEF Ask, Lists, Query
  <2>2. QED
    BY <1>2, <2>1 DEF Without
<1>3. QED
  BY <1>1, <1>2 DEF Mounted

\* An invalidation leaves nothing that is fresh or answered, unless it is survived.
LEMMA InvalidatedIsStale ==
  ASSUME NEW q \in Lists, NEW b \in BOOLEAN, ~Survives(q, b)
  PROVE  Invalidated(q, b).stale = TRUE /\ Invalidated(q, b).fetch # "answered"
<1>1. PICK s : s = [q EXCEPT !.stale = TRUE]
  OBVIOUS
<1>2. s.stale = TRUE /\ s.fetch = q.fetch
  BY <1>1 DEF Lists, Query
<1>3. CASE b
  <2>1. Invalidated(q, b) = [s EXCEPT !.fetch = "asked", !.answer = Nil]
    BY <1>1, <1>3 DEF Invalidated, Ask
  <2>2. [s EXCEPT !.fetch = "asked", !.answer = Nil].fetch = "asked"
    BY <1>1 DEF Lists, Query
  <2>3. [s EXCEPT !.fetch = "asked", !.answer = Nil].stale = s.stale
    BY <1>1 DEF Lists, Query
  <2>4. QED
    BY <1>2, <2>1, <2>2, <2>3
<1>4. CASE ~b
  <2>1. q.fetch = "idle"
    BY <1>4 DEF Survives
  <2>2. Invalidated(q, b) = s
    BY <1>1, <1>4 DEF Invalidated
  <2>3. QED
    BY <1>2, <2>1, <2>2
<1>5. QED
  BY <1>3, <1>4

\* A step that handles nothing and offers nothing that was handled.
LEMMA HandledKept ==
  ASSUME HandledInv, handled' \subseteq handled, slipped' = slipped,
         handled' \cap Offered' = {},
         \A f \in Filters \ slipped : Without(tray'[f])
  PROVE  HandledInv'
<1>1. \A f \in Filters \ slipped : Without(tray[f])'
  BY DEF Without
<1>2. QED
  BY <1>1 DEF HandledInv, Without

LEMMA OfficerHandled ==
  ASSUME TrayOK, HandledInv, Officer PROVE HandledInv'
<1>1. /\ handled' = handled /\ slipped' = slipped /\ table' = table
      /\ handled' \cap Offered' = {}
  <2>1. handled' = handled /\ slipped' = slipped /\ table' = table
    BY DEF Officer, SetFilter, OpenReDeriv, OpenConfirm, CloseDialog, PickArea, ConfirmReDeriv,
           ConfirmFinalizar, Send, Focus, history
  <2>2. Offered' = Offered
    BY <2>1 DEF Offered
  <2>3. QED
    BY <2>1, <2>2 DEF HandledInv
<1>2. filter \in Filters /\ tray \in [Filters -> Lists]
  BY DEF TrayOK, ScreenOK
<1>3. PICK b \in BOOLEAN : \A f \in Filters : tray'[f] = tray[f] \/ tray'[f] = Mounted(tray[f], b)
  <2>1. CASE \E f \in Filters : SetFilter(f)
    BY <1>2, <2>1 DEF SetFilter
  <2>2. CASE Focus
    BY <1>2, <2>2 DEF Focus
  <2>3. CASE tray' = tray
    BY <2>3
  <2>4. QED
    BY <2>1, <2>2, <2>3
    DEF Officer, OpenReDeriv, OpenConfirm, CloseDialog, PickArea, ConfirmReDeriv,
        ConfirmFinalizar, Send
<1>4. \A f \in Filters \ slipped : Without(tray'[f])
  BY <1>2, <1>3, WithoutKept DEF HandledInv
<1>5. QED
  BY <1>1, <1>4, HandledKept

LEMMA CallStepHandled ==
  ASSUME TrayOK, AreaWasChosenForIt, HandledInv, NEW c \in calls,
         UpdateStatus(c) \/ Lose(c) \/ Succeed(c) \/ Fail(c)
  PROVE  HandledInv'
<1>1. /\ c \in Call /\ c.of \in Submissions /\ c.op \in Ops /\ tray \in [Filters -> Lists]
      /\ table \in [Submissions -> Row]
  BY CallTyped DEF TrayOK, TableOK, ScreenOK, CallsOK
<1>2. ASSUME UNCHANGED <<tray, handled, slipped>>, Offered' \subseteq Offered
      PROVE  HandledInv'
  BY <1>2, HandledKept DEF HandledInv
<1>3. CASE UpdateStatus(c)
  <2>1. PICK row : /\ row = IF c.op = "derivar" THEN [status |-> "derivado", area |-> c.area]
                            ELSE [table[c.of] EXCEPT !.status = "finalizado"]
                   /\ table' = [table EXCEPT ![c.of] = row]
    BY <1>1, <1>3 DEF UpdateStatus
  <2>2. row # [status |-> "derivado", area |-> Mine]
    <3>1. CASE c.op = "derivar"
      BY <2>1, <3>1 DEF AreaWasChosenForIt
    <3>2. CASE c.op # "derivar"
      <4>1. row.status = "finalizado"
        BY <1>1, <2>1, <3>2 DEF Row
      <4>2. QED
        BY <4>1
    <3>3. QED
      BY <3>1, <3>2
  <2>3. Offered' \subseteq Offered
    BY <1>1, <2>1, <2>2 DEF Offered
  <2>4. QED
    BY <1>2, <1>3, <2>3 DEF UpdateStatus, history
<1>4. CASE Lose(c) \/ Fail(c)
  BY <1>2, <1>4 DEF Lose, Fail, history, Offered
<1>5. CASE Succeed(c)
  <2>1. handled' \cap Offered' = {}
    <3>1. Offered' = Offered /\ handled' \subseteq handled \cup ({c.of} \ Offered)
      BY <1>5 DEF Succeed, Offered
    <3>2. QED
      BY <3>1 DEF HandledInv
  <2>2. ASSUME NEW f \in Filters \ slipped' PROVE Without(tray[f])'
    <3>1. ~Survives(tray[f], f = filter) /\ tray'[f] = Invalidated(tray[f], f = filter)
      BY <1>5, <2>2 DEF Succeed, InvalidateTray
    <3>2. tray[f] \in Lists /\ (f = filter) \in BOOLEAN
      BY <1>1
    <3>3. tray'[f].stale = TRUE /\ tray'[f].fetch # "answered"
      BY <3>1, <3>2, InvalidatedIsStale
    <3>4. QED
      BY <3>3 DEF Without
  <2>3. QED
    BY <2>1, <2>2 DEF HandledInv
<1>6. QED
  BY <1>3, <1>4, <1>5

LEMMA ElsewhereHandled ==
  ASSUME TrayOK, HandledInv, \/ \E s \in Submissions, row \in Row : MoveElsewhere(s, row)
                             \/ \E f \in Filters : AnswerTray(f) \/ TrayArrives(f)
  PROVE  HandledInv'
<1>1. tray \in [Filters -> Lists] /\ table \in [Submissions -> Row]
  BY DEF TrayOK, TableOK, ScreenOK
<1>2. ASSUME NEW s \in Submissions, NEW row \in Row, MoveElsewhere(s, row) PROVE HandledInv'
  <2>1. handled' = handled \ {s} /\ slipped' = slipped /\ tray' = tray
    BY <1>2 DEF MoveElsewhere
  <2>2. Offered' \subseteq Offered \cup {s}
    BY <1>1, <1>2 DEF MoveElsewhere, Offered
  <2>3. QED
    BY <2>1, <2>2, HandledKept DEF HandledInv
<1>3. ASSUME NEW f \in Filters, AnswerTray(f) \/ TrayArrives(f) PROVE HandledInv'
  <2>1. handled' = handled /\ slipped' = slipped /\ handled' \cap Offered' = {}
    BY <1>3 DEF AnswerTray, TrayArrives, HandledInv, history, Offered
  <2>2. \A g \in Filters \ {f} : tray'[g] = tray[g]
    BY <1>1, <1>3 DEF AnswerTray, TrayArrives
  <2>3. PICK q \in Lists : q = tray[f]
    BY <1>1
  <2>4. f \notin slipped => Without(tray'[f])
    <3>1. CASE AnswerTray(f)
      <4>1. PICK d : d = Offered
        OBVIOUS
      <4>2. tray'[f] = [q EXCEPT !.fetch = "answered", !.answer = d]
        BY <1>1, <2>3, <3>1, <4>1 DEF AnswerTray, Answered
      <4>3. tray'[f].answer = d /\ tray'[f].data = q.data /\ tray'[f].stale = q.stale
        BY <4>2 DEF Lists, Query
      <4>4. QED
        BY <2>3, <4>1, <4>3 DEF HandledInv, Without
    <3>2. CASE TrayArrives(f)
      <4>1. tray'[f] = Arrived(q) /\ q.fetch = "answered"
        BY <1>1, <2>3, <3>2 DEF TrayArrives
      <4>2. tray'[f].data = q.answer /\ tray'[f].fetch = "idle"
        BY <4>1 DEF Arrived
      <4>3. QED
        BY <2>3, <4>1, <4>2 DEF HandledInv, Without
    <3>3. QED
      BY <1>3, <3>1, <3>2
  <2>5. \A g \in Filters \ slipped : Without(tray'[g])
    BY <2>2, <2>4 DEF HandledInv
  <2>6. QED
    BY <2>1, <2>5, HandledKept
<1>4. QED
  BY <1>2, <1>3

LEMMA HandledStep == TrayInv /\ HandledInv /\ [TrayNext]_trayVars => HandledInv'
<1> SUFFICES ASSUME TrayInv, HandledInv, [TrayNext]_trayVars PROVE HandledInv'
  OBVIOUS
<1>1. TrayOK /\ AreaWasChosenForIt
  BY DEF TrayInv
<1>2. CASE UNCHANGED trayVars
  BY <1>2 DEF trayVars, history, HandledInv, Without, Offered
<1>3. CASE TrayNext
  BY <1>1, <1>3, OfficerHandled, CallStepHandled, ElsewhereHandled DEF TrayNext
<1>4. QED
  BY <1>2, <1>3

\* What the page was told it moved out is not offered again by a list that is settled,
\* under either filter, unless an invalidation left a fetch of that filter under way.
THEOREM HandledStayOut == TraySpec => []HandledIsNotOffered
<1>0. TrayInit => TrayInv
  BY TrayStarts
<1>1. TrayInit => HandledInv
  BY DEF TrayInit, HandledInv, Without, Ask, NoQuery
<1>2. HandledInv => HandledIsNotOffered
  BY DEF HandledInv, HandledIsNotOffered, Without, Settled
<1>3. QED
  BY <1>0, <1>1, <1>2, TrayMoves, HandledStep, PTL DEF TraySpec
=============================================================================
