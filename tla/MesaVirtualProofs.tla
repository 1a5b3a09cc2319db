-------------------------- MODULE MesaVirtualProofs --------------------------
(***************************************************************************)
(* Proofs about MesaVirtual, for every set of citizens, officers, areas    *)
(* and numbers and every bound.                                            *)
(***************************************************************************)
EXTENDS MesaVirtual, SequenceTheorems, FiniteSetTheorems, TLAPS

-----------------------------------------------------------------------------
(* Tables: the position of a row is its id. *)

\* Appending a row to a table of n rows: the rows keep their ids, the new one
\* has id n + 1.
LEMMA AppendRow ==
  ASSUME NEW S, NEW n \in Nat, NEW t \in [1 .. n -> S], NEW e \in S
  PROVE  /\ t \in Seq(S) /\ Len(t) = n
         /\ Append(t, e) \in [1 .. n + 1 -> S]
         /\ Append(t, e) \in Seq(S)
         /\ Len(Append(t, e)) = n + 1
         /\ \A i \in 1 .. n : Append(t, e)[i] = t[i]
         /\ Append(t, e)[n + 1] = e
<1>1. t \in Seq(S) /\ Len(t) = n
  BY SeqDef
<1>2. /\ Append(t, e) \in Seq(S)
      /\ Len(Append(t, e)) = n + 1
      /\ \A i \in 1 .. n : Append(t, e)[i] = t[i]
      /\ Append(t, e)[n + 1] = e
  BY <1>1, AppendProperties
<1>3. Append(t, e) \in [1 .. n + 1 -> S]
  BY <1>2, LenProperties
<1>4. QED
  BY <1>1, <1>2, <1>3

-----------------------------------------------------------------------------
(* Type correctness. *)

AnyRequest == CitizenRequest \cup OfficerRequest \cup {Idle}

TablesOK ==
  /\ submissions \in Seq(Submission)
  /\ flows \in [Ids -> Seq(Flow)]

\* What person p does is typed.
PersonOK(p) ==
  /\ p \in Citizens => requests[p] \in CitizenRequest \cup {Idle}
  /\ p \in Officers => requests[p] \in OfficerRequest \cup {Idle}
  /\ requests[p].stage \notin {"idle", "drawn"} => requests[p].row \in Ids

PeopleOK ==
  /\ pages \in [Officers -> [row : Ids, status : Statuses] \cup {Nil}]
  /\ requests \in [People -> AnyRequest]
  /\ \A p \in People : PersonOK(p)
  /\ arrived \in Nat
  /\ aborted \in Nat

LEMMA TypeSplit == TypeOK <=> TablesOK /\ PeopleOK
BY DEF TypeOK, TablesOK, PeopleOK, PersonOK, AnyRequest, People

LEMMA TypePrime == ASSUME TablesOK', PeopleOK' PROVE TypeOK'
BY DEF TypeOK, TablesOK, PeopleOK, PersonOK, AnyRequest, People

\* What one may assume of a citizen's request by its stage.
LEMMA CitizenTyped ==
  ASSUME NEW r \in CitizenRequest \cup {Idle}
  PROVE  /\ r.stage \in {"idle", "drawn", "attaching", "registering",
                         "rejecting", "destroying"}
         /\ r.stage = "idle" => r = Idle
         /\ r.stage = "drawn" => r.number \in Numbers /\ r.upload \in Uploads
         /\ r.stage \notin {"idle", "drawn"} => r.row \in Nat
         /\ r.stage = "destroying" => r.seen \in Nat
BY DEF CitizenRequest, Idle

\* What one may assume of an officer's request by its stage.
LEMMA OfficerTyped ==
  ASSUME NEW r \in OfficerRequest \cup {Idle}
  PROVE  /\ r.stage \in {"idle", "loaded", "recording", "attaching"}
         /\ r.stage = "idle" => r = Idle
         /\ r.stage # "idle" => r.row \in Nat
         /\ r.stage \in {"loaded", "recording"}
              => /\ r.flow \in Flow /\ r.attach \in BOOLEAN
                 /\ r = [stage |-> r.stage, row |-> r.row, flow |-> r.flow,
                         attach |-> r.attach]
BY DEF OfficerRequest, Idle

\* The requests that a step leads to.
LEMMA RequestsTyped ==
  /\ Idle \in CitizenRequest \cup {Idle}
  /\ Idle \in OfficerRequest \cup {Idle}
  /\ Idle.stage = "idle"
  /\ \A n \in Numbers, u \in Uploads :
       [stage |-> "drawn", number |-> n, upload |-> u] \in CitizenRequest
  /\ \A s \in {"attaching", "registering", "rejecting"}, i \in Nat :
       [stage |-> s, row |-> i] \in CitizenRequest
  /\ \A i, k \in Nat : [stage |-> "destroying", row |-> i, seen |-> k] \in CitizenRequest
  /\ \A s \in {"loaded", "recording"}, i \in Nat, f \in Flow, b \in BOOLEAN :
       [stage |-> s, row |-> i, flow |-> f, attach |-> b] \in OfficerRequest
  /\ \A i \in Nat : [stage |-> "attaching", row |-> i] \in OfficerRequest
BY DEF CitizenRequest, OfficerRequest, Idle

\* The ids of the rows are 1, 2, ...
LEMMA IdsTyped ==
  ASSUME TablesOK
  PROVE  /\ Len(submissions) \in Nat
         /\ Ids = 1 .. Len(submissions)
         /\ Present \subseteq Ids
         /\ \A s \in Ids : s \in Nat /\ submissions[s] \in Submission
                           /\ flows[s] \in Seq(Flow)
<1>1. Len(submissions) \in Nat /\ Ids = 1 .. Len(submissions)
  BY LenProperties DEF TablesOK, Ids
<1>2. \A s \in Ids : submissions[s] \in Submission
  BY <1>1, ElementOfSeq DEF TablesOK
<1>3. QED
  BY <1>1, <1>2 DEF TablesOK, Present

\* A person who moves to a typed request keeps the people typed.
LEMMA PersonMoves ==
  ASSUME PeopleOK, NEW p \in People, NEW r, Become(p, r),
         p \in Citizens => r \in CitizenRequest \cup {Idle},
         p \in Officers => r \in OfficerRequest \cup {Idle},
         r.stage \notin {"idle", "drawn"} => r.row \in Ids',
         Ids \subseteq Ids', arrived' \in Nat, aborted' \in Nat,
         pages' \in [Officers -> [row : Ids', status : Statuses] \cup {Nil}]
  PROVE  PeopleOK'
<1>1. r \in AnyRequest
  BY DEF People, AnyRequest
<1>2. requests' \in [People -> AnyRequest]
  BY <1>1 DEF PeopleOK, Become
<1>3. requests'[p] = r /\ \A q \in People \ {p} : requests'[q] = requests[q]
  BY DEF PeopleOK, Become
<1>4. ASSUME NEW q \in People PROVE PersonOK(q)'
  <2>1. CASE q = p
    BY <1>3, <2>1 DEF PersonOK
  <2>2. CASE q # p
    BY <1>3, <2>2 DEF PersonOK, PeopleOK
  <2>3. QED
    BY <2>1, <2>2
<1>5. QED
  BY <1>2, <1>4 DEF PeopleOK

\* Pages stay typed when rows only get more.
LEMMA PagesKept ==
  ASSUME PeopleOK, Ids \subseteq Ids'
  PROVE  pages \in [Officers -> [row : Ids', status : Statuses] \cup {Nil}]
BY DEF PeopleOK

\* Tables that do not change stay typed and keep their ids.
LEMMA TablesUnchanged ==
  ASSUME TablesOK, UNCHANGED tables
  PROVE  TablesOK' /\ Ids' = Ids /\ Present' = Present
BY DEF TablesOK, tables, Ids, Present

\* A step that touches no table.
LEMMA ReadKeepsTypes ==
  ASSUME TypeOK, NEW p \in People, NEW r, Become(p, r), UNCHANGED tables,
         p \in Citizens => r \in CitizenRequest \cup {Idle},
         p \in Officers => r \in OfficerRequest \cup {Idle},
         r.stage \notin {"idle", "drawn"} => r.row \in Ids,
         arrived' \in Nat, aborted' \in Nat, UNCHANGED pages
  PROVE  TypeOK'
<1>1. TablesOK /\ PeopleOK
  BY TypeSplit
<1>2. TablesOK' /\ Ids' = Ids
  BY <1>1, TablesUnchanged
<1>3. pages' \in [Officers -> [row : Ids', status : Statuses] \cup {Nil}]
  BY <1>1, <1>2 DEF PeopleOK
<1>4. PeopleOK'
  BY <1>1, <1>2, <1>3, PersonMoves
<1>5. QED
  BY <1>2, <1>4, TypePrime

LEMMA TypeInit == Init => TypeOK
<1> SUFFICES ASSUME Init PROVE TypeOK
  OBVIOUS
<1>1. submissions \in Seq(Submission) /\ Ids = {}
  BY EmptySeq DEF Init, Ids
<1>2. flows \in [Ids -> Seq(Flow)]
  <2>1. DOMAIN flows = {}
    BY DEF Init
  <2>2. QED
    BY <1>1, <2>1 DEF Init
<1>3. requests \in [People -> CitizenRequest \cup OfficerRequest \cup {Idle}]
  BY DEF Init
<1>4. \A p \in People : requests[p] = Idle /\ requests[p].stage = "idle"
  BY DEF Init, Idle
<1>5. QED
  BY <1>1, <1>2, <1>3, <1>4 DEF Init, TypeOK, People

\* What a step does to the row and the history of one submission.
LEMMA RowUpdate ==
  ASSUME TablesOK, NEW s \in Ids, NEW row \in Submission, NEW h \in Seq(Flow),
         submissions' = [submissions EXCEPT ![s] = row],
         flows' = [flows EXCEPT ![s] = h]
  PROVE  /\ TablesOK' /\ Ids' = Ids
         /\ submissions'[s] = row /\ flows'[s] = h
         /\ \A t \in Ids \ {s} : submissions'[t] = submissions[t] /\ flows'[t] = flows[t]
<1>1. Ids = 1 .. Len(submissions)
  BY IdsTyped
<1>2. submissions' \in Seq(Submission) /\ Len(submissions') = Len(submissions)
  BY <1>1, ExceptSeq DEF TablesOK
<1>3. Ids' = Ids
  BY <1>1, <1>2, LenProperties DEF Ids
<1>4. flows' \in [Ids -> Seq(Flow)]
  BY DEF TablesOK
<1>5. /\ submissions'[s] = row
      /\ \A t \in Ids \ {s} : submissions'[t] = submissions[t]
  BY DEF Ids
<1>6. /\ flows'[s] = h
      /\ \A t \in Ids \ {s} : flows'[t] = flows[t]
  BY DEF TablesOK
<1>7. QED
  BY <1>2, <1>3, <1>4, <1>5, <1>6 DEF TablesOK

\* A new submission gets the next id, the default area and no history.
LEMMA InsertTyped ==
  ASSUME TypeOK, NEW c \in Citizens, InsertSubmission(c)
  PROVE  /\ TablesOK'
         /\ Len(submissions) + 1 \notin Ids
         /\ Ids' = Ids \cup {Len(submissions) + 1}
         /\ \A s \in Ids : submissions'[s] = submissions[s] /\ flows'[s] = flows[s]
         /\ submissions'[Len(submissions) + 1] =
              [number |-> requests[c].number, status |-> "registrado",
               area |-> DefaultArea, present |-> TRUE, files |-> FALSE]
         /\ flows'[Len(submissions) + 1] = <<>>
<1> DEFINE n == Len(submissions)
           row == [number |-> requests[c].number, status |-> "registrado",
                   area |-> DefaultArea, present |-> TRUE, files |-> FALSE]
<1>1. TablesOK /\ PeopleOK
  BY TypeSplit
<1>2. Ids = 1 .. n /\ n \in Nat
  BY <1>1, IdsTyped
<1>3. requests[c].number \in Numbers
  BY CitizenTyped DEF TypeOK, InsertSubmission
<1>4. row \in Submission
  BY <1>3, AreasAssumption DEF Submission, Statuses, OptionalArea
<1>5. submissions \in [1 .. n -> Submission]
  BY <1>1, <1>2, LenProperties DEF TablesOK
<1>6. submissions' = Append(submissions, row) /\ flows' = Append(flows, <<>>)
  BY DEF InsertSubmission
<1>7. /\ submissions' \in Seq(Submission)
      /\ Len(submissions') = n + 1
      /\ \A s \in 1 .. n : submissions'[s] = submissions[s]
      /\ submissions'[n + 1] = row
  <2> HIDE DEF n, row
  <2>1. QED
    BY <1>2, <1>4, <1>5, <1>6, AppendRow
<1>8. <<>> \in Seq(Flow)
  BY EmptySeq
<1>9. flows \in [1 .. n -> Seq(Flow)]
  BY <1>1, <1>2 DEF TablesOK
<1>10. /\ flows' \in [1 .. n + 1 -> Seq(Flow)]
       /\ \A s \in 1 .. n : flows'[s] = flows[s]
       /\ flows'[n + 1] = <<>>
  <2> DEFINE h == <<>>
             H == Seq(Flow)
  <2>1. h \in H /\ n \in Nat /\ flows \in [1 .. n -> H]
    BY <1>2, <1>8, <1>9
  <2>2. flows' = Append(flows, h)
    BY <1>6
  <2> HIDE DEF n, h, H
  <2>3. /\ Append(flows, h) \in [1 .. n + 1 -> H]
        /\ \A s \in 1 .. n : Append(flows, h)[s] = flows[s]
        /\ Append(flows, h)[n + 1] = h
    BY <2>1, AppendRow
  <2>4. QED
    BY <2>2, <2>3 DEF h, H
<1>11. Ids' = 1 .. n + 1
  BY <1>7, LenProperties DEF Ids
<1>12. Ids' = Ids \cup {n + 1} /\ n + 1 \notin Ids
  BY <1>2, <1>11
<1>13. QED
  BY <1>2, <1>7, <1>10, <1>11, <1>12 DEF TablesOK

\* A step that changes one row or its history and moves one person.
LEMMA RowStepKeepsTypes ==
  ASSUME TypeOK, NEW p \in People, NEW r, Become(p, r),
         NEW s \in Ids, NEW row \in Submission, NEW h \in Seq(Flow),
         submissions' = [submissions EXCEPT ![s] = row],
         flows' = [flows EXCEPT ![s] = h],
         p \in Citizens => r \in CitizenRequest \cup {Idle},
         p \in Officers => r \in OfficerRequest \cup {Idle},
         r.stage \notin {"idle", "drawn"} => r.row = s,
         UNCHANGED <<arrived, aborted>>,
         pages' \in [Officers -> [row : Ids, status : Statuses] \cup {Nil}]
  PROVE  TypeOK'
<1>1. TablesOK /\ PeopleOK
  BY TypeSplit
<1>2. TablesOK' /\ Ids' = Ids
  BY <1>1, RowUpdate
<1>3. arrived' \in Nat /\ aborted' \in Nat
  BY <1>1 DEF PeopleOK
<1>4. PeopleOK'
  BY <1>1, <1>2, <1>3, PersonMoves
<1>5. QED
  BY <1>2, <1>4, TypePrime

\* The row a citizen works on, and the one an officer works on, exist.
LEMMA WorkedRow ==
  ASSUME TypeOK, NEW p \in People, requests[p].stage \notin {"idle", "drawn"}
  PROVE  /\ requests[p].row \in Ids
         /\ requests[p].row \in Nat
         /\ submissions[requests[p].row] \in Submission
         /\ flows[requests[p].row] \in Seq(Flow)
         /\ Len(flows[requests[p].row]) \in Nat
         /\ submissions = [submissions EXCEPT
              ![requests[p].row] = submissions[requests[p].row]]
         /\ flows = [flows EXCEPT ![requests[p].row] = flows[requests[p].row]]
<1>1. TablesOK /\ requests[p].row \in Ids
  BY TypeSplit DEF TypeOK
<1>2. /\ submissions[requests[p].row] \in Submission
      /\ flows[requests[p].row] \in Seq(Flow) /\ requests[p].row \in Nat
  BY <1>1, IdsTyped
<1>3. Len(flows[requests[p].row]) \in Nat
  BY <1>2, LenProperties
<1>4. submissions \in [1 .. Len(submissions) -> Submission]
  BY <1>1, LenProperties DEF TablesOK
<1>5. QED
  BY <1>1, <1>2, <1>3, <1>4 DEF TablesOK

LEMMA SubmitTyped ==
  ASSUME TypeOK, NEW c \in Citizens, Submit(c)
  PROVE  TypeOK'
<1> DEFINE r == requests[c]
<1>1. /\ TablesOK /\ PeopleOK /\ c \in People /\ c \notin Officers
      /\ r \in CitizenRequest \cup {Idle}
      /\ arrived \in Nat /\ aborted \in Nat
      /\ pages \in [Officers -> [row : Ids, status : Statuses] \cup {Nil}]
  BY TypeSplit, PeopleAssumption DEF TypeOK, People
<1>2. CASE InsertSubmission(c)
  <2> DEFINE n == Len(submissions) + 1
             next == CASE r.upload = "none"     -> "registering"
                       [] r.upload = "accepted" -> "attaching"
                       [] r.upload = "rejected" -> "rejecting"
             q == [stage |-> next, row |-> n]
  <2>1. TablesOK' /\ Ids' = Ids \cup {n}
    BY <1>2, InsertTyped
  <2>2. r.upload \in Uploads
    BY <1>1, <1>2, CitizenTyped DEF InsertSubmission
  <2>3. next \in {"attaching", "registering", "rejecting"}
    BY <2>2 DEF Uploads
  <2>4. n \in Nat
    BY <1>1, IdsTyped
  <2> HIDE DEF next
  <2>5. q \in CitizenRequest
    BY <2>3, <2>4, RequestsTyped
  <2>6. /\ Become(c, q) /\ arrived' \in Nat /\ aborted' \in Nat
        /\ UNCHANGED pages
    BY <1>1, <1>2 DEF InsertSubmission, Proceed, next
  <2>7. pages' \in [Officers -> [row : Ids', status : Statuses] \cup {Nil}]
    BY <1>1, <2>1, <2>6, PagesKept
  <2>8. PeopleOK'
    BY <1>1, <2>1, <2>5, <2>6, <2>7, PersonMoves
  <2>9. QED
    BY <2>1, <2>8, TypePrime
<1>3. CASE RefuseNumber(c)
  <2>1. Become(c, Idle) /\ UNCHANGED tables /\ arrived' \in Nat
        /\ aborted' \in Nat /\ UNCHANGED pages
    BY <1>1, <1>3 DEF RefuseNumber, Proceed
  <2>2. QED
    BY <1>1, <2>1, RequestsTyped, ReadKeepsTypes
<1>4. CASE AttachFiles(c)
  <2> DEFINE q == [stage |-> "registering", row |-> r.row]
             row == [submissions[r.row] EXCEPT !.files = TRUE]
  <2>1. /\ r.stage = "attaching" /\ Become(c, q)
        /\ submissions' = [submissions EXCEPT ![r.row] = row]
        /\ UNCHANGED <<flows, pages, arrived, aborted>>
    BY <1>4 DEF AttachFiles, Proceed
  <2>2. /\ r.row \in Ids /\ submissions[r.row] \in Submission
        /\ flows[r.row] \in Seq(Flow) /\ r.row \in Nat
        /\ flows = [flows EXCEPT ![r.row] = flows[r.row]]
    BY <1>1, <2>1, WorkedRow
  <2>3. row \in Submission
    BY <2>2 DEF Submission
  <2>4. q \in CitizenRequest
    BY <2>2, RequestsTyped
  <2> HIDE DEF row
  <2>5. QED
    BY <1>1, <2>1, <2>2, <2>3, <2>4, RowStepKeepsTypes
<1>5. CASE LoadFlows(c)
  <2> DEFINE q == [stage |-> "destroying", row |-> r.row, seen |-> Len(flows[r.row])]
  <2>1. /\ r.stage = "rejecting" /\ Become(c, q) /\ UNCHANGED tables
        /\ arrived' \in Nat /\ aborted' \in Nat /\ UNCHANGED pages
    BY <1>1, <1>5 DEF LoadFlows, Proceed
  <2>2. r.row \in Ids /\ r.row \in Nat /\ Len(flows[r.row]) \in Nat
    BY <1>1, <2>1, WorkedRow
  <2>3. q \in CitizenRequest
    BY <2>2, RequestsTyped
  <2>4. QED
    BY <1>1, <2>1, <2>2, <2>3, ReadKeepsTypes
<1>6. CASE DestroySubmission(c)
  <2> DEFINE row == [submissions[r.row] EXCEPT !.present = FALSE, !.files = FALSE]
             h == <<>>
  <2>1. r.stage = "destroying" /\ Become(c, Idle) /\ UNCHANGED <<pages, arrived, aborted>>
    BY <1>6 DEF DestroySubmission, Proceed
  <2>2. r.row \in Ids /\ submissions[r.row] \in Submission
    BY <1>1, <2>1, WorkedRow
  <2>3. row \in Submission /\ h \in Seq(Flow)
    BY <2>2, EmptySeq DEF Submission
  <2>4. CASE UNCHANGED tables
    BY <1>1, <2>1, <2>4, RequestsTyped, ReadKeepsTypes
  <2>5. CASE /\ submissions' = [submissions EXCEPT ![r.row] = row]
             /\ flows' = [flows EXCEPT ![r.row] = h]
    <3> HIDE DEF row, h
    <3>1. QED
      BY <1>1, <2>1, <2>2, <2>3, <2>5, RequestsTyped, RowStepKeepsTypes
  <2>6. QED
    BY <1>6, <2>2, <2>4, <2>5 DEF DestroySubmission, Submission
<1>7. CASE RegisterSubmission(c)
  <2> DEFINE f == [from |-> Nil, to |-> "registrado", from_area |-> Nil, to_area |-> Nil]
             h == Append(flows[r.row], f)
  <2>1. /\ r.stage = "registering" /\ Become(c, Idle)
        /\ UNCHANGED <<submissions, pages, arrived, aborted>>
        /\ flows' = [flows EXCEPT ![r.row] = h]
    BY <1>7 DEF RegisterSubmission, Proceed
  <2>2. /\ r.row \in Ids /\ submissions[r.row] \in Submission
        /\ flows[r.row] \in Seq(Flow)
        /\ submissions = [submissions EXCEPT ![r.row] = submissions[r.row]]
    BY <1>1, <2>1, WorkedRow
  <2>3. f \in Flow
    BY DEF Flow, Statuses, OptionalArea
  <2>4. h \in Seq(Flow)
    BY <2>2, <2>3, AppendProperties
  <2> HIDE DEF h
  <2>5. QED
    BY <1>1, <2>1, <2>2, <2>4, RequestsTyped, RowStepKeepsTypes
<1>8. QED
  BY <1>2, <1>3, <1>4, <1>5, <1>6, <1>7 DEF Submit

\* What update writes to the row r names.
Updated(r) ==
  [submissions[r.row] EXCEPT
     !.status = IF r.flow.to # r.flow.from THEN r.flow.to ELSE @,
     !.area = IF r.flow.to_area \notin {Nil, r.flow.from_area}
              THEN r.flow.to_area ELSE @]

\* update_status commits: nothing changes, or the row is updated.
LEMMA UpdateEffect ==
  ASSUME TypeOK, NEW o \in Officers, UpdateStatus(o)
  PROVE  /\ requests[o].stage = "loaded"
         /\ Become(o, [requests[o] EXCEPT !.stage = "recording"])
         /\ UNCHANGED <<flows, pages, arrived, aborted>>
         /\ \/ UNCHANGED submissions
            \/ /\ requests[o].row \in Present
               /\ submissions' = [submissions EXCEPT
                                    ![requests[o].row] = Updated(requests[o])]
<1> DEFINE r == requests[o]
<1>1. /\ r.stage = "loaded"
      /\ Become(o, [r EXCEPT !.stage = "recording"])
      /\ UNCHANGED <<flows, pages, arrived, aborted>>
  BY DEF UpdateStatus, Proceed
<1>2. o \in People
  BY DEF People
<1>3. submissions[r.row] \in Submission
  BY <1>1, <1>2, WorkedRow
<1>4. CASE r.row \notin Present
  BY <1>1, <1>4 DEF UpdateStatus
<1>5. CASE r.row \in Present
  <2>1. submissions' = [submissions EXCEPT
                          ![r.row].status = IF r.flow.to # r.flow.from THEN r.flow.to ELSE @,
                          ![r.row].area = IF r.flow.to_area \notin {Nil, r.flow.from_area}
                                          THEN r.flow.to_area ELSE @]
    BY <1>5 DEF UpdateStatus
  <2>2. submissions' = [submissions EXCEPT ![r.row] = Updated(r)]
    BY <1>3, <2>1 DEF Updated, Submission
  <2>3. QED
    BY <1>1, <1>5, <2>2
<1>6. QED
  BY <1>4, <1>5

LEMMA UpdateStepTyped ==
  ASSUME TypeOK, NEW o \in Officers, UpdateStep(o)
  PROVE  TypeOK'
<1> DEFINE r == requests[o]
<1>1. /\ TablesOK /\ PeopleOK /\ o \in People /\ o \notin Citizens
      /\ r \in OfficerRequest \cup {Idle}
      /\ arrived \in Nat /\ aborted \in Nat
      /\ pages \in [Officers -> [row : Ids, status : Statuses] \cup {Nil}]
  BY TypeSplit, PeopleAssumption DEF TypeOK, People
<1>2. CASE Refuse(o) \/ RaiseForeignKey(o)
  <2>1. Become(o, Idle) /\ UNCHANGED tables /\ arrived' \in Nat
        /\ aborted' \in Nat /\ UNCHANGED pages
    BY <1>1, <1>2 DEF Refuse, RaiseForeignKey, Proceed
  <2>2. QED
    BY <1>1, <2>1, RequestsTyped, ReadKeepsTypes
<1>3. CASE UpdateStatus(o)
  <2> DEFINE q == [r EXCEPT !.stage = "recording"]
  <2>1. /\ r.stage = "loaded" /\ Become(o, q)
        /\ UNCHANGED <<flows, pages, arrived, aborted>>
        /\ \/ UNCHANGED submissions
           \/ submissions' = [submissions EXCEPT ![r.row] = Updated(r)]
    BY <1>3, UpdateEffect
  <2>2. /\ r.flow \in Flow /\ r.attach \in BOOLEAN
        /\ r = [stage |-> r.stage, row |-> r.row, flow |-> r.flow, attach |-> r.attach]
    BY <1>1, <2>1, OfficerTyped
  <2>3. /\ r.row \in Ids /\ r.row \in Nat /\ submissions[r.row] \in Submission
        /\ flows[r.row] \in Seq(Flow)
        /\ flows = [flows EXCEPT ![r.row] = flows[r.row]]
    BY <1>1, <2>1, WorkedRow
  <2>4. q = [stage |-> "recording", row |-> r.row, flow |-> r.flow, attach |-> r.attach]
    BY <2>2
  <2>5. q \in OfficerRequest /\ q.row = r.row
    BY <2>2, <2>3, <2>4, RequestsTyped
  <2>6. Updated(r) \in Submission
    BY <2>2, <2>3 DEF Updated, Submission, Flow
  <2> HIDE DEF q
  <2>7. CASE UNCHANGED submissions
    BY <1>1, <2>1, <2>3, <2>5, <2>7, ReadKeepsTypes DEF tables
  <2>8. CASE submissions' = [submissions EXCEPT ![r.row] = Updated(r)]
    BY <1>1, <2>1, <2>3, <2>5, <2>6, <2>8, RowStepKeepsTypes
  <2>9. QED
    BY <2>1, <2>7, <2>8
<1>4. CASE CreateFlow(o)
  <2> DEFINE q == IF r.attach THEN [stage |-> "attaching", row |-> r.row] ELSE Idle
             h == Append(flows[r.row], r.flow)
  <2>1. /\ r.stage = "recording" /\ Become(o, q)
        /\ flows' = [flows EXCEPT ![r.row] = h]
        /\ pages' = [pages EXCEPT ![o] = Nil]
        /\ UNCHANGED <<submissions, arrived, aborted>>
    BY <1>4 DEF CreateFlow, Proceed
  <2>2. r.flow \in Flow
    BY <1>1, <2>1, OfficerTyped
  <2>3. /\ r.row \in Ids /\ r.row \in Nat /\ submissions[r.row] \in Submission
        /\ flows[r.row] \in Seq(Flow)
        /\ submissions = [submissions EXCEPT ![r.row] = submissions[r.row]]
    BY <1>1, <2>1, WorkedRow
  <2>4. h \in Seq(Flow)
    BY <2>2, <2>3, AppendProperties
  <2>5. /\ q \in OfficerRequest \cup {Idle}
        /\ q.stage \notin {"idle", "drawn"} => q.row = r.row
    BY <2>3, RequestsTyped
  <2>6. pages' \in [Officers -> [row : Ids, status : Statuses] \cup {Nil}]
    BY <1>1, <2>1
  <2> HIDE DEF q, h
  <2>7. QED
    BY <1>1, <2>1, <2>3, <2>4, <2>5, <2>6, RowStepKeepsTypes
<1>5. CASE AttachFiles(o)
  <2> DEFINE row == [submissions[r.row] EXCEPT !.files = TRUE]
  <2>1. /\ r.stage = "attaching" /\ Become(o, Idle)
        /\ submissions' = [submissions EXCEPT ![r.row] = row]
        /\ UNCHANGED <<flows, pages, arrived, aborted>>
    BY <1>1, <1>5 DEF AttachFiles, Proceed
  <2>2. /\ r.row \in Ids /\ submissions[r.row] \in Submission
        /\ flows[r.row] \in Seq(Flow)
        /\ flows = [flows EXCEPT ![r.row] = flows[r.row]]
    BY <1>1, <2>1, WorkedRow
  <2>3. row \in Submission
    BY <2>2 DEF Submission
  <2> HIDE DEF row
  <2>4. QED
    BY <1>1, <2>1, <2>2, <2>3, RequestsTyped, RowStepKeepsTypes
<1>6. QED
  BY <1>2, <1>3, <1>4, <1>5 DEF UpdateStep

LEMMA ArriveTyped == ASSUME TypeOK, Arrive PROVE TypeOK'
<1>1. /\ TablesOK /\ PeopleOK /\ arrived \in Nat /\ aborted \in Nat
      /\ Citizens \cap Officers = {} /\ Citizens \cup Officers = People
      /\ pages \in [Officers -> [row : Ids, status : Statuses] \cup {Nil}]
  BY TypeSplit, PeopleAssumption DEF TypeOK, People
<1>2. ASSUME NEW c \in Citizens, NEW n \in Numbers, NEW u \in Uploads,
             GenerateTrackingNumber(c, n, u)
      PROVE  TypeOK'
  <2> DEFINE q == [stage |-> "drawn", number |-> n, upload |-> u]
  <2>1. Become(c, q) /\ UNCHANGED tables /\ UNCHANGED pages
        /\ arrived' \in Nat /\ aborted' \in Nat
    BY <1>1, <1>2 DEF GenerateTrackingNumber, Accept
  <2>2. q \in CitizenRequest /\ q.stage = "drawn"
    BY RequestsTyped
  <2> HIDE DEF q
  <2>3. QED
    BY <1>1, <2>1, <2>2, ReadKeepsTypes
<1>3. ASSUME NEW o \in Officers, NEW s \in Ids, OpenPage(o, s)
      PROVE  TypeOK'
  <2>1. s \in Ids /\ submissions[s].status \in Statuses
    BY <1>1, IdsTyped DEF Submission
  <2>2. pages' \in [Officers -> [row : Ids, status : Statuses] \cup {Nil}]
    BY <1>1, <1>3, <2>1 DEF OpenPage
  <2>3. TablesOK' /\ Ids' = Ids
    BY <1>1, <1>3, TablesUnchanged DEF OpenPage
  <2>4. PeopleOK'
    BY <1>1, <1>3, <2>2, <2>3 DEF PeopleOK, PersonOK, OpenPage
  <2>5. QED
    BY <2>3, <2>4, TypePrime
<1>4. ASSUME NEW o \in Officers, NEW to \in Statuses, NEW a \in OptionalArea,
             NEW u \in Uploads, Confirm(o, to, a, u)
      PROVE  TypeOK'
  <2> DEFINE s == pages[o].row
             f == [from |-> submissions[s].status, to |-> to,
                   from_area |-> submissions[s].area, to_area |-> a]
             b == u = "accepted"
             q == [stage |-> "loaded", row |-> s, flow |-> f, attach |-> b]
  <2>1. Become(o, q) /\ UNCHANGED tables /\ UNCHANGED pages
        /\ arrived' \in Nat /\ aborted' \in Nat /\ s \in Present
    BY <1>1, <1>4 DEF Confirm, Accept
  <2>2. s \in Ids /\ s \in Nat /\ submissions[s] \in Submission
    BY <1>1, <2>1, IdsTyped
  <2>3. f \in Flow /\ b \in BOOLEAN
    BY <2>2 DEF Flow, Submission
  <2> HIDE DEF f, b
  <2>4. q \in OfficerRequest
    BY <2>2, <2>3, RequestsTyped
  <2>5. QED
    BY <1>1, <2>1, <2>2, <2>4, ReadKeepsTypes
<1>5. QED
  BY <1>2, <1>3, <1>4 DEF Arrive

LEMMA TypeStep == ASSUME TypeOK, [Next]_vars PROVE TypeOK'
<1>1. ASSUME NEW p \in People, Abort(p) PROVE TypeOK'
  <2>1. aborted \in Nat /\ arrived \in Nat
    BY DEF TypeOK
  <2>2. Become(p, Idle) /\ UNCHANGED tables /\ arrived' \in Nat
        /\ aborted' \in Nat /\ UNCHANGED pages
    BY <1>1, <2>1 DEF Abort
  <2>3. QED
    BY <2>2, RequestsTyped, ReadKeepsTypes
<1>2. CASE UNCHANGED vars
  BY <1>2 DEF TypeOK, vars, tables, Ids
<1>3. QED
  BY <1>1, <1>2, ArriveTyped, SubmitTyped, UpdateStepTyped DEF Next, Rest

\* Type correctness of the tables, of the pages and of what the threads hold.
THEOREM MesaTypeCorrect == Spec => []TypeOK
<1>1. Init => TypeOK
  BY TypeInit
<1>2. TypeOK /\ [Next]_vars => TypeOK'
  BY TypeStep
<1>3. QED
  BY <1>1, <1>2, PTL DEF Spec
-----------------------------------------------------------------------------
(* Tracking numbers.  No step but an insertion changes a number or brings a   *)
(* row back, and the unique index keeps the number of an insertion apart.     *)

\* A step that inserts nothing keeps ids and numbers, brings no row back and
\* takes no submission out of the areas.
RowsKept ==
  /\ Ids' = Ids
  /\ \A s \in Ids :
       /\ submissions'[s].number = submissions[s].number
       /\ submissions'[s].present => submissions[s].present
       /\ submissions[s].area # Nil => submissions'[s].area # Nil

LEMMA OneRowKept ==
  ASSUME TablesOK, NEW s \in Ids, NEW row,
         submissions' = [submissions EXCEPT ![s] = row],
         row.number = submissions[s].number,
         row.present => submissions[s].present,
         submissions[s].area # Nil => row.area # Nil
  PROVE  RowsKept
BY DEF RowsKept, Ids

LEMMA AttachKeepsRows ==
  ASSUME TypeOK, NEW p \in People, AttachFiles(p)
  PROVE  /\ RowsKept
         /\ \A s \in Ids : submissions'[s].status = submissions[s].status
<1> DEFINE r == requests[p]
           row == [submissions[r.row] EXCEPT !.files = TRUE]
<1>1. TablesOK
  BY TypeSplit
<1>2. r.row \in Ids /\ submissions[r.row] \in Submission
  BY WorkedRow DEF AttachFiles
<1>3. submissions' = [submissions EXCEPT ![r.row] = row]
  BY DEF AttachFiles
<1>4. /\ row.number = submissions[r.row].number
      /\ row.present = submissions[r.row].present
      /\ row.area = submissions[r.row].area
      /\ row.status = submissions[r.row].status
  BY <1>2 DEF Submission
<1> HIDE DEF row
<1>5. QED
  BY <1>1, <1>2, <1>3, <1>4, OneRowKept DEF Ids

\* destroy deletes the row and its history, or is rolled back.
LEMMA DestroyEffect ==
  ASSUME TypeOK, NEW c \in Citizens, DestroySubmission(c)
  PROVE  /\ RowsKept
         /\ \A s \in Ids : submissions'[s].status = submissions[s].status
         /\ \/ UNCHANGED tables
            \/ /\ Present' = Present \ {requests[c].row}
               /\ flows' = [flows EXCEPT ![requests[c].row] = <<>>]
<1> DEFINE r == requests[c]
           row == [submissions[r.row] EXCEPT !.present = FALSE, !.files = FALSE]
<1>1. TablesOK
  BY TypeSplit
<1>2. r.row \in Ids /\ submissions[r.row] \in Submission
  BY WorkedRow DEF DestroySubmission, People
<1>3. \/ UNCHANGED tables
      \/ /\ submissions' = [submissions EXCEPT ![r.row] = row]
         /\ flows' = [flows EXCEPT ![r.row] = <<>>]
  BY <1>2 DEF DestroySubmission, Submission
<1>4. /\ row.number = submissions[r.row].number
      /\ row.present = FALSE
      /\ row.area = submissions[r.row].area
      /\ row.status = submissions[r.row].status
  BY <1>2 DEF Submission
<1>5. CASE UNCHANGED tables
  BY <1>5 DEF tables, RowsKept, Ids
<1>6. CASE /\ submissions' = [submissions EXCEPT ![r.row] = row]
           /\ flows' = [flows EXCEPT ![r.row] = <<>>]
  <2> HIDE DEF row
  <2>1. RowsKept
    BY <1>1, <1>2, <1>4, <1>6, OneRowKept
  <2>2. /\ submissions'[r.row] = row
        /\ \A s \in Ids \ {r.row} : submissions'[s] = submissions[s]
    BY <1>2, <1>6 DEF Ids
  <2>3. Present' = Present \ {r.row}
    BY <1>2, <1>4, <2>1, <2>2 DEF RowsKept, Present
  <2>4. QED
    BY <1>4, <1>6, <2>1, <2>2, <2>3
<1>7. QED
  BY <1>3, <1>5, <1>6

LEMMA UpdateKeepsRows ==
  ASSUME TypeOK, NEW o \in Officers, UpdateStatus(o)
  PROVE  RowsKept
<1> DEFINE r == requests[o]
<1>1. TablesOK
  BY TypeSplit
<1>2. r.row \in Ids /\ submissions[r.row] \in Submission
  BY WorkedRow DEF UpdateStatus, People
<1>3. UNCHANGED submissions \/ submissions' = [submissions EXCEPT ![r.row] = Updated(r)]
  BY UpdateEffect
<1>4. /\ Updated(r).number = submissions[r.row].number
      /\ Updated(r).present = submissions[r.row].present
      /\ submissions[r.row].area # Nil => Updated(r).area # Nil
  BY <1>2 DEF Updated, Submission
<1>5. CASE UNCHANGED submissions
  BY <1>5 DEF RowsKept, Ids
<1>6. QED
  BY <1>1, <1>2, <1>3, <1>4, <1>5, OneRowKept

LEMMA OtherStepsKeepRows ==
  ASSUME TypeOK, [Next]_vars, ~ \E c \in Citizens : InsertSubmission(c)
  PROVE  RowsKept
<1>1. CASE UNCHANGED submissions
  BY <1>1 DEF RowsKept, Ids
<1>2. ASSUME NEW p \in People, AttachFiles(p)
      PROVE  RowsKept
  BY <1>2, AttachKeepsRows
<1>3. ASSUME NEW c \in Citizens, DestroySubmission(c)
      PROVE  RowsKept
  BY <1>3, DestroyEffect
<1>4. ASSUME NEW o \in Officers, UpdateStatus(o)
      PROVE  RowsKept
  BY <1>4, UpdateKeepsRows
<1>5. ASSUME NEW o \in Officers, UpdateStep(o)
      PROVE  RowsKept
  BY <1>1, <1>2, <1>4, <1>5
  DEF UpdateStep, Refuse, CreateFlow, RaiseForeignKey, tables, People
<1>6. ASSUME NEW c \in Citizens, Submit(c)
      PROVE  RowsKept
  BY <1>1, <1>2, <1>3, <1>6
  DEF Submit, RefuseNumber, LoadFlows, RegisterSubmission, tables, People
<1>7. CASE Arrive \/ (\E p \in People : Abort(p)) \/ UNCHANGED vars
  BY <1>1, <1>7
  DEF Arrive, GenerateTrackingNumber, OpenPage, Confirm, Abort, vars, tables
<1>8. QED
  BY <1>5, <1>6, <1>7 DEF Next, Rest

LEMMA TrackingStep ==
  ASSUME TypeOK, TrackingIdentifies, [Next]_vars
  PROVE  TrackingIdentifies'
<1>1. CASE ~ \E c \in Citizens : InsertSubmission(c)
  BY <1>1, OtherStepsKeepRows DEF TrackingIdentifies, RowsKept, Present
<1>2. ASSUME NEW c \in Citizens, InsertSubmission(c)
      PROVE  TrackingIdentifies'
  <2> DEFINE n == Len(submissions) + 1
  <2>1. /\ Ids' = Ids \cup {n}
        /\ \A s \in Ids : submissions'[s] = submissions[s]
        /\ submissions'[n] =
             [number |-> requests[c].number, status |-> "registrado",
              area |-> DefaultArea, present |-> TRUE, files |-> FALSE]
    BY <1>2, InsertTyped
  <2>2. Present' \subseteq Present \cup {n}
    BY <2>1 DEF Present
  <2>3. \A s \in Present : submissions[s].number # requests[c].number
    BY <1>2 DEF InsertSubmission, Taken
  <2>4. \A s \in Present : submissions'[s] = submissions[s]
    BY <2>1 DEF Present
  <2>5. submissions'[n].number = requests[c].number
    BY <2>1
  <2> HIDE DEF n
  <2>6. QED
    BY <2>2, <2>3, <2>4, <2>5 DEF TrackingIdentifies
<1>3. QED
  BY <1>1, <1>2

\* A tracking number leads to one submission, whoever draws it.
THEOREM NumbersIdentify == Spec => []TrackingIdentifies
<1>1. Init => TypeOK /\ TrackingIdentifies
  BY TypeInit DEF Init, TrackingIdentifies, Present, Ids
<1>2. TypeOK /\ TrackingIdentifies /\ [Next]_vars => TypeOK' /\ TrackingIdentifies'
  BY TypeStep, TrackingStep
<1>3. QED
  BY <1>1, <1>2, PTL DEF Spec
-----------------------------------------------------------------------------
(* Routing.  An officer's thread routes with the area it was given, and leaves *)
(* the area alone when the row it loaded had the same one: that row had an     *)
(* area, and areas are never taken away.                                       *)

\* An officer's thread that has yet to write routes to an area, and the area of
\* the row it loaded is still one.
RoutingHeld(o) ==
  requests[o].stage = "loaded" =>
    /\ requests[o].flow.to = "derivado" => requests[o].flow.to_area # Nil
    /\ requests[o].flow.from_area # Nil => submissions[requests[o].row].area # Nil

RoutedInv ==
  /\ RoutedIsSomewhere
  /\ \A o \in Officers : RoutingHeld(o)

\* Rows that keep their areas keep the promise of a thread that waits.
LEMMA RoutingKept ==
  ASSUME TypeOK, RoutedInv, NEW o \in Officers, requests'[o] = requests[o],
         \A s \in Ids : submissions[s].area # Nil => submissions'[s].area # Nil
  PROVE  RoutingHeld(o)'
<1>1. requests[o].stage = "loaded" => requests[o].row \in Ids
  BY DEF TypeOK, People
<1>2. QED
  BY <1>1 DEF RoutedInv, RoutingHeld

\* The request of everyone else stays as it is.
LEMMA OthersWait ==
  ASSUME TypeOK, NEW p \in People, NEW r, Become(p, r)
  PROVE  /\ requests'[p] = r
         /\ \A q \in People \ {p} : requests'[q] = requests[q]
BY DEF TypeOK, Become

\* A step that leaves statuses alone and takes p to a request that has nothing
\* left to write.
LEMMA RoutedKept ==
  ASSUME TypeOK, RoutedInv, NEW p \in People, NEW r, Become(p, r),
         r.stage # "loaded", RowsKept,
         \A s \in Ids : submissions'[s].status = submissions[s].status
  PROVE  RoutedInv'
<1>1. RoutedIsSomewhere'
  BY DEF RoutedInv, RoutedIsSomewhere, RowsKept, Present
<1>2. ASSUME NEW o \in Officers PROVE RoutingHeld(o)'
  <2>1. CASE o = p
    BY <2>1, OthersWait DEF RoutingHeld
  <2>2. CASE o # p
    BY <2>2, OthersWait, RoutingKept DEF People, RowsKept
  <2>3. QED
    BY <2>1, <2>2
<1>3. QED
  BY <1>1, <1>2 DEF RoutedInv

LEMMA RoutedUpdate ==
  ASSUME TypeOK, RoutedInv, NEW o \in Officers, UpdateStatus(o)
  PROVE  RoutedInv'
<1> DEFINE r == requests[o]
           q == [r EXCEPT !.stage = "recording"]
<1>1. /\ r.stage = "loaded" /\ Become(o, q)
      /\ \/ UNCHANGED submissions
         \/ submissions' = [submissions EXCEPT ![r.row] = Updated(r)]
  BY UpdateEffect
<1>2. o \in People /\ o \notin Citizens
  BY PeopleAssumption DEF People
<1>3. /\ r.row \in Ids /\ submissions[r.row] \in Submission
  BY <1>1, <1>2, WorkedRow
<1>4. RowsKept
  BY UpdateKeepsRows
<1>5. r \in OfficerRequest \cup {Idle}
  BY DEF TypeOK
<1>6. /\ r.flow \in Flow
      /\ r = [stage |-> r.stage, row |-> r.row, flow |-> r.flow, attach |-> r.attach]
  BY <1>1, <1>5, OfficerTyped
<1>7. q.stage = "recording"
  BY <1>6
<1>8. CASE UNCHANGED submissions
  BY <1>1, <1>2, <1>4, <1>7, <1>8, RoutedKept
<1>9. CASE submissions' = [submissions EXCEPT ![r.row] = Updated(r)]
  <2>1. /\ submissions'[r.row] = Updated(r)
        /\ \A s \in Ids \ {r.row} : submissions'[s] = submissions[s]
    BY <1>3, <1>9 DEF Ids
  <2>2. r.row \in Present' => r.row \in Present
    BY <1>3, <1>4 DEF RowsKept, Present
  <2>3. ASSUME r.row \in Present, Updated(r).status = "derivado"
        PROVE  Updated(r).area # Nil
    <3>1. CASE r.flow.to # r.flow.from
      <4>1. r.flow.to = "derivado"
        BY <1>3, <2>3, <3>1 DEF Updated, Submission
      <4>2. r.flow.to_area # Nil /\ (r.flow.from_area # Nil => submissions[r.row].area # Nil)
        BY <1>1, <4>1 DEF RoutedInv, RoutingHeld
      <4>3. QED
        BY <1>3, <4>2 DEF Updated, Submission
    <3>2. CASE r.flow.to = r.flow.from
      <4>1. submissions[r.row].area # Nil
        BY <1>3, <2>3, <3>2 DEF Updated, Submission, RoutedInv, RoutedIsSomewhere
      <4>2. QED
        BY <1>3, <4>1 DEF Updated, Submission
    <3>3. QED
      BY <3>1, <3>2
  <2>4. RoutedIsSomewhere'
    <3> SUFFICES ASSUME NEW s \in Present', submissions'[s].status = "derivado"
                 PROVE  submissions'[s].area # Nil
      BY DEF RoutedIsSomewhere
    <3>1. s \in Present
      BY <1>4 DEF RowsKept, Present
    <3>2. CASE s = r.row
      BY <2>1, <2>3, <3>1, <3>2
    <3>3. CASE s # r.row
      BY <2>1, <3>1, <3>3 DEF RoutedInv, RoutedIsSomewhere, Present
    <3>4. QED
      BY <3>2, <3>3
  <2>5. ASSUME NEW x \in Officers PROVE RoutingHeld(x)'
    <3>1. CASE x = o
      BY <1>1, <1>2, <1>7, <3>1, OthersWait DEF RoutingHeld
    <3>2. CASE x # o
      BY <1>1, <1>2, <1>4, <3>2, OthersWait, RoutingKept DEF People, RowsKept
    <3>3. QED
      BY <3>1, <3>2
  <2>6. QED
    BY <2>4, <2>5 DEF RoutedInv
<1>10. QED
  BY <1>1, <1>8, <1>9

\* An insertion: rows and statuses stay, the new one is registrado.
LEMMA RoutedInsert ==
  ASSUME TypeOK, RoutedInv, NEW c \in Citizens, InsertSubmission(c)
  PROVE  RoutedInv'
<1> DEFINE n == Len(submissions) + 1
<1>1. /\ Ids' = Ids \cup {n}
      /\ \A s \in Ids : submissions'[s] = submissions[s]
      /\ submissions'[n] =
           [number |-> requests[c].number, status |-> "registrado",
            area |-> DefaultArea, present |-> TRUE, files |-> FALSE]
  BY InsertTyped
<1>2. submissions'[n].status = "registrado"
  BY <1>1
<1> HIDE DEF n
<1>3. RoutedIsSomewhere'
  BY <1>1, <1>2 DEF RoutedInv, RoutedIsSomewhere, Present
<1>4. ASSUME NEW o \in Officers PROVE RoutingHeld(o)'
  <2>1. o \in People \ {c} /\ c \in People
    BY PeopleAssumption DEF People
  <2>2. requests'[o] = requests[o]
    BY <2>1, OthersWait DEF InsertSubmission, Proceed
  <2>3. QED
    BY <1>1, <2>2, RoutingKept
<1>5. QED
  BY <1>3, <1>4 DEF RoutedInv

LEMMA RoutedConfirm ==
  ASSUME TypeOK, RoutedInv, NEW o \in Officers, NEW to \in Statuses,
         NEW a \in OptionalArea, NEW u \in Uploads, Confirm(o, to, a, u)
  PROVE  RoutedInv'
<1> DEFINE s == pages[o].row
           f == [from |-> submissions[s].status, to |-> to,
                 from_area |-> submissions[s].area, to_area |-> a]
           q == [stage |-> "loaded", row |-> s, flow |-> f, attach |-> u = "accepted"]
<1>1. Become(o, q) /\ UNCHANGED tables /\ (to = "derivado" => a # Nil)
  BY DEF Confirm
<1>2. o \in People
  BY DEF People
<1>3. requests'[o] = q /\ \A p \in People \ {o} : requests'[p] = requests[p]
  BY <1>1, <1>2, OthersWait
<1>4. /\ q.row = s /\ q.flow.to = to /\ q.flow.to_area = a
      /\ q.flow.from_area = submissions[s].area
  OBVIOUS
<1>5. RoutingHeld(o)'
  BY <1>1, <1>3, <1>4 DEF RoutingHeld, tables
<1>6. \A x \in Officers \ {o} : RoutingHeld(x)'
  BY <1>1, <1>3, RoutingKept DEF People, tables
<1>7. RoutedIsSomewhere'
  BY <1>1 DEF RoutedInv, RoutedIsSomewhere, Present, Ids, tables
<1>8. QED
  BY <1>5, <1>6, <1>7 DEF RoutedInv

LEMMA RoutedStep ==
  ASSUME TypeOK, RoutedInv, [Next]_vars
  PROVE  RoutedInv'
<1>1. ASSUME NEW p \in People, NEW r, Become(p, r), r.stage # "loaded",
             UNCHANGED submissions
      PROVE  RoutedInv'
  BY <1>1, RoutedKept DEF RowsKept, Ids
<1>2. Idle.stage # "loaded"
  BY DEF Idle
<1>3. ASSUME NEW p \in People, AttachFiles(p)
      PROVE  RoutedInv'
  <2> DEFINE q == IF p \in Citizens
                  THEN [stage |-> "registering", row |-> requests[p].row] ELSE Idle
  <2>1. Become(p, q) /\ q.stage # "loaded"
    BY <1>2, <1>3 DEF AttachFiles, Proceed
  <2> HIDE DEF q
  <2>2. QED
    BY <1>3, <2>1, AttachKeepsRows, RoutedKept
<1>4. ASSUME NEW c \in Citizens, Submit(c)
      PROVE  RoutedInv'
  <2>1. c \in People
    BY DEF People
  <2>2. CASE DestroySubmission(c)
    <3>1. Become(c, Idle)
      BY <2>2 DEF DestroySubmission, Proceed
    <3>2. QED
      BY <1>2, <2>1, <2>2, <3>1, DestroyEffect, RoutedKept
  <2>3. CASE LoadFlows(c)
    <3> DEFINE q == [stage |-> "destroying", row |-> requests[c].row,
                     seen |-> Len(flows[requests[c].row])]
    <3>1. Become(c, q) /\ q.stage # "loaded" /\ UNCHANGED submissions
      BY <2>3 DEF LoadFlows, Proceed, tables
    <3> HIDE DEF q
    <3>2. QED
      BY <1>1, <2>1, <3>1
  <2>4. CASE RefuseNumber(c) \/ RegisterSubmission(c)
    <3>1. Become(c, Idle) /\ UNCHANGED submissions
      BY <2>4 DEF RefuseNumber, RegisterSubmission, Proceed, tables
    <3>2. QED
      BY <1>1, <1>2, <2>1, <3>1
  <2>5. QED
    BY <1>3, <1>4, <2>1, <2>2, <2>3, <2>4, RoutedInsert DEF Submit
<1>5. ASSUME NEW o \in Officers, UpdateStep(o)
      PROVE  RoutedInv'
  <2>1. o \in People
    BY DEF People
  <2>2. CASE Refuse(o) \/ RaiseForeignKey(o)
    <3>1. Become(o, Idle) /\ UNCHANGED submissions
      BY <2>2 DEF Refuse, RaiseForeignKey, Proceed, tables
    <3>2. QED
      BY <1>1, <1>2, <2>1, <3>1
  <2>3. CASE CreateFlow(o)
    <3> DEFINE r == requests[o]
               q == IF r.attach THEN [stage |-> "attaching", row |-> r.row] ELSE Idle
    <3>1. Become(o, q) /\ q.stage # "loaded" /\ UNCHANGED submissions
      BY <1>2, <2>3 DEF CreateFlow, Proceed
    <3> HIDE DEF q
    <3>2. QED
      BY <1>1, <2>1, <3>1
  <2>4. QED
    BY <1>3, <1>5, <2>1, <2>2, <2>3, RoutedUpdate DEF UpdateStep
<1>6. ASSUME NEW c \in Citizens, NEW n \in Numbers, NEW u \in Uploads,
             GenerateTrackingNumber(c, n, u)
      PROVE  RoutedInv'
  <2> DEFINE q == [stage |-> "drawn", number |-> n, upload |-> u]
  <2>1. Become(c, q) /\ q.stage # "loaded" /\ UNCHANGED submissions /\ c \in People
    BY <1>6 DEF GenerateTrackingNumber, tables, People
  <2> HIDE DEF q
  <2>2. QED
    BY <1>1, <2>1
<1>7. ASSUME NEW p \in People, Abort(p)
      PROVE  RoutedInv'
  <2>1. Become(p, Idle) /\ UNCHANGED submissions
    BY <1>7 DEF Abort, tables
  <2>2. QED
    BY <1>1, <1>2, <2>1
<1>8. CASE UNCHANGED <<submissions, requests>>
  BY <1>8 DEF RoutedInv, RoutingHeld, RoutedIsSomewhere, Present, Ids
<1>9. CASE Arrive
  BY <1>6, <1>8, <1>9, RoutedConfirm DEF Arrive, OpenPage, tables
<1>10. CASE UNCHANGED vars
  BY <1>8, <1>10 DEF vars, tables
<1>11. QED
  BY <1>4, <1>5, <1>7, <1>9, <1>10 DEF Next, Rest

\* A submission routed to an area is in one, whatever officers interleave.
THEOREM RoutedHasArea == Spec => []RoutedIsSomewhere
<1>1. Init => TypeOK /\ RoutedInv
  <2>1. Init => RoutedInv
    BY DEF Init, RoutedInv, RoutedIsSomewhere, RoutingHeld, Present, Ids, Idle, People
  <2>2. QED
    BY <2>1, TypeInit
<1>2. TypeOK /\ RoutedInv /\ [Next]_vars => TypeOK' /\ RoutedInv'
  BY TypeStep, RoutedStep
<1>3. RoutedInv => RoutedIsSomewhere
  BY DEF RoutedInv
<1>4. QED
  BY <1>1, <1>2, <1>3, PTL DEF Spec
-----------------------------------------------------------------------------
(* Destroyed submissions.  The entry of a registration needs no look at the   *)
(* row: its submission is there because only the thread that inserted it      *)
(* destroys it, and no two citizens' threads work on the same row.            *)

Works(c) == requests[c].stage \notin {"idle", "drawn"}

OwnInv ==
  /\ \A c \in Citizens : Works(c) => requests[c].row \in Present
  /\ \A c, d \in Citizens :
       Works(c) /\ Works(d) /\ requests[c].row = requests[d].row => c = d

GoneInv == GoneHasNoHistory /\ OwnInv

\* A person who goes on with the same row, or with none, while the rows of the
\* others stay.
LEMMA OwnKept ==
  ASSUME TypeOK, OwnInv, NEW p \in People, NEW r, Become(p, r),
         \/ p \notin Citizens
         \/ r.stage \in {"idle", "drawn"}
         \/ Works(p) /\ r.row = requests[p].row /\ r.row \in Present',
         \A c \in Citizens \ {p} : Works(c) => requests[c].row \in Present'
  PROVE  OwnInv'
<1>1. requests'[p] = r /\ \A q \in People \ {p} : requests'[q] = requests[q]
  BY OthersWait
<1>2. \A c \in Citizens : Works(c)' =>
        Works(c) /\ requests'[c].row = requests[c].row /\ requests'[c].row \in Present'
  BY <1>1 DEF Works, People
<1>3. QED
  BY <1>2 DEF OwnInv

\* A step that keeps what is present, and adds no history to what is gone.
LEMMA GoneKept ==
  ASSUME TypeOK, GoneInv, NEW p \in People, NEW r, Become(p, r),
         \/ p \notin Citizens
         \/ r.stage \in {"idle", "drawn"}
         \/ Works(p) /\ r.row = requests[p].row,
         Ids' = Ids, Present' = Present,
         \A s \in Ids \ Present : flows'[s] = flows[s]
  PROVE  GoneInv'
<1>1. OwnInv'
  BY OwnKept DEF GoneInv, OwnInv
<1>2. GoneHasNoHistory'
  BY DEF GoneInv, GoneHasNoHistory
<1>3. QED
  BY <1>1, <1>2 DEF GoneInv

LEMMA GoneInsert ==
  ASSUME TypeOK, GoneInv, NEW c \in Citizens, InsertSubmission(c)
  PROVE  GoneInv'
<1> DEFINE n == Len(submissions) + 1
           next == CASE requests[c].upload = "none"     -> "registering"
                     [] requests[c].upload = "accepted" -> "attaching"
                     [] requests[c].upload = "rejected" -> "rejecting"
           q == [stage |-> next, row |-> n]
<1>1. /\ Ids' = Ids \cup {n} /\ n \notin Ids
      /\ \A s \in Ids : submissions'[s] = submissions[s] /\ flows'[s] = flows[s]
      /\ submissions'[n] =
           [number |-> requests[c].number, status |-> "registrado",
            area |-> DefaultArea, present |-> TRUE, files |-> FALSE]
  BY InsertTyped
<1>2. submissions'[n].present
  BY <1>1
<1>3. Become(c, q)
  BY DEF InsertSubmission, Proceed
<1> HIDE DEF n, next
<1>4. q.row = n
  OBVIOUS
<1>5. /\ requests'[c] = q
      /\ \A d \in Citizens \ {c} : requests'[d] = requests[d]
  BY <1>3, OthersWait DEF People
<1> HIDE DEF q
<1>6. Present' = Present \cup {n}
  BY <1>1, <1>2 DEF Present
<1>7. \A d \in Citizens : Works(d) => requests[d].row \in Ids
  BY DEF GoneInv, OwnInv, Present
<1>8. OwnInv'
  BY <1>1, <1>4, <1>5, <1>6, <1>7 DEF GoneInv, OwnInv, Works
<1>9. GoneHasNoHistory'
  BY <1>1, <1>6 DEF GoneInv, GoneHasNoHistory
<1>10. QED
  BY <1>8, <1>9 DEF GoneInv

LEMMA GoneDestroy ==
  ASSUME TypeOK, GoneInv, NEW c \in Citizens, DestroySubmission(c)
  PROVE  GoneInv'
<1> DEFINE r == requests[c]
<1>1. c \in People /\ Become(c, Idle) /\ Idle.stage = "idle" /\ Works(c)
  BY DEF People, DestroySubmission, Proceed, Idle, Works
<1>2. r.row \in Ids
  BY <1>1, WorkedRow DEF Works
<1>3. CASE UNCHANGED tables
  BY <1>1, <1>3, GoneKept DEF tables, Ids, Present
<1>4. CASE /\ Present' = Present \ {r.row}
           /\ flows' = [flows EXCEPT ![r.row] = <<>>]
  <2>1. Ids' = Ids
    BY DestroyEffect DEF RowsKept
  <2>2. \A d \in Citizens \ {c} : Works(d) => requests[d].row \in Present'
    BY <1>1, <1>4 DEF GoneInv, OwnInv
  <2>3. OwnInv'
    BY <1>1, <2>2, OwnKept DEF GoneInv
  <2>4. flows'[r.row] = <<>> /\ \A s \in Ids \ {r.row} : flows'[s] = flows[s]
    BY <1>2, <1>4 DEF TypeOK
  <2>5. GoneHasNoHistory'
    BY <1>4, <2>1, <2>4 DEF GoneInv, GoneHasNoHistory
  <2>6. QED
    BY <2>3, <2>5 DEF GoneInv
<1>5. QED
  BY <1>3, <1>4, DestroyEffect

\* Files and changes of status leave what is present as it is.
LEMMA SamePresent ==
  ASSUME TypeOK, NEW s \in Ids, NEW row,
         submissions' = [submissions EXCEPT ![s] = row],
         row.present = submissions[s].present
  PROVE  Ids' = Ids /\ Present' = Present
BY DEF Ids, Present

LEMMA GoneRow ==
  ASSUME TypeOK, GoneInv, NEW p \in People, NEW r, Become(p, r), UNCHANGED flows,
         \/ p \notin Citizens
         \/ r.stage \in {"idle", "drawn"}
         \/ Works(p) /\ r.row = requests[p].row,
         NEW s \in Ids, NEW row, submissions' = [submissions EXCEPT ![s] = row],
         row.present = submissions[s].present
  PROVE  GoneInv'
BY SamePresent, GoneKept

LEMMA GoneAttach ==
  ASSUME TypeOK, GoneInv, NEW p \in People, AttachFiles(p)
  PROVE  GoneInv'
<1> DEFINE r == requests[p]
           q == IF p \in Citizens THEN [stage |-> "registering", row |-> r.row] ELSE Idle
           row == [submissions[r.row] EXCEPT !.files = TRUE]
<1>1. /\ Become(p, q) /\ UNCHANGED flows /\ Works(p)
      /\ submissions' = [submissions EXCEPT ![r.row] = row]
  BY DEF AttachFiles, Proceed, Works
<1>2. r.row \in Ids /\ submissions[r.row] \in Submission
  BY <1>1, WorkedRow DEF Works
<1>3. row.present = submissions[r.row].present
  BY <1>2 DEF Submission
<1>4. p \in Citizens => q.row = r.row
  OBVIOUS
<1> HIDE DEF q, row
<1>5. QED
  BY <1>1, <1>2, <1>3, <1>4, GoneRow

LEMMA GoneUpdate ==
  ASSUME TypeOK, GoneInv, NEW o \in Officers, UpdateStatus(o)
  PROVE  GoneInv'
<1> DEFINE r == requests[o]
           q == [r EXCEPT !.stage = "recording"]
<1>1. /\ r.stage = "loaded" /\ Become(o, q) /\ UNCHANGED flows
      /\ UNCHANGED submissions \/ submissions' = [submissions EXCEPT ![r.row] = Updated(r)]
  BY UpdateEffect
<1>2. o \in People /\ o \notin Citizens
  BY PeopleAssumption DEF People
<1>3. r.row \in Ids /\ submissions[r.row] \in Submission
  BY <1>1, <1>2, WorkedRow
<1>4. Updated(r).present = submissions[r.row].present
  BY <1>3 DEF Updated, Submission
<1> HIDE DEF q
<1>5. CASE UNCHANGED submissions
  BY <1>1, <1>2, <1>5, GoneKept DEF Ids, Present
<1>6. QED
  BY <1>1, <1>2, <1>3, <1>4, <1>5, GoneRow

\* An entry is written to a row that is present.
LEMMA GoneEntry ==
  ASSUME TypeOK, GoneInv, NEW p \in People, NEW r, Become(p, r),
         p \notin Citizens \/ r.stage \in {"idle", "drawn"},
         UNCHANGED submissions, NEW s \in Present, NEW h,
         flows' = [flows EXCEPT ![s] = h]
  PROVE  GoneInv'
<1>1. Ids' = Ids /\ Present' = Present
  BY DEF Ids, Present
<1>2. \A t \in Ids \ Present : flows'[t] = flows[t]
  BY DEF TypeOK
<1>3. QED
  BY <1>1, <1>2, GoneKept

LEMMA GoneStep ==
  ASSUME TypeOK, GoneInv, [Next]_vars
  PROVE  GoneInv'
<1>1. ASSUME NEW p \in People, NEW r, Become(p, r), UNCHANGED tables,
             \/ p \notin Citizens
             \/ r.stage \in {"idle", "drawn"}
             \/ Works(p) /\ r.row = requests[p].row
      PROVE  GoneInv'
  BY <1>1, GoneKept DEF tables, Ids, Present
<1>2. Idle.stage = "idle"
  BY DEF Idle
<1>3. ASSUME NEW c \in Citizens, Submit(c)
      PROVE  GoneInv'
  <2> DEFINE r == requests[c]
  <2>1. c \in People
    BY DEF People
  <2>2. CASE RefuseNumber(c)
    BY <1>1, <1>2, <2>1, <2>2 DEF RefuseNumber, Proceed
  <2>3. CASE LoadFlows(c)
    <3> DEFINE q == [stage |-> "destroying", row |-> r.row, seen |-> Len(flows[r.row])]
    <3>1. Become(c, q) /\ UNCHANGED tables /\ Works(c) /\ q.row = r.row
      BY <2>3 DEF LoadFlows, Proceed, Works
    <3> HIDE DEF q
    <3>2. QED
      BY <1>1, <2>1, <3>1
  <2>4. CASE RegisterSubmission(c)
    <3> DEFINE h == Append(flows[r.row], [from |-> Nil, to |-> "registrado",
                                          from_area |-> Nil, to_area |-> Nil])
    <3>1. /\ Become(c, Idle) /\ UNCHANGED submissions /\ Works(c)
          /\ flows' = [flows EXCEPT ![r.row] = h]
      BY <2>4 DEF RegisterSubmission, Proceed, Works
    <3>2. r.row \in Present
      BY <3>1 DEF GoneInv, OwnInv
    <3> HIDE DEF h
    <3>3. QED
      BY <1>2, <2>1, <3>1, <3>2, GoneEntry
  <2>5. QED
    BY <1>3, <2>1, <2>2, <2>3, <2>4, GoneInsert, GoneDestroy, GoneAttach DEF Submit
<1>4. ASSUME NEW o \in Officers, UpdateStep(o)
      PROVE  GoneInv'
  <2> DEFINE r == requests[o]
  <2>1. o \in People /\ o \notin Citizens
    BY PeopleAssumption DEF People
  <2>2. CASE Refuse(o) \/ RaiseForeignKey(o)
    BY <1>1, <2>1, <2>2 DEF Refuse, RaiseForeignKey, Proceed
  <2>3. CASE CreateFlow(o)
    <3> DEFINE q == IF r.attach THEN [stage |-> "attaching", row |-> r.row] ELSE Idle
               h == Append(flows[r.row], r.flow)
    <3>1. /\ Become(o, q) /\ UNCHANGED submissions /\ r.row \in Present
          /\ flows' = [flows EXCEPT ![r.row] = h]
      BY <2>3 DEF CreateFlow, Proceed
    <3> HIDE DEF q, h
    <3>2. QED
      BY <2>1, <3>1, GoneEntry
  <2>4. QED
    BY <1>4, <2>1, <2>2, <2>3, GoneUpdate, GoneAttach DEF UpdateStep
<1>5. ASSUME NEW c \in Citizens, NEW n \in Numbers, NEW u \in Uploads,
             GenerateTrackingNumber(c, n, u)
      PROVE  GoneInv'
  <2> DEFINE q == [stage |-> "drawn", number |-> n, upload |-> u]
  <2>1. Become(c, q) /\ UNCHANGED tables /\ q.stage = "drawn" /\ c \in People
    BY <1>5 DEF GenerateTrackingNumber, People
  <2> HIDE DEF q
  <2>2. QED
    BY <1>1, <2>1
<1>6. ASSUME NEW o \in Officers, NEW to \in Statuses, NEW a \in OptionalArea,
             NEW u \in Uploads, Confirm(o, to, a, u)
      PROVE  GoneInv'
  <2>1. o \in People /\ o \notin Citizens
    BY PeopleAssumption DEF People
  <2>2. PICK q : Become(o, q)
    BY <1>6 DEF Confirm
  <2>3. QED
    BY <1>1, <1>6, <2>1, <2>2 DEF Confirm
<1>7. ASSUME NEW p \in People, Abort(p)
      PROVE  GoneInv'
  BY <1>1, <1>2, <1>7 DEF Abort
<1>8. CASE UNCHANGED <<tables, requests>>
  BY <1>8 DEF tables, GoneInv, OwnInv, GoneHasNoHistory, Works, Present, Ids
<1>9. CASE Arrive
  BY <1>5, <1>6, <1>8, <1>9 DEF Arrive, OpenPage
<1>10. CASE UNCHANGED vars
  BY <1>8, <1>10 DEF vars
<1>11. QED
  BY <1>3, <1>4, <1>7, <1>9, <1>10 DEF Next, Rest

\* A submission that was destroyed left no history, whoever moved it meanwhile.
THEOREM GoneLeavesNothing == Spec => []GoneHasNoHistory
<1>1. Init => TypeOK /\ GoneInv
  <2>1. Init => GoneInv
    BY DEF Init, GoneInv, OwnInv, Works, GoneHasNoHistory, Present, Ids, Idle, People
  <2>2. QED
    BY <2>1, TypeInit
<1>2. TypeOK /\ GoneInv /\ [Next]_vars => TypeOK' /\ GoneInv'
  BY TypeStep, GoneStep
<1>3. GoneInv => GoneHasNoHistory
  BY DEF GoneInv
<1>4. QED
  BY <1>1, <1>2, <1>3, PTL DEF Spec
-----------------------------------------------------------------------------
(* History.  SubmissionsAreTracked and StateIsExplained count submissions: a  *)
(* step adds none to either set, but the one whose request is cut short.      *)

\* A set that gets no new member is no larger, one that gets x at most by one.
LEMMA Growth ==
  ASSUME NEW S, IsFiniteSet(S), NEW T
  PROVE  /\ T \subseteq S => Cardinality(T) <= Cardinality(S)
         /\ \A x : T \subseteq S \cup {x} => Cardinality(T) <= Cardinality(S) + 1
         /\ Cardinality(S) \in Nat /\ (T \subseteq S => Cardinality(T) \in Nat)
         /\ \A x : T \subseteq S \cup {x} => Cardinality(T) \in Nat
<1>1. Cardinality(S) \in Nat
  BY FS_CardinalityType
<1>2. ASSUME T \subseteq S
      PROVE  Cardinality(T) <= Cardinality(S) /\ Cardinality(T) \in Nat
  BY <1>2, FS_Subset, FS_CardinalityType
<1>3. ASSUME NEW x, T \subseteq S \cup {x}
      PROVE  Cardinality(T) <= Cardinality(S) + 1 /\ Cardinality(T) \in Nat
  <2> DEFINE U == S \cup {x}
  <2>1. IsFiniteSet(U) /\ Cardinality(U) <= Cardinality(S) + 1 /\ Cardinality(U) \in Nat
    BY <1>1, FS_AddElement, FS_CardinalityType
  <2>2. Cardinality(T) <= Cardinality(U) /\ Cardinality(T) \in Nat
    BY <1>3, <2>1, FS_Subset, FS_CardinalityType
  <2>3. QED
    BY <1>1, <2>1, <2>2
<1>4. QED
  BY <1>1, <1>2, <1>3

\* The submissions SubmissionsAreTracked counts.
Untracked == {s \in Present : flows[s] = <<>> /\ ~Pending(s)}

\* The submissions StateIsExplained counts.
Unexplained == {s \in Present : ~Explained(s)}

\* A set of submissions that no step but an abort adds to.
LEMMA CountedSubmissions ==
  ASSUME TypeOK, NEW S \in SUBSET Present, NEW T,
         Cardinality(S) <= aborted,
         \/ T \subseteq S /\ aborted' = aborted
         \/ \E x : T \subseteq S \cup {x} /\ aborted' = aborted + 1
  PROVE  Cardinality(T) <= aborted'
<1>1. IsFiniteSet(Ids)
  BY IdsTyped, TypeSplit, FS_Interval
<1>2. IsFiniteSet(S)
  BY <1>1, FS_Subset DEF Present
<1>3. aborted \in Nat
  BY DEF TypeOK
<1>4. /\ T \subseteq S => Cardinality(T) <= Cardinality(S)
      /\ \A x : T \subseteq S \cup {x} => Cardinality(T) <= Cardinality(S) + 1
      /\ Cardinality(S) \in Nat /\ (T \subseteq S => Cardinality(T) \in Nat)
      /\ \A x : T \subseteq S \cup {x} => Cardinality(T) \in Nat
  BY <1>2, Growth
<1>5. CASE T \subseteq S /\ aborted' = aborted
  BY <1>3, <1>4, <1>5
<1>6. CASE \E x : T \subseteq S \cup {x} /\ aborted' = aborted + 1
  <2>1. PICK x : T \subseteq S \cup {x} /\ aborted' = aborted + 1
    BY <1>6
  <2>2. Cardinality(T) <= Cardinality(S) + 1 /\ Cardinality(T) \in Nat
    BY <1>4, <2>1
  <2>3. QED
    BY <1>3, <1>4, <2>1, <2>2
<1>7. QED
  BY <1>5, <1>6

\* The history a destroy has loaded is not longer than the one that is there.
SeenInv ==
  \A c \in Citizens : requests[c].stage = "destroying" =>
    requests[c].seen <= Len(flows[requests[c].row])

\* Citizens who work on no row of the step, or go on with theirs, keep what they
\* have seen.
LEMMA SeenKept ==
  ASSUME TypeOK, SeenInv, NEW p \in People, NEW q, Become(p, q),
         q.stage # "destroying" \/ p \notin Citizens,
         \A c \in Citizens \ {p} : requests[c].stage = "destroying" =>
           Len(flows[requests[c].row]) <= Len(flows'[requests[c].row])
           /\ Len(flows'[requests[c].row]) \in Nat
  PROVE  SeenInv'
<1>1. requests'[p] = q /\ \A c \in People \ {p} : requests'[c] = requests[c]
  BY OthersWait
<1>2. ASSUME NEW c \in Citizens, requests'[c].stage = "destroying"
      PROVE  requests'[c].seen <= Len(flows'[requests'[c].row])
  <2>1. c # p /\ c \in People
    BY <1>1, <1>2 DEF People
  <2>2. requests'[c] = requests[c]
    BY <1>1, <2>1
  <2>3. /\ requests[c].seen <= Len(flows[requests[c].row])
        /\ Len(flows[requests[c].row]) <= Len(flows'[requests[c].row])
        /\ Len(flows'[requests[c].row]) \in Nat
    BY <1>2, <2>1, <2>2 DEF SeenInv
  <2>4. requests[c] \in CitizenRequest \cup {Idle}
    BY DEF TypeOK
  <2>5. requests[c].seen \in Nat
    BY <1>2, <2>2, <2>4, CitizenTyped
  <2>6. Len(flows[requests[c].row]) \in Nat
    BY <1>2, <2>1, <2>2, WorkedRow
  <2>7. QED
    BY <2>2, <2>3, <2>5, <2>6
<1>3. QED
  BY <1>2 DEF SeenInv

LEMMA SeenStep ==
  ASSUME TypeOK, GoneInv, SeenInv, [Next]_vars
  PROVE  SeenInv'
<1>0. /\ Idle.stage = "idle" /\ Citizens \cap Officers = {}
      /\ Citizens \subseteq People /\ Officers \subseteq People
  BY PeopleAssumption DEF Idle, People
<1>1. ASSUME NEW p \in People, NEW q, Become(p, q),
             q.stage # "destroying" \/ p \notin Citizens, UNCHANGED flows
      PROVE  SeenInv'
  <2>1. \A c \in Citizens \ {p} : requests[c].stage = "destroying" =>
          Len(flows[requests[c].row]) <= Len(flows'[requests[c].row])
          /\ Len(flows'[requests[c].row]) \in Nat
    BY <1>0, <1>1, WorkedRow
  <2>2. QED
    BY <1>1, <2>1, SeenKept
\* An entry more for some row.
<1>2. ASSUME NEW p \in People, NEW q, Become(p, q), q.stage # "destroying",
             NEW s \in Ids, NEW f \in Flow,
             flows' = [flows EXCEPT ![s] = Append(@, f)]
      PROVE  SeenInv'
  <2>1. ASSUME NEW c \in Citizens, requests[c].stage = "destroying"
        PROVE  Len(flows[requests[c].row]) <= Len(flows'[requests[c].row])
               /\ Len(flows'[requests[c].row]) \in Nat
    <3>1. /\ requests[c].row \in Ids /\ flows[requests[c].row] \in Seq(Flow)
          /\ Len(flows[requests[c].row]) \in Nat
      BY <1>0, <2>1, WorkedRow
    <3>2. CASE requests[c].row = s
      <4>1. Len(Append(flows[s], f)) = Len(flows[s]) + 1
        BY <3>1, <3>2, AppendProperties
      <4>2. flows'[s] = Append(flows[s], f)
        BY <1>2 DEF TypeOK
      <4>3. QED
        BY <3>1, <3>2, <4>1, <4>2
    <3>3. CASE requests[c].row # s
      BY <1>2, <3>1, <3>3 DEF TypeOK
    <3>4. QED
      BY <3>2, <3>3
  <2>2. QED
    BY <1>2, <2>1, SeenKept
<1>3. ASSUME NEW c \in Citizens, InsertSubmission(c)
      PROVE  SeenInv'
  <2> DEFINE next == CASE requests[c].upload = "none"     -> "registering"
                       [] requests[c].upload = "accepted" -> "attaching"
                       [] requests[c].upload = "rejected" -> "rejecting"
             q == [stage |-> next, row |-> Len(submissions) + 1]
  <2>1. Become(c, q) /\ requests[c].stage = "drawn"
    BY <1>3 DEF InsertSubmission, Proceed
  <2>2. requests[c].upload \in Uploads
    BY <2>1, CitizenTyped DEF TypeOK
  <2>3. next # "destroying"
    BY <2>2 DEF Uploads
  <2> HIDE DEF next
  <2>4. q.stage # "destroying"
    BY <2>3
  <2>5. \A s \in Ids : flows'[s] = flows[s]
    BY <1>3, InsertTyped
  <2>6. \A d \in Citizens \ {c} : requests[d].stage = "destroying" =>
          Len(flows[requests[d].row]) <= Len(flows'[requests[d].row])
          /\ Len(flows'[requests[d].row]) \in Nat
    BY <1>0, <2>5, WorkedRow
  <2> HIDE DEF q
  <2>7. QED
    BY <1>0, <2>1, <2>4, <2>6, SeenKept
<1>4. ASSUME NEW c \in Citizens, LoadFlows(c)
      PROVE  SeenInv'
  <2> DEFINE r == requests[c]
             q == [stage |-> "destroying", row |-> r.row, seen |-> Len(flows[r.row])]
  <2>1. Become(c, q) /\ UNCHANGED flows /\ r.stage = "rejecting"
    BY <1>4 DEF LoadFlows, Proceed, tables
  <2>2. Len(flows[r.row]) \in Nat
    BY <1>0, <2>1, WorkedRow
  <2>3. requests'[c] = q /\ \A d \in People \ {c} : requests'[d] = requests[d]
    BY <1>0, <2>1, OthersWait
  <2>4. requests'[c].seen = Len(flows'[requests'[c].row])
    BY <2>1, <2>3
  <2>5. requests'[c].seen <= Len(flows'[requests'[c].row])
    BY <2>1, <2>2, <2>3
  <2>6. QED
    BY <1>0, <2>1, <2>3, <2>5 DEF SeenInv
<1>5. ASSUME NEW c \in Citizens, DestroySubmission(c)
      PROVE  SeenInv'
  <2>1. Become(c, Idle) /\ Works(c)
    BY <1>5 DEF DestroySubmission, Proceed, Works
  <2>2. requests[c].row \in Ids
    BY <1>0, <2>1, WorkedRow DEF Works
  <2>3. \A s \in Ids \ {requests[c].row} : flows'[s] = flows[s]
    BY <1>5, <2>2, DestroyEffect DEF tables, TypeOK
  <2>4. ASSUME NEW d \in Citizens \ {c}, requests[d].stage = "destroying"
        PROVE  /\ Len(flows[requests[d].row]) <= Len(flows'[requests[d].row])
               /\ Len(flows'[requests[d].row]) \in Nat
    <3>1. Works(d)
      BY <2>4 DEF Works
    <3>2. requests[d].row # requests[c].row
      BY <2>1, <3>1 DEF GoneInv, OwnInv
    <3>3. requests[d].row \in Ids /\ Len(flows[requests[d].row]) \in Nat
      BY <1>0, <3>1, WorkedRow DEF Works
    <3>4. QED
      BY <2>3, <3>2, <3>3
  <2>5. QED
    BY <1>0, <2>1, <2>4, SeenKept
<1>6. ASSUME NEW p \in People, AttachFiles(p)
      PROVE  SeenInv'
  <2> DEFINE q == IF p \in Citizens
                  THEN [stage |-> "registering", row |-> requests[p].row] ELSE Idle
  <2>1. Become(p, q) /\ q.stage # "destroying" /\ UNCHANGED flows
    BY <1>0, <1>6 DEF AttachFiles, Proceed
  <2> HIDE DEF q
  <2>2. QED
    BY <1>1, <2>1
<1>7. ASSUME NEW c \in Citizens, RegisterSubmission(c)
      PROVE  SeenInv'
  <2> DEFINE f == [from |-> Nil, to |-> "registrado", from_area |-> Nil, to_area |-> Nil]
  <2>1. /\ Become(c, Idle) /\ Works(c)
        /\ flows' = [flows EXCEPT ![requests[c].row] = Append(@, f)]
    BY <1>7 DEF RegisterSubmission, Proceed, Works
  <2>2. requests[c].row \in Ids
    BY <1>0, <2>1, WorkedRow DEF Works
  <2>3. f \in Flow
    BY DEF Flow, Statuses, OptionalArea
  <2> HIDE DEF f
  <2>4. QED
    BY <1>0, <1>2, <2>1, <2>2, <2>3
<1>8. ASSUME NEW o \in Officers, CreateFlow(o)
      PROVE  SeenInv'
  <2> DEFINE r == requests[o]
             q == IF r.attach THEN [stage |-> "attaching", row |-> r.row] ELSE Idle
  <2>1. /\ Become(o, q) /\ q.stage # "destroying" /\ r.stage = "recording"
        /\ flows' = [flows EXCEPT ![r.row] = Append(@, r.flow)]
    BY <1>0, <1>8 DEF CreateFlow, Proceed
  <2>2. r.row \in Ids
    BY <1>0, <2>1, WorkedRow
  <2>3. r.flow \in Flow
    BY <2>1, OfficerTyped DEF TypeOK
  <2> HIDE DEF q
  <2>4. QED
    BY <1>0, <1>2, <2>1, <2>2, <2>3
<1>9. ASSUME NEW o \in Officers, UpdateStatus(o)
      PROVE  SeenInv'
  <2>1. Become(o, [requests[o] EXCEPT !.stage = "recording"]) /\ UNCHANGED flows
    BY <1>9, UpdateEffect
  <2>2. QED
    BY <1>0, <1>1, <2>1
<1>10. ASSUME NEW p \in People, Become(p, Idle), UNCHANGED tables
       PROVE  SeenInv'
  BY <1>0, <1>1, <1>10 DEF tables
<1>11. CASE Arrive
  <2>1. ASSUME NEW c \in Citizens, NEW n \in Numbers, NEW u \in Uploads,
               GenerateTrackingNumber(c, n, u)
        PROVE  SeenInv'
    <3> DEFINE q == [stage |-> "drawn", number |-> n, upload |-> u]
    <3>1. Become(c, q) /\ UNCHANGED flows /\ q.stage # "destroying"
      BY <2>1 DEF GenerateTrackingNumber, tables
    <3> HIDE DEF q
    <3>2. QED
      BY <1>0, <1>1, <3>1
  <2>2. ASSUME NEW o \in Officers, NEW to \in Statuses, NEW a \in OptionalArea,
               NEW u \in Uploads, Confirm(o, to, a, u)
        PROVE  SeenInv'
    <3>1. PICK q : Become(o, q)
      BY <2>2 DEF Confirm
    <3>2. QED
      BY <1>0, <1>1, <2>2, <3>1 DEF Confirm, tables
  <2>3. ASSUME NEW o \in Officers, NEW s \in Ids, OpenPage(o, s)
        PROVE  SeenInv'
    BY <2>3 DEF OpenPage, SeenInv, tables
  <2>4. QED
    BY <1>11, <2>1, <2>2, <2>3 DEF Arrive
<1>12. CASE UNCHANGED vars
  BY <1>12 DEF vars, tables, SeenInv
<1>13. ASSUME NEW c \in Citizens, Submit(c)
       PROVE  SeenInv'
  BY <1>0, <1>3, <1>4, <1>5, <1>6, <1>7, <1>10, <1>13 DEF Submit, RefuseNumber, Proceed
<1>14. ASSUME NEW o \in Officers, UpdateStep(o)
       PROVE  SeenInv'
  BY <1>0, <1>6, <1>8, <1>9, <1>10, <1>14 DEF UpdateStep, Refuse, RaiseForeignKey, Proceed
<1>15. QED
  BY <1>10, <1>11, <1>12, <1>13, <1>14 DEF Next, Rest, Abort

\* A step of p after which p works on the same row, or on one that has a history
\* or is gone, and which takes no history away from what is present.
LEMMA UntrackedKept ==
  ASSUME TypeOK, NEW p \in People, NEW q, Become(p, q),
         Present' \subseteq Present,
         \A s \in Present' : flows'[s] = <<>> => flows[s] = <<>>,
         p \in Citizens /\ Works(p) =>
           \/ q.stage \notin {"idle", "drawn"} /\ q.row = requests[p].row
           \/ requests[p].row \in Present' => flows'[requests[p].row] # <<>>
  PROVE  Untracked' \subseteq Untracked
<1> SUFFICES ASSUME NEW s \in Untracked' PROVE s \in Untracked
  OBVIOUS
<1>1. requests'[p] = q /\ \A c \in People \ {p} : requests'[c] = requests[c]
  BY OthersWait
<1>2. s \in Present' /\ flows'[s] = <<>> /\ ~Pending(s)'
  BY DEF Untracked
<1>3. s \in Present /\ flows[s] = <<>>
  BY <1>2
<1>4. ASSUME NEW c \in Citizens, Works(c), requests[c].row = s
      PROVE  FALSE
  <2>1. CASE c = p
    BY <1>1, <1>2, <1>4, <2>1 DEF Pending, Works
  <2>2. CASE c # p
    BY <1>1, <1>2, <1>4, <2>2 DEF Pending, Works, People
  <2>3. QED
    BY <2>1, <2>2
<1>5. QED
  BY <1>3, <1>4 DEF Untracked, Pending, Works

\* An entry more for some row, written by one who has done with it.
LEMMA UntrackedEntry ==
  ASSUME TypeOK, NEW p \in People, NEW q, Become(p, q), UNCHANGED submissions,
         NEW s \in Ids, NEW f \in Flow, flows' = [flows EXCEPT ![s] = Append(@, f)],
         p \in Citizens => requests[p].row = s
  PROVE  Untracked' \subseteq Untracked
<1>1. Present' = Present /\ Present \subseteq Ids
  BY DEF Present, Ids
<1>2. flows[s] \in Seq(Flow)
  BY DEF TypeOK
<1>3. Append(flows[s], f) # <<>>
  BY <1>2, AppendProperties
<1>4. flows'[s] # <<>> /\ \A t \in Ids \ {s} : flows'[t] = flows[t]
  BY <1>3 DEF TypeOK
<1>5. QED
  BY <1>1, <1>4, UntrackedKept

LEMMA UntrackedSubmit ==
  ASSUME TypeOK, GoneInv, SeenInv, NEW c \in Citizens, Submit(c)
  PROVE  Untracked' \subseteq Untracked /\ aborted' = aborted
<1>0. c \in People /\ Idle.stage = "idle"
  BY DEF People, Idle
<1>1. aborted' = aborted
  BY DEF Submit, InsertSubmission, RefuseNumber, AttachFiles, LoadFlows,
         DestroySubmission, RegisterSubmission, Proceed
<1>2. CASE InsertSubmission(c)
  <2> DEFINE n == Len(submissions) + 1
             next == CASE requests[c].upload = "none"     -> "registering"
                       [] requests[c].upload = "accepted" -> "attaching"
                       [] requests[c].upload = "rejected" -> "rejecting"
             q == [stage |-> next, row |-> n]
  <2>1. /\ Ids' = Ids \cup {n} /\ n \notin Ids
        /\ \A s \in Ids : submissions'[s] = submissions[s] /\ flows'[s] = flows[s]
    BY <1>2, InsertTyped
  <2>2. Become(c, q) /\ requests[c].stage = "drawn"
    BY <1>2 DEF InsertSubmission, Proceed
  <2>3. requests[c].upload \in Uploads
    BY <2>2, CitizenTyped DEF TypeOK
  <2>4. next \in {"registering", "attaching", "rejecting"}
    BY <2>3 DEF Uploads
  <2> HIDE DEF next, n
  <2>5. /\ requests'[c].row = n /\ requests'[c].stage \notin {"idle", "drawn"}
        /\ \A d \in Citizens \ {c} : requests'[d] = requests[d]
    BY <1>0, <2>2, <2>4, OthersWait DEF People
  <2>6. Present' \subseteq Present \cup {n}
    BY <2>1 DEF Present
  <2>7. ASSUME NEW s \in Untracked' PROVE s \in Untracked
    <3>1. s \in Present' /\ flows'[s] = <<>> /\ ~Pending(s)'
      BY <2>7 DEF Untracked
    <3>2. s # n
      BY <2>5, <3>1 DEF Pending
    <3>3. s \in Present /\ flows[s] = <<>>
      BY <2>1, <2>6, <3>1, <3>2 DEF Present
    <3>4. ~Pending(s)
      BY <2>2, <2>5, <3>1 DEF Pending
    <3>5. QED
      BY <3>3, <3>4 DEF Untracked
  <2>8. QED
    BY <1>1, <2>7
<1>3. CASE RefuseNumber(c)
  <2>1. Become(c, Idle) /\ UNCHANGED tables /\ ~Works(c)
    BY <1>3 DEF RefuseNumber, Proceed, Works
  <2>2. QED
    BY <1>0, <1>1, <2>1, UntrackedKept DEF tables, Present, Ids
<1>4. CASE AttachFiles(c)
  <2> DEFINE r == requests[c]
             q == [stage |-> "registering", row |-> r.row]
             row == [submissions[r.row] EXCEPT !.files = TRUE]
  <2>1. /\ Become(c, q) /\ UNCHANGED flows /\ Works(c)
        /\ submissions' = [submissions EXCEPT ![r.row] = row]
    BY <1>4 DEF AttachFiles, Proceed, Works
  <2>2. r.row \in Ids /\ submissions[r.row] \in Submission
    BY <1>0, <2>1, WorkedRow DEF Works
  <2>3. row.present = submissions[r.row].present
    BY <2>2 DEF Submission
  <2> HIDE DEF row
  <2>4. Present' = Present
    BY <2>1, <2>2, <2>3, SamePresent
  <2>5. QED
    BY <1>0, <1>1, <2>1, <2>4, UntrackedKept
<1>5. CASE LoadFlows(c)
  <2> DEFINE r == requests[c]
             q == [stage |-> "destroying", row |-> r.row, seen |-> Len(flows[r.row])]
  <2>1. Become(c, q) /\ UNCHANGED tables
    BY <1>5 DEF LoadFlows, Proceed
  <2>2. QED
    BY <1>0, <1>1, <2>1, UntrackedKept DEF tables, Present, Ids
\* What cannot be destroyed has an entry that came in between.
<1>6. CASE DestroySubmission(c)
  <2> DEFINE r == requests[c]
  <2>1. Become(c, Idle) /\ Works(c) /\ r.stage = "destroying"
    BY <1>6 DEF DestroySubmission, Proceed, Works
  <2>2. r.row \in Ids /\ flows[r.row] \in Seq(Flow) /\ Len(flows[r.row]) \in Nat
    BY <1>0, <2>1, WorkedRow DEF Works
  <2>3. CASE Len(flows[r.row]) = r.seen
    <3>1. flows' = [flows EXCEPT ![r.row] = <<>>]
      BY <1>6, <2>3 DEF DestroySubmission
    <3>2. submissions' = [submissions EXCEPT ![r.row].present = FALSE,
                                             ![r.row].files = FALSE]
      BY <1>6, <2>3 DEF DestroySubmission
    <3>3. \A s \in Ids \ {r.row} : submissions'[s] = submissions[s] /\ flows'[s] = flows[s]
      BY <2>2, <3>1, <3>2 DEF Ids, TypeOK
    <3>4. submissions'[r.row].present = FALSE /\ Ids' = Ids
      BY <2>2, <3>2, IdsTyped, TypeSplit DEF Ids, Submission
    <3>5. Present' \subseteq Present \ {r.row}
      BY <3>3, <3>4 DEF Present
    <3>6. \A s \in Present' : flows'[s] = <<>> => flows[s] = <<>>
      BY <3>3, <3>5 DEF Present
    <3>7. QED
      BY <1>0, <1>1, <2>1, <3>5, <3>6, UntrackedKept
  <2>4. CASE Len(flows[r.row]) # r.seen
    <3>1. UNCHANGED tables
      BY <1>6, <2>4 DEF DestroySubmission
    <3>2. r.seen <= Len(flows[r.row]) /\ r.seen \in Nat
      BY <2>1, CitizenTyped DEF SeenInv, TypeOK
    <3>3. Len(flows[r.row]) # 0
      BY <2>2, <2>4, <3>2
    <3>4. flows[r.row] # <<>>
      BY <3>3
    <3>5. QED
      BY <1>0, <1>1, <2>1, <3>1, <3>4, UntrackedKept DEF tables, Present, Ids
  <2>5. QED
    BY <2>3, <2>4
<1>7. CASE RegisterSubmission(c)
  <2> DEFINE f == [from |-> Nil, to |-> "registrado", from_area |-> Nil, to_area |-> Nil]
  <2>1. /\ Become(c, Idle) /\ Works(c) /\ UNCHANGED submissions
        /\ flows' = [flows EXCEPT ![requests[c].row] = Append(@, f)]
    BY <1>7 DEF RegisterSubmission, Proceed, Works
  <2>2. requests[c].row \in Ids
    BY <1>0, <2>1, WorkedRow DEF Works
  <2>3. f \in Flow
    BY DEF Flow, Statuses, OptionalArea
  <2> HIDE DEF f
  <2>4. QED
    BY <1>0, <1>1, <2>1, <2>2, <2>3, UntrackedEntry
<1>8. QED
  BY <1>2, <1>3, <1>4, <1>5, <1>6, <1>7 DEF Submit

LEMMA UntrackedUpdate ==
  ASSUME TypeOK, NEW o \in Officers, UpdateStep(o)
  PROVE  Untracked' \subseteq Untracked /\ aborted' = aborted
<1> DEFINE r == requests[o]
<1>0. o \in People /\ o \notin Citizens
  BY PeopleAssumption DEF People
<1>1. aborted' = aborted
  BY DEF UpdateStep, Refuse, UpdateStatus, CreateFlow, RaiseForeignKey, AttachFiles,
         Proceed
<1>2. ASSUME NEW q, Become(o, q), UNCHANGED flows, Present' = Present
      PROVE  Untracked' \subseteq Untracked
  BY <1>0, <1>2, UntrackedKept
<1>3. CASE Refuse(o) \/ RaiseForeignKey(o)
  BY <1>1, <1>2, <1>3 DEF Refuse, RaiseForeignKey, Proceed, tables, Present, Ids
<1>4. CASE UpdateStatus(o)
  <2>1. /\ r.stage = "loaded" /\ UNCHANGED flows
        /\ Become(o, [r EXCEPT !.stage = "recording"])
        /\ UNCHANGED submissions \/ submissions' = [submissions EXCEPT ![r.row] = Updated(r)]
    BY <1>4, UpdateEffect
  <2>2. r.row \in Ids /\ submissions[r.row] \in Submission
    BY <1>0, <2>1, WorkedRow
  <2>3. Updated(r).present = submissions[r.row].present
    BY <2>2 DEF Updated, Submission
  <2>4. Present' = Present
    BY <2>1, <2>2, <2>3, SamePresent DEF Present, Ids
  <2>5. QED
    BY <1>1, <1>2, <2>1, <2>4
<1>5. CASE CreateFlow(o)
  <2>1. /\ r.stage = "recording" /\ UNCHANGED submissions
        /\ \E q : Become(o, q)
        /\ flows' = [flows EXCEPT ![r.row] = Append(@, r.flow)]
    BY <1>5 DEF CreateFlow, Proceed
  <2>2. r.row \in Ids /\ r.flow \in Flow
    BY <1>0, <2>1, WorkedRow, OfficerTyped DEF TypeOK
  <2>3. QED
    BY <1>0, <1>1, <2>1, <2>2, UntrackedEntry
<1>6. CASE AttachFiles(o)
  <2> DEFINE row == [submissions[r.row] EXCEPT !.files = TRUE]
  <2>1. /\ r.stage = "attaching" /\ Become(o, Idle) /\ UNCHANGED flows
        /\ submissions' = [submissions EXCEPT ![r.row] = row]
    BY <1>0, <1>6 DEF AttachFiles, Proceed
  <2>2. r.row \in Ids /\ submissions[r.row] \in Submission
    BY <1>0, <2>1, WorkedRow
  <2>3. row.present = submissions[r.row].present
    BY <2>2 DEF Submission
  <2> HIDE DEF row
  <2>4. Present' = Present
    BY <2>1, <2>2, <2>3, SamePresent
  <2>5. QED
    BY <1>1, <1>2, <2>1, <2>4
<1>7. QED
  BY <1>3, <1>4, <1>5, <1>6 DEF UpdateStep

LEMMA UntrackedStep ==
  ASSUME TypeOK, GoneInv, SeenInv, [Next]_vars
  PROVE  \/ Untracked' \subseteq Untracked /\ aborted' = aborted
         \/ \E x : Untracked' \subseteq Untracked \cup {x} /\ aborted' = aborted + 1
<1>1. ASSUME NEW p \in People, Abort(p)
      PROVE  Untracked' \subseteq Untracked \cup {requests[p].row} /\ aborted' = aborted + 1
  <2>1. requests'[p] = Idle /\ \A c \in People \ {p} : requests'[c] = requests[c]
    BY <1>1, OthersWait DEF Abort
  <2>2. /\ UNCHANGED tables /\ aborted' = aborted + 1
        /\ Present' = Present
    BY <1>1 DEF Abort, tables, Present, Ids
  <2>3. ASSUME NEW s \in Untracked', s # requests[p].row PROVE s \in Untracked
    <3>1. s \in Present /\ flows[s] = <<>> /\ ~Pending(s)'
      BY <2>2, <2>3 DEF Untracked, tables
    <3>2. ~Pending(s)
      BY <2>1, <2>3, <3>1 DEF Pending, People
    <3>3. QED
      BY <3>1, <3>2 DEF Untracked
  <2>4. QED
    BY <2>2, <2>3
<1>2. CASE UNCHANGED <<tables, requests, aborted>>
  BY <1>2 DEF tables, Untracked, Pending, Present, Ids
<1>3. ASSUME NEW p \in People, NEW q, Become(p, q), UNCHANGED tables, ~Works(p)
      PROVE  Untracked' \subseteq Untracked
  BY <1>3, UntrackedKept DEF tables, Present, Ids
<1>4. CASE Arrive
  <2>1. ASSUME NEW c \in Citizens, NEW n \in Numbers, NEW u \in Uploads,
               GenerateTrackingNumber(c, n, u)
        PROVE  Untracked' \subseteq Untracked /\ aborted' = aborted
    <3> DEFINE q == [stage |-> "drawn", number |-> n, upload |-> u]
    <3>1. Become(c, q) /\ UNCHANGED tables /\ requests[c] = Idle /\ aborted' = aborted
      BY <2>1 DEF GenerateTrackingNumber, Accept
    <3> HIDE DEF q
    <3>2. ~Works(c) /\ c \in People
      BY <3>1 DEF Works, Idle, People
    <3>3. QED
      BY <1>3, <3>1, <3>2
  <2>2. ASSUME NEW o \in Officers, NEW to \in Statuses, NEW a \in OptionalArea,
               NEW u \in Uploads, Confirm(o, to, a, u)
        PROVE  Untracked' \subseteq Untracked /\ aborted' = aborted
    <3>1. /\ \E q : Become(o, q)
          /\ UNCHANGED tables /\ requests[o] = Idle /\ aborted' = aborted
      BY <2>2 DEF Confirm, Accept
    <3>2. ~Works(o) /\ o \in People
      BY <3>1 DEF Works, Idle, People
    <3>3. QED
      BY <1>3, <3>1, <3>2
  <2>3. QED
    BY <1>2, <1>4, <2>1, <2>2 DEF Arrive, OpenPage
<1>5. CASE UNCHANGED vars
  BY <1>2, <1>5 DEF vars
<1>6. QED
  BY <1>1, <1>4, <1>5, UntrackedSubmit, UntrackedUpdate DEF Next, Rest

TrackedInv == GoneInv /\ SeenInv /\ SubmissionsAreTracked

LEMMA TrackedStep ==
  ASSUME TypeOK, TrackedInv, [Next]_vars
  PROVE  TrackedInv'
<1>1. GoneInv' /\ SeenInv'
  BY GoneStep, SeenStep DEF TrackedInv
<1>2. Cardinality(Untracked) <= aborted /\ Untracked \subseteq Present
  BY DEF TrackedInv, SubmissionsAreTracked, Untracked
<1>3. Cardinality(Untracked') <= aborted'
  BY <1>2, UntrackedStep, CountedSubmissions DEF TrackedInv
<1>4. SubmissionsAreTracked'
  BY <1>3 DEF SubmissionsAreTracked, Untracked
<1>5. QED
  BY <1>1, <1>4 DEF TrackedInv

\* A submission without history is being worked on, but for one more per request
\* that was cut short.
THEOREM AllAreTracked == Spec => []SubmissionsAreTracked
<1>1. Init => TypeOK /\ TrackedInv
  <2> SUFFICES ASSUME Init PROVE TypeOK /\ TrackedInv
    OBVIOUS
  <2>1. GoneInv /\ SeenInv
    BY DEF Init, GoneInv, OwnInv, Works, GoneHasNoHistory, Present, Ids, Idle, People, SeenInv
  <2>2. Untracked = {} /\ aborted = 0
    BY DEF Init, Untracked, Present, Ids
  <2>3. Cardinality(Untracked) <= aborted
    BY <2>2, FS_EmptySet
  <2>4. QED
    BY <2>1, <2>3, TypeInit DEF TrackedInv, SubmissionsAreTracked, Untracked
<1>2. TypeOK /\ TrackedInv /\ [Next]_vars => TypeOK' /\ TrackedInv'
  BY TypeStep, TrackedStep
<1>3. TrackedInv => SubmissionsAreTracked
  BY DEF TrackedInv
<1>4. QED
  BY <1>1, <1>2, <1>3, PTL DEF Spec
-----------------------------------------------------------------------------
(* Explanations.  The entry of a change is at first in the thread that made   *)
(* it and then in the history: only a thread that is cut short in between     *)
(* takes one away.                                                            *)

\* The entries s has, and the officers whose threads are to write one more.
Recorded(s)   == {flows[s][i] : i \in DOMAIN flows[s]}
Writing(o, s) == requests[o].stage = "recording" /\ requests[o].row = s

\* The page sends an area with derivado only.
ToldInv ==
  \A o \in Officers : requests[o].stage \in {"loaded", "recording"} =>
    (requests[o].flow.to_area # Nil => requests[o].flow.to = "derivado")

ExplainedInv == ToldInv /\ StateIsExplained

LEMMA EntriesSplit ==
  ASSUME NEW s
  PROVE  \A f : f \in Entries(s) <=>
           f \in Recorded(s) \/ \E o \in Officers : Writing(o, s) /\ f = requests[o].flow
BY DEF Entries, Recorded, Writing

\* An entry more in the history of s.
LEMMA RecordedGrows ==
  ASSUME TypeOK, NEW s \in Ids, NEW f \in Flow,
         flows' = [flows EXCEPT ![s] = Append(@, f)]
  PROVE  /\ \A t \in Ids : Recorded(t) \subseteq Recorded(t)'
         /\ f \in Recorded(s)'
<1> DEFINE h == flows[s]
           g == Append(h, f)
<1>1. h \in Seq(Flow) /\ DOMAIN h = 1 .. Len(h) /\ Len(h) \in Nat
  BY LenProperties DEF TypeOK
<1>2. /\ g \in Seq(Flow) /\ Len(g) = Len(h) + 1
      /\ \A i \in 1 .. Len(h) : g[i] = h[i]
      /\ g[Len(h) + 1] = f
  BY <1>1, AppendProperties
<1>3. DOMAIN g = 1 .. Len(h) + 1
  BY <1>2, LenProperties
<1>4. flows'[s] = g /\ \A t \in Ids \ {s} : flows'[t] = flows[t]
  BY DEF TypeOK
<1> HIDE DEF g
<1>5. f \in Recorded(s)'
  BY <1>1, <1>2, <1>3, <1>4 DEF Recorded
<1>6. Recorded(s) \subseteq Recorded(s)'
  BY <1>1, <1>2, <1>3, <1>4 DEF Recorded
<1>7. \A t \in Ids \ {s} : Recorded(t) \subseteq Recorded(t)'
  BY <1>4 DEF Recorded
<1>8. QED
  BY <1>5, <1>6, <1>7

\* A step of p after which nothing p was to write is missing, and which writes
\* no status or area.
LEMMA UnexplainedKept ==
  ASSUME TypeOK, NEW p \in People, NEW q, Become(p, q), Present' \subseteq Present,
         \A s \in Present' :
           /\ submissions'[s].status = submissions[s].status
           /\ submissions'[s].area = submissions[s].area
           /\ Recorded(s) \subseteq Recorded(s)',
         \A s \in Present' : p \in Officers /\ Writing(p, s) =>
           requests[p].flow \in Recorded(s)'
  PROVE  Unexplained' \subseteq Unexplained
<1>1. requests'[p] = q /\ \A o \in People \ {p} : requests'[o] = requests[o]
  BY OthersWait
<1>2. ASSUME NEW s \in Present' PROVE Entries(s) \subseteq Entries(s)'
  <2> SUFFICES ASSUME NEW f \in Entries(s) PROVE f \in Entries(s)'
    OBVIOUS
  <2>1. CASE f \in Recorded(s)
    BY <2>1, EntriesSplit DEF Entries, Recorded
  <2>2. ASSUME NEW o \in Officers, Writing(o, s), f = requests[o].flow
        PROVE  f \in Entries(s)'
    <3>1. CASE o = p
      BY <2>2, <3>1 DEF Entries, Recorded
    <3>2. CASE o # p
      BY <1>1, <2>2, <3>2 DEF Entries, Writing, People
    <3>3. QED
      BY <3>1, <3>2
  <2>3. QED
    BY <2>1, <2>2, EntriesSplit
<1>3. ASSUME NEW s \in Unexplained' PROVE s \in Unexplained
  <2>1. s \in Present' /\ s \in Present /\ ~Explained(s)'
    BY DEF Unexplained
  <2>2. ~Explained(s)
    BY <1>2, <2>1 DEF Explained
  <2>3. QED
    BY <2>1, <2>2 DEF Unexplained
<1>4. QED
  BY <1>3

\* A step of p that leaves the rows and what there is of history alone.
LEMMA UnexplainedRead ==
  ASSUME TypeOK, NEW p \in People, NEW q, Become(p, q), UNCHANGED tables,
         \A s \in Present : p \in Officers => ~Writing(p, s)
  PROVE  Unexplained' \subseteq Unexplained
<1>1. Present' = Present /\ \A s \in Present : Recorded(s)' = Recorded(s)
  BY DEF tables, Present, Ids, Recorded
<1>2. QED
  BY <1>1, UnexplainedKept DEF tables

\* Files are stored for a row.
LEMMA UnexplainedFiles ==
  ASSUME TypeOK, NEW p \in People, AttachFiles(p)
  PROVE  Unexplained' \subseteq Unexplained
<1> DEFINE r == requests[p]
           row == [submissions[r.row] EXCEPT !.files = TRUE]
<1>1. /\ r.stage = "attaching" /\ UNCHANGED flows /\ \E q : Become(p, q)
      /\ submissions' = [submissions EXCEPT ![r.row] = row]
  BY DEF AttachFiles, Proceed
<1>2. r.row \in Ids /\ submissions[r.row] \in Submission
  BY <1>1, WorkedRow
<1>3. /\ row.present = submissions[r.row].present
      /\ row.status = submissions[r.row].status
      /\ row.area = submissions[r.row].area
  BY <1>2 DEF Submission
<1> HIDE DEF row
<1>4. Present' = Present
  BY <1>1, <1>2, <1>3, SamePresent
<1>5. \A s \in Ids : submissions'[s].status = submissions[s].status
                     /\ submissions'[s].area = submissions[s].area
  BY <1>1, <1>2, <1>3 DEF Ids
<1>6. \A s \in Ids : Recorded(s) \subseteq Recorded(s)' /\ ~Writing(p, s)
  BY <1>1 DEF Recorded, Writing
<1>7. QED
  BY <1>1, <1>4, <1>5, <1>6, UnexplainedKept DEF Present

\* An entry more for some row, written by one who has done with it.
LEMMA UnexplainedEntry ==
  ASSUME TypeOK, NEW p \in People, NEW q, Become(p, q), UNCHANGED submissions,
         NEW s \in Ids, NEW f \in Flow, flows' = [flows EXCEPT ![s] = Append(@, f)],
         \A t \in Ids : p \in Officers /\ Writing(p, t) => t = s /\ requests[p].flow = f
  PROVE  Unexplained' \subseteq Unexplained
<1>1. Present' = Present /\ Present \subseteq Ids
  BY DEF Present, Ids
<1>2. f \in Recorded(s)' /\ \A t \in Ids : Recorded(t) \subseteq Recorded(t)'
  BY RecordedGrows
<1>3. \A t \in Present' : p \in Officers /\ Writing(p, t) =>
        requests[p].flow \in Recorded(t)'
  BY <1>1, <1>2
<1>4. QED
  BY <1>1, <1>2, <1>3, UnexplainedKept

LEMMA UnexplainedSubmit ==
  ASSUME TypeOK, GoneInv, NEW c \in Citizens, Submit(c)
  PROVE  Unexplained' \subseteq Unexplained /\ aborted' = aborted
<1> DEFINE r == requests[c]
<1>0. c \in People /\ c \notin Officers
  BY PeopleAssumption DEF People
<1>1. aborted' = aborted
  BY DEF Submit, InsertSubmission, RefuseNumber, AttachFiles, LoadFlows,
         DestroySubmission, RegisterSubmission, Proceed
<1>2. CASE InsertSubmission(c)
  <2> DEFINE n == Len(submissions) + 1
  <2>1. /\ Ids' = Ids \cup {n} /\ n \notin Ids
        /\ \A s \in Ids : submissions'[s] = submissions[s] /\ flows'[s] = flows[s]
        /\ submissions'[n] =
             [number |-> r.number, status |-> "registrado", area |-> DefaultArea,
              present |-> TRUE, files |-> FALSE]
    BY <1>2, InsertTyped
  <2>2. \E q : Become(c, q)
    BY <1>2 DEF InsertSubmission, Proceed
  <2>3. \A o \in Officers : requests'[o] = requests[o]
    BY <1>0, <2>2, OthersWait DEF People
  <2>4. submissions'[n].status = "registrado" /\ submissions'[n].area = DefaultArea
    BY <2>1
  <2> HIDE DEF n
  <2>5. ASSUME NEW s \in Unexplained' PROVE s \in Unexplained
    <3>1. s \in Present' /\ ~Explained(s)'
      BY DEF Unexplained
    <3>2. s # n
      BY <2>4, <3>1 DEF Explained
    <3>3. s \in Present /\ s \in Ids
      BY <2>1, <3>1, <3>2 DEF Present
    <3>4. Entries(s)' = Entries(s)
      BY <2>1, <2>3, <3>3 DEF Entries
    <3>5. ~Explained(s)
      BY <2>1, <3>1, <3>3, <3>4 DEF Explained
    <3>6. QED
      BY <3>3, <3>5 DEF Unexplained
  <2>6. QED
    BY <1>1, <2>5
<1>3. CASE RefuseNumber(c) \/ LoadFlows(c)
  BY <1>0, <1>1, <1>3, UnexplainedRead DEF RefuseNumber, LoadFlows, Proceed
<1>4. CASE DestroySubmission(c)
  <2>1. Become(c, Idle) /\ Works(c)
    BY <1>4 DEF DestroySubmission, Proceed, Works
  <2>2. CASE UNCHANGED tables
    BY <1>0, <1>1, <2>1, <2>2, UnexplainedRead
  <2>3. CASE ~UNCHANGED tables
    <3>1. r.row \in Ids /\ submissions[r.row] \in Submission
      BY <1>0, <2>1, WorkedRow DEF Works
    <3>2. /\ Present' = Present \ {r.row}
          /\ flows' = [flows EXCEPT ![r.row] = <<>>]
          /\ submissions' = [submissions EXCEPT ![r.row].present = FALSE,
                                                ![r.row].files = FALSE]
      BY <1>4, <2>3, DestroyEffect DEF DestroySubmission
    <3>3. \A s \in Ids \ {r.row} : submissions'[s] = submissions[s] /\ flows'[s] = flows[s]
      BY <3>1, <3>2 DEF Ids, TypeOK
    <3>4. ASSUME NEW s \in Present'
          PROVE  submissions'[s] = submissions[s] /\ Recorded(s) \subseteq Recorded(s)'
      <4>1. s \in Ids \ {r.row}
        BY <3>2 DEF Present
      <4>2. submissions'[s] = submissions[s] /\ flows'[s] = flows[s]
        BY <3>3, <4>1
      <4>3. QED
        BY <4>2 DEF Recorded
    <3>5. QED
      BY <1>0, <1>1, <2>1, <3>2, <3>4, UnexplainedKept
  <2>4. QED
    BY <2>2, <2>3
<1>5. CASE RegisterSubmission(c)
  <2> DEFINE f == [from |-> Nil, to |-> "registrado", from_area |-> Nil, to_area |-> Nil]
  <2>1. /\ Become(c, Idle) /\ Works(c) /\ UNCHANGED submissions
        /\ flows' = [flows EXCEPT ![r.row] = Append(@, f)]
    BY <1>5 DEF RegisterSubmission, Proceed, Works
  <2>2. r.row \in Ids
    BY <1>0, <2>1, WorkedRow DEF Works
  <2>3. f \in Flow
    BY DEF Flow, Statuses, OptionalArea
  <2> HIDE DEF f
  <2>4. QED
    BY <1>0, <1>1, <2>1, <2>2, <2>3, UnexplainedEntry
<1>6. QED
  BY <1>0, <1>1, <1>2, <1>3, <1>4, <1>5, UnexplainedFiles DEF Submit

\* The change of a row is explained by the thread that makes it.
LEMMA UnexplainedChange ==
  ASSUME TypeOK, ToldInv, NEW o \in Officers, UpdateStatus(o)
  PROVE  Unexplained' \subseteq Unexplained
<1> DEFINE r == requests[o]
           q == [r EXCEPT !.stage = "recording"]
<1>0. o \in People /\ o \notin Citizens
  BY PeopleAssumption DEF People
<1>1. /\ r.stage = "loaded" /\ UNCHANGED flows /\ Become(o, q)
      /\ UNCHANGED submissions \/ submissions' = [submissions EXCEPT ![r.row] = Updated(r)]
  BY UpdateEffect
<1>2. r.row \in Ids /\ submissions[r.row] \in Submission
  BY <1>0, <1>1, WorkedRow
<1>3. /\ requests'[o] = q /\ \A x \in Officers \ {o} : requests'[x] = requests[x]
  BY <1>0, <1>1, OthersWait DEF People
<1>4. /\ r.flow \in Flow
      /\ r = [stage |-> r.stage, row |-> r.row, flow |-> r.flow, attach |-> r.attach]
  BY <1>1, OfficerTyped DEF TypeOK
<1>5. q.stage = "recording" /\ q.row = r.row /\ q.flow = r.flow
  BY <1>4
<1>6. r.flow.to_area # Nil => r.flow.to = "derivado"
  BY <1>1 DEF ToldInv
<1>7. /\ Updated(r).present = submissions[r.row].present
      /\ Updated(r).status \in {submissions[r.row].status, r.flow.to}
      /\ \/ Updated(r).area = submissions[r.row].area
         \/ Updated(r).area = r.flow.to_area /\ r.flow.to_area # Nil
  BY <1>2 DEF Updated, Submission
<1> HIDE DEF q
<1>8. Present' = Present
  BY <1>1, <1>2, <1>7, SamePresent DEF Present, Ids
<1>9. \A s \in Ids : Entries(s) \subseteq Entries(s)'
  BY <1>1, <1>3 DEF Entries
<1>10. \A s \in {r.row} : r.flow \in Entries(s)'
  BY <1>3, <1>5 DEF Entries
<1>11. ASSUME NEW s \in Unexplained' PROVE s \in Unexplained
  <2>1. s \in Present' /\ s \in Present /\ s \in Ids /\ ~Explained(s)'
    BY <1>8 DEF Unexplained, Present
  <2>2. CASE submissions'[s] = submissions[s]
    <3>1. ~Explained(s)
      BY <1>9, <2>1, <2>2 DEF Explained
    <3>2. QED
      BY <2>1, <3>1 DEF Unexplained
  <2>3. CASE s = r.row /\ submissions'[s] = Updated(r)
    <3>1. ASSUME Explained(s) PROVE Explained(s)'
      <4>1. submissions'[s].status = "registrado"
            \/ \E f \in Entries(s)' : f.to = submissions'[s].status
        BY <1>7, <1>9, <1>10, <2>1, <2>3, <3>1 DEF Explained
      <4>2. submissions'[s].area = DefaultArea
            \/ \E f \in Entries(s)' : f.to = "derivado" /\ f.to_area = submissions'[s].area
        <5>1. CASE Updated(r).area = submissions[r.row].area
          <6>1. submissions'[s].area = submissions[s].area
            BY <2>3, <5>1
          <6>2. QED
            BY <1>9, <2>1, <3>1, <6>1 DEF Explained
        <5>2. CASE Updated(r).area = r.flow.to_area /\ r.flow.to_area # Nil
          <6>1. submissions'[s].area = r.flow.to_area /\ r.flow.to = "derivado"
            BY <1>6, <2>3, <5>2
          <6>2. r.flow \in Entries(s)'
            BY <1>10, <2>3
          <6>3. QED
            BY <6>1, <6>2
        <5>3. QED
          BY <1>7, <5>1, <5>2
      <4>3. QED
        BY <4>1, <4>2 DEF Explained
    <3>2. QED
      BY <2>1, <3>1 DEF Unexplained
  <2>4. QED
    BY <1>1, <1>2, <2>1, <2>2, <2>3 DEF Ids
<1>12. QED
  BY <1>11

LEMMA UnexplainedUpdate ==
  ASSUME TypeOK, ToldInv, NEW o \in Officers, UpdateStep(o)
  PROVE  Unexplained' \subseteq Unexplained /\ aborted' = aborted
<1> DEFINE r == requests[o]
<1>0. o \in People
  BY DEF People
<1>1. aborted' = aborted
  BY DEF UpdateStep, Refuse, UpdateStatus, CreateFlow, RaiseForeignKey, AttachFiles,
         Proceed
<1>2. CASE Refuse(o)
  BY <1>0, <1>1, <1>2, UnexplainedRead DEF Refuse, Proceed, Writing
<1>3. CASE RaiseForeignKey(o)
  BY <1>0, <1>1, <1>3, UnexplainedRead DEF RaiseForeignKey, Proceed, Writing
<1>4. CASE CreateFlow(o)
  <2>1. /\ r.stage = "recording" /\ UNCHANGED submissions
        /\ \E q : Become(o, q)
        /\ flows' = [flows EXCEPT ![r.row] = Append(@, r.flow)]
    BY <1>4 DEF CreateFlow, Proceed
  <2>2. r.row \in Ids /\ r.flow \in Flow
    BY <1>0, <2>1, WorkedRow, OfficerTyped DEF TypeOK
  <2>3. \A t \in Ids : Writing(o, t) => t = r.row
    BY DEF Writing
  <2>4. QED
    BY <1>0, <1>1, <2>1, <2>2, <2>3, UnexplainedEntry
<1>5. QED
  BY <1>0, <1>1, <1>2, <1>3, <1>4, UnexplainedChange, UnexplainedFiles DEF UpdateStep

LEMMA UnexplainedStep ==
  ASSUME TypeOK, GoneInv, ToldInv, [Next]_vars
  PROVE  \/ Unexplained' \subseteq Unexplained /\ aborted' = aborted
         \/ \E x : Unexplained' \subseteq Unexplained \cup {x} /\ aborted' = aborted + 1
<1>1. ASSUME NEW p \in People, Abort(p)
      PROVE  Unexplained' \subseteq Unexplained \cup {requests[p].row} /\ aborted' = aborted + 1
  <2>1. requests'[p] = Idle /\ \A o \in People \ {p} : requests'[o] = requests[o]
    BY <1>1, OthersWait DEF Abort
  <2>2. /\ UNCHANGED tables /\ aborted' = aborted + 1
        /\ Present' = Present
    BY <1>1 DEF Abort, tables, Present, Ids
  <2>3. ASSUME NEW s \in Unexplained', s # requests[p].row PROVE s \in Unexplained
    <3>1. s \in Present /\ ~Explained(s)'
      BY <2>2, <2>3 DEF Unexplained
    <3>2. Entries(s) \subseteq Entries(s)'
      BY <2>1, <2>2, <2>3 DEF Entries, tables, People
    <3>3. ~Explained(s)
      BY <2>2, <3>1, <3>2 DEF Explained, tables
    <3>4. QED
      BY <3>1, <3>3 DEF Unexplained
  <2>4. QED
    BY <2>2, <2>3
<1>2. CASE UNCHANGED <<tables, requests, aborted>>
  BY <1>2 DEF tables, Unexplained, Explained, Entries, Present, Ids
<1>3. ASSUME NEW p \in People, NEW q, Become(p, q), UNCHANGED tables, requests[p] = Idle
      PROVE  Unexplained' \subseteq Unexplained
  BY <1>3, UnexplainedRead DEF Writing, Idle
<1>4. CASE Arrive
  <2>1. ASSUME NEW c \in Citizens, NEW n \in Numbers, NEW u \in Uploads,
               GenerateTrackingNumber(c, n, u)
        PROVE  Unexplained' \subseteq Unexplained /\ aborted' = aborted
    <3>1. /\ \E q : Become(c, q)
          /\ UNCHANGED tables /\ requests[c] = Idle /\ aborted' = aborted
      BY <2>1 DEF GenerateTrackingNumber, Accept
    <3>2. QED
      BY <1>3, <3>1 DEF People
  <2>2. ASSUME NEW o \in Officers, NEW to \in Statuses, NEW a \in OptionalArea,
               NEW u \in Uploads, Confirm(o, to, a, u)
        PROVE  Unexplained' \subseteq Unexplained /\ aborted' = aborted
    <3>1. /\ \E q : Become(o, q)
          /\ UNCHANGED tables /\ requests[o] = Idle /\ aborted' = aborted
      BY <2>2 DEF Confirm, Accept
    <3>2. QED
      BY <1>3, <3>1 DEF People
  <2>3. QED
    BY <1>2, <1>4, <2>1, <2>2 DEF Arrive, OpenPage
<1>5. CASE UNCHANGED vars
  BY <1>2, <1>5 DEF vars
<1>6. QED
  BY <1>1, <1>4, <1>5, UnexplainedSubmit, UnexplainedUpdate DEF Next, Rest

\* An officer who goes on with the same entry, or another person's step.
LEMMA ToldStep ==
  ASSUME TypeOK, ToldInv, [Next]_vars
  PROVE  ToldInv'
<1>0. Idle.stage = "idle"
  BY DEF Idle
<1>1. ASSUME NEW p \in People, NEW q, Become(p, q),
             p \in Officers =>
               \/ q.stage \notin {"loaded", "recording"}
               \/ q.flow.to_area # Nil => q.flow.to = "derivado"
      PROVE  ToldInv'
  <2>1. requests'[p] = q /\ \A o \in People \ {p} : requests'[o] = requests[o]
    BY <1>1, OthersWait
  <2>2. QED
    BY <1>1, <2>1 DEF ToldInv, People
<1>2. ASSUME NEW c \in Citizens, NEW q, Become(c, q)
      PROVE  ToldInv'
  BY <1>1, <1>2, PeopleAssumption DEF People
<1>3. ASSUME NEW o \in Officers, UpdateStep(o)
      PROVE  ToldInv'
  <2> DEFINE r == requests[o]
  <2>0. o \in People
    BY DEF People
  <2>1. CASE Refuse(o) \/ RaiseForeignKey(o)
    BY <1>0, <1>1, <2>0, <2>1 DEF Refuse, RaiseForeignKey, Proceed
  <2>2. CASE AttachFiles(o)
    BY <1>0, <1>1, <2>0, <2>2, PeopleAssumption DEF AttachFiles, Proceed
  <2>3. CASE CreateFlow(o)
    <3> DEFINE q == IF r.attach THEN [stage |-> "attaching", row |-> r.row] ELSE Idle
    <3>1. Become(o, q) /\ q.stage \notin {"loaded", "recording"}
      BY <1>0, <2>3 DEF CreateFlow, Proceed
    <3> HIDE DEF q
    <3>2. QED
      BY <1>1, <2>0, <3>1
  <2>4. CASE UpdateStatus(o)
    <3> DEFINE q == [r EXCEPT !.stage = "recording"]
    <3>1. Become(o, q) /\ r.stage = "loaded"
      BY <2>4, UpdateEffect
    <3>2. r = [stage |-> r.stage, row |-> r.row, flow |-> r.flow, attach |-> r.attach]
      BY <3>1, OfficerTyped DEF TypeOK
    <3>3. q.flow = r.flow
      BY <3>2
    <3> HIDE DEF q
    <3>4. QED
      BY <1>1, <2>0, <3>1, <3>3 DEF ToldInv
  <2>5. QED
    BY <1>3, <2>1, <2>2, <2>3, <2>4 DEF UpdateStep
<1>4. ASSUME NEW c \in Citizens, Submit(c)
      PROVE  ToldInv'
  BY <1>2, <1>4 DEF Submit, InsertSubmission, RefuseNumber, AttachFiles, LoadFlows,
                    DestroySubmission, RegisterSubmission, Proceed
<1>5. ASSUME NEW o \in Officers, NEW to \in Statuses, NEW a \in OptionalArea,
             NEW u \in Uploads, Confirm(o, to, a, u)
      PROVE  ToldInv'
  <2> DEFINE s == pages[o].row
             f == [from |-> submissions[s].status, to |-> to,
                   from_area |-> submissions[s].area, to_area |-> a]
             q == [stage |-> "loaded", row |-> s, attach |-> u = "accepted", flow |-> f]
  <2>1. Become(o, q) /\ (a # Nil => to = "derivado") /\ o \in People
    BY <1>5 DEF Confirm, People
  <2>2. q.flow.to = to /\ q.flow.to_area = a
    OBVIOUS
  <2> HIDE DEF q
  <2>3. QED
    BY <1>1, <2>1, <2>2
<1>6. ASSUME NEW p \in People, Abort(p)
      PROVE  ToldInv'
  BY <1>0, <1>1, <1>6 DEF Abort
<1>7. CASE UNCHANGED requests
  BY <1>7 DEF ToldInv
<1>8. CASE Arrive
  BY <1>2, <1>5, <1>7, <1>8 DEF Arrive, GenerateTrackingNumber, OpenPage
<1>9. QED
  BY <1>3, <1>4, <1>6, <1>7, <1>8 DEF Next, Rest, vars

\* Where a submission is can be read from its history, but for one submission
\* per request that was cut short.
THEOREM StatesAreExplained == Spec => []StateIsExplained
<1>1. Init => TypeOK /\ GoneInv /\ ExplainedInv
  <2> SUFFICES ASSUME Init PROVE TypeOK /\ GoneInv /\ ExplainedInv
    OBVIOUS
  <2>1. GoneInv /\ ToldInv
    BY DEF Init, GoneInv, OwnInv, Works, GoneHasNoHistory, Present, Ids, Idle, People, ToldInv
  <2>2. Unexplained = {} /\ aborted = 0
    BY DEF Init, Unexplained, Present, Ids
  <2>3. Cardinality(Unexplained) <= aborted
    BY <2>2, FS_EmptySet
  <2>4. QED
    BY <2>1, <2>3, TypeInit DEF ExplainedInv, StateIsExplained, Unexplained
<1>2. ASSUME TypeOK, GoneInv, ExplainedInv, [Next]_vars
      PROVE  ExplainedInv'
  <2>1. Cardinality(Unexplained) <= aborted /\ Unexplained \subseteq Present
    BY <1>2 DEF ExplainedInv, StateIsExplained, Unexplained
  <2>2. Cardinality(Unexplained') <= aborted'
    BY <1>2, <2>1, UnexplainedStep, CountedSubmissions DEF ExplainedInv
  <2>3. StateIsExplained'
    BY <2>2 DEF StateIsExplained, Unexplained
  <2>4. QED
    BY <1>2, <2>3, ToldStep DEF ExplainedInv
<1>3. TypeOK /\ GoneInv /\ ExplainedInv /\ [Next]_vars =>
        TypeOK' /\ GoneInv' /\ ExplainedInv'
  BY <1>2, TypeStep, GoneStep
<1>4. ExplainedInv => StateIsExplained
  BY DEF ExplainedInv
<1>5. QED
  BY <1>1, <1>3, <1>4, PTL DEF Spec
=============================================================================
