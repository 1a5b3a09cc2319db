--------------------------- MODULE AccessPageProofs ---------------------------
(***************************************************************************)
(* Proofs about AccessPage, for every set of roles, pages and users and    *)
(* every bound.                                                            *)
(***************************************************************************)
EXTENDS AccessPage, TLAPS

-----------------------------------------------------------------------------
(* Type correctness. *)

Holders == {"latest", "tab", "gone"}

Stages == {"sent", "checked", "ok", "failed"}

\* A call, with the fields its operation uses.
Typed(c) ==
  /\ c \in Call
  /\ c.op = "toggle" => c.page \in Pages /\ c.on \in BOOLEAN
  /\ c.op = "assign" => c.user \in Users

CallsOK ==
  /\ \A c \in calls : Typed(c) /\ c.id <= made
  /\ \A c, d \in calls : c.id = d.id => c = d

CountsOK == made \in 0 .. MaxCalls /\ lost \in 0 .. MaxLost

ServerOK ==
  /\ roles \in SUBSET RoleNames
  /\ rows \in [Cells -> BOOLEAN \cup {Nil}]
  /\ roleOf \in [Users -> RoleNames]

PageOK ==
  /\ tab \in Tabs
  /\ matrix \in Query(Matrix)
  /\ optimistic \in [Cells -> BOOLEAN \cup {Nil}]

HistoryOK ==
  /\ crossed \subseteq RoleNames /\ exposed \subseteq RoleNames
  /\ granted \subseteq Cells /\ unseen \subseteq Cells

AccessOK == CallsOK /\ CountsOK /\ ServerOK /\ PageOK /\ HistoryOK

LEMMA AccessIsTyped == AccessOK => TypeOK
BY DEF AccessOK, CallsOK, Typed, CountsOK, ServerOK, PageOK, HistoryOK, TypeOK

\* The operations of the cache keep a query typed, whatever it holds.
LEMMA QueryTyped ==
  ASSUME NEW D, NEW q \in Query(D)
  PROVE  /\ \A b \in BOOLEAN : Mounted(q, b) \in Query(D)
         /\ \A b \in BOOLEAN : Invalidated(q, b) \in Query(D)
         /\ \A d \in D : Answered(q, d) \in Query(D)
         /\ Arrived(q) \in Query(D) /\ Failed(q) \in Query(D)
BY DEF Query, Ask, Mounted, Invalidated, Survives, Answered, Arrived, Failed

\* A call that moves on, or changes its holder, stays typed and about the same.
LEMMA CallMoves ==
  ASSUME NEW c, Typed(c)
  PROVE  /\ \A stage \in Stages :
              /\ Typed([c EXCEPT !.stage = stage])
              /\ [c EXCEPT !.stage = stage].id = c.id
              /\ [c EXCEPT !.stage = stage].op = c.op
              /\ [c EXCEPT !.stage = stage].role = c.role
              /\ [c EXCEPT !.stage = stage].stage = stage
         /\ \A h \in Holders :
              /\ Typed([c EXCEPT !.holder = h])
              /\ [c EXCEPT !.holder = h].id = c.id
              /\ [c EXCEPT !.holder = h].op = c.op
              /\ [c EXCEPT !.holder = h].role = c.role
              /\ [c EXCEPT !.holder = h].stage = c.stage
BY DEF Typed, Call, Stages, Holders

\* Some call of op about role r is past its check.
Past(op, r) == \E c \in calls : c.op = op /\ c.stage = "checked" /\ c.role = r

SamePast == \A op \in Ops, r \in RoleNames : Past(op, r)' <=> Past(op, r)

LEMMA MoveKeeps ==
  ASSUME CallsOK, NEW c \in calls, NEW stage \in Stages, Move(c, stage), made' = made
  PROVE  /\ CallsOK'
         /\ \A op \in Ops, r \in RoleNames :
              /\ Past(op, r)' =>
                   Past(op, r) \/ (stage = "checked" /\ op = c.op /\ r = c.role)
              /\ Past(op, r) => Past(op, r)' \/ (op = c.op /\ r = c.role)
         /\ c.stage # "checked" /\ stage # "checked" => SamePast
<1> DEFINE d == [c EXCEPT !.stage = stage]
<1>1. Typed(c) /\ c.id <= made
  BY DEF CallsOK
<1>2. /\ Typed(d) /\ d.id = c.id /\ d.op = c.op /\ d.role = c.role
      /\ d.stage = stage
  BY <1>1, CallMoves
<1>3. calls' = (calls \ {c}) \cup {d}
  BY DEF Move
<1> HIDE DEF d
<1>4. CallsOK'
  <2>1. \A e \in calls' : Typed(e) /\ e.id <= made'
    BY <1>1, <1>2, <1>3 DEF CallsOK
  <2>2. \A e, f \in calls' : e.id = f.id => e = f
    BY <1>1, <1>2, <1>3 DEF CallsOK
  <2>3. QED
    BY <2>1, <2>2 DEF CallsOK, Typed
<1>5. QED
  BY <1>1, <1>2, <1>3, <1>4 DEF Past, SamePast

\* A call that is answered is gone.
LEMMA RemoveKeeps ==
  ASSUME CallsOK, NEW c \in calls, c.stage # "checked", calls' = calls \ {c}, made' = made
  PROVE  CallsOK' /\ SamePast
BY DEF CallsOK, Typed, Past, SamePast

\* The tab is left.
LEMMA LeaveKeeps ==
  ASSUME CallsOK, calls' = {[c EXCEPT !.holder = "gone"] : c \in calls}, made' = made
  PROVE  CallsOK' /\ SamePast
<1> DEFINE left(c) == [c EXCEPT !.holder = "gone"]
<1>1. \A c \in calls : /\ Typed(c) /\ c.id <= made
                       /\ Typed(left(c)) /\ left(c).id = c.id /\ left(c).op = c.op
                       /\ left(c).role = c.role /\ left(c).stage = c.stage
  BY CallMoves DEF CallsOK, Holders
<1>2. calls' = {left(c) : c \in calls}
  OBVIOUS
<1> HIDE DEF left
<1>3. \A d \in calls' : Typed(d) /\ d.id <= made'
  BY <1>1, <1>2
<1>4. \A d, e \in calls' : d.id = e.id => d = e
  BY <1>1, <1>2 DEF CallsOK
<1>5. CallsOK'
  BY <1>3, <1>4 DEF CallsOK, Typed
<1>6. SamePast
  BY <1>1, <1>2 DEF Past, SamePast
<1>7. QED
  BY <1>5, <1>6

\* A new call has a new id.
LEMMA SendKeeps ==
  ASSUME CallsOK, CountsOK, NEW op \in Ops, NEW r \in RoleNames, NEW p \in Pages \cup {Nil},
         NEW u \in Users \cup {Nil}, NEW on \in BOOLEAN \cup {Nil},
         op = "toggle" => p \in Pages /\ on \in BOOLEAN,
         op = "assign" => u \in Users,
         Send(op, r, p, u, on)
  PROVE  CallsOK' /\ CountsOK' /\ SamePast
<1> DEFINE new == [id |-> made + 1, holder |-> "latest", op |-> op, role |-> r,
                   page |-> p, user |-> u, on |-> on, stage |-> "sent"]
           kept(c) == IF c.op = op /\ c.holder = "latest" THEN [c EXCEPT !.holder = "tab"]
                                                         ELSE c
<1>1. /\ made \in Nat /\ made < MaxCalls /\ made' = made + 1
      /\ calls' = {kept(c) : c \in calls} \cup {new}
      /\ lost' = lost
  BY BoundsAssumption DEF Send, CountsOK
<1>2. CountsOK'
  BY <1>1, BoundsAssumption DEF CountsOK
<1>3. \A c \in calls : /\ Typed(c) /\ c.id \in Nat /\ c.id <= made
                       /\ Typed(kept(c)) /\ kept(c).id = c.id /\ kept(c).op = c.op
                       /\ kept(c).role = c.role /\ kept(c).stage = c.stage
  <2> SUFFICES ASSUME NEW c \in calls
               PROVE  /\ Typed(c) /\ c.id \in Nat /\ c.id <= made
                      /\ Typed(kept(c)) /\ kept(c).id = c.id /\ kept(c).op = c.op
                      /\ kept(c).role = c.role /\ kept(c).stage = c.stage
    OBVIOUS
  <2>1. Typed(c) /\ c.id \in Nat /\ c.id <= made
    BY DEF CallsOK, Typed, Call
  <2>2. QED
    BY <2>1, CallMoves DEF Holders
<1>4. Typed(new) /\ new.id = made + 1 /\ new.stage = "sent"
  BY <1>1, BoundsAssumption DEF Typed, Call
<1> HIDE DEF new, kept
<1>5. \A d \in calls' : Typed(d) /\ d.id <= made'
  BY <1>1, <1>3, <1>4
<1>6. \A d, e \in calls' : d.id = e.id => d = e
  BY <1>1, <1>3, <1>4 DEF CallsOK
<1>7. CallsOK'
  BY <1>5, <1>6 DEF CallsOK, Typed
<1>8. SamePast
  BY <1>1, <1>3, <1>4 DEF Past, SamePast
<1>9. QED
  BY <1>2, <1>7, <1>8
-----------------------------------------------------------------------------
(* Steps of the page: the server keeps what it has. *)

Administrates == UNCHANGED server /\ crossed' = crossed /\ exposed' = exposed
                   /\ granted' = granted /\ SamePast

LEMMA InitTyped == Init => AccessOK
<1> SUFFICES ASSUME Init PROVE AccessOK
  OBVIOUS
<1>1. CallsOK
  BY DEF Init, CallsOK
<1>2. CountsOK
  <2>1. made = 0 /\ lost = 0
    BY DEF Init
  <2>2. QED
    BY <2>1, BoundsAssumption DEF CountsOK
<1>3. ServerOK
  BY RolesAssumption DEF Init, ServerOK, Cells
<1>4. PageOK
  BY DEF Init, PageOK, Tabs, Query, NoQuery
<1>5. HistoryOK
  BY DEF Init, HistoryOK
<1>6. QED
  BY <1>1, <1>2, <1>3, <1>4, <1>5 DEF AccessOK

LEMMA AdministerTyped == ASSUME AccessOK, Administer PROVE AccessOK' /\ Administrates
<1>0. CallsOK /\ CountsOK /\ ServerOK /\ PageOK /\ HistoryOK
  BY DEF AccessOK
<1>1. ASSUME NEW t \in Tabs, NEW aged \in BOOLEAN, SetTab(t, aged)
      PROVE  AccessOK' /\ Administrates
  <2>1. CallsOK' /\ SamePast
    BY <1>0, <1>1, LeaveKeeps DEF SetTab, counts
  <2>2. PageOK'
    BY <1>0, <1>1, QueryTyped DEF SetTab, PageOK
  <2>3. HistoryOK'
    BY <1>0, <1>1 DEF SetTab, HistoryOK
  <2>4. QED
    BY <1>0, <1>1, <2>1, <2>2, <2>3
    DEF SetTab, AccessOK, CountsOK, ServerOK, Administrates, server, counts
<1>2. ASSUME NEW op \in Ops, NEW r \in RoleNames, NEW p \in Pages \cup {Nil},
             NEW u \in Users \cup {Nil}, NEW on \in BOOLEAN \cup {Nil},
             op = "toggle" => p \in Pages /\ on \in BOOLEAN,
             op = "assign" => u \in Users,
             Send(op, r, p, u, on), optimistic' \in [Cells -> BOOLEAN \cup {Nil}]
      PROVE  AccessOK' /\ Administrates
  <2>1. CallsOK' /\ CountsOK' /\ SamePast
    BY <1>0, <1>2, SendKeeps
  <2>2. QED
    BY <1>0, <1>2, <2>1
    DEF Send, AccessOK, PageOK, ServerOK, HistoryOK, Administrates, server, history
<1>3. optimistic \in [Cells -> BOOLEAN \cup {Nil}]
  BY <1>0 DEF PageOK
<1>4. ASSUME NEW r \in RoleNames, CreateRole(r) \/ DeleteRole(r)
      PROVE  AccessOK' /\ Administrates
  BY <1>2, <1>3, <1>4 DEF CreateRole, DeleteRole, Ops
<1>5. ASSUME NEW u \in Users, NEW r \in RoleNames, SaveRole(u, r)
      PROVE  AccessOK' /\ Administrates
  BY <1>2, <1>3, <1>5 DEF SaveRole, Ops
<1>6. ASSUME NEW c \in Cells, Toggle(c) PROVE AccessOK' /\ Administrates
  <2>1. c[1] \in RoleNames /\ c[2] \in Pages
    BY DEF Cells
  <2>2. (~Shown(c)) \in BOOLEAN
    OBVIOUS
  <2>3. optimistic' \in [Cells -> BOOLEAN \cup {Nil}]
    BY <1>3, <1>6, <2>2 DEF Toggle
  <2>4. Send("toggle", c[1], c[2], Nil, ~Shown(c))
    BY <1>6 DEF Toggle
  <2>5. "toggle" \in Ops
    BY DEF Ops
  <2>6. QED
    BY <1>2, <2>1, <2>2, <2>3, <2>4, <2>5
<1>7. ASSUME NEW aged \in BOOLEAN, Focus(aged) PROVE AccessOK' /\ Administrates
  <2>1. PageOK'
    BY <1>0, <1>7, QueryTyped DEF Focus, PageOK, page
  <2>2. QED
    BY <1>0, <1>7, <2>1
    DEF Focus, AccessOK, CallsOK, Typed, CountsOK, ServerOK, HistoryOK, Administrates,
        server, counts, history, Past, SamePast
<1>8. QED
  BY <1>1, <1>4, <1>5, <1>6, <1>7 DEF Administer

LEMMA AnswersTyped ==
  ASSUME AccessOK, NEW c \in calls, Succeed(c) \/ Fail(c)
  PROVE  AccessOK' /\ Administrates
<1>0. CallsOK /\ CountsOK /\ ServerOK /\ PageOK /\ HistoryOK
  BY DEF AccessOK
<1>1. CallsOK' /\ SamePast
  <2>1. c.stage # "checked" /\ calls' = calls \ {c} /\ made' = made
    BY DEF Succeed, Fail, counts
  <2>2. QED
    BY <1>0, <2>1, RemoveKeeps
<1>2. PageOK'
  <2>1. CASE Succeed(c)
    BY <1>0, <2>1, QueryTyped DEF Succeed, PageOK
  <2>2. CASE Fail(c)
    <3>1. (~c.on) \in BOOLEAN
      OBVIOUS
    <3>2. optimistic' \in [Cells -> BOOLEAN \cup {Nil}]
      BY <1>0, <2>2, <3>1 DEF Fail, PageOK
    <3>3. QED
      BY <1>0, <2>2, <3>2 DEF Fail, PageOK
  <2>3. QED
    BY <2>1, <2>2
<1>3. QED
  BY <1>0, <1>1, <1>2
  DEF Succeed, Fail, AccessOK, CountsOK, ServerOK, HistoryOK, Administrates,
      server, counts, history
-----------------------------------------------------------------------------
(* Steps of the server. *)

\* Every step of a call on the server moves it to another stage.
LEMMA ServeMoves ==
  ASSUME AccessOK, NEW c \in calls, ServeCall(c) \/ LoseCall(c)
  PROVE  /\ CallsOK' /\ PageOK' /\ CountsOK'
         /\ Typed(c)
         /\ \E stage \in Stages : Move(c, stage)
<1>0. CallsOK /\ CountsOK /\ PageOK
  BY DEF AccessOK
<1>1. PICK stage \in Stages : Move(c, stage)
  <2>1. CASE LoseCall(c)
    BY <2>1 DEF LoseCall, Stages
  <2>2. CASE ServeCall(c)
    <3>1. ASSUME SaveNewRole(c) PROVE \E stage \in Stages : Move(c, stage)
      BY <3>1 DEF SaveNewRole, Stages
    <3>2. ASSUME CreateRows(c) PROVE \E stage \in Stages : Move(c, stage)
      BY <3>2 DEF CreateRows, Stages
    <3>3. ASSUME CheckUnused(c) PROVE \E stage \in Stages : Move(c, stage)
      BY <3>3 DEF CheckUnused, Stages
    <3>4. ASSUME CheckRole(c) PROVE \E stage \in Stages : Move(c, stage)
      BY <3>4 DEF CheckRole, Stages
    <3>5. ASSUME RemoveRole(c) \/ WriteRole(c) \/ UpdateBatch(c)
          PROVE  \E stage \in Stages : Move(c, stage)
      BY <3>5 DEF RemoveRole, WriteRole, UpdateBatch, Stages
    <3>6. QED
      BY <2>2, <3>1, <3>2, <3>3, <3>4, <3>5 DEF ServeCall
  <2>3. QED
    BY <2>1, <2>2
<1>2. made' = made /\ (lost' = lost \/ (lost < MaxLost /\ lost' = lost + 1))
  BY DEF ServeCall, LoseCall, counts
<1>3. CallsOK'
  BY <1>0, <1>1, <1>2, MoveKeeps
<1>4. CountsOK'
  BY <1>0, <1>2, BoundsAssumption DEF CountsOK
<1>5. PageOK'
  BY <1>0 DEF ServeCall, LoseCall, PageOK, page
<1>6. QED
  BY <1>0, <1>1, <1>3, <1>4, <1>5 DEF CallsOK

LEMMA ServeTyped ==
  ASSUME AccessOK, NEW c \in calls, ServeCall(c) \/ LoseCall(c)
  PROVE  AccessOK'
<1>0. CallsOK /\ CountsOK /\ ServerOK /\ PageOK /\ HistoryOK
  BY DEF AccessOK
<1>1. CallsOK' /\ PageOK' /\ CountsOK' /\ Typed(c)
  BY ServeMoves
<1>2. c.role \in RoleNames
  BY <1>1 DEF Typed, Call
<1>3. Crossing \subseteq RoleNames
  BY DEF Crossing
<1>4. ServerOK' /\ HistoryOK'
  <2>1. CASE SaveNewRole(c)
    BY <1>0, <1>2, <2>1 DEF SaveNewRole, ServerOK, HistoryOK, history
  <2>2. CASE CreateRows(c)
    BY <1>0, <1>2, <2>2 DEF CreateRows, ServerOK, HistoryOK, history
  <2>3. CASE CheckUnused(c) \/ CheckRole(c)
    BY <1>0, <1>3, <2>3 DEF CheckUnused, CheckRole, ServerOK, HistoryOK, server
  <2>4. CASE RemoveRole(c)
    BY <1>0, <1>2, <2>4 DEF RemoveRole, ServerOK, HistoryOK, history
  <2>5. CASE WriteRole(c)
    BY <1>0, <1>1, <1>2, <2>5 DEF WriteRole, ServerOK, HistoryOK, history, Typed
  <2>6. CASE UpdateBatch(c)
    <3>1. Cell(c) \in Cells /\ c.on \in BOOLEAN
      BY <1>1, <1>2, <2>6 DEF UpdateBatch, Typed, Cell, Cells
    <3>2. QED
      BY <1>0, <2>6, <3>1 DEF UpdateBatch, ServerOK, HistoryOK
  <2>7. CASE LoseCall(c)
    BY <1>0, <1>2, <2>7 DEF LoseCall, ServerOK, HistoryOK, server
  <2>8. QED
    BY <2>1, <2>2, <2>3, <2>4, <2>5, <2>6, <2>7 DEF ServeCall
<1>5. QED
  BY <1>1, <1>4 DEF AccessOK

\* The matrix is read, or the permissions of a user are.
Reads == \/ \E u \in Users : MyPermissions(u)
         \/ AnswerMatrix

LEMMA ReadsTyped ==
  ASSUME AccessOK, Reads
  PROVE  /\ AccessOK' /\ SamePast
         /\ \E R \in SUBSET roles : Expose(R)
<1>0. CallsOK /\ CountsOK /\ ServerOK /\ PageOK /\ HistoryOK
  BY DEF AccessOK
<1>1. PICK R \in SUBSET roles : Expose(R)
  BY DEF Reads, MyPermissions, AnswerMatrix
<1>2. rows' \in [Cells -> BOOLEAN \cup {Nil}]
  BY <1>0, <1>1 DEF Expose, EnsureDefaults, ServerOK
<1>3. ServerOK' /\ HistoryOK'
  BY <1>0, <1>1, <1>2 DEF Expose, ServerOK, HistoryOK
<1>4. PageOK'
  <2>1. CASE AnswerMatrix
    <3>1. [d \in Cells |-> IF d[1] \in roles THEN rows'[d] ELSE Nil] \in Matrix
      BY <1>2 DEF Matrix
    <3>2. QED
      BY <1>0, <2>1, <3>1, QueryTyped DEF AnswerMatrix, PageOK, page
  <2>2. CASE \E u \in Users : MyPermissions(u)
    BY <1>0, <2>2 DEF MyPermissions, PageOK, page
  <2>3. QED
    BY <2>1, <2>2 DEF Reads
<1>5. calls' = calls /\ made' = made /\ lost' = lost
  BY DEF Reads, MyPermissions, AnswerMatrix, counts
<1>6. QED
  BY <1>0, <1>1, <1>3, <1>4, <1>5
  DEF AccessOK, CallsOK, Typed, CountsOK, Past, SamePast

LEMMA MatrixStepTyped ==
  ASSUME AccessOK, MatrixArrives \/ MatrixFails
  PROVE  AccessOK' /\ Administrates
<1>0. CallsOK /\ CountsOK /\ ServerOK /\ PageOK /\ HistoryOK
  BY DEF AccessOK
<1>1. PageOK'
  BY <1>0, QueryTyped DEF MatrixArrives, MatrixFails, PageOK, page
<1>2. CountsOK'
  BY <1>0, BoundsAssumption DEF MatrixArrives, MatrixFails, CountsOK, counts
<1>3. UNCHANGED <<server, calls, made, history>>
  BY DEF MatrixArrives, MatrixFails, counts
<1>4. QED
  BY <1>0, <1>1, <1>2, <1>3
  DEF AccessOK, CallsOK, Typed, ServerOK, HistoryOK, Administrates, server, history,
      Past, SamePast

\* A step either leaves the server alone, or is one of its steps.
LEMMA AccessStep ==
  ASSUME AccessOK, [Next]_vars
  PROVE  /\ AccessOK'
         /\ \/ Administrates
            \/ \E c \in calls : ServeCall(c) \/ LoseCall(c)
            \/ Reads
<1>1. ASSUME UNCHANGED vars PROVE AccessOK' /\ Administrates
  BY <1>1 DEF vars, server, page, counts, history, AccessOK, CallsOK, Typed, CountsOK,
    ServerOK, PageOK, HistoryOK, Administrates, Past, SamePast
<1>2. QED
  BY <1>1, AdministerTyped, AnswersTyped, ServeTyped, ReadsTyped, MatrixStepTyped
  DEF Next, Serve, Reads

\* The tables, the cache, the tabs and the calls stay typed.
THEOREM AccessTypeCorrect == Spec => []TypeOK
<1>1. AccessOK /\ [Next]_vars => AccessOK'
  BY AccessStep
<1>2. QED
  BY InitTyped, <1>1, AccessIsTyped, PTL DEF Spec
-----------------------------------------------------------------------------
(* A user loses a role by a race only. *)

\* What is past its check was true when it was checked, and an assignment and a
\* removal that were past their checks at once have been noted.
RaceInv ==
  /\ OrphansComeFromRaces
  /\ \A r \in RoleNames :
       /\ Past("destroy", r) => r \in crossed \/ \A u \in Users : roleOf[u] # r
       /\ Past("assign", r) => r \in roles \cup crossed
       /\ Past("assign", r) /\ Past("destroy", r) => r \in crossed

LEMMA RaceInit == Init => RaceInv
<1> SUFFICES ASSUME Init PROVE RaceInv
  OBVIOUS
<1>1. OrphansComeFromRaces
  BY DEF Init, OrphansComeFromRaces
<1>2. \A op, r : ~Past(op, r)
  BY DEF Init, Past
<1>3. QED
  BY <1>1, <1>2 DEF RaceInv

LEMMA RaceStep == ASSUME AccessOK, RaceInv, [Next]_vars PROVE RaceInv'
<1>0. CallsOK /\ ServerOK /\ OrphansComeFromRaces
  BY DEF AccessOK, RaceInv
<1>1. {"assign", "destroy"} \subseteq Ops
  BY DEF Ops
<1>2. CASE Administrates
  BY <1>0, <1>1, <1>2 DEF Administrates, SamePast, RaceInv, OrphansComeFromRaces, server
<1>3. CASE Reads
  <2>1. SamePast /\ \E R \in SUBSET roles : Expose(R)
    BY <1>3, ReadsTyped
  <2>2. QED
    BY <1>0, <1>1, <2>1 DEF SamePast, Expose, RaceInv, OrphansComeFromRaces
<1>4. ASSUME NEW c \in calls, ServeCall(c) \/ LoseCall(c) PROVE RaceInv'
  <2>1. PICK stage \in Stages : Move(c, stage)
    BY <1>4, ServeMoves
  <2>2. Typed(c) /\ c.role \in RoleNames /\ c.op \in Ops /\ made' = made
    BY <1>0, <1>4 DEF CallsOK, Typed, Call, ServeCall, LoseCall, counts
  <2>3. \A op \in {"assign", "destroy"}, r \in RoleNames :
          /\ Past(op, r)' => Past(op, r) \/ (stage = "checked" /\ op = c.op /\ r = c.role)
          /\ Past(op, r) => Past(op, r)' \/ (op = c.op /\ r = c.role)
    BY <1>0, <1>1, <2>1, <2>2, MoveKeeps
  <2>4. ASSUME NEW to \in Stages \ {"checked"}, Move(c, to)
        PROVE  \A op \in {"assign", "destroy"}, r \in RoleNames : Past(op, r)' => Past(op, r)
    BY <1>0, <1>1, <2>2, <2>4, MoveKeeps
  <2>5. ASSUME \A op \in {"assign", "destroy"}, r \in RoleNames : Past(op, r)' => Past(op, r),
               roles \subseteq roles', roleOf' = roleOf, crossed' = crossed
        PROVE  RaceInv'
    BY <2>5 DEF RaceInv, OrphansComeFromRaces
  <2>6. CASE LoseCall(c)
    BY <2>4, <2>5, <2>6 DEF LoseCall, server, Stages
  <2>7. CASE SaveNewRole(c) \/ CreateRows(c) \/ UpdateBatch(c)
    <3>1. c.op \notin {"assign", "destroy"}
      BY <2>7 DEF SaveNewRole, CreateRows, UpdateBatch
    <3>2. roles \subseteq roles' /\ roleOf' = roleOf /\ crossed' = crossed
      BY <2>7 DEF SaveNewRole, CreateRows, UpdateBatch, history
    <3>3. QED
      BY <2>3, <2>5, <3>1, <3>2
  <2>8. CASE CheckUnused(c) \/ CheckRole(c)
    <3>1. /\ UNCHANGED server
          /\ \A r \in RoleNames :
               r \in crossed' <=> r \in crossed \/ (Past("assign", r)' /\ Past("destroy", r)')
      BY <2>8 DEF CheckUnused, CheckRole, Crossing, Past
    <3>2. \/ \A op \in {"assign", "destroy"}, r \in RoleNames : Past(op, r)' => Past(op, r)
          \/ c.op = "destroy" /\ \A u \in Users : roleOf[u] # c.role
          \/ c.op = "assign" /\ c.role \in roles
      <4>1. CASE CheckUnused(c)
        <5>1. c.op = "destroy"
          BY <4>1 DEF CheckUnused
        <5>2. CASE \A u \in Users : roleOf[u] # c.role
          BY <5>1, <5>2
        <5>3. CASE ~\A u \in Users : roleOf[u] # c.role
          <6>1. Move(c, "failed")
            BY <4>1, <5>3 DEF CheckUnused
          <6>2. QED
            BY <2>4, <6>1 DEF Stages
        <5>4. QED
          BY <5>2, <5>3
      <4>2. CASE CheckRole(c)
        BY <2>4, <4>2 DEF CheckRole, Stages
      <4>3. QED
        BY <2>8, <4>1, <4>2
    <3>3. \A r \in RoleNames :
            /\ Past("destroy", r)' => Past("destroy", r) \/ \A u \in Users : roleOf[u] # r
            /\ Past("assign", r)' => Past("assign", r) \/ r \in roles
      BY <2>3, <3>2
    <3>4. QED
      <4>1. roles' = roles /\ roleOf' = roleOf
        BY <3>1 DEF server
      <4>2. OrphansComeFromRaces'
        BY <1>0, <3>1, <4>1 DEF OrphansComeFromRaces, ServerOK
      <4>3. QED
        BY <3>1, <3>3, <4>1, <4>2 DEF RaceInv
  <2>9. CASE RemoveRole(c)
    <3>1. Past("destroy", c.role)
      BY <2>9 DEF RemoveRole, Past
    <3>2. \A op \in {"assign", "destroy"}, r \in RoleNames : Past(op, r)' => Past(op, r)
      BY <2>4, <2>9 DEF RemoveRole, Stages
    <3>3. roles' = roles \ {c.role} /\ roleOf' = roleOf /\ crossed' = crossed
      BY <2>9 DEF RemoveRole, history
    <3>4. QED
      BY <2>2, <3>1, <3>2, <3>3 DEF RaceInv, OrphansComeFromRaces
  <2>10. CASE WriteRole(c)
    <3>1. Past("assign", c.role)
      BY <2>10 DEF WriteRole, Past
    <3>2. \A op \in {"assign", "destroy"}, r \in RoleNames : Past(op, r)' => Past(op, r)
      BY <2>4, <2>10 DEF WriteRole, Stages
    <3>3. /\ roles' = roles /\ crossed' = crossed
          /\ \A u \in Users : roleOf'[u] = roleOf[u] \/ roleOf'[u] = c.role
      BY <1>0, <2>10 DEF WriteRole, ServerOK, history
    <3>4. QED
      BY <2>2, <3>1, <3>2, <3>3 DEF RaceInv, OrphansComeFromRaces
  <2>11. QED
    BY <1>4, <2>6, <2>7, <2>8, <2>9, <2>10 DEF ServeCall
<1>5. QED
  BY <1>2, <1>3, <1>4, AccessStep

\* However roles are created, removed and assigned at once, a user is left
\* without a role only by an assignment and a removal that had both been checked.
THEOREM OrphansNeedRaces == Spec => []OrphansComeFromRaces
<1>1. AccessOK /\ RaceInv /\ [Next]_vars => AccessOK' /\ RaceInv'
  BY AccessStep, RaceStep
<1>2. RaceInv => OrphansComeFromRaces
  BY DEF RaceInv
<1>3. QED
  BY InitTyped, RaceInit, <1>1, <1>2, PTL DEF Spec
-----------------------------------------------------------------------------
(* A new role is hidden until it is granted. *)

\* A role that has no row for some page is one that is being created, or whose
\* creation was cut short or read meanwhile.
GapsInv ==
  /\ HiddenUntilGranted
  /\ \A c \in Cells :
       rows[c] = Nil /\ c[1] \in roles \ SystemRoles => Past("create", c[1]) \/ c[1] \in exposed

LEMMA GapsInit == Init => GapsInv
BY NilAssumption DEF Init, GapsInv, HiddenUntilGranted, Cells

LEMMA GapsStep == ASSUME AccessOK, GapsInv, [Next]_vars PROVE GapsInv'
<1>0. CallsOK /\ ServerOK /\ HiddenUntilGranted
  BY DEF AccessOK, GapsInv
<1>1. "create" \in Ops /\ \A c \in Cells : c[1] \in RoleNames
  BY DEF Ops, Cells
<1>2. CASE Administrates
  BY <1>0, <1>1, <1>2 DEF Administrates, SamePast, GapsInv, HiddenUntilGranted, server
<1>3. CASE Reads
  <2>1. SamePast
    BY <1>3, ReadsTyped
  <2>2. PICK R \in SUBSET roles : Expose(R)
    BY <1>3, ReadsTyped
  <2>3. /\ \A c \in Cells : rows'[c] = IF c[1] \in R /\ rows[c] = Nil THEN TRUE ELSE rows[c]
        /\ exposed' = exposed \cup {r \in R : Past("create", r)}
        /\ roles' = roles /\ granted' = granted
    BY <2>2 DEF Expose, EnsureDefaults, BeingCreated, Past
  <2>4. HiddenUntilGranted'
    BY <1>0, <2>3 DEF GapsInv, HiddenUntilGranted
  <2>5. QED
    BY <1>1, <2>1, <2>3, <2>4, NilAssumption DEF SamePast, GapsInv
<1>4. ASSUME NEW c \in calls, ServeCall(c) \/ LoseCall(c) PROVE GapsInv'
  <2>1. PICK stage \in Stages : Move(c, stage)
    BY <1>4, ServeMoves
  <2>2. Typed(c) /\ c.role \in RoleNames /\ made' = made
    BY <1>0, <1>4 DEF CallsOK, Typed, Call, ServeCall, LoseCall, counts
  <2>3. \A r \in RoleNames :
          Past("create", r) => Past("create", r)' \/ (c.op = "create" /\ r = c.role)
    BY <1>0, <1>1, <2>1, <2>2, MoveKeeps
  <2>4. ASSUME rows' = rows, roles' \subseteq roles, exposed \subseteq exposed', granted' = granted,
               c.op = "create" /\ c.stage = "checked" => c.role \in exposed' \/ c.role \notin roles',
               c.op = "create" => c.stage = "checked" \/ SamePast
        PROVE  GapsInv'
    BY <1>1, <2>3, <2>4 DEF GapsInv, HiddenUntilGranted, SamePast
  <2>5. CASE SaveNewRole(c)
    <3>1. rows' = rows /\ exposed' = exposed /\ granted' = granted
      BY <2>5 DEF SaveNewRole, history
    <3>2. CASE c.role \in roles
      <4>1. SamePast /\ roles' = roles
        BY <1>0, <2>2, <2>5, <3>2, MoveKeeps DEF SaveNewRole, Stages
      <4>2. QED
        BY <2>4, <2>5, <3>1, <4>1 DEF SaveNewRole
    <3>3. CASE c.role \notin roles
      <4>1. Move(c, "checked") /\ roles' = roles \cup {c.role}
        BY <2>5, <3>3 DEF SaveNewRole
      <4>2. Past("create", c.role)'
        <5> DEFINE moved == [c EXCEPT !.stage = "checked"]
        <5>1. moved.op = "create" /\ moved.role = c.role /\ moved.stage = "checked"
          BY <2>2, <2>5, CallMoves DEF SaveNewRole, Stages
        <5>2. moved \in calls'
          BY <4>1 DEF Move
        <5> HIDE DEF moved
        <5>3. QED
          BY <5>1, <5>2 DEF Past
      <4>3. QED
        BY <1>1, <2>3, <3>1, <4>1, <4>2 DEF GapsInv, HiddenUntilGranted
    <3>4. QED
      BY <3>2, <3>3
  <2>6. CASE CreateRows(c)
    <3>1. exposed' = exposed /\ granted' = granted /\ roles' = roles
      BY <2>6 DEF CreateRows, history
    <3>2. CASE c.role \in roles
      <4>1. \A d \in Cells :
              rows'[d] = IF d[1] = c.role /\ rows[d] = Nil THEN FALSE ELSE rows[d]
        BY <2>6, <3>2 DEF CreateRows
      <4>2. QED
        BY <1>1, <2>3, <3>1, <4>1, NilAssumption DEF GapsInv, HiddenUntilGranted
    <3>3. CASE c.role \notin roles
      BY <2>4, <2>6, <3>1, <3>3 DEF CreateRows
    <3>4. QED
      BY <3>2, <3>3
  <2>7. CASE UpdateBatch(c)
    <3>1. Cell(c) \in Cells /\ c.on \in BOOLEAN
      BY <2>2, <2>7 DEF UpdateBatch, Typed, Cell, Cells
    <3>2. /\ \A d \in Cells : rows'[d] = rows[d] \/ (d = Cell(c) /\ rows'[d] = c.on)
          /\ granted \subseteq granted' /\ roles' = roles /\ exposed' = exposed
          /\ c.on = TRUE /\ rows' # rows => Cell(c) \in granted'
      BY <1>0, <2>7, <3>1 DEF UpdateBatch, ServerOK
    <3>3. HiddenUntilGranted'
      BY <1>0, <3>1, <3>2 DEF HiddenUntilGranted
    <3>4. c.op # "create"
      BY <2>7 DEF UpdateBatch
    <3>5. QED
      BY <1>1, <2>3, <3>1, <3>2, <3>3, <3>4, NilAssumption DEF GapsInv
  <2>8. CASE CheckUnused(c) \/ CheckRole(c) \/ RemoveRole(c) \/ WriteRole(c)
    BY <2>4, <2>8 DEF CheckUnused, CheckRole, RemoveRole, WriteRole, server, history
  <2>9. CASE LoseCall(c)
    <3>1. c.stage = "checked" \/ SamePast
      BY <1>0, <2>2, <2>9, MoveKeeps DEF LoseCall, Stages
    <3>2. QED
      BY <2>4, <2>9, <3>1 DEF LoseCall, server
  <2>10. QED
    BY <1>4, <2>5, <2>6, <2>7, <2>8, <2>9 DEF ServeCall
<1>5. QED
  BY <1>2, <1>3, <1>4, AccessStep

\* A page is visible to a role that is not a system role only where it was
\* granted, unless the role was read while it was being created.
THEOREM NewRolesAreHidden == Spec => []HiddenUntilGranted
<1>1. AccessOK /\ GapsInv /\ [Next]_vars => AccessOK' /\ GapsInv'
  BY AccessStep, GapsStep
<1>2. GapsInv => HiddenUntilGranted
  BY DEF GapsInv
<1>3. QED
  BY InitTyped, GapsInit, <1>1, <1>2, PTL DEF Spec
-----------------------------------------------------------------------------
(* The matrix. *)

\* A cell with nothing under way and nothing left from what failed.
Untouched(c) == Toggling(c) = {} /\ optimistic[c] = Nil

\* What a query has, or brings, for a cell comes from a row R has.
HasRow(q, R, c) ==
  /\ q.data # Nil /\ q.data[c] # Nil => R[c] # Nil
  /\ q.fetch = "answered" /\ q.answer[c] # Nil => R[c] # Nil

\* What a query has that is fresh, or brings, for a cell is what R has.
Tells(q, R, c) ==
  /\ q.data # Nil /\ ~q.stale /\ q.data[c] # Nil => q.data[c] = R[c]
  /\ q.fetch = "answered" /\ q.answer[c] # Nil => q.answer[c] = R[c]

\* A toggle whose tab is gone left its cell unseen.
GoneInv == \A k \in calls : k.op = "toggle" /\ k.holder = "gone" => Cell(k) \in unseen

\* Toggles under way were made in the matrix, from its data.
ToggledInv ==
  \A c \in Cells \ unseen : Toggling(c) # {} => tab = "permisos" /\ matrix.data # Nil

\* A row is never removed, and only a toggle changes it; when the last toggle of a
\* cell is answered, nothing that was read before is fresh or under way.
MatrixInv ==
  /\ matrix.fetch = "answered" => matrix.answer \in Matrix
  /\ GoneInv /\ ToggledInv
  /\ \A c \in Cells : HasRow(matrix, rows, c)
  /\ \A c \in Cells \ unseen : Untouched(c) => Tells(matrix, rows, c)

\* p has the data of q, is fresh or answered only where q is, with the same answer.
NoMore(p, q) ==
  /\ p.data = q.data
  /\ ~p.stale => ~q.stale
  /\ p.fetch = "answered" => q.fetch = "answered" /\ p.answer = q.answer

LEMMA AskTellsNoMore ==
  ASSUME NEW q \in Query(Matrix) PROVE NoMore(Ask(q), q)
<1>1. Ask(q).data = q.data /\ Ask(q).stale = q.stale /\ Ask(q).fetch = "asked"
  BY DEF Ask, Query
<1>2. QED
  BY <1>1 DEF NoMore

\* Only an answer and its arrival tell more.
LEMMA TellsNoMore ==
  ASSUME NEW q \in Query(Matrix), NEW b \in BOOLEAN
  PROVE  /\ NoMore(q, q)
         /\ NoMore(Mounted(q, b), q)
         /\ NoMore(Invalidated(q, b), q)
         /\ NoMore(Failed(q), q)
<1>1. NoMore(q, q)
  BY DEF NoMore
<1>2. NoMore(Mounted(q, b), q)
  BY <1>1, AskTellsNoMore DEF Mounted
<1>3. NoMore(Failed(q), q)
  <2>1. Failed(q).data = q.data /\ Failed(q).stale = q.stale /\ Failed(q).fetch = "idle"
    BY DEF Failed, Query
  <2>2. QED
    BY <2>1 DEF NoMore
<1>4. NoMore(Invalidated(q, b), q)
  <2>1. PICK s : s = [q EXCEPT !.stale = TRUE]
    OBVIOUS
  <2>2. s \in Query(Matrix) /\ s.data = q.data /\ s.stale = TRUE
    BY <2>1 DEF Query
  <2>3. s.fetch = q.fetch /\ s.answer = q.answer
    BY <2>1 DEF Query
  <2>4. NoMore(s, q)
    BY <2>2, <2>3 DEF NoMore
  <2>5. NoMore(Ask(s), s)
    BY <2>2, AskTellsNoMore
  <2>6. NoMore(Ask(s), q)
    BY <2>4, <2>5 DEF NoMore
  <2>7. Invalidated(q, b) = s \/ Invalidated(q, b) = Ask(s)
    BY <2>1 DEF Invalidated
  <2>8. QED
    BY <2>4, <2>6, <2>7
<1>5. QED
  BY <1>1, <1>2, <1>3, <1>4

\* An invalidation of a watched query with data leaves nothing fresh or answered.
LEMMA WatchedIsAsked ==
  ASSUME NEW q \in Query(Matrix), q.data # Nil, NEW R, NEW c
  PROVE  Tells(Invalidated(q, TRUE), R, c)
<1>1. PICK s : s = [q EXCEPT !.stale = TRUE]
  OBVIOUS
<1>2. Invalidated(q, TRUE) = Ask(s)
  BY <1>1 DEF Invalidated, Survives
<1>3. s \in Query(Matrix) /\ s.stale = TRUE
  BY <1>1 DEF Query
<1>4. Ask(s).stale = TRUE /\ Ask(s).fetch = "asked"
  BY <1>3 DEF Ask, Query
<1>5. QED
  BY <1>2, <1>4 DEF Tells

LEMMA NoMoreHasRow ==
  ASSUME NEW p, NEW q, NEW R, NEW S, NEW c, NoMore(p, q), HasRow(q, R, c),
         R[c] # Nil => S[c] # Nil
  PROVE  HasRow(p, S, c)
BY DEF NoMore, HasRow

LEMMA NoMoreTells ==
  ASSUME NEW p, NEW q, NEW R, NEW S, NEW c, NoMore(p, q), HasRow(q, R, c),
         Tells(q, R, c), S[c] = R[c] \/ R[c] = Nil
  PROVE  Tells(p, S, c)
BY DEF NoMore, HasRow, Tells

\* A step that brings nothing from the server.
LEMMA MatrixKept ==
  ASSUME MatrixInv, NoMore(matrix', matrix), GoneInv', ToggledInv', unseen \subseteq unseen',
         \A c \in Cells : rows[c] # Nil => rows'[c] # Nil,
         \A c \in Cells \ unseen' : Untouched(c)' =>
           \/ Untouched(c) /\ (rows'[c] = rows[c] \/ rows[c] = Nil)
           \/ Tells(matrix', rows', c)
  PROVE  MatrixInv'
<1>1. matrix'.fetch = "answered" => matrix'.answer \in Matrix
  BY DEF MatrixInv, NoMore
<1>2. \A c \in Cells : HasRow(matrix', rows', c)
  BY NoMoreHasRow DEF MatrixInv
<1>3. ASSUME NEW c \in Cells \ unseen', Untouched(c)' PROVE Tells(matrix', rows', c)
  <2>1. c \in Cells \ unseen
    OBVIOUS
  <2>2. CASE Untouched(c) /\ (rows'[c] = rows[c] \/ rows[c] = Nil)
    BY <2>1, <2>2, NoMoreTells DEF MatrixInv
  <2>3. QED
    BY <1>3, <2>2
<1>4. \A c \in Cells : HasRow(matrix, rows, c)'
  BY <1>2 DEF HasRow
<1>5. \A c \in Cells \ unseen' : Untouched(c)' => Tells(matrix, rows, c)'
  BY <1>3 DEF Tells
<1>6. QED
  BY <1>1, <1>4, <1>5 DEF MatrixInv

\* A call that moves on is about the same cell.
LEMMA MoveToggles ==
  ASSUME CallsOK, NEW c \in calls, NEW stage \in Stages, Move(c, stage)
  PROVE  /\ \A x \in Cells : Toggling(x)' = {} <=> Toggling(x) = {}
         /\ GoneInv /\ unseen' = unseen => GoneInv'
<1>1. c \in Call
  BY DEF CallsOK, Typed
<1>2. PICK d : d = [c EXCEPT !.stage = stage]
  OBVIOUS
<1>3. d.op = c.op /\ d.role = c.role /\ d.page = c.page /\ d.holder = c.holder
  BY <1>1, <1>2 DEF Call
<1>4. Cell(d) = Cell(c)
  BY <1>3 DEF Cell
<1>5. calls' = (calls \ {c}) \cup {d}
  BY <1>2 DEF Move
<1>6. ASSUME NEW x \in Cells PROVE Toggling(x)' = {} <=> Toggling(x) = {}
  <2>1. Toggling(x) # {} <=> \E k \in calls : k.op = "toggle" /\ Cell(k) = x
    BY DEF Toggling
  <2>2. Toggling(x)' # {} <=> \E k \in calls' : k.op = "toggle" /\ Cell(k) = x
    BY DEF Toggling, Cell
  <2>3. QED
    BY <1>3, <1>4, <1>5, <2>1, <2>2
<1>7. ASSUME GoneInv, unseen' = unseen PROVE GoneInv'
  <2>1. \A k \in calls' : k.op = "toggle" /\ k.holder = "gone" => Cell(k) \in unseen'
    BY <1>3, <1>4, <1>5, <1>7 DEF GoneInv
  <2>2. QED
    BY <2>1 DEF GoneInv, Cell
<1>8. QED
  BY <1>6, <1>7

\* A new toggle is about its cell, and the holder of the earlier one changes.
LEMMA SendToggles ==
  ASSUME CallsOK, GoneInv, NEW op \in Ops, NEW r, NEW p, NEW u, NEW on,
         Send(op, r, p, u, on)
  PROVE  /\ GoneInv'
         /\ \A x \in Cells : Toggling(x)' = {} => Toggling(x) = {}
         /\ \A x \in Cells : Toggling(x)' # {} =>
              Toggling(x) # {} \/ (op = "toggle" /\ x = <<r, p>>)
         /\ op = "toggle" => Toggling(<<r, p>>)' # {}
<1> DEFINE new == [id |-> made + 1, holder |-> "latest", op |-> op, role |-> r,
                   page |-> p, user |-> u, on |-> on, stage |-> "sent"]
           kept(c) == IF c.op = op /\ c.holder = "latest" THEN [c EXCEPT !.holder = "tab"]
                                                         ELSE c
<1>1. calls' = {kept(c) : c \in calls} \cup {new} /\ unseen' = unseen
  BY DEF Send, history
<1>2. ASSUME NEW c \in calls
      PROVE  /\ kept(c).op = c.op /\ Cell(kept(c)) = Cell(c)
             /\ kept(c).holder = "gone" => c.holder = "gone"
  <2>1. c \in Call
    BY DEF CallsOK, Typed
  <2>2. PICK d : d = [c EXCEPT !.holder = "tab"]
    OBVIOUS
  <2>3. d.op = c.op /\ d.role = c.role /\ d.page = c.page /\ d.holder = "tab"
    BY <2>1, <2>2 DEF Call
  <2>4. kept(c) = c \/ kept(c) = d
    BY <2>2
  <2>5. QED
    BY <2>3, <2>4 DEF Cell
<1>3. new.op = op /\ new.holder = "latest" /\ Cell(new) = <<r, p>>
  BY DEF Cell
<1> HIDE DEF new, kept
<1>4. GoneInv'
  <2>1. \A k \in calls' : k.op = "toggle" /\ k.holder = "gone" => Cell(k) \in unseen'
    BY <1>1, <1>2, <1>3 DEF GoneInv
  <2>2. QED
    BY <2>1 DEF GoneInv, Cell
<1>5. \A x : Toggling(x) # {} <=> \E k \in calls : k.op = "toggle" /\ Cell(k) = x
  BY DEF Toggling
<1>6. \A x : Toggling(x)' # {} <=> \E k \in calls' : k.op = "toggle" /\ Cell(k) = x
  BY DEF Toggling, Cell
<1>7. ASSUME NEW x \in Cells, Toggling(x) # {} PROVE Toggling(x)' # {}
  BY <1>1, <1>2, <1>5, <1>6, <1>7
<1>8. ASSUME NEW x \in Cells, Toggling(x)' # {}
      PROVE  Toggling(x) # {} \/ (op = "toggle" /\ x = <<r, p>>)
  <2>1. PICK k \in calls' : k.op = "toggle" /\ Cell(k) = x
    BY <1>6, <1>8
  <2>2. CASE k = new
    BY <1>3, <2>1, <2>2
  <2>3. CASE k # new
    <3>1. PICK c \in calls : k = kept(c)
      BY <1>1, <2>3
    <3>2. QED
      BY <1>2, <1>5, <2>1, <3>1
  <2>4. QED
    BY <2>2, <2>3
<1>9. ASSUME op = "toggle" PROVE Toggling(<<r, p>>)' # {}
  BY <1>1, <1>3, <1>6, <1>9
<1>10. QED
  BY <1>4, <1>7, <1>8, <1>9

\* The tab is left: what it had under way is unseen.
LEMMA LeaveMatrix ==
  ASSUME AccessOK, MatrixInv, NEW t \in Tabs, NEW aged \in BOOLEAN, SetTab(t, aged)
  PROVE  MatrixInv'
<1> DEFINE left(c) == [c EXCEPT !.holder = "gone"]
<1>1. calls' = {left(c) : c \in calls} /\ rows' = rows
  BY DEF SetTab, server
<1>2. ASSUME NEW c \in calls
      PROVE  left(c).op = c.op /\ Cell(left(c)) = Cell(c)
  <2>1. c \in Call
    BY DEF AccessOK, CallsOK, Typed
  <2>2. PICK d : d = [c EXCEPT !.holder = "gone"]
    OBVIOUS
  <2>3. d.op = c.op /\ d.role = c.role /\ d.page = c.page
    BY <2>1, <2>2 DEF Call
  <2>4. QED
    BY <2>2, <2>3 DEF Cell
<1> HIDE DEF left
<1>3. unseen' = unseen \cup {c \in Cells : optimistic[c] # Nil \/ Toggling(c) # {}}
  BY DEF SetTab
<1>4. \A x : Toggling(x) # {} <=> \E k \in calls : k.op = "toggle" /\ Cell(k) = x
  BY DEF Toggling
<1>5. \A x : Toggling(x)' # {} <=> \E k \in calls' : k.op = "toggle" /\ Cell(k) = x
  BY DEF Toggling, Cell
<1>6. \A k \in calls : k.op = "toggle" => Cell(k) \in unseen'
  <2>1. ASSUME NEW k \in calls, k.op = "toggle" PROVE Cell(k) \in Cells
    BY <2>1 DEF AccessOK, CallsOK, Typed, Call, Cell, Cells
  <2>2. QED
    BY <1>3, <1>4, <2>1
<1>7. GoneInv'
  <2>1. \A k \in calls' : k.op = "toggle" => Cell(k) \in unseen'
    BY <1>1, <1>2, <1>6
  <2>2. QED
    BY <2>1 DEF GoneInv, Cell
<1>8. \A c \in Cells \ unseen' : Toggling(c)' = {} /\ Untouched(c)
  <2>1. ASSUME NEW c \in Cells \ unseen' PROVE Toggling(c) = {} /\ optimistic[c] = Nil
    BY <1>3
  <2>2. ASSUME NEW c \in Cells \ unseen' PROVE Toggling(c)' = {}
    BY <1>1, <1>2, <1>4, <1>5, <2>1
  <2>3. QED
    BY <2>1, <2>2 DEF Untouched
<1>9. ToggledInv'
  BY <1>8 DEF ToggledInv
<1>10. NoMore(matrix', matrix)
  <2>1. matrix' = matrix \/ matrix' = Mounted(matrix, aged)
    BY DEF SetTab
  <2>2. matrix \in Query(Matrix)
    BY DEF AccessOK, PageOK
  <2>3. QED
    BY <2>1, <2>2, TellsNoMore
<1>11. unseen \subseteq unseen'
  BY <1>3
<1>12. QED
  BY <1>1, <1>7, <1>8, <1>9, <1>10, <1>11, MatrixKept

\* What else the administrator does.
LEMMA AdministerMatrix ==
  ASSUME AccessOK, MatrixInv, Administer
  PROVE  MatrixInv'
<1>1. CallsOK /\ GoneInv /\ ToggledInv /\ matrix \in Query(Matrix)
  BY DEF AccessOK, PageOK, MatrixInv
<1>2. ASSUME NEW op \in Ops \ {"toggle"}, NEW r, NEW p, NEW u, NEW on,
             Send(op, r, p, u, on), optimistic' = optimistic
      PROVE  MatrixInv'
  <2>1. GoneInv' /\ \A x \in Cells : Toggling(x)' = {} <=> Toggling(x) = {}
    BY <1>1, <1>2, SendToggles
  <2>2. matrix' = matrix /\ rows' = rows /\ tab' = tab /\ unseen' = unseen
    BY <1>2 DEF Send, server, history
  <2>3. ToggledInv'
    BY <1>1, <2>1, <2>2 DEF ToggledInv
  <2>4. \A c \in Cells : Untouched(c)' => Untouched(c)
    BY <1>2, <2>1 DEF Untouched
  <2>5. NoMore(matrix', matrix)
    BY <2>2 DEF NoMore
  <2>6. QED
    BY <2>1, <2>2, <2>3, <2>4, <2>5, MatrixKept
<1>3. ASSUME NEW r \in RoleNames, CreateRole(r) \/ DeleteRole(r) PROVE MatrixInv'
  BY <1>2, <1>3 DEF CreateRole, DeleteRole, Ops
<1>4. ASSUME NEW u \in Users, NEW r \in RoleNames, SaveRole(u, r) PROVE MatrixInv'
  BY <1>2, <1>4 DEF SaveRole, Ops
<1>5. ASSUME NEW c \in Cells, Toggle(c) PROVE MatrixInv'
  <2>1. c = <<c[1], c[2]>> /\ "toggle" \in Ops
    BY DEF Cells, Ops
  <2>2. PICK on : Send("toggle", c[1], c[2], Nil, on)
    BY <1>5 DEF Toggle
  <2>3. /\ GoneInv'
        /\ \A x \in Cells : Toggling(x)' = {} => Toggling(x) = {}
        /\ \A x \in Cells : Toggling(x)' # {} => Toggling(x) # {} \/ x = c
        /\ Toggling(c)' # {}
    BY <1>1, <2>1, <2>2, SendToggles
  <2>4. matrix' = matrix /\ rows' = rows /\ tab' = tab /\ unseen' = unseen
    BY <2>2 DEF Send, server, history
  <2>5. tab = "permisos" /\ matrix.data # Nil
    BY <1>5 DEF Toggle
  <2>6. ToggledInv'
    BY <2>4, <2>5 DEF ToggledInv
  <2>7. \A x \in Cells : x # c => optimistic'[x] = optimistic[x]
    BY <1>5 DEF Toggle, AccessOK, PageOK
  <2>8. \A x \in Cells : Untouched(x)' => Untouched(x)
    BY <2>3, <2>7 DEF Untouched
  <2>9. NoMore(matrix', matrix)
    BY <2>4 DEF NoMore
  <2>10. QED
    BY <2>3, <2>4, <2>6, <2>8, <2>9, MatrixKept
<1>6. ASSUME NEW aged \in BOOLEAN, Focus(aged) PROVE MatrixInv'
  <2>1. calls' = calls /\ rows' = rows /\ tab' = tab /\ unseen' = unseen
        /\ optimistic' = optimistic
    BY <1>6 DEF Focus, server, page, history
  <2>2. NoMore(matrix', matrix)
    BY <1>1, <1>6, TellsNoMore DEF Focus
  <2>3. GoneInv'
    BY <1>1, <2>1 DEF GoneInv, Cell
  <2>4. \A x \in Cells : Toggling(x)' = Toggling(x)
    BY <2>1 DEF Toggling, Cell
  <2>5. matrix'.data = matrix.data
    BY <2>2 DEF NoMore
  <2>6. ToggledInv'
    BY <1>1, <2>1, <2>4, <2>5 DEF ToggledInv
  <2>7. \A x \in Cells : Untouched(x)' => Untouched(x)
    BY <2>1, <2>4 DEF Untouched
  <2>8. QED
    BY <2>1, <2>2, <2>3, <2>6, <2>7, MatrixKept
<1>7. ASSUME NEW t \in Tabs, NEW aged \in BOOLEAN, SetTab(t, aged) PROVE MatrixInv'
  BY <1>7, LeaveMatrix
<1>8. QED
  BY <1>3, <1>4, <1>5, <1>6, <1>7 DEF Administer

\* A call at the server: rows are added, and changed by a toggle that is under way.
LEMMA ServeMatrix ==
  ASSUME AccessOK, MatrixInv, NEW c \in calls, ServeCall(c) \/ LoseCall(c)
  PROVE  MatrixInv'
<1>1. /\ CallsOK /\ GoneInv /\ ToggledInv /\ matrix \in Query(Matrix)
      /\ rows \in [Cells -> BOOLEAN \cup {Nil}]
  BY DEF AccessOK, PageOK, ServerOK, MatrixInv
<1>2. matrix' = matrix /\ tab' = tab /\ optimistic' = optimistic /\ unseen' = unseen
  <2>1. matrix' = matrix /\ tab' = tab /\ optimistic' = optimistic
    BY DEF ServeCall, LoseCall, page
  <2>2. unseen' = unseen
    BY DEF ServeCall, LoseCall, SaveNewRole, CreateRows, CheckUnused, RemoveRole,
           CheckRole, WriteRole, UpdateBatch, history
  <2>3. QED
    BY <2>1, <2>2
<1>3. PICK stage \in Stages : Move(c, stage)
  BY ServeMoves
<1>4. GoneInv' /\ \A x \in Cells : Toggling(x)' = {} <=> Toggling(x) = {}
  BY <1>1, <1>2, <1>3, MoveToggles
<1>5. ToggledInv'
  BY <1>1, <1>2, <1>4 DEF ToggledInv
<1>6. \A x \in Cells : Untouched(x)' => Untouched(x)
  BY <1>2, <1>4 DEF Untouched
<1>7. \A x \in Cells : /\ rows[x] # Nil => rows'[x] # Nil
                       /\ Untouched(x) => rows'[x] = rows[x] \/ rows[x] = Nil
  <2>1. CASE rows' = rows
    BY <2>1
  <2>2. CASE CreateRows(c)
    <3>1. \A x \in Cells : rows'[x] = rows[x] \/ rows[x] = Nil
      BY <2>2 DEF CreateRows
    <3>2. QED
      BY <3>1
  <2>3. CASE UpdateBatch(c)
    <3>1. c.op = "toggle" /\ Toggling(Cell(c)) # {}
      BY <2>3 DEF UpdateBatch, Toggling
    <3>2. c.on \in BOOLEAN
      BY <1>1, <3>1 DEF CallsOK, Typed
    <3>3. \A x \in Cells : rows'[x] = rows[x] \/ (x = Cell(c) /\ rows'[x] = c.on)
      BY <1>1, <2>3 DEF UpdateBatch
    <3>4. \A x \in Cells : rows[x] # Nil => rows'[x] # Nil
      BY <3>2, <3>3, NilAssumption
    <3>5. \A x \in Cells : Untouched(x) => rows'[x] = rows[x]
      BY <3>1, <3>3 DEF Untouched
    <3>6. QED
      BY <3>4, <3>5
  <2>4. CASE SaveNewRole(c) \/ CheckUnused(c) \/ RemoveRole(c) \/ CheckRole(c)
             \/ WriteRole(c) \/ LoseCall(c)
    <3>1. rows' = rows
      BY <2>4 DEF SaveNewRole, CheckUnused, RemoveRole, CheckRole, WriteRole, LoseCall, server
    <3>2. QED
      BY <2>1, <3>1
  <2>5. QED
    BY <2>2, <2>3, <2>4 DEF ServeCall
<1>8. NoMore(matrix', matrix)
  BY <1>2 DEF NoMore
<1>9. QED
  BY <1>2, <1>4, <1>5, <1>6, <1>7, <1>8, MatrixKept

\* An answer: the cell of a toggle is read again, or shows what failed.
LEMMA AnswersMatrix ==
  ASSUME AccessOK, MatrixInv, NEW c \in calls, Succeed(c) \/ Fail(c)
  PROVE  MatrixInv'
<1>1. /\ CallsOK /\ GoneInv /\ ToggledInv /\ matrix \in Query(Matrix)
      /\ optimistic \in [Cells -> BOOLEAN \cup {Nil}]
  BY DEF AccessOK, PageOK, MatrixInv
<1>2. rows' = rows /\ tab' = tab /\ unseen' = unseen /\ calls' = calls \ {c}
  BY DEF Succeed, Fail, server, history
<1>3. GoneInv'
  BY <1>1, <1>2 DEF GoneInv, Cell
<1>4. \A x \in Cells : Toggling(x)' = Toggling(x) \ {c}
  BY <1>2 DEF Toggling, Cell
<1>5. (tab = "permisos") \in BOOLEAN
  OBVIOUS
<1>6. NoMore(matrix', matrix)
  <2>1. matrix' = matrix \/ matrix' = Invalidated(matrix, tab = "permisos")
    BY DEF Succeed, Fail
  <2>2. QED
    BY <1>1, <1>5, <2>1, TellsNoMore
<1>7. matrix'.data = matrix.data
  BY <1>6 DEF NoMore
<1>8. ToggledInv'
  BY <1>1, <1>2, <1>4, <1>7 DEF ToggledInv
<1>9. ASSUME NEW x \in Cells \ unseen, Untouched(x)', ~Untouched(x)
      PROVE  Tells(matrix', rows', x)
  <2>1. CASE c.op # "toggle"
    <3>1. optimistic' = optimistic
      BY <2>1 DEF Succeed, Fail
    <3>2. c \notin Toggling(x)
      BY <2>1 DEF Toggling
    <3>3. QED
      BY <1>4, <1>9, <3>1, <3>2 DEF Untouched
  <2>2. CASE c.op = "toggle" /\ Cell(c) # x
    <3>1. optimistic'[x] = optimistic[x]
      BY <1>1, <2>2 DEF Succeed, Fail
    <3>2. c \notin Toggling(x)
      BY <2>2 DEF Toggling
    <3>3. QED
      BY <1>4, <1>9, <3>1, <3>2 DEF Untouched
  <2>3. CASE c.op = "toggle" /\ Cell(c) = x
    <3>1. Own(c)
      BY <1>1, <2>3 DEF GoneInv, Own
    <3>2. ~Fail(c)
      <4>1. c.on \in BOOLEAN
        BY <1>1, <2>3 DEF CallsOK, Typed
      <4>2. (~c.on) # Nil
        BY <4>1, NilAssumption
      <4>3. Fail(c) => optimistic'[x] = ~c.on
        BY <1>1, <2>3, <3>1 DEF Fail
      <4>4. QED
        BY <1>9, <4>2, <4>3 DEF Untouched
    <3>3. c \in Toggling(x)
      BY <2>3 DEF Toggling
    <3>4. tab = "permisos" /\ matrix.data # Nil
      BY <1>1, <3>3 DEF ToggledInv
    <3>5. matrix' = Invalidated(matrix, TRUE)
      BY <2>3, <3>2, <3>4 DEF Succeed, Invalidates
    <3>6. QED
      BY <1>1, <3>4, <3>5, WatchedIsAsked
  <2>4. QED
    BY <2>1, <2>2, <2>3
<1>10. QED
  BY <1>2, <1>3, <1>6, <1>8, <1>9, MatrixKept

\* The permissions of a user are read.
LEMMA ReadMatrix ==
  ASSUME AccessOK, MatrixInv, Reads
  PROVE  MatrixInv'
<1>1. /\ CallsOK /\ GoneInv /\ ToggledInv /\ matrix \in Query(Matrix)
      /\ rows \in [Cells -> BOOLEAN \cup {Nil}]
  BY DEF AccessOK, PageOK, ServerOK, MatrixInv
<1>2. PICK R \in SUBSET roles : Expose(R)
  BY ReadsTyped
<1>3. \A x \in Cells : rows'[x] = rows[x] \/ rows[x] = Nil
  BY <1>2 DEF Expose, EnsureDefaults
<1>4. tab' = tab /\ optimistic' = optimistic /\ calls' = calls /\ unseen' = unseen
  <2>1. unseen' = unseen
    BY <1>2 DEF Expose
  <2>2. tab' = tab /\ optimistic' = optimistic /\ calls' = calls
    BY DEF Reads, MyPermissions, AnswerMatrix, page
  <2>3. QED
    BY <2>1, <2>2
<1>5. GoneInv'
  BY <1>1, <1>4 DEF GoneInv, Cell
<1>6. \A x \in Cells : Toggling(x)' = Toggling(x)
  BY <1>4 DEF Toggling, Cell
<1>7. \A x \in Cells : Untouched(x)' => Untouched(x)
  BY <1>4, <1>6 DEF Untouched
<1>8. CASE \E u \in Users : MyPermissions(u)
  <2>1. matrix' = matrix
    BY <1>8 DEF MyPermissions
  <2>2. NoMore(matrix', matrix)
    BY <2>1 DEF NoMore
  <2>3. ToggledInv'
    BY <1>1, <1>4, <1>6, <2>1 DEF ToggledInv
  <2>4. QED
    BY <1>3, <1>4, <1>5, <1>7, <2>2, <2>3, MatrixKept
<1>9. CASE AnswerMatrix
  <2>1. PICK M : M = [d \in Cells |-> IF d[1] \in roles THEN rows'[d] ELSE Nil]
    OBVIOUS
  <2>2. rows' \in [Cells -> BOOLEAN \cup {Nil}]
    BY ReadsTyped DEF AccessOK, ServerOK
  <2>3. M \in Matrix /\ \A x \in Cells : M[x] # Nil => M[x] = rows'[x]
    BY <2>1, <2>2 DEF Matrix
  <2>4. matrix' = Answered(matrix, M)
    BY <1>9, <2>1 DEF AnswerMatrix
  <2>5. /\ matrix'.data = matrix.data /\ matrix'.stale = matrix.stale
        /\ matrix'.answer = M
    BY <1>1, <2>4 DEF Answered, Query
  <2>6. ToggledInv'
    BY <1>1, <1>4, <1>6, <2>5 DEF ToggledInv
  <2>7. ASSUME NEW x \in Cells PROVE HasRow(matrix', rows', x)
    <3>1. HasRow(matrix, rows, x)
      BY DEF MatrixInv
    <3>2. QED
      BY <1>3, <2>3, <2>5, <3>1 DEF HasRow
  <2>8. ASSUME NEW x \in Cells \ unseen', Untouched(x)' PROVE Tells(matrix', rows', x)
    <3>1. HasRow(matrix, rows, x) /\ Tells(matrix, rows, x)
      BY <1>4, <1>7, <2>8 DEF MatrixInv
    <3>2. rows'[x] = rows[x] \/ rows[x] = Nil
      BY <1>3
    <3>3. matrix.data # Nil /\ ~matrix.stale /\ matrix.data[x] # Nil
            => matrix.data[x] = rows'[x]
      BY <3>1, <3>2 DEF HasRow, Tells
    <3>4. M[x] # Nil => M[x] = rows'[x]
      BY <2>3
    <3>5. QED
      BY <2>5, <3>3, <3>4 DEF Tells
  <2>9. \A x \in Cells : HasRow(matrix, rows, x)'
    BY <2>7 DEF HasRow
  <2>10. \A x \in Cells \ unseen' : Untouched(x)' => Tells(matrix, rows, x)'
    BY <2>8 DEF Tells
  <2>11. QED
    BY <1>5, <2>3, <2>5, <2>6, <2>9, <2>10 DEF MatrixInv
<1>10. QED
  BY <1>8, <1>9 DEF Reads

\* The matrix arrives, or does not.
LEMMA ArriveMatrix ==
  ASSUME AccessOK, MatrixInv, MatrixArrives \/ MatrixFails
  PROVE  MatrixInv'
<1>1. GoneInv /\ ToggledInv /\ matrix \in Query(Matrix)
  BY DEF AccessOK, PageOK, MatrixInv
<1>2. /\ tab' = tab /\ optimistic' = optimistic /\ calls' = calls /\ unseen' = unseen
      /\ rows' = rows
  BY DEF MatrixArrives, MatrixFails, server, page, history
<1>3. GoneInv'
  BY <1>1, <1>2 DEF GoneInv, Cell
<1>4. \A x \in Cells : Toggling(x)' = Toggling(x)
  BY <1>2 DEF Toggling, Cell
<1>5. \A x \in Cells : Untouched(x)' => Untouched(x)
  BY <1>2, <1>4 DEF Untouched
<1>6. CASE MatrixFails
  <2>1. matrix' = Failed(matrix)
    BY <1>6 DEF MatrixFails
  <2>2. TRUE \in BOOLEAN
    OBVIOUS
  <2>3. NoMore(matrix', matrix)
    BY <1>1, <2>1, <2>2, TellsNoMore
  <2>4. matrix'.data = matrix.data
    BY <2>3 DEF NoMore
  <2>5. ToggledInv'
    BY <1>1, <1>2, <1>4, <2>4 DEF ToggledInv
  <2>6. QED
    BY <1>2, <1>3, <1>5, <2>3, <2>5, MatrixKept
<1>7. CASE MatrixArrives
  <2>1. matrix.fetch = "answered" /\ matrix' = Arrived(matrix)
    BY <1>7 DEF MatrixArrives
  <2>2. matrix.answer \in Matrix
    BY <2>1 DEF MatrixInv
  <2>3. matrix'.data = matrix.answer /\ matrix'.fetch = "idle"
    BY <2>1 DEF Arrived
  <2>4. matrix'.data # Nil
    BY <2>2, <2>3, MatrixAssumption
  <2>5. ToggledInv'
    BY <1>1, <1>2, <1>4, <2>4 DEF ToggledInv
  <2>6. ASSUME NEW x \in Cells PROVE HasRow(matrix', rows', x)
    <3>1. HasRow(matrix, rows, x)
      BY DEF MatrixInv
    <3>2. QED
      BY <1>2, <2>1, <2>3, <3>1 DEF HasRow
  <2>7. ASSUME NEW x \in Cells \ unseen', Untouched(x)' PROVE Tells(matrix', rows', x)
    <3>1. Tells(matrix, rows, x)
      BY <1>2, <1>5, <2>7 DEF MatrixInv
    <3>2. QED
      BY <1>2, <2>1, <2>3, <3>1 DEF Tells
  <2>8. \A x \in Cells : HasRow(matrix, rows, x)'
    BY <2>6 DEF HasRow
  <2>9. \A x \in Cells \ unseen' : Untouched(x)' => Tells(matrix, rows, x)'
    BY <2>7 DEF Tells
  <2>10. QED
    BY <1>3, <2>3, <2>5, <2>8, <2>9 DEF MatrixInv
<1>8. QED
  BY <1>6, <1>7

LEMMA MatrixStep == AccessOK /\ MatrixInv /\ [Next]_vars => MatrixInv'
<1>1. SUFFICES ASSUME AccessOK, MatrixInv, [Next]_vars PROVE MatrixInv'
  OBVIOUS
<1>2. CASE UNCHANGED vars
  BY <1>1, <1>2 DEF vars, server, page, history, MatrixInv, GoneInv, ToggledInv,
                    Untouched, Toggling, Cell, HasRow, Tells
<1>3. CASE Administer
  BY <1>1, <1>3, AdministerMatrix
<1>4. CASE Serve
  BY <1>1, <1>4, ServeMatrix, AnswersMatrix, ReadMatrix, ArriveMatrix DEF Serve, Reads
<1>5. QED
  BY <1>1, <1>2, <1>3, <1>4 DEF Next

LEMMA MatrixInit == Init => MatrixInv
<1>1. SUFFICES ASSUME Init PROVE MatrixInv
  OBVIOUS
<1>2. calls = {} /\ matrix.data = Nil /\ matrix.fetch = "idle"
  BY <1>1 DEF Init, NoQuery
<1>3. GoneInv /\ ToggledInv
  BY <1>2 DEF GoneInv, ToggledInv, Toggling
<1>4. \A c \in Cells : HasRow(matrix, rows, c) /\ Tells(matrix, rows, c)
  BY <1>2 DEF HasRow, Tells
<1>5. QED
  BY <1>2, <1>3, <1>4 DEF MatrixInv

\* Once the matrix is loaded and a cell has nothing under way, it shows what is
\* stored, unless the tab was left with the cell under way or failed.
THEOREM MatrixStaysTrue == Spec => []MatrixIsTrue
<1>1. MatrixInv => MatrixIsTrue
  BY DEF MatrixInv, MatrixIsTrue, Untouched, Tells, Settled
<1>2. AccessOK /\ [Next]_vars => AccessOK'
  BY AccessStep
<1>3. QED
  BY InitTyped, MatrixInit, MatrixStep, <1>1, <1>2, PTL DEF Spec
=============================================================================
