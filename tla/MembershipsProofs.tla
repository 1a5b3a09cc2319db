-------------------------- MODULE MembershipsProofs --------------------------
(***************************************************************************)
(* Proofs about Memberships, for every set of users, areas and positions   *)
(* and every bound.                                                        *)
(***************************************************************************)
EXTENDS Memberships, FiniteSetTheorems, TLAPS

-----------------------------------------------------------------------------
(* Queries. *)

\* What the query of a key holds.
DataOf(k) == IF k \in Areas THEN Members ELSE IF k \in Users THEN Profile ELSE SUBSET Users

LEMMA Fetching ==
  ASSUME NEW D, NEW q \in Query(D)
  PROVE  /\ \A b \in BOOLEAN : Mounted(q, b) \in Query(D)
         /\ \A b \in BOOLEAN : Invalidated(q, b) \in Query(D)
         /\ \A d \in D : Answered(q, d) \in Query(D)
         /\ Arrived(q) \in Query(D) /\ NoQuery \in Query(D) /\ Ask(NoQuery) \in Query(D)
BY DEF Query, Ask, Mounted, Invalidated, Survives, Answered, Arrived, NoQuery

\* A query that is asked, or is stale, has no data that it did not have.
LEMMA SameData ==
  ASSUME NEW D, NEW q \in Query(D), NEW b \in BOOLEAN, NEW p \in {Mounted(q, b), Invalidated(q, b)}
  PROVE  /\ p.data = q.data
         /\ p.answer = q.answer \/ (p.fetch = "asked" /\ p.answer = Nil)
         /\ p.fetch = "answered" => q.fetch = "answered" /\ p.answer = q.answer
         /\ ~p.stale => ~q.stale
BY DEF Query, Ask, Mounted, Invalidated, Survives
-----------------------------------------------------------------------------
(* Calls. *)

\* The stages of a call with something left to write.
Unserved == {"sent", "stored"}

\* A call has what its operation needs.
CallOK(c) ==
  /\ c \in Call /\ c.n <= made
  /\ c.op \in MemberOps => c.area \in Areas /\ c.user \in Users
  /\ c.op \in {"save", "deactivate"} => c.user \in Users
  /\ c.stage \in Unserved /\ c.op \in {"add", "update", "save", "create"}
       => c.position \in Positions
  /\ c.stage = "stored" => c.op \in {"save", "create"} /\ c.user \in Users /\ c.area \in Areas

CallsOK ==
  /\ \A c \in calls : CallOK(c)
  /\ \A c, d \in calls : c.n = d.n => c = d

\* The calls with something left to write, by number.
Waiting == {n \in 1 .. made : \E c \in calls : c.n = n /\ c.stage \in Unserved}

\* d is the call c, as far as it is, and asks for the same.
Alike(d, c) ==
  /\ d.n = c.n /\ d.op = c.op /\ d.user = c.user /\ d.area = c.area /\ d.stage = c.stage
  /\ d.id = c.id /\ d.position = c.position /\ d.touched = c.touched /\ d.seen = c.seen

\* d is the call c of the form after its first commit.
Moved(d, c) ==
  /\ d.op = c.op /\ d.area = c.area /\ d.position = c.position
  /\ d.touched = c.touched /\ d.seen = c.seen
  /\ c.stage = "sent" /\ d.stage = "stored" /\ (c.op = "save" => d.user = c.user)

LEMMA Detached ==
  ASSUME NEW c, CallOK(c), area \in Areas \cup {Nil}
  PROVE  CallOK(Detach(c)) /\ Alike(Detach(c), c)
<1>1. c \in Call
  BY DEF CallOK
<1>2. CASE c.live
  <2>1. PICK b \in Areas \cup {Nil} : b = IF c.op \in MemberOps THEN area ELSE Nil
    OBVIOUS
  <2>2. Detach(c) = [c EXCEPT !.live = FALSE, !.bound = b]
    BY <1>2, <2>1 DEF Detach
  <2>3. Detach(c) \in Call /\ Alike(Detach(c), c)
    BY <1>1, <2>2 DEF Call, Alike
  <2>4. QED
    BY <2>3 DEF CallOK, Alike
<1>3. CASE ~c.live
  BY <1>3 DEF Detach, Alike
<1>4. QED
  BY <1>2, <1>3

\* All that is waiting still is, or is gone.
Fewer ==
  /\ \A d \in calls' : \E c \in calls : Alike(d, c)
  /\ made' = made

LEMMA DetachedCalls ==
  ASSUME CallsOK, area \in Areas \cup {Nil}, made' = made,
         NEW S, S \subseteq calls, calls' = {Detach(c) : c \in S}
  PROVE  CallsOK' /\ Fewer /\ \A c \in S : \E d \in calls' : Alike(d, c)
<1>1. \A c \in calls : CallOK(c) /\ CallOK(Detach(c)) /\ Alike(Detach(c), c)
  BY Detached DEF CallsOK
<1>2. Fewer
  BY <1>1 DEF Fewer
<1>3. \A d \in calls' : CallOK(d)'
  BY <1>1 DEF CallOK
<1>4. ASSUME NEW d \in calls', NEW e \in calls', d.n = e.n PROVE d = e
  <2>1. PICK c \in S, b \in S : d = Detach(c) /\ e = Detach(b)
    OBVIOUS
  <2>2. c.n = b.n
    BY <1>1, <1>4, <2>1 DEF Alike
  <2>3. QED
    BY <2>1, <2>2 DEF CallsOK
<1>5. \A c \in S : \E d \in calls' : Alike(d, c)
  BY <1>1
<1>6. QED
  BY <1>2, <1>3, <1>4, <1>5 DEF CallsOK

LEMMA FewerCalls ==
  ASSUME CallsOK, made' = made, calls' \subseteq calls PROVE CallsOK' /\ Fewer
BY DEF CallsOK, CallOK, Fewer, Alike

LEMMA FewerWaiting == ASSUME Fewer PROVE Waiting' \subseteq Waiting
BY DEF Fewer, Waiting, Alike

\* What may be sent.
Sendable(op, u, id, a, p, t) ==
  /\ op \in Ops /\ u \in Users \cup {Nil} /\ id \in 0 .. MaxIds
  /\ a \in Areas \cup {Nil} /\ p \in Positions \cup {Nil} /\ t \in BOOLEAN
  /\ ~t => cache[u].data \in Profile
  /\ op \in MemberOps => a \in Areas /\ u \in Users
  /\ op \in {"save", "deactivate"} => u \in Users
  /\ op \in {"add", "update", "save", "create"} => p \in Positions

\* One call more.
Sent(op, u, id, a, p, t) ==
  /\ \A d \in calls' :
       \/ \E c \in calls : Alike(d, c)
       \/ /\ d.op = op /\ d.user = u /\ d.id = id /\ d.area = a /\ d.position = p
          /\ d.touched = t /\ d.stage = "sent" /\ (~t => d.seen = cache[u].data)
  /\ \A c \in calls : \E d \in calls' : Alike(d, c)

\* A call that is sent takes the next number.
LEMMA SentCall ==
  ASSUME CallsOK, area \in Areas \cup {Nil}, made \in 0 .. MaxCalls, MaxCalls \in Nat,
         NEW op, NEW u, NEW id, NEW a, NEW p, NEW t,
         Sendable(op, u, id, a, p, t), Send(op, u, id, a, p, t)
  PROVE  /\ CallsOK' /\ made' = made + 1 /\ made' \in 0 .. MaxCalls
         /\ Waiting' \subseteq Waiting \cup {made'}
         /\ Sent(op, u, id, a, p, t)
<1> USE DEF Sendable
<1>1. PICK s : s = IF t THEN Nil ELSE cache[u].data
  OBVIOUS
<1>2. PICK new : new = [n |-> made + 1, op |-> op, user |-> u, id |-> id, area |-> a, position |-> p,
                        touched |-> t, seen |-> s, live |-> TRUE, bound |-> Nil, stage |-> "sent"]
  OBVIOUS
<1>3. made < MaxCalls /\ made' = made + 1
      /\ calls' = {IF c.op = op THEN Detach(c) ELSE c : c \in calls} \cup {new}
  BY <1>1, <1>2 DEF Send
<1>4. s \in Profile \cup {Nil}
  BY <1>1
<1>5. /\ new \in Call /\ new.n = made + 1 /\ new.op = op /\ new.user = u /\ new.id = id /\ new.area = a
      /\ new.position = p /\ new.touched = t /\ new.seen = s /\ new.stage = "sent"
  BY <1>2, <1>3, <1>4 DEF Call
<1>6. \A c \in calls : CallOK(c) /\ CallOK(Detach(c)) /\ Alike(Detach(c), c)
  BY Detached DEF CallsOK
<1>7. \A d \in calls' : d = new \/ \E c \in calls : CallOK(d) /\ Alike(d, c)
  <2>1. \A c \in calls : Alike(c, c)
    BY DEF Alike
  <2>2. QED
    BY <1>3, <1>6, <2>1
<1>8. \A c \in calls : \E d \in calls' : Alike(d, c)
  <2>1. \A c \in calls : Alike(c, c)
    BY DEF Alike
  <2>2. QED
    BY <1>3, <1>6, <2>1
<1>9. CallOK(new)'
  BY <1>3, <1>5 DEF CallOK
<1>10. \A d \in calls' : CallOK(d)'
  <2>1. \A d : CallOK(d) => CallOK(d)'
    <3>1. \A d \in Call : d.n \in Nat
      BY DEF Call
    <3>2. QED
      BY <1>3, <3>1 DEF CallOK
  <2>2. QED
    BY <1>7, <1>9, <2>1
<1>11. ASSUME NEW d \in calls', NEW e \in calls', d.n = e.n PROVE d = e
  <2>1. \A c \in calls : c.n <= made /\ c.n \in Nat
    BY DEF CallsOK, CallOK, Call
  <2>2. CASE d = new \/ e = new
    <3>1. \A c \in calls : c.n # made + 1
      BY <2>1
    <3>2. QED
      BY <1>5, <1>7, <1>11, <2>2, <3>1 DEF Alike
  <2>3. CASE d # new /\ e # new
    <3>1. PICK c \in calls, b \in calls : /\ d = IF c.op = op THEN Detach(c) ELSE c
                                          /\ e = IF b.op = op THEN Detach(b) ELSE b
      BY <1>3, <2>3
    <3>2. c.n = b.n
      BY <1>6, <1>11, <3>1 DEF Alike
    <3>3. c = b
      BY <3>2 DEF CallsOK
    <3>4. QED
      BY <3>1, <3>3
  <2>4. QED
    BY <2>2, <2>3
<1>12. Waiting' \subseteq Waiting \cup {made'}
  <2>1. SUFFICES ASSUME NEW n \in Waiting', n # made' PROVE n \in Waiting
    OBVIOUS
  <2>2. PICK d \in calls' : d.n = n /\ d.stage \in Unserved
    BY DEF Waiting
  <2>3. n \in 1 .. made
    BY <1>3, <2>1 DEF Waiting
  <2>4. PICK c \in calls : Alike(d, c)
    BY <1>3, <1>5, <1>7, <2>1, <2>2
  <2>5. QED
    BY <2>2, <2>3, <2>4 DEF Waiting, Alike
<1>13. made' \in 0 .. MaxCalls
  BY <1>3
<1>14. CallsOK'
  BY <1>10, <1>11 DEF CallsOK
<1>15. Sent(op, u, id, a, p, t)
  BY <1>1, <1>5, <1>7, <1>8 DEF Sent
<1>16. QED
  BY <1>3, <1>12, <1>13, <1>14, <1>15
\* A call that the server has served, or that failed.
LEMMA ReplacedCall ==
  ASSUME CallsOK, NEW c \in calls, NEW stage \in {"ok", "failed"}, Replace(c, stage), made' = made
  PROVE  /\ CallsOK'
         /\ \A d \in calls' : \/ d \in calls /\ d # c
                              \/ /\ d.n = c.n /\ d.op = c.op /\ d.user = c.user /\ d.area = c.area
                                 /\ d.stage = stage /\ d.touched
         /\ \E d \in calls' : d.op = c.op /\ d.user = c.user /\ d.area = c.area /\ d.stage = stage
         /\ \A d \in calls : d # c => d \in calls'
         /\ Waiting' \subseteq Waiting \ {c.n}
<1>1. PICK new : new = [c EXCEPT !.stage = stage, !.id = 0, !.position = Nil,
                                 !.touched = TRUE, !.seen = Nil]
  OBVIOUS
<1>2. calls' = (calls \ {c}) \cup {new}
  BY <1>1 DEF Replace
<1>3. CallOK(c) /\ c \in Call
  BY DEF CallsOK, CallOK
<1>4. MaxIds \in Nat
  BY BoundsAssumption DEF MaxIds
<1>5. /\ new \in Call /\ new.n = c.n /\ new.op = c.op /\ new.user = c.user /\ new.area = c.area
      /\ new.stage = stage /\ new.touched
  <2>1. new \in Call
    <3>1. stage \in {"sent", "stored", "ok", "failed"} /\ 0 \in 0 .. MaxIds
      BY <1>4
    <3>2. QED
      BY <1>1, <1>3, <3>1 DEF Call
  <2>2. /\ new.n = c.n /\ new.op = c.op /\ new.user = c.user /\ new.area = c.area
        /\ new.stage = stage /\ new.touched
    BY <1>1, <1>3 DEF Call
  <2>3. QED
    BY <2>1, <2>2
<1>6. CallOK(new)'
  BY <1>3, <1>5 DEF CallOK, Unserved
<1>7. \A d \in calls' : (d \in calls /\ d # c /\ d.n # c.n) \/ d = new
  BY <1>2 DEF CallsOK
<1>8. \A d \in calls' : CallOK(d)'
  BY <1>6, <1>7 DEF CallsOK, CallOK
<1>9. CallsOK'
  BY <1>5, <1>7, <1>8 DEF CallsOK
<1>10. Waiting' \subseteq Waiting \ {c.n}
  BY <1>5, <1>7 DEF Waiting, Unserved
<1>11. QED
  BY <1>2, <1>5, <1>7, <1>9, <1>10

\* A call of the form whose user has been committed.
LEMMA StoredCall ==
  ASSUME CallsOK, NEW c \in calls, c.stage = "sent", c.op \in {"save", "create"},
         c.area \in Areas, NEW u \in Users, c.op = "save" => u = c.user,
         calls' = (calls \ {c}) \cup {[c EXCEPT !.stage = "stored", !.user = u]}, made' = made
  PROVE  /\ CallsOK' /\ Waiting' \subseteq Waiting
         /\ \E d \in calls' : /\ Moved(d, c) /\ \A e \in calls' : e = d \/ e \in calls
                             /\ \A e \in calls : e # c => e \in calls'
<1>1. PICK stage \in {"sent", "stored", "ok", "failed"} : stage = "stored"
  OBVIOUS
<1>2. PICK new : new = [c EXCEPT !.stage = stage, !.user = u]
  OBVIOUS
<1>3. calls' = (calls \ {c}) \cup {new}
  BY <1>1, <1>2
<1>4. CallOK(c) /\ c \in Call
  BY DEF CallsOK, CallOK
<1>5. /\ new \in Call /\ new.n = c.n /\ new.op = c.op /\ new.user = u /\ new.area = c.area
      /\ new.position = c.position /\ new.touched = c.touched /\ new.seen = c.seen
      /\ new.stage = "stored"
  <2>1. new \in Call
    BY <1>2, <1>4 DEF Call
  <2>2. new.n = c.n /\ new.op = c.op /\ new.user = u /\ new.area = c.area
    BY <1>2, <1>4 DEF Call
  <2>3. new.position = c.position /\ new.touched = c.touched /\ new.seen = c.seen
    BY <1>2, <1>4 DEF Call
  <2>4. new.stage = stage
    BY <1>2, <1>4 DEF Call
  <2>5. QED
    BY <1>1, <2>1, <2>2, <2>3, <2>4
<1>6. CallOK(new)'
  BY <1>4, <1>5 DEF CallOK, Unserved, MemberOps
<1>7. \A d \in calls' : (d \in calls /\ d # c /\ d.n # c.n) \/ d = new
  BY <1>3 DEF CallsOK
<1>8. \A d \in calls' : CallOK(d)'
  BY <1>6, <1>7 DEF CallsOK, CallOK
<1>9. CallsOK'
  BY <1>5, <1>7, <1>8 DEF CallsOK
<1>10. Waiting' \subseteq Waiting
  BY <1>5, <1>7 DEF Waiting, Unserved
<1>11. Moved(new, c)
  BY <1>5 DEF Moved
<1>12. QED
  BY <1>3, <1>7, <1>9, <1>10, <1>11
-----------------------------------------------------------------------------
(* The memberships. *)

RowsOK ==
  /\ state \in [Users -> {"none", "kept", "discarded"}]
  /\ primary \in [Users -> Areas \cup {Nil}]
  /\ members \in [Areas -> Members] /\ ids \in 1 .. MaxIds
  /\ \A a \in Areas, u \in Users : members[a][u] # Nil => members[a][u].id <= ids
  /\ \A a, b \in Areas, u, v \in Users :
       members[a][u] # Nil /\ members[b][v] # Nil /\ members[a][u].id = members[b][v].id
         => a = b /\ u = v

\* A row that is there was there, or has an id that is new.
Older ==
  /\ ids <= ids' /\ ids' \in 1 .. MaxIds
  /\ \A a \in Areas, u \in Users : members'[a][u] # Nil =>
       \/ members[a][u] # Nil /\ members'[a][u].id = members[a][u].id
       \/ members'[a][u].id > ids

\* Nothing changes but the position of u in a.
Elsewhere(u, a) == \A b \in Areas, v \in Users : (b = a /\ v = u) \/ members'[b][v] = members[b][v]

LEMMA RowsTyped ==
  ASSUME RowsOK, NEW a \in Areas, NEW u \in Users
  PROVE  /\ members[a] \in Members /\ members[a][u] \in Row \cup {Nil}
         /\ members[a][u] # Nil =>
              members[a][u].id \in 1 .. MaxIds /\ members[a][u].position \in Positions
BY DEF RowsOK, Members, Row

LEMMA OneRow ==
  ASSUME RowsOK, NEW a \in Areas, NEW u \in Users, NEW r \in Row \cup {Nil},
         members' = [members EXCEPT ![a][u] = r]
  PROVE  /\ members' \in [Areas -> Members] /\ members'[a][u] = r /\ Elsewhere(u, a)
<1>1. members \in [Areas -> [Users -> Row \cup {Nil}]]
  BY DEF RowsOK, Members
<1>2. QED
  BY <1>1 DEF Members, Elsewhere

LEMMA RowsStep ==
  ASSUME RowsOK, NEW a \in Areas, NEW u \in Users, NEW r \in Row \cup {Nil},
         members' = [members EXCEPT ![a][u] = r], ids <= ids', ids' \in 1 .. MaxIds,
         r # Nil => \/ members[a][u] # Nil /\ r.id = members[a][u].id
                    \/ r.id = ids + 1 /\ ids' = ids + 1,
         state' \in [Users -> {"none", "kept", "discarded"}],
         primary' \in [Users -> Areas \cup {Nil}]
  PROVE  RowsOK' /\ Older /\ Elsewhere(u, a)
<1>1. members' \in [Areas -> Members] /\ members'[a][u] = r /\ Elsewhere(u, a)
  BY OneRow
<1>2. ids \in 1 .. MaxIds /\ MaxIds \in Nat
  BY BoundsAssumption DEF RowsOK, MaxIds
<1>3. \A b \in Areas, v \in Users : members[b][v] # Nil =>
        members[b][v].id \in 1 .. MaxIds /\ members[b][v].id <= ids
  BY RowsTyped DEF RowsOK
<1>4. Older
  <2>1. ASSUME NEW b \in Areas, NEW v \in Users, members'[b][v] # Nil
        PROVE  \/ members[b][v] # Nil /\ members'[b][v].id = members[b][v].id
               \/ members'[b][v].id > ids
    BY <1>1, <1>2, <2>1 DEF Elsewhere
  <2>2. QED
    BY <2>1 DEF Older
<1>5. ASSUME NEW b \in Areas, NEW v \in Users, members'[b][v] # Nil
      PROVE  members'[b][v].id <= ids' /\ (members'[b][v].id > ids => b = a /\ v = u)
  <2>1. CASE b = a /\ v = u
    BY <1>1, <1>2, <1>3, <1>5, <2>1
  <2>2. CASE ~(b = a /\ v = u)
    BY <1>1, <1>2, <1>3, <1>5, <2>2 DEF Elsewhere
  <2>3. QED
    BY <2>1, <2>2
<1>6. ASSUME NEW b \in Areas, NEW c \in Areas, NEW v \in Users, NEW w \in Users,
             members'[b][v] # Nil, members'[c][w] # Nil, members'[b][v].id = members'[c][w].id
      PROVE  b = c /\ v = w
  <2>1. CASE members'[b][v].id > ids
    BY <1>5, <1>6, <2>1
  <2>2. CASE ~(members'[b][v].id > ids)
    BY <1>4, <1>6, <2>2 DEF Older, RowsOK
  <2>3. QED
    BY <2>1, <2>2
<1>7. QED
  BY <1>1, <1>4, <1>5, <1>6 DEF RowsOK

LEMMA AssignRows ==
  ASSUME RowsOK, NEW a \in Areas, NEW u \in Users, NEW p \in Positions, Assign(u, a, p),
         ids + 1 <= MaxIds,
         state' \in [Users -> {"none", "kept", "discarded"}],
         primary' \in [Users -> Areas \cup {Nil}]
  PROVE  RowsOK' /\ Older /\ Elsewhere(u, a) /\ ids' \in {ids, ids + 1}
<1>1. ids \in 1 .. MaxIds /\ MaxIds \in Nat
  BY BoundsAssumption DEF RowsOK, MaxIds
<1>2. PICK r : r = [id |-> IF members[a][u] = Nil THEN ids + 1 ELSE members[a][u].id, position |-> p]
  OBVIOUS
<1>3. r \in Row
  BY <1>1, <1>2, RowsTyped DEF Row
<1>4. members \in [Areas -> [Users -> Row \cup {Nil}]]
  BY DEF RowsOK, Members
<1>5. members' = [members EXCEPT ![a][u] = r]
  BY <1>2, <1>4 DEF Assign
<1>6. ids' = IF members[a][u] = Nil THEN ids + 1 ELSE ids
  BY DEF Assign
<1>7. ids <= ids' /\ ids' \in 1 .. MaxIds /\ ids' \in {ids, ids + 1}
  BY <1>1, <1>6
<1>8. \/ members[a][u] # Nil /\ r.id = members[a][u].id
      \/ r.id = ids + 1 /\ ids' = ids + 1
  BY <1>2, <1>6
<1>9. QED
  BY <1>3, <1>5, <1>7, <1>8, RowsStep
-----------------------------------------------------------------------------
(* Types. *)

ScreenOK ==
  /\ page \in {"membresias", "usuarios", "form"} /\ area \in Areas \cup {Nil}
  /\ newUser \in Users \cup {Nil} /\ editing \in Users \cup {Nil}
  /\ newUser # Nil => area # Nil

CacheOK ==
  /\ cache = [k \in Keys |-> cache[k]]
  /\ \A k \in Keys : cache[k] \in Query(DataOf(k))

CountsOK == made \in 0 .. MaxCalls /\ others \in 0 .. MaxOthers /\ blind \subseteq Keys

\* Each call that is waiting, and each event that has not come, has an id to take.
IdsOK == ids + Cardinality(Waiting) <= 1 + made + others

MembersInv == RowsOK /\ ScreenOK /\ CacheOK /\ CallsOK /\ CountsOK /\ IdsOK

LEMMA KeysDiffer ==
  /\ \A a \in Areas : a \in Keys /\ DataOf(a) = Members
  /\ \A u \in Users : u \in Keys /\ DataOf(u) = Profile
  /\ Everyone \in Keys /\ DataOf(Everyone) = SUBSET Users
BY MembersAssumption DEF Keys, DataOf

LEMMA WaitingFinite ==
  ASSUME made \in Nat PROVE IsFiniteSet(Waiting) /\ Cardinality(Waiting) \in Nat
<1>1. IsFiniteSet(1 .. made)
  BY FS_Interval
<1>2. Waiting \subseteq 1 .. made
  BY DEF Waiting
<1>3. QED
  BY <1>1, <1>2, FS_Subset, FS_CardinalityType

LEMMA FewerIds ==
  ASSUME MembersInv, Waiting' \subseteq Waiting, ids' = ids, made' = made,
         others' \in Nat, others <= others'
  PROVE  IdsOK'
<1>1. made \in Nat /\ others \in Nat /\ ids \in Nat /\ ids + Cardinality(Waiting) <= 1 + made + others
  BY BoundsAssumption DEF MembersInv, CountsOK, RowsOK, IdsOK, MaxIds
<1>2. IsFiniteSet(Waiting) /\ Cardinality(Waiting) \in Nat
  BY <1>1, WaitingFinite
<1>3. Cardinality(Waiting') <= Cardinality(Waiting) /\ Cardinality(Waiting') \in Nat
  BY <1>2, FS_Subset, FS_CardinalityType
<1>4. QED
  BY <1>1, <1>2, <1>3 DEF IdsOK

LEMMA OneQuery ==
  ASSUME CacheOK, NEW k \in Keys, NEW q \in Query(DataOf(k)), cache' = [cache EXCEPT ![k] = q]
  PROVE  /\ CacheOK' /\ cache'[k] = q
         /\ \A j \in Keys : j # k => cache'[j] = cache[j]
<1>1. DOMAIN cache = Keys
  BY DEF CacheOK
<1>2. cache' = [j \in Keys |-> cache'[j]] /\ cache'[k] = q
      /\ \A j \in Keys : j # k => cache'[j] = cache[j]
  BY <1>1
<1>3. \A j \in Keys : cache'[j] \in Query(DataOf(j))
  BY <1>2 DEF CacheOK
<1>4. QED
  BY <1>2, <1>3 DEF CacheOK, Keys, DataOf

\* What the administrator does without sending anything: at most queries are asked.
Looking ==
  /\ UNCHANGED tables /\ blind' = blind /\ made' = made
  /\ Fewer /\ \A c \in calls : \E d \in calls' : Alike(d, c)
  /\ \A k \in Keys : cache'[k] = cache[k] \/ \E b \in BOOLEAN : cache'[k] = Mounted(cache[k], b)
  /\ \A u \in Users : cache'[u] = cache[u] \/ u \in {editing} \cup ListedUsers
  /\ editing' \in {editing, Nil} \cup ListedUsers

LEMMA MountTyped ==
  ASSUME MembersInv, NEW k \in Keys, NEW b \in BOOLEAN,
         cache' = [cache EXCEPT ![k] = Mounted(@, b)]
  PROVE  /\ CacheOK' /\ cache'[k] = Mounted(cache[k], b)
         /\ \A j \in Keys : j # k => cache'[j] = cache[j]
<1>1. CacheOK /\ DOMAIN cache = Keys
  BY DEF MembersInv, CacheOK
<1>2. PICK q : q = Mounted(cache[k], b)
  OBVIOUS
<1>3. q \in Query(DataOf(k))
  BY <1>1, <1>2, Fetching DEF CacheOK
<1>4. cache' = [cache EXCEPT ![k] = q]
  BY <1>1, <1>2
<1>5. QED
  BY <1>1, <1>2, <1>3, <1>4, OneQuery

LEMMA LookTyped ==
  ASSUME MembersInv, UNCHANGED tables, UNCHANGED <<made, blind>>,
         ScreenOK', CacheOK', CallsOK', Fewer, others' \in 0 .. MaxOthers, others <= others'
  PROVE  MembersInv'
<1>1. RowsOK' /\ CountsOK'
  BY DEF MembersInv, RowsOK, CountsOK, tables, Members, Row, MaxIds
<1>2. others' \in Nat
  BY BoundsAssumption
<1>3. IdsOK'
  BY <1>2, FewerWaiting, FewerIds DEF tables
<1>4. QED
  BY <1>1, <1>3 DEF MembersInv

LEMMA LookStep ==
  ASSUME MembersInv,
         \/ \E p \in {"membresias", "usuarios"} : GoTo(p)
         \/ \E a \in Areas : SelectArea(a)
         \/ \E u \in Users : PickUser(u) \/ OpenForm(u)
         \/ ClearUser \/ OpenNew
         \/ \E k \in Keys : Focus(k)
  PROVE  MembersInv' /\ Looking
<1>0. /\ ScreenOK /\ CacheOK /\ CallsOK /\ area \in Areas \cup {Nil}
      /\ others \in 0 .. MaxOthers /\ MaxOthers \in Nat /\ others <= others
  BY BoundsAssumption DEF MembersInv, ScreenOK, CountsOK
<1>1. cache' = cache => CacheOK'
  BY <1>0 DEF CacheOK
<1>2. calls' = calls /\ made' = made =>
        CallsOK' /\ Fewer /\ \A c \in calls : \E d \in calls' : Alike(d, c)
  <2>1. \A c : Alike(c, c)
    BY DEF Alike
  <2>2. QED
    BY <1>0, <2>1, FewerCalls
<1>3. calls' = {Detach(c) : c \in calls} /\ made' = made =>
        CallsOK' /\ Fewer /\ \A c \in calls : \E d \in calls' : Alike(d, c)
  BY <1>0, DetachedCalls
<1>4. \A a \in Areas \cup Users \cup {Everyone} : a \in Keys
  BY KeysDiffer
<1>5. ASSUME NEW p \in {"membresias", "usuarios"}, GoTo(p) PROVE MembersInv' /\ Looking
  <2>1. /\ UNCHANGED tables /\ UNCHANGED <<made, others, blind>> /\ ScreenOK' /\ editing' = Nil
        /\ calls' = {Detach(c) : c \in calls}
    BY <1>0, <1>5 DEF GoTo, ScreenOK
  <2>2. /\ CacheOK'
        /\ \A k \in Keys : cache'[k] = cache[k] \/ \E b \in BOOLEAN : cache'[k] = Mounted(cache[k], b)
        /\ \A u \in Users : cache'[u] = cache[u]
    <3>1. CASE p = "usuarios"
      <4>1. cache' = [cache EXCEPT ![Everyone] = Mounted(@, FALSE)]
        BY <1>5, <3>1 DEF GoTo, Mount
      <4>2. QED
        BY <1>4, <4>1, MountTyped, MembersAssumption
    <3>2. CASE p # "usuarios"
      BY <1>1, <1>4, <1>5, <3>2 DEF GoTo
    <3>3. QED
      BY <3>1, <3>2
  <2>3. MembersInv'
    BY <1>0, <1>3, <2>1, <2>2, LookTyped
  <2>4. QED
    BY <1>3, <2>1, <2>2, <2>3 DEF Looking
<1>6. ASSUME NEW a \in Areas, SelectArea(a) PROVE MembersInv' /\ Looking
  <2>1. /\ UNCHANGED tables /\ UNCHANGED <<made, others, blind, calls, editing>> /\ ScreenOK'
        /\ cache' = [cache EXCEPT ![a] = Mounted(@, FALSE)]
    BY <1>0, <1>6, MembersAssumption DEF SelectArea, ScreenOK, Mount
  <2>2. /\ CacheOK'
        /\ \A k \in Keys : cache'[k] = cache[k] \/ \E b \in BOOLEAN : cache'[k] = Mounted(cache[k], b)
        /\ \A u \in Users : cache'[u] = cache[u]
    <3>1. /\ CacheOK' /\ cache'[a] = Mounted(cache[a], FALSE)
          /\ \A j \in Keys : j # a => cache'[j] = cache[j]
      BY <1>4, <2>1, MountTyped
    <3>2. \A j \in Users : j \in Keys /\ j # a
      BY <1>4, MembersAssumption
    <3>3. QED
      BY <3>1, <3>2
  <2>3. MembersInv'
    BY <1>0, <1>2, <2>1, <2>2, LookTyped
  <2>4. QED
    BY <1>2, <2>1, <2>2, <2>3 DEF Looking
<1>7. ASSUME NEW u \in Users, PickUser(u) \/ ClearUser PROVE MembersInv' /\ Looking
  <2>1. /\ UNCHANGED tables /\ UNCHANGED <<made, others, blind, calls, cache, editing>> /\ ScreenOK'
    BY <1>0, <1>7 DEF PickUser, ClearUser, ScreenOK
  <2>2. MembersInv'
    BY <1>0, <1>1, <1>2, <2>1, LookTyped
  <2>3. QED
    BY <1>2, <2>1, <2>2 DEF Looking
<1>8. ASSUME NEW u \in Users, OpenForm(u) PROVE MembersInv' /\ Looking
  <2>1. /\ UNCHANGED tables /\ UNCHANGED <<made, others, blind>> /\ ScreenOK'
        /\ editing' = u /\ u \in ListedUsers
        /\ calls' = {Detach(c) : c \in calls}
        /\ cache' = [cache EXCEPT ![u] = Mounted(@, FALSE)]
    BY <1>0, <1>8 DEF OpenForm, ScreenOK, Mount
  <2>2. /\ CacheOK'
        /\ \A k \in Keys : cache'[k] = cache[k] \/ \E b \in BOOLEAN : cache'[k] = Mounted(cache[k], b)
        /\ \A v \in Users : cache'[v] = cache[v] \/ v = u
    <3>1. /\ CacheOK' /\ cache'[u] = Mounted(cache[u], FALSE)
          /\ \A j \in Keys : j # u => cache'[j] = cache[j]
      BY <1>4, <2>1, MountTyped
    <3>2. \A j \in Users : j \in Keys
      BY <1>4
    <3>3. QED
      BY <3>1, <3>2
  <2>3. MembersInv'
    BY <1>0, <1>3, <2>1, <2>2, LookTyped
  <2>4. QED
    BY <1>3, <2>1, <2>2, <2>3 DEF Looking
<1>9. ASSUME OpenNew PROVE MembersInv' /\ Looking
  <2>1. /\ UNCHANGED tables /\ UNCHANGED <<made, others, blind, cache, editing>> /\ ScreenOK'
        /\ calls' = {Detach(c) : c \in calls}
    BY <1>0, <1>9 DEF OpenNew, ScreenOK
  <2>2. MembersInv'
    BY <1>0, <1>1, <1>3, <2>1, LookTyped
  <2>3. QED
    BY <1>3, <2>1, <2>2 DEF Looking
<1>10. ASSUME NEW k \in Keys, Focus(k) PROVE MembersInv' /\ Looking
  <2>1. /\ UNCHANGED tables /\ UNCHANGED <<made, blind, calls, editing>> /\ ScreenOK'
        /\ cache' = [cache EXCEPT ![k] = Mounted(@, TRUE)]
        /\ others < MaxOthers /\ others' = others + 1
    BY <1>0, <1>10 DEF Focus, ScreenOK, screen, Happen
  <2>2. /\ CacheOK'
        /\ \A j \in Keys : cache'[j] = cache[j] \/ \E b \in BOOLEAN : cache'[j] = Mounted(cache[j], b)
        /\ \A u \in Users : cache'[u] = cache[u] \/ u = k
    BY <1>4, <2>1, MountTyped
  <2>3. others' \in 0 .. MaxOthers /\ others <= others'
    BY <1>0, <2>1
  <2>4. MembersInv'
    BY <1>0, <1>2, <2>1, <2>2, <2>3, LookTyped
  <2>5. k \in Users => k = editing
    BY <1>0, <1>10, MembersAssumption DEF Focus, Watched
  <2>6. QED
    BY <1>2, <2>1, <2>2, <2>4, <2>5 DEF Looking
<1>11. CASE ClearUser
  BY <1>7, <1>11, MembersAssumption
<1>12. QED
  BY <1>5, <1>6, <1>7, <1>8, <1>9, <1>10, <1>11
\* A new call: a membership is named by the id that is shown, and a form that is
\* untouched sends what it was filled with.
AsShown(d) ==
  /\ d.op \in {"update", "remove"} =>
       /\ cache[d.area].data # Nil /\ cache[d.area].data[d.user] # Nil
       /\ d.id = cache[d.area].data[d.user].id
  /\ d.op = "save" /\ ~d.touched =>
       d.seen \in Profile /\ d.area = Filled(d.seen)[1] /\ d.position = Filled(d.seen)[2]

Sending ==
  /\ UNCHANGED <<tables, screen, cache, blind>>
  /\ \A d \in calls' : (\E c \in calls : Alike(d, c)) \/ (d.stage = "sent" /\ AsShown(d))
  /\ \A c \in calls : \E d \in calls' : Alike(d, c)

LEMMA SendStep ==
  ASSUME MembersInv, NEW op \in Ops, NEW u \in Users \cup {Nil}, NEW id \in 0 .. MaxIds,
         NEW a \in Areas \cup {Nil}, NEW p \in Positions \cup {Nil}, NEW t \in BOOLEAN,
         Send(op, u, id, a, p, t),
         op \in MemberOps => a \in Areas /\ u \in Users,
         op \in {"save", "deactivate"} => u \in Users,
         op \in {"add", "update", "save", "create"} => p \in Positions,
         op \in {"update", "remove"} =>
           cache[a].data # Nil /\ cache[a].data[u] # Nil /\ id = cache[a].data[u].id,
         ~t => /\ op = "save" /\ cache[u].data # Nil
               /\ a = Filled(cache[u].data)[1] /\ p = Filled(cache[u].data)[2]
  PROVE  MembersInv' /\ Sending
<1>0. /\ RowsOK /\ ScreenOK /\ CacheOK /\ CallsOK /\ CountsOK /\ IdsOK
      /\ MaxCalls \in Nat /\ MaxOthers \in Nat /\ MaxIds \in Nat
  BY BoundsAssumption DEF MembersInv, MaxIds
<1>1. UNCHANGED <<tables, screen, cache, others, blind>>
  BY DEF Send
<1>2. ~t => cache[u].data \in Profile
  <2>1. SUFFICES ASSUME ~t PROVE cache[u].data \in Profile
    OBVIOUS
  <2>2. u \in Users
    BY <2>1
  <2>3. cache[u] \in Query(Profile)
    BY <1>0, <2>2, KeysDiffer DEF CacheOK
  <2>4. QED
    BY <2>1, <2>3 DEF Query
<1>3. /\ CallsOK' /\ made' = made + 1 /\ made' \in 0 .. MaxCalls
      /\ Waiting' \subseteq Waiting \cup {made'}
      /\ Sent(op, u, id, a, p, t)
  <2>1. area \in Areas \cup {Nil} /\ made \in 0 .. MaxCalls
    BY <1>0 DEF ScreenOK, CountsOK
  <2>2. Sendable(op, u, id, a, p, t)
    BY <1>2 DEF Sendable
  <2>3. QED
    BY <1>0, <2>1, <2>2, SentCall
<1>4. RowsOK' /\ ScreenOK' /\ CacheOK' /\ CountsOK'
  BY <1>0, <1>1, <1>3 DEF RowsOK, ScreenOK, CacheOK, CountsOK, tables, screen
<1>5. IdsOK'
  <2>1. ids \in Nat /\ made \in Nat /\ others \in Nat /\ ids' = ids /\ others' = others
        /\ ids + Cardinality(Waiting) <= 1 + made + others
    BY <1>0, <1>1 DEF RowsOK, CountsOK, IdsOK, tables
  <2>2. IsFiniteSet(Waiting) /\ Cardinality(Waiting) \in Nat
    BY <2>1, WaitingFinite
  <2>3. PICK n, S : n = made' /\ S = Waiting \cup {n}
    OBVIOUS
  <2>4. IsFiniteSet(S) /\ Cardinality(S) \in Nat /\ Cardinality(S) <= Cardinality(Waiting) + 1
    <3>1. /\ IsFiniteSet(S)
          /\ Cardinality(S) = IF n \in Waiting THEN Cardinality(Waiting)
                              ELSE Cardinality(Waiting) + 1
      BY <2>2, <2>3, FS_AddElement
    <3>2. QED
      BY <2>2, <3>1
  <2>5. Cardinality(Waiting') \in Nat /\ Cardinality(Waiting') <= Cardinality(S)
    BY <1>3, <2>3, <2>4, FS_Subset, FS_CardinalityType
  <2>6. QED
    BY <1>3, <2>1, <2>2, <2>4, <2>5 DEF IdsOK
<1>6. MembersInv'
  BY <1>3, <1>4, <1>5 DEF MembersInv
<1>7. ASSUME NEW d \in calls' PROVE (\E c \in calls : Alike(d, c)) \/ (d.stage = "sent" /\ AsShown(d))
  <2>1. CASE \E c \in calls : Alike(d, c)
    BY <2>1
  <2>2. CASE /\ d.op = op /\ d.user = u /\ d.id = id /\ d.area = a /\ d.position = p
             /\ d.touched = t /\ d.stage = "sent" /\ (~t => d.seen = cache[u].data)
    BY <1>2, <2>2 DEF AsShown
  <2>3. QED
    BY <1>3, <2>1, <2>2 DEF Sent
<1>8. \A c \in calls : \E d \in calls' : Alike(d, c)
  BY <1>3 DEF Sent
<1>9. QED
  BY <1>1, <1>8, <1>6, <1>7 DEF Sending

LEMMA AskStep ==
  ASSUME MembersInv,
         \/ \E p \in Positions : ConfirmAdd(p)
         \/ \E u \in Users : ChangeMember(u) \/ Deactivate(u)
         \/ \E a \in Areas \cup {Nil}, p \in Positions :
              SaveNew(a, p) \/ \E touched \in BOOLEAN : SaveForm(a, p, touched)
  PROVE  MembersInv' /\ Sending
<1>0. /\ area \in Areas \cup {Nil} /\ newUser \in Users \cup {Nil} /\ editing \in Users \cup {Nil}
      /\ 0 \in 0 .. MaxIds
  BY BoundsAssumption DEF MembersInv, ScreenOK, MaxIds
<1>1. ASSUME NEW p \in Positions, ConfirmAdd(p) PROVE MembersInv' /\ Sending
  <2>1. newUser \in Users /\ Send("add", newUser, 0, area, p, TRUE)
    BY <1>0, <1>1 DEF ConfirmAdd
  <2>2. area \in Areas
    BY <1>0, <1>1 DEF ConfirmAdd, MembersInv, ScreenOK
  <2>3. QED
    BY <1>0, <2>1, <2>2, SendStep DEF Ops, MemberOps
<1>2. ASSUME NEW u \in Users, ChangeMember(u) PROVE MembersInv' /\ Sending
  <2>1. area \in Areas /\ cache[area].data # Nil /\ cache[area].data[u] # Nil
    BY <1>0, <1>2 DEF ChangeMember
  <2>2. cache[area].data \in Members
    BY <2>1, KeysDiffer DEF MembersInv, CacheOK, Query
  <2>3. PICK id : id = cache[area].data[u].id
    OBVIOUS
  <2>4. id \in 0 .. MaxIds
    BY <2>1, <2>2, <2>3 DEF Members, Row
  <2>5. \/ Send("remove", u, id, area, Nil, TRUE)
        \/ \E p \in Positions : Send("update", u, id, area, p, TRUE)
    BY <1>2, <2>3 DEF ChangeMember
  <2>6. CASE Send("remove", u, id, area, Nil, TRUE)
    BY <2>1, <2>3, <2>4, <2>6, SendStep DEF Ops, MemberOps
  <2>7. ASSUME NEW p \in Positions, Send("update", u, id, area, p, TRUE) PROVE MembersInv' /\ Sending
    BY <2>1, <2>3, <2>4, <2>7, SendStep DEF Ops, MemberOps
  <2>8. QED
    BY <2>5, <2>6, <2>7
<1>3. ASSUME NEW u \in Users, Deactivate(u) PROVE MembersInv' /\ Sending
  <2>1. Send("deactivate", u, 0, Nil, Nil, TRUE)
    BY <1>3 DEF Deactivate
  <2>2. QED
    BY <1>0, <2>1, SendStep DEF Ops, MemberOps
<1>4. ASSUME NEW a \in Areas \cup {Nil}, NEW p \in Positions, SaveNew(a, p) PROVE MembersInv' /\ Sending
  <2>1. Send("create", Nil, 0, a, p, TRUE)
    BY <1>4 DEF SaveNew
  <2>2. QED
    BY <1>0, <2>1, SendStep DEF Ops, MemberOps
<1>5. ASSUME NEW a \in Areas \cup {Nil}, NEW p \in Positions, NEW t \in BOOLEAN, SaveForm(a, p, t)
      PROVE  MembersInv' /\ Sending
  <2>1. /\ editing \in Users /\ cache[editing].data # Nil
        /\ t <=> <<a, p>> # Filled(cache[editing].data)
        /\ Send("save", editing, 0, a, p, t)
    BY <1>0, <1>5 DEF SaveForm
  <2>2. ~t => a = Filled(cache[editing].data)[1] /\ p = Filled(cache[editing].data)[2]
    BY <2>1 DEF Filled
  <2>3. QED
    BY <1>0, <2>1, <2>2, SendStep DEF Ops, MemberOps
<1>6. QED
  BY <1>1, <1>2, <1>3, <1>4, <1>5
-----------------------------------------------------------------------------
(* The server. *)

LEMMA IdsLeft ==
  ASSUME MembersInv, NEW c \in calls, c.stage \in Unserved
  PROVE  ids + 1 <= MaxIds
<1>1. /\ made \in 0 .. MaxCalls /\ others \in 0 .. MaxOthers /\ ids \in Nat
      /\ MaxCalls \in Nat /\ MaxOthers \in Nat
      /\ ids + Cardinality(Waiting) <= 1 + made + others
  BY BoundsAssumption DEF MembersInv, CountsOK, RowsOK, IdsOK, MaxIds
<1>2. IsFiniteSet(Waiting) /\ Cardinality(Waiting) \in Nat
  BY <1>1, WaitingFinite
<1>3. c.n \in Waiting
  BY DEF MembersInv, CallsOK, CallOK, Call, Waiting
<1>4. Cardinality(Waiting) # 0
  BY <1>2, <1>3, FS_EmptySet
<1>5. QED
  BY <1>1, <1>2, <1>4 DEF MaxIds

LEMMA ServedIds ==
  ASSUME MembersInv, NEW c \in calls, c.stage \in Unserved, Waiting' \subseteq Waiting \ {c.n},
         ids' \in {ids, ids + 1}, made' = made, others' = others
  PROVE  IdsOK'
<1>1. /\ made \in Nat /\ others \in Nat /\ ids \in Nat
      /\ ids + Cardinality(Waiting) <= 1 + made + others
  BY BoundsAssumption DEF MembersInv, CountsOK, RowsOK, IdsOK, MaxIds
<1>2. IsFiniteSet(Waiting) /\ Cardinality(Waiting) \in Nat
  BY <1>1, WaitingFinite
<1>3. c.n \in Waiting
  BY DEF MembersInv, CallsOK, CallOK, Call, Waiting
<1>4. IsFiniteSet(Waiting \ {c.n}) /\ Cardinality(Waiting \ {c.n}) = Cardinality(Waiting) - 1
  BY <1>2, <1>3, FS_RemoveElement
<1>5. Cardinality(Waiting') \in Nat /\ Cardinality(Waiting') <= Cardinality(Waiting \ {c.n})
  BY <1>4, FS_Subset, FS_CardinalityType
<1>6. QED
  BY <1>1, <1>2, <1>4, <1>5 DEF IdsOK

LEMMA WriteTyped ==
  ASSUME MembersInv, NEW c \in calls, c.stage \in Unserved, Written(c), RowsOK',
         ids' \in {ids, ids + 1}
  PROVE  MembersInv'
<1>1. UNCHANGED <<screen, cache, made, others>> /\ Replace(c, "ok")
      /\ blind' = blind \cup (Unseen(c) \cap Loaded)
  BY DEF Written
<1>2. CallsOK' /\ Waiting' \subseteq Waiting \ {c.n}
  BY <1>1, ReplacedCall DEF MembersInv
<1>3. IdsOK'
  BY <1>1, <1>2, ServedIds
<1>4. ScreenOK' /\ CacheOK' /\ CountsOK'
  BY <1>1 DEF MembersInv, ScreenOK, CacheOK, CountsOK, screen, Loaded
<1>5. QED
  BY <1>2, <1>3, <1>4 DEF MembersInv

\* Nothing changes but what is about u, and its position in a.
Touches(u, a) == Elsewhere(u, a) /\ \A v \in Users : v # u => primary'[v] = primary[v]

\* What a call that is served does.
Serving(c) ==
  /\ Written(c) /\ c.stage \in Unserved
  /\ \A u \in Users : state[u] # "none" => state'[u] # "none"
  /\ Everyone \in Changed(c) \/ state' = state
  /\ \/ UNCHANGED <<primary, members>>
     \/ \E u \in Users :
          /\ Touches(u, c.area)
          /\ \/ u = c.user /\ c.op \in {"add", "save", "create"}
             \/ c.op \in {"update", "remove"} /\ c.stage = "sent" /\ u \in Owner(c)

\* What the first commit of the form does.
Storing(c) ==
  /\ c.op \in {"save", "create"} /\ UNCHANGED <<members, screen, cache, blind>>
  /\ \E d \in calls' : /\ Moved(d, c) /\ \A e \in calls' : e = d \/ e \in calls
                      /\ \A e \in calls : e # c => e \in calls'
  /\ \A u \in Users : state[u] # "none" => state'[u] # "none"
  /\ \E u \in Users : /\ Touches(u, c.area)
                     /\ \/ u = c.user /\ c.op = "save"
                        \/ c.op = "create" /\ state[u] = "none"

LEMMA StoreStep ==
  ASSUME MembersInv, NEW c \in calls, NEW u \in Users, c.stage = "sent",
         (c.op = "save" /\ u = c.user) \/ (c.op = "create" /\ state[u] = "none"),
         StoreUser(c, u), UNCHANGED <<members, ids>>,
         state' \in [Users -> {"none", "kept", "discarded"}],
         \A v \in Users : state[v] # "none" => state'[v] # "none"
  PROVE  MembersInv' /\ Older /\ (Serving(c) \/ Storing(c))
<1>0. /\ RowsOK /\ CallsOK /\ c.area \in Areas \cup {Nil} /\ c.stage \in Unserved
      /\ MaxIds \in Nat /\ ids \in 1 .. MaxIds
  BY BoundsAssumption DEF MembersInv, CallsOK, CallOK, Call, RowsOK, Unserved, MaxIds
<1>1. Older
  BY <1>0 DEF Older
<1>2. primary' \in [Users -> Areas \cup {Nil}] => RowsOK'
  BY <1>0 DEF RowsOK, Members, Row, MaxIds
<1>3. CASE c.area = Nil
  <2>1. Written(c) /\ UNCHANGED primary
    BY <1>3 DEF StoreUser
  <2>2. RowsOK'
    BY <1>0, <1>2, <2>1 DEF RowsOK
  <2>3. MembersInv'
    BY <1>0, <2>1, <2>2, WriteTyped
  <2>4. Everyone \in Changed(c)
    BY DEF Changed, MemberOps
  <2>5. QED
    BY <1>0, <1>1, <2>1, <2>3, <2>4 DEF Serving
<1>4. CASE c.area # Nil
  <2>1. /\ c.area \in Areas /\ primary' = [primary EXCEPT ![u] = c.area]
        /\ calls' = (calls \ {c}) \cup {[c EXCEPT !.stage = "stored", !.user = u]}
        /\ UNCHANGED <<screen, cache, made, others, blind>>
    BY <1>0, <1>4 DEF StoreUser
  <2>2. primary' \in [Users -> Areas \cup {Nil}] /\ \A v \in Users : v # u => primary'[v] = primary[v]
    BY <1>0, <2>1 DEF RowsOK
  <2>3. Touches(u, c.area)
    BY <2>2 DEF Touches, Elsewhere
  <2>4. /\ CallsOK' /\ Waiting' \subseteq Waiting
        /\ \E d \in calls' : /\ Moved(d, c) /\ \A e \in calls' : e = d \/ e \in calls
                            /\ \A e \in calls : e # c => e \in calls'
    BY <1>0, <2>1, StoredCall
  <2>5. IdsOK'
    <3>1. others' \in Nat /\ others <= others'
      BY <2>1, BoundsAssumption DEF MembersInv, CountsOK
    <3>2. QED
      BY <2>1, <2>4, <3>1, FewerIds
  <2>6. ScreenOK' /\ CacheOK' /\ CountsOK'
    BY <2>1 DEF MembersInv, ScreenOK, CacheOK, CountsOK, screen
  <2>7. MembersInv'
    BY <1>2, <2>2, <2>4, <2>5, <2>6 DEF MembersInv
  <2>8. Storing(c)
    BY <2>1, <2>3, <2>4 DEF Storing
  <2>9. QED
    BY <1>1, <2>7, <2>8
<1>5. QED
  BY <1>3, <1>4

LEMMA ServeStep ==
  ASSUME MembersInv, NEW c \in calls,
         \/ AddMember(c) \/ UpdateMember(c) \/ RemoveMember(c) \/ AssignAreaMembership(c)
         \/ Discard(c)
  PROVE  MembersInv' /\ Older /\ Serving(c)
<1>0. /\ RowsOK /\ CallOK(c) /\ c.stage \in Unserved /\ Written(c) /\ ids + 1 <= MaxIds
      /\ ids \in 1 .. MaxIds /\ MaxIds \in Nat
      /\ state \in [Users -> {"none", "kept", "discarded"}] /\ primary \in [Users -> Areas \cup {Nil}]
  <2>1. c.stage \in Unserved /\ Written(c)
    BY DEF AddMember, UpdateMember, RemoveMember, AssignAreaMembership, Discard, Unserved
  <2>2. QED
    BY <2>1, IdsLeft, BoundsAssumption DEF MembersInv, CallsOK, RowsOK, MaxIds
<1>1. ASSUME RowsOK', Older, ids' \in {ids, ids + 1},
             \A u \in Users : state[u] # "none" => state'[u] # "none",
             Everyone \in Changed(c) \/ state' = state,
             \/ UNCHANGED <<primary, members>>
             \/ \E u \in Users :
                  /\ Touches(u, c.area)
                  /\ \/ u = c.user /\ c.op \in {"add", "save", "create"}
                     \/ c.op \in {"update", "remove"} /\ c.stage = "sent" /\ u \in Owner(c)
      PROVE  MembersInv' /\ Older /\ Serving(c)
  <2>1. MembersInv'
    BY <1>0, <1>1, WriteTyped
  <2>2. QED
    BY <1>0, <1>1, <2>1 DEF Serving
<1>2. ASSUME primary' = primary, NEW u \in Users, NEW a \in Areas, Elsewhere(u, a) PROVE Touches(u, a)
  BY <1>2 DEF Touches
<1>3. CASE AddMember(c)
  <2>1. c.user \in Users /\ c.area \in Areas /\ c.position \in Positions
    BY <1>0, <1>3 DEF AddMember, CallOK, MemberOps, Unserved
  <2>2. Assign(c.user, c.area, c.position) /\ state' = state /\ primary' = primary /\ c.op = "add"
    BY <1>3 DEF AddMember
  <2>3. RowsOK' /\ Older /\ Elsewhere(c.user, c.area) /\ ids' \in {ids, ids + 1}
    BY <1>0, <2>1, <2>2, AssignRows
  <2>4. QED
    BY <1>1, <1>2, <2>1, <2>2, <2>3
<1>4. CASE UpdateMember(c) \/ RemoveMember(c)
  <2>1. c.area \in Areas /\ c.op \in {"update", "remove"} /\ c.stage = "sent"
    BY <1>0, <1>4 DEF UpdateMember, RemoveMember, CallOK, MemberOps
  <2>2. state' = state /\ primary' = primary /\ ids' = ids
    BY <1>4 DEF UpdateMember, RemoveMember
  <2>3. members \in [Areas -> [Users -> Row \cup {Nil}]]
    BY <1>0 DEF RowsOK, Members
  <2>4. PICK u \in Owner(c), r \in Row \cup {Nil} :
          members' = [members EXCEPT ![c.area][u] = r] /\ (r # Nil => r.id = members[c.area][u].id)
    <3>1. CASE UpdateMember(c)
      <4>1. PICK u \in Owner(c) : members' = [members EXCEPT ![c.area][u].position = c.position]
        BY <3>1 DEF UpdateMember
      <4>2. members[c.area][u] \in Row /\ c.position \in Positions
        BY <1>0, <2>1, <3>1, <4>1, RowsTyped DEF Owner, UpdateMember, CallOK, Unserved
      <4>3. PICK r : r = [members[c.area][u] EXCEPT !.position = c.position]
        OBVIOUS
      <4>4. r \in Row /\ r.id = members[c.area][u].id
        BY <4>2, <4>3 DEF Row
      <4>5. members' = [members EXCEPT ![c.area][u] = r]
        BY <2>3, <4>1, <4>3
      <4>6. QED
        BY <4>1, <4>4, <4>5
    <3>2. CASE RemoveMember(c)
      BY <3>2 DEF RemoveMember
    <3>3. QED
      BY <1>4, <3>1, <3>2
  <2>5. u \in Users /\ members[c.area][u] # Nil
    BY DEF Owner
  <2>6. RowsOK' /\ Older /\ Elsewhere(u, c.area)
    <3>1. /\ ids <= ids' /\ ids' \in 1 .. MaxIds
          /\ state' \in [Users -> {"none", "kept", "discarded"}]
          /\ primary' \in [Users -> Areas \cup {Nil}]
      BY <1>0, <2>2
    <3>2. QED
      BY <1>0, <2>1, <2>4, <2>5, <3>1, RowsStep
  <2>7. QED
    BY <1>1, <1>2, <2>1, <2>2, <2>4, <2>5, <2>6
<1>5. CASE AssignAreaMembership(c)
  <2>1. /\ c.user \in Users /\ c.area \in Areas /\ c.position \in Positions
        /\ c.op \in {"save", "create"}
    BY <1>0, <1>5 DEF AssignAreaMembership, CallOK, Unserved
  <2>2. Assign(c.user, c.area, c.position) /\ state' = state /\ primary' = primary
    BY <1>5 DEF AssignAreaMembership
  <2>3. RowsOK' /\ Older /\ Elsewhere(c.user, c.area) /\ ids' \in {ids, ids + 1}
    BY <1>0, <2>1, <2>2, AssignRows
  <2>4. QED
    BY <1>1, <1>2, <2>1, <2>2, <2>3
<1>6. CASE Discard(c)
  <2>1. c.op = "deactivate" /\ c.user \in Users
    BY <1>0, <1>6 DEF Discard, CallOK
  <2>2. UNCHANGED <<primary, members, ids>> /\ state' = [state EXCEPT ![c.user] = "discarded"]
    BY <1>6 DEF Discard
  <2>3. state' \in [Users -> {"none", "kept", "discarded"}]
        /\ \A v \in Users : state[v] # "none" => state'[v] # "none"
    BY <1>0, <2>1, <2>2
  <2>4. RowsOK'
    BY <1>0, <2>2, <2>3 DEF RowsOK, Members, Row, MaxIds
  <2>5. Older
    BY <1>0, <2>2 DEF Older
  <2>6. Everyone \in Changed(c)
    BY <2>1 DEF Changed, MemberOps
  <2>7. QED
    BY <1>1, <2>1, <2>2, <2>3, <2>4, <2>5, <2>6
<1>7. QED
  BY <1>3, <1>4, <1>5, <1>6

\* The first commit of the form.
LEMMA FormStep ==
  ASSUME MembersInv, NEW c \in calls, UpdateUser(c) \/ \E u \in Users : CreateUser(c, u)
  PROVE  MembersInv' /\ Older /\ (Serving(c) \/ Storing(c))
<1>1. state \in [Users -> {"none", "kept", "discarded"}]
  BY DEF MembersInv, RowsOK
<1>2. CASE UpdateUser(c)
  <2>1. c.user \in Users
    BY <1>2 DEF UpdateUser, MembersInv, CallsOK, CallOK
  <2>2. QED
    BY <1>1, <1>2, <2>1, StoreStep DEF UpdateUser
<1>3. ASSUME NEW u \in Users, CreateUser(c, u)
      PROVE  MembersInv' /\ Older /\ (Serving(c) \/ Storing(c))
  <2>1. state' \in [Users -> {"none", "kept", "discarded"}]
        /\ \A v \in Users : state[v] # "none" => state'[v] # "none"
    BY <1>1, <1>3 DEF CreateUser
  <2>2. QED
    BY <1>3, <2>1, StoreStep DEF CreateUser
<1>4. QED
  BY <1>2, <1>3

LEMMA ElsewhereStep ==
  ASSUME MembersInv, NEW u \in Users, NEW a \in Areas, ChangeElsewhere(u, a)
  PROVE  MembersInv' /\ Older /\ Touches(u, a)
<1>0. /\ RowsOK /\ ScreenOK /\ CacheOK /\ CallsOK /\ CountsOK
      /\ MaxCalls \in Nat /\ MaxOthers \in Nat /\ MaxIds \in Nat /\ MaxIds = 1 + MaxCalls + MaxOthers
      /\ ids \in 1 .. MaxIds /\ made \in 0 .. MaxCalls /\ others \in 0 .. MaxOthers
  BY BoundsAssumption DEF MembersInv, RowsOK, CountsOK, MaxIds
<1>1. /\ others < MaxOthers /\ others' = others + 1
      /\ UNCHANGED <<state, primary, screen, cache, calls, made>>
      /\ blind' = blind \cup ({a, u} \cap Loaded)
  BY DEF ChangeElsewhere, Happen
<1>2. /\ IsFiniteSet(Waiting) /\ Cardinality(Waiting) \in Nat
      /\ ids + Cardinality(Waiting) <= 1 + made + others
  BY <1>0, WaitingFinite DEF MembersInv, IdsOK
<1>3. ids + 1 <= MaxIds
  BY <1>0, <1>1, <1>2
<1>4. /\ state' \in [Users -> {"none", "kept", "discarded"}] /\ primary' \in [Users -> Areas \cup {Nil}]
  BY <1>0, <1>1 DEF RowsOK
<1>5. RowsOK' /\ Older /\ Elsewhere(u, a) /\ ids' \in {ids, ids + 1}
  <2>1. CASE \E p \in Positions : Assign(u, a, p)
    BY <1>0, <1>3, <1>4, <2>1, AssignRows
  <2>2. CASE members' = [members EXCEPT ![a][u] = Nil] /\ UNCHANGED ids
    <3>1. ids <= ids' /\ ids' \in 1 .. MaxIds /\ ids' \in {ids, ids + 1}
      BY <1>0, <2>2
    <3>2. PICK r \in Row \cup {Nil} : r = Nil
      OBVIOUS
    <3>3. QED
      BY <1>0, <1>4, <2>2, <3>1, <3>2, RowsStep
  <2>3. QED
    BY <2>1, <2>2 DEF ChangeElsewhere
<1>6. Waiting' = Waiting
  BY <1>1 DEF Waiting
<1>7. IdsOK'
  BY <1>0, <1>1, <1>2, <1>5, <1>6 DEF IdsOK
<1>8. ScreenOK' /\ CacheOK' /\ CallsOK' /\ CountsOK'
  BY <1>0, <1>1 DEF ScreenOK, CacheOK, CallsOK, CallOK, CountsOK, screen, Loaded
<1>9. QED
  BY <1>1, <1>5, <1>7, <1>8 DEF MembersInv, Touches

LEMMA TruthIs ==
  /\ \A a \in Areas : Truth(a) = members[a]
  /\ \A u \in Users : Truth(u) = View(u)
  /\ Truth(Everyone) = {u \in Users : state[u] = "kept"}
<1>1. /\ \A a \in Areas : a \notin Users /\ a # Everyone
      /\ \A u \in Users : u \notin Areas /\ u # Everyone
      /\ Everyone \notin Areas /\ Everyone \notin Users
  BY MembersAssumption
<1>2. \A a \in Areas : Truth(a) = members[a]
  BY <1>1 DEF Truth
<1>3. \A u \in Users : Truth(u) = View(u)
  BY <1>1 DEF Truth
<1>4. Truth(Everyone) = {u \in Users : state[u] = "kept"}
  BY <1>1 DEF Truth
<1>5. QED
  BY <1>2, <1>3, <1>4

LEMMA AnswerStep ==
  ASSUME MembersInv, NEW k \in Keys, Answer(k)
  PROVE  /\ MembersInv' /\ Truth(k) \in DataOf(k)
         /\ cache'[k] = Answered(cache[k], Truth(k))
         /\ \A j \in Keys : j # k => cache'[j] = cache[j]
<1>1. Truth(k) \in DataOf(k)
  <2>1. \A a \in Areas : Truth(a) \in Members
    BY TruthIs DEF MembersInv, RowsOK
  <2>2. ASSUME NEW u \in Users PROVE Truth(u) \in Profile
    <3>1. primary[u] \in Areas \cup {Nil}
      BY DEF MembersInv, RowsOK
    <3>2. PICK a : a = primary[u]
      OBVIOUS
    <3>3. PICK p : p = IF a = Nil \/ members[a][u] = Nil THEN Nil ELSE members[a][u].position
      OBVIOUS
    <3>4. p \in Positions \cup {Nil}
      BY <3>1, <3>2, <3>3, RowsTyped DEF MembersInv
    <3>5. View(u) = [area |-> a, cargo |-> p]
      BY <3>2, <3>3 DEF View
    <3>6. QED
      BY <3>1, <3>2, <3>4, <3>5, TruthIs DEF Profile
  <2>3. Truth(Everyone) \in SUBSET Users
    BY TruthIs
  <2>4. QED
    BY <2>1, <2>2, <2>3, KeysDiffer DEF Keys
<1>2. CacheOK
  BY DEF MembersInv
<1>3. PICK q : q = Answered(cache[k], Truth(k))
  OBVIOUS
<1>4. q \in Query(DataOf(k))
  BY <1>1, <1>2, <1>3, Fetching DEF CacheOK
<1>5. cache' = [cache EXCEPT ![k] = q] /\ UNCHANGED <<tables, screen, calls, made, others>>
      /\ blind' = blind \ {k}
  BY <1>2, <1>3 DEF Answer, CacheOK
<1>6. CacheOK' /\ cache'[k] = q /\ \A j \in Keys : j # k => cache'[j] = cache[j]
  BY <1>2, <1>4, <1>5, OneQuery
<1>7. RowsOK' /\ ScreenOK' /\ CallsOK' /\ CountsOK' /\ IdsOK'
  BY <1>5 DEF MembersInv, RowsOK, ScreenOK, CallsOK, CallOK, CountsOK, IdsOK, Waiting, tables,
     screen, Members, Row, MaxIds
<1>8. QED
  BY <1>1, <1>3, <1>6, <1>7 DEF MembersInv
-----------------------------------------------------------------------------
(* The answers. *)

\* p shows and answers nothing that q does not.
Softer(p, q) ==
  /\ p.data = q.data /\ p.answer \in {q.answer, Nil}
  /\ p.fetch = "answered" => q.fetch = "answered" /\ p.answer = q.answer
  /\ Settled(p) => Settled(q)

\* There is neither an answer nor final data.
Silent(q) == q.fetch # "answered" /\ ~Settled(q)

LEMMA Softens ==
  ASSUME NEW D, NEW q \in Query(D), NEW b \in BOOLEAN
  PROVE  /\ Softer(q, q) /\ Softer(Mounted(q, b), q)
         /\ Softer(Invalidated(q, b), q) /\ Invalidated(q, b) \in Query(D)
         /\ ~Survives(q, b) => Silent(Invalidated(q, b))
         /\ q = NoQuery /\ ~b => Invalidated(q, b) = NoQuery
<1>1. Softer(q, q) /\ Softer(Mounted(q, b), q)
  BY DEF Query, Ask, Mounted, Softer, Settled
<1>2. Softer(Invalidated(q, b), q)
  BY DEF Query, Ask, Invalidated, Survives, Softer, Settled
<1>3. Invalidated(q, b) \in Query(D)
  BY Fetching
<1>4. ~Survives(q, b) => Silent(Invalidated(q, b))
  BY DEF Query, Ask, Invalidated, Survives, Silent, Settled
<1>5. q = NoQuery /\ ~b => Invalidated(q, b) = NoQuery
  <2>1. ~b => Invalidated(q, b) = [q EXCEPT !.stale = TRUE]
    BY DEF Invalidated
  <2>2. NoQuery.stale
    BY DEF NoQuery
  <2>3. q.stale => [q EXCEPT !.stale = TRUE] = q
    BY DEF Query
  <2>4. QED
    BY <2>1, <2>2, <2>3
<1>6. QED
  BY <1>1, <1>2, <1>3, <1>4, <1>5

LEMMA InvalidateKeys ==
  ASSUME MembersInv, NEW K, NEW f, f = Invalidate(K)
  PROVE  /\ DOMAIN f = Keys
         /\ \A k \in Keys :
              /\ f[k] \in Query(DataOf(k)) /\ Softer(f[k], cache[k])
              /\ k \in K /\ ~Survives(cache[k], Watched(k)) => Silent(f[k])
              /\ cache[k] = NoQuery /\ ~Watched(k) => f[k] = NoQuery
<1>1. DOMAIN f = Keys
  BY DEF Invalidate
<1>2. ASSUME NEW k \in Keys
      PROVE  /\ f[k] \in Query(DataOf(k)) /\ Softer(f[k], cache[k])
             /\ k \in K /\ ~Survives(cache[k], Watched(k)) => Silent(f[k])
             /\ cache[k] = NoQuery /\ ~Watched(k) => f[k] = NoQuery
  <2>1. cache[k] \in Query(DataOf(k))
    BY DEF MembersInv, CacheOK
  <2>2. PICK b \in BOOLEAN : b <=> Watched(k)
    BY Zenon
  <2>3. Survives(cache[k], Watched(k)) <=> Survives(cache[k], b)
    BY <2>2 DEF Survives
  <2>4. Invalidated(cache[k], Watched(k)) = Invalidated(cache[k], b)
    BY <2>2 DEF Invalidated, Survives
  <2>5. f[k] = IF k \in K THEN Invalidated(cache[k], b) ELSE cache[k]
    BY <2>4 DEF Invalidate
  <2>6. QED
    BY <2>1, <2>2, <2>3, <2>5, Softens
<1>3. QED
  BY <1>1, <1>2

\* What a call that succeeded does.
Succeeding(c) ==
  /\ c.stage = "ok" /\ UNCHANGED tables
  /\ blind' = blind \cup Missed(c)
  /\ Fewer /\ \A e \in calls : e # c => \E d \in calls' : Alike(d, e)
  /\ \A k \in Keys :
       /\ Softer(cache'[k], cache[k])
       /\ k \in Refreshed(c) /\ ~Survives(cache[k], Watched(k)) => Silent(cache'[k])
  /\ \A u \in Users : cache[u] = NoQuery /\ ~Watched(u) => cache'[u] = NoQuery
  /\ editing' \in {editing, Nil}

LEMMA AnswerTyped ==
  ASSUME MembersInv, UNCHANGED tables, UNCHANGED <<made, others>>,
         ScreenOK', CacheOK', CallsOK', Fewer, blind' \subseteq Keys
  PROVE  MembersInv'
<1>1. RowsOK' /\ CountsOK'
  BY DEF MembersInv, RowsOK, CountsOK, tables, Members, Row, MaxIds
<1>2. others' \in Nat /\ others <= others'
  BY BoundsAssumption DEF MembersInv, CountsOK
<1>3. IdsOK'
  BY <1>2, FewerWaiting, FewerIds DEF tables
<1>4. QED
  BY <1>1, <1>3 DEF MembersInv

LEMMA SucceedStep ==
  ASSUME MembersInv, NEW c \in calls, MemberSucceeds(c) \/ DeactivateSucceeds(c) \/ FormSucceeds(c)
  PROVE  MembersInv' /\ Succeeding(c)
<1>0. /\ ScreenOK /\ CallsOK /\ area \in Areas \cup {Nil} /\ c.stage = "ok"
      /\ UNCHANGED tables /\ UNCHANGED <<made, others>> /\ blind' = blind \cup Missed(c)
  BY DEF MembersInv, ScreenOK, MemberSucceeds, DeactivateSucceeds, FormSucceeds, tables, screen
<1>1. blind' \subseteq Keys
  BY <1>0 DEF MembersInv, CountsOK, Missed, Loaded
<1>2. PICK f : f = Invalidate(Refreshed(c))
  OBVIOUS
<1>3. /\ DOMAIN f = Keys
      /\ \A k \in Keys :
           /\ f[k] \in Query(DataOf(k)) /\ Softer(f[k], cache[k])
           /\ k \in Refreshed(c) /\ ~Survives(cache[k], Watched(k)) => Silent(f[k])
           /\ cache[k] = NoQuery /\ ~Watched(k) => f[k] = NoQuery
  BY <1>2, InvalidateKeys
<1>4. f = [k \in Keys |-> f[k]]
  BY <1>2 DEF Invalidate
<1>5. CASE MemberSucceeds(c) \/ DeactivateSucceeds(c)
  <2>1. calls' = calls \ {c} /\ cache' = f /\ editing' = editing /\ ScreenOK'
    BY <1>0, <1>2, <1>5 DEF MemberSucceeds, DeactivateSucceeds, ScreenOK, screen
  <2>2. CallsOK' /\ Fewer /\ \A e \in calls : e # c => \E d \in calls' : Alike(d, e)
    <3>1. \A e : Alike(e, e)
      BY DEF Alike
    <3>2. QED
      BY <1>0, <2>1, <3>1, FewerCalls
  <2>3. CacheOK'
    BY <1>3, <1>4, <2>1 DEF CacheOK, Keys, DataOf
  <2>4. MembersInv'
    BY <1>0, <1>1, <2>1, <2>2, <2>3, AnswerTyped
  <2>5. QED
    BY <1>0, <1>3, <2>1, <2>2, <2>4, KeysDiffer DEF Succeeding
<1>6. CASE FormSucceeds(c)
  <2>1. /\ calls' = {Detach(d) : d \in calls \ {c}}
        /\ cache' = [f EXCEPT ![Everyone] = Mounted(@, FALSE)]
        /\ editing' = Nil /\ ScreenOK'
    BY <1>0, <1>2, <1>6 DEF FormSucceeds, ScreenOK
  <2>2. CallsOK' /\ Fewer /\ \A e \in calls \ {c} : \E d \in calls' : Alike(d, e)
    BY <1>0, <2>1, DetachedCalls
  <2>3. PICK q : q = Mounted(f[Everyone], FALSE)
    OBVIOUS
  <2>4. /\ q \in Query(DataOf(Everyone)) /\ Softer(q, f[Everyone])
        /\ Silent(f[Everyone]) => Silent(q)
    <3>1. f[Everyone] \in Query(DataOf(Everyone))
      BY <1>3, KeysDiffer
    <3>2. Silent(f[Everyone]) => Silent(Mounted(f[Everyone], FALSE))
      BY <3>1 DEF Query, Silent, Settled, Mounted, Ask
    <3>3. QED
      BY <2>3, <3>1, <3>2, Fetching, Softens
  <2>5. /\ DOMAIN cache' = Keys /\ cache'[Everyone] = q
        /\ \A k \in Keys : k # Everyone => cache'[k] = f[k]
    BY <1>3, <2>1, <2>3, KeysDiffer
  <2>6. CacheOK'
    <3>1. cache' = [k \in Keys |-> cache'[k]]
      BY <1>4, <2>1
    <3>2. \A k \in Keys : cache'[k] \in Query(DataOf(k))
      BY <1>3, <2>4, <2>5
    <3>3. QED
      BY <3>1, <3>2 DEF CacheOK, Keys, DataOf
  <2>7. \A k \in Keys :
          /\ Softer(cache'[k], cache[k])
          /\ k \in Refreshed(c) /\ ~Survives(cache[k], Watched(k)) => Silent(cache'[k])
    <3>1. Softer(q, cache[Everyone])
      BY <1>3, <2>4, KeysDiffer DEF Softer
    <3>2. QED
      BY <1>3, <2>4, <2>5, <3>1, KeysDiffer
  <2>8. \A u \in Users : cache[u] = NoQuery /\ ~Watched(u) => cache'[u] = NoQuery
    BY <1>3, <2>5, KeysDiffer, MembersAssumption
  <2>9. MembersInv'
    BY <1>0, <1>1, <2>1, <2>2, <2>6, AnswerTyped
  <2>10. QED
    BY <1>0, <2>1, <2>2, <2>7, <2>8, <2>9 DEF Succeeding
<1>7. QED
  BY <1>5, <1>6

\* A call that fails.
LEMMA FailStep ==
  ASSUME MembersInv, NEW c \in calls, NotFound(c) \/ Lose(c)
  PROVE  MembersInv' /\ Replace(c, "failed") /\ made' = made /\ UNCHANGED <<tables, screen, cache>>
<1>0. /\ Replace(c, "failed") /\ made' = made /\ UNCHANGED <<tables, screen, cache>>
      /\ made' = made /\ CallsOK
  BY DEF NotFound, Lose, MembersInv
<1>1. others \in 0 .. MaxOthers /\ MaxOthers \in Nat
  BY BoundsAssumption DEF MembersInv, CountsOK
<1>2. others' \in 0 .. MaxOthers /\ others <= others'
  BY <1>1 DEF NotFound, Lose, Happen
<1>3. blind' \subseteq Keys
  BY DEF NotFound, Lose, MembersInv, CountsOK, Loaded
<1>4. CallsOK' /\ Waiting' \subseteq Waiting
  BY <1>0, ReplacedCall
<1>5. IdsOK'
  BY <1>0, <1>1, <1>2, <1>4, FewerIds DEF tables
<1>6. RowsOK' /\ ScreenOK' /\ CacheOK' /\ CountsOK'
  BY <1>0, <1>2, <1>3 DEF MembersInv, RowsOK, ScreenOK, CacheOK, CountsOK, tables, screen,
     Members, Row, MaxIds
<1>7. QED
  BY <1>0, <1>4, <1>5, <1>6 DEF MembersInv

LEMMA GoneStep ==
  ASSUME MembersInv, NEW c \in calls, Fail(c)
  PROVE  MembersInv' /\ Fewer
<1>0. /\ calls' = calls \ {c} /\ UNCHANGED <<tables, screen, cache, made, others, blind>>
      /\ CallsOK /\ ScreenOK /\ CacheOK /\ CountsOK
  BY DEF Fail, MembersInv
<1>1. CallsOK' /\ Fewer
  BY <1>0, FewerCalls
<1>2. ScreenOK' /\ CacheOK' /\ blind' \subseteq Keys
  BY <1>0 DEF ScreenOK, CacheOK, CountsOK, screen
<1>3. QED
  BY <1>0, <1>1, <1>2, AnswerTyped

LEMMA ArriveStep ==
  ASSUME MembersInv, NEW k \in Keys, Arrive(k)
  PROVE  /\ MembersInv' /\ cache'[k] = Arrived(cache[k])
         /\ \A j \in Keys : j # k => cache'[j] = cache[j]
<1>0. /\ UNCHANGED <<tables, screen, calls, made, others, blind>>
      /\ CallsOK /\ ScreenOK /\ CacheOK /\ CountsOK
  BY DEF Arrive, MembersInv
<1>1. PICK q : q = Arrived(cache[k])
  OBVIOUS
<1>2. q \in Query(DataOf(k))
  BY <1>0, <1>1, Fetching DEF CacheOK
<1>3. cache' = [cache EXCEPT ![k] = q]
  BY <1>0, <1>1 DEF Arrive, CacheOK
<1>4. CacheOK' /\ cache'[k] = q /\ \A j \in Keys : j # k => cache'[j] = cache[j]
  BY <1>0, <1>2, <1>3, OneQuery
<1>5. ScreenOK' /\ blind' \subseteq Keys
  BY <1>0 DEF ScreenOK, CountsOK, screen
<1>6. CallsOK' /\ Fewer
  BY <1>0, FewerCalls
<1>7. QED
  BY <1>0, <1>1, <1>4, <1>5, <1>6, AnswerTyped
-----------------------------------------------------------------------------
(* The steps, by what they do. *)

LEMMA NextKinds ==
  ASSUME MembersInv, [Next]_vars
  PROVE  /\ MembersInv'
         /\ \/ Looking \/ Sending
            \/ \E c \in calls : Older /\ (Serving(c) \/ Storing(c))
            \/ \E u \in Users, a \in Areas : Older /\ Touches(u, a) /\ ChangeElsewhere(u, a)
            \/ \E k \in Keys : Answer(k) \/ Arrive(k)
            \/ \E c \in calls : Succeeding(c) \/ NotFound(c) \/ Lose(c) \/ Fail(c)
<1>1. CASE UNCHANGED vars
  <2>1. UNCHANGED <<tables, screen, cache, calls, made, others, blind>>
    BY <1>1 DEF vars
  <2>2. ScreenOK' /\ CacheOK' /\ CallsOK' /\ Fewer /\ \A c \in calls : \E d \in calls' : Alike(d, c)
    <3>1. \A c : Alike(c, c)
      BY DEF Alike
    <3>2. QED
      BY <2>1, <3>1, FewerCalls DEF MembersInv, ScreenOK, CacheOK, screen
  <2>3. MembersInv'
    <3>1. blind' \subseteq Keys
      BY <2>1 DEF MembersInv, CountsOK
    <3>2. QED
      BY <2>1, <2>2, <3>1, AnswerTyped
  <2>4. Looking
    BY <2>1, <2>2 DEF Looking, screen
  <2>5. QED
    BY <2>3, <2>4
<1>2. CASE Administrator
  <2>1. \/ \/ \E p \in {"membresias", "usuarios"} : GoTo(p)
           \/ \E a \in Areas : SelectArea(a)
           \/ \E u \in Users : PickUser(u) \/ OpenForm(u)
           \/ ClearUser \/ OpenNew
           \/ \E k \in Keys : Focus(k)
        \/ \/ \E p \in Positions : ConfirmAdd(p)
           \/ \E u \in Users : ChangeMember(u) \/ Deactivate(u)
           \/ \E a \in Areas \cup {Nil}, p \in Positions :
                SaveNew(a, p) \/ \E touched \in BOOLEAN : SaveForm(a, p, touched)
    BY <1>2 DEF Administrator
  <2>2. QED
    BY <2>1, LookStep, AskStep
<1>3. ASSUME NEW c \in calls,
             \/ AddMember(c) \/ UpdateMember(c) \/ RemoveMember(c) \/ AssignAreaMembership(c)
             \/ Discard(c) \/ UpdateUser(c) \/ \E u \in Users : CreateUser(c, u)
      PROVE  MembersInv' /\ \E b \in calls : Older /\ (Serving(b) \/ Storing(b))
  <2>1. MembersInv' /\ Older /\ (Serving(c) \/ Storing(c))
    BY <1>3, ServeStep, FormStep
  <2>2. QED
    BY <2>1
<1>4. ASSUME NEW c \in calls, NotFound(c) \/ Lose(c) PROVE MembersInv'
  BY <1>4, FailStep
<1>5. ASSUME NEW k \in Keys, Answer(k) \/ Arrive(k) PROVE MembersInv'
  BY <1>5, AnswerStep, ArriveStep
<1>6. CASE Server
  <2>1. \/ \E c \in calls :
             \/ AddMember(c) \/ UpdateMember(c) \/ RemoveMember(c) \/ AssignAreaMembership(c)
             \/ Discard(c) \/ UpdateUser(c) \/ \E u \in Users : CreateUser(c, u)
        \/ \E c \in calls : NotFound(c)
        \/ \E u \in Users, a \in Areas : ChangeElsewhere(u, a)
        \/ \E k \in Keys : Answer(k)
    BY <1>6 DEF Server
  <2>2. ASSUME NEW u \in Users, NEW a \in Areas, ChangeElsewhere(u, a)
        PROVE  MembersInv' /\ Older /\ Touches(u, a)
    BY <2>2, ElsewhereStep
  <2>3. QED
    BY <1>3, <1>4, <1>5, <2>1, <2>2
<1>7. CASE Answers
  <2>1. \/ \E c \in calls : MemberSucceeds(c) \/ DeactivateSucceeds(c) \/ FormSucceeds(c)
        \/ \E c \in calls : Lose(c) \/ Fail(c)
        \/ \E k \in Keys : Arrive(k)
    BY <1>7 DEF Answers
  <2>2. ASSUME NEW c \in calls, MemberSucceeds(c) \/ DeactivateSucceeds(c) \/ FormSucceeds(c)
        PROVE  MembersInv' /\ Succeeding(c)
    BY <2>2, SucceedStep
  <2>3. ASSUME NEW c \in calls, Fail(c) PROVE MembersInv'
    BY <2>3, GoneStep
  <2>4. QED
    BY <1>4, <1>5, <2>1, <2>2, <2>3
<1>8. QED
  BY <1>1, <1>2, <1>6, <1>7 DEF Next

LEMMA MembersStart == ASSUME Init PROVE MembersInv
<1>0. /\ MaxIds \in Nat /\ 1 \in 1 .. MaxIds /\ MaxCalls \in Nat /\ MaxOthers \in Nat
  BY BoundsAssumption DEF MaxIds
<1>1. RowsOK
  <2>1. PICK r : r = [id |-> 1, position |-> Held]
    OBVIOUS
  <2>2. r \in Row /\ r.id = 1
    BY <1>0, <2>1, MembersAssumption DEF Row
  <2>3. members = [a \in Areas |-> [u \in Users |-> IF a = Home /\ u = First THEN r ELSE Nil]]
    BY <2>1 DEF Init
  <2>4. /\ members \in [Areas -> [Users -> Row \cup {Nil}]]
        /\ \A a \in Areas, u \in Users : members[a][u] = IF a = Home /\ u = First THEN r ELSE Nil
    BY <2>2, <2>3
  <2>5. \A a \in Areas, u \in Users : members[a][u] # Nil =>
          members[a][u].id = 1 /\ a = Home /\ u = First
    BY <2>2, <2>4
  <2>6. state \in [Users -> {"none", "kept", "discarded"}] /\ primary \in [Users -> Areas \cup {Nil}]
    BY MembersAssumption DEF Init
  <2>7. ids = 1
    BY DEF Init
  <2>8. QED
    BY <1>0, <2>4, <2>5, <2>6, <2>7 DEF RowsOK, Members
<1>2. ScreenOK
  BY DEF Init, ScreenOK
<1>3. CacheOK
  <2>1. cache = [k \in Keys |-> IF k = Everyone THEN Ask(NoQuery) ELSE NoQuery]
    BY DEF Init
  <2>2. ASSUME NEW k \in Keys PROVE cache[k] \in Query(DataOf(k))
    <3>1. NoQuery \in Query(DataOf(k)) /\ Ask(NoQuery) \in Query(DataOf(k))
      BY DEF Query, NoQuery, Ask
    <3>2. QED
      BY <2>1, <3>1
  <2>3. QED
    BY <2>1, <2>2 DEF CacheOK
<1>4. CallsOK /\ CountsOK
  BY <1>0 DEF Init, CallsOK, CountsOK
<1>5. IdsOK
  <2>1. Waiting = {} /\ ids = 1 /\ made = 0 /\ others = 0
    BY DEF Init, Waiting
  <2>2. Cardinality(Waiting) = 0
    BY <2>1, FS_EmptySet
  <2>3. QED
    BY <2>1, <2>2 DEF IdsOK
<1>6. QED
  BY <1>1, <1>2, <1>3, <1>4, <1>5 DEF MembersInv

LEMMA MembersHold == Spec => []MembersInv
<1>1. MembersInv /\ [Next]_vars => MembersInv'
  BY NextKinds
<1>2. QED
  BY <1>1, MembersStart, PTL DEF Spec

\* The tables, the cache, the pages and the calls are typed; an id is never used twice.
THEOREM MembershipsTypeCorrect == Spec => []TypeOK
<1>1. MembersInv => TypeOK
  <2>1. SUFFICES ASSUME MembersInv PROVE TypeOK
    OBVIOUS
  <2>2. \A a, b \in Areas, u, v \in Users :
          /\ members[a][u] # Nil => members[a][u].id <= ids
          /\ members[a][u] # Nil /\ members[b][v] # Nil /\ members[a][u].id = members[b][v].id
               => <<a, u>> = <<b, v>>
    BY <2>1 DEF MembersInv, RowsOK
  <2>3. /\ \A a \in Areas : cache[a] \in Query(Members)
        /\ \A u \in Users : cache[u] \in Query(Profile)
        /\ cache[Everyone] \in Query(SUBSET Users)
    BY <2>1, KeysDiffer DEF MembersInv, CacheOK
  <2>4. calls \subseteq Call /\ \A c, d \in calls : c.n = d.n => c = d
    BY <2>1 DEF MembersInv, CallsOK, CallOK
  <2>5. QED
    BY <2>1, <2>2, <2>3, <2>4 DEF TypeOK, MembersInv, RowsOK, ScreenOK, CountsOK
<1>2. QED
  BY <1>1, MembersHold, PTL
-----------------------------------------------------------------------------
(* Saving what was not touched. *)

\* A form that was not touched sends what it was filled with.
SaveOK(d) ==
  d.op = "save" /\ d.stage \in Unserved /\ ~d.touched =>
    d.seen \in Profile /\ d.area = Filled(d.seen)[1] /\ d.position = Filled(d.seen)[2]

SaveInv == \A d \in calls : SaveOK(d)

\* A call that is there was there, was just sent or stored, or has nothing left to write.
LEMMA CallsCome ==
  ASSUME MembersInv, [Next]_vars, NEW d \in calls'
  PROVE  \/ \E c \in calls : Alike(d, c) \/ Moved(d, c)
         \/ (d.stage = "sent" /\ AsShown(d)) \/ d.stage \notin Unserved
<1>1. \A c : Alike(c, c)
  BY DEF Alike
<1>2. CASE Fewer
  BY <1>2 DEF Fewer
<1>3. CASE Sending
  BY <1>3 DEF Sending
<1>4. ASSUME NEW c \in calls, NEW stage \in {"ok", "failed"}, Replace(c, stage), made' = made
      PROVE  (\E e \in calls : Alike(d, e)) \/ d.stage \notin Unserved
  BY <1>1, <1>4, ReplacedCall DEF MembersInv, Unserved
<1>5. CASE \E c \in calls : Serving(c)
  BY <1>4, <1>5 DEF Serving, Written
<1>6. CASE \E c \in calls : NotFound(c) \/ Lose(c)
  BY <1>4, <1>6, FailStep
<1>7. CASE calls' = calls
  BY <1>1, <1>7
<1>8. CASE \E c \in calls : Fail(c)
  BY <1>2, <1>8, GoneStep
<1>9. CASE \E c \in calls : Storing(c)
  BY <1>1, <1>9 DEF Storing
<1>10. QED
  BY <1>2, <1>3, <1>5, <1>6, <1>7, <1>8, <1>9, NextKinds DEF Looking, Succeeding, ChangeElsewhere,
     Answer, Arrive

LEMMA SaveStep == MembersInv /\ SaveInv /\ [Next]_vars => SaveInv'
<1>1. SUFFICES ASSUME MembersInv, SaveInv, [Next]_vars, NEW d \in calls' PROVE SaveOK(d)
  BY DEF SaveInv, SaveOK
<1>2. CASE \E c \in calls : Alike(d, c) \/ Moved(d, c)
  BY <1>1, <1>2 DEF SaveInv, SaveOK, Alike, Moved, Unserved
<1>3. CASE d.stage = "sent" /\ AsShown(d)
  BY <1>3 DEF SaveOK, AsShown
<1>4. CASE d.stage \notin Unserved
  BY <1>4 DEF SaveOK
<1>5. QED
  BY <1>1, <1>2, <1>3, <1>4, CallsCome

\* Saving the form of a user without touching area and position keeps both, in either
\* of its commits, as long as what the form was filled with is still so (UserFormPage,
\* users#update).
THEOREM UntouchedSavesKeep == Spec => []UntouchedSavesKeepThePosition
<1>1. Init => SaveInv
  BY DEF Init, SaveInv
<1>2. MembersInv /\ SaveInv => UntouchedSavesKeepThePosition
  <2>1. SUFFICES ASSUME MembersInv, SaveInv, NEW c \in calls,
                        c.op = "save", c.stage \in {"sent", "stored"}, ~c.touched,
                        c.seen = View(c.user)
                 PROVE  /\ c.area = primary[c.user]
                        /\ c.area # Nil /\ members[c.area][c.user] # Nil
                             => c.position = members[c.area][c.user].position
    BY DEF UntouchedSavesKeepThePosition
  <2>2. c.user \in Users /\ RowsOK
    BY <2>1 DEF MembersInv, CallsOK, CallOK
  <2>3. c.area = Filled(c.seen)[1] /\ c.position = Filled(c.seen)[2]
    BY <2>1 DEF SaveInv, SaveOK, Unserved
  <2>4. c.area = primary[c.user]
    BY <2>1, <2>3 DEF Filled, View
  <2>5. ASSUME c.area # Nil, members[c.area][c.user] # Nil
        PROVE  c.position = members[c.area][c.user].position
    <3>1. c.area \in Areas
      BY <2>2, <2>4, <2>5 DEF RowsOK
    <3>2. members[c.area][c.user].position \in Positions /\ Nil \notin Positions
      BY <2>2, <2>5, <3>1, RowsTyped, MembersAssumption
    <3>3. c.seen.cargo = members[c.area][c.user].position
      BY <2>1, <2>4, <2>5 DEF View
    <3>4. QED
      BY <2>3, <3>2, <3>3 DEF Filled
  <2>6. QED
    BY <2>4, <2>5
<1>3. QED
  BY <1>1, <1>2, SaveStep, MembersHold, PTL DEF Spec
-----------------------------------------------------------------------------
(* What the lists show. *)

\* The id i is of the position of u in a, or of none that is there now.
Mine(a, u, i) == i <= ids /\ \A v \in Users : members[a][v] # Nil /\ members[a][v].id = i => v = u

Owned(a, d) == d # Nil => \A u \in Users : d[u] # Nil => Mine(a, u, d[u].id)

OwnInv ==
  /\ \A a \in Areas : Owned(a, cache[a].data) /\ Owned(a, cache[a].answer)
  /\ \A c \in calls : c.op \in {"update", "remove"} /\ c.stage = "sent" => Mine(c.area, c.user, c.id)

LEMMA MineStays ==
  ASSUME MembersInv, Older, NEW a \in Areas, NEW u \in Users, NEW i \in Nat, Mine(a, u, i)
  PROVE  Mine(a, u, i)'
<1>1. ids \in Nat /\ ids' \in Nat /\ ids <= ids'
  BY BoundsAssumption DEF MembersInv, RowsOK, Older, MaxIds
<1>2. i <= ids'
  BY <1>1 DEF Mine
<1>3. ASSUME NEW v \in Users, members'[a][v] # Nil, members'[a][v].id = i PROVE v = u
  <2>1. ~(members'[a][v].id > ids)
    BY <1>1, <1>3 DEF Mine
  <2>2. members[a][v] # Nil /\ members'[a][v].id = members[a][v].id
    BY <1>3, <2>1 DEF Older
  <2>3. QED
    BY <1>3, <2>2 DEF Mine
<1>4. QED
  BY <1>2, <1>3 DEF Mine

\* The tables change in what Older allows.
LEMMA TablesStep ==
  ASSUME MembersInv, [Next]_vars
  PROVE  Older /\ \A u \in Users : state[u] # "none" => state'[u] # "none"
<1>1. UNCHANGED tables => Older
  BY BoundsAssumption DEF tables, Older, MembersInv, RowsOK, MaxIds
<1>2. UNCHANGED tables => \A u \in Users : state[u] # "none" => state'[u] # "none"
  BY DEF tables
<1>3. QED
  BY <1>1, <1>2, NextKinds DEF Looking, Sending, Serving, Storing, ChangeElsewhere, Answer, Arrive,
     Succeeding, NotFound, Lose, Fail

\* What a query holds is what it held, or what it is answered.
LEMMA Flows ==
  ASSUME MembersInv, [Next]_vars, NEW k \in Keys
  PROVE  /\ cache'[k].data \in {cache[k].data, cache[k].answer}
         /\ cache'[k].answer \in {cache[k].answer, Nil, Truth(k)}
         /\ cache'[k].answer = Truth(k) \/ cache'[k].answer \in {cache[k].answer, Nil}
<1>1. cache[k] \in Query(DataOf(k))
  BY DEF MembersInv, CacheOK
<1>2. CASE cache' = cache
  BY <1>2
<1>3. CASE Looking
  <2>1. CASE cache'[k] = cache[k]
    BY <2>1
  <2>2. ASSUME NEW b \in BOOLEAN, cache'[k] = Mounted(cache[k], b)
        PROVE  cache'[k].data = cache[k].data /\ cache'[k].answer \in {cache[k].answer, Nil}
    <3>1. Softer(Mounted(cache[k], b), cache[k])
      BY <1>1, Softens
    <3>2. QED
      BY <2>2, <3>1 DEF Softer
  <2>3. QED
    BY <1>3, <2>1, <2>2 DEF Looking
<1>4. CASE \E c \in calls : Succeeding(c)
  BY <1>4 DEF Succeeding, Softer
<1>5. ASSUME NEW j \in Keys, Answer(j)
      PROVE  cache'[k].data = cache[k].data /\ cache'[k].answer \in {cache[k].answer, Truth(k)}
  <2>1. CASE j = k
    <3>1. cache'[k] = Answered(cache[k], Truth(k))
      BY <1>5, <2>1, AnswerStep
    <3>2. QED
      BY <1>1, <3>1 DEF Answered, Query
  <2>2. CASE j # k
    <3>1. cache'[k] = cache[k]
      BY <1>5, <2>2, AnswerStep
    <3>2. QED
      BY <3>1
  <2>3. QED
    BY <2>1, <2>2
<1>6. ASSUME NEW j \in Keys, Arrive(j)
      PROVE  /\ cache'[k].data \in {cache[k].data, cache[k].answer}
             /\ cache'[k].answer \in {cache[k].answer, Nil}
  <2>1. CASE j = k
    <3>1. cache'[k] = Arrived(cache[k])
      BY <1>6, <2>1, ArriveStep
    <3>2. QED
      BY <3>1 DEF Arrived
  <2>2. CASE j # k
    <3>1. cache'[k] = cache[k]
      BY <1>6, <2>2, ArriveStep
    <3>2. QED
      BY <3>1
  <2>3. QED
    BY <2>1, <2>2
<1>7. QED
  BY <1>2, <1>3, <1>4, <1>5, <1>6, NextKinds DEF Sending, Serving, Storing, Written,
     ChangeElsewhere, NotFound, Lose, Fail

LEMMA OwnStep == MembersInv /\ OwnInv /\ [Next]_vars => OwnInv'
<1>1. SUFFICES ASSUME MembersInv, OwnInv, [Next]_vars PROVE OwnInv'
  OBVIOUS
<1>2. MembersInv' /\ Older /\ MaxIds \in Nat
  BY <1>1, NextKinds, TablesStep, BoundsAssumption DEF MaxIds
<1>3. ASSUME NEW a \in Areas, NEW d \in Members \cup {Nil}, Owned(a, d) PROVE Owned(a, d)'
  <2>1. SUFFICES ASSUME d # Nil, NEW u \in Users, d[u] # Nil PROVE Mine(a, u, d[u].id)'
    BY DEF Owned
  <2>2. d[u].id \in Nat
    BY <1>2, <2>1 DEF Members, Row
  <2>3. Mine(a, u, d[u].id)
    BY <1>3, <2>1 DEF Owned
  <2>4. QED
    BY <1>1, <1>2, <2>2, <2>3, MineStays
<1>4. ASSUME NEW a \in Areas PROVE Owned(a, cache[a].data)' /\ Owned(a, cache[a].answer)'
  <2>1. PICK d, e, p, q, t : /\ d = cache[a].data /\ e = cache[a].answer /\ t = members[a]
                             /\ p = cache'[a].data /\ q = cache'[a].answer
    OBVIOUS
  <2>2. cache[a] \in Query(Members)
    BY <1>1, KeysDiffer DEF MembersInv, CacheOK
  <2>3. d \in Members \cup {Nil} /\ e \in Members \cup {Nil} /\ t \in Members \cup {Nil}
    BY <1>1, <2>1, <2>2 DEF Query, MembersInv, RowsOK
  <2>4. Owned(a, d) /\ Owned(a, e)
    BY <1>1, <2>1 DEF OwnInv
  <2>5. Owned(a, t)
    BY <1>1, <2>1 DEF Owned, Mine, MembersInv, RowsOK
  <2>6. Owned(a, Nil)
    BY DEF Owned
  <2>7. p \in {d, e} /\ q \in {e, Nil, t}
    BY <1>1, <2>1, Flows, TruthIs, KeysDiffer
  <2>8. Owned(a, p)' /\ Owned(a, q)'
    BY <1>3, <2>3, <2>4, <2>5, <2>6, <2>7
  <2>9. QED
    BY <2>1, <2>8 DEF Owned
<1>5. ASSUME NEW d \in calls', d.op \in {"update", "remove"}, d.stage = "sent"
      PROVE  Mine(d.area, d.user, d.id)'
  <2>1. d \in Call /\ d.area \in Areas /\ d.user \in Users
    BY <1>2, <1>5 DEF MembersInv, CallsOK, CallOK, MemberOps
  <2>2. d.id \in Nat
    BY <1>2, <2>1 DEF Call
  <2>3. Mine(d.area, d.user, d.id)
    <3>1. CASE \E c \in calls : Alike(d, c) \/ Moved(d, c)
      BY <1>1, <1>5, <3>1 DEF OwnInv, Alike, Moved
    <3>2. CASE AsShown(d)
      BY <1>1, <1>5, <2>1, <3>2 DEF AsShown, OwnInv, Owned
    <3>3. QED
      BY <1>1, <1>5, <3>1, <3>2, CallsCome DEF Unserved
  <2>4. QED
    BY <1>1, <1>2, <2>1, <2>2, <2>3, MineStays
<1>6. QED
  BY <1>4, <1>5 DEF OwnInv

\* Those that are listed have been created; nothing was asked about the others.
Known(d) == d # Nil => \A u \in Users : u \in d => state[u] # "none"

NewInv ==
  /\ \A u \in Users : state[u] = "none" => cache[u] = NoQuery /\ editing # u
  /\ Known(cache[Everyone].data) /\ Known(cache[Everyone].answer)

LEMMA NewStep == MembersInv /\ NewInv /\ [Next]_vars => NewInv'
<1>1. SUFFICES ASSUME MembersInv, NewInv, [Next]_vars PROVE NewInv'
  OBVIOUS
<1>2. \A u \in Users : state[u] # "none" => state'[u] # "none"
  BY <1>1, TablesStep
<1>3. ASSUME NEW u \in Users, state'[u] = "none" PROVE cache'[u] = NoQuery /\ editing' # u
  <2>1. state[u] = "none" /\ cache[u] = NoQuery /\ editing # u
    BY <1>1, <1>2, <1>3 DEF NewInv
  <2>2. u \notin ListedUsers /\ u # Nil
    BY <1>1, <2>1, MembersAssumption DEF NewInv, Known, ListedUsers
  <2>3. ~Watched(u)
    BY <1>1, <2>1, MembersAssumption DEF Watched, MembersInv, ScreenOK
  <2>4. CASE Looking
    BY <2>1, <2>2, <2>4 DEF Looking
  <2>5. CASE \E c \in calls : Succeeding(c)
    BY <2>1, <2>2, <2>3, <2>5 DEF Succeeding
  <2>6. ASSUME NEW k \in Keys, Answer(k) \/ Arrive(k) PROVE cache'[u] = cache[u] /\ editing' = editing
    <3>1. k # u
      BY <2>1, <2>6 DEF Answer, Arrive, NoQuery
    <3>2. u \in Keys
      BY KeysDiffer
    <3>3. cache'[u] = cache[u]
      BY <1>1, <2>6, <3>1, <3>2, AnswerStep, ArriveStep
    <3>4. QED
      BY <2>6, <3>3 DEF Answer, Arrive, screen
  <2>7. CASE cache' = cache /\ screen' = screen
    BY <2>1, <2>7 DEF screen
  <2>8. QED
    BY <1>1, <2>1, <2>4, <2>5, <2>6, <2>7, NextKinds
       DEF Sending, Serving, Storing, Written, ChangeElsewhere, NotFound, Lose, Fail
<1>4. Known(cache[Everyone].data)' /\ Known(cache[Everyone].answer)'
  <2>1. PICK d, e, p, q, t : /\ d = cache[Everyone].data /\ e = cache[Everyone].answer
                             /\ p = cache'[Everyone].data /\ q = cache'[Everyone].answer
                             /\ t = {u \in Users : state[u] = "kept"}
    OBVIOUS
  <2>2. Known(d) /\ Known(e) /\ Known(Nil) /\ Known(t)
    BY <1>1, <2>1 DEF NewInv, Known
  <2>3. p \in {d, e} /\ q \in {e, Nil, t}
    BY <1>1, <2>1, Flows, TruthIs, KeysDiffer
  <2>4. Known(p)' /\ Known(q)'
    BY <1>2, <2>2, <2>3 DEF Known
  <2>5. QED
    BY <2>1, <2>4 DEF Known
<1>5. QED
  BY <1>3, <1>4 DEF NewInv

\* A call that changed the key is not answered yet.
Excused(k) == \E c \in calls : c.stage \in {"stored", "ok"} /\ k \in Changed(c)

\* An answer on its way, and what is shown as final, is what the tables say.
Tells(k) ==
  /\ cache[k].fetch = "answered" => cache[k].answer = Truth(k)
  /\ Settled(cache[k]) => cache[k].data = Truth(k)

ListsInv == \A k \in Keys : k \in blind \/ Excused(k) \/ Tells(k)

LEMMA NotLoaded == ASSUME NEW k \in Keys, k \notin Loaded PROVE Tells(k)
BY DEF Loaded, Tells, Settled

LEMMA SofterTells ==
  ASSUME NEW k \in Keys, Softer(cache'[k], cache[k])
  PROVE  /\ Truth(k)' = Truth(k) /\ Tells(k) => Tells(k)'
         /\ k \notin Loaded => Tells(k)'
         /\ Silent(cache'[k]) => Tells(k)'
<1>1. Truth(k)' = Truth(k) /\ Tells(k) => Tells(k)'
  BY DEF Softer, Tells
<1>2. k \notin Loaded => Tells(k)'
  BY DEF Softer, Tells, Loaded, Settled
<1>3. Silent(cache'[k]) => Tells(k)'
  BY DEF Silent, Tells
<1>4. QED
  BY <1>1, <1>2, <1>3

LEMMA SameTruth == ASSUME UNCHANGED tables, NEW k PROVE Truth(k)' = Truth(k)
BY DEF tables, Truth, View

LEMMA TouchedTruth ==
  ASSUME RowsOK, RowsOK', NEW u \in Users, NEW a, Touches(u, a),
         NEW k \in Keys, k # a, k # u, k = Everyone => state' = state
  PROVE  Truth(k)' = Truth(k)
<1>1. CASE k \in Areas
  <2>1. members[k] \in [Users -> Row \cup {Nil}] /\ members'[k] \in [Users -> Row \cup {Nil}]
    BY <1>1 DEF RowsOK, Members, Row, MaxIds
  <2>2. \A v \in Users : members'[k][v] = members[k][v]
    BY <1>1 DEF Touches, Elsewhere
  <2>3. members'[k] = members[k]
    BY <2>1, <2>2
  <2>4. QED
    BY <1>1, <2>3 DEF Truth
<1>2. CASE k \in Users
  <2>1. primary'[k] = primary[k] /\ primary[k] \in Areas \cup {Nil}
    BY <1>2 DEF Touches, RowsOK
  <2>2. \A b \in Areas : members'[b][k] = members[b][k]
    BY <1>2 DEF Touches, Elsewhere
  <2>3. View(k)' = View(k)
    BY <2>1, <2>2 DEF View
  <2>4. k \notin Areas
    BY <1>2, MembersAssumption
  <2>5. QED
    BY <1>2, <2>3, <2>4 DEF Truth
<1>3. CASE k = Everyone
  <2>1. k \notin Areas /\ k \notin Users
    BY <1>3, MembersAssumption
  <2>2. QED
    BY <1>3, <2>1 DEF Truth
<1>4. QED
  BY <1>1, <1>2, <1>3 DEF Keys

\* The calls that excuse a key stay.
LEMMA StillExcused ==
  ASSUME NEW k, NEW c \in calls, c.stage \in {"stored", "ok"}, k \in Changed(c), NEW d \in calls', Alike(d, c)
  PROVE  Excused(k)'
BY DEF Excused, Alike, Changed

LEMMA ServeLists ==
  ASSUME MembersInv, MembersInv', OwnInv, NewInv, ListsInv, NEW c \in calls, Serving(c)
  PROVE  ListsInv'
<1>0. /\ Replace(c, "ok") /\ blind' = blind \cup (Unseen(c) \cap Loaded) /\ cache' = cache
      /\ made' = made
  BY DEF Serving, Written
<1>1. /\ \E d \in calls' : d.op = c.op /\ d.user = c.user /\ d.area = c.area /\ d.stage = "ok"
      /\ \A d \in calls : d # c => d \in calls'
  BY <1>0, ReplacedCall DEF MembersInv
<1>2. SUFFICES ASSUME NEW k \in Keys, k \notin blind', ~Excused(k)' PROVE Tells(k)'
  BY DEF ListsInv, Keys
<1>3. ~Excused(k)
  BY <1>0, <1>1, <1>2 DEF Excused, Changed
<1>4. k \notin Changed(c)
  BY <1>1, <1>2 DEF Excused, Changed
<1>5. CASE k \notin Loaded
  BY <1>0, <1>5 DEF Loaded, Tells, Settled
<1>6. CASE k \in Loaded
  <2>1. k \notin Unseen(c)
    BY <1>0, <1>2, <1>6
  <2>2. Tells(k)
    BY <1>0, <1>2, <1>3 DEF ListsInv
  <2>3. k = Everyone => state' = state
    BY <1>4 DEF Serving
  <2>4. Truth(k)' = Truth(k)
    <3>1. CASE UNCHANGED <<primary, members>>
      BY <2>3, <3>1, MembersAssumption DEF Truth, View, Keys
    <3>2. ASSUME NEW u \in Users, Touches(u, c.area),
                 \/ u = c.user /\ c.op \in {"add", "save", "create"}
                 \/ c.op \in {"update", "remove"} /\ c.stage = "sent" /\ u \in Owner(c)
          PROVE  Truth(k)' = Truth(k)
      <4>1. k # u
        <5>1. CASE u = c.user /\ c.op \in {"add", "save", "create"}
          BY <1>4, <2>1, <5>1, MembersAssumption DEF Unseen, Changed, MemberOps
        <5>2. CASE c.op \in {"update", "remove"} /\ c.stage = "sent" /\ u \in Owner(c)
          <6>1. u = c.user
            BY <1>0, <5>2 DEF OwnInv, Mine, Owner
          <6>2. QED
            BY <2>1, <5>2, <6>1 DEF Unseen, MemberOps
        <5>3. QED
          BY <3>2, <5>1, <5>2
      <4>2. k # c.area
        <5>1. k # Nil
          BY MembersAssumption DEF Keys
        <5>2. QED
          BY <1>4, <2>1, <3>2, <5>1 DEF Unseen, Changed, MemberOps
      <4>3. QED
        BY <2>3, <3>2, <4>1, <4>2, TouchedTruth DEF MembersInv
    <3>3. QED
      BY <3>1, <3>2 DEF Serving
  <2>5. QED
    BY <1>0, <2>2, <2>4 DEF Tells
<1>7. QED
  BY <1>5, <1>6

LEMMA StoreLists ==
  ASSUME MembersInv, MembersInv', NewInv, ListsInv, NEW c \in calls, Storing(c)
  PROVE  ListsInv'
<1>0. /\ blind' = blind /\ cache' = cache /\ c.op \in {"save", "create"}
      /\ \A e \in calls : e # c => e \in calls'
  BY DEF Storing
<1>1. PICK d \in calls' : Moved(d, c)
  BY DEF Storing
<1>2. d.stage = "stored" /\ c.stage = "sent" /\ \A k : k \in Changed(c) => k \in Changed(d)
  BY <1>1 DEF Moved, Changed
<1>3. SUFFICES ASSUME NEW k \in Keys, k \notin blind', ~Excused(k)' PROVE Tells(k)'
  BY DEF ListsInv, Keys
<1>4. ~Excused(k)
  BY <1>0, <1>2, <1>3 DEF Excused, Changed
<1>5. k \notin Changed(c)
  BY <1>2, <1>3 DEF Excused, Changed
<1>6. Tells(k)
  BY <1>0, <1>3, <1>4 DEF ListsInv
<1>7. CASE k \notin Loaded
  BY <1>0, <1>7 DEF Loaded, Tells, Settled
<1>8. CASE k \in Loaded
  <2>1. PICK u \in Users : /\ Touches(u, c.area)
                          /\ \/ u = c.user /\ c.op = "save"
                             \/ c.op = "create" /\ state[u] = "none"
    BY DEF Storing
  <2>2. k # u
    <3>1. CASE u = c.user /\ c.op = "save"
      BY <1>5, <3>1 DEF Changed, MemberOps
    <3>2. CASE state[u] = "none"
      BY <1>8, <3>2 DEF NewInv, Loaded, NoQuery
    <3>3. QED
      BY <2>1, <3>1, <3>2
  <2>3. k # Everyone
    BY <1>0, <1>5 DEF Changed, MemberOps
  <2>4. Truth(k)' = Truth(k)
    <3>1. CASE k \in Areas
      BY <3>1 DEF Truth, Storing
    <3>2. CASE k \in Users
      <4>1. k \notin Areas /\ primary'[k] = primary[k] /\ members' = members
        BY <2>1, <2>2, <3>2, MembersAssumption DEF Touches, Storing
      <4>2. QED
        BY <3>2, <4>1 DEF Truth, View
    <3>3. QED
      BY <2>3, <3>1, <3>2 DEF Keys
  <2>5. QED
    BY <1>0, <1>6, <2>4 DEF Tells
<1>9. QED
  BY <1>7, <1>8

LEMMA SucceedLists ==
  ASSUME MembersInv, ListsInv, NEW c \in calls, Succeeding(c)
  PROVE  ListsInv'
<1>1. SUFFICES ASSUME NEW k \in Keys, k \notin blind', ~Excused(k)' PROVE Tells(k)'
  BY DEF ListsInv, Keys
<1>2. /\ blind' = blind \cup Missed(c) /\ Softer(cache'[k], cache[k])
      /\ k \in Refreshed(c) /\ ~Survives(cache[k], Watched(k)) => Silent(cache'[k])
      /\ Truth(k)' = Truth(k)
  BY SameTruth DEF Succeeding
<1>3. k \notin Changed(c) => ~Excused(k)
  BY <1>1, StillExcused DEF Excused, Succeeding
<1>4. CASE k \notin Loaded
  BY <1>2, <1>4, SofterTells
<1>5. CASE k \in Loaded /\ k \in Changed(c)
  <2>1. k \in Refreshed(c) /\ ~Survives(cache[k], Watched(k))
    BY <1>1, <1>2, <1>5 DEF Missed, Changed, Refreshed
  <2>2. QED
    BY <1>2, <2>1, SofterTells
<1>6. CASE k \notin Changed(c)
  BY <1>1, <1>2, <1>3, <1>6, SofterTells DEF ListsInv
<1>7. QED
  BY <1>4, <1>5, <1>6

LEMMA ListsStep == MembersInv /\ OwnInv /\ NewInv /\ ListsInv /\ [Next]_vars => ListsInv'
<1>1. SUFFICES ASSUME MembersInv, OwnInv, NewInv, ListsInv, [Next]_vars PROVE ListsInv'
  OBVIOUS
<1>2. MembersInv'
  BY <1>1, NextKinds
<1>3. ASSUME NEW k \in Keys,
             \A c \in calls : c.stage \in {"stored", "ok"} => \E d \in calls' : Alike(d, c)
      PROVE  Excused(k) => Excused(k)'
  BY <1>3, StillExcused DEF Excused
<1>4. \A c : Alike(c, c)
  BY DEF Alike
<1>5. CASE Looking
  <2>1. ASSUME NEW k \in Keys PROVE Softer(cache'[k], cache[k])
    <3>1. cache[k] \in Query(DataOf(k))
      BY <1>1 DEF MembersInv, CacheOK
    <3>2. QED
      BY <1>5, <3>1, Softens DEF Looking
  <2>2. \A k \in Keys : Tells(k) => Tells(k)'
    BY <1>5, <2>1, SofterTells, SameTruth DEF Looking
  <2>3. QED
    BY <1>1, <1>3, <1>5, <2>2 DEF Looking, ListsInv, Keys
<1>6. CASE Sending
  <2>1. \A k \in Keys : Tells(k) => Tells(k)'
    BY <1>6, SameTruth DEF Sending, Tells
  <2>2. QED
    BY <1>1, <1>3, <1>6, <2>1 DEF Sending, ListsInv, Keys
<1>7. ASSUME NEW u \in Users, NEW a \in Areas, Touches(u, a), ChangeElsewhere(u, a) PROVE ListsInv'
  <2>1. SUFFICES ASSUME NEW k \in Keys, k \notin blind', ~Excused(k)' PROVE Tells(k)'
    BY DEF ListsInv, Keys
  <2>2. blind' = blind \cup ({a, u} \cap Loaded) /\ cache' = cache /\ calls' = calls /\ state' = state
    BY <1>7 DEF ChangeElsewhere
  <2>3. Tells(k)
    BY <1>1, <2>1, <2>2 DEF ListsInv, Excused, Changed
  <2>4. CASE k \notin Loaded
    BY <2>2, <2>4 DEF Loaded, Tells, Settled
  <2>5. CASE k # a /\ k # u
    <3>1. Truth(k)' = Truth(k)
      BY <1>1, <1>2, <1>7, <2>2, <2>5, TouchedTruth DEF MembersInv
    <3>2. QED
      BY <2>2, <2>3, <3>1 DEF Tells
  <2>6. QED
    BY <2>1, <2>2, <2>4, <2>5
<1>8. ASSUME NEW j \in Keys, Answer(j) \/ Arrive(j) PROVE ListsInv'
  <2>1. SUFFICES ASSUME NEW k \in Keys, k \notin blind', ~Excused(k)' PROVE Tells(k)'
    BY DEF ListsInv, Keys
  <2>2. Truth(k)' = Truth(k) /\ calls' = calls
    BY <1>8, SameTruth DEF Answer, Arrive
  <2>3. CASE k = j /\ Answer(j)
    <3>1. cache'[k] = Answered(cache[k], Truth(k)) /\ cache[k] \in Query(DataOf(k))
      BY <1>1, <2>3, AnswerStep DEF MembersInv, CacheOK
    <3>2. QED
      BY <2>2, <3>1 DEF Tells, Settled, Answered, Query
  <2>4. CASE ~(k = j /\ Answer(j))
    <3>1. k \notin blind
      BY <1>8, <2>1, <2>4 DEF Answer, Arrive
    <3>2. Tells(k)
      BY <1>1, <2>1, <2>2, <3>1 DEF ListsInv, Excused, Changed
    <3>3. CASE k = j
      <4>1. cache'[k] = Arrived(cache[k]) /\ cache[k].fetch = "answered"
        BY <1>1, <1>8, <2>4, <3>3, ArriveStep DEF Arrive
      <4>2. QED
        BY <2>2, <3>2, <4>1 DEF Tells, Arrived
    <3>4. CASE k # j
      <4>1. cache'[k] = cache[k]
        BY <1>1, <1>8, <3>4, AnswerStep, ArriveStep
      <4>2. QED
        BY <2>2, <3>2, <4>1 DEF Tells
    <3>5. QED
      BY <3>3, <3>4
  <2>5. QED
    BY <2>3, <2>4
<1>9. ASSUME NEW c \in calls, NotFound(c) \/ Lose(c) PROVE ListsInv'
  <2>1. SUFFICES ASSUME NEW k \in Keys, k \notin blind', ~Excused(k)' PROVE Tells(k)'
    BY DEF ListsInv, Keys
  <2>2. Replace(c, "failed") /\ made' = made /\ UNCHANGED tables /\ cache' = cache
    BY <1>1, <1>9, FailStep
  <2>3. \A d \in calls : d # c => d \in calls'
    BY <1>1, <2>2, ReplacedCall DEF MembersInv
  <2>4. k \notin blind
    BY <1>9, <2>1 DEF NotFound, Lose
  <2>5. CASE k \notin Loaded
    BY <2>2, <2>5 DEF Loaded, Tells, Settled
  <2>6. CASE k \in Loaded
    <3>1. ~(c.stage \in {"stored", "ok"} /\ k \in Changed(c))
      BY <1>9, <2>1, <2>6 DEF NotFound, Lose
    <3>2. ~Excused(k)
      BY <2>1, <2>3, <3>1 DEF Excused, Changed
    <3>3. QED
      BY <1>1, <2>2, <2>4, <3>2, SameTruth DEF ListsInv, Tells
  <2>7. QED
    BY <2>5, <2>6
<1>10. ASSUME NEW c \in calls, Fail(c) PROVE ListsInv'
  <2>1. calls' = calls \ {c} /\ c.stage = "failed" /\ UNCHANGED <<tables, cache, blind>>
    BY <1>10 DEF Fail
  <2>2. \A k \in Keys : Excused(k) => Excused(k)'
    BY <1>3, <1>4, <2>1
  <2>3. \A k \in Keys : Tells(k) => Tells(k)'
    BY <2>1, SameTruth DEF Tells
  <2>4. QED
    BY <1>1, <2>1, <2>2, <2>3 DEF ListsInv, Keys
<1>11. QED
  BY <1>1, <1>2, <1>5, <1>6, <1>7, <1>8, <1>9, <1>10, NextKinds, ServeLists, StoreLists,
     SucceedLists

LEMMA ListsStart == ASSUME Init PROVE OwnInv /\ NewInv /\ ListsInv
<1>1. /\ cache[Everyone] = Ask(NoQuery) /\ \A k \in Keys : k # Everyone => cache[k] = NoQuery
      /\ calls = {} /\ editing = Nil
  BY KeysDiffer DEF Init
<1>2. \A k \in Keys : cache[k].data = Nil /\ cache[k].answer = Nil /\ cache[k].fetch # "answered"
  <2>1. NoQuery.data = Nil /\ NoQuery.answer = Nil /\ NoQuery.fetch = "idle"
    BY DEF NoQuery
  <2>2. \A q \in Query({}) : Ask(q).data = q.data /\ Ask(q).answer = Nil /\ Ask(q).fetch = "asked"
    BY DEF Query, Ask
  <2>3. NoQuery \in Query({})
    BY DEF Query, NoQuery
  <2>4. PICK q : q = NoQuery
    OBVIOUS
  <2>5. /\ Ask(q).data = Nil /\ Ask(q).answer = Nil /\ Ask(q).fetch = "asked"
        /\ q.data = Nil /\ q.answer = Nil /\ q.fetch = "idle"
    BY <2>1, <2>2, <2>3, <2>4
  <2>6. \A k \in Keys : cache[k] = q \/ cache[k] = Ask(q)
    BY <1>1, <2>4
  <2>7. QED
    BY <2>5, <2>6
<1>3. OwnInv
  BY <1>1, <1>2, KeysDiffer DEF OwnInv, Owned
<1>4. NewInv
  BY <1>1, <1>2, KeysDiffer, MembersAssumption DEF NewInv, Known
<1>5. ListsInv
  BY <1>2 DEF ListsInv, Tells, Settled
<1>6. QED
  BY <1>3, <1>4, <1>5

\* The members of an area, a user and the list of users are, where a page shows them
\* as final, what the tables say, but for the reasons that are named.
THEOREM MembersListsAreTrue == Spec => []ListsAreTrue
<1>1. ListsInv => ListsAreTrue
  BY DEF ListsInv, ListsAreTrue, Excused, Tells
<1>2. QED
  BY <1>1, ListsStart, ListsStep, OwnStep, NewStep, MembersHold, PTL DEF Spec
=============================================================================
