--------------------------- MODULE RepositoryProofs ---------------------------
(***************************************************************************)
(* Proofs about Repository, for every set of archivos and groups and every *)
(* bound; and, in the last section, about the digital certificates that    *)
(* sign the archivos, DigitalCertificates.                                 *)
(***************************************************************************)
EXTENDS Repository, DigitalCertificates, FiniteSetTheorems, WellFoundedInduction, TLAPS

-----------------------------------------------------------------------------
(* Calls. *)

Stages == {"sent", "checked", "written", "ok", "failed"}

\* A call with what its operation is about.
Typed(c) ==
  /\ c \in Call
  /\ c.op \in {"subir", "firmar", "eliminar"} => c.of \in Archivos
  /\ c.op = "agregar" => c.group \in Groups

CallsOK ==
  /\ \A c \in calls : Typed(c) /\ c.id <= made
  /\ \A c, d \in calls : c.id = d.id => c = d

\* d is the call c, as it was made.
Same(d, c) == d.id = c.id /\ d.op = c.op /\ d.of = c.of /\ d.group = c.group /\ d.ids = c.ids

\* And as far.
Alike(d, c) == Same(d, c) /\ d.left = c.left /\ d.base = c.base /\ d.stage = c.stage

\* A step on the screen: at most answers are gone.
Screens ==
  /\ \A d \in calls' : \E c \in calls : Alike(d, c)
  /\ \A c \in calls : c.stage \in {"ok", "failed"} \/ \E d \in calls' : Alike(d, c)

LEMMA OrphanAlike ==
  ASSUME NEW c, Typed(c)
  PROVE  Typed([c EXCEPT !.own = FALSE]) /\ Alike([c EXCEPT !.own = FALSE], c)
BY DEF Typed, Call, Alike, Same

\* Some calls lose their owner, and some that were answered are gone.
LEMMA OrphansKeep ==
  ASSUME CallsOK, NEW S \in SUBSET calls, NEW T \in SUBSET calls, S \cap T = {},
         calls' = S \cup Orphans(T), made' = made,
         \A c \in calls : c \in S \cup T \/ c.stage \in {"ok", "failed"}
  PROVE  CallsOK' /\ Screens
<1> DEFINE orphan(c) == [c EXCEPT !.own = FALSE]
<1>1. calls' = S \cup {orphan(c) : c \in T}
  BY DEF Orphans
<1>2. \A c \in calls : Typed(orphan(c)) /\ Alike(orphan(c), c)
  BY OrphanAlike DEF CallsOK
<1> HIDE DEF orphan
<1>3. \A c : Alike(c, c)
  BY DEF Alike, Same
<1>4. \A c \in calls : orphan(c).id = c.id
  BY <1>2 DEF Alike, Same
<1>5. \A d \in calls' : Typed(d) /\ d.id <= made'
  BY <1>1, <1>2, <1>4 DEF CallsOK
<1>6. \A d, e \in calls' : d.id = e.id => d = e
  BY <1>1, <1>4 DEF CallsOK
<1>7. CallsOK'
  BY <1>5, <1>6 DEF CallsOK, Typed
<1>8. \A d \in calls' : \E c \in calls : Alike(d, c)
  BY <1>1, <1>2, <1>3
<1>9. \A c \in calls : c.stage \in {"ok", "failed"} \/ \E d \in calls' : Alike(d, c)
  BY <1>1, <1>2, <1>3
<1>10. QED
  BY <1>7, <1>8, <1>9 DEF Screens

\* A call that moved on is about the same.
LEMMA SameTyped ==
  ASSUME NEW c, Typed(c), NEW d \in Call, Same(d, c) PROVE Typed(d)
BY DEF Typed, Same

LEMMA MoveKeeps ==
  ASSUME CallsOK, NEW c \in calls, NEW d, Typed(d), Same(d, c), Move(c, d), made' = made
  PROVE  CallsOK'
<1>1. d.id = c.id /\ c.id <= made
  BY DEF CallsOK, Same
<1>2. \A e \in calls' : Typed(e) /\ e.id <= made'
  BY <1>1 DEF CallsOK, Move
<1>3. \A e, f \in calls' : e.id = f.id => e = f
  BY <1>1 DEF CallsOK, Move
<1>4. QED
  BY <1>2, <1>3 DEF CallsOK, Typed

-----------------------------------------------------------------------------
(* Type correctness. *)

TablesOK ==
  /\ archivos \subseteq Archivos
  /\ file \in [Archivos -> File \cup {Nil}]
  /\ estado \in [Archivos -> {"borrador", "firmado", Nil}]
  /\ position \in [Archivos -> 0 .. MaxCalls]
  /\ linked \subseteq archivos
  /\ members \in [Groups -> (SUBSET Archivos) \cup {Nil, NotYet}]

ScreenOK ==
  /\ page \in Pages /\ signing \in Archivos \cup {Nil}
  /\ selected \subseteq Archivos /\ chosen \subseteq Archivos

CountsOK == made \in 0 .. MaxCalls /\ others \in 0 .. MaxOthers

HistoryOK ==
  /\ promised \subseteq Archivos /\ dropped \subseteq Archivos /\ risked \subseteq Archivos
  /\ twice \subseteq Archivos /\ cutShort \subseteq Archivos
  /\ told \subseteq Groups \X Archivos /\ takenOut \subseteq Groups \X Archivos

RepositoryOK == CallsOK /\ TablesOK /\ ScreenOK /\ CountsOK /\ HistoryOK

LEMMA RepositoryIsTyped == RepositoryOK => TypeOK
<1>1. RepositoryOK => calls \subseteq Call
  BY DEF RepositoryOK, CallsOK, Typed
<1>2. QED
  BY <1>1 DEF RepositoryOK, TablesOK, ScreenOK, CountsOK, HistoryOK, TypeOK

LEMMA InitTyped == Init => RepositoryOK
<1>1. SUFFICES ASSUME Init PROVE RepositoryOK
  OBVIOUS
<1>2. CallsOK
  BY <1>1 DEF Init, CallsOK
<1>3. 0 \in 0 .. MaxCalls /\ 0 \in 0 .. MaxOthers
  BY BoundsAssumption
<1>4. Draft \in File
  BY <1>3 DEF Draft, File
<1>5. TablesOK
  BY <1>1, <1>3, <1>4 DEF Init, TablesOK
<1>6. ScreenOK /\ CountsOK /\ HistoryOK
  BY <1>1, <1>3 DEF Init, ScreenOK, CountsOK, HistoryOK, Pages
<1>7. QED
  BY <1>2, <1>5, <1>6 DEF RepositoryOK

LEMMA HappenKeeps == ASSUME CountsOK, Happen, made' = made PROVE CountsOK'
BY BoundsAssumption DEF CountsOK, Happen

LEMMA LeaveTyped == ASSUME ScreenOK, NEW p \in Pages, Leave(p) PROVE ScreenOK'
BY DEF ScreenOK, Leave

\* What the officer does to the screen, and the answers he sees.
Looks ==
  \/ \E p \in Pages : Go(p)
  \/ \E a \in Archivos : ToggleSelect(a) \/ OpenSign(a) \/ Choose(a)
  \/ CloseSign
  \/ \E c \in calls : Succeed(c) \/ Fail(c)
  \/ UNCHANGED vars

LEMMA LooksTyped ==
  ASSUME RepositoryOK, Looks PROVE RepositoryOK' /\ Screens /\ UNCHANGED table
<1>0. CallsOK /\ TablesOK /\ ScreenOK /\ CountsOK /\ HistoryOK
  BY DEF RepositoryOK
<1>1. UNCHANGED table /\ made' = made /\ others' = others
  BY DEF Looks, Go, ToggleSelect, OpenSign, Choose, CloseSign, Succeed, Fail, vars
<1>2. TablesOK' /\ CountsOK'
  BY <1>0, <1>1 DEF TablesOK, CountsOK, table
<1>3. CallsOK' /\ Screens
  <2>1. Orphans({}) = {} /\ {} \in SUBSET calls /\ calls \in SUBSET calls
    BY DEF Orphans
  <2>2. CASE calls' = calls
    <3>1. calls' = calls \cup Orphans({})
      BY <2>1, <2>2
    <3>2. QED
      BY <1>0, <1>1, <2>1, <3>1, OrphansKeep
  <2>3. CASE calls' = Orphans(calls)
    <3>1. calls' = {} \cup Orphans(calls)
      BY <2>3
    <3>2. QED
      BY <1>0, <1>1, <2>1, <3>1, OrphansKeep
  <2>4. CASE CloseSign
    <3>1. PICK S, T : S = {c \in calls : c.op # "firmar"} /\ T = {c \in calls : c.op = "firmar"}
      OBVIOUS
    <3>2. calls' = S \cup Orphans(T)
      BY <2>4, <3>1 DEF CloseSign
    <3>3. S \in SUBSET calls /\ T \in SUBSET calls /\ S \cap T = {}
          /\ \A c \in calls : c \in S \cup T
      BY <3>1
    <3>4. QED
      BY <1>0, <1>1, <3>2, <3>3, OrphansKeep
  <2>5. ASSUME NEW c \in calls, c.stage \in {"ok", "failed"},
               calls' = calls \ {c} \/ calls' = Orphans(calls \ {c})
        PROVE  CallsOK' /\ Screens
    <3>1. calls \ {c} \in SUBSET calls
          /\ \A d \in calls : d \in calls \ {c} \/ d.stage \in {"ok", "failed"}
      BY <2>5
    <3>2. CASE calls' = calls \ {c}
      <4>1. calls' = (calls \ {c}) \cup Orphans({})
        BY <2>1, <3>2
      <4>2. QED
        BY <1>0, <1>1, <2>1, <3>1, <4>1, OrphansKeep
    <3>3. CASE calls' = Orphans(calls \ {c})
      <4>1. calls' = {} \cup Orphans(calls \ {c})
        BY <3>3
      <4>2. QED
        BY <1>0, <1>1, <2>1, <3>1, <4>1, OrphansKeep
    <3>4. QED
      BY <2>5, <3>2, <3>3
  <2>6. ASSUME NEW c \in calls, Succeed(c) \/ Fail(c) PROVE CallsOK' /\ Screens
    BY <2>5, <2>6 DEF Succeed, Fail
  <2>7. QED
    BY <2>2, <2>3, <2>4, <2>6 DEF Looks, Go, ToggleSelect, OpenSign, Choose, vars
<1>4. ScreenOK' /\ HistoryOK'
  <2>1. ASSUME NEW p \in Pages, Go(p) PROVE ScreenOK' /\ HistoryOK'
    BY <1>0, <2>1, LeaveTyped DEF Go, HistoryOK, history
  <2>2. ASSUME NEW a \in Archivos, ToggleSelect(a) \/ OpenSign(a) \/ Choose(a)
        PROVE  ScreenOK' /\ HistoryOK'
    BY <1>0, <2>2 DEF ToggleSelect, OpenSign, Choose, ScreenOK, HistoryOK, history
  <2>3. CASE CloseSign
    BY <1>0, <2>3 DEF CloseSign, ScreenOK, HistoryOK, history
  <2>4. ASSUME NEW c \in calls, Succeed(c) PROVE ScreenOK' /\ HistoryOK'
    <3>1. Typed(c) /\ c.ids \subseteq Archivos
      BY <1>0 DEF CallsOK, Typed, Call
    <3>2. UNCHANGED <<dropped, risked, twice, cutShort, takenOut>>
      BY <2>4 DEF Succeed
    <3>3. "documentos" \in Pages /\ "otra" \in Pages
      BY DEF Pages
    <3>4. ASSUME Uploaded(c) \/ Signed(c) \/ Deleted(c) PROVE ScreenOK' /\ HistoryOK'
      BY <1>0, <3>2, <3>3, <3>4, LeaveTyped
      DEF Uploaded, Signed, Deleted, ScreenOK, HistoryOK
    <3>5. ASSUME Added(c) PROVE ScreenOK' /\ HistoryOK'
      <4>1. c.group \in Groups
        BY <3>1, <3>5 DEF Added, Typed
      <4>2. told' \subseteq Groups \X Archivos
        BY <1>0, <3>1, <3>5, <4>1 DEF Added, HistoryOK
      <4>3. QED
        BY <1>0, <3>2, <3>5, <4>2 DEF Added, ScreenOK, HistoryOK
    <3>6. ASSUME Registered(c) PROVE ScreenOK' /\ HistoryOK'
      BY <1>0, <3>1, <3>2, <3>3, <3>6, LeaveTyped DEF Registered, HistoryOK
    <3>7. QED
      BY <2>4, <3>4, <3>5, <3>6 DEF Succeed
  <2>5. ASSUME NEW c \in calls, Fail(c) PROVE ScreenOK' /\ HistoryOK'
    BY <1>0, <2>5 DEF Fail, ScreenOK, HistoryOK, screen, history
  <2>6. CASE UNCHANGED vars
    BY <1>0, <2>6 DEF vars, ScreenOK, HistoryOK, screen, history
  <2>7. QED
    BY <2>1, <2>2, <2>3, <2>4, <2>5, <2>6 DEF Looks
<1>5. QED
  BY <1>1, <1>2, <1>3, <1>4 DEF RepositoryOK

\* The officer makes a call: it has a new number.
Calls ==
  \/ \E a \in Archivos : Upload(a) \/ Delete(a)
  \/ Sign \/ Register
  \/ \E g \in Groups, S \in SUBSET selected : AddSelected(g, S)

\* A call that was just made.
NewCall(c) ==
  /\ Typed(c) /\ c.left = c.ids /\ c.stage = "sent"
  /\ c.id = made + 1
  /\ c.op = "subir" => estado[c.of] = Nil /\ \A d \in calls : d.of # c.of
  /\ c.op = "firmar" => c.of = signing
  /\ c.op = "eliminar" => estado[c.of] # Nil
  /\ c.op \in {"agregar", "registrar"} => c.of = Nil

LEMMA CallsTyped ==
  ASSUME RepositoryOK, Calls
  PROVE  /\ RepositoryOK' /\ UNCHANGED <<table, screen, history>>
         /\ \E c : NewCall(c) /\ calls' = calls \cup {c}
<1>0. CallsOK /\ TablesOK /\ ScreenOK /\ CountsOK /\ HistoryOK
  BY DEF RepositoryOK
<1>1. ASSUME NEW op \in {"subir", "firmar", "eliminar", "agregar", "registrar"},
             NEW a \in Archivos \cup {Nil}, NEW g \in Groups \cup {Nil},
             NEW ids \in SUBSET Archivos, Send(op, a, g, ids),
             op \in {"subir", "firmar", "eliminar"} => a \in Archivos,
             op = "agregar" => g \in Groups,
             op = "subir" => estado[a] = Nil /\ \A d \in calls : d.of # a,
             op = "firmar" => a = signing,
             op = "eliminar" => estado[a] # Nil,
             op \in {"agregar", "registrar"} => a = Nil
      PROVE  /\ UNCHANGED <<table, screen, history, others>> /\ made' = made + 1
             /\ made < MaxCalls
             /\ \E c : NewCall(c) /\ calls' = calls \cup {c}
  <2>1. PICK c : c = [id |-> made + 1, own |-> TRUE, op |-> op, of |-> a,
                      group |-> g, ids |-> ids, left |-> ids, base |-> 0, stage |-> "sent"]
    OBVIOUS
  <2>2. UNCHANGED <<table, screen, history, others>> /\ made' = made + 1
        /\ made < MaxCalls /\ calls' = calls \cup {c}
    BY <1>1, <2>1 DEF Send
  <2>3. made + 1 \in 1 .. MaxCalls
    BY <1>0, <2>2, BoundsAssumption DEF CountsOK
  <2>4. c \in Call
    BY <2>1, <2>3 DEF Call
  <2>5. c.op = op /\ c.of = a /\ c.group = g /\ c.left = c.ids /\ c.stage = "sent"
        /\ c.id = made + 1
    BY <2>1
  <2>6. NewCall(c)
    BY <1>1, <2>4, <2>5 DEF NewCall, Typed
  <2>7. QED
    BY <2>2, <2>6
<1>2. /\ UNCHANGED <<table, screen, history, others>> /\ made' = made + 1
      /\ made < MaxCalls
      /\ \E c : NewCall(c) /\ calls' = calls \cup {c}
  <2>1. ASSUME NEW a \in Archivos, Upload(a)
        PROVE  /\ UNCHANGED <<table, screen, history, others>> /\ made' = made + 1
               /\ made < MaxCalls
               /\ \E c : NewCall(c) /\ calls' = calls \cup {c}
    BY <1>1, <2>1 DEF Upload
  <2>2. ASSUME NEW a \in Archivos, Delete(a)
        PROVE  /\ UNCHANGED <<table, screen, history, others>> /\ made' = made + 1
               /\ made < MaxCalls
               /\ \E c : NewCall(c) /\ calls' = calls \cup {c}
    BY <1>1, <2>2 DEF Delete, Listed
  <2>3. ASSUME Sign
        PROVE  /\ UNCHANGED <<table, screen, history, others>> /\ made' = made + 1
               /\ made < MaxCalls
               /\ \E c : NewCall(c) /\ calls' = calls \cup {c}
    <3>1. signing \in Archivos
      BY <1>0, <2>3 DEF Sign, ScreenOK
    <3>2. QED
      BY <1>1, <2>3, <3>1 DEF Sign
  <2>4. ASSUME Register
        PROVE  /\ UNCHANGED <<table, screen, history, others>> /\ made' = made + 1
               /\ made < MaxCalls
               /\ \E c : NewCall(c) /\ calls' = calls \cup {c}
    <3>1. chosen \in SUBSET Archivos
      BY <1>0 DEF ScreenOK
    <3>2. QED
      BY <1>1, <2>4, <3>1 DEF Register
  <2>5. ASSUME NEW g \in Groups, NEW S \in SUBSET selected, AddSelected(g, S)
        PROVE  /\ UNCHANGED <<table, screen, history, others>> /\ made' = made + 1
               /\ made < MaxCalls
               /\ \E c : NewCall(c) /\ calls' = calls \cup {c}
    <3>1. S \in SUBSET Archivos
      BY <1>0 DEF ScreenOK
    <3>2. QED
      BY <1>1, <2>5, <3>1 DEF AddSelected
  <2>6. QED
    BY <2>1, <2>2, <2>3, <2>4, <2>5 DEF Calls
<1>3. CallsOK'
  <2>1. PICK c : NewCall(c) /\ calls' = calls \cup {c}
    BY <1>2
  <2>2. made \in Nat /\ \A d \in calls : d.id \in Nat /\ d.id <= made
    BY <1>0, BoundsAssumption DEF CountsOK, CallsOK, Typed, Call
  <2>3. Typed(c) /\ c.id = made + 1
    BY <2>1 DEF NewCall
  <2>4. \A d \in calls' : Typed(d) /\ d.id <= made'
    BY <1>0, <1>2, <2>1, <2>2, <2>3 DEF CallsOK
  <2>5. \A d, e \in calls' : d.id = e.id => d = e
    BY <1>0, <2>1, <2>2, <2>3 DEF CallsOK
  <2>6. QED
    BY <2>4, <2>5 DEF CallsOK, Typed
<1>4. CountsOK'
  BY <1>0, <1>2, BoundsAssumption DEF CountsOK
<1>5. TablesOK' /\ ScreenOK' /\ HistoryOK'
  BY <1>0, <1>2 DEF TablesOK, ScreenOK, HistoryOK, table, screen, history
<1>6. QED
  BY <1>2, <1>3, <1>4, <1>5 DEF RepositoryOK
-----------------------------------------------------------------------------
(* The steps of a call. *)

\* What becomes of a signature: checked with the signatures the file has, attached,
\* marked, or given up.
LEMMA SignMoves ==
  ASSUME RepositoryOK, NEW c \in calls, CheckSign(c) \/ AttachSigned(c) \/ MarkSigned(c)
  PROVE  \E d :
    /\ Typed(c) /\ Typed(d) /\ Same(d, c) /\ Move(c, d) /\ d.left = c.left
    /\ c.op = "firmar" /\ c.of \in Archivos
    /\ CheckSign(c) =>
         \/ d.stage = "failed"
         \/ /\ d.stage = "checked" /\ c.of \in archivos
            /\ estado[c.of] = "borrador" /\ file[c.of] # Nil /\ d.base = file[c.of].signs
    /\ AttachSigned(c) => d.stage = "written" /\ d.base = c.base
    /\ MarkSigned(c) => d.stage = "ok"
<1>1. Typed(c) /\ c \in Call /\ c.op = "firmar" /\ c.of \in Archivos /\ c.base \in Nat
  <2>1. Typed(c) /\ c \in Call
    BY DEF RepositoryOK, CallsOK, Typed
  <2>2. c.op = "firmar"
    BY DEF CheckSign, AttachSigned, MarkSigned
  <2>3. QED
    BY <2>1, <2>2 DEF Typed, Call
<1>2. c.stage = IF CheckSign(c) THEN "sent" ELSE IF AttachSigned(c) THEN "checked" ELSE "written"
  BY DEF CheckSign, AttachSigned, MarkSigned
<1>3. CASE CheckSign(c)
  <2>1. ~AttachSigned(c) /\ ~MarkSigned(c)
    BY <1>3 DEF CheckSign, AttachSigned, MarkSigned
  <2>2. CASE c.of \in archivos /\ estado[c.of] = "borrador" /\ file[c.of] # Nil
    <3>1. file[c.of].signs \in Nat
      BY <1>1, <2>2 DEF RepositoryOK, TablesOK, File
    <3>2. PICK n \in Nat : n = file[c.of].signs
      BY <3>1
    <3>3. Move(c, [c EXCEPT !.stage = "checked", !.base = n])
      BY <1>3, <2>2, <3>2 DEF CheckSign
    <3>4. PICK d : d = [c EXCEPT !.stage = "checked", !.base = n]
      OBVIOUS
    <3>5. d \in Call /\ Same(d, c) /\ d.stage = "checked" /\ d.base = n
      BY <1>1, <3>4 DEF Call, Same
    <3>6. d.left = c.left /\ Typed(d)
      BY <1>1, <3>4, <3>5, SameTyped DEF Call
    <3>7. QED
      BY <1>1, <2>1, <2>2, <3>2, <3>3, <3>4, <3>5, <3>6
  <2>3. CASE ~(c.of \in archivos /\ estado[c.of] = "borrador" /\ file[c.of] # Nil)
    <3>1. Move(c, [c EXCEPT !.stage = "failed"])
      BY <1>3, <2>3 DEF CheckSign, To
    <3>2. PICK d : d = [c EXCEPT !.stage = "failed"]
      OBVIOUS
    <3>3. d \in Call /\ Same(d, c) /\ d.stage = "failed" /\ d.left = c.left
      BY <1>1, <3>2 DEF Call, Same, Stages
    <3>4. Typed(d)
      BY <1>1, <3>3, SameTyped
    <3>5. QED
      BY <1>1, <2>1, <3>1, <3>2, <3>3, <3>4
  <2>4. QED
    BY <2>2, <2>3
<1>4. CASE AttachSigned(c)
  <2>1. ~CheckSign(c) /\ ~MarkSigned(c)
    BY <1>4 DEF CheckSign, AttachSigned, MarkSigned
  <2>2. Move(c, [c EXCEPT !.stage = "written"])
    BY <1>4 DEF AttachSigned, To
  <2>3. PICK d : d = [c EXCEPT !.stage = "written"]
    OBVIOUS
  <2>4. d \in Call /\ Same(d, c) /\ d.stage = "written" /\ d.left = c.left /\ d.base = c.base
    BY <1>1, <2>3 DEF Call, Same, Stages
  <2>5. Typed(d)
    BY <1>1, <2>4, SameTyped
  <2>6. QED
    BY <1>1, <2>1, <2>2, <2>3, <2>4, <2>5
<1>5. CASE MarkSigned(c)
  <2>1. ~CheckSign(c) /\ ~AttachSigned(c)
    BY <1>5 DEF CheckSign, AttachSigned, MarkSigned
  <2>2. Move(c, [c EXCEPT !.stage = "ok"])
    BY <1>5 DEF MarkSigned, To
  <2>3. PICK d : d = [c EXCEPT !.stage = "ok"]
    OBVIOUS
  <2>4. d \in Call /\ Same(d, c) /\ d.stage = "ok" /\ d.left = c.left /\ d.base = c.base
    BY <1>1, <2>3 DEF Call, Same, Stages
  <2>5. Typed(d)
    BY <1>1, <2>4, SameTyped
  <2>6. QED
    BY <1>1, <2>1, <2>2, <2>3, <2>4, <2>5
<1>6. QED
  BY <1>3, <1>4, <1>5

\* A call that goes to another stage.
LEMMA ToMoves ==
  ASSUME RepositoryOK, NEW c \in calls, NEW s \in Stages, To(c, s)
  PROVE  \E d : /\ Typed(c) /\ Typed(d) /\ Same(d, c) /\ Move(c, d)
                /\ d.stage = s /\ d.left = c.left /\ d.base = c.base
<1>1. Typed(c)
  BY DEF RepositoryOK, CallsOK
<1>2. PICK d : d = [c EXCEPT !.stage = s]
  OBVIOUS
<1>3. d \in Call /\ Same(d, c) /\ d.stage = s /\ d.left = c.left /\ d.base = c.base
  BY <1>1, <1>2 DEF Typed, Call, Same, Stages
<1>4. Typed(d)
  BY <1>1, <1>3, SameTyped
<1>5. QED
  BY <1>1, <1>2, <1>3, <1>4 DEF To

\* The batch: with the archivo in the group the batch goes on, or is done.
LEMMA AddMoves ==
  ASSUME RepositoryOK, NEW c \in calls, NEW a \in c.left, AddArchivo(c, a)
  PROVE  \E d : /\ Typed(c) /\ Typed(d) /\ Same(d, c) /\ Move(c, d)
                /\ c.op = "agregar" /\ c.group \in Groups /\ a \in Archivos
                /\ d.left = c.left \ {a}
                /\ d.stage # "failed" =>
                     /\ a \in archivos /\ c.group \in Live
                     /\ d.stage = c.stage \/ (c.stage = "sent" /\ d.stage = "ok" /\ d.left = {})
                /\ d.stage \in {c.stage, "ok", "failed"}
                /\ d.stage = "ok" => d.left = {} \/ c.stage = "ok"
<1>1. Typed(c) /\ c \in Call
  BY DEF RepositoryOK, CallsOK, Typed
<1>2. c.left \in SUBSET Archivos /\ c.stage \in Stages
  BY <1>1 DEF Call, Stages
<1>3. c.left \ {a} \in SUBSET Archivos /\ a \in Archivos
  BY <1>2
<1>4. c.op = "agregar" /\ c.group \in Groups
  BY <1>1 DEF AddArchivo, Typed
<1>5. CASE a \in archivos /\ c.group \in Live
  <2>1. PICK L, s : L = c.left \ {a}
                    /\ s = IF c.stage = "sent" /\ c.left = {a} THEN "ok" ELSE c.stage
    OBVIOUS
  <2>2. Move(c, [c EXCEPT !.left = @ \ {a},
                 !.stage = IF @ = "sent" /\ c.left = {a} THEN "ok" ELSE @])
    BY <1>5 DEF AddArchivo
  <2>3. [c EXCEPT !.left = @ \ {a}, !.stage = IF @ = "sent" /\ c.left = {a} THEN "ok" ELSE @]
          = [c EXCEPT !.left = L, !.stage = s]
    BY <1>1, <2>1 DEF Call
  <2>4. L \in SUBSET Archivos /\ s \in Stages
    BY <1>2, <1>3, <2>1 DEF Stages
  <2>5. PICK d : d = [c EXCEPT !.left = L, !.stage = s]
    OBVIOUS
  <2>6. d \in Call /\ Same(d, c) /\ d.stage = s /\ d.left = L
    BY <1>1, <2>4, <2>5 DEF Call, Same, Stages
  <2>7. Typed(d) /\ Move(c, d)
    BY <1>1, <2>2, <2>3, <2>5, <2>6, SameTyped
  <2>8. QED
    BY <1>1, <1>3, <1>4, <1>5, <2>1, <2>6, <2>7
<1>6. CASE ~(a \in archivos /\ c.group \in Live)
  <2>1. PICK L : L = c.left \ {a}
    OBVIOUS
  <2>2. Move(c, [c EXCEPT !.left = @ \ {a}, !.stage = "failed"])
    BY <1>6 DEF AddArchivo
  <2>3. [c EXCEPT !.left = @ \ {a}, !.stage = "failed"]
          = [c EXCEPT !.left = L, !.stage = "failed"]
    BY <1>1, <2>1 DEF Call
  <2>4. L \in SUBSET Archivos /\ "failed" \in Stages
    BY <1>3, <2>1 DEF Stages
  <2>5. PICK d : d = [c EXCEPT !.left = L, !.stage = "failed"]
    OBVIOUS
  <2>6. d \in Call /\ Same(d, c) /\ d.stage = "failed" /\ d.left = L
    BY <1>1, <2>4, <2>5 DEF Call, Same, Stages
  <2>7. Typed(d) /\ Move(c, d)
    BY <1>1, <2>2, <2>3, <2>5, <2>6, SameTyped
  <2>8. QED
    BY <1>1, <1>3, <1>4, <2>1, <2>6, <2>7
<1>7. QED
  BY <1>5, <1>6

\* The document: what is left to be linked exists when it is stored.
LEMMA StoreMoves ==
  ASSUME RepositoryOK, NEW c \in calls, StoreDocument(c)
  PROVE  \E d : /\ Typed(c) /\ Typed(d) /\ Same(d, c) /\ Move(c, d)
                /\ c.op = "registrar" /\ c.ids \subseteq Archivos
                /\ d.left = c.ids \cap archivos
                /\ d.stage \in {"checked", "ok"}
                /\ d.stage = "ok" => d.left = {}
<1>1. Typed(c) /\ c.ids \subseteq Archivos
  BY DEF RepositoryOK, CallsOK, Typed, Call
<1>2. PICK L, s : L = c.ids \cap archivos
                  /\ s = IF c.ids \cap archivos = {} THEN "ok" ELSE "checked"
  OBVIOUS
<1>3. Move(c, [c EXCEPT !.left = L, !.stage = s])
  BY <1>2 DEF StoreDocument
<1>4. L \in SUBSET Archivos /\ s \in Stages
  BY <1>1, <1>2 DEF Stages
<1>5. PICK d : d = [c EXCEPT !.left = L, !.stage = s]
  OBVIOUS
<1>6. d \in Call /\ Same(d, c) /\ d.stage = s /\ d.left = L
  BY <1>1, <1>4, <1>5 DEF Typed, Call, Same, Stages
<1>7. Typed(d) /\ Move(c, d)
  BY <1>1, <1>3, <1>5, <1>6, SameTyped
<1>8. QED
  BY <1>1, <1>2, <1>6, <1>7 DEF StoreDocument

LEMMA LinkMoves ==
  ASSUME RepositoryOK, NEW c \in calls, NEW a \in c.left, LinkArchivo(c, a)
  PROVE  \E d : /\ Typed(c) /\ Typed(d) /\ Same(d, c) /\ Move(c, d)
                /\ c.op = "registrar" /\ c.stage = "checked" /\ a \in Archivos
                /\ d.stage \in {"checked", "ok", "failed"}
                /\ d.stage # "failed" => a \in archivos /\ d.left = c.left \ {a}
                /\ d.stage = "ok" => d.left = {}
<1>1. Typed(c) /\ c \in Call
  BY DEF RepositoryOK, CallsOK, Typed
<1>2. c.left \ {a} \in SUBSET Archivos /\ a \in Archivos
  BY <1>1 DEF Call
<1>3. c.op = "registrar" /\ c.stage = "checked"
  BY DEF LinkArchivo
<1>4. CASE a \in archivos
  <2>1. PICK L, s : L = c.left \ {a} /\ s = IF c.left = {a} THEN "ok" ELSE "checked"
    OBVIOUS
  <2>2. Move(c, [c EXCEPT !.left = @ \ {a}, !.stage = IF c.left = {a} THEN "ok" ELSE @])
    BY <1>4 DEF LinkArchivo
  <2>3. [c EXCEPT !.left = @ \ {a}, !.stage = IF c.left = {a} THEN "ok" ELSE @]
          = [c EXCEPT !.left = L, !.stage = s]
    BY <1>1, <1>3, <2>1 DEF Call
  <2>4. L \in SUBSET Archivos /\ s \in Stages
    BY <1>2, <2>1 DEF Stages
  <2>5. PICK d : d = [c EXCEPT !.left = L, !.stage = s]
    OBVIOUS
  <2>6. d \in Call /\ Same(d, c) /\ d.stage = s /\ d.left = L
    BY <1>1, <2>4, <2>5 DEF Call, Same, Stages
  <2>7. Typed(d) /\ Move(c, d)
    BY <1>1, <2>2, <2>3, <2>5, <2>6, SameTyped
  <2>8. QED
    BY <1>1, <1>2, <1>3, <1>4, <2>1, <2>6, <2>7
<1>5. CASE a \notin archivos
  <2>1. To(c, "failed") /\ "failed" \in Stages
    BY <1>5 DEF LinkArchivo, Stages
  <2>2. PICK d : Typed(d) /\ Same(d, c) /\ Move(c, d) /\ d.stage = "failed"
    BY <2>1, ToMoves
  <2>3. QED
    BY <1>1, <1>2, <1>3, <2>2
<1>6. QED
  BY <1>4, <1>5

\* Every step of the server moves one call on.
LEMMA ServeMoves ==
  ASSUME RepositoryOK, NEW c \in calls, ServeCall(c) \/ Lose(c)
  PROVE  \E d : Typed(c) /\ Typed(d) /\ Same(d, c) /\ Move(c, d)
<1>1. ASSUME CheckSign(c) \/ AttachSigned(c) \/ MarkSigned(c)
      PROVE  \E d : Typed(c) /\ Typed(d) /\ Same(d, c) /\ Move(c, d)
  BY <1>1, SignMoves
<1>2. ASSUME NEW a \in c.left, AddArchivo(c, a)
      PROVE  \E d : Typed(c) /\ Typed(d) /\ Same(d, c) /\ Move(c, d)
  BY <1>2, AddMoves
<1>3. ASSUME NEW a \in c.left, LinkArchivo(c, a)
      PROVE  \E d : Typed(c) /\ Typed(d) /\ Same(d, c) /\ Move(c, d)
  BY <1>3, LinkMoves
<1>4. ASSUME StoreDocument(c)
      PROVE  \E d : Typed(c) /\ Typed(d) /\ Same(d, c) /\ Move(c, d)
  BY <1>4, StoreMoves
<1>5. ASSUME Create(c) \/ CheckUnlinked(c) \/ Purge(c) \/ Destroy(c) \/ Lose(c)
      PROVE  \E d : Typed(c) /\ Typed(d) /\ Same(d, c) /\ Move(c, d)
  <2>1. PICK s \in Stages : To(c, s)
    BY <1>5 DEF Create, CheckUnlinked, Purge, Destroy, Lose, Stages
  <2>2. QED
    BY <2>1, ToMoves
<1>6. QED
  BY <1>1, <1>2, <1>3, <1>4, <1>5 DEF ServeCall

\* The server keeps the types.
LEMMA ServeTyped ==
  ASSUME RepositoryOK, NEW c \in calls, ServeCall(c) \/ Lose(c)
  PROVE  RepositoryOK'
<1>0. CallsOK /\ TablesOK /\ ScreenOK /\ CountsOK /\ HistoryOK
  BY DEF RepositoryOK
<1>1. Typed(c) /\ c \in Call
  BY <1>0 DEF CallsOK, Typed
<1>2. made' = made
  BY DEF ServeCall, Lose
<1>3. CallsOK'
  BY <1>0, <1>2, ServeMoves, MoveKeeps
<1>4. ScreenOK'
  BY <1>0 DEF ServeCall, Lose, ScreenOK, screen
<1>5. CountsOK'
  <2>1. CASE ServeCall(c)
    BY <1>0, <2>1 DEF ServeCall, CountsOK
  <2>2. CASE Lose(c)
    BY <1>0, <2>2, HappenKeeps DEF Lose
  <2>3. QED
    BY <2>1, <2>2
<1>6. TablesOK' /\ HistoryOK'
  <2>1. CASE Create(c)
    <3>1. c.of \in Archivos
      BY <1>1, <2>1 DEF Create, Typed
    <3>2. Draft \in File
      BY BoundsAssumption DEF Draft, File
    <3>3. TablesOK'
      BY <1>0, <2>1, <3>1, <3>2 DEF Create, TablesOK
    <3>4. QED
      BY <1>0, <2>1, <3>3 DEF Create, HistoryOK, history
  <2>2. CASE CheckSign(c)
    <3>1. c.of \in Archivos
      BY <1>1, <2>2 DEF CheckSign, Typed
    <3>2. QED
      BY <1>0, <2>2, <3>1 DEF CheckSign, TablesOK, HistoryOK, table
  <2>3. CASE AttachSigned(c)
    <3>1. c.of \in Archivos
      BY <1>1, <2>3 DEF AttachSigned, Typed
    <3>2. c.base \in Nat /\ c.id \in 1 .. MaxCalls
      BY <1>1 DEF Call
    <3>3. [signs |-> c.base + 1, by |-> c.id] \in File
      BY <3>2, BoundsAssumption DEF File
    <3>4. PICK f \in File : f = [signs |-> c.base + 1, by |-> c.id]
      BY <3>3
    <3>5. file' = file \/ file' = [file EXCEPT ![c.of] = f]
      BY <2>3, <3>4 DEF AttachSigned
    <3>6. file' \in [Archivos -> File \cup {Nil}]
      BY <1>0, <3>1, <3>5 DEF TablesOK
    <3>7. TablesOK'
      BY <1>0, <2>3, <3>6 DEF AttachSigned, TablesOK
    <3>8. QED
      BY <1>0, <2>3, <3>7 DEF AttachSigned, HistoryOK, history
  <2>4. CASE MarkSigned(c)
    <3>1. c.of \in Archivos
      BY <1>1, <2>4 DEF MarkSigned, Typed
    <3>2. c.id \in 0 .. MaxCalls
      BY <1>1, BoundsAssumption DEF Call
    <3>3. TablesOK'
      BY <1>0, <2>4, <3>1, <3>2 DEF MarkSigned, TablesOK
    <3>4. QED
      BY <1>0, <2>4, <3>3 DEF MarkSigned, HistoryOK, history
  <2>5. CASE CheckUnlinked(c)
    BY <1>0, <2>5 DEF CheckUnlinked, TablesOK, HistoryOK, table, history
  <2>6. CASE Purge(c)
    BY <1>0, <2>6 DEF Purge, TablesOK, HistoryOK, history
  <2>7. CASE Destroy(c)
    <3>1. \A g \in Live : members[g] \in SUBSET Archivos
      BY <1>0 DEF TablesOK, Live
    <3>2. members' \in [Groups -> (SUBSET Archivos) \cup {Nil, NotYet}]
      <4>1. members' = [g \in Groups |-> IF g \in Live THEN members[g] \ {c.of}
                                         ELSE members[g]]
        BY <2>7 DEF Destroy
      <4>2. \A g \in Groups : g \in Live \/ members[g] \in (SUBSET Archivos) \cup {Nil, NotYet}
        BY <1>0 DEF TablesOK
      <4>3. \A g \in Live : members[g] \ {c.of} \in SUBSET Archivos
        BY <3>1
      <4>4. QED
        BY <1>0, <4>1, <4>3 DEF TablesOK
    <3>3. file' \in [Archivos -> File \cup {Nil}]
      BY <1>0, <2>7 DEF Destroy, TablesOK
    <3>4. archivos' = archivos \ {c.of} /\ linked' = linked \ {c.of}
          /\ estado' = estado /\ position' = position
      BY <2>7 DEF Destroy
    <3>5. TablesOK'
      BY <1>0, <3>2, <3>3, <3>4 DEF TablesOK
    <3>6. c.of \in Archivos
      BY <1>1, <2>7 DEF Destroy, Typed
    <3>7. takenOut' \subseteq Groups \X Archivos
      BY <1>0, <2>7, <3>6 DEF Destroy, HistoryOK, Live
    <3>8. QED
      BY <1>0, <2>7, <3>5, <3>7 DEF Destroy, HistoryOK
  <2>8. CASE StoreDocument(c)
    <3>1. c.ids \subseteq Archivos
      BY <1>1 DEF Call
    <3>2. QED
      BY <1>0, <2>8, <3>1 DEF StoreDocument, TablesOK, HistoryOK, table
  <2>9. ASSUME NEW a \in c.left, AddArchivo(c, a) PROVE TablesOK' /\ HistoryOK'
    <3>1. a \in Archivos
      BY <1>1 DEF Call
    <3>2. members' = members \/ (c.group \in Live /\ members' = [members EXCEPT ![c.group] = @ \cup {a}])
      BY <2>9 DEF AddArchivo
    <3>3. c.group \in Live => members[c.group] \in SUBSET Archivos
      BY <1>0 DEF TablesOK, Live
    <3>4. members' \in [Groups -> (SUBSET Archivos) \cup {Nil, NotYet}]
      BY <1>0, <3>1, <3>2, <3>3 DEF TablesOK
    <3>5. takenOut' \subseteq takenOut
      BY <2>9 DEF AddArchivo
    <3>6. TablesOK'
      BY <1>0, <2>9, <3>4 DEF AddArchivo, TablesOK
    <3>7. QED
      BY <1>0, <2>9, <3>5, <3>6 DEF AddArchivo, HistoryOK
  <2>10. ASSUME NEW a \in c.left, LinkArchivo(c, a) PROVE TablesOK' /\ HistoryOK'
    <3>1. a \in Archivos
      BY <1>1 DEF Call
    <3>2. linked' \subseteq archivos /\ risked' \subseteq Archivos
      BY <1>0, <2>10, <3>1 DEF LinkArchivo, TablesOK, HistoryOK
    <3>3. QED
      BY <1>0, <2>10, <3>2 DEF LinkArchivo, TablesOK, HistoryOK
  <2>11. CASE Lose(c)
    <3>1. cutShort' \subseteq Archivos
      BY <1>0, <1>1, <2>11 DEF Lose, Typed, HistoryOK
    <3>2. QED
      BY <1>0, <2>11, <3>1 DEF Lose, TablesOK, HistoryOK, table
  <2>12. QED
    BY <2>1, <2>2, <2>3, <2>4, <2>5, <2>6, <2>7, <2>8, <2>9, <2>10, <2>11 DEF ServeCall
<1>7. QED
  BY <1>3, <1>4, <1>5, <1>6 DEF RepositoryOK

\* The groups change.
Regroups == \E g \in Groups : CreateGroup(g) \/ \E S \in {Nil} \cup SUBSET Archivos : ShrinkGroup(g, S)

LEMMA RegroupsTyped ==
  ASSUME RepositoryOK, Regroups
  PROVE  /\ RepositoryOK' /\ calls' = calls /\ signing' = signing
         /\ UNCHANGED <<archivos, file, estado, position, linked>>
         /\ UNCHANGED <<promised, dropped, risked, twice, cutShort, told>>
<1>0. CallsOK /\ TablesOK /\ ScreenOK /\ CountsOK /\ HistoryOK
  BY DEF RepositoryOK
<1>1. /\ calls' = calls /\ made' = made /\ UNCHANGED screen /\ Happen
      /\ UNCHANGED <<archivos, file, estado, position, linked>>
      /\ UNCHANGED <<promised, dropped, risked, twice, cutShort, told>>
  BY DEF Regroups, CreateGroup, ShrinkGroup, history
<1>2. CallsOK' /\ ScreenOK' /\ CountsOK'
  BY <1>0, <1>1, HappenKeeps DEF CallsOK, Typed, ScreenOK, screen
<1>3. /\ members' \in [Groups -> (SUBSET Archivos) \cup {Nil, NotYet}]
      /\ takenOut' \subseteq Groups \X Archivos
  <2>1. ASSUME NEW g \in Groups, CreateGroup(g)
        PROVE  /\ members' \in [Groups -> (SUBSET Archivos) \cup {Nil, NotYet}]
               /\ takenOut' \subseteq Groups \X Archivos
    BY <1>0, <2>1 DEF CreateGroup, TablesOK, HistoryOK, history
  <2>2. ASSUME NEW g \in Groups, NEW S \in {Nil} \cup SUBSET Archivos, ShrinkGroup(g, S)
        PROVE  /\ members' \in [Groups -> (SUBSET Archivos) \cup {Nil, NotYet}]
               /\ takenOut' \subseteq Groups \X Archivos
    <3>1. members' \in [Groups -> (SUBSET Archivos) \cup {Nil, NotYet}]
      BY <1>0, <2>2 DEF ShrinkGroup, TablesOK
    <3>2. members[g] \in SUBSET Archivos
      BY <1>0, <2>2 DEF ShrinkGroup, Live, TablesOK
    <3>3. takenOut' \subseteq takenOut \cup ({g} \X members[g])
      BY <2>2 DEF ShrinkGroup
    <3>4. QED
      BY <1>0, <3>1, <3>2, <3>3 DEF HistoryOK
  <2>3. QED
    BY <2>1, <2>2 DEF Regroups
<1>4. TablesOK' /\ HistoryOK'
  BY <1>0, <1>1, <1>3 DEF TablesOK, HistoryOK
<1>5. QED
  BY <1>1, <1>2, <1>4 DEF RepositoryOK, screen

\* The steps there are.
LEMMA Steps ==
  ASSUME [Next]_vars
  PROVE  \/ Looks \/ Calls \/ Regroups
         \/ \E c \in calls : ServeCall(c) \/ Lose(c)
BY DEF Next, Officer, Looks, Calls, Regroups

LEMMA RepositoryStep == RepositoryOK /\ [Next]_vars => RepositoryOK'
BY Steps, LooksTyped, CallsTyped, RegroupsTyped, ServeTyped

LEMMA StaysTyped == Spec => []RepositoryOK
BY InitTyped, RepositoryStep, PTL DEF Spec

\* The tables, the screen and the calls stay typed, and only archivos that exist are
\* linked to documents.
THEOREM RepositoryTypeCorrect == Spec => []TypeOK
BY StaysTyped, RepositoryIsTyped, PTL
-----------------------------------------------------------------------------
(* Uploads. *)

\* Until it is uploaded an archivo is in no table, nobody signs or deletes it, and
\* one call uploads it.
UploadInv ==
  /\ \A a \in Archivos : estado[a] = Nil => position[a] = 0 /\ a \notin archivos
  /\ signing # Nil => estado[signing] # Nil
  /\ \A c \in calls : c.op \in {"firmar", "eliminar"} => estado[c.of] # Nil
  /\ \A c \in calls : c.op = "subir" /\ c.stage = "sent" =>
       estado[c.of] = Nil /\ \A d \in calls : d.of = c.of => d.id = c.id

\* What the server does to the rows: Create alone gives a state to an archivo that
\* had none.
LEMMA RowsOfServe ==
  ASSUME RepositoryOK, UploadInv, NEW c \in calls, ServeCall(c) \/ Lose(c), NEW a \in Archivos
  PROVE  /\ estado'[a] = Nil =>
              estado[a] = Nil /\ position'[a] = position[a] /\ (a \in archivos' => a \in archivos)
         /\ estado[a] = Nil => estado'[a] = Nil \/ (Create(c) /\ a = c.of)
<1>0. TablesOK /\ Typed(c)
  BY DEF RepositoryOK, CallsOK
<1>1. estado \in [Archivos -> {"borrador", "firmado", Nil}] /\ position \in [Archivos -> 0 .. MaxCalls]
  BY <1>0 DEF TablesOK
<1>2. Nil # "borrador" /\ Nil # "firmado"
  BY MarksAssumption
<1>3. CASE Create(c)
  <2>1. estado' = [estado EXCEPT ![c.of] = "borrador"] /\ position' = position
        /\ archivos' = archivos \cup {c.of}
    BY <1>3 DEF Create
  <2>2. QED
    BY <1>1, <1>2, <1>3, <2>1
<1>4. CASE MarkSigned(c)
  <2>1. c.of \in Archivos
    BY <1>0, <1>4 DEF MarkSigned, Typed
  <2>2. \/ estado' = estado /\ position' = position
        \/ /\ c.of \in archivos /\ estado' = [estado EXCEPT ![c.of] = "firmado"]
           /\ position' = [position EXCEPT ![c.of] = c.id]
    BY <1>4 DEF MarkSigned
  <2>3. archivos' = archivos
    BY <1>4 DEF MarkSigned
  <2>4. c.of \in archivos => estado[c.of] # Nil
    BY <2>1 DEF UploadInv
  <2>5. CASE a = c.of
    BY <1>1, <1>2, <2>1, <2>2, <2>3, <2>4, <2>5
  <2>6. CASE a # c.of
    BY <1>1, <2>1, <2>2, <2>3, <2>6
  <2>7. QED
    BY <2>5, <2>6
<1>5. CASE ~Create(c) /\ ~MarkSigned(c)
  <2>1. estado' = estado /\ position' = position /\ archivos' \subseteq archivos
    BY <1>5 DEF ServeCall, Lose, CheckSign, AttachSigned, CheckUnlinked, Purge, Destroy,
       StoreDocument, AddArchivo, LinkArchivo, table
  <2>2. QED
    BY <2>1
<1>6. QED
  BY <1>3, <1>4, <1>5

\* Only the officer's calls wait for the server.
LEMMA ServedUpload ==
  ASSUME RepositoryOK, NEW c \in calls, ServeCall(c) \/ Lose(c)
  PROVE  \E d : /\ Typed(c) /\ Same(d, c) /\ Move(c, d)
                /\ d.op = "subir" => d.stage # "sent"
                /\ c.op = "subir" => c.stage = "sent" \/ Lose(c)
<1>1. CASE c.op # "subir"
  BY <1>1, ServeMoves DEF Same
<1>2. CASE c.op = "subir"
  <2>1. PICK s \in Stages : To(c, s) /\ s # "sent"
    BY <1>2 DEF ServeCall, Create, CheckSign, AttachSigned, MarkSigned, CheckUnlinked,
       Purge, Destroy, StoreDocument, AddArchivo, LinkArchivo, Lose, Stages
  <2>2. PICK d : Typed(c) /\ Same(d, c) /\ Move(c, d) /\ d.stage = s
    BY <2>1, ToMoves
  <2>3. c.stage = "sent" \/ Lose(c)
    BY <1>2 DEF ServeCall, Create, CheckSign, AttachSigned, MarkSigned, CheckUnlinked,
       Purge, Destroy, StoreDocument, AddArchivo, LinkArchivo
  <2>4. QED
    BY <2>1, <2>2, <2>3
<1>3. QED
  BY <1>1, <1>2

LEMMA UploadStep == ASSUME RepositoryOK, UploadInv, [Next]_vars PROVE UploadInv'
<1>0. /\ \A c \in calls : Typed(c) /\ c.id \in Nat /\ c.id <= made
      /\ \A c, d \in calls : c.id = d.id => c = d
      /\ made \in Nat /\ signing \in Archivos \cup {Nil}
  BY BoundsAssumption DEF RepositoryOK, CallsOK, Typed, Call, CountsOK, ScreenOK
<1>1. CASE Looks
  <2>1. Screens /\ UNCHANGED <<archivos, estado, position>>
    BY <1>1, LooksTyped DEF table
  <2>2. signing' # Nil => estado[signing'] # Nil
    <3>1. signing' \in {signing, Nil} \/ estado[signing'] # Nil
      BY <1>1 DEF Looks, Go, Leave, ToggleSelect, OpenSign, Listed, Choose, CloseSign, Succeed,
         Fail, Uploaded, Signed, Deleted, Added, Registered, vars, screen
    <3>2. QED
      BY <3>1 DEF UploadInv
  <2>3. \A d \in calls' : d.op \in {"firmar", "eliminar"} => estado[d.of] # Nil
    BY <2>1 DEF Screens, Alike, Same, UploadInv
  <2>4. ASSUME NEW d \in calls', d.op = "subir", d.stage = "sent"
        PROVE  estado[d.of] = Nil /\ \A e \in calls' : e.of = d.of => e.id = d.id
    <3>1. PICK c \in calls : Alike(d, c)
      BY <2>1 DEF Screens
    <3>2. estado[c.of] = Nil /\ \A e \in calls : e.of = c.of => e.id = c.id
      BY <2>4, <3>1 DEF Alike, Same, UploadInv
    <3>3. \A e \in calls' : \E f \in calls : f.of = e.of /\ f.id = e.id
      BY <2>1 DEF Screens, Alike, Same
    <3>4. d.of = c.of /\ d.id = c.id
      BY <3>1 DEF Alike, Same
    <3>5. QED
      BY <3>2, <3>3, <3>4
  <2>5. QED
    BY <2>1, <2>2, <2>3, <2>4 DEF UploadInv
<1>2. CASE Calls
  <2>1. UNCHANGED <<archivos, estado, position, signing>>
    BY <1>2, CallsTyped DEF table, screen
  <2>2. PICK c : NewCall(c) /\ calls' = calls \cup {c}
    BY <1>2, CallsTyped
  <2>3. c.op \in {"firmar", "eliminar"} => estado[c.of] # Nil
    <3>1. c.op = "firmar" => c.of = signing /\ c.of \in Archivos
      BY <2>2 DEF NewCall, Typed
    <3>2. QED
      BY <2>2, <3>1, NilAssumption DEF NewCall, UploadInv
  <2>4. c.op = "subir" => estado[c.of] = Nil /\ \A d \in calls : d.of # c.of
    BY <2>2 DEF NewCall
  <2>5. \A d \in calls : d.op = "subir" /\ d.stage = "sent" => c.of # d.of
    <3>1. SUFFICES ASSUME NEW d \in calls, d.op = "subir", d.stage = "sent", c.of = d.of PROVE FALSE
      OBVIOUS
    <3>2. estado[d.of] = Nil /\ d.of \in Archivos
      BY <1>0, <3>1 DEF UploadInv, Typed
    <3>3. c.op \in {"subir", "firmar", "eliminar"}
      <4>1. c.op \in {"agregar", "registrar"} => c.of = Nil
        BY <2>2 DEF NewCall
      <4>2. QED
        BY <2>2, <3>1, <3>2, <4>1, NilAssumption DEF NewCall, Typed, Call
    <3>4. QED
      BY <2>3, <2>4, <3>1, <3>2, <3>3
  <2>6. QED
    BY <2>1, <2>2, <2>3, <2>4, <2>5 DEF UploadInv
<1>3. CASE Regroups
  BY <1>3, RegroupsTyped DEF UploadInv
<1>4. ASSUME NEW c \in calls, ServeCall(c) \/ Lose(c) PROVE UploadInv'
  <2>1. PICK d : /\ Typed(c) /\ Same(d, c) /\ Move(c, d)
                 /\ d.op = "subir" => d.stage # "sent"
    BY <1>4, ServedUpload
  <2>2. signing' = signing
    BY <1>4 DEF ServeCall, Lose, screen
  <2>3. \A a \in Archivos :
          /\ estado'[a] = Nil =>
               estado[a] = Nil /\ position'[a] = position[a] /\ (a \in archivos' => a \in archivos)
          /\ estado[a] = Nil => estado'[a] = Nil \/ (Create(c) /\ a = c.of)
    BY <1>4, RowsOfServe
  <2>4. \A e \in calls' : e = d \/ (e \in calls /\ e # c)
    BY <2>1 DEF Move
  <2>5. ASSUME NEW e \in calls', e.op \in {"firmar", "eliminar"} PROVE estado'[e.of] # Nil
    <3>1. PICK f \in calls : f.op = e.op /\ f.of = e.of
      BY <2>1, <2>4 DEF Same
    <3>2. f.of \in Archivos /\ estado[f.of] # Nil
      BY <1>0, <2>5, <3>1 DEF Typed, UploadInv
    <3>3. QED
      BY <2>3, <3>1, <3>2
  <2>6. ASSUME NEW e \in calls', e.op = "subir", e.stage = "sent"
        PROVE  estado'[e.of] = Nil /\ \A f \in calls' : f.of = e.of => f.id = e.id
    <3>1. e \in calls /\ e # c
      BY <2>1, <2>4, <2>6
    <3>2. e.of \in Archivos /\ estado[e.of] = Nil /\ \A f \in calls : f.of = e.of => f.id = e.id
      BY <1>0, <2>6, <3>1 DEF Typed, UploadInv
    <3>3. c.of # e.of
      BY <1>0, <3>1, <3>2
    <3>4. estado'[e.of] = Nil
      BY <2>3, <3>2, <3>3
    <3>5. d.of = c.of
      BY <2>1 DEF Same
    <3>6. QED
      BY <2>4, <3>2, <3>3, <3>4, <3>5
  <2>7. \A a \in Archivos : estado'[a] = Nil => position'[a] = 0 /\ a \notin archivos'
    BY <2>3 DEF UploadInv
  <2>8. signing' # Nil => estado'[signing'] # Nil
    BY <1>0, <2>2, <2>3 DEF UploadInv
  <2>9. QED
    BY <2>5, <2>6, <2>7, <2>8 DEF UploadInv
<1>5. QED
  BY <1>1, <1>2, <1>3, <1>4, Steps

LEMMA UploadInit == Init => UploadInv
BY NilAssumption, MarksAssumption DEF Init, UploadInv

LEMMA UploadsHold == Spec => []UploadInv
<1>1. RepositoryOK /\ UploadInv /\ [Next]_vars => UploadInv'
  BY UploadStep
<1>2. QED
  BY <1>1, UploadInit, StaysTyped, PTL DEF Spec
-----------------------------------------------------------------------------
(* Groups. *)

Holds(g, a) == <<g, a>> \in takenOut \/ (g \in Live /\ a \in members[g])

\* A batch that has not failed added what it has served.
GroupInv ==
  /\ \A p \in told : Holds(p[1], p[2])
  /\ \A c \in calls : c.op = "agregar" /\ c.stage \in {"sent", "ok"} =>
       /\ \A a \in c.ids \ c.left : Holds(c.group, a)
       /\ c.stage = "ok" => c.left = {}

\* What a group holds it holds, or it was taken out of it.
LEMMA HoldsStays ==
  ASSUME RepositoryOK, [Next]_vars, NEW g \in Groups, NEW a \in Archivos, Holds(g, a)
  PROVE  Holds(g, a)'
<1>0. /\ members \in [Groups -> (SUBSET Archivos) \cup {Nil, NotYet}]
      /\ \A S \in SUBSET Archivos : S \notin {Nil, NotYet}
  BY MarksAssumption DEF RepositoryOK, TablesOK
<1>1. CASE UNCHANGED <<members, takenOut>>
  BY <1>1 DEF Holds, Live
<1>2. ASSUME NEW c \in calls, Destroy(c) PROVE Holds(g, a)'
  <2>1. members' = [h \in Groups |-> IF h \in Live THEN members[h] \ {c.of} ELSE members[h]]
        /\ takenOut' = takenOut \cup {<<h, c.of>> : h \in {h \in Live : c.of \in members[h]}}
    BY <1>2 DEF Destroy
  <2>2. CASE <<g, a>> \in takenOut
    BY <2>1, <2>2 DEF Holds
  <2>3. CASE g \in Live /\ a \in members[g] /\ a = c.of
    BY <2>1, <2>3 DEF Holds
  <2>4. CASE g \in Live /\ a \in members[g] /\ a # c.of
    <3>1. members[g] \in SUBSET Archivos
      BY <1>0, <2>4 DEF Live
    <3>2. members'[g] = members[g] \ {c.of}
      BY <2>1, <2>4
    <3>3. members'[g] \in SUBSET Archivos /\ a \in members'[g]
      BY <2>4, <3>1, <3>2
    <3>4. QED
      BY <1>0, <3>3 DEF Holds, Live
  <2>5. QED
    BY <2>2, <2>3, <2>4 DEF Holds
<1>3. ASSUME NEW c \in calls, NEW b \in c.left, AddArchivo(c, b) PROVE Holds(g, a)'
  <2>1. CASE b \in archivos /\ c.group \in Live
    <3>1. members' = [members EXCEPT ![c.group] = @ \cup {b}]
          /\ takenOut' = takenOut \ {<<c.group, b>>}
      BY <1>3, <2>1 DEF AddArchivo
    <3>2. c.group \in Groups /\ members[c.group] \in SUBSET Archivos /\ b \in Archivos
      BY <1>0, <2>1 DEF Live, RepositoryOK, TablesOK
    <3>3. CASE g = c.group
      <4>1. members'[g] = members[g] \cup {b}
        BY <1>0, <3>1, <3>2, <3>3
      <4>2. members'[g] \in SUBSET Archivos
        BY <3>2, <3>3, <4>1
      <4>3. g \in Live'
        BY <1>0, <4>2 DEF Live
      <4>4. CASE a = b \/ a \in members[g]
        BY <4>1, <4>3, <4>4 DEF Holds
      <4>5. CASE a # b /\ <<g, a>> \in takenOut
        BY <3>1, <4>5 DEF Holds
      <4>6. QED
        BY <4>4, <4>5 DEF Holds
    <3>4. CASE g # c.group
      <4>1. members'[g] = members[g] /\ (<<g, a>> \in takenOut => <<g, a>> \in takenOut')
        BY <1>0, <3>1, <3>2, <3>4
      <4>2. QED
        BY <4>1 DEF Holds, Live
    <3>5. QED
      BY <3>3, <3>4
  <2>2. CASE ~(b \in archivos /\ c.group \in Live)
    <3>1. UNCHANGED <<members, takenOut>>
      BY <1>3, <2>2 DEF AddArchivo
    <3>2. QED
      BY <1>1, <3>1
  <2>3. QED
    BY <2>1, <2>2
<1>4. ASSUME NEW h \in Groups, CreateGroup(h) PROVE Holds(g, a)'
  <2>1. members' = [members EXCEPT ![h] = {}] /\ takenOut' = takenOut /\ h \notin Live
    BY <1>4 DEF CreateGroup, history, Live
  <2>2. g \in Live => members'[g] = members[g]
    BY <1>0, <2>1
  <2>3. QED
    BY <2>1, <2>2 DEF Holds, Live
<1>5. ASSUME NEW h \in Groups, NEW S \in {Nil} \cup SUBSET Archivos, ShrinkGroup(h, S)
      PROVE  Holds(g, a)'
  <2>1. members' = [members EXCEPT ![h] = S]
        /\ takenOut' = takenOut \cup ({h} \X (IF S = Nil THEN members[h] ELSE members[h] \ S))
    BY <1>5 DEF ShrinkGroup
  <2>2. CASE <<g, a>> \in takenOut
    BY <2>1, <2>2 DEF Holds
  <2>3. CASE g \in Live /\ a \in members[g] /\ g # h
    BY <1>0, <2>1, <2>3 DEF Holds, Live
  <2>4. CASE g = h /\ a \in members[g] /\ (S = Nil \/ a \notin S)
    BY <2>1, <2>4 DEF Holds
  <2>5. CASE g = h /\ S # Nil /\ a \in S
    <3>1. members'[g] = S /\ S \in SUBSET Archivos
      BY <1>0, <2>1, <2>5
    <3>2. QED
      BY <1>0, <2>5, <3>1 DEF Holds, Live
  <2>6. QED
    BY <2>2, <2>3, <2>4, <2>5 DEF Holds
<1>6. ASSUME NEW c \in calls, ServeCall(c) \/ Lose(c) PROVE Holds(g, a)'
  <2>1. CASE Destroy(c)
    BY <1>2, <2>1
  <2>2. CASE \E b \in c.left : AddArchivo(c, b)
    BY <1>3, <2>2
  <2>3. CASE ~Destroy(c) /\ ~\E b \in c.left : AddArchivo(c, b)
    <3>1. UNCHANGED <<members, takenOut>>
      BY <1>6, <2>3 DEF ServeCall, Lose, Create, CheckSign, AttachSigned, MarkSigned,
         CheckUnlinked, Purge, StoreDocument, LinkArchivo, table, history
    <3>2. QED
      BY <1>1, <3>1
  <2>4. QED
    BY <2>1, <2>2, <2>3
<1>7. CASE Looks
  <2>1. UNCHANGED table /\ takenOut' = takenOut
    BY <1>7 DEF Looks, Go, ToggleSelect, OpenSign, Choose, CloseSign, Succeed, Fail, history, vars
  <2>2. QED
    BY <1>1, <2>1 DEF table
<1>8. CASE Calls
  BY <1>1, <1>8, CallsTyped DEF table, history
<1>9. CASE Regroups
  BY <1>4, <1>5, <1>9 DEF Regroups
<1>10. QED
  BY <1>6, <1>7, <1>8, <1>9, Steps

LEMMA GroupStep == ASSUME RepositoryOK, GroupInv, [Next]_vars PROVE GroupInv'
<1>0. \A c \in calls : Typed(c) /\ c.ids \subseteq Archivos
  BY DEF RepositoryOK, CallsOK, Typed, Call
<1>1. \A g \in Groups, a \in Archivos : Holds(g, a) => Holds(g, a)'
  BY HoldsStays
<1>2. told \subseteq Groups \X Archivos
  BY DEF RepositoryOK, HistoryOK
<1>3. \A p \in told : Holds(p[1], p[2])'
  BY <1>1, <1>2 DEF GroupInv
<1>4. ASSUME NEW c \in calls, c.op = "agregar", c.stage \in {"sent", "ok"}, NEW a \in c.ids \ c.left
      PROVE  Holds(c.group, a)'
  BY <1>0, <1>1, <1>4 DEF GroupInv, Typed
<1>5. ASSUME NEW d, NEW c \in calls, Alike(d, c), d.op = "agregar", d.stage \in {"sent", "ok"}
      PROVE  /\ \A a \in d.ids \ d.left : Holds(d.group, a)'
             /\ d.stage = "ok" => d.left = {}
  BY <1>4, <1>5 DEF GroupInv, Alike, Same
<1>6. \A c : Alike(c, c)
  BY DEF Alike, Same
<1>7. CASE Looks
  <2>1. Screens
    BY <1>7, LooksTyped
  <2>2. \A p \in told' : Holds(p[1], p[2])'
    <3>1. CASE told' = told
      BY <1>3, <3>1
    <3>2. ASSUME NEW c \in calls, c.stage = "ok", Added(c) PROVE \A p \in told' : Holds(p[1], p[2])'
      <4>1. c.op = "agregar" /\ c.left = {}
        BY <3>2 DEF Added, GroupInv
      <4>2. told' = told \cup ({c.group} \X c.ids)
        BY <3>2 DEF Added
      <4>3. \A a \in c.ids : Holds(c.group, a)'
        BY <1>4, <3>2, <4>1
      <4>4. QED
        BY <1>3, <4>2, <4>3
    <3>3. QED
      BY <1>7, <3>1, <3>2 DEF Looks, Go, ToggleSelect, OpenSign, Choose, CloseSign, Succeed, Fail,
         Uploaded, Signed, Deleted, Registered, history, vars
  <2>3. QED
    BY <1>5, <2>1, <2>2 DEF Screens, GroupInv
<1>8. CASE Calls
  <2>1. PICK c : NewCall(c) /\ calls' = calls \cup {c}
    BY <1>8, CallsTyped
  <2>2. told' = told
    BY <1>8, CallsTyped DEF history
  <2>3. c.left = c.ids /\ c.stage = "sent"
    BY <2>1 DEF NewCall
  <2>4. QED
    BY <1>3, <1>5, <1>6, <2>1, <2>2, <2>3 DEF GroupInv
<1>9. CASE Regroups
  <2>1. calls' = calls /\ told' = told
    BY <1>9, RegroupsTyped
  <2>2. QED
    BY <1>3, <1>5, <1>6, <2>1 DEF GroupInv
<1>10. ASSUME NEW c \in calls, ServeCall(c) \/ Lose(c) PROVE GroupInv'
  <2>1. told' = told
    BY <1>10 DEF ServeCall, Lose, Create, CheckSign, AttachSigned, MarkSigned,
         CheckUnlinked, Purge, Destroy, StoreDocument, AddArchivo, LinkArchivo, table, history
  <2>2. \E d : /\ Move(c, d)
               /\ d.op = "agregar" /\ d.stage \in {"sent", "ok"} =>
                    /\ \A a \in d.ids \ d.left : Holds(d.group, a)'
                    /\ d.stage = "ok" => d.left = {}
    <3>1. ASSUME NEW a \in c.left, AddArchivo(c, a)
          PROVE \E d : /\ Move(c, d)
                       /\ d.op = "agregar" /\ d.stage \in {"sent", "ok"} =>
                            /\ \A b \in d.ids \ d.left : Holds(d.group, b)'
                            /\ d.stage = "ok" => d.left = {}
      <4>1. PICK d : /\ Same(d, c) /\ Move(c, d)
                     /\ c.op = "agregar" /\ c.group \in Groups /\ a \in Archivos
                     /\ d.left = c.left \ {a}
                     /\ d.stage # "failed" =>
                          /\ a \in archivos /\ c.group \in Live
                          /\ d.stage = c.stage \/ (c.stage = "sent" /\ d.stage = "ok" /\ d.left = {})
        BY <3>1, AddMoves
      <4>2. CASE d.stage \notin {"sent", "ok"}
        BY <4>1, <4>2
      <4>3. CASE d.stage \in {"sent", "ok"}
        <5>1. c.stage \in {"sent", "ok"} /\ (d.stage = "ok" => d.left = {})
          <6>1. c.stage = "ok" => c.left = {}
            BY <4>1 DEF GroupInv
          <6>2. QED
            BY <4>1, <4>3, <6>1
        <5>2. Holds(c.group, a)'
          <6>1. members' = [members EXCEPT ![c.group] = @ \cup {a}]
            BY <3>1, <4>1, <4>3 DEF AddArchivo
          <6>2. members[c.group] \in SUBSET Archivos /\ members \in [Groups -> (SUBSET Archivos) \cup {Nil, NotYet}]
            BY <4>1, <4>3 DEF RepositoryOK, TablesOK, Live
          <6>3. members'[c.group] = members[c.group] \cup {a}
            BY <4>1, <6>1, <6>2
          <6>4. members'[c.group] \in SUBSET Archivos
            BY <4>1, <6>2, <6>3
          <6>5. QED
            BY <4>1, <6>3, <6>4, MarksAssumption DEF Holds, Live
        <5>3. \A b \in c.ids \ c.left : Holds(c.group, b)'
          BY <1>4, <4>1, <5>1
        <5>4. \A b \in d.ids \ d.left : b = a \/ b \in c.ids \ c.left
          BY <4>1 DEF Same
        <5>5. d.group = c.group
          BY <4>1 DEF Same
        <5>6. QED
          BY <4>1, <5>1, <5>2, <5>3, <5>4, <5>5
      <4>4. QED
        BY <4>2, <4>3
    <3>2. CASE c.op # "agregar"
      BY <1>10, <3>2, ServeMoves DEF Same
    <3>3. CASE Lose(c)
      <4>1. To(c, "failed") /\ "failed" \in Stages
        BY <3>3 DEF Lose, Stages
      <4>2. PICK d : Move(c, d) /\ d.stage = "failed"
        BY <4>1, ToMoves
      <4>3. QED
        BY <4>2
    <3>4. QED
      BY <1>10, <3>1, <3>2, <3>3 DEF ServeCall, Create, CheckSign, AttachSigned, MarkSigned,
         CheckUnlinked, Purge, Destroy, StoreDocument, LinkArchivo
  <2>3. PICK d : /\ Move(c, d)
                 /\ d.op = "agregar" /\ d.stage \in {"sent", "ok"} =>
                      /\ \A a \in d.ids \ d.left : Holds(d.group, a)'
                      /\ d.stage = "ok" => d.left = {}
    BY <2>2
  <2>4. \A e \in calls' : e = d \/ e \in calls
    BY <2>3 DEF Move
  <2>5. \A e \in calls' : e.op = "agregar" /\ e.stage \in {"sent", "ok"} =>
                      /\ \A a \in e.ids \ e.left : Holds(e.group, a)'
                      /\ e.stage = "ok" => e.left = {}
    BY <1>5, <1>6, <2>3, <2>4
  <2>6. QED
    BY <1>3, <2>1, <2>5 DEF GroupInv
<1>11. QED
  BY <1>7, <1>8, <1>9, <1>10, Steps

LEMMA GroupsHold == Spec => []GroupInv
<1>1. Init => GroupInv
  BY DEF Init, GroupInv
<1>2. RepositoryOK /\ GroupInv /\ [Next]_vars => GroupInv'
  BY GroupStep
<1>3. QED
  BY <1>1, <1>2, StaysTyped, PTL DEF Spec

\* "n documento(s) agregados al grupo": what a batch reported as added is in the
\* group, or was taken out of it after it had been added, whatever other calls of the
\* batch, deletions and other pages did meanwhile.
THEOREM GroupsKeepWhatWasAdded == Spec => []GroupsHoldWhatWasAdded
<1>1. RepositoryOK /\ GroupInv => GroupsHoldWhatWasAdded
  <2>1. SUFFICES ASSUME RepositoryOK, GroupInv, NEW p \in told \ takenOut
        PROVE  p[1] \in Live /\ p[2] \in members[p[1]]
    BY DEF GroupsHoldWhatWasAdded
  <2>2. p = <<p[1], p[2]>>
    BY <2>1 DEF RepositoryOK, HistoryOK
  <2>3. Holds(p[1], p[2]) /\ <<p[1], p[2]>> \notin takenOut
    BY <2>1, <2>2 DEF GroupInv
  <2>4. QED
    BY <2>3 DEF Holds
<1>2. QED
  BY <1>1, GroupsHold, StaysTyped, PTL
-----------------------------------------------------------------------------
(* Links. *)

\* What is linked has its file and is not being deleted; what a registration has
\* served of its choice is linked, or was gone before.
LinkInv ==
  /\ \A a \in linked \ risked : file[a] # Nil /\ Underway("eliminar", a) = {}
  /\ promised \ (dropped \cup risked) \subseteq linked
  /\ \A c \in calls : c.op = "registrar" /\ c.stage \in {"checked", "ok"} =>
       /\ (c.ids \ c.left) \ (dropped \cup risked) \subseteq linked
       /\ c.stage = "ok" => c.left = {}

\* A call that moves on changes what is under way for its own kind and archivo, and
\* only when it passes its checks or ends.
LEMMA UnderwayKeeps ==
  ASSUME NEW c \in calls, NEW d, Same(d, c), Move(c, d), NEW op, NEW a,
         \/ c.op # op \/ c.of # a
         \/ c.stage \notin {"checked", "written"} /\ d.stage \notin {"checked", "written"}
  PROVE  Underway(op, a)' = Underway(op, a)
<1>1. \A e \in calls' : e = d \/ (e \in calls /\ e # c)
  BY DEF Move
<1>2. \A e \in calls : e = c \/ e \in calls'
  BY DEF Move
<1>3. c \notin Underway(op, a) /\ d \notin Underway(op, a)'
  BY DEF Underway, Same
<1>4. QED
  BY <1>1, <1>2, <1>3 DEF Underway

\* What is done for a deletion that is not past its check finds nothing under way.
LEMMA UnderwayEnds ==
  ASSUME NEW c \in calls, NEW d, Same(d, c), Move(c, d), NEW op, NEW a,
         d.op # op \/ d.of # a \/ d.stage \notin {"checked", "written"},
         Underway(op, a) = {}
  PROVE  Underway(op, a)' = {}
BY DEF Underway, Move, Same

LEMMA UnderwayAlike ==
  ASSUME Screens, NEW op, NEW a
  PROVE  /\ \A d \in Underway(op, a)' : \E c \in Underway(op, a) : Alike(d, c)
         /\ \A c \in Underway(op, a) : \E d \in Underway(op, a)' : Alike(d, c)
<1>1. \A d, c : Alike(d, c) => d.op = c.op /\ d.of = c.of /\ d.stage = c.stage
  BY DEF Alike, Same
<1>2. ASSUME NEW d \in Underway(op, a)' PROVE \E c \in Underway(op, a) : Alike(d, c)
  <2>1. d \in calls' /\ d.op = op /\ d.of = a /\ d.stage \in {"checked", "written"}
    BY DEF Underway
  <2>2. PICK c \in calls : Alike(d, c)
    BY <2>1 DEF Screens
  <2>3. QED
    BY <1>1, <2>1, <2>2 DEF Underway
<1>3. ASSUME NEW c \in Underway(op, a) PROVE \E d \in Underway(op, a)' : Alike(d, c)
  <2>1. c \in calls /\ c.op = op /\ c.of = a /\ c.stage \in {"checked", "written"}
    BY DEF Underway
  <2>2. PICK d \in calls' : Alike(d, c)
    BY <2>1 DEF Screens
  <2>3. QED
    BY <1>1, <2>1, <2>2 DEF Underway
<1>4. QED
  BY <1>2, <1>3

\* The deletion of an archivo is past its check only when it is in no document.
LEMMA ServeKeepsFiles ==
  ASSUME RepositoryOK, LinkInv, NEW c \in calls, ServeCall(c) \/ Lose(c),
         NEW a \in linked' \ risked'
  PROVE  file'[a] # Nil /\ Underway("eliminar", a)' = {}
<1>0. /\ archivos \subseteq Archivos /\ linked \subseteq archivos
      /\ file \in [Archivos -> File \cup {Nil}] /\ Typed(c) /\ c \in Call
  BY DEF RepositoryOK, TablesOK, CallsOK, Typed
<1>1. ASSUME NEW b \in c.left, LinkArchivo(c, b)
      PROVE  file'[a] # Nil /\ Underway("eliminar", a)' = {}
  <2>1. PICK d : Same(d, c) /\ Move(c, d) /\ c.op = "registrar"
    BY <1>1, LinkMoves
  <2>2. file' = file
    BY <1>1 DEF LinkArchivo
  <2>3. file[a] # Nil /\ Underway("eliminar", a) = {}
    BY <1>1 DEF LinkArchivo, LinkInv
  <2>4. Underway("eliminar", a)' = {}
    BY <2>1, <2>3, UnderwayKeeps
  <2>5. QED
    BY <2>2, <2>3, <2>4
<1>2. CASE \A b \in c.left : ~LinkArchivo(c, b)
  <2>1. a \in linked \ risked
    BY <1>2 DEF ServeCall, Lose, Create, CheckSign, AttachSigned, MarkSigned,
       CheckUnlinked, Purge, Destroy, StoreDocument, AddArchivo, table, history
  <2>2. file[a] # Nil /\ Underway("eliminar", a) = {} /\ a \in Archivos
    BY <1>0, <2>1 DEF LinkInv
  <2>3. CASE c.op # "eliminar"
    <3>1. PICK d : Same(d, c) /\ Move(c, d)
      BY ServeMoves
    <3>2. Underway("eliminar", a)' = {}
      BY <2>2, <2>3, <3>1, UnderwayKeeps
    <3>3. file'[a] # Nil
      <4>1. file' = file \/ Create(c) \/ AttachSigned(c)
        BY <1>2, <2>3 DEF ServeCall, Lose, CheckSign, MarkSigned,
           CheckUnlinked, Purge, Destroy, StoreDocument, AddArchivo, table
      <4>2. CASE Create(c)
        <5>1. Draft \in File
          BY BoundsAssumption DEF Draft, File
        <5>2. file' = [file EXCEPT ![c.of] = Draft]
          BY <4>2 DEF Create
        <5>3. file'[a] = Draft \/ file'[a] = file[a]
          BY <1>0, <2>2, <5>2
        <5>4. QED
          BY <2>2, <5>1, <5>3, MarksAssumption
      <4>3. CASE AttachSigned(c)
        <5>1. c.base \in Nat /\ c.id \in 0 .. MaxCalls
          BY <1>0, BoundsAssumption DEF Call
        <5>2. [signs |-> c.base + 1, by |-> c.id] \in File
          BY <5>1 DEF File
        <5>3. PICK f \in File : f = [signs |-> c.base + 1, by |-> c.id]
          BY <5>2
        <5>4. file' = file \/ file' = [file EXCEPT ![c.of] = f]
          BY <4>3, <5>3 DEF AttachSigned
        <5>5. file'[a] = f \/ file'[a] = file[a]
          BY <1>0, <2>2, <5>4
        <5>6. QED
          BY <2>2, <5>3, <5>5, MarksAssumption
      <4>4. QED
        BY <2>2, <4>1, <4>2, <4>3
    <3>4. QED
      BY <3>2, <3>3
  <2>4. CASE c.op = "eliminar"
    <3>1. CheckUnlinked(c) \/ Purge(c) \/ Destroy(c) \/ Lose(c)
      BY <2>4 DEF ServeCall, Create, CheckSign, AttachSigned, MarkSigned,
         StoreDocument, AddArchivo, LinkArchivo
    <3>2. CASE CheckUnlinked(c)
      <4>1. PICK s \in Stages : To(c, s) /\ (s = "checked" => c.of \notin linked)
                                /\ s \in {"checked", "failed"}
        BY <3>2 DEF CheckUnlinked, Stages
      <4>2. PICK d : Same(d, c) /\ Move(c, d) /\ d.stage = s
        BY <4>1, ToMoves
      <4>3. d.of # a \/ d.stage \notin {"checked", "written"}
        BY <2>1, <4>1, <4>2 DEF Same
      <4>4. Underway("eliminar", a)' = {}
        BY <2>2, <4>2, <4>3, UnderwayEnds
      <4>5. file' = file
        BY <3>2 DEF CheckUnlinked, table
      <4>6. QED
        BY <2>2, <4>4, <4>5
    <3>3. CASE Purge(c) \/ Destroy(c)
      <4>1. c.stage \in {"checked", "written"}
        BY <3>3 DEF Purge, Destroy
      <4>2. c.of # a
        BY <2>2, <2>4, <4>1 DEF Underway
      <4>3. file'[a] = file[a]
        BY <1>0, <2>2, <3>3, <4>2 DEF Purge, Destroy
      <4>4. PICK d : Same(d, c) /\ Move(c, d)
        BY ServeMoves
      <4>5. Underway("eliminar", a)' = {}
        BY <2>2, <4>2, <4>4, UnderwayKeeps
      <4>6. QED
        BY <2>2, <4>3, <4>5
    <3>4. CASE Lose(c)
      <4>1. To(c, "failed") /\ "failed" \in Stages /\ file' = file
        BY <3>4 DEF Lose, Stages, table
      <4>2. PICK d : Same(d, c) /\ Move(c, d) /\ d.stage = "failed"
        BY <4>1, ToMoves
      <4>3. Underway("eliminar", a)' = {}
        BY <2>2, <4>2, UnderwayEnds
      <4>4. QED
        BY <2>2, <4>1, <4>3
    <3>5. QED
      BY <3>1, <3>2, <3>3, <3>4
  <2>5. QED
    BY <2>3, <2>4
<1>3. QED
  BY <1>1, <1>2

\* Linked archivos that are not at risk stay linked.
LEMMA ServeKeepsLinks ==
  ASSUME RepositoryOK, LinkInv, NEW c \in calls, ServeCall(c) \/ Lose(c),
         NEW a \in linked, a \notin risked'
  PROVE  a \in linked'
<1>1. CASE Destroy(c)
  <2>1. c \in Underway("eliminar", c.of) /\ risked' = risked /\ linked' = linked \ {c.of}
    BY <1>1 DEF Destroy, Underway
  <2>2. a # c.of
    BY <2>1 DEF LinkInv
  <2>3. QED
    BY <2>1, <2>2
<1>2. CASE ~Destroy(c)
  BY <1>2 DEF ServeCall, Lose, Create, CheckSign, AttachSigned, MarkSigned,
     CheckUnlinked, Purge, StoreDocument, AddArchivo, LinkArchivo, table
<1>3. QED
  BY <1>1, <1>2

\* What becomes of a registration.
LEMMA ServeRegisters ==
  ASSUME RepositoryOK, LinkInv, NEW c \in calls, ServeCall(c) \/ Lose(c)
  PROVE  \E d : /\ Move(c, d)
                /\ d.op = "registrar" /\ d.stage \in {"checked", "ok"} =>
                     /\ (d.ids \ d.left) \ (dropped' \cup risked') \subseteq linked'
                     /\ d.stage = "ok" => d.left = {}
<1>0. /\ risked \subseteq risked' /\ dropped \subseteq dropped'
  BY DEF ServeCall, Lose, Create, CheckSign, AttachSigned, MarkSigned,
     CheckUnlinked, Purge, Destroy, StoreDocument, AddArchivo, LinkArchivo, history
<1>1. CASE c.op # "registrar"
  BY <1>1, ServeMoves DEF Same
<1>2. CASE StoreDocument(c)
  <2>1. PICK d : /\ Same(d, c) /\ Move(c, d) /\ d.left = c.ids \cap archivos
                 /\ d.stage = "ok" => d.left = {}
    BY <1>2, StoreMoves
  <2>2. dropped' = dropped \cup (c.ids \ archivos)
    BY <1>2 DEF StoreDocument
  <2>3. d.ids = c.ids
    BY <2>1 DEF Same
  <2>4. (d.ids \ d.left) \ (dropped' \cup risked') = {}
    BY <2>1, <2>2, <2>3
  <2>5. QED
    BY <2>1, <2>4
<1>3. ASSUME NEW a \in c.left, LinkArchivo(c, a)
      PROVE  \E d : /\ Move(c, d)
                    /\ d.op = "registrar" /\ d.stage \in {"checked", "ok"} =>
                         /\ (d.ids \ d.left) \ (dropped' \cup risked') \subseteq linked'
                         /\ d.stage = "ok" => d.left = {}
  <2>1. PICK d : /\ Same(d, c) /\ Move(c, d) /\ c.op = "registrar" /\ c.stage = "checked"
                 /\ d.stage # "failed" => a \in archivos /\ d.left = c.left \ {a}
                 /\ d.stage = "ok" => d.left = {}
    BY <1>3, LinkMoves
  <2>2. CASE d.stage = "failed"
    BY <2>1, <2>2
  <2>3. CASE d.stage # "failed"
    <3>1. linked' = linked \cup {a} /\ dropped' = dropped
      BY <1>3, <2>1, <2>3 DEF LinkArchivo
    <3>2. (c.ids \ c.left) \ (dropped \cup risked) \subseteq linked
      BY <2>1 DEF LinkInv
    <3>3. d.ids = c.ids
      BY <2>1 DEF Same
    <3>4. (d.ids \ d.left) \ (dropped' \cup risked') \subseteq linked'
      BY <1>0, <2>1, <2>3, <3>1, <3>2, <3>3
    <3>5. QED
      BY <2>1, <3>4
  <2>4. QED
    BY <2>2, <2>3
<1>4. CASE Lose(c)
  <2>1. To(c, "failed") /\ "failed" \in Stages
    BY <1>4 DEF Lose, Stages
  <2>2. PICK d : Move(c, d) /\ d.stage = "failed"
    BY <2>1, ToMoves
  <2>3. QED
    BY <2>2
<1>5. QED
  BY <1>1, <1>2, <1>3, <1>4 DEF ServeCall, Create, CheckSign, AttachSigned, MarkSigned,
     CheckUnlinked, Purge, Destroy, AddArchivo

LEMMA LinkStep == ASSUME RepositoryOK, LinkInv, [Next]_vars PROVE LinkInv'
<1>1. CASE Looks
  <2>1. Screens /\ UNCHANGED <<linked, file>>
    BY <1>1, LooksTyped DEF table
  <2>2. risked' = risked /\ dropped' = dropped
    BY <1>1 DEF Looks, Go, ToggleSelect, OpenSign, Choose, CloseSign, Succeed, Fail, history, vars
  <2>3. \A a : Underway("eliminar", a) = {} => Underway("eliminar", a)' = {}
    BY <2>1, UnderwayAlike
  <2>4. promised' \ (dropped \cup risked) \subseteq linked
    <3>1. CASE promised' = promised
      BY <3>1 DEF LinkInv
    <3>2. ASSUME NEW c \in calls, c.stage = "ok", Registered(c)
          PROVE  promised' \ (dropped \cup risked) \subseteq linked
      <4>1. c.op = "registrar" /\ promised' = promised \cup c.ids
        BY <3>2 DEF Registered
      <4>2. c.left = {} /\ (c.ids \ c.left) \ (dropped \cup risked) \subseteq linked
        BY <3>2, <4>1 DEF LinkInv
      <4>3. QED
        BY <4>1, <4>2 DEF LinkInv
    <3>3. QED
      BY <1>1, <3>1, <3>2 DEF Looks, Go, ToggleSelect, OpenSign, Choose, CloseSign, Succeed, Fail,
         Uploaded, Signed, Deleted, Added, history, vars
  <2>5. ASSUME NEW d \in calls', d.op = "registrar", d.stage \in {"checked", "ok"}
        PROVE  /\ (d.ids \ d.left) \ (dropped \cup risked) \subseteq linked
               /\ d.stage = "ok" => d.left = {}
    <3>1. PICK c \in calls : Alike(d, c)
      BY <2>1 DEF Screens
    <3>2. QED
      BY <2>5, <3>1 DEF Alike, Same, LinkInv
  <2>6. QED
    BY <2>1, <2>2, <2>3, <2>4, <2>5 DEF LinkInv
<1>2. CASE Calls
  <2>1. UNCHANGED <<linked, file, risked, dropped, promised>>
    BY <1>2, CallsTyped DEF table, history
  <2>2. PICK c : NewCall(c) /\ calls' = calls \cup {c}
    BY <1>2, CallsTyped
  <2>3. c.stage = "sent"
    BY <2>2 DEF NewCall
  <2>4. \A a : Underway("eliminar", a)' = Underway("eliminar", a)
    BY <2>2, <2>3 DEF Underway
  <2>5. QED
    BY <2>1, <2>2, <2>3, <2>4 DEF LinkInv
<1>3. CASE Regroups
  BY <1>3, RegroupsTyped DEF LinkInv, Underway
<1>4. ASSUME NEW c \in calls, ServeCall(c) \/ Lose(c) PROVE LinkInv'
  <2>1. promised' = promised /\ dropped \subseteq dropped' /\ risked \subseteq risked'
    BY <1>4 DEF ServeCall, Lose, Create, CheckSign, AttachSigned, MarkSigned,
       CheckUnlinked, Purge, Destroy, StoreDocument, AddArchivo, LinkArchivo, history
  <2>2. \A a \in linked' \ risked' : file'[a] # Nil /\ Underway("eliminar", a)' = {}
    BY <1>4, ServeKeepsFiles
  <2>3. \A a \in linked : a \in risked' \/ a \in linked'
    BY <1>4, ServeKeepsLinks
  <2>4. promised' \ (dropped' \cup risked') \subseteq linked'
    BY <2>1, <2>3 DEF LinkInv
  <2>5. PICK d : /\ Move(c, d)
                 /\ d.op = "registrar" /\ d.stage \in {"checked", "ok"} =>
                      /\ (d.ids \ d.left) \ (dropped' \cup risked') \subseteq linked'
                      /\ d.stage = "ok" => d.left = {}
    BY <1>4, ServeRegisters
  <2>6. ASSUME NEW e \in calls', e.op = "registrar", e.stage \in {"checked", "ok"}
        PROVE  /\ (e.ids \ e.left) \ (dropped' \cup risked') \subseteq linked'
               /\ e.stage = "ok" => e.left = {}
    <3>1. CASE e = d
      BY <2>5, <2>6, <3>1
    <3>2. CASE e \in calls
      <4>1. (e.ids \ e.left) \ (dropped \cup risked) \subseteq linked /\ (e.stage = "ok" => e.left = {})
        BY <2>6, <3>2 DEF LinkInv
      <4>2. QED
        BY <2>1, <2>3, <4>1
    <3>3. QED
      BY <2>5, <3>1, <3>2 DEF Move
  <2>7. QED
    BY <2>2, <2>4, <2>6 DEF LinkInv
<1>5. QED
  BY <1>1, <1>2, <1>3, <1>4, Steps

LEMMA LinksHold == Spec => []LinkInv
<1>1. Init => LinkInv
  BY DEF Init, LinkInv
<1>2. RepositoryOK /\ LinkInv /\ [Next]_vars => LinkInv'
  BY LinkStep
<1>3. QED
  BY <1>1, <1>2, StaysTyped, PTL DEF Spec

\* "No se puede eliminar: el archivo está vinculado": what is linked to a document, or
\* was chosen for one that was reported as registered, keeps its link and its file.
THEOREM LinkedKeepFiles == Spec => []LinkedKeepTheirFile
<1>1. LinkInv => LinkedKeepTheirFile
  BY DEF LinkInv, LinkedKeepTheirFile
<1>2. QED
  BY <1>1, LinksHold, PTL
-----------------------------------------------------------------------------
(* Signatures. *)

\* One call at a time is past its check: it signs a draft that has no signature, its
\* signature is the file's one, and then it marks the archivo.
SignedOnce(a) ==
  /\ \A c, d \in Underway("firmar", a) : c.id = d.id
  /\ a \notin cutShort /\ a \in archivos =>
     /\ \A c \in Underway("firmar", a) :
          c.stage = "checked" => c.base = 0 /\ estado[a] = "borrador"
     /\ file[a] # Nil =>
        /\ file[a].signs \in 0 .. 1
        /\ \A c \in Underway("firmar", a) :
             c.stage = "written" => file[a].signs = 1 /\ file[a].by = c.id
        /\ (\A c \in Underway("firmar", a) : c.stage # "written") =>
             /\ estado[a] = "firmado" <=> file[a].signs = 1
             /\ position[a] = file[a].by

SignInv == \A a \in Archivos \ twice : SignedOnce(a)

\* A step that leaves the calls that sign an archivo as they are, and its row too or
\* its file gone, changes nothing of this.
LEMMA SignedKeeps ==
  ASSUME NEW a, SignedOnce(a),
         \A d \in Underway("firmar", a)' : \E c \in Underway("firmar", a) : Alike(d, c),
         \A c \in Underway("firmar", a) : \E d \in Underway("firmar", a)' : Alike(d, c),
         cutShort' = cutShort, a \in archivos' => a \in archivos,
         file'[a] = file[a] \/ file'[a] = Nil,
         estado'[a] = estado[a], position'[a] = position[a]
  PROVE  SignedOnce(a)'
<1>1. \A d, c : Alike(d, c) => d.id = c.id /\ d.stage = c.stage /\ d.base = c.base
  BY DEF Alike, Same
<1>2. \A c, d \in Underway("firmar", a)' : c.id = d.id
  BY <1>1 DEF SignedOnce
<1>3. SUFFICES ASSUME a \notin cutShort, a \in archivos
               PROVE
     /\ \A c \in Underway("firmar", a)' :
          c.stage = "checked" => c.base = 0 /\ estado'[a] = "borrador"
     /\ file'[a] # Nil =>
        /\ file'[a].signs \in 0 .. 1
        /\ \A c \in Underway("firmar", a)' :
             c.stage = "written" => file'[a].signs = 1 /\ file'[a].by = c.id
        /\ (\A c \in Underway("firmar", a)' : c.stage # "written") =>
             /\ estado'[a] = "firmado" <=> file'[a].signs = 1
             /\ position'[a] = file'[a].by
  BY <1>2 DEF SignedOnce
<1>4. \A c \in Underway("firmar", a)' :
          c.stage = "checked" => c.base = 0 /\ estado'[a] = "borrador"
  BY <1>1, <1>3 DEF SignedOnce
<1>5. ASSUME file'[a] # Nil
      PROVE
        /\ file'[a].signs \in 0 .. 1
        /\ \A c \in Underway("firmar", a)' :
             c.stage = "written" => file'[a].signs = 1 /\ file'[a].by = c.id
        /\ (\A c \in Underway("firmar", a)' : c.stage # "written") =>
             /\ estado'[a] = "firmado" <=> file'[a].signs = 1
             /\ position'[a] = file'[a].by
  <2>1. file'[a] = file[a] /\ file[a] # Nil
    BY <1>5
  <2>2. (\A c \in Underway("firmar", a)' : c.stage # "written") =>
           (\A c \in Underway("firmar", a) : c.stage # "written")
    BY <1>1
  <2>3. QED
    BY <1>1, <1>3, <2>1, <2>2 DEF SignedOnce
<1>6. QED
  BY <1>4, <1>5

\* A call that does not sign the archivo, or is not past its check.
LEMMA OtherSigns ==
  ASSUME NEW a, SignedOnce(a), Underway("firmar", a)' = Underway("firmar", a),
         cutShort' = cutShort, a \in archivos' => a \in archivos,
         file'[a] = file[a] \/ file'[a] = Nil,
         estado'[a] = estado[a], position'[a] = position[a]
  PROVE  SignedOnce(a)'
<1>1. \A c : Alike(c, c)
  BY DEF Alike, Same
<1>2. QED
  BY <1>1, SignedKeeps

\* A call that signs: what it does to the archivo it signs.
LEMMA SigningKeeps ==
  ASSUME RepositoryOK, SignInv, NEW c \in calls,
         CheckSign(c) \/ AttachSigned(c) \/ MarkSigned(c),
         c.of \notin twice'
  PROVE  SignedOnce(c.of)'
<1>0. /\ file \in [Archivos -> File \cup {Nil}]
      /\ estado \in [Archivos -> {"borrador", "firmado", Nil}]
      /\ position \in [Archivos -> 0 .. MaxCalls]
      /\ \A e, f \in calls : e.id = f.id => e = f
  BY DEF RepositoryOK, TablesOK, CallsOK
<1>1. PICK a : a = c.of
  OBVIOUS
<1>2. PICK d :
    /\ Typed(c) /\ Typed(d) /\ Same(d, c) /\ Move(c, d)
    /\ c.op = "firmar" /\ c.of \in Archivos
    /\ CheckSign(c) =>
         \/ d.stage = "failed"
         \/ /\ d.stage = "checked" /\ c.of \in archivos
            /\ estado[c.of] = "borrador" /\ file[c.of] # Nil /\ d.base = file[c.of].signs
    /\ AttachSigned(c) => d.stage = "written" /\ d.base = c.base
    /\ MarkSigned(c) => d.stage = "ok"
  BY SignMoves
<1>3. a \in Archivos /\ d.of = a /\ d.op = "firmar" /\ d.id = c.id
  BY <1>1, <1>2 DEF Same
<1>4. twice \subseteq twice' /\ cutShort' = cutShort
  BY DEF CheckSign, AttachSigned, MarkSigned, history
<1>5. SignedOnce(a)
  BY <1>1, <1>3, <1>4 DEF SignInv
<1>6. \A e \in calls' : e = d \/ (e \in calls /\ e # c)
  BY <1>2 DEF Move
<1>7. CASE CheckSign(c)
  <2>1. Underway("firmar", a) = {}
    BY <1>1, <1>7 DEF CheckSign
  <2>2. UNCHANGED <<archivos, file, estado, position>> /\ c.stage = "sent"
    BY <1>7 DEF CheckSign, table
  <2>3. CASE d.stage = "failed"
    <3>1. Underway("firmar", a)' = Underway("firmar", a)
      BY <1>2, <2>2, <2>3, UnderwayKeeps
    <3>2. QED
      BY <1>1, <1>4, <1>5, <2>2, <3>1, OtherSigns
  <2>4. CASE d.stage = "checked" /\ a \in archivos /\ estado[a] = "borrador" /\ file[a] # Nil
             /\ d.base = file[a].signs
    <3>1. \A e \in Underway("firmar", a)' : e = d
      BY <1>6, <2>1 DEF Underway
    <3>2. a \notin cutShort => d.base = 0 /\ file[a].signs = 0 /\ position[a] = file[a].by
      BY <1>5, <2>1, <2>4 DEF SignedOnce
    <3>3. a \notin cutShort => file[a].signs \in 0 .. 1
      BY <3>2
    <3>4. QED
      BY <1>1, <1>4, <2>2, <2>4, <3>1, <3>2, <3>3 DEF SignedOnce
  <2>5. QED
    BY <1>1, <1>2, <1>7, <2>3, <2>4
<1>8. CASE AttachSigned(c) \/ MarkSigned(c)
  <2>1. c \in Underway("firmar", a)
    BY <1>1, <1>8 DEF AttachSigned, MarkSigned, Underway
  <2>2. \A e \in Underway("firmar", a) : e = c
    <3>1. Underway("firmar", a) \subseteq calls
      BY DEF Underway
    <3>2. QED
      BY <1>0, <1>5, <2>1, <3>1 DEF SignedOnce
  <2>3. \A e \in Underway("firmar", a)' : e = d
    BY <1>6, <2>2 DEF Underway
  <2>4. CASE AttachSigned(c)
    <3>1. UNCHANGED <<archivos, estado, position>> /\ c.stage = "checked" /\ d.stage = "written"
      BY <1>2, <2>4 DEF AttachSigned
    <3>2. d \in Underway("firmar", a)'
      BY <1>2, <1>3, <3>1 DEF Underway, Move
    <3>3. a \notin cutShort /\ a \in archivos => c.base = 0
      BY <1>5, <2>1, <3>1 DEF SignedOnce
    <3>4. a \in archivos => file'[a] = [signs |-> c.base + 1, by |-> c.id]
      BY <1>0, <1>1, <1>3, <2>4 DEF AttachSigned
    <3>5. a \notin cutShort /\ a \in archivos => file'[a].signs = 1 /\ file'[a].by = d.id
      BY <1>3, <3>3, <3>4
    <3>6. QED
      BY <1>1, <1>4, <2>3, <3>1, <3>2, <3>5 DEF SignedOnce
  <2>5. CASE MarkSigned(c)
    <3>1. c.stage = "written" /\ d.stage = "ok" /\ file' = file /\ archivos' = archivos
      BY <1>2, <2>5 DEF MarkSigned
    <3>2. Underway("firmar", a)' = {}
      BY <2>3, <3>1 DEF Underway
    <3>3. a \in archivos => estado'[a] = "firmado" /\ position'[a] = c.id
      BY <1>0, <1>1, <1>3, <2>5 DEF MarkSigned
    <3>4. a \notin cutShort /\ a \in archivos /\ file[a] # Nil => file[a].signs = 1 /\ file[a].by = c.id
      BY <1>5, <2>1, <3>1 DEF SignedOnce
    <3>5. QED
      BY <1>1, <1>4, <3>1, <3>2, <3>3, <3>4 DEF SignedOnce
  <2>6. QED
    BY <1>8, <2>4, <2>5
<1>9. QED
  BY <1>7, <1>8

\* And what any other step of the server does.
LEMMA ServeSigns ==
  ASSUME RepositoryOK, UploadInv, SignInv, NEW c \in calls, ServeCall(c) \/ Lose(c),
         NEW a \in Archivos, a \notin twice'
  PROVE  SignedOnce(a)'
<1>0. /\ file \in [Archivos -> File \cup {Nil}]
      /\ estado \in [Archivos -> {"borrador", "firmado", Nil}]
      /\ position \in [Archivos -> 0 .. MaxCalls]
      /\ \A e, f \in calls : e.id = f.id => e = f
      /\ Typed(c)
  BY DEF RepositoryOK, TablesOK, CallsOK
<1>1. twice \subseteq twice'
  BY DEF ServeCall, Lose, Create, CheckSign, AttachSigned, MarkSigned,
     CheckUnlinked, Purge, Destroy, StoreDocument, AddArchivo, LinkArchivo, history
<1>2. SignedOnce(a)
  BY <1>1 DEF SignInv
<1>3. PICK d : Same(d, c) /\ Move(c, d)
  BY ServeMoves
<1>4. CASE (CheckSign(c) \/ AttachSigned(c) \/ MarkSigned(c)) /\ c.of = a
  BY <1>4, SigningKeeps
<1>5. CASE (CheckSign(c) \/ AttachSigned(c) \/ MarkSigned(c)) /\ c.of # a
  <2>1. Underway("firmar", a)' = Underway("firmar", a)
    BY <1>3, <1>5, UnderwayKeeps
  <2>2. archivos' = archivos /\ cutShort' = cutShort
    BY <1>5 DEF CheckSign, AttachSigned, MarkSigned, table, history
  <2>3. file'[a] = file[a]
    BY <1>0, <1>5 DEF CheckSign, AttachSigned, MarkSigned, table
  <2>4. estado'[a] = estado[a] /\ position'[a] = position[a]
    BY <1>0, <1>5 DEF CheckSign, AttachSigned, MarkSigned, table
  <2>5. QED
    BY <1>2, <2>1, <2>2, <2>3, <2>4, OtherSigns
<1>6. CASE Lose(c)
  <2>1. UNCHANGED <<archivos, file, estado, position>>
    BY <1>6 DEF Lose, table
  <2>2. To(c, "failed") /\ "failed" \in Stages
    BY <1>6 DEF Lose, Stages
  <2>3. PICK f : Same(f, c) /\ Move(c, f) /\ f.stage = "failed"
    BY <2>2, ToMoves
  <2>4. CASE c \notin Underway("firmar", a)
    <3>1. Underway("firmar", a)' = Underway("firmar", a)
      BY <2>3, <2>4, UnderwayKeeps DEF Underway
    <3>2. cutShort' = cutShort \/ a # c.of
      BY <1>6, <2>4 DEF Lose, Underway
    <3>3. a \in cutShort' <=> a \in cutShort
      BY <1>6, <3>2 DEF Lose
    <3>4. QED
      BY <1>2, <2>1, <3>1, <3>3 DEF SignedOnce
  <2>5. CASE c \in Underway("firmar", a)
    <3>1. Underway("firmar", a)' = {}
      <4>1. Underway("firmar", a) \subseteq calls
        BY DEF Underway
      <4>2. \A e \in Underway("firmar", a) : e = c
        BY <1>0, <1>2, <2>5, <4>1 DEF SignedOnce
      <4>3. QED
        BY <2>3, <4>2 DEF Underway, Move
    <3>2. CASE c.stage = "written"
      <4>1. a \in cutShort'
        BY <1>6, <2>5, <3>2 DEF Lose, Underway
      <4>2. QED
        BY <3>1, <4>1 DEF SignedOnce
    <3>3. CASE c.stage = "checked"
      <4>1. cutShort' = cutShort
        BY <1>6, <3>3 DEF Lose
      <4>2. \A e \in Underway("firmar", a) : e.stage # "written"
        <5>1. Underway("firmar", a) \subseteq calls
          BY DEF Underway
        <5>2. QED
          BY <1>0, <1>2, <2>5, <3>3, <5>1 DEF SignedOnce
      <4>3. QED
        BY <1>2, <2>1, <3>1, <4>1, <4>2 DEF SignedOnce
    <3>4. QED
      BY <2>5, <3>2, <3>3 DEF Underway
  <2>6. QED
    BY <2>4, <2>5
<1>7. CASE Create(c) /\ c.of = a
  <2>1. c.op = "subir" /\ c.stage = "sent" /\ cutShort' = cutShort /\ position' = position
        /\ file' = [file EXCEPT ![c.of] = Draft] /\ estado' = [estado EXCEPT ![c.of] = "borrador"]
    BY <1>7 DEF Create, history
  <2>2. estado[a] = Nil /\ \A e \in calls : e.of = a => e.id = c.id
    BY <1>7, <2>1 DEF UploadInv
  <2>3. Underway("firmar", a) = {}
    BY <1>0, <2>1, <2>2 DEF Underway
  <2>4. Underway("firmar", a)' = {}
    BY <1>3, <2>1, <2>3, UnderwayKeeps
  <2>5. position[a] = 0
    BY <2>2 DEF UploadInv
  <2>6. file'[a] = Draft /\ estado'[a] = "borrador" /\ position'[a] = 0
    BY <1>0, <1>7, <2>1, <2>5
  <2>7. file'[a].signs = 0 /\ file'[a].by = 0
    BY <2>6 DEF Draft
  <2>8. QED
    BY <2>4, <2>6, <2>7 DEF SignedOnce
<1>8. CASE /\ ~(CheckSign(c) \/ AttachSigned(c) \/ MarkSigned(c) \/ Lose(c))
           /\ ~(Create(c) /\ c.of = a)
  <2>1. c.op # "firmar"
    BY <1>8 DEF ServeCall, Create, CheckUnlinked, Purge, Destroy, StoreDocument, AddArchivo, LinkArchivo
  <2>2. Underway("firmar", a)' = Underway("firmar", a)
    BY <1>3, <2>1, UnderwayKeeps
  <2>3. cutShort' = cutShort /\ position' = position
    BY <1>8 DEF ServeCall, Create, CheckUnlinked, Purge, Destroy, StoreDocument, AddArchivo, LinkArchivo,
       table, history
  <2>4. /\ a \in archivos' => a \in archivos
        /\ file'[a] = file[a] \/ file'[a] = Nil
        /\ estado'[a] = estado[a]
    <3>1. CASE Create(c)
      <4>1. c.of # a
        BY <1>8, <3>1
      <4>2. archivos' = archivos \cup {c.of} /\ file' = [file EXCEPT ![c.of] = Draft]
            /\ estado' = [estado EXCEPT ![c.of] = "borrador"]
        BY <3>1 DEF Create
      <4>3. QED
        BY <1>0, <4>1, <4>2
    <3>2. CASE Purge(c) \/ Destroy(c)
      <4>1. file' = [file EXCEPT ![c.of] = Nil] /\ estado' = estado /\ archivos' \subseteq archivos
        BY <3>2 DEF Purge, Destroy
      <4>2. QED
        BY <1>0, <4>1
    <3>3. CASE ~Create(c) /\ ~Purge(c) /\ ~Destroy(c)
      BY <1>8, <3>3 DEF ServeCall, CheckUnlinked, StoreDocument, AddArchivo, LinkArchivo, table
    <3>4. QED
      BY <3>1, <3>2, <3>3
  <2>5. QED
    BY <1>2, <2>2, <2>3, <2>4, OtherSigns
<1>9. QED
  BY <1>4, <1>5, <1>6, <1>7, <1>8

LEMMA SignStep == ASSUME RepositoryOK, UploadInv, SignInv, [Next]_vars PROVE SignInv'
<1>1. CASE Looks
  <2>1. Screens /\ UNCHANGED <<archivos, file, estado, position>>
    BY <1>1, LooksTyped DEF table
  <2>2. twice' = twice /\ cutShort' = cutShort
    BY <1>1 DEF Looks, Go, ToggleSelect, OpenSign, Choose, CloseSign, Succeed, Fail, history, vars
  <2>3. ASSUME NEW a \in Archivos \ twice PROVE SignedOnce(a)'
    <3>1. /\ \A d \in Underway("firmar", a)' : \E c \in Underway("firmar", a) : Alike(d, c)
          /\ \A c \in Underway("firmar", a) : \E d \in Underway("firmar", a)' : Alike(d, c)
      BY <2>1, UnderwayAlike
    <3>2. QED
      BY <2>1, <2>2, <2>3, <3>1, SignedKeeps DEF SignInv
  <2>4. QED
    BY <2>2, <2>3 DEF SignInv
<1>2. CASE Calls
  <2>1. UNCHANGED <<archivos, file, estado, position, twice, cutShort>>
    BY <1>2, CallsTyped DEF table, history
  <2>2. PICK c : NewCall(c) /\ calls' = calls \cup {c}
    BY <1>2, CallsTyped
  <2>3. c.stage = "sent"
    BY <2>2 DEF NewCall
  <2>4. \A a : Underway("firmar", a)' = Underway("firmar", a)
    BY <2>2, <2>3 DEF Underway
  <2>5. ASSUME NEW a \in Archivos \ twice PROVE SignedOnce(a)'
    BY <2>1, <2>4, OtherSigns DEF SignInv
  <2>6. QED
    BY <2>1, <2>5 DEF SignInv
<1>3. CASE Regroups
  <2>1. UNCHANGED <<archivos, file, estado, position, twice, cutShort, calls>>
    BY <1>3, RegroupsTyped
  <2>2. QED
    BY <2>1 DEF SignInv, SignedOnce, Underway
<1>4. ASSUME NEW c \in calls, ServeCall(c) \/ Lose(c) PROVE SignInv'
  BY <1>4, ServeSigns DEF SignInv
<1>5. QED
  BY <1>1, <1>2, <1>3, <1>4, Steps

LEMMA SignInit == Init => SignInv
<1>1. SUFFICES ASSUME Init, NEW a \in Archivos PROVE SignedOnce(a)
  BY DEF SignInv
<1>2. Underway("firmar", a) = {}
  BY <1>1 DEF Init, Underway
<1>3. file[a] # Nil => file[a].signs = 0 /\ file[a].by = 0 /\ estado[a] = "borrador"
  BY <1>1 DEF Init, Draft
<1>4. position[a] = 0
  BY <1>1 DEF Init
<1>5. QED
  BY <1>2, <1>3, <1>4 DEF SignedOnce

LEMMA SignsHold == Spec => []SignInv
<1>1. RepositoryOK /\ UploadInv /\ SignInv /\ [Next]_vars => SignInv'
  BY SignStep
<1>2. QED
  BY <1>1, SignInit, StaysTyped, UploadsHold, PTL DEF Spec

\* "El archivo ya está firmado": an archivo that was not signed by two calls at once or
\* cut short is signed once at most, and when nobody is about to mark it, it is marked
\* as what its file says, with the position of that signature.
THEOREM SignaturesRecorded == Spec => []SignaturesAreRecorded
<1>1. RepositoryOK /\ SignInv => SignaturesAreRecorded
  <2>1. SUFFICES ASSUME RepositoryOK, SignInv, NEW a \in archivos \ (twice \cup cutShort),
                        file[a] # Nil, \A c \in Underway("firmar", a) : c.stage # "written"
                 PROVE  /\ file[a].signs \in 0 .. 1
                        /\ estado[a] = "firmado" <=> file[a].signs = 1
                        /\ position[a] = file[a].by
    BY DEF SignaturesAreRecorded
  <2>2. SignedOnce(a)
    BY <2>1 DEF RepositoryOK, TablesOK, SignInv
  <2>3. QED
    BY <2>1, <2>2 DEF SignedOnce
<1>2. QED
  BY <1>1, SignsHold, StaysTyped, PTL
-----------------------------------------------------------------------------
(* The certificates that sign: ArchivosController#sign takes the default one   *)
(* of the user, and these are the promises about which one that is.            *)

LEMMA MaxOf ==
  ASSUME NEW n \in Nat, NEW S \in SUBSET (1 .. n), S # {} PROVE Max(S) \in S
<1>1. PICK T : T = {k \in Nat : n - k \in S}
  OBVIOUS
<1>2. T \subseteq Nat /\ T # {}
  <2>1. PICK s \in S : TRUE
    OBVIOUS
  <2>2. n - s \in Nat /\ n - (n - s) = s
    OBVIOUS
  <2>3. n - s \in T
    BY <1>1, <2>2
  <2>4. QED
    BY <1>1, <2>3
<1>3. IsWellFoundedOn(OpToRel(<, Nat), Nat)
  BY NatLessThanWellFounded
<1>4. PICK R : R = OpToRel(<, Nat)
  OBVIOUS
<1>5. R = {xy \in Nat \X Nat : xy[1] < xy[2]}
  BY <1>4 DEF OpToRel
<1>6. PICK t \in T : \A y \in T : ~(<<y, t>> \in R)
  BY <1>2, <1>3, <1>4, WFMin
<1>7. PICK m \in S : m = n - t /\ t \in Nat
  BY <1>1
<1>8. ASSUME NEW s \in S PROVE m >= s
  <2>1. n - s \in Nat /\ n - (n - s) = s
    OBVIOUS
  <2>2. n - s \in T
    BY <1>1, <2>1
  <2>3. ~(n - s < t)
    BY <1>2, <1>5, <1>6, <2>1, <2>2
  <2>4. QED
    BY <1>7, <2>1, <2>3
<1>9. QED
  BY <1>8 DEF Max

-----------------------------------------------------------------------------
(* Many threads, and no uploads. *)

Chosen(r, h) ==
  /\ r.stage \notin {"counted", "attaching"}
  /\ r.stage \in {"choosing", "destroying", "defaulting", "cleared"} => r.row \in Nat \ {New}
  /\ r.stage = "cleared" => Kept \subseteq h \cup {r.row}

ChoiceInv ==
  /\ certificates \in [1 .. MaxCertificates -> Certificate]
  /\ requests = [w \in Workers |-> requests[w]] /\ held = [w \in Workers |-> held[w]]
  /\ \A w \in Workers : Chosen(requests[w], held[w])
  /\ \A c, d \in Defaults : c = d

LEMMA LenOf ==
  ASSUME NEW n \in Nat, NEW S, NEW s \in [1 .. n -> S] PROVE Len(s) = n
OBVIOUS

\* A step of w that discards certificates at most and leaves one default.
LEMMA ChoiceKeeps ==
  ASSUME ChoiceInv, NEW w \in Workers, NEW r, Become(w, r),
         NEW h, held' = [held EXCEPT ![w] = h] \/ (held' = held /\ h = held[w]),
         certificates' \in [1 .. MaxCertificates -> Certificate], Kept' \subseteq Kept,
         \A c, d \in Defaults' : c = d,
         Chosen(r, h)
  PROVE  ChoiceInv'
<1>1. requests' = [v \in Workers |-> requests'[v]] /\ requests'[w] = r
      /\ \A v \in Workers \ {w} : requests'[v] = requests[v]
  BY DEF ChoiceInv, Become
<1>2. held' = [v \in Workers |-> held'[v]] /\ held'[w] = h
      /\ \A v \in Workers \ {w} : held'[v] = held[v]
  BY DEF ChoiceInv
<1>3. \A v \in Workers : Chosen(requests'[v], held'[v])
  BY <1>1, <1>2 DEF ChoiceInv
<1>4. ASSUME NEW v \in Workers PROVE Chosen(requests[v], held[v])'
  BY <1>3, <1>4 DEF Chosen
<1>5. QED
  BY <1>1, <1>2, <1>4 DEF ChoiceInv

\* What a step that leaves the rows alone leaves.
LEMMA SameRows ==
  ASSUME ChoiceInv, certificates' = certificates
  PROVE  /\ certificates' \in [1 .. MaxCertificates -> Certificate] /\ Kept' = Kept
         /\ \A c, d \in Defaults' : c = d
BY DEF ChoiceInv, Kept, Ids, Defaults

LEMMA ChoiceStep ==
  ASSUME ChoiceInv, MaxCertificates \in Nat, [CertificatesNext]_certificatesVars PROVE ChoiceInv'
<1>0. /\ certificates \in [1 .. MaxCertificates -> Certificate]
      /\ Ids = 1 .. MaxCertificates /\ Kept \subseteq Ids
      /\ Len(certificates) = MaxCertificates
      /\ \A w \in Workers : Chosen(requests[w], held[w])
      /\ \A c, d \in Defaults : c = d
  BY LenOf DEF ChoiceInv, Ids, Kept
<1>1. ASSUME NEW w \in Workers, CountKept(w) PROVE FALSE
  <2>1. \A v \in Workers : ~Inserting(v)
    BY <1>0 DEF Inserting, Chosen, New
  <2>2. {v \in Workers : Inserting(v)} = {}
    BY <2>1
  <2>3. Cardinality({v \in Workers : Inserting(v)}) = 0
    BY <2>2, FS_EmptySet
  <2>4. QED
    BY <1>0, <1>1, <2>3 DEF CountKept
<1>2. ASSUME NEW w \in Workers, NEW c \in Ids, SetCertificate(w, c) PROVE ChoiceInv'
  <2>1. PICK r : Become(w, r) /\ r.stage \in {"destroying", "choosing"} /\ r.row = c
    <3>1. PICK b : b = certificates[c].is_default
      OBVIOUS
    <3>2. \/ Become(w, [stage |-> "destroying", row |-> c, is_default |-> b])
          \/ Become(w, [stage |-> "choosing", row |-> c, is_default |-> b])
      BY <1>2, <3>1 DEF SetCertificate
    <3>3. QED
      BY <3>2
  <2>2. certificates' = certificates /\ held' = held
    BY <1>2 DEF SetCertificate, Accept
  <2>3. Chosen(r, held[w])
    BY <1>0, <2>1 DEF Chosen, New
  <2>4. QED
    BY <2>1, <2>2, <2>3, SameRows, ChoiceKeeps
<1>3. ASSUME NEW w \in Workers, ClearOtherDefaults(w) PROVE ChoiceInv'
  <2>1. requests[w].stage = "defaulting" /\ requests[w].row \in Nat \ {New}
    BY <1>0, <1>3 DEF ClearOtherDefaults, Chosen
  <2>2. PICK row : row = requests[w].row
    OBVIOUS
  <2>3. PICK r : r = [stage |-> "cleared", row |-> row]
    OBVIOUS
  <2>4. Become(w, r) /\ held' = [held EXCEPT ![w] = Kept \ {row}] /\ certificates' = certificates
    BY <1>3, <2>1, <2>2, <2>3 DEF ClearOtherDefaults
  <2>5. Chosen(r, Kept \ {row})
    BY <2>1, <2>2, <2>3 DEF Chosen
  <2>6. QED
    BY <2>4, <2>5, SameRows, ChoiceKeeps
<1>4. ASSUME NEW w \in Workers, InsertCertificate(w) \/ AttachFile(w) PROVE FALSE
  BY <1>0, <1>4 DEF InsertCertificate, AttachFile, Chosen
<1>5. Chosen(Idle, {}) /\ \A h : Chosen(Idle, h)
  BY DEF Chosen, Idle
<1>6. ASSUME NEW w \in Workers, CommitDefault(w) PROVE ChoiceInv'
  <2>1. requests[w].stage = "cleared" /\ Kept \subseteq held[w] \cup {requests[w].row}
    BY <1>0, <1>6 DEF CommitDefault, Chosen
  <2>2. PICK row : row = requests[w].row
    OBVIOUS
  <2>3. PICK cleared : cleared = Cleared(w)
    OBVIOUS
  <2>4. cleared \in [1 .. MaxCertificates -> Certificate]
        /\ \A c \in Ids : /\ cleared[c].kept = certificates[c].kept
                          /\ c \in held[w] => cleared[c].is_default = FALSE
    BY <1>0, <2>3 DEF Cleared, Certificate
  <2>5. certificates' = [cleared EXCEPT ![row].is_default = TRUE]
    BY <1>6, <2>2, <2>3 DEF CommitDefault
  <2>6. certificates' \in [1 .. MaxCertificates -> Certificate]
        /\ \A c \in Ids : /\ certificates'[c].kept = certificates[c].kept
                          /\ c \in held[w] /\ c # row => certificates'[c].is_default = FALSE
    <3>1. ASSUME NEW c \in Ids
          PROVE  /\ certificates'[c] \in Certificate
                 /\ certificates'[c].kept = certificates[c].kept
                 /\ c \in held[w] /\ c # row => certificates'[c].is_default = FALSE
      <4>1. cleared[c] \in Certificate
        BY <1>0, <2>4
      <4>2. certificates'[c] = IF c = row THEN [cleared[c] EXCEPT !.is_default = TRUE] ELSE cleared[c]
        BY <1>0, <2>4, <2>5
      <4>3. QED
        BY <2>4, <4>1, <4>2 DEF Certificate
    <3>2. certificates' = [c \in Ids |-> certificates'[c]]
      BY <1>0, <2>4, <2>5
    <3>3. QED
      BY <1>0, <3>1, <3>2
  <2>7. Kept' = Kept
    BY <1>0, <2>6 DEF Kept, Ids
  <2>8. \A c \in Defaults' : c = row
    BY <1>0, <2>1, <2>2, <2>6, <2>7 DEF Defaults
  <2>9. Become(w, Idle) /\ held' = [held EXCEPT ![w] = {}]
    BY <1>6 DEF CommitDefault, Release
  <2>10. QED
    BY <1>5, <2>6, <2>7, <2>8, <2>9, ChoiceKeeps
<1>7. ASSUME NEW w \in Workers, NEW row \in Nat \ {New}, NEW b, UpdateDefault(w, row, b)
      PROVE  \E r : Become(w, r) /\ Chosen(r, held[w])
  <2>1. CASE b
    BY <1>5, <1>7, <2>1 DEF UpdateDefault
  <2>2. CASE ~b
    <3>1. PICK r : r = [stage |-> "defaulting", row |-> row]
      OBVIOUS
    <3>2. Become(w, r) /\ Chosen(r, held[w])
      BY <1>7, <2>2, <3>1 DEF UpdateDefault, Chosen
    <3>3. QED
      BY <3>2
  <2>3. QED
    BY <2>1, <2>2
<1>8. ASSUME NEW w \in Workers, UpdateAll(w) PROVE ChoiceInv'
  <2>1. requests[w].row \in Nat \ {New} /\ held' = held
        /\ UpdateDefault(w, requests[w].row, requests[w].is_default)
    BY <1>0, <1>8 DEF UpdateAll, Chosen
  <2>2. PICK r : Become(w, r) /\ Chosen(r, held[w])
    BY <1>7, <2>1
  <2>3. certificates' = [c \in Ids |-> IF c \in Kept
                           THEN [certificates[c] EXCEPT !.is_default = FALSE]
                           ELSE certificates[c]]
    BY <1>8 DEF UpdateAll
  <2>4. certificates' \in [1 .. MaxCertificates -> Certificate]
        /\ \A c \in Ids : /\ certificates'[c].kept = certificates[c].kept
                          /\ c \in Kept => certificates'[c].is_default = FALSE
    BY <1>0, <2>3 DEF Certificate
  <2>5. Kept' = Kept
    BY <1>0, <2>4 DEF Kept, Ids
  <2>6. Defaults' = {}
    BY <1>0, <2>4, <2>5 DEF Defaults
  <2>7. QED
    BY <2>1, <2>2, <2>4, <2>5, <2>6, ChoiceKeeps
<1>9. ASSUME NEW w \in Workers, Discard(w) PROVE ChoiceInv'
  <2>1. PICK row : row = requests[w].row
    OBVIOUS
  <2>2. certificates' = [certificates EXCEPT ![row].kept = FALSE] /\ held' = held
    BY <1>9, <2>1 DEF Discard
  <2>3. certificates' \in [1 .. MaxCertificates -> Certificate]
        /\ \A c \in Ids : /\ certificates'[c].kept => certificates[c].kept
                          /\ certificates'[c].is_default = certificates[c].is_default
    BY <1>0, <2>2 DEF Certificate
  <2>4. Kept' \subseteq Kept
    BY <1>0, <2>3 DEF Kept, Ids
  <2>5. Defaults' \subseteq Defaults
    BY <1>0, <2>3, <2>4 DEF Defaults, Kept, Ids
  <2>6. PICK r : Become(w, r) /\ Chosen(r, held[w])
    <3>1. PICK r : r = [stage |-> "discarded"]
      OBVIOUS
    <3>2. Become(w, r) \/ Become(w, Idle)
      BY <1>9, <3>1 DEF Discard
    <3>3. Chosen(r, held[w])
      BY <3>1 DEF Chosen
    <3>4. QED
      BY <1>5, <3>2, <3>3
  <2>7. \A c, d \in Defaults' : c = d
    BY <1>0, <2>5
  <2>8. QED
    BY <2>2, <2>3, <2>4, <2>6, <2>7, ChoiceKeeps
<1>10. ASSUME NEW w \in Workers, PromoteNext(w) PROVE ChoiceInv'
  <2>1. certificates' = certificates /\ held' = held
    BY <1>10 DEF PromoteNext
  <2>2. PICK r : Become(w, r) /\ Chosen(r, held[w])
    <3>1. CASE Kept = {}
      BY <1>5, <1>10, <3>1 DEF PromoteNext
    <3>2. CASE Kept # {}
      <4>1. Max(Kept) \in Kept
        BY <1>0, <3>2, MaxOf
      <4>2. PICK row : row = Max(Kept) /\ row \in 1 .. MaxCertificates
        BY <1>0, <4>1
      <4>3. UpdateDefault(w, row, certificates[row].is_default)
        BY <1>10, <3>2, <4>2 DEF PromoteNext
      <4>4. row \in Nat \ {New}
        BY <4>2 DEF New
      <4>5. QED
        BY <1>7, <4>3, <4>4
    <3>3. QED
      BY <3>1, <3>2
  <2>3. /\ certificates' \in [1 .. MaxCertificates -> Certificate] /\ Kept' \subseteq Kept
        /\ \A c, d \in Defaults' : c = d
    BY <2>1, SameRows
  <2>4. PICK h : h = held[w] /\ Chosen(r, h)
    BY <2>2
  <2>5. QED
    BY <2>1, <2>2, <2>3, <2>4, ChoiceKeeps
<1>11. ASSUME NEW w \in Workers, RaiseDeadlocked(w) \/ Abort(w) PROVE ChoiceInv'
  <2>1. certificates' = certificates /\ held' = [held EXCEPT ![w] = {}] /\ Become(w, Idle)
    BY <1>11 DEF RaiseDeadlocked, Abort, Release
  <2>2. QED
    BY <1>5, <2>1, SameRows, ChoiceKeeps
<1>12. CASE UNCHANGED certificatesVars
  BY <1>12 DEF ChoiceInv, Chosen, Defaults, Kept, Ids, certificatesVars
<1>13. QED
  BY <1>1, <1>2, <1>3, <1>4, <1>6, <1>8, <1>9, <1>10, <1>11, <1>12
  DEF CertificatesNext, Rest, Arrive, Step

LEMMA AtMostOne ==
  ASSUME NEW n \in Nat, NEW S \in SUBSET (1 .. n), \A c, d \in S : c = d
  PROVE  Cardinality(S) <= 1
<1>1. CASE S = {}
  BY <1>1, FS_EmptySet
<1>2. CASE S # {}
  <2>1. PICK c \in S : S = {c}
    BY <1>2
  <2>2. QED
    BY <2>1, FS_Singleton
<1>3. QED
  BY <1>1, <1>2

\* "Ensure only one default per user": however many threads choose and destroy
\* certificates, are cut short and wait for each other, no two kept certificates of a
\* user are default, as long as none is uploaded.
THEOREM OneDefaultChosen ==
  ASSUME InitialCertificates = MaxCertificates PROVE CertificatesSpec => []OneDefaultAtMost
<1>0. MaxCertificates \in Nat
  BY CertificatesBounds
<1>1. CertificatesInit => ChoiceInv
  <2>1. SUFFICES ASSUME CertificatesInit PROVE ChoiceInv
    OBVIOUS
  <2>2. certificates \in [1 .. MaxCertificates -> Certificate]
    BY <1>0, <2>1 DEF CertificatesInit, Certificate
  <2>3. \A c \in Defaults : c = 1
    BY <1>0, <2>1 DEF CertificatesInit, Defaults, Kept, Ids
  <2>4. \A w \in Workers : Chosen(requests[w], held[w])
    BY <1>0, <2>1 DEF CertificatesInit, Chosen, Idle
  <2>5. requests = [w \in Workers |-> requests[w]] /\ held = [w \in Workers |-> held[w]]
    BY <1>0, <2>1 DEF CertificatesInit
  <2>6. QED
    BY <2>2, <2>3, <2>4, <2>5 DEF ChoiceInv
<1>2. ChoiceInv /\ [CertificatesNext]_certificatesVars => ChoiceInv'
  BY <1>0, ChoiceStep
<1>3. ChoiceInv => OneDefaultAtMost
  <2>1. ChoiceInv => Defaults \in SUBSET (1 .. MaxCertificates) /\ \A c, d \in Defaults : c = d
    BY DEF ChoiceInv, Defaults, Kept, Ids
  <2>2. QED
    BY <1>0, <2>1, AtMostOne DEF OneDefaultAtMost
<1>4. QED
  BY <1>1, <1>2, <1>3, PTL DEF CertificatesSpec

-----------------------------------------------------------------------------
(* One thread that is not cut short. *)

Alone(w) == Workers = {w} /\ MaxAborts = 0 /\ ChoosesDefault = FALSE

\* At the request r there is a default when there are certificates, or it is being
\* replaced; what the request loaded is still so.
SerialStep(r, h) ==
  /\ r.stage \in {"idle", "counted", "choosing", "destroying", "discarded", "defaulting",
                  "cleared", "attaching"}
  /\ r.stage \in {"idle", "counted", "choosing", "destroying", "attaching"} =>
       Kept = {} \/ Defaults # {}
  /\ r.stage \in {"discarded", "defaulting", "cleared"} => Defaults = {}
  /\ r.stage = "counted" => (r.is_default <=> Kept = {})
  /\ r.stage \in {"choosing", "destroying"} => r.row \in Kept /\ (r.is_default <=> r.row \in Defaults)
  /\ r.stage = "choosing" => r.row \notin Defaults
  /\ r.stage \in {"defaulting", "attaching"} => r.row \in Kept
  /\ r.stage = "cleared" => r.row \in Kept \/ (r.row = New /\ Kept = {})
  /\ r.stage # "cleared" => h = {}
  /\ \A c \in Kept : certificates[c].file \/ (r.stage = "attaching" /\ c = r.row)

Rows == certificates \in Seq(Certificate) /\ \A c, d \in Defaults : c = d

SerialInv(w) ==
  /\ Rows
  /\ requests = [v \in Workers |-> requests[v]] /\ held = [v \in Workers |-> held[v]]
  /\ aborted = 0
  /\ SerialStep(requests[w], held[w])

LEMMA SerialKeeps ==
  ASSUME NEW w, Alone(w), SerialInv(w), NEW r, Become(w, r),
         NEW h, held' = [held EXCEPT ![w] = h] \/ (held' = held /\ h = held[w]),
         Rows', SerialStep(r, h)', aborted' = aborted
  PROVE  SerialInv(w)'
<1>1. requests' = [v \in Workers |-> requests'[v]] /\ requests'[w] = r
  BY DEF SerialInv, Become, Alone
<1>2. held' = [v \in Workers |-> held'[v]] /\ held'[w] = h
  BY DEF SerialInv, Alone
<1>3. QED
  BY <1>1, <1>2 DEF SerialInv

LEMMA SerialSame ==
  ASSUME Rows, certificates' = certificates
  PROVE  Rows' /\ Kept' = Kept /\ Defaults' = Defaults
BY DEF Rows, Kept, Ids, Defaults

LEMMA RowsAre ==
  ASSUME Rows
  PROVE  /\ Ids = 1 .. Len(certificates) /\ Len(certificates) \in Nat
         /\ \A c \in Ids : certificates[c] \in Certificate
         /\ Kept \subseteq Ids /\ Defaults \subseteq Kept
BY DEF Rows, Ids, Kept, Defaults

\* The rows keep their number, and become what f says.
LEMMA RowsBecome ==
  ASSUME Rows, NEW f, certificates' = f, DOMAIN f = Ids, f = [c \in Ids |-> f[c]],
         \A c \in Ids : f[c] \in Certificate
  PROVE  /\ certificates' \in Seq(Certificate) /\ Ids' = Ids
         /\ Kept' = {c \in Ids : f[c].kept}
         /\ Defaults' = {c \in Ids : f[c].kept /\ f[c].is_default}
<1>1. Ids = 1 .. Len(certificates) /\ Len(certificates) \in Nat
  BY RowsAre
<1>2. certificates' \in [1 .. Len(certificates) -> Certificate]
  BY <1>1
<1>3. certificates' \in Seq(Certificate)
  BY <1>1, <1>2
<1>4. Ids' = Ids
  BY DEF Ids
<1>5. QED
  BY <1>3, <1>4 DEF Kept, Defaults

\* What clearing leaves.
LEMMA ClearedRows ==
  ASSUME Rows, NEW w
  PROVE  /\ DOMAIN Cleared(w) = Ids /\ Cleared(w) = [c \in Ids |-> Cleared(w)[c]]
         /\ \A c \in Ids : /\ Cleared(w)[c] \in Certificate
                           /\ Cleared(w)[c].kept = certificates[c].kept
                           /\ Cleared(w)[c].file = certificates[c].file
                           /\ Cleared(w)[c].is_default =>
                                certificates[c].is_default /\ c \notin held[w]
         /\ held[w] = {} => Cleared(w) = certificates
<1>1. \A c \in Ids : certificates[c] \in Certificate
  BY RowsAre
<1>2. certificates = [c \in Ids |-> certificates[c]]
  BY DEF Rows, Ids
<1>3. QED
  BY <1>1, <1>2 DEF Cleared, Certificate

\* A request that chose a default leaves it as the only one.
ChoiceDone(w) ==
  requests[w].stage \in {"choosing", "defaulting", "cleared"} /\ requests'[w] = Idle
    => Defaults' = {requests[w].row}

LEMMA SerialChoice ==
  ASSUME NEW w, Alone(w), MaxAborts = 0, SerialInv(w), [CertificatesNext]_certificatesVars
  PROVE  SerialInv(w)' /\ ChoiceDone(w)
<1> DEFINE Goal == SerialInv(w)' /\ ChoiceDone(w)
<1>0. /\ Rows /\ SerialStep(requests[w], held[w]) /\ aborted = 0
      /\ requests = [v \in Workers |-> requests[v]] /\ w \in Workers /\ Workers = {w}
  BY DEF SerialInv, Alone
<1>1. /\ Ids = 1 .. Len(certificates) /\ Len(certificates) \in Nat
      /\ \A c \in Ids : certificates[c] \in Certificate
      /\ Kept \subseteq Ids /\ Defaults \subseteq Kept /\ \A c, d \in Defaults : c = d
      /\ \A c \in Kept : c \in Defaults <=> certificates[c].is_default
  BY <1>0, RowsAre DEF Rows, Defaults
<1>2. \A r : Become(w, r) => requests'[w] = r
  BY <1>0 DEF Become
<1>3. Idle.stage = "idle"
  BY DEF Idle
<1>4. CASE CountKept(w)
  <2>1. PICK r : r = [stage |-> "counted", is_default |-> Kept = {}]
    OBVIOUS
  <2>2. Become(w, r) /\ requests[w] = Idle /\ UNCHANGED <<certificates, held, aborted>>
    BY <1>4, <2>1 DEF CountKept, Accept
  <2>3. Rows' /\ Kept' = Kept /\ Defaults' = Defaults
    BY <1>0, <2>2, SerialSame
  <2>4. SerialStep(r, held[w])'
    BY <1>0, <1>3, <2>1, <2>2, <2>3 DEF SerialStep
  <2>5. QED
    BY <1>3, <2>2, <2>3, <2>4, SerialKeeps DEF ChoiceDone
<1>5. ASSUME NEW c \in Ids, SetCertificate(w, c) PROVE Goal
  <2>1. PICK b : b = certificates[c].is_default
    OBVIOUS
  <2>2. c \in Kept /\ (b <=> c \in Defaults)
    BY <1>1, <1>5, <2>1 DEF SetCertificate
  <2>3. PICK r : /\ r = [stage |-> "destroying", row |-> c, is_default |-> b]
                    \/ (r = [stage |-> "choosing", row |-> c, is_default |-> b] /\ ~b)
                 /\ Become(w, r)
    BY <1>5, <2>1 DEF SetCertificate, Alone
  <2>4. requests[w] = Idle /\ UNCHANGED <<certificates, held, aborted>>
    BY <1>5 DEF SetCertificate, Accept
  <2>5. Rows' /\ Kept' = Kept /\ Defaults' = Defaults
    BY <1>0, <2>4, SerialSame
  <2>6. SerialStep(r, held[w])'
    BY <1>0, <1>3, <2>2, <2>3, <2>4, <2>5 DEF SerialStep
  <2>7. QED
    BY <1>3, <2>3, <2>4, <2>5, <2>6, SerialKeeps DEF ChoiceDone
<1>6. CASE ClearOtherDefaults(w)
  <2>1. PICK row, r, h : /\ row = (IF requests[w].stage = "counted" THEN New ELSE requests[w].row)
                         /\ r = [stage |-> "cleared", row |-> row] /\ h = Kept \ {row}
    OBVIOUS
  <2>2. Become(w, r) /\ held' = [held EXCEPT ![w] = h] /\ UNCHANGED <<certificates, aborted>>
        /\ (requests[w].stage = "defaulting" \/ (requests[w].stage = "counted" /\ requests[w].is_default))
    BY <1>6, <2>1 DEF ClearOtherDefaults
  <2>3. Rows' /\ Kept' = Kept /\ Defaults' = Defaults
    BY <1>0, <2>2, SerialSame
  <2>4. SerialStep(r, h)'
    BY <1>0, <1>1, <2>1, <2>2, <2>3 DEF SerialStep
  <2>5. requests'[w] # Idle
    BY <1>2, <1>3, <2>1, <2>2
  <2>6. QED
    BY <2>2, <2>3, <2>4, <2>5, SerialKeeps DEF ChoiceDone
<1>7. CASE InsertCertificate(w)
  <2>1. PICK b, n : b = (requests[w].stage = "cleared") /\ n = Len(certificates) + 1
    OBVIOUS
  <2>2. PICK r, s : r = [stage |-> "attaching", row |-> n]
                    /\ s = [is_default |-> b, kept |-> TRUE, file |-> FALSE]
    OBVIOUS
  <2>3. Become(w, r) /\ held' = [held EXCEPT ![w] = {}] /\ certificates' = Append(Cleared(w), s)
        /\ aborted' = aborted
        /\ \/ requests[w].stage = "cleared" /\ requests[w].row = New
           \/ requests[w].stage = "counted" /\ ~requests[w].is_default
    BY <1>7, <2>1, <2>2 DEF InsertCertificate, Release
  <2>4. PICK f : f = Cleared(w)
    OBVIOUS
  <2>5. /\ f \in Seq(Certificate) /\ Len(f) = Len(certificates)
        /\ \A c \in Ids : f[c].kept = certificates[c].kept /\ f[c].file = certificates[c].file
    <3>1. f \in [1 .. Len(certificates) -> Certificate]
      BY <1>0, <1>1, <2>4, ClearedRows
    <3>2. Len(f) = Len(certificates) /\ f \in Seq(Certificate)
      BY <1>1, <3>1
    <3>3. QED
      BY <1>0, <2>4, <3>2, ClearedRows
  <2>6. s \in Certificate /\ s.kept /\ (s.is_default <=> requests[w].stage = "cleared")
    BY <2>1, <2>2 DEF Certificate
  <2>7. /\ certificates' \in Seq(Certificate) /\ Ids' = Ids \cup {n} /\ n \notin Ids
        /\ certificates'[n] = s /\ \A c \in Ids : certificates'[c] = f[c]
    BY <1>1, <2>1, <2>3, <2>4, <2>5, <2>6 DEF Ids
  <2>8. Kept' = Kept \cup {n}
    BY <1>1, <2>2, <2>5, <2>7 DEF Kept
  <2>9. Rows' /\ Defaults' # {}
    <3>1. CASE requests[w].stage = "cleared" /\ requests[w].row = New
      <4>1. Kept = {}
        BY <1>0, <1>1, <3>1 DEF SerialStep, New
      <4>2. Defaults' = {n}
        BY <2>6, <2>7, <2>8, <3>1, <4>1 DEF Defaults
      <4>3. QED
        BY <2>7, <4>2 DEF Rows
    <3>2. CASE requests[w].stage = "counted" /\ ~requests[w].is_default
      <4>1. held[w] = {} /\ Kept # {} /\ Defaults # {}
        BY <1>0, <3>2 DEF SerialStep
      <4>2. f = certificates
        BY <1>0, <2>4, <4>1, ClearedRows
      <4>3. Defaults' = Defaults
        BY <1>1, <2>6, <2>7, <2>8, <3>2, <4>2 DEF Defaults
      <4>4. QED
        BY <1>1, <2>7, <4>1, <4>3 DEF Rows
    <3>3. QED
      BY <2>3, <3>1, <3>2
  <2>10. \A c \in Kept' : certificates'[c].file \/ c = n
    BY <1>0, <1>1, <2>3, <2>5, <2>7, <2>8 DEF SerialStep
  <2>11. SerialStep(r, {})'
    BY <2>2, <2>8, <2>9, <2>10 DEF SerialStep
  <2>12. r # Idle
    BY <1>3, <2>2
  <2>13. QED
    BY <1>2, <2>3, <2>9, <2>11, <2>12, SerialKeeps DEF ChoiceDone
<1>8. CASE AttachFile(w)
  <2>1. PICK row : row = requests[w].row
    OBVIOUS
  <2>2. PICK f : f = [certificates EXCEPT ![row].file = TRUE]
    OBVIOUS
  <2>3. Become(w, Idle) /\ certificates' = f /\ held' = held /\ aborted' = aborted
        /\ requests[w].stage = "attaching"
    BY <1>8, <2>1, <2>2 DEF AttachFile
  <2>4. row \in Kept /\ (Kept = {} \/ Defaults # {}) /\ held[w] = {}
        /\ \A c \in Kept : certificates[c].file \/ c = row
    BY <1>0, <2>1, <2>3 DEF SerialStep
  <2>5. /\ DOMAIN f = Ids /\ f = [c \in Ids |-> f[c]]
        /\ \A c \in Ids : /\ f[c] \in Certificate /\ f[c].kept = certificates[c].kept
                          /\ f[c].is_default = certificates[c].is_default
                          /\ c # row => f[c] = certificates[c]
                          /\ c = row => f[c].file
    BY <1>1, <2>2 DEF Certificate, Ids
  <2>6. /\ certificates' \in Seq(Certificate) /\ Kept' = {c \in Ids : f[c].kept}
        /\ Defaults' = {c \in Ids : f[c].kept /\ f[c].is_default}
    BY <1>0, <2>3, <2>5, RowsBecome
  <2>7. Kept' = Kept /\ Defaults' = Defaults
    BY <2>5, <2>6 DEF Kept, Defaults
  <2>8. Rows' /\ \A c \in Kept' : certificates'[c].file
    BY <1>1, <2>3, <2>4, <2>5, <2>6, <2>7 DEF Rows
  <2>9. SerialStep(Idle, held[w])'
    BY <1>3, <2>3, <2>4, <2>7, <2>8 DEF SerialStep
  <2>10. QED
    BY <2>3, <2>8, <2>9, SerialKeeps DEF ChoiceDone
<1>9. CASE CommitDefault(w)
  <2>1. PICK row, f : row = requests[w].row /\ f = Cleared(w)
    OBVIOUS
  <2>2. PICK g : g = [f EXCEPT ![row].is_default = TRUE]
    OBVIOUS
  <2>3. Become(w, Idle) /\ certificates' = g /\ held' = [held EXCEPT ![w] = {}] /\ aborted' = aborted
        /\ requests[w].stage = "cleared" /\ row # New
    BY <1>9, <2>1, <2>2 DEF CommitDefault, Release
  <2>4. row \in Kept /\ Defaults = {} /\ \A c \in Kept : certificates[c].file
    BY <1>0, <2>1, <2>3 DEF SerialStep
  <2>5. /\ DOMAIN f = Ids /\ f = [c \in Ids |-> f[c]]
        /\ \A c \in Ids : /\ f[c] \in Certificate
                          /\ f[c].kept = certificates[c].kept
                          /\ f[c].file = certificates[c].file
                          /\ f[c].is_default => certificates[c].is_default
    BY <1>0, <2>1, ClearedRows
  <2>6. /\ DOMAIN g = Ids /\ g = [c \in Ids |-> g[c]]
        /\ \A c \in Ids : g[c] = IF c = row THEN [f[c] EXCEPT !.is_default = TRUE] ELSE f[c]
    BY <2>2, <2>5
  <2>7. \A c \in Ids : /\ g[c] \in Certificate
                       /\ g[c].kept = certificates[c].kept
                       /\ g[c].file = certificates[c].file
                       /\ (g[c].is_default <=> c = row \/ f[c].is_default)
    <3>1. \A x \in Certificate : LET y == [x EXCEPT !.is_default = TRUE]
                                 IN  y \in Certificate /\ y.kept = x.kept /\ y.file = x.file /\ y.is_default
      BY DEF Certificate
    <3>2. SUFFICES ASSUME NEW c \in Ids
                   PROVE  /\ g[c] \in Certificate
                          /\ g[c].kept = certificates[c].kept
                          /\ g[c].file = certificates[c].file
                          /\ (g[c].is_default <=> c = row \/ f[c].is_default)
      OBVIOUS
    <3>3. CASE c = row
      <4>1. g[c] = [f[c] EXCEPT !.is_default = TRUE]
        BY <2>6, <3>3
      <4>2. f[c] \in Certificate /\ f[c].kept = certificates[c].kept
            /\ f[c].file = certificates[c].file
        BY <2>5
      <4>3. g[c] \in Certificate /\ g[c].kept = f[c].kept /\ g[c].file = f[c].file
            /\ g[c].is_default
        BY <3>1, <4>1, <4>2
      <4>4. QED
        BY <3>3, <4>2, <4>3
    <3>4. CASE c # row
      <4>1. g[c] = f[c]
        BY <2>6, <3>4
      <4>2. QED
        BY <2>5, <3>4, <4>1
    <3>5. QED
      BY <3>3, <3>4
  <2>8. /\ certificates' \in Seq(Certificate) /\ Kept' = {c \in Ids : g[c].kept}
        /\ Defaults' = {c \in Ids : g[c].kept /\ g[c].is_default}
    BY <1>0, <2>3, <2>6, <2>7, RowsBecome
  <2>9. Kept' = Kept
    BY <2>7, <2>8 DEF Kept
  <2>10. Defaults' = {row}
    <3>1. row \in Ids /\ certificates[row].kept
      BY <2>4 DEF Kept
    <3>2. row \in Defaults'
      BY <2>7, <2>8, <3>1
    <3>3. ASSUME NEW c \in Ids, g[c].kept, g[c].is_default PROVE c = row
      <4>1. certificates[c].kept /\ (c = row \/ f[c].is_default)
        BY <2>7, <3>3
      <4>2. f[c].is_default => certificates[c].is_default
        BY <2>5
      <4>3. ~(certificates[c].kept /\ certificates[c].is_default)
        BY <2>4 DEF Kept, Defaults
      <4>4. QED
        BY <4>1, <4>2, <4>3
    <3>4. QED
      BY <2>8, <3>2, <3>3
  <2>11. Rows' /\ \A c \in Kept' : certificates'[c].file
    BY <1>1, <2>3, <2>4, <2>7, <2>8, <2>9, <2>10 DEF Rows
  <2>12. SerialStep(Idle, {})'
    BY <1>3, <2>10, <2>11 DEF SerialStep
  <2>13. SerialInv(w)'
    BY <2>3, <2>11, <2>12, SerialKeeps
  <2>14. QED
    BY <2>1, <2>10, <2>13 DEF ChoiceDone
<1>10. ASSUME NEW row \in Kept, NEW b, ~b, UpdateDefault(w, row, b)
       PROVE  \E r : Become(w, r) /\ r.stage = "defaulting" /\ r.row = row
  <2>1. PICK r : r = [stage |-> "defaulting", row |-> row]
    OBVIOUS
  <2>2. QED
    BY <1>10, <2>1 DEF UpdateDefault
<1>11. CASE UpdateAll(w)
  <2>1. PICK row : row = requests[w].row
    OBVIOUS
  <2>2. row \in Kept /\ ~requests[w].is_default /\ held[w] = {}
        /\ requests[w].stage = "choosing"
        /\ \A c \in Kept : certificates[c].file
    BY <1>0, <1>11, <2>1 DEF UpdateAll, SerialStep
  <2>3. PICK r : Become(w, r) /\ r.stage = "defaulting" /\ r.row = row
    BY <1>10, <1>11, <2>1, <2>2 DEF UpdateAll
  <2>4. PICK f : f = [c \in Ids |-> IF c \in Kept
                        THEN [certificates[c] EXCEPT !.is_default = FALSE]
                        ELSE certificates[c]]
    OBVIOUS
  <2>5. certificates' = f /\ held' = held /\ aborted' = aborted
    BY <1>11, <2>4 DEF UpdateAll
  <2>6. /\ DOMAIN f = Ids /\ f = [c \in Ids |-> f[c]]
        /\ \A c \in Ids : /\ f[c] \in Certificate /\ f[c].kept = certificates[c].kept
                          /\ f[c].file = certificates[c].file
                          /\ c \in Kept => f[c].is_default = FALSE
    BY <1>1, <2>4 DEF Certificate
  <2>7. /\ certificates' \in Seq(Certificate) /\ Kept' = {c \in Ids : f[c].kept}
        /\ Defaults' = {c \in Ids : f[c].kept /\ f[c].is_default}
    BY <1>0, <2>5, <2>6, RowsBecome
  <2>8. Kept' = Kept
    BY <2>6, <2>7 DEF Kept
  <2>9. Defaults' = {}
    BY <2>6, <2>7 DEF Kept
  <2>10. Rows' /\ \A c \in Kept' : certificates'[c].file
    BY <1>1, <2>2, <2>5, <2>6, <2>7, <2>8, <2>9 DEF Rows
  <2>11. SerialStep(r, held[w])'
    BY <2>2, <2>3, <2>5, <2>8, <2>9, <2>10 DEF SerialStep
  <2>12. QED
    BY <1>2, <1>3, <2>3, <2>5, <2>10, <2>11, SerialKeeps DEF ChoiceDone
<1>12. CASE Discard(w)
  <2>1. PICK row, b : row = requests[w].row /\ b = requests[w].is_default
    OBVIOUS
  <2>2. row \in Kept /\ (b <=> row \in Defaults) /\ held[w] = {} /\ Defaults # {}
        /\ requests[w].stage = "destroying"
        /\ \A c \in Kept : certificates[c].file
    BY <1>0, <1>12, <2>1 DEF Discard, SerialStep
  <2>3. PICK f : f = [certificates EXCEPT ![row].kept = FALSE]
    OBVIOUS
  <2>4. certificates' = f /\ held' = held /\ aborted' = aborted
    BY <1>12, <2>1, <2>3 DEF Discard
  <2>5. /\ DOMAIN f = Ids /\ f = [c \in Ids |-> f[c]]
        /\ \A c \in Ids : /\ f[c] \in Certificate
                          /\ f[c].is_default = certificates[c].is_default
                          /\ f[c].file = certificates[c].file
                          /\ c # row => f[c] = certificates[c]
                          /\ c = row => f[c].kept = FALSE
    BY <1>1, <2>3 DEF Certificate, Ids
  <2>6. /\ certificates' \in Seq(Certificate) /\ Kept' = {c \in Ids : f[c].kept}
        /\ Defaults' = {c \in Ids : f[c].kept /\ f[c].is_default}
    BY <1>0, <2>4, <2>5, RowsBecome
  <2>7. Kept' = Kept \ {row}
    BY <2>5, <2>6 DEF Kept
  <2>7a. Defaults' = Defaults \ {row}
    BY <2>5, <2>6, <2>7 DEF Kept, Defaults
  <2>8. Rows' /\ \A c \in Kept' : certificates'[c].file
    <3>1. \A c, d \in Defaults' : c = d
      BY <1>1, <2>7a DEF Rows
    <3>2. \A c \in Kept' : certificates'[c].file
      <4>1. SUFFICES ASSUME NEW c \in Kept' PROVE certificates'[c].file
        OBVIOUS
      <4>2. c \in Kept /\ c # row /\ c \in Ids
        BY <2>7 DEF Kept
      <4>3. QED
        BY <2>2, <2>4, <2>5, <4>2
    <3>3. QED
      BY <2>6, <3>1, <3>2 DEF Rows
  <2>9. PICK r : Become(w, r) /\ r.stage = IF b THEN "discarded" ELSE "idle"
    <3>1. PICK r : r = [stage |-> "discarded"]
      OBVIOUS
    <3>2. Become(w, IF b THEN r ELSE Idle)
      BY <1>12, <2>1, <3>1 DEF Discard
    <3>3. QED
      BY <1>3, <3>1, <3>2
  <2>10. IF b THEN Defaults' = {} ELSE Defaults' # {}
    BY <1>1, <2>2, <2>7a
  <2>11. SerialStep(r, held[w])'
    BY <2>2, <2>4, <2>8, <2>9, <2>10 DEF SerialStep
  <2>12. QED
    BY <2>2, <2>4, <2>8, <2>9, <2>11, SerialKeeps DEF ChoiceDone
<1>13. CASE PromoteNext(w)
  <2>1. requests[w].stage = "discarded" /\ UNCHANGED <<certificates, held, aborted>>
    BY <1>13 DEF PromoteNext
  <2>2. Rows' /\ Kept' = Kept /\ Defaults' = Defaults
    BY <1>0, <2>1, SerialSame
  <2>3. Defaults = {} /\ held[w] = {} /\ \A c \in Kept : certificates[c].file
    BY <1>0, <2>1 DEF SerialStep
  <2>4. CASE Kept = {}
    <3>1. Become(w, Idle)
      BY <1>13, <2>4 DEF PromoteNext
    <3>2. SerialStep(Idle, held[w])'
      BY <1>3, <2>1, <2>2, <2>3, <2>4 DEF SerialStep
    <3>3. QED
      BY <2>1, <2>2, <3>1, <3>2, SerialKeeps DEF ChoiceDone
  <2>5. CASE Kept # {}
    <3>1. Max(Kept) \in Kept
      BY <1>1, <2>5, MaxOf
    <3>2. PICK row : row = Max(Kept)
      OBVIOUS
    <3>3. row \in Kept /\ ~certificates[row].is_default
      BY <1>1, <2>3, <3>1, <3>2
    <3>4. UpdateDefault(w, row, certificates[row].is_default)
      BY <1>13, <2>5, <3>2 DEF PromoteNext
    <3>5. PICK r : Become(w, r) /\ r.stage = "defaulting" /\ r.row = row
      BY <1>10, <3>3, <3>4
    <3>6. SerialStep(r, held[w])'
      BY <2>1, <2>2, <2>3, <3>3, <3>5 DEF SerialStep
    <3>7. QED
      BY <2>1, <2>2, <3>5, <3>6, SerialKeeps DEF ChoiceDone
  <2>6. QED
    BY <2>4, <2>5
<1>14. ~RaiseDeadlocked(w)
  BY <1>0 DEF RaiseDeadlocked, Deadlocked
<1>15. ~Abort(w)
  BY <1>0 DEF Abort
<1>16. CASE UNCHANGED certificatesVars
  <2>1. UNCHANGED <<certificates, requests, held, aborted>>
    BY <1>16 DEF certificatesVars
  <2>2. Rows' /\ Kept' = Kept /\ Defaults' = Defaults
    BY <1>0, <2>1, SerialSame
  <2>3. SerialInv(w)'
    BY <2>1, <2>2 DEF SerialInv, SerialStep
  <2>4. QED
    BY <1>3, <2>1, <2>3 DEF ChoiceDone
<1>17. QED
  BY <1>0, <1>4, <1>5, <1>6, <1>7, <1>8, <1>9, <1>11, <1>12, <1>13, <1>14, <1>15, <1>16
  DEF CertificatesNext, Rest, Arrive, Step

LEMMA SerialInit ==
  ASSUME NEW w, Alone(w), CertificatesInit
  PROVE  SerialInv(w)
<1>0. InitialCertificates \in Nat
  BY CertificatesBounds
<1>1. certificates \in Seq(Certificate)
  BY <1>0 DEF CertificatesInit, Certificate
<1>2. /\ Kept = 1 .. InitialCertificates /\ Ids = 1 .. InitialCertificates
      /\ \A c \in Ids : (certificates[c].is_default <=> c = 1) /\ certificates[c].file
  BY <1>0 DEF CertificatesInit, Kept, Ids
<1>3. (\A c \in Defaults : c = 1) /\ (Kept = {} \/ 1 \in Defaults)
  <2>1. Kept # {} => 1 \in Kept
    BY <1>0, <1>2
  <2>2. QED
    BY <1>2, <2>1 DEF Defaults
<1>4. requests = [v \in Workers |-> Idle] /\ held = [v \in Workers |-> {}] /\ aborted = 0
  BY DEF CertificatesInit
<1>5. requests[w] = Idle /\ held[w] = {}
  BY <1>4 DEF Alone
<1>6. SerialStep(Idle, {})
  BY <1>2, <1>3 DEF SerialStep, Idle
<1>7. QED
  BY <1>1, <1>3, <1>4, <1>5, <1>6 DEF SerialInv, Rows

\* Between the requests of one thread that is driven by the page and not cut short, a
\* user who has certificates has one default, which can sign.
THEOREM OneDefaultSerial ==
  ASSUME NEW w, Workers = {w}, MaxAborts = 0, ChoosesDefault = FALSE
  PROVE  CertificatesSpec => []OneDefault
<1>1. Alone(w)
  BY DEF Alone
<1>2. SerialInv(w) => OneDefault
  <2>1. SUFFICES ASSUME SerialInv(w), AllIdle, Kept # {}
                 PROVE  \E c \in Kept : Defaults = {c} /\ certificates[c].file
    BY DEF OneDefault
  <2>2. requests[w].stage = "idle"
    BY <1>1, <2>1 DEF AllIdle, Alone, Idle
  <2>3. PICK c \in Defaults : TRUE
    BY <2>1, <2>2 DEF SerialInv, SerialStep
  <2>4. c \in Kept /\ Defaults = {c}
    BY <2>1, <2>3 DEF SerialInv, Rows, Defaults
  <2>5. certificates[c].file
    BY <2>1, <2>2, <2>4 DEF SerialInv, SerialStep
  <2>6. QED
    BY <2>4, <2>5
<1>3. CertificatesInit => SerialInv(w)
  BY <1>1, SerialInit
<1>4. SerialInv(w) /\ [CertificatesNext]_certificatesVars => SerialInv(w)'
  BY <1>1, SerialChoice
<1>5. QED
  BY <1>2, <1>3, <1>4, PTL DEF CertificatesSpec

\* "Certificado establecido como predeterminado": there, a request that sets a default
\* ends with the certificate it was called on, or promoted, as the only default.
THEOREM ChoiceSerial ==
  ASSUME NEW t, Workers = {t}, MaxAborts = 0, ChoosesDefault = FALSE
  PROVE  CertificatesSpec => ChoiceIsDefault
<1>1. Alone(t)
  BY DEF Alone
<1>2. SerialInv(t) /\ [CertificatesNext]_certificatesVars =>
        [\A w \in Workers :
           (/\ requests[w].stage \in {"choosing", "defaulting", "cleared"}
            /\ requests'[w] = Idle
            /\ aborted' = aborted)
             => {c \in Kept' : certificates'[c].is_default} = {requests[w].row}]_certificatesVars
  <2>1. SUFFICES ASSUME SerialInv(t), CertificatesNext
                 PROVE  \A w \in Workers :
                          (/\ requests[w].stage \in {"choosing", "defaulting", "cleared"}
                           /\ requests'[w] = Idle
                           /\ aborted' = aborted)
                            => {c \in Kept' : certificates'[c].is_default} = {requests[w].row}
    OBVIOUS
  <2>2. ChoiceDone(t)
    BY <1>1, <2>1, SerialChoice
  <2>3. QED
    BY <1>1, <2>2 DEF ChoiceDone, Defaults, Alone
<1>3. CertificatesInit => SerialInv(t)
  BY <1>1, SerialInit
<1>4. SerialInv(t) /\ [CertificatesNext]_certificatesVars => SerialInv(t)'
  BY <1>1, SerialChoice
<1>5. QED
  BY <1>2, <1>3, <1>4, PTL DEF CertificatesSpec, ChoiceIsDefault
-----------------------------------------------------------------------------
(* One thread, whatever it is asked for and however it is cut short. *)

\* When the others are cleared, no kept certificate is left out.
LoneInv(w) ==
  /\ Rows
  /\ requests = [v \in Workers |-> requests[v]] /\ held = [v \in Workers |-> held[v]]
  /\ requests[w].stage = "cleared" => Kept \subseteq held[w] \cup {requests[w].row}

\* What the rows are when every default is one of before, or there is just the one.
LEMMA FewerDefaults ==
  ASSUME Rows, NEW f, certificates' = f, DOMAIN f = Ids, f = [c \in Ids |-> f[c]],
         \A c \in Ids : f[c] \in Certificate,
         NEW row, \/ \A c \in Ids : f[c].kept /\ f[c].is_default => c \in Defaults
                  \/ \A c \in Ids : f[c].kept /\ f[c].is_default => c = row
  PROVE  Rows'
<1>1. certificates' \in Seq(Certificate) /\ Defaults' = {c \in Ids : f[c].kept /\ f[c].is_default}
  BY RowsBecome
<1>2. \A c, d \in Defaults : c = d
  BY DEF Rows
<1>3. \A c, d \in Defaults' : c = d
  BY <1>1, <1>2
<1>4. QED
  BY <1>1, <1>3 DEF Rows

LEMMA LoneKeeps ==
  ASSUME NEW w, Workers = {w}, LoneInv(w), Rows', NEW r, Become(w, r), r.stage # "cleared",
         held' = [held EXCEPT ![w] = {}] \/ held' = held
  PROVE  LoneInv(w)'
<1>1. requests' = [v \in Workers |-> requests'[v]] /\ requests'[w] = r
  BY DEF LoneInv, Become
<1>2. held' = [v \in Workers |-> held'[v]]
  BY DEF LoneInv
<1>3. QED
  BY <1>1, <1>2 DEF LoneInv

\* A certificate that is uploaded is the default if the others were cleared for it.
LEMMA LoneInsert ==
  ASSUME NEW w, Workers = {w}, LoneInv(w), InsertCertificate(w) PROVE Rows'
<1>1. PICK b, n : b = (requests[w].stage = "cleared") /\ n = Len(certificates) + 1
  OBVIOUS
<1>2. PICK f, s : f = Cleared(w) /\ s = [is_default |-> b, kept |-> TRUE, file |-> FALSE]
  OBVIOUS
<1>3. /\ certificates' = Append(f, s)
      /\ b => requests[w].row = New
  BY <1>1, <1>2 DEF InsertCertificate
<1>4. /\ Ids = 1 .. Len(certificates) /\ Len(certificates) \in Nat
      /\ Kept \subseteq Ids /\ \A c, d \in Defaults : c = d /\ Rows
  BY RowsAre DEF LoneInv, Rows
<1>5. /\ DOMAIN f = Ids /\ f = [c \in Ids |-> f[c]]
      /\ \A c \in Ids : /\ f[c] \in Certificate /\ f[c].kept = certificates[c].kept
                        /\ f[c].is_default => certificates[c].is_default /\ c \notin held[w]
  BY <1>2, ClearedRows DEF LoneInv
<1>6. f \in Seq(Certificate) /\ Len(f) = Len(certificates)
  <2>1. f \in [1 .. Len(certificates) -> Certificate]
    BY <1>4, <1>5
  <2>2. QED
    BY <1>4, <2>1
<1>7. s \in Certificate /\ s.is_default = b
  BY <1>1, <1>2 DEF Certificate
<1>8. /\ certificates' \in Seq(Certificate) /\ Ids' = Ids \cup {n} /\ n \notin Ids
      /\ certificates'[n] = s /\ \A c \in Ids : certificates'[c] = f[c]
  BY <1>1, <1>3, <1>4, <1>6, <1>7 DEF Ids
<1>9. \A c \in Defaults' : (c = n /\ b) \/ (c \in Defaults /\ c \notin held[w])
  <2>1. SUFFICES ASSUME NEW c \in Defaults' PROVE (c = n /\ b) \/ (c \in Defaults /\ c \notin held[w])
    OBVIOUS
  <2>2. c \in Ids \cup {n} /\ certificates'[c].kept /\ certificates'[c].is_default
    BY <1>8, <2>1 DEF Defaults, Kept
  <2>3. CASE c = n
    BY <1>7, <1>8, <2>2, <2>3
  <2>4. CASE c \in Ids
    <3>1. f[c].kept /\ f[c].is_default
      BY <1>8, <2>2, <2>4
    <3>2. QED
      BY <1>5, <2>4, <3>1 DEF Defaults, Kept
  <2>5. QED
    BY <2>2, <2>3, <2>4
<1>10. b => Defaults \subseteq held[w]
  <2>1. SUFFICES ASSUME b, NEW c \in Defaults PROVE c \in held[w]
    OBVIOUS
  <2>2. Kept \subseteq held[w] \cup {New}
    BY <1>1, <1>3, <2>1 DEF LoneInv
  <2>3. c \in Kept /\ c # New
    BY <1>4 DEF Defaults, New
  <2>4. QED
    BY <2>2, <2>3
<1>11. \A c, d \in Defaults' : c = d
  <2>1. CASE b
    BY <1>9, <1>10, <2>1
  <2>2. CASE ~b
    BY <1>4, <1>9, <2>2
  <2>3. QED
    BY <2>1, <2>2
<1>12. QED
  BY <1>8, <1>11 DEF Rows

LEMMA LoneStep ==
  ASSUME NEW w, Workers = {w}, LoneInv(w), [CertificatesNext]_certificatesVars
  PROVE  LoneInv(w)'
<1>0. /\ Rows /\ w \in Workers /\ Idle.stage # "cleared"
      /\ Ids = 1 .. Len(certificates) /\ \A c \in Ids : certificates[c] \in Certificate
      /\ certificates = [c \in Ids |-> certificates[c]]
  BY RowsAre DEF LoneInv, Idle, Rows, Ids
<1>1. ASSUME certificates' = certificates PROVE Rows' /\ Kept' = Kept
  BY <1>0, <1>1, SerialSame
<1>2. CASE CountKept(w) \/ \E c \in Ids : SetCertificate(w, c)
  <2>1. PICK r : Become(w, r) /\ r.stage # "cleared"
    <3>1. CASE CountKept(w)
      <4>1. PICK r : r = [stage |-> "counted", is_default |-> Kept = {}]
        OBVIOUS
      <4>2. Become(w, r) /\ r.stage # "cleared"
        BY <3>1, <4>1 DEF CountKept
      <4>3. QED
        BY <4>2
    <3>2. ASSUME NEW c \in Ids, SetCertificate(w, c)
          PROVE  \E r : Become(w, r) /\ r.stage # "cleared"
      <4>1. PICK b : b = certificates[c].is_default
        OBVIOUS
      <4>2. \/ Become(w, [stage |-> "destroying", row |-> c, is_default |-> b])
            \/ Become(w, [stage |-> "choosing", row |-> c, is_default |-> b])
        BY <3>2, <4>1 DEF SetCertificate
      <4>3. QED
        BY <4>2
    <3>3. QED
      BY <1>2, <3>1, <3>2
  <2>2. certificates' = certificates /\ held' = held
    BY <1>2 DEF CountKept, SetCertificate, Accept
  <2>3. QED
    BY <1>1, <2>1, <2>2, LoneKeeps
<1>3. CASE ClearOtherDefaults(w)
  <2>1. PICK row, r : /\ row = (IF requests[w].stage = "counted" THEN New ELSE requests[w].row)
                      /\ r = [stage |-> "cleared", row |-> row]
    OBVIOUS
  <2>2. Become(w, r) /\ held' = [held EXCEPT ![w] = Kept \ {row}] /\ certificates' = certificates
    BY <1>3, <2>1 DEF ClearOtherDefaults
  <2>3. /\ requests' = [v \in Workers |-> requests'[v]] /\ requests'[w] = r
        /\ held' = [v \in Workers |-> held'[v]] /\ held'[w] = Kept \ {row}
    BY <1>0, <2>2 DEF LoneInv, Become
  <2>4. Rows' /\ Kept' = Kept /\ r.row = row
    BY <1>1, <2>1, <2>2
  <2>5. QED
    BY <2>3, <2>4 DEF LoneInv
<1>4. CASE InsertCertificate(w)
  <2>1. PICK r : r = [stage |-> "attaching", row |-> Len(certificates) + 1]
    OBVIOUS
  <2>2. Become(w, r) /\ r.stage # "cleared" /\ held' = [held EXCEPT ![w] = {}]
    BY <1>4, <2>1 DEF InsertCertificate, Release
  <2>3. QED
    BY <1>4, <2>2, LoneInsert, LoneKeeps
<1>5. CASE AttachFile(w)
  <2>1. PICK row, f : row = requests[w].row /\ f = [certificates EXCEPT ![row].file = TRUE]
    OBVIOUS
  <2>2. certificates' = f /\ Become(w, Idle) /\ held' = held
    BY <1>5, <2>1 DEF AttachFile
  <2>3. /\ DOMAIN f = Ids /\ f = [c \in Ids |-> f[c]]
        /\ \A c \in Ids : /\ f[c] \in Certificate /\ f[c].kept = certificates[c].kept
                          /\ f[c].is_default = certificates[c].is_default
    BY <1>0, <2>1 DEF Certificate
  <2>4. \A c \in Ids : f[c].kept /\ f[c].is_default => c \in Defaults
    BY <2>3 DEF Defaults, Kept
  <2>5. Rows'
    BY <1>0, <2>2, <2>3, <2>4, FewerDefaults
  <2>6. QED
    BY <1>0, <2>2, <2>5, LoneKeeps
<1>6. CASE CommitDefault(w)
  <2>1. PICK row, f : row = requests[w].row /\ f = Cleared(w)
    OBVIOUS
  <2>2. PICK g : g = [f EXCEPT ![row].is_default = TRUE]
    OBVIOUS
  <2>3. certificates' = g /\ Become(w, Idle) /\ held' = [held EXCEPT ![w] = {}]
        /\ Kept \subseteq held[w] \cup {row}
    BY <1>6, <2>1, <2>2 DEF CommitDefault, Release, LoneInv
  <2>4. /\ DOMAIN f = Ids /\ f = [c \in Ids |-> f[c]]
        /\ \A c \in Ids : /\ f[c] \in Certificate /\ f[c].kept = certificates[c].kept
                          /\ f[c].is_default => c \notin held[w]
    BY <1>0, <2>1, ClearedRows
  <2>5. /\ DOMAIN g = Ids /\ g = [c \in Ids |-> g[c]]
        /\ \A c \in Ids : g[c] = IF c = row THEN [f[c] EXCEPT !.is_default = TRUE] ELSE f[c]
    BY <2>2, <2>4
  <2>6. \A c \in Ids : g[c] \in Certificate
    BY <2>4, <2>5 DEF Certificate
  <2>7. ASSUME NEW c \in Ids, g[c].kept, g[c].is_default, c # row PROVE FALSE
    <3>1. f[c].kept /\ f[c].is_default
      BY <2>5, <2>7
    <3>2. c \in Kept /\ c \notin held[w]
      BY <2>4, <3>1 DEF Kept
    <3>3. QED
      BY <2>3, <2>7, <3>2
  <2>8. Rows'
    BY <1>0, <2>3, <2>5, <2>6, <2>7, FewerDefaults
  <2>9. QED
    BY <1>0, <2>3, <2>8, LoneKeeps
<1>7. ASSUME NEW row, NEW b, UpdateDefault(w, row, b)
      PROVE  \E r : Become(w, r) /\ r.stage # "cleared"
  <2>1. PICK r : r = [stage |-> "defaulting", row |-> row]
    OBVIOUS
  <2>2. Become(w, r) \/ Become(w, Idle)
    BY <1>7, <2>1 DEF UpdateDefault
  <2>3. QED
    BY <1>0, <2>1, <2>2
<1>8. CASE UpdateAll(w)
  <2>1. PICK f : f = [c \in Ids |-> IF c \in Kept
                        THEN [certificates[c] EXCEPT !.is_default = FALSE]
                        ELSE certificates[c]]
    OBVIOUS
  <2>2. certificates' = f /\ held' = held
    BY <1>8, <2>1 DEF UpdateAll
  <2>3. PICK r : Become(w, r) /\ r.stage # "cleared"
    BY <1>7, <1>8 DEF UpdateAll
  <2>4. /\ DOMAIN f = Ids /\ f = [c \in Ids |-> f[c]]
        /\ \A c \in Ids : /\ f[c] \in Certificate /\ f[c].kept = certificates[c].kept
                          /\ c \in Kept => f[c].is_default = FALSE
    BY <1>0, <2>1 DEF Certificate
  <2>5. \A c \in Ids : f[c].kept /\ f[c].is_default => c \in Defaults
    BY <2>4 DEF Kept
  <2>6. Rows'
    BY <1>0, <2>2, <2>4, <2>5, FewerDefaults
  <2>7. QED
    BY <2>2, <2>3, <2>6, LoneKeeps
<1>9. CASE Discard(w)
  <2>1. PICK row, f : row = requests[w].row /\ f = [certificates EXCEPT ![row].kept = FALSE]
    OBVIOUS
  <2>2. PICK r : r = [stage |-> "discarded"]
    OBVIOUS
  <2>3. certificates' = f /\ held' = held /\ (Become(w, r) \/ Become(w, Idle))
    BY <1>9, <2>1, <2>2 DEF Discard
  <2>4. /\ DOMAIN f = Ids /\ f = [c \in Ids |-> f[c]]
        /\ \A c \in Ids : /\ f[c] \in Certificate /\ (f[c].kept => certificates[c].kept)
                          /\ f[c].is_default = certificates[c].is_default
    BY <1>0, <2>1 DEF Certificate
  <2>5. \A c \in Ids : f[c].kept /\ f[c].is_default => c \in Defaults
    BY <2>4 DEF Defaults, Kept
  <2>6. Rows'
    BY <1>0, <2>3, <2>4, <2>5, FewerDefaults
  <2>7. QED
    BY <1>0, <2>2, <2>3, <2>6, LoneKeeps
<1>10. CASE PromoteNext(w)
  <2>1. certificates' = certificates /\ held' = held
    BY <1>10 DEF PromoteNext
  <2>2. PICK r : Become(w, r) /\ r.stage # "cleared"
    <3>1. Become(w, Idle) \/ UpdateDefault(w, Max(Kept), certificates[Max(Kept)].is_default)
      BY <1>10 DEF PromoteNext
    <3>2. QED
      BY <1>0, <1>7, <3>1
  <2>3. QED
    BY <1>1, <2>1, <2>2, LoneKeeps
<1>11. CASE RaiseDeadlocked(w) \/ Abort(w)
  <2>1. certificates' = certificates /\ held' = [held EXCEPT ![w] = {}] /\ Become(w, Idle)
    BY <1>11 DEF RaiseDeadlocked, Abort, Release
  <2>2. QED
    BY <1>0, <1>1, <2>1, LoneKeeps
<1>12. CASE UNCHANGED certificatesVars
  <2>1. UNCHANGED <<certificates, requests, held>>
    BY <1>12 DEF certificatesVars
  <2>2. Rows' /\ Kept' = Kept
    BY <1>1, <2>1
  <2>3. QED
    BY <2>1, <2>2 DEF LoneInv
<1>13. QED
  BY <1>2, <1>3, <1>4, <1>5, <1>6, <1>8, <1>9, <1>10, <1>11, <1>12
  DEF CertificatesNext, Rest, Arrive, Step

\* "Ensure only one default per user", with one thread: uploads, choices, also of what
\* is the default already, and deletions, cut short anywhere, never leave two.
THEOREM OneDefaultAlone ==
  ASSUME NEW w, Workers = {w} PROVE CertificatesSpec => []OneDefaultAtMost
<1>0. InitialCertificates \in Nat
  BY CertificatesBounds
<1>1. CertificatesInit => LoneInv(w)
  <2>1. SUFFICES ASSUME CertificatesInit PROVE LoneInv(w)
    OBVIOUS
  <2>2. certificates \in Seq(Certificate) /\ \A c \in Defaults : c = 1
    <3>1. certificates = [c \in 1 .. InitialCertificates |->
                            [is_default |-> c = 1, kept |-> TRUE, file |-> TRUE]]
      BY <2>1 DEF CertificatesInit
    <3>2. certificates \in Seq(Certificate)
      BY <1>0, <3>1 DEF Certificate
    <3>3. \A c \in Defaults : c = 1
      BY <1>0, <3>1 DEF Defaults, Kept, Ids
    <3>4. QED
      BY <3>2, <3>3
  <2>3. requests = [v \in Workers |-> Idle] /\ held = [v \in Workers |-> {}]
    BY <2>1 DEF CertificatesInit
  <2>4. requests[w].stage # "cleared"
    BY <2>3 DEF Idle
  <2>5. QED
    BY <2>2, <2>3, <2>4 DEF LoneInv, Rows
<1>2. LoneInv(w) /\ [CertificatesNext]_certificatesVars => LoneInv(w)'
  BY LoneStep
<1>3. LoneInv(w) => OneDefaultAtMost
  <2>1. LoneInv(w) => /\ Len(certificates) \in Nat /\ \A c, d \in Defaults : c = d
                      /\ Defaults \in SUBSET (1 .. Len(certificates))
    BY RowsAre DEF LoneInv, Rows
  <2>2. QED
    BY <2>1, AtMostOne DEF OneDefaultAtMost
<1>4. QED
  BY <1>1, <1>2, <1>3, PTL DEF CertificatesSpec
=============================================================================
