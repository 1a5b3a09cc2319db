-------------------------- MODULE PublicPortalProofs --------------------------
(***************************************************************************)
(* Proofs about PublicPortal, for every set of sender data and every       *)
(* bound.                                                                  *)
(***************************************************************************)
EXTENDS PublicPortal, SequenceTheorems, FiniteSetTheorems, TLAPS

-----------------------------------------------------------------------------
(* Tables: the position of a row is its id. *)

\* Appending a row to a table of n rows: the rows keep their ids, the new one
\* has id n + 1.
LEMMA AppendRow ==
  ASSUME NEW S, NEW n \in Nat, NEW t \in [1 .. n -> S], NEW e \in S
  PROVE  /\ t \in Seq(S) /\ Len(t) = n
         /\ Append(t, e) \in [1 .. n + 1 -> S]
         /\ Append(t, e) \in Seq(S)
         /\ Len(Append(t, e)) = n + 1
         /\ \A i \in 1 .. n : Append(t, e)[i] = t[i]
         /\ Append(t, e)[n + 1] = e
<1>1. t \in Seq(S) /\ Len(t) = n
  BY SeqDef
<1>2. /\ Append(t, e) \in Seq(S)
      /\ Len(Append(t, e)) = n + 1
      /\ \A i \in 1 .. n : Append(t, e)[i] = t[i]
      /\ Append(t, e)[n + 1] = e
  BY <1>1, AppendProperties
<1>3. Append(t, e) \in [1 .. n + 1 -> S]
  BY <1>2, LenProperties
<1>4. QED
  BY <1>1, <1>2, <1>3

-----------------------------------------------------------------------------
(* The invariant. *)

Calls == SubmitCall \cup TrackCall

\* The calls that may still store a submission, by their ids.
Unsaved == {c.id : c \in {d \in calls : d.op = "submit" /\ d.stage = "sent"}}

CallsOK ==
  /\ \A c \in calls : c \in Calls /\ c.id <= made
  /\ \A c, d \in calls : c.id = d.id => c = d

TableOK ==
  /\ submissions \in Seq(Submission)
  /\ Len(submissions) + Cardinality(Unsaved) <= made

CountsOK == made \in 0 .. MaxCalls /\ lost \in 0 .. MaxLost

PageOK ==
  /\ place \in {"inicio", "registro", "consulta"}
  /\ wizard \in Wizard
  /\ search \in Search
  /\ wizard.step = 1 => wizard.form.sender # Nil
  /\ wizard.step = 2 => wizard.shown \in Ids

\* What a submit under way knows of its row.
RowOK(c) ==
  /\ c.form.sender # Nil
  /\ c.stage = "sent" => c.row = 0
  /\ c.stage \in {"saved", "created"} => c.row \in Ids
  /\ c.stage = "created" => submissions[c.row].registered
  /\ c.stage = "refused" /\ c.row # 0 => c.row \in missed

RowsOK ==
  /\ \A c \in calls : c.op = "submit" => RowOK(c)
  /\ told \subseteq Ids /\ missed \subseteq Ids

PortalInv ==
  /\ CallsOK /\ TableOK /\ CountsOK /\ PageOK /\ RowsOK
  /\ SenderWasValidated /\ ToldIsRegistered /\ NoSilentSubmission

-----------------------------------------------------------------------------
(* Lemmas. *)

LEMMA IdsTyped ==
  ASSUME submissions \in Seq(Submission)
  PROVE  /\ Len(submissions) \in Nat
         /\ Ids = 1 .. Len(submissions)
         /\ submissions \in [1 .. Len(submissions) -> Submission]
         /\ \A s \in Ids : submissions[s] \in Submission
<1>1. Len(submissions) \in Nat /\ Ids = 1 .. Len(submissions)
  BY LenProperties DEF Ids
<1>2. submissions \in [1 .. Len(submissions) -> Submission]
  BY LenProperties
<1>3. QED
  BY <1>1, <1>2

LEMMA UnsavedCounted ==
  ASSUME CallsOK, CountsOK
  PROVE  IsFiniteSet(Unsaved) /\ Cardinality(Unsaved) \in Nat /\ Unsaved \subseteq 1 .. made
<1>1. made \in Nat
  BY BoundsAssumption DEF CountsOK
<1>2. Unsaved \subseteq 1 .. made
  BY <1>1 DEF CallsOK, Calls, SubmitCall, TrackCall, Unsaved
<1>3. IsFiniteSet(1 .. made)
  BY <1>1, FS_Interval
<1>4. QED
  BY <1>2, <1>3, FS_Subset, FS_CardinalityType

LEMMA InvIsTyped == PortalInv => TypeOK
<1> SUFFICES ASSUME PortalInv PROVE TypeOK
  OBVIOUS
<1>1. Len(submissions) <= made
  <2>1. Cardinality(Unsaved) \in Nat
    BY UnsavedCounted DEF PortalInv
  <2>2. Len(submissions) \in Nat /\ made \in Nat
    BY IdsTyped, BoundsAssumption DEF PortalInv, TableOK, CountsOK
  <2>3. QED
    BY <2>1, <2>2 DEF PortalInv, TableOK
<1>2. QED
  BY <1>1 DEF PortalInv, CallsOK, Calls, TableOK, CountsOK, PageOK, RowsOK, TypeOK

LEMMA InvInit == Init => PortalInv
<1> SUFFICES ASSUME Init PROVE PortalInv
  OBVIOUS
<1>1. CallsOK /\ RowsOK
  BY DEF Init, CallsOK, RowsOK
<1>2. CountsOK
  <2>1. made = 0 /\ lost = 0
    BY DEF Init
  <2>2. QED
    BY <2>1, BoundsAssumption DEF CountsOK
<1>3. TableOK
  <2>1. Unsaved = {}
    BY DEF Init, Unsaved
  <2>2. submissions \in Seq(Submission) /\ Len(submissions) = 0 /\ made = 0
    BY DEF Init
  <2>3. QED
    BY <2>1, <2>2, FS_EmptySet DEF TableOK
<1>4. PageOK
  BY DEF Init, PageOK, Wizard, NewWizard, Form, INITIAL, Search, NewSearch
<1>5. Ids = {}
  BY DEF Init, Ids
<1>6. QED
  BY <1>1, <1>2, <1>3, <1>4, <1>5
  DEF Init, PortalInv, SenderWasValidated, ToldIsRegistered, NoSilentSubmission

\* The table stays; the submissions keep their calls, unless they have been told
\* or missed.
LEMMA SameTable ==
  ASSUME PortalInv, submissions' = submissions, told' = told, missed \subseteq missed',
         \A c \in calls : c.op = "submit" /\ c.row \in Ids /\ c.row \notin missed'
           => \E d \in calls' : d.op = "submit" /\ d.row = c.row
  PROVE  (SenderWasValidated /\ ToldIsRegistered /\ NoSilentSubmission)'
BY DEF PortalInv, SenderWasValidated, ToldIsRegistered, NoSilentSubmission, Ids

\* No more submissions are to be stored.
LEMMA FewerUnsaved ==
  ASSUME PortalInv, Unsaved' \subseteq Unsaved, submissions' = submissions,
         made' \in Nat, made <= made'
  PROVE  TableOK'
<1>1. IsFiniteSet(Unsaved) /\ Cardinality(Unsaved) \in Nat
  BY UnsavedCounted DEF PortalInv
<1>2. Cardinality(Unsaved') <= Cardinality(Unsaved) /\ Cardinality(Unsaved') \in Nat
  BY <1>1, FS_Subset, FS_CardinalityType
<1>3. Len(submissions) \in Nat /\ made \in Nat
  BY IdsTyped, BoundsAssumption DEF PortalInv, TableOK, CountsOK
<1>4. QED
  BY <1>1, <1>2, <1>3 DEF PortalInv, TableOK
-----------------------------------------------------------------------------
(* The citizen. *)

LEMMA NavigateKeeps ==
  ASSUME PortalInv, NEW to \in {"inicio", "registro", "consulta"}, Navigate(to)
  PROVE  PortalInv'
<1> DEFINE left(c) == [c EXCEPT !.open = FALSE]
<1>1. \A c \in calls : c \in Calls /\ c.id <= made /\ (c.op = "submit" => RowOK(c))
  BY DEF PortalInv, CallsOK, RowsOK
<1>2. \A c \in calls : /\ left(c) \in Calls /\ left(c).id = c.id /\ left(c).op = c.op
                       /\ left(c).stage = c.stage
                       /\ c.op = "submit" => left(c).form = c.form /\ left(c).row = c.row
  BY <1>1 DEF Calls, SubmitCall, TrackCall
<1>3. calls' = {left(c) : c \in calls} /\ UNCHANGED <<submissions, counts, history>>
  BY DEF Navigate
<1> HIDE DEF left
<1>4. CallsOK'
  BY <1>1, <1>2, <1>3 DEF PortalInv, CallsOK, counts
<1>5. RowsOK'
  BY <1>1, <1>2, <1>3 DEF PortalInv, RowsOK, RowOK, history, Ids
<1>6. CountsOK'
  BY <1>3 DEF PortalInv, CountsOK, counts
<1>7. TableOK'
  <2>1. Unsaved' \subseteq Unsaved
    BY <1>2, <1>3 DEF Unsaved
  <2>2. made' \in Nat /\ made <= made'
    BY <1>3, BoundsAssumption DEF PortalInv, CountsOK, counts
  <2>3. QED
    BY <1>3, <2>1, <2>2, FewerUnsaved
<1>8. PageOK'
  BY DEF Navigate, PageOK, Wizard, NewWizard, Form, INITIAL, Search, NewSearch
<1>9. (SenderWasValidated /\ ToldIsRegistered /\ NoSilentSubmission)'
  BY <1>2, <1>3, SameTable DEF history
<1>10. QED
  BY <1>4, <1>5, <1>6, <1>7, <1>8, <1>9 DEF PortalInv

\* A step that only changes what the pages hold.
LEMMA PageKeeps ==
  ASSUME PortalInv, UNCHANGED <<submissions, calls, counts, history>>, PageOK'
  PROVE  PortalInv'
<1>1. CallsOK' /\ CountsOK' /\ TableOK'
  BY DEF PortalInv, CallsOK, CountsOK, TableOK, counts, Unsaved
<1>2. RowsOK'
  BY DEF PortalInv, RowsOK, RowOK, history, Ids
<1>3. QED
  BY <1>1, <1>2, SameTable DEF PortalInv, history

\* A wizard that shows one of its forms.
Editable(w) ==
  /\ w \in Wizard /\ w.step \in {0, 1}
  /\ w.step = 1 => w.form.sender # Nil

\* The fields and the buttons of the pages, but for those that send a call.
Edits ==
  \/ \E s \in Senders \cup {Nil} : EditSender(s)
  \/ \E b \in BOOLEAN : EditDocument(b) \/ HandleFiles(b)
  \/ HandleNext \/ Back \/ RegisterAnother
  \/ ClearSearch

LEMMA EditsKeep == ASSUME PortalInv, Edits PROVE PortalInv'
<1>0. PageOK
  BY DEF PortalInv
<1>1. UNCHANGED <<submissions, calls, counts, history>>
  BY DEF Edits, EditSender, EditDocument, HandleFiles, HandleNext, Back, RegisterAnother,
         EditWizard, ClearSearch
<1>2. PageOK'
  <2>1. CASE ClearSearch
    BY <1>0, <2>1 DEF ClearSearch, PageOK, Search, Ids
  <2>2. CASE ~ClearSearch
    <3>1. place' = place /\ search' = search /\ submissions' = submissions
      BY <2>2 DEF Edits, EditSender, EditDocument, HandleFiles, HandleNext, Back,
                  RegisterAnother, EditWizard
    <3>2. /\ wizard \in Wizard /\ wizard.form \in Form
          /\ wizard.step = 1 => wizard.form.sender # Nil
      BY <1>0 DEF PageOK, Wizard
    <3>3. Editable(wizard')
      <4>1. ASSUME NEW s \in Senders \cup {Nil}, EditSender(s) PROVE Editable(wizard')
        BY <3>2, <4>1 DEF EditSender, EditWizard, Editable, Wizard, Form
      <4>2. ASSUME NEW b \in BOOLEAN, EditDocument(b) PROVE Editable(wizard')
        BY <3>2, <4>2 DEF EditDocument, EditWizard, Editable, Wizard, Form
      <4>3. ASSUME NEW b \in BOOLEAN, HandleFiles(b) PROVE Editable(wizard')
        BY <3>2, <4>3 DEF HandleFiles, EditWizard, Editable, Wizard, Form
      <4>4. ASSUME HandleNext \/ Back PROVE Editable(wizard')
        BY <3>2, <4>4 DEF HandleNext, Back, EditWizard, Editable, Wizard
      <4>5. ASSUME RegisterAnother PROVE Editable(wizard')
        <5>0. PICK st \in 0 .. 2 : st = 0
          OBVIOUS
        <5> DEFINE w2 == [wizard EXCEPT !.step = st, !.form = INITIAL]
        <5>1. INITIAL \in Form
          BY DEF INITIAL, Form
        <5>2. wizard' = w2
          BY <4>5, <5>0 DEF RegisterAnother, EditWizard
        <5>3. wizard \in Wizard
          BY <3>2
        <5>4. w2 \in Wizard
          BY <5>1, <5>3 DEF Wizard
        <5>5. w2.step = 0
          BY <5>0, <5>3 DEF Wizard
        <5> HIDE DEF w2
        <5>6. QED
          BY <5>2, <5>4, <5>5 DEF Editable
      <4>6. QED
        BY <2>2, <4>1, <4>2, <4>3, <4>4, <4>5 DEF Edits
    <3>4. QED
      BY <1>0, <3>1, <3>3 DEF PageOK, Editable
  <2>3. QED
    BY <2>1, <2>2
<1>3. QED
  BY <1>1, <1>2, PageKeeps

\* A call that is sent has an id of its own and, if it is a submit, a sender that
\* was accepted.
LEMMA SendKeeps ==
  ASSUME PortalInv, NEW new, new \in Calls, new.id = made + 1, new.stage = "sent",
         new.op = "submit" => new.form.sender # Nil /\ new.row = 0,
         made < MaxCalls, made' = made + 1, calls' = calls \cup {new},
         UNCHANGED <<submissions, lost, history>>, PageOK'
  PROVE  PortalInv'
<1>1. made \in Nat
  BY BoundsAssumption DEF PortalInv, CountsOK
<1>2. \A c \in calls : c.id \in Nat /\ c.id <= made
  BY DEF PortalInv, CallsOK, Calls, SubmitCall, TrackCall
<1>3. CallsOK'
  <2>1. \A c \in calls' : c \in Calls /\ c.id <= made'
    BY <1>1, <1>2 DEF PortalInv, CallsOK
  <2>2. \A c, d \in calls' : c.id = d.id => c = d
    BY <1>1, <1>2 DEF PortalInv, CallsOK
  <2>3. QED
    BY <2>1, <2>2 DEF CallsOK
<1>4. CountsOK'
  BY <1>1, BoundsAssumption DEF PortalInv, CountsOK
<1>5. RowsOK'
  BY DEF PortalInv, RowsOK, RowOK, history, Ids
<1>6. TableOK'
  <2>1. IsFiniteSet(Unsaved) /\ Cardinality(Unsaved) \in Nat
    BY UnsavedCounted DEF PortalInv
  <2>2. /\ IsFiniteSet(Unsaved \cup {new.id})
        /\ Cardinality(Unsaved \cup {new.id}) \in {Cardinality(Unsaved), Cardinality(Unsaved) + 1}
    BY <2>1, FS_AddElement
  <2>3. Unsaved' \subseteq Unsaved \cup {new.id}
    BY DEF Unsaved
  <2>4. Cardinality(Unsaved') \in Nat /\ Cardinality(Unsaved') <= Cardinality(Unsaved) + 1
    <3>1. /\ IsFiniteSet(Unsaved')
          /\ Cardinality(Unsaved') <= Cardinality(Unsaved \cup {new.id})
      BY <2>2, <2>3, FS_Subset
    <3>2. Cardinality(Unsaved') \in Nat
      BY <3>1, FS_CardinalityType
    <3>3. QED
      BY <2>1, <2>2, <3>1, <3>2
  <2>5. Len(submissions) \in Nat /\ Len(submissions) + Cardinality(Unsaved) <= made
    BY IdsTyped DEF PortalInv, TableOK
  <2>6. QED
    BY <1>1, <2>1, <2>4, <2>5 DEF PortalInv, TableOK
<1>7. (SenderWasValidated /\ ToldIsRegistered /\ NoSilentSubmission)'
  BY SameTable DEF history
<1>8. QED
  BY <1>3, <1>4, <1>5, <1>6, <1>7 DEF PortalInv

LEMMA SubmitKeeps == ASSUME PortalInv, HandleSubmit PROVE PortalInv'
<1> DEFINE new == [id |-> made + 1, op |-> "submit", form |-> wizard.form,
                   open |-> TRUE, stage |-> "sent", row |-> 0]
<1>1. made \in Nat /\ made < MaxCalls
  BY BoundsAssumption DEF PortalInv, CountsOK, HandleSubmit
<1>2. wizard.form \in Form /\ wizard.form.sender # Nil
  BY DEF PortalInv, PageOK, Wizard, HandleSubmit
<1>3. /\ new \in Calls /\ new.id = made + 1 /\ new.stage = "sent"
      /\ new.form.sender # Nil /\ new.row = 0
  BY <1>1, <1>2, BoundsAssumption DEF Calls, SubmitCall
<1>4. made' = made + 1 /\ calls' = calls \cup {new} /\ UNCHANGED <<submissions, lost, history>>
  BY DEF HandleSubmit
<1>5. PageOK'
  BY DEF PortalInv, PageOK, HandleSubmit, page, Ids
<1> HIDE DEF new
<1>6. QED
  BY <1>1, <1>3, <1>4, <1>5, SendKeeps

LEMMA SearchKeeps ==
  ASSUME PortalInv, NEW for \in SearchFor, HandleSearch(for) PROVE PortalInv'
<1> DEFINE new == [id |-> made + 1, op |-> "track", for |-> for, open |-> TRUE,
                   stage |-> "sent", found |-> {}]
<1>1. made \in Nat /\ made < MaxCalls
  BY BoundsAssumption DEF PortalInv, CountsOK, HandleSearch
<1>2. new \in Calls /\ new.id = made + 1 /\ new.stage = "sent" /\ new.op = "track"
  BY <1>1, BoundsAssumption DEF Calls, TrackCall
<1>3. made' = made + 1 /\ calls' = calls \cup {new} /\ UNCHANGED <<submissions, lost, history>>
  BY DEF HandleSearch
<1>4. PageOK'
  <2>1. Pending("track") \in BOOLEAN
    BY DEF Pending
  <2>2. search' \in Search
    BY <2>1 DEF PortalInv, PageOK, Search, HandleSearch
  <2>3. QED
    BY <2>2 DEF PortalInv, PageOK, HandleSearch, Ids
<1> HIDE DEF new
<1>5. QED
  BY <1>1, <1>2, <1>3, <1>4, SendKeeps
-----------------------------------------------------------------------------
(* The server and the network. *)

\* A call that moves on to d, while the table stays.
LEMMA MoveKeeps ==
  ASSUME PortalInv, NEW c \in calls, NEW d \in Calls, Replace(c, d),
         d.id = c.id, d.op = c.op, d.stage # "sent", d.op = "submit" => d.row = c.row,
         submissions' = submissions, told' = told, missed \subseteq missed',
         missed' \subseteq Ids, d.op = "submit" => RowOK(d)',
         UNCHANGED <<page, made>>, lost' \in 0 .. MaxLost
  PROVE  PortalInv'
<1>1. calls' = (calls \ {c}) \cup {d}
  BY DEF Replace
<1>2. CallsOK'
  <2>1. \A e \in calls' : e \in Calls /\ e.id <= made'
    BY <1>1 DEF PortalInv, CallsOK
  <2>2. \A e, f \in calls' : e.id = f.id => e = f
    BY <1>1 DEF PortalInv, CallsOK
  <2>3. QED
    BY <2>1, <2>2 DEF CallsOK
<1>3. CountsOK' /\ PageOK'
  BY DEF PortalInv, CountsOK, PageOK, page, Ids
<1>4. RowsOK'
  BY <1>1 DEF PortalInv, RowsOK, RowOK, Ids
<1>5. TableOK'
  <2>1. Unsaved' \subseteq Unsaved
    BY <1>1 DEF Unsaved
  <2>2. made' \in Nat /\ made <= made'
    BY BoundsAssumption DEF PortalInv, CountsOK
  <2>3. QED
    BY <2>1, <2>2, FewerUnsaved
<1>6. (SenderWasValidated /\ ToldIsRegistered /\ NoSilentSubmission)'
  BY <1>1, SameTable
<1>7. QED
  BY <1>2, <1>3, <1>4, <1>5, <1>6 DEF PortalInv

LEMMA LoseKeeps == ASSUME PortalInv, NEW c \in calls, Lose(c) PROVE PortalInv'
<1> DEFINE d == [c EXCEPT !.stage = "refused"]
<1>1. c \in Calls /\ (c.op = "submit" => RowOK(c))
  BY DEF PortalInv, CallsOK, RowsOK
<1>2. /\ d \in Calls /\ d.id = c.id /\ d.op = c.op /\ d.stage = "refused"
      /\ d.op = "submit" => d.row = c.row /\ d.form = c.form
  BY <1>1 DEF Calls, SubmitCall, TrackCall
<1>3. /\ Replace(c, d) /\ submissions' = submissions /\ told' = told
      /\ missed' = IF c.op = "submit" /\ c.row # 0 THEN missed \cup {c.row} ELSE missed
      /\ UNCHANGED <<page, made>>
  BY DEF Lose
<1>4. lost' \in 0 .. MaxLost
  BY BoundsAssumption DEF Lose, PortalInv, CountsOK
<1>5. missed \subseteq Ids
  BY DEF PortalInv, RowsOK
<1>6. missed' \subseteq Ids
  <2>1. c.op = "submit" /\ c.row # 0 => c.stage \in {"saved", "created"}
    <3>1. c.stage # "refused"
      BY DEF Lose
    <3>2. QED
      BY <1>1, <3>1 DEF Calls, SubmitCall, TrackCall, RowOK
  <2>2. QED
    BY <1>1, <1>3, <1>5, <2>1 DEF RowOK
<1>7. d.op = "submit" => RowOK(d)'
  BY <1>1, <1>2, <1>3 DEF RowOK
<1> HIDE DEF d
<1>8. QED
  BY <1>2, <1>3, <1>4, <1>6, <1>7, MoveKeeps

LEMMA TrackKeeps == ASSUME PortalInv, NEW c \in calls, Track(c) PROVE PortalInv'
<1> DEFINE to == IF Found(c.for) = {} THEN "refused" ELSE "answered"
           d == [c EXCEPT !.found = Found(c.for), !.stage = to]
<1>1. c \in TrackCall
  BY DEF PortalInv, CallsOK, Calls, SubmitCall, Track
<1>2. Found(c.for) \subseteq 1 .. MaxCalls
  <2>1. Len(submissions) <= made /\ made <= MaxCalls /\ submissions \in Seq(Submission)
    BY InvIsTyped, BoundsAssumption DEF TypeOK
  <2>2. Ids = 1 .. Len(submissions) /\ Len(submissions) \in Nat /\ made \in Nat
    BY <2>1, IdsTyped, BoundsAssumption DEF PortalInv, CountsOK
  <2>3. QED
    BY <2>1, <2>2, BoundsAssumption DEF Found
<1>3. to \in {"refused", "answered"}
  OBVIOUS
<1>4. d \in Calls /\ d.id = c.id /\ d.op = c.op /\ d.op = "track" /\ d.stage # "sent"
  BY <1>1, <1>2, <1>3 DEF Calls, TrackCall
<1>5. Replace(c, d) /\ UNCHANGED <<submissions, page, counts, history>>
  BY DEF Track
<1>6. lost' \in 0 .. MaxLost /\ missed' \subseteq Ids
  BY <1>5 DEF PortalInv, CountsOK, RowsOK, counts, history
<1> HIDE DEF d
<1>7. QED
  BY <1>4, <1>5, <1>6, MoveKeeps DEF counts, history

\* The table as the citizen's pages see it after a step that writes it: the rows
\* that were there keep their sender and stay registered.
LEMMA PageOfLongerTable ==
  ASSUME PortalInv, submissions \in Seq(Submission), submissions' \in Seq(Submission),
         Len(submissions) <= Len(submissions'), UNCHANGED page
  PROVE  PageOK' /\ Ids \subseteq Ids'
<1>1. Ids \subseteq Ids'
  <2>1. Ids = 1 .. Len(submissions) /\ Ids' = 1 .. Len(submissions')
    BY LenProperties DEF Ids
  <2>2. Len(submissions) \in Nat /\ Len(submissions') \in Nat
    BY LenProperties
  <2>3. QED
    BY <2>1, <2>2
<1>2. QED
  BY <1>1 DEF PortalInv, PageOK, page

LEMMA SaveKeeps == ASSUME PortalInv, NEW c \in calls, SaveSubmission(c) PROVE PortalInv'
<1>1. c \in SubmitCall /\ RowOK(c) /\ c.id <= made
  BY DEF PortalInv, CallsOK, Calls, SubmitCall, TrackCall, RowsOK, SaveSubmission
<1>2. CASE ~ c.form.complete
  <2> DEFINE d == [c EXCEPT !.stage = "refused"]
  <2>1. /\ d \in Calls /\ d.id = c.id /\ d.op = c.op /\ d.stage = "refused"
        /\ d.row = c.row /\ d.form = c.form
    BY <1>1 DEF Calls, SubmitCall
  <2>2. Replace(c, d) /\ UNCHANGED <<submissions, page, counts, history>>
    BY <1>2 DEF SaveSubmission
  <2>3. RowOK(d)'
    BY <1>1, <2>1, <2>2 DEF RowOK, SaveSubmission
  <2>4. lost' \in 0 .. MaxLost /\ missed' \subseteq Ids
    BY <2>2 DEF PortalInv, CountsOK, RowsOK, counts, history
  <2> HIDE DEF d
  <2>5. QED
    BY <2>1, <2>2, <2>3, <2>4, MoveKeeps DEF counts, history
<1>3. CASE c.form.complete
  <2> DEFINE n == Len(submissions)
             new == [sender |-> c.form.sender, file |-> FALSE, registered |-> FALSE]
  <2>1. /\ n \in Nat /\ Ids = 1 .. n /\ submissions \in [1 .. n -> Submission]
        /\ submissions \in Seq(Submission) /\ n + Cardinality(Unsaved) <= made
    BY IdsTyped DEF PortalInv, TableOK
  <2>2. new \in Submission /\ new.sender # Nil
    BY <1>1 DEF SubmitCall, Form, Submission, RowOK
  <2>0. PICK d : d = [c EXCEPT !.stage = "saved", !.row = n + 1]
    OBVIOUS
  <2>3. /\ submissions' = Append(submissions, new) /\ Replace(c, d)
        /\ UNCHANGED <<page, counts, history>> /\ c.stage = "sent" /\ c.op = "submit"
    BY <1>3, <2>0 DEF SaveSubmission
  <2>4. /\ d \in Calls /\ d.id = c.id /\ d.op = "submit" /\ d.stage = "saved"
        /\ d.row = n + 1 /\ d.form = c.form
    <3>1. "saved" \in {"sent", "saved", "created", "refused"} /\ n + 1 \in Nat
      BY <2>1
    <3>2. c = [id |-> c.id, op |-> c.op, form |-> c.form, open |-> c.open,
               stage |-> c.stage, row |-> c.row]
      BY <1>1 DEF SubmitCall
    <3>3. d = [id |-> c.id, op |-> c.op, form |-> c.form, open |-> c.open,
               stage |-> "saved", row |-> n + 1]
      BY <2>0, <3>2
    <3>4. c.op = "submit" /\ d \in SubmitCall
      BY <1>1, <3>1, <3>3 DEF SubmitCall
    <3>5. QED
      BY <3>3, <3>4 DEF Calls
  <2> HIDE DEF new
  <2>5. /\ submissions' \in Seq(Submission) /\ Len(submissions') = n + 1
        /\ \A i \in 1 .. n : submissions'[i] = submissions[i]
        /\ submissions'[n + 1] = new
    BY <2>1, <2>2, <2>3, AppendRow
  <2>6. Ids' = 1 .. n + 1
    BY <2>1, <2>5, LenProperties DEF Ids
  <2>7. PageOK' /\ Ids \subseteq Ids'
    BY <2>1, <2>3, <2>5, PageOfLongerTable
  <2>8. calls' = (calls \ {c}) \cup {d}
    BY <2>3 DEF Replace
  <2>9. CallsOK'
    <3>1. \A e \in calls' : e \in Calls /\ e.id <= made'
      BY <2>3, <2>4, <2>8 DEF PortalInv, CallsOK, counts
    <3>2. \A e, f \in calls' : e.id = f.id => e = f
      BY <2>4, <2>8 DEF PortalInv, CallsOK
    <3>3. QED
      BY <3>1, <3>2 DEF CallsOK
  <2>10. CountsOK'
    BY <2>3 DEF PortalInv, CountsOK, counts
  <2>11. RowsOK'
    <3>1. RowOK(d)'
      BY <1>1, <2>1, <2>4, <2>6 DEF RowOK
    <3>2. ASSUME NEW e \in calls, e.op = "submit" PROVE RowOK(e)'
      BY <2>1, <2>3, <2>5, <2>7, <3>2 DEF PortalInv, RowsOK, RowOK, history
    <3>3. told' \subseteq Ids' /\ missed' \subseteq Ids'
      BY <2>3, <2>7 DEF PortalInv, RowsOK, history
    <3>4. QED
      BY <2>8, <3>1, <3>2, <3>3 DEF RowsOK
  <2>12. TableOK'
    <3>1. c.id \in Unsaved
      BY <2>3 DEF Unsaved
    <3>2. Unsaved' \subseteq Unsaved \ {c.id}
      BY <2>4, <2>8 DEF Unsaved, PortalInv, CallsOK
    <3>3. IsFiniteSet(Unsaved) /\ Cardinality(Unsaved) \in Nat
      BY UnsavedCounted DEF PortalInv
    <3>4. /\ IsFiniteSet(Unsaved \ {c.id})
          /\ Cardinality(Unsaved \ {c.id}) = Cardinality(Unsaved) - 1
      BY <3>1, <3>3, FS_RemoveElement
    <3>5. IsFiniteSet(Unsaved') /\ Cardinality(Unsaved') <= Cardinality(Unsaved) - 1
      BY <3>2, <3>4, FS_Subset
    <3>6. Cardinality(Unsaved') \in Nat
      BY <3>5, FS_CardinalityType
    <3>7. made' = made /\ made \in Nat
      BY <2>3, BoundsAssumption DEF PortalInv, CountsOK, counts
    <3>8. QED
      BY <2>1, <2>5, <3>3, <3>5, <3>6, <3>7 DEF TableOK
  <2>13. SenderWasValidated'
    BY <2>1, <2>2, <2>5, <2>6 DEF PortalInv, SenderWasValidated
  <2>14. ToldIsRegistered'
    BY <2>1, <2>3, <2>5 DEF PortalInv, ToldIsRegistered, RowsOK, history
  <2>15. NoSilentSubmission'
    <3>1. ASSUME NEW s \in 1 .. n
          PROVE  \/ s \in told' \cup missed'
                 \/ \E e \in calls' : e.op = "submit" /\ e.row = s
      <4>1. CASE s \in told \cup missed
        BY <2>3, <4>1 DEF history
      <4>2. CASE s \notin told \cup missed
        <5>1. PICK e \in calls : e.op = "submit" /\ e.row = s
          BY <2>1, <4>2 DEF PortalInv, NoSilentSubmission
        <5>2. e # c
          BY <1>1, <2>1, <2>3, <5>1 DEF RowOK
        <5>3. QED
          BY <2>8, <5>1, <5>2
      <4>3. QED
        BY <4>1, <4>2
    <3>2. \E e \in calls' : e.op = "submit" /\ e.row = n + 1
      BY <2>4, <2>8
    <3>3. QED
      BY <2>1, <2>6, <3>1, <3>2 DEF NoSilentSubmission
  <2>16. QED
    BY <2>7, <2>9, <2>10, <2>11, <2>12, <2>13, <2>14, <2>15 DEF PortalInv
<1>4. QED
  BY <1>2, <1>3

LEMMA RegisterKeeps ==
  ASSUME PortalInv, NEW c \in calls, RegisterSubmission(c) PROVE PortalInv'
<1> DEFINE n == Len(submissions)
           d == [c EXCEPT !.stage = "created"]
<1>1. /\ c \in SubmitCall /\ RowOK(c) /\ c.id <= made /\ c.stage = "saved"
      /\ c.op = "submit"
  BY DEF PortalInv, CallsOK, Calls, SubmitCall, TrackCall, RowsOK, RegisterSubmission
<1>2. /\ n \in Nat /\ Ids = 1 .. n /\ submissions \in [1 .. n -> Submission]
      /\ submissions \in Seq(Submission) /\ n + Cardinality(Unsaved) <= made
      /\ \A s \in Ids : submissions[s] \in Submission
  BY IdsTyped DEF PortalInv, TableOK
<1>3. c.row \in 1 .. n /\ c.form.file \in BOOLEAN
  BY <1>1, <1>2 DEF RowOK, SubmitCall, Form
<1>4. /\ d \in Calls /\ d.id = c.id /\ d.op = "submit" /\ d.stage = "created"
      /\ d.row = c.row /\ d.form = c.form
  BY <1>1 DEF Calls, SubmitCall
<1>5. Replace(c, d) /\ UNCHANGED <<page, counts, history>>
  BY DEF RegisterSubmission
<1>6. /\ submissions' \in [1 .. n -> Submission]
      /\ \A s \in 1 .. n : /\ submissions'[s].sender = submissions[s].sender
                           /\ submissions[s].registered => submissions'[s].registered
      /\ submissions'[c.row].registered
  <2> DEFINE row == [submissions[c.row] EXCEPT !.file = c.form.file, !.registered = TRUE]
  <2>1. submissions' = [submissions EXCEPT ![c.row] = row]
    BY <1>2, <1>3 DEF RegisterSubmission
  <2>2. /\ row \in Submission /\ row.sender = submissions[c.row].sender
        /\ row.registered = TRUE
    BY <1>2, <1>3 DEF Submission
  <2> HIDE DEF row
  <2>3. QED
    BY <1>2, <1>3, <2>1, <2>2
<1>7. submissions' \in Seq(Submission) /\ Len(submissions') = n /\ Ids' = Ids
  BY <1>2, <1>6, SeqDef, LenProperties DEF Ids
<1> HIDE DEF d
<1>8. PageOK'
  BY <1>2, <1>5, <1>7, PageOfLongerTable
<1>9. calls' = (calls \ {c}) \cup {d}
  BY <1>5 DEF Replace
<1>10. CallsOK' /\ CountsOK'
  <2>1. \A e \in calls' : e \in Calls /\ e.id <= made'
    BY <1>4, <1>5, <1>9 DEF PortalInv, CallsOK, counts
  <2>2. \A e, f \in calls' : e.id = f.id => e = f
    BY <1>4, <1>9 DEF PortalInv, CallsOK
  <2>3. CountsOK'
    BY <1>5 DEF PortalInv, CountsOK, counts
  <2>4. QED
    BY <2>1, <2>2, <2>3 DEF CallsOK
<1>11. RowsOK'
  <2>1. RowOK(d)'
    BY <1>1, <1>3, <1>4, <1>6, <1>7 DEF RowOK
  <2>2. ASSUME NEW e \in calls, e.op = "submit" PROVE RowOK(e)'
    BY <1>2, <1>5, <1>6, <1>7, <2>2 DEF PortalInv, RowsOK, RowOK, history
  <2>3. told' \subseteq Ids' /\ missed' \subseteq Ids'
    BY <1>5, <1>7 DEF PortalInv, RowsOK, history
  <2>4. QED
    BY <1>9, <2>1, <2>2, <2>3 DEF RowsOK
<1>12. TableOK'
  <2>1. Unsaved' \subseteq Unsaved
    BY <1>4, <1>9 DEF Unsaved
  <2>2. IsFiniteSet(Unsaved) /\ Cardinality(Unsaved) \in Nat
    BY UnsavedCounted DEF PortalInv
  <2>3. IsFiniteSet(Unsaved') /\ Cardinality(Unsaved') <= Cardinality(Unsaved)
    BY <2>1, <2>2, FS_Subset
  <2>4. Cardinality(Unsaved') \in Nat
    BY <2>3, FS_CardinalityType
  <2>5. made' = made /\ made \in Nat
    BY <1>5, BoundsAssumption DEF PortalInv, CountsOK, counts
  <2>6. QED
    BY <1>2, <1>7, <2>2, <2>3, <2>4, <2>5 DEF TableOK
<1>13. SenderWasValidated' /\ ToldIsRegistered'
  <2>1. SenderWasValidated'
    BY <1>2, <1>6, <1>7 DEF PortalInv, SenderWasValidated
  <2>2. told' = told /\ told \subseteq 1 .. n
    BY <1>2, <1>5 DEF PortalInv, RowsOK, history
  <2>3. ToldIsRegistered'
    BY <1>6, <2>2 DEF PortalInv, ToldIsRegistered
  <2>4. QED
    BY <2>1, <2>3
<1>14. NoSilentSubmission'
  <2>1. \A s \in Ids : \/ s \in told \cup missed
                       \/ \E e \in calls' : e.op = "submit" /\ e.row = s
    BY <1>4, <1>9 DEF PortalInv, NoSilentSubmission
  <2>2. QED
    BY <1>5, <1>7, <2>1 DEF NoSilentSubmission, history
<1>15. QED
  BY <1>8, <1>10, <1>11, <1>12, <1>13, <1>14 DEF PortalInv
-----------------------------------------------------------------------------
(* The answers. *)

\* A call that ends: the number of its submission is shown, or missed.
LEMMA EndKeeps ==
  ASSUME PortalInv, NEW c \in calls, calls' = calls \ {c},
         UNCHANGED <<submissions, place, counts>>,
         wizard' \in Wizard, search' \in Search, wizard'.step = 1 => wizard'.form.sender # Nil,
         wizard'.step = 2 => wizard'.shown \in Ids,
         told \subseteq told', missed \subseteq missed', told' \subseteq Ids, missed' \subseteq Ids,
         \A s \in told' : submissions[s].registered,
         c.op = "submit" /\ c.row \in Ids => c.row \in told' \cup missed'
  PROVE  PortalInv'
<1>1. Ids' = Ids
  BY DEF Ids
<1>2. CallsOK' /\ CountsOK'
  BY DEF PortalInv, CallsOK, CountsOK, counts
<1>3. PageOK'
  BY <1>1 DEF PortalInv, PageOK
<1>4. RowsOK'
  BY <1>1 DEF PortalInv, RowsOK, RowOK
<1>5. TableOK'
  <2>1. Unsaved' \subseteq Unsaved
    BY DEF Unsaved
  <2>2. made' \in Nat /\ made <= made'
    BY BoundsAssumption DEF PortalInv, CountsOK, counts
  <2>3. QED
    BY <2>1, <2>2, FewerUnsaved
<1>6. SenderWasValidated' /\ ToldIsRegistered'
  BY <1>1 DEF PortalInv, SenderWasValidated, ToldIsRegistered
<1>7. NoSilentSubmission'
  <2>1. ASSUME NEW s \in Ids
        PROVE  \/ s \in told' \cup missed'
               \/ \E e \in calls' : e.op = "submit" /\ e.row = s
    BY DEF PortalInv, NoSilentSubmission
  <2>2. QED
    BY <1>1, <2>1 DEF NoSilentSubmission
<1>8. QED
  BY <1>2, <1>3, <1>4, <1>5, <1>6, <1>7 DEF PortalInv

LEMMA ShowTrackingKeeps ==
  ASSUME PortalInv, NEW c \in calls, ShowTracking(c) PROVE PortalInv'
<1>1. /\ c \in SubmitCall /\ c.row \in Ids /\ submissions[c.row].registered
      /\ c.op = "submit" /\ c.row \in Nat
  BY DEF PortalInv, CallsOK, Calls, SubmitCall, TrackCall, RowsOK, RowOK, ShowTracking
<1>2. /\ told \subseteq Ids /\ missed \subseteq Ids /\ wizard \in Wizard /\ search \in Search
      /\ wizard.step = 1 => wizard.form.sender # Nil
      /\ wizard.step = 2 => wizard.shown \in Ids
      /\ \A s \in told : submissions[s].registered
  BY DEF PortalInv, RowsOK, PageOK, ToldIsRegistered
<1>3. calls' = calls \ {c} /\ UNCHANGED <<submissions, place, search, counts>>
  BY DEF ShowTracking
<1>4. CASE c.open
  <2>0. PICK st \in 0 .. 2 : st = 2
    OBVIOUS
  <2> DEFINE w2 == [wizard EXCEPT !.shown = c.row, !.step = st]
  <2>1. wizard' = w2 /\ told' = told \cup {c.row} /\ missed' = missed
    BY <1>4, <2>0 DEF ShowTracking
  <2>2. wizard \in Wizard /\ c.row \in Nat
    BY <1>1, <1>2
  <2>3. w2 \in Wizard
    BY <2>2 DEF Wizard
  <2>4. w2.step = 2 /\ w2.shown = c.row
    BY <2>0, <2>2 DEF Wizard
  <2> HIDE DEF w2
  <2>5. QED
    BY <1>1, <1>2, <1>3, <2>1, <2>3, <2>4, EndKeeps
<1>5. CASE ~ c.open
  <2>1. wizard' = wizard /\ told' = told /\ missed' = missed \cup {c.row}
    BY <1>5 DEF ShowTracking
  <2>2. QED
    BY <1>1, <1>2, <1>3, <2>1, EndKeeps
<1>6. QED
  BY <1>4, <1>5

LEMMA ShowRefusalKeeps ==
  ASSUME PortalInv, NEW c \in calls, ShowRefusal(c) PROVE PortalInv'
<1>1. RowOK(c) /\ c.stage = "refused" /\ c \in SubmitCall
  BY DEF PortalInv, CallsOK, Calls, SubmitCall, TrackCall, RowsOK, ShowRefusal
<1>2. calls' = calls \ {c} /\ UNCHANGED <<submissions, place, wizard, search, counts, told, missed>>
  BY DEF ShowRefusal, page, history
<1>3. c.row \in Ids => c.row \in missed
  BY <1>1, IdsTyped DEF RowOK, PortalInv, TableOK
<1>4. QED
  BY <1>2, <1>3, EndKeeps DEF PortalInv, PageOK, RowsOK, ToldIsRegistered

LEMMA ShowResultsKeeps ==
  ASSUME PortalInv, NEW c \in calls, ShowResults(c) PROVE PortalInv'
<1>1. c \in TrackCall /\ c.op = "track"
  BY DEF PortalInv, CallsOK, Calls, SubmitCall, TrackCall, ShowResults
<1>2. calls' = calls \ {c} /\ UNCHANGED <<submissions, place, wizard, counts, told, missed>>
  BY DEF ShowResults, history
<1>3. search' \in Search
  <2> DEFINE r == [for |-> c.for, found |-> IF c.stage = "answered" THEN c.found ELSE {}]
  <2>1. search \in Search
    BY DEF PortalInv, PageOK
  <2>2. r \in Results
    BY <1>1 DEF TrackCall, Results
  <2>3. search' = IF c.open THEN [search EXCEPT !.results = r] ELSE search
    BY DEF ShowResults
  <2> HIDE DEF r
  <2>4. QED
    BY <2>1, <2>2, <2>3 DEF Search
<1>4. QED
  BY <1>1, <1>2, <1>3, EndKeeps DEF PortalInv, PageOK, RowsOK, ToldIsRegistered
-----------------------------------------------------------------------------
(* The theorems. *)

LEMMA InvStep == PortalInv /\ [Next]_vars => PortalInv'
<1> SUFFICES ASSUME PortalInv, [Next]_vars PROVE PortalInv'
  OBVIOUS
<1>1. CASE Use
  BY <1>1, NavigateKeeps, EditsKeep, SubmitKeeps, SearchKeeps DEF Use, Edits
<1>2. ASSUME NEW c \in calls, Serve(c) \/ Settle(c) \/ Lose(c) PROVE PortalInv'
  BY <1>2, SaveKeeps, RegisterKeeps, TrackKeeps, ShowTrackingKeeps, ShowRefusalKeeps,
     ShowResultsKeeps, LoseKeeps DEF Serve, Settle
<1>3. CASE UNCHANGED vars
  <2>1. UNCHANGED <<submissions, calls, counts, history>> /\ PageOK'
    BY <1>3 DEF vars, page, PortalInv, PageOK, Ids
  <2>2. QED
    BY <2>1, PageKeeps
<1>4. QED
  BY <1>1, <1>2, <1>3 DEF Next

LEMMA PortalInvariant == Spec => []PortalInv
BY InvInit, InvStep, PTL DEF Spec

\* The table, the pages and the calls keep their types, and name existing rows.
THEOREM PortalTypeCorrect == Spec => []TypeOK
BY PortalInvariant, InvIsTyped, PTL

\* No way through the wizard stores a sender that validateStep0 refuses.
THEOREM SendersAreValidated == Spec => []SenderWasValidated
<1>1. PortalInv => SenderWasValidated
  BY DEF PortalInv
<1>2. QED
  BY <1>1, PortalInvariant, PTL

\* A number that was shown leads to a submission with its file and history.
THEOREM ToldAreRegistered == Spec => []ToldIsRegistered
<1>1. PortalInv => ToldIsRegistered
  BY DEF PortalInv
<1>2. QED
  BY <1>1, PortalInvariant, PTL

\* The wizard never swallows the number of a submission that is stored.
THEOREM NothingIsSilent == Spec => []NoSilentSubmission
<1>1. PortalInv => NoSilentSubmission
  BY DEF PortalInv
<1>2. QED
  BY <1>1, PortalInvariant, PTL
-----------------------------------------------------------------------------
(* The results of a search. *)

\* The searches the open page waits for.
Waiting == {c \in calls : c.op = "track" /\ c.open}

\* The page waits for the search it sent last and for no other, unless that one was
\* sent while another was under way.
ResultsInv ==
  /\ ResultsAnswerTheSearch
  /\ ~search.overlap => \A c \in Waiting : c.for = search.last

LEMMA PendingIsWaiting == Pending("track") <=> Waiting # {}
BY DEF Pending, Waiting

\* A step that leaves the page what it shows and what it waits for.
LEMMA ResultsKept ==
  ASSUME ResultsInv,
         search' = search \/ (search'.results = Nil /\ search'.last = search.last
                              /\ search'.overlap = search.overlap),
         \A c \in Waiting' : \E d \in Waiting : c.for = d.for,
         Waiting # {} => Waiting' # {}
  PROVE  ResultsInv'
<1>1. Pending("track") => Pending("track")'
  BY PendingIsWaiting DEF Pending, Waiting
<1>2. ResultsAnswerTheSearch'
  BY <1>1 DEF ResultsInv, ResultsAnswerTheSearch
<1>3. ~search'.overlap => \A c \in Waiting' : c.for = search'.last
  BY DEF ResultsInv
<1>4. QED
  BY <1>2, <1>3 DEF ResultsInv

LEMMA UseResults == ASSUME PortalInv, ResultsInv, Use PROVE ResultsInv'
<1>1. \A c \in calls : c \in Calls
  BY DEF PortalInv, CallsOK
<1>2. search \in Search
  BY DEF PortalInv, PageOK
<1>3. ASSUME NEW to \in {"inicio", "registro", "consulta"}, Navigate(to) PROVE ResultsInv'
  <2>1. search'.results = Nil /\ Waiting' = {}
    <3>1. \A c \in calls : [c EXCEPT !.open = FALSE].open = FALSE
      BY <1>1 DEF Calls, SubmitCall, TrackCall
    <3>2. QED
      BY <1>3, <3>1 DEF Navigate, NewSearch, Waiting
  <2>2. QED
    BY <2>1 DEF ResultsInv, ResultsAnswerTheSearch
<1>4. CASE Edits
  <2>1. calls' = calls
    BY <1>4 DEF Edits, EditSender, EditDocument, HandleFiles, HandleNext, Back,
                RegisterAnother, EditWizard, ClearSearch
  <2>2. CASE ClearSearch
    <3>1. search' = [search EXCEPT !.results = Nil]
      BY <2>2 DEF ClearSearch
    <3>2. search'.results = Nil /\ search'.last = search.last /\ search'.overlap = search.overlap
      BY <1>2, <3>1 DEF Search
    <3>3. QED
      BY <2>1, <3>2, ResultsKept DEF Waiting
  <2>3. CASE ~ClearSearch
    <3>1. search' = search
      BY <1>4, <2>3 DEF Edits, EditSender, EditDocument, HandleFiles, HandleNext, Back,
                        RegisterAnother, EditWizard
    <3>2. QED
      BY <2>1, <3>1, ResultsKept DEF Waiting
  <2>4. QED
    BY <2>2, <2>3
<1>5. CASE HandleSubmit
  <2>1. search' = search /\ Waiting' = Waiting
    BY <1>5 DEF HandleSubmit, page, Waiting
  <2>2. QED
    BY <2>1, ResultsKept
<1>6. ASSUME NEW for \in SearchFor, HandleSearch(for) PROVE ResultsInv'
  <2>1. PICK new : /\ new = [id |-> made + 1, op |-> "track", for |-> for, open |-> TRUE,
                             stage |-> "sent", found |-> {}]
                   /\ calls' = calls \cup {new}
    BY <1>6 DEF HandleSearch
  <2>2. new.op = "track" /\ new.open /\ new.for = for
    BY <2>1
  <2>3. Waiting' = Waiting \cup {new}
    BY <2>1, <2>2 DEF Waiting
  <2>4. PICK b : b = Pending("track")
    OBVIOUS
  <2>5. search' = [search EXCEPT !.last = for, !.overlap = b]
    BY <1>6, <2>4 DEF HandleSearch
  <2>6. search'.last = for /\ search'.overlap = b
    BY <1>2, <2>5 DEF Search
  <2>7. search'.overlap \/ Waiting = {}
    BY <2>4, <2>6, PendingIsWaiting
  <2>8. ResultsAnswerTheSearch'
    <3>1. Pending("track")'
      BY <2>1, <2>2 DEF Pending
    <3>2. QED
      BY <3>1 DEF ResultsAnswerTheSearch
  <2>9. QED
    BY <2>2, <2>3, <2>6, <2>7, <2>8 DEF ResultsInv
<1>7. QED
  BY <1>3, <1>4, <1>5, <1>6 DEF Use, Edits

\* A call that moves on to d.
LEMMA MovedResults ==
  ASSUME ResultsInv, NEW c \in calls, NEW d, Replace(c, d), search' = search,
         d.op = c.op, d.open = c.open, c.op = "track" => d.for = c.for
  PROVE  ResultsInv'
<1>1. calls' = (calls \ {c}) \cup {d}
  BY DEF Replace
<1>2. \A e \in Waiting' : \E f \in Waiting : e.for = f.for
  BY <1>1 DEF Waiting
<1>3. Waiting # {} => Waiting' # {}
  BY <1>1 DEF Waiting
<1>4. QED
  BY <1>2, <1>3, ResultsKept

LEMMA ServeResults ==
  ASSUME PortalInv, ResultsInv, NEW c \in calls, Serve(c) \/ Lose(c) PROVE ResultsInv'
<1>1. c \in Calls
  BY DEF PortalInv, CallsOK
<1>2. search' = search
  BY DEF Serve, SaveSubmission, RegisterSubmission, Track, Lose, page
<1>3. ASSUME NEW s, Replace(c, [c EXCEPT !.stage = s]) PROVE ResultsInv'
  <2>1. PICK d : d = [c EXCEPT !.stage = s]
    OBVIOUS
  <2>2. d.op = c.op /\ d.open = c.open /\ (c.op = "track" => d.for = c.for)
    BY <1>1, <2>1 DEF Calls, SubmitCall, TrackCall
  <2>3. QED
    BY <1>2, <1>3, <2>1, <2>2, MovedResults
<1>4. CASE SaveSubmission(c)
  <2>1. CASE c.form.complete
    <3>1. PICK d : d = [c EXCEPT !.stage = "saved", !.row = Len(submissions) + 1]
      OBVIOUS
    <3>2. c \in SubmitCall /\ c.op = "submit" /\ Replace(c, d)
      BY <1>1, <1>4, <2>1, <3>1 DEF SaveSubmission, Calls, SubmitCall, TrackCall
    <3>3. d.op = c.op /\ d.open = c.open
      BY <3>1, <3>2 DEF SubmitCall
    <3>4. QED
      BY <1>2, <3>2, <3>3, MovedResults
  <2>2. CASE ~c.form.complete
    BY <1>3, <1>4, <2>2 DEF SaveSubmission
  <2>3. QED
    BY <2>1, <2>2
<1>5. CASE RegisterSubmission(c)
  BY <1>3, <1>5 DEF RegisterSubmission
<1>6. CASE Track(c)
  <2>1. PICK S, s : /\ S = Found(c.for)
                    /\ s = IF Found(c.for) = {} THEN "refused" ELSE "answered"
    OBVIOUS
  <2>2. PICK d : d = [c EXCEPT !.found = S, !.stage = s]
    OBVIOUS
  <2>3. c \in TrackCall /\ Replace(c, d)
    BY <1>1, <1>6, <2>1, <2>2 DEF Track, Calls, SubmitCall, TrackCall
  <2>4. d.op = c.op /\ d.open = c.open /\ d.for = c.for
    BY <2>2, <2>3 DEF TrackCall
  <2>5. QED
    BY <1>2, <2>3, <2>4, MovedResults
<1>7. CASE Lose(c)
  BY <1>3, <1>7 DEF Lose
<1>8. QED
  BY <1>4, <1>5, <1>6, <1>7 DEF Serve

LEMMA SettleResults ==
  ASSUME PortalInv, ResultsInv, NEW c \in calls, Settle(c) PROVE ResultsInv'
<1>1. search \in Search /\ c \in Calls
  BY DEF PortalInv, PageOK, CallsOK
<1>2. CASE ShowTracking(c) \/ ShowRefusal(c)
  <2>1. search' = search /\ Waiting' = Waiting
    BY <1>2 DEF ShowTracking, ShowRefusal, page, Waiting
  <2>2. QED
    BY <2>1, ResultsKept
<1>3. CASE ShowResults(c)
  <2>1. Waiting' = Waiting \ {c} /\ c.op = "track"
    BY <1>3 DEF ShowResults, Waiting
  <2>2. CASE ~c.open
    <3>1. search' = search /\ Waiting' = Waiting
      BY <1>3, <2>1, <2>2 DEF ShowResults, Waiting
    <3>2. QED
      BY <3>1, ResultsKept
  <2>3. CASE c.open
    <3>1. PICK r : /\ r = [for |-> c.for, found |-> IF c.stage = "answered" THEN c.found ELSE {}]
                   /\ search' = [search EXCEPT !.results = r]
      BY <1>3, <2>3 DEF ShowResults
    <3>2. r.for = c.for
      BY <3>1
    <3>3. search'.results = r /\ search'.last = search.last /\ search'.overlap = search.overlap
      BY <1>1, <3>1 DEF Search
    <3>4. c \in Waiting
      BY <2>1, <2>3 DEF Waiting
    <3>5. QED
      BY <2>1, <3>2, <3>3, <3>4 DEF ResultsInv, ResultsAnswerTheSearch
  <2>4. QED
    BY <2>2, <2>3
<1>4. QED
  BY <1>2, <1>3 DEF Settle

LEMMA ResultsStep == PortalInv /\ ResultsInv /\ [Next]_vars => ResultsInv'
<1>1. ASSUME ResultsInv, UNCHANGED vars PROVE ResultsInv'
  BY <1>1 DEF vars, page, ResultsInv, ResultsAnswerTheSearch, Pending, Waiting
<1>2. QED
  BY <1>1, UseResults, ServeResults, SettleResults DEF Next

\* The results on the screen answer the search that was sent last, once it is
\* answered, unless it was sent while another was under way: whatever was cleared,
\* lost or left meanwhile.
THEOREM ResultsFitTheSearch == Spec => []ResultsAnswerTheSearch
<1>1. Init => ResultsInv
  BY DEF Init, ResultsInv, ResultsAnswerTheSearch, NewSearch, Waiting
<1>2. ResultsInv => ResultsAnswerTheSearch
  BY DEF ResultsInv
<1>3. QED
  BY <1>1, <1>2, PortalInvariant, ResultsStep, PTL DEF Spec
=============================================================================
