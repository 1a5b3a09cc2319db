----------------------------- MODULE PublicPortal -----------------------------
(***************************************************************************)
(* The public pages of the Mesa Virtual in the browser of a citizen: the   *)
(* wizard that registers a submission (NuevoTramitePage) and the search    *)
(* for submissions (ConsultaTramitesPage), over the endpoints they call    *)
(* (VirtualSubmissionsController).                                         *)
(*                                                                         *)
(* The wizard stays usable while a submission is sent, and what it sends   *)
(* was fixed when the button was pressed.  Leaving a page forgets its      *)
(* state; a submission that was sent is registered all the same.  A search *)
(* can be started with Enter while another is under way.                   *)
(***************************************************************************)
EXTENDS Naturals, Sequences, FiniteSets

CONSTANTS
  Senders,    \* the sender data validateStep0 accepts
  Nil,        \* among others, sender data that it refuses
  MaxCalls,   \* bound: how many submissions and searches are sent
  MaxLost     \* bound: how many calls fail, or lose their answer

ASSUME SendersAssumption == Nil \notin Senders
ASSUME BoundsAssumption  == MaxCalls \in Nat /\ MaxLost \in Nat

VARIABLES
  submissions, \* table virtual_submissions; the id is the position
  place,       \* the page that is open
  wizard,      \* state of NuevoTramitePage
  search,      \* state of ConsultaTramitesPage
  calls,       \* the requests under way
  made, lost,
  told,        \* history: the submissions whose number was shown
  missed       \* history: those whose answer had nobody to show it to

page == <<place, wizard, search>>
counts == <<made, lost>>
history == <<told, missed>>
vars == <<submissions, page, calls, counts, history>>
-----------------------------------------------------------------------------
Ids == DOMAIN submissions

\* registered: the file is attached and the history begun.
Submission == [sender : Senders \cup {Nil}, file : BOOLEAN, registered : BOOLEAN]

\* What the citizen entered: the sender, whether type and subject are given,
\* whether a PDF of at most 5 MB is attached.
Form == [sender : Senders \cup {Nil}, complete : BOOLEAN, file : BOOLEAN]

INITIAL == [sender |-> Nil, complete |-> FALSE, file |-> FALSE]

NewWizard == [step |-> 0, form |-> INITIAL, shown |-> Nil]

Wizard == [step : 0 .. 2, form : Form, shown : Nat \cup {Nil}]

\* By tracking number, or by the sender's document number.
SearchFor == [by : {"tracking"}, value : 1 .. MaxCalls]
               \cup [by : {"document"}, value : Senders]

\* results: what is shown, with the search it answers; last: the search that
\* was sent last; overlap: it was sent while another was under way.
NewSearch == [results |-> Nil, last |-> Nil, overlap |-> FALSE]

Results == [for : SearchFor, found : SUBSET (1 .. MaxCalls)]

Search == [results : Results \cup {Nil}, last : SearchFor \cup {Nil}, overlap : BOOLEAN]

\* open: the page that sent the call has been open ever since.
SubmitCall ==
  [id : 1 .. MaxCalls, op : {"submit"}, form : Form, open : BOOLEAN,
   stage : {"sent", "saved", "created", "refused"}, row : Nat]

TrackCall ==
  [id : 1 .. MaxCalls, op : {"track"}, for : SearchFor, open : BOOLEAN,
   stage : {"sent", "answered", "refused"}, found : SUBSET (1 .. MaxCalls)]

Init ==
  /\ submissions = <<>>
  /\ place = "inicio"
  /\ wizard = NewWizard
  /\ search = NewSearch
  /\ calls = {}
  /\ made = 0 /\ lost = 0
  /\ told = {} /\ missed = {}
-----------------------------------------------------------------------------
\* NuevoTramitePage.

\* The citizen goes to a page; the state of the one that is left is gone.
Navigate(to) ==
  /\ to # place
  /\ place' = to
  /\ wizard' = NewWizard
  /\ search' = NewSearch
  /\ calls' = {[c EXCEPT !.open = FALSE] : c \in calls}
  /\ UNCHANGED <<submissions, counts, history>>

EditWizard(w) ==
  /\ wizard' = w
  /\ UNCHANGED <<submissions, place, search, calls, counts, history>>

EditSender(s) ==
  /\ place = "registro" /\ wizard.step = 0
  /\ EditWizard([wizard EXCEPT !.form.sender = s])

EditDocument(complete) ==
  /\ place = "registro" /\ wizard.step = 1
  /\ EditWizard([wizard EXCEPT !.form.complete = complete])

\* handleFiles takes the first file if it is a PDF of at most 5 MB, and the
\* cross removes it.
HandleFiles(file) ==
  /\ place = "registro" /\ wizard.step = 1
  /\ EditWizard([wizard EXCEPT !.form.file = file])

\* Mutant of HandleNext: the errors of the step are shown and it goes on.
NextUnchecked ==
  /\ place = "registro" /\ wizard.step = 0
  /\ EditWizard([wizard EXCEPT !.step = 1])

\* handleNext is the button of step 0 only: validateStep1 is never called.
HandleNext ==
  /\ place = "registro" /\ wizard.step = 0
  /\ wizard.form.sender # Nil
  /\ EditWizard([wizard EXCEPT !.step = 1])

\* Anterior, also while a submission is under way.
Back ==
  /\ place = "registro" /\ wizard.step = 1
  /\ EditWizard([wizard EXCEPT !.step = 0])

\* "Registrar otro trámite".
RegisterAnother ==
  /\ place = "registro" /\ wizard.step = 2
  /\ EditWizard([wizard EXCEPT !.step = 0, !.form = INITIAL])

Pending(op) == \E c \in calls : c.op = op /\ c.open

HandleSubmit ==
  /\ place = "registro" /\ wizard.step = 1
  /\ ~Pending("submit")
  /\ made < MaxCalls
  /\ made' = made + 1
  /\ calls' = calls \cup {[id |-> made + 1, op |-> "submit", form |-> wizard.form,
                           open |-> TRUE, stage |-> "sent", row |-> 0]}
  /\ UNCHANGED <<submissions, page, lost, history>>
-----------------------------------------------------------------------------
\* VirtualSubmissionsController.

Replace(c, d) == calls' = (calls \ {c}) \cup {d}

\* Mutant of SaveSubmission: the answer is given as soon as the row is there.
SaveAndAnswer(c) ==
  /\ c.op = "submit" /\ c.stage = "sent"
  /\ submissions' = Append(submissions,
       [sender |-> c.form.sender, file |-> FALSE, registered |-> FALSE])
  /\ Replace(c, [c EXCEPT !.stage = "created", !.row = Len(submissions) + 1])
  /\ UNCHANGED <<page, counts, history>>

\* The row is valid with a type and a subject; a file is not required.
SaveSubmission(c) ==
  /\ c.op = "submit" /\ c.stage = "sent"
  /\ IF c.form.complete
     THEN /\ submissions' = Append(submissions,
               [sender |-> c.form.sender, file |-> FALSE, registered |-> FALSE])
          /\ Replace(c, [c EXCEPT !.stage = "saved", !.row = Len(submissions) + 1])
     ELSE /\ Replace(c, [c EXCEPT !.stage = "refused"])
          /\ UNCHANGED submissions
  /\ UNCHANGED <<page, counts, history>>

\* The files that pass handleFiles pass AttachmentService; the first flow is
\* written and the answer is 201.
RegisterSubmission(c) ==
  /\ c.op = "submit" /\ c.stage = "saved"
  /\ submissions' = [submissions EXCEPT ![c.row].file = c.form.file,
                                        ![c.row].registered = TRUE]
  /\ Replace(c, [c EXCEPT !.stage = "created"])
  /\ UNCHANGED <<page, counts, history>>

Found(for) ==
  {s \in Ids : IF for.by = "tracking" THEN s = for.value
                                      ELSE submissions[s].sender = for.value}

\* Nothing found answers 404.
Track(c) ==
  /\ c.op = "track" /\ c.stage = "sent"
  /\ Replace(c, [c EXCEPT !.found = Found(c.for),
                          !.stage = IF Found(c.for) = {} THEN "refused" ELSE "answered"])
  /\ UNCHANGED <<submissions, page, counts, history>>

\* The request is cut short, or its answer is lost.
Lose(c) ==
  /\ c.stage # "refused"
  /\ lost < MaxLost
  /\ lost' = lost + 1
  /\ Replace(c, [c EXCEPT !.stage = "refused"])
  /\ missed' = IF c.op = "submit" /\ c.row # 0 THEN missed \cup {c.row} ELSE missed
  /\ UNCHANGED <<submissions, page, made, told>>
-----------------------------------------------------------------------------
\* The answers.

\* Mutant of ShowTracking: a page that went back to step 0 stays there.
ShowTrackingOnStep1(c) ==
  /\ c.op = "submit" /\ c.stage = "created"
  /\ calls' = calls \ {c}
  /\ IF c.open
     THEN /\ wizard' = IF wizard.step = 1
                       THEN [wizard EXCEPT !.shown = c.row, !.step = 2] ELSE wizard
          /\ told' = IF wizard.step = 1 THEN told \cup {c.row} ELSE told
          /\ UNCHANGED missed
     ELSE missed' = missed \cup {c.row} /\ UNCHANGED <<wizard, told>>
  /\ UNCHANGED <<submissions, place, search, counts>>

\* onSuccess of submit: step 2 shows the number, whatever step was open.
ShowTracking(c) ==
  /\ c.op = "submit" /\ c.stage = "created"
  /\ calls' = calls \ {c}
  /\ IF c.open
     THEN /\ wizard' = [wizard EXCEPT !.shown = c.row, !.step = 2]
          /\ told' = told \cup {c.row}
          /\ UNCHANGED missed
     ELSE missed' = missed \cup {c.row} /\ UNCHANGED <<wizard, told>>
  /\ UNCHANGED <<submissions, place, search, counts>>

\* onError of submit: a message; the form stays and can be sent again.
ShowRefusal(c) ==
  /\ c.op = "submit" /\ c.stage = "refused"
  /\ calls' = calls \ {c}
  /\ UNCHANGED <<submissions, page, counts, history>>

\* Mutant of ShowResults: an error leaves the results of the search before.
ShowFound(c) ==
  /\ c.op = "track" /\ c.stage \in {"answered", "refused"}
  /\ calls' = calls \ {c}
  /\ search' = IF c.open /\ c.stage = "answered"
               THEN [search EXCEPT !.results = [for |-> c.for, found |-> c.found]]
               ELSE search
  /\ UNCHANGED <<submissions, place, wizard, counts, history>>

\* onSuccess and onError of track: the results, or none.
ShowResults(c) ==
  /\ c.op = "track" /\ c.stage \in {"answered", "refused"}
  /\ calls' = calls \ {c}
  /\ search' = IF c.open
               THEN [search EXCEPT !.results = [for |-> c.for, found |->
                       IF c.stage = "answered" THEN c.found ELSE {}]]
               ELSE search
  /\ UNCHANGED <<submissions, place, wizard, counts, history>>
-----------------------------------------------------------------------------
\* ConsultaTramitesPage: Enter does not look at isPending, the button does.
HandleSearch(for) ==
  /\ place = "consulta"
  /\ made < MaxCalls
  /\ made' = made + 1
  /\ calls' = calls \cup {[id |-> made + 1, op |-> "track", for |-> for, open |-> TRUE,
                           stage |-> "sent", found |-> {}]}
  /\ search' = [search EXCEPT !.last = for, !.overlap = Pending("track")]
  /\ UNCHANGED <<submissions, place, wizard, lost, history>>

\* Limpiar, or the other mode: the results go, a search under way does not.
ClearSearch ==
  /\ place = "consulta"
  /\ search' = [search EXCEPT !.results = Nil]
  /\ UNCHANGED <<submissions, place, wizard, calls, counts, history>>

Use ==
  \/ \E to \in {"inicio", "registro", "consulta"} : Navigate(to)
  \/ \E s \in Senders \cup {Nil} : EditSender(s)
  \/ \E b \in BOOLEAN : EditDocument(b) \/ HandleFiles(b)
  \/ HandleNext \/ Back \/ RegisterAnother \/ HandleSubmit
  \/ \E for \in SearchFor : HandleSearch(for)
  \/ ClearSearch

Serve(c) == SaveSubmission(c) \/ RegisterSubmission(c) \/ Track(c)

Settle(c) == ShowTracking(c) \/ ShowRefusal(c) \/ ShowResults(c)

Next ==
  \/ Use
  \/ \E c \in calls : Serve(c) \/ Settle(c) \/ Lose(c)

Spec == Init /\ [][Next]_vars
-----------------------------------------------------------------------------
\* The table, the pages and the calls are typed, and name existing rows.
TypeOK ==
  /\ submissions \in Seq(Submission) /\ Len(submissions) <= made
  /\ place \in {"inicio", "registro", "consulta"}
  /\ wizard \in Wizard
  /\ wizard.step = 2 => wizard.shown \in Ids
  /\ search \in Search
  /\ calls \subseteq SubmitCall \cup TrackCall
  /\ \A c, d \in calls : c.id = d.id => c = d
  /\ \A c \in calls : c.id <= made
  /\ made \in 0 .. MaxCalls /\ lost \in 0 .. MaxLost
  /\ told \subseteq Ids /\ missed \subseteq Ids

\* Whatever the citizen edits on the way back and forth, and while a submission
\* is under way, the sender of what is stored was accepted by validateStep0.
SenderWasValidated == \A s \in Ids : submissions[s].sender # Nil

\* A number that was shown ("registrado con éxito") leads to a submission whose
\* file and history are written.
ToldIsRegistered == \A s \in told : submissions[s].registered

\* A submission whose number nobody saw is still being served, or its page was
\* left, or its call failed: no order of editing, walking back and answers
\* makes the wizard swallow a number, so that it is sent a second time.
NoSilentSubmission ==
  \A s \in Ids :
    \/ s \in told \cup missed
    \/ \E c \in calls : c.op = "submit" /\ c.row = s

\* "Resultado de la búsqueda": the results answer the last search, unless that
\* one was sent while another was under way.
ResultsAnswerTheSearch ==
  search.results # Nil /\ ~search.overlap /\ ~Pending("track")
    => search.results.for = search.last
=============================================================================
