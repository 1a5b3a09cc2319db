----------------------------- MODULE MesaVirtual -----------------------------
(***************************************************************************)
(* The Mesa Virtual: citizens submit (VirtualSubmissionsController),       *)
(* officers move the submissions on from the detail page                   *)
(* (AdminMesaVirtualDetailPage, AdminVirtualSubmissionsController).        *)
(*                                                                         *)
(* A submission is visible, and can be moved, from the commit of its row;  *)
(* its files are judged after that, and a submission whose files are       *)
(* rejected is destroyed again.  The server checks no transition: what     *)
(* keeps an officer to the state machine are the buttons of a page, which  *)
(* shows the status of the moment it was loaded.  An action is one         *)
(* statement or commit of the thread that serves a citizen or an officer.  *)
(***************************************************************************)
EXTENDS Naturals, Sequences, FiniteSets

CONSTANTS
  Citizens, Officers,  \* the people served, a request of each at a time
  Areas,
  Numbers,      \* the tracking numbers SecureRandom can draw
  Nil,
  DefaultArea,  \* the area with is_default, or Nil when there is none
  MaxRequests,  \* bound: how many requests arrive
  MaxAborts     \* bound: how many of them are cut short

ASSUME PeopleAssumption == Citizens \cap Officers = {}
ASSUME AreasAssumption  == Nil \notin Areas /\ DefaultArea \in Areas \cup {Nil}
ASSUME BoundsAssumption == MaxRequests \in Nat /\ MaxAborts \in Nat

VARIABLES
  submissions,  \* table virtual_submissions; the id of a row is its position,
                \* a destroyed row is not present
  flows,        \* flows[s]: the virtual_submission_flows of s, oldest first
  pages,        \* pages[o]: the submission officer o has open, as it was loaded
  requests,     \* requests[p]: the request of person p that is being served
  arrived, aborted

tables == <<submissions, flows>>
vars == <<tables, pages, requests, arrived, aborted>>
-----------------------------------------------------------------------------
People == Citizens \cup Officers

Statuses == {"registrado", "en_revision", "observado", "derivado", "finalizado"}

\* The buttons of the page for a submission in a status.
STATUS_NEXT ==
  [registrado  |-> {"en_revision"},
   en_revision |-> {"observado", "derivado", "finalizado"},
   observado   |-> {"en_revision"},
   derivado    |-> {"derivado", "finalizado"},
   finalizado  |-> {}]

OptionalArea == Areas \cup {Nil}

\* What comes attached to a request, as AttachmentService#validate judges it.
Uploads == {"none", "accepted", "rejected"}

Submission == [number : Numbers, status : Statuses, area : OptionalArea,
               present : BOOLEAN, files : BOOLEAN]

Flow == [from : Statuses \cup {Nil}, to : Statuses,
         from_area : OptionalArea, to_area : OptionalArea]

Ids     == DOMAIN submissions
Present == {s \in Ids : submissions[s].present}

Idle == [stage |-> "idle"]

CitizenRequest ==
  [stage : {"drawn"}, number : Numbers, upload : Uploads]
    \cup [stage : {"attaching", "registering", "rejecting"}, row : Nat]
    \cup [stage : {"destroying"}, row : Nat, seen : Nat]

OfficerRequest ==
  [stage : {"loaded", "recording"}, row : Nat, flow : Flow, attach : BOOLEAN]
    \cup [stage : {"attaching"}, row : Nat]

Init ==
  /\ submissions = <<>>
  /\ flows = <<>>
  /\ pages = [o \in Officers |-> Nil]
  /\ requests = [p \in People |-> Idle]
  /\ arrived = 0
  /\ aborted = 0

Accept(p) ==
  /\ requests[p] = Idle
  /\ arrived < MaxRequests
  /\ arrived' = arrived + 1
  /\ UNCHANGED aborted

Become(p, request) == requests' = [requests EXCEPT ![p] = request]

Proceed(p, request) == Become(p, request) /\ UNCHANGED <<arrived, aborted>>
-----------------------------------------------------------------------------
\* Mutant of Taken: neither exists? nor the unique index look.
NeverTaken(n) == FALSE

\* A present submission has tracking number n.
Taken(n) == \E s \in Present : submissions[s].number = n

\* POST submit, up to generate_tracking_number: draws until no row has the
\* number.
GenerateTrackingNumber(c, n, upload) ==
  /\ Accept(c)
  /\ ~Taken(n)
  /\ Become(c, [stage |-> "drawn", number |-> n, upload |-> upload])
  /\ UNCHANGED <<tables, pages>>

\* Mutant of InsertSubmission: the enum has no default.
InsertWithoutStatus(c) ==
  /\ requests[c].stage = "drawn"
  /\ ~Taken(requests[c].number)
  /\ submissions' = Append(submissions,
       [number |-> requests[c].number, status |-> Nil, area |-> DefaultArea,
        present |-> TRUE, files |-> FALSE])
  /\ flows' = Append(flows, <<>>)
  /\ Proceed(c, [stage |-> "registering", row |-> Len(submissions) + 1])
  /\ UNCHANGED pages

\* The INSERT commits, in the default area.
InsertSubmission(c) ==
  LET r == requests[c]
      row == Len(submissions) + 1
      next == CASE r.upload = "none"     -> "registering"
                [] r.upload = "accepted" -> "attaching"
                [] r.upload = "rejected" -> "rejecting"
  IN  /\ r.stage = "drawn"
      /\ ~Taken(r.number)
      /\ submissions' = Append(submissions,
           [number |-> r.number, status |-> "registrado", area |-> DefaultArea,
            present |-> TRUE, files |-> FALSE])
      /\ flows' = Append(flows, <<>>)
      /\ Proceed(c, [stage |-> next, row |-> row])
      /\ UNCHANGED pages

\* The number was taken since it was drawn: the uniqueness validation answers
\* 422, or the unique index makes save raise RecordNotUnique.
RefuseNumber(c) ==
  /\ requests[c].stage = "drawn"
  /\ Taken(requests[c].number)
  /\ Proceed(c, Idle)
  /\ UNCHANGED <<tables, pages>>

\* AttachmentService stores the files of a submission; active_storage_attachments
\* has no foreign key to the row, which may be gone.
AttachFiles(p) ==
  LET r == requests[p] IN
  /\ r.stage = "attaching"
  /\ submissions' = [submissions EXCEPT ![r.row].files = TRUE]
  /\ Proceed(p, IF p \in Citizens THEN [stage |-> "registering", row |-> r.row]
                                  ELSE Idle)
  /\ UNCHANGED <<flows, pages>>

\* Mutant of LoadFlows: the answer is 422 and the submission stays.
KeepRejected(c) ==
  /\ requests[c].stage = "rejecting"
  /\ Proceed(c, Idle)
  /\ UNCHANGED <<tables, pages>>

\* The files were rejected: destroy loads the flows to destroy with the row.
LoadFlows(c) ==
  LET r == requests[c] IN
  /\ r.stage = "rejecting"
  /\ Proceed(c, [stage |-> "destroying", row |-> r.row, seen |-> Len(flows[r.row])])
  /\ UNCHANGED <<tables, pages>>

\* Mutant of DestroySubmission: no foreign key holds the row back.
DestroyRow(c) ==
  LET r == requests[c] IN
  /\ r.stage = "destroying"
  /\ submissions' = [submissions EXCEPT ![r.row].present = FALSE]
  /\ flows' = [flows EXCEPT ![r.row] = SubSeq(@, r.seen + 1, Len(@))]
  /\ Proceed(c, Idle)
  /\ UNCHANGED pages

\* The loaded flows, the attachments and the row are deleted in one transaction;
\* a flow that came in between holds the row back (InvalidForeignKey) and
\* everything is rolled back.
DestroySubmission(c) ==
  LET r == requests[c] IN
  /\ r.stage = "destroying"
  /\ IF Len(flows[r.row]) = r.seen
     THEN /\ submissions' = [submissions EXCEPT ![r.row].present = FALSE,
                                                ![r.row].files = FALSE]
          /\ flows' = [flows EXCEPT ![r.row] = <<>>]
     ELSE UNCHANGED tables
  /\ Proceed(c, Idle)
  /\ UNCHANGED pages

\* flows.create! of the registration: the last write of submit.
RegisterSubmission(c) ==
  LET r == requests[c] IN
  /\ r.stage = "registering"
  /\ flows' = [flows EXCEPT ![r.row] =
       Append(@, [from |-> Nil, to |-> "registrado", from_area |-> Nil, to_area |-> Nil])]
  /\ Proceed(c, Idle)
  /\ UNCHANGED <<submissions, pages>>
-----------------------------------------------------------------------------
\* The officer's page loads a submission, or loads it again.
OpenPage(o, s) ==
  /\ requests[o] = Idle
  /\ s \in Present
  /\ pages' = [pages EXCEPT ![o] = [row |-> s, status |-> submissions[s].status]]
  /\ UNCHANGED <<tables, requests, arrived, aborted>>

\* Mutant of Confirm: derivado is accepted without an area.
ConfirmWithoutArea(o, to, to_area, upload) ==
  LET s == pages[o].row IN
  /\ pages[o] # Nil
  /\ s \in Present
  /\ to \in STATUS_NEXT[pages[o].status]
  /\ to_area # Nil => to = "derivado"
  /\ Accept(o)
  /\ Become(o, [stage |-> "loaded", row |-> s, attach |-> upload = "accepted",
                flow |-> [from |-> submissions[s].status, to |-> to,
                          from_area |-> submissions[s].area, to_area |-> to_area]])
  /\ UNCHANGED <<tables, pages>>

\* The officer confirms one of the buttons of the page, and PATCH update_status
\* loads the row.  An area goes with derivado only, and the page asks for it.
Confirm(o, to, to_area, upload) ==
  LET s == pages[o].row IN
  /\ pages[o] # Nil
  /\ s \in Present
  /\ to \in STATUS_NEXT[pages[o].status]
  /\ to = "derivado" <=> to_area # Nil
  /\ Accept(o)
  /\ Become(o, [stage |-> "loaded", row |-> s, attach |-> upload = "accepted",
                flow |-> [from |-> submissions[s].status, to |-> to,
                          from_area |-> submissions[s].area, to_area |-> to_area]])
  /\ UNCHANGED <<tables, pages>>

\* Pundit refuses the request, or the row no longer validates.
Refuse(o) ==
  /\ requests[o].stage = "loaded"
  /\ Proceed(o, Idle)
  /\ UNCHANGED <<tables, pages>>

\* @submission.update: the columns that differ from the loaded row are written;
\* updating a row that is gone changes nothing and succeeds.
UpdateStatus(o) ==
  LET r == requests[o]
      f == r.flow
  IN  /\ r.stage = "loaded"
      /\ submissions' =
           IF r.row \notin Present THEN submissions
           ELSE [submissions EXCEPT
                   ![r.row].status = IF f.to # f.from THEN f.to ELSE @,
                   ![r.row].area = IF f.to_area \notin {Nil, f.from_area}
                                   THEN f.to_area ELSE @]
      /\ Proceed(o, [r EXCEPT !.stage = "recording"])
      /\ UNCHANGED <<flows, pages>>

\* Mutant of CreateFlow: an entry only when the status changes.
CreateStatusFlow(o) ==
  LET r == requests[o] IN
  /\ r.stage = "recording"
  /\ r.row \in Present
  /\ flows' = IF r.flow.from = r.flow.to THEN flows
              ELSE [flows EXCEPT ![r.row] = Append(@, r.flow)]
  /\ Proceed(o, Idle)
  /\ pages' = [pages EXCEPT ![o] = Nil]
  /\ UNCHANGED submissions

\* flows.create! writes the entry, whose foreign key needs the row.  The result
\* of AttachmentService is ignored: rejected files end the request as none do.
\* The page is closed, or loaded again.
CreateFlow(o) ==
  LET r == requests[o] IN
  /\ r.stage = "recording"
  /\ r.row \in Present
  /\ flows' = [flows EXCEPT ![r.row] = Append(@, r.flow)]
  /\ Proceed(o, IF r.attach THEN [stage |-> "attaching", row |-> r.row] ELSE Idle)
  /\ pages' = [pages EXCEPT ![o] = Nil]
  /\ UNCHANGED submissions

\* The row is gone: create! raises InvalidForeignKey.
RaiseForeignKey(o) ==
  /\ requests[o].stage = "recording"
  /\ requests[o].row \notin Present
  /\ Proceed(o, Idle)
  /\ UNCHANGED <<tables, pages>>
-----------------------------------------------------------------------------
\* A request is cut short between two commits; destroy is rolled back.
Abort(p) ==
  /\ requests[p] # Idle
  /\ aborted < MaxAborts
  /\ aborted' = aborted + 1
  /\ Become(p, Idle)
  /\ UNCHANGED <<tables, pages, arrived>>

AllIdle == \A p \in People : requests[p] = Idle

Rest ==
  /\ AllIdle
  /\ arrived = MaxRequests \/ (\A n \in Numbers : Taken(n))
  /\ UNCHANGED vars

Arrive ==
  \/ \E c \in Citizens, n \in Numbers, u \in Uploads : GenerateTrackingNumber(c, n, u)
  \/ \E o \in Officers : \E s \in Ids : OpenPage(o, s)
  \/ \E o \in Officers, to \in Statuses, a \in OptionalArea, u \in Uploads :
       Confirm(o, to, a, u)

Submit(c) ==
  \/ InsertSubmission(c) \/ RefuseNumber(c) \/ AttachFiles(c)
  \/ LoadFlows(c) \/ DestroySubmission(c) \/ RegisterSubmission(c)

UpdateStep(o) ==
  \/ Refuse(o) \/ UpdateStatus(o) \/ CreateFlow(o) \/ RaiseForeignKey(o)
  \/ AttachFiles(o)

Next ==
  \/ Arrive
  \/ \E c \in Citizens : Submit(c)
  \/ \E o \in Officers : UpdateStep(o)
  \/ \E p \in People : Abort(p)
  \/ Rest

Spec == Init /\ [][Next]_vars
-----------------------------------------------------------------------------
\* Tables, pages and requests are typed and name existing rows.
TypeOK ==
  /\ submissions \in Seq(Submission)
  /\ flows \in [Ids -> Seq(Flow)]
  /\ pages \in [Officers -> [row : Ids, status : Statuses] \cup {Nil}]
  /\ requests \in [People -> CitizenRequest \cup OfficerRequest \cup {Idle}]
  /\ \A c \in Citizens : requests[c] \in CitizenRequest \cup {Idle}
  /\ \A o \in Officers : requests[o] \in OfficerRequest \cup {Idle}
  /\ \A p \in People : requests[p].stage \notin {"idle", "drawn"} => requests[p].row \in Ids
  /\ arrived \in Nat /\ aborted \in Nat

\* A tracking number leads to one submission: generate_tracking_number draws
\* outside the INSERT, the unique index decides.
TrackingIdentifies ==
  \A s, t \in Present : submissions[s].number = submissions[t].number => s = t

\* The entries of s, written or still to be written by an officer's thread.
Entries(s) ==
  {flows[s][i] : i \in DOMAIN flows[s]}
    \cup {requests[o].flow : o \in {o \in Officers :
            requests[o].stage = "recording" /\ requests[o].row = s}}

\* Status and area of s are those of its registration or of entries it has.
Explained(s) ==
  /\ \/ submissions[s].status = "registrado"
     \/ \E f \in Entries(s) : f.to = submissions[s].status
  /\ \/ submissions[s].area = DefaultArea
     \/ \E f \in Entries(s) : f.to = "derivado" /\ f.to_area = submissions[s].area

\* Whatever two officers and a rejected submission interleave, where a
\* submission is can be read from its history, but for one submission per
\* request that was cut short.
StateIsExplained == Cardinality({s \in Present : ~Explained(s)}) <= aborted

\* A submission routed to an area is in one: no interleaving of loaded rows
\* leaves a submission derivado that no inbox (bandeja) shows.
RoutedIsSomewhere ==
  \A s \in Present : submissions[s].status = "derivado" => submissions[s].area # Nil

\* A destroyed submission leaves no history behind, even when an officer moved
\* it while its files were judged.
GoneHasNoHistory == \A s \in Ids \ Present : flows[s] = <<>>

\* The registration of s, or its removal, is still being worked on.
Pending(s) ==
  \E c \in Citizens :
    requests[c].stage \notin {"idle", "drawn"} /\ requests[c].row = s

\* A submission without history is one whose submit is at work: the row whose
\* files were rejected is gone, or an officer's entry holds it.  There is one
\* more for each request that was cut short.
SubmissionsAreTracked ==
  Cardinality({s \in Present : flows[s] = <<>> /\ ~Pending(s)}) <= aborted
=============================================================================
