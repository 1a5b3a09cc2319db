----------------------------- MODULE DerivedTray ------------------------------
(***************************************************************************)
(* The tray of an office (BandejaDerivadosPage): an officer looks at the   *)
(* submissions routed to the area, routes one on or finishes it.  The      *)
(* detail panel, whose buttons open the dialogs, shows a row as it was     *)
(* when it was clicked, however old that is.  A dialog can be closed, and  *)
(* another opened, while the call of the first is under way, whose answer  *)
(* then closes whatever is open.  Others move the same submissions.        *)
(***************************************************************************)
EXTENDS Naturals, FiniteSets, QueryCache

CONSTANTS
  Submissions,
  Offices, Mine, \* the areas, the officer's area
  MaxCalls,     \* bound: how many submissions the officer moves
  MaxOthers     \* bound: how often others move a submission, a list grows older
                \* than its staleTime, a call fails or its answer is lost

ASSUME AreaAssumption == Mine \in Offices /\ Nil \notin Offices
ASSUME TrayBounds     == MaxCalls \in Nat /\ MaxOthers \in Nat

VARIABLES
  table,    \* status and area of each submission
  filter,   \* statusFilter; the filters share the key bandeja-derivados
  tray,     \* the query of each filter
  listed,   \* the submissions that were on the list: the panel may show them
  reDeriv,  \* the dialog that routes on: its submission, Nil when closed, and area
  confirm,  \* the dialog that finishes: its submission
  calls,    \* the calls under way, at most one of each mutation
  made, others,
  picked,   \* history: the submission for which the area in reDeriv was chosen
  handled,  \* history: what the page was told it moved out of the tray
  slipped   \* history: the filters with a fetch that survived an invalidation

dialogs == <<listed, reDeriv, confirm>>
counts  == <<made, others>>
history == <<picked, handled, slipped>>
trayVars == <<table, filter, tray, dialogs, calls, counts, history>>
-----------------------------------------------------------------------------
\* The statuses an office can meet; a submission that is taken back to review
\* keeps its area and shows no buttons, as a finished one does.
TrayStatuses == {"derivado", "finalizado"}

Row == [status : TrayStatuses, area : Offices]

Filters == {"", "derivado"}

\* Of the rows a filter lists, those with buttons: the submissions of the area
\* that are derivado, under either filter.
Offered == {s \in Submissions : table[s] = [status |-> "derivado", area |-> Mine]}

Ops == {"derivar", "finalizar"}

Call == [op : Ops, of : Submissions, area : Offices \cup {Nil},
         picked : Submissions \cup {Nil}, stage : {"sent", "ok", "failed"}]

TrayInit ==
  /\ table = [s \in Submissions |-> [status |-> "derivado", area |-> Mine]]
  /\ filter = ""
  /\ tray = [f \in Filters |-> IF f = "" THEN Ask(NoQuery) ELSE NoQuery]
  /\ listed = {}
  /\ reDeriv = [of |-> Nil, area |-> Nil]
  /\ confirm = Nil
  /\ calls = {}
  /\ made = 0 /\ others = 0
  /\ picked = Nil /\ handled = {} /\ slipped = {}
-----------------------------------------------------------------------------
Happen == others < MaxOthers /\ others' = others + 1

\* The officer.

SetFilter(f) ==
  /\ f # filter
  /\ filter' = f
  /\ tray' = [tray EXCEPT ![f] = Mounted(@, FALSE)]
  /\ UNCHANGED <<table, dialogs, calls, counts, history>>

\* The dialogs cover the panel.
NoDialog == reDeriv.of = Nil /\ confirm = Nil

\* Mutant of OpenReDeriv: what was chosen in the dialog before is still there.
OpenKeepingArea(s) ==
  /\ NoDialog
  /\ s \in listed
  /\ reDeriv' = [reDeriv EXCEPT !.of = s]
  /\ UNCHANGED <<table, filter, tray, listed, confirm, calls, counts, history>>

\* A button of the panel, for a row that was derivado when it was clicked.
OpenReDeriv(s) ==
  /\ NoDialog
  /\ s \in listed
  /\ reDeriv' = [of |-> s, area |-> Nil]
  /\ UNCHANGED <<table, filter, tray, listed, confirm, calls, counts, history>>

\* The select leaves out the officer's own area.
PickArea(a) ==
  /\ reDeriv.of # Nil
  /\ a # Mine
  /\ reDeriv' = [reDeriv EXCEPT !.area = a]
  /\ picked' = reDeriv.of
  /\ UNCHANGED <<table, filter, tray, listed, confirm, calls, counts, handled, slipped>>

OpenConfirm(s) ==
  /\ NoDialog
  /\ s \in listed
  /\ confirm' = s
  /\ UNCHANGED <<table, filter, tray, listed, reDeriv, calls, counts, history>>

\* Cancelar, or a click beside the dialog, also while its call is under way; the
\* chosen area stays.
CloseDialog ==
  /\ ~NoDialog
  /\ reDeriv' = [reDeriv EXCEPT !.of = Nil]
  /\ confirm' = Nil
  /\ UNCHANGED <<table, filter, tray, listed, calls, counts, history>>

Pending(op) == \E c \in calls : c.op = op

Send(op, s, a) ==
  /\ ~Pending(op)
  /\ made < MaxCalls
  /\ made' = made + 1
  /\ calls' = calls \cup {[op |-> op, of |-> s, area |-> a,
                           picked |-> IF op = "derivar" THEN picked ELSE Nil,
                           stage |-> "sent"]}
  /\ UNCHANGED <<table, filter, tray, dialogs, others, history>>

ConfirmReDeriv ==
  /\ reDeriv.of # Nil /\ reDeriv.area # Nil
  /\ Send("derivar", reDeriv.of, reDeriv.area)

ConfirmFinalizar == confirm # Nil /\ Send("finalizar", confirm, Nil)
-----------------------------------------------------------------------------
\* The server.

Replace(c, stage) == calls' = (calls \ {c}) \cup {[c EXCEPT !.stage = stage]}

\* update_status checks neither the status nor the area the submission is in.
UpdateStatus(c) ==
  /\ c.stage = "sent"
  /\ table' = [table EXCEPT ![c.of] =
       IF c.op = "derivar" THEN [status |-> "derivado", area |-> c.area]
                           ELSE [@ EXCEPT !.status = "finalizado"]]
  /\ Replace(c, "ok")
  /\ UNCHANGED <<filter, tray, dialogs, counts, history>>

\* Another office, or the administration, moves a submission.
MoveElsewhere(s, row) ==
  /\ Happen
  /\ row # table[s]
  /\ table' = [table EXCEPT ![s] = row]
  /\ handled' = handled \ {s}
  /\ UNCHANGED <<filter, tray, dialogs, calls, made, picked, slipped>>

AnswerTray(f) ==
  /\ tray[f].fetch = "asked"
  /\ tray' = [tray EXCEPT ![f] = Answered(@, Offered)]
  /\ UNCHANGED <<table, filter, dialogs, calls, counts, history>>

\* The call fails, or its answer is lost.
Lose(c) ==
  /\ c.stage # "failed"
  /\ Happen
  /\ Replace(c, "failed")
  /\ UNCHANGED <<table, filter, tray, dialogs, made, history>>
-----------------------------------------------------------------------------
\* The answers.

\* Mutant of InvalidateTray: only the list on the screen.
InvalidateShown == [tray EXCEPT ![filter] = Invalidated(@, TRUE)]

\* invalidateQueries with the prefix of every filter.
InvalidateTray == [f \in Filters |-> Invalidated(tray[f], f = filter)]

\* onSuccess of either mutation: its dialog is closed, whatever it is open for.
Succeed(c) ==
  /\ c.stage = "ok"
  /\ calls' = calls \ {c}
  /\ tray' = InvalidateTray
  /\ reDeriv' = IF c.op = "derivar" THEN [of |-> Nil, area |-> Nil] ELSE reDeriv
  /\ confirm' = IF c.op = "finalizar" THEN Nil ELSE confirm
  /\ handled' = IF c.of \in Offered THEN handled ELSE handled \cup {c.of}
  /\ slipped' = slipped \cup {f \in Filters : Survives(tray[f], f = filter)}
  /\ UNCHANGED <<table, filter, listed, counts, picked>>

\* A message; dialog and panel stay.
Fail(c) ==
  /\ c.stage = "failed"
  /\ calls' = calls \ {c}
  /\ UNCHANGED <<table, filter, tray, dialogs, counts, history>>

TrayArrives(f) ==
  /\ tray[f].fetch = "answered"
  /\ tray' = [tray EXCEPT ![f] = Arrived(@)]
  /\ listed' = listed \cup tray[f].answer
  /\ UNCHANGED <<table, filter, reDeriv, confirm, calls, counts, history>>

\* The list on the screen is older than its staleTime, and the window gets the
\* focus.
Focus ==
  /\ Happen
  /\ tray' = [tray EXCEPT ![filter] = Mounted(@, TRUE)]
  /\ UNCHANGED <<table, filter, dialogs, calls, made, history>>

Officer ==
  \/ \E f \in Filters : SetFilter(f)
  \/ \E s \in Submissions : OpenReDeriv(s) \/ OpenConfirm(s)
  \/ CloseDialog
  \/ \E a \in Offices : PickArea(a)
  \/ ConfirmReDeriv \/ ConfirmFinalizar
  \/ Focus

TrayNext ==
  \/ Officer
  \/ \E c \in calls : UpdateStatus(c) \/ Lose(c) \/ Succeed(c) \/ Fail(c)
  \/ \E s \in Submissions, row \in Row : MoveElsewhere(s, row)
  \/ \E f \in Filters : AnswerTray(f) \/ TrayArrives(f)

TraySpec == TrayInit /\ [][TrayNext]_trayVars
-----------------------------------------------------------------------------
\* The table, the queries, the dialogs and the calls are typed.
TrayTypeOK ==
  /\ table \in [Submissions -> Row]
  /\ filter \in Filters
  /\ tray \in [Filters -> Query(SUBSET Submissions)]
  /\ listed \subseteq Submissions
  /\ reDeriv \in [of : Submissions \cup {Nil}, area : Offices \cup {Nil}]
  /\ confirm \in Submissions \cup {Nil}
  /\ calls \subseteq Call
  /\ \A c, d \in calls : c.op = d.op => c = d
  /\ made \in 0 .. MaxCalls /\ others \in 0 .. MaxOthers
  /\ picked \in Submissions \cup {Nil}
  /\ handled \subseteq Submissions /\ slipped \subseteq Filters

\* A submission is only routed to an area that was chosen for it: closing a
\* dialog leaves the area behind, and the answer of another call may clear it
\* meanwhile, but no dialog takes over what was chosen for another submission.
AreaWasChosenForIt ==
  \A c \in calls : c.op = "derivar" => c.area \notin {Nil, Mine} /\ c.picked = c.of

\* A settled list no longer offers what the page was told it has moved out,
\* whatever filter was on when the answer came, unless a fetch of that filter
\* was under way that the invalidation did not start anew: it undoes it.
HandledIsNotOffered ==
  \A s \in handled, f \in Filters \ slipped :
    Settled(tray[f]) => s \notin tray[f].data
=============================================================================
