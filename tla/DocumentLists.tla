---------------------------- MODULE DocumentLists ----------------------------
(***************************************************************************)
(* The two lists of internal documents, "Mis Trámites" (MisTramitesPage)   *)
(* and "Trámites Documentarios" (TramitesPage), over documents#mine, index *)
(* and update_status: the search that is applied when typing pauses, the   *)
(* filter, the pages, and the menu that changes a status.                  *)
(*                                                                         *)
(* A search stands for the set of the documents that contain it, Docs for  *)
(* the empty one.  The filter by priority works as the one by status does  *)
(* and is left out; all documents are the user's.  update_status is one    *)
(* step here: how its statements interleave is in DocumentRequests.        *)
(***************************************************************************)
EXTENDS Naturals, FiniteSets, QueryCache

CONSTANTS
  NumDocs,    \* how many documents there are; the newest is 1
  Searches,   \* what may be searched for, the empty search included
  Filters,    \* the statuses of the filter that are tried
  Start,      \* the statuses the documents begin with
  PerPage,    \* documents in a page
  MaxEdits,   \* bound: how often the user types, filters, turns a page or leaves
  MaxCalls,   \* bound: how often the user changes a status
  MaxOthers   \* bound: changes by others, lost answers, failed fetches, old data

Rules == INSTANCE TransitionRules

Docs == 1 .. NumDocs

ASSUME SizesAssumption    == NumDocs \in Nat \ {0} /\ PerPage \in Nat \ {0}
ASSUME SearchesAssumption == Docs \in Searches /\ Searches \subseteq SUBSET Docs
ASSUME StatusesAssumption == (Filters \cup Start) \subseteq Rules!Statuses
ASSUME BoundsAssumption   == MaxEdits \in Nat /\ MaxCalls \in Nat /\ MaxOthers \in Nat
ASSUME NilAssumption      == Nil \notin Rules!Statuses /\ Nil \notin Searches

VARIABLES
  status,     \* documents.status
  list,       \* the page that is mounted: "mine" or "all"
  box,        \* search: what the box shows
  timer,      \* what the timer of the search will apply
  key,        \* the query of the list
  last,       \* the query whose data stands in while that of key has none yet
  cache,
  calls,
  edits, made, others,
  cleared,    \* history: the search was cleared while its timer was running
  astray,     \* history: the page was chosen from the list of another query
  changed,    \* history: a status changed
  unseen,     \* history: a status changed and no answer told this client
  blind       \* history: queries whose first fetch was under way at an invalidation

user    == <<list, box, timer, key, last>>
counts  == <<edits, made, others>>
history == <<cleared, astray, changed, unseen, blind>>
vars == <<status, user, cache, calls, counts, history>>
-----------------------------------------------------------------------------
Keys == [list : {"mine", "all"}, page : 1 .. NumDocs, search : Searches,
         status : Filters \cup {Nil}]

Data == [rows : SUBSET [id : Docs, status : Rules!Statuses], pages : 1 .. NumDocs]

Call == [n : 1 .. MaxCalls, of : Docs, to : Rules!Statuses,
         stage : {"sent", "ok", "failed"}]

\* A list when its page is mounted.
Fresh(l) == [list |-> l, page |-> 1, search |-> Docs, status |-> Nil]

Matching(k) == {d \in k.search : k.status \in {Nil, status[d]}}

\* order(created_at: :desc)
Newer(S, d) == Cardinality({e \in S : e < d})

LastPage(k) ==
  LET n == Cardinality(Matching(k)) IN IF n = 0 THEN 1 ELSE ((n - 1) \div PerPage) + 1

\* pagy
PageOf(k) ==
  LET S == Matching(k)
  IN  [rows  |-> {[id |-> d, status |-> status[d]] :
                    d \in {e \in S : Newer(S, e) \div PerPage = k.page - 1}},
       pages |-> LastPage(k)]

Init ==
  /\ status \in [Docs -> Start]
  /\ list = "mine" /\ box = Docs /\ timer = Nil
  /\ key = Fresh("mine") /\ last = Nil
  /\ cache = [k \in Keys |-> IF k = key THEN Mounted(NoQuery, FALSE) ELSE NoQuery]
  /\ calls = {}
  /\ edits = 0 /\ made = 0 /\ others = 0
  /\ cleared = FALSE /\ astray = FALSE /\ changed = FALSE /\ unseen = FALSE /\ blind = {}
-----------------------------------------------------------------------------
Edit == edits < MaxEdits /\ edits' = edits + 1

Happen == others < MaxOthers /\ others' = others + 1

\* The data the page has: that of key, or, while its first fetch is under way, what
\* placeholderData keeps.
data ==
  IF cache[key].data # Nil THEN cache[key].data
  ELSE IF last # Nil /\ cache[key].fetch # "idle" THEN cache[last].data
  ELSE Nil

\* The page asks another query.
AskList(k) ==
  /\ key' = k
  /\ last' = IF cache[key].data # Nil THEN key ELSE last
  /\ cache' = IF k = key THEN cache ELSE [cache EXCEPT ![k] = Mounted(@, FALSE)]

handleSearchChange(s) ==
  /\ Edit
  /\ box' = s /\ timer' = s
  /\ cleared' = FALSE
  /\ UNCHANGED <<status, list, key, last, cache, calls, made, others,
                 astray, changed, unseen, blind>>

\* 350 ms later.
ApplySearch ==
  /\ timer # Nil
  /\ AskList([key EXCEPT !.search = timer, !.page = 1])
  /\ timer' = Nil /\ astray' = FALSE
  /\ UNCHANGED <<status, list, box, calls, counts, cleared, changed, unseen, blind>>

\* Mutant of handleStatusChange: the page stays.
StatusKeepsPage(f) ==
  /\ Edit
  /\ AskList([key EXCEPT !.status = f])
  /\ astray' = FALSE
  /\ UNCHANGED <<status, list, box, timer, calls, made, others, cleared, changed,
                 unseen, blind>>

handleStatusChange(f) ==
  /\ Edit
  /\ AskList([key EXCEPT !.status = f, !.page = 1])
  /\ astray' = FALSE
  /\ UNCHANGED <<status, list, box, timer, calls, made, others, cleared, changed,
                 unseen, blind>>

\* onPageChange; the pages are those of what is shown.
SetPage(p) ==
  /\ Edit
  /\ data # Nil /\ p \in 1 .. data.pages /\ p # key.page
  /\ AskList([key EXCEPT !.page = p])
  /\ astray' = (cache[key].data = Nil)
  /\ UNCHANGED <<status, list, box, timer, calls, made, others, cleared, changed,
                 unseen, blind>>

hasFilters == key.search # Docs \/ key.status # Nil

\* "Limpiar", in the list of all documents; the timer runs on.
clearFilters ==
  /\ Edit
  /\ list = "all" /\ hasFilters
  /\ AskList(Fresh("all"))
  /\ box' = Docs
  /\ astray' = FALSE /\ cleared' = (timer # Nil)
  /\ UNCHANGED <<status, list, timer, calls, made, others, changed, unseen, blind>>

\* Mutant of removeSearchPill: the box keeps its text.
PillKeepsBox ==
  /\ Edit
  /\ list = "all" /\ key.search # Docs
  /\ AskList([key EXCEPT !.search = Docs, !.page = 1])
  /\ astray' = FALSE /\ cleared' = (timer # Nil)
  /\ UNCHANGED <<status, list, box, timer, calls, made, others, changed, unseen, blind>>

\* The cross of the search; that of the status is handleStatusChange(Nil).
removeSearchPill ==
  /\ Edit
  /\ list = "all" /\ key.search # Docs
  /\ AskList([key EXCEPT !.search = Docs, !.page = 1])
  /\ box' = Docs
  /\ astray' = FALSE /\ cleared' = (timer # Nil)
  /\ UNCHANGED <<status, list, timer, calls, made, others, changed, unseen, blind>>

\* The other list; what the timer of the one that was left sets is lost.
GoTo(l) ==
  /\ Edit
  /\ l # list
  /\ list' = l /\ box' = Docs /\ timer' = Nil
  /\ key' = Fresh(l) /\ last' = Nil
  /\ cache' = [cache EXCEPT ![Fresh(l)] = Mounted(@, FALSE)]
  /\ astray' = FALSE /\ cleared' = FALSE
  /\ UNCHANGED <<status, calls, made, others, changed, unseen, blind>>

\* The window gets the focus.
Focus(aged) ==
  /\ Happen
  /\ cache' = [cache EXCEPT ![key] = Mounted(@, aged)]
  /\ UNCHANGED <<status, user, calls, edits, made, history>>

STATUS_TRANSITIONS ==
  [ registrado |-> {"en_proceso", "anulado"},
    en_proceso |-> {"derivado", "respondido", "anulado"},
    derivado   |-> {"respondido", "anulado"},
    respondido |-> {"archivado"},
    devuelto   |-> {"en_proceso"},
    archivado  |-> {},
    anulado    |-> {},
    finalizado |-> {} ]

\* The menu of a row; nothing keeps it from being used again before the answer.
ActionMenu(r, s) ==
  /\ made < MaxCalls
  /\ list = "mine" /\ s \in STATUS_TRANSITIONS[r.status]
  /\ made' = made + 1
  /\ calls' = calls \cup {[n |-> made + 1, of |-> r.id, to |-> s, stage |-> "sent"]}
  /\ UNCHANGED <<status, user, cache, edits, others, history>>
-----------------------------------------------------------------------------
\* The server.

Move(c, stage) == calls' = (calls \ {c}) \cup {[c EXCEPT !.stage = stage]}

\* The menu sends no to_area_id.
Accepts(from, to) == Rules!ValidTransition(from, to) /\ ~Rules!RequiresArea(to)

update_status(c) ==
  /\ c.stage = "sent"
  /\ IF Accepts(status[c.of], c.to)
     THEN status' = [status EXCEPT ![c.of] = c.to] /\ changed' = TRUE /\ Move(c, "ok")
     ELSE Move(c, "failed") /\ UNCHANGED <<status, changed>>
  /\ UNCHANGED <<user, cache, counts, cleared, astray, unseen, blind>>

\* A page past the last raises Pagy::OverflowError.
AnswerList(k) ==
  /\ cache[k].fetch = "asked"
  /\ cache' = [cache EXCEPT ![k] = IF k.page <= LastPage(k)
                 THEN Answered(@, PageOf(k)) ELSE Failed(@)]
  /\ UNCHANGED <<status, user, calls, counts, history>>

\* Another user changes a status.
ChangeElsewhere(d, s) ==
  /\ Happen
  /\ Rules!ValidTransition(status[d], s)
  /\ status' = [status EXCEPT ![d] = s]
  /\ changed' = TRUE /\ unseen' = TRUE
  /\ UNCHANGED <<user, cache, calls, edits, made, cleared, astray, blind>>

\* The call fails, or its answer is lost after the write.
Lose(c) ==
  /\ Happen
  /\ c.stage # "failed"
  /\ Move(c, "failed")
  /\ unseen' = (unseen \/ c.stage = "ok")
  /\ UNCHANGED <<status, user, cache, edits, made, cleared, astray, changed, blind>>

ListFails(k) ==
  /\ Happen
  /\ cache[k].fetch # "idle"
  /\ cache' = [cache EXCEPT ![k] = Failed(@)]
  /\ UNCHANGED <<status, user, calls, edits, made, history>>
-----------------------------------------------------------------------------
\* The answers.

ListArrives(k) ==
  /\ cache[k].fetch = "answered"
  /\ cache' = [cache EXCEPT ![k] = Arrived(@)]
  /\ UNCHANGED <<status, user, calls, counts, history>>

\* Mutant of invalidatedLists: only the list the menu is in.
onlyMine == {"mine"}

invalidatedLists == {"mine", "all"}

StatusSucceeds(c) ==
  /\ c.stage = "ok"
  /\ calls' = calls \ {c}
  /\ cache' = [k \in Keys |-> IF k.list \in invalidatedLists
                 THEN Invalidated(cache[k], k = key) ELSE cache[k]]
  /\ blind' = blind \cup {k \in Keys : Survives(cache[k], k = key)}
  /\ UNCHANGED <<status, user, counts, cleared, astray, changed, unseen>>

\* A message; the lists stay as they are.
StatusFails(c) ==
  /\ c.stage = "failed"
  /\ calls' = calls \ {c}
  /\ UNCHANGED <<status, user, cache, counts, history>>

User ==
  \/ \E s \in Searches : handleSearchChange(s)
  \/ ApplySearch \/ clearFilters \/ removeSearchPill
  \/ \E f \in Filters \cup {Nil} : handleStatusChange(f)
  \/ \E p \in 1 .. NumDocs : SetPage(p)
  \/ \E l \in {"mine", "all"} : GoTo(l)
  \/ \E aged \in BOOLEAN : Focus(aged)
  \/ data # Nil /\ \E r \in data.rows, s \in Rules!Statuses : ActionMenu(r, s)

Next ==
  \/ User
  \/ \E c \in calls : update_status(c) \/ Lose(c) \/ StatusSucceeds(c) \/ StatusFails(c)
  \/ \E k \in Keys : AnswerList(k) \/ ListFails(k) \/ ListArrives(k)
  \/ \E d \in Docs, s \in Rules!Statuses : ChangeElsewhere(d, s)

Spec == Init /\ [][Next]_vars
-----------------------------------------------------------------------------
\* The documents, the list, the queries and the calls are typed.
TypeOK ==
  /\ status \in [Docs -> Rules!Statuses]
  /\ list \in {"mine", "all"} /\ box \in Searches /\ timer \in Searches \cup {Nil}
  /\ key \in Keys /\ key.list = list
  /\ last \in Keys \cup {Nil}
  /\ cache \in [Keys -> Query(Data)]
  /\ calls \subseteq Call
  /\ \A c, d \in calls : c.n = d.n => c = d
  /\ edits \in 0 .. MaxEdits /\ made \in 0 .. MaxCalls /\ others \in 0 .. MaxOthers

\* Once typing has paused the list is searched for what the box shows, unless the
\* search was cleared in the pause: then the list is searched for a text that the
\* box no longer has.
TypedIsApplied == timer = Nil /\ ~cleared => key.search = box

\* The page that is asked for exists, so that the server does not fail, unless it
\* was chosen among the pages of the list before, still shown while the answer is
\* under way, or a status changed and the list got shorter.
PagesExist == key.page > LastPage(key) => astray \/ changed

\* When nothing is under way, both lists show the documents with the status they
\* have after every change this client was told of, unless the first fetch of the
\* list was under way then.  A fetch that fails, as that of a page that is no more,
\* leaves the old rows.
ListIsTrue ==
  /\ Settled(cache[key]) /\ ~unseen /\ key \notin blind
  /\ \A c \in calls : c.stage # "ok"
  => cache[key].data = PageOf(key)
=============================================================================
