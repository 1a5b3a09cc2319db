----------------------------- MODULE Memberships ------------------------------
(***************************************************************************)
(* The positions of the users in the areas, and the two places that change *)
(* them: the tab of an area's members (MembresíasTab of AccesosPage) and   *)
(* the form of a user (UserFormPage), which is opened from the list of     *)
(* users (UsersPage).  Each keeps its own queries in the cache of the      *)
(* client; a call outlives the page that made it.                          *)
(***************************************************************************)
EXTENDS Naturals, FiniteSets, QueryCache

CONSTANTS
  Users, First,   \* the users, those not created yet included; the one there is
  Areas, Home,    \* the areas; the one of First
  Positions, Soporte, Held, \* the positions, the default one, the one First holds
  Everyone,       \* the key of the list of users
  MaxCalls,       \* bound: how many calls the administrator makes
  MaxEvents,      \* bound: how many of both together
  MaxOthers       \* bound: how often another administrator changes something, an
                  \* answer is lost, a call fails or old data is fetched again

ASSUME MembersAssumption ==
  /\ First \in Users /\ Home \in Areas /\ {Soporte, Held} \subseteq Positions
  /\ Users \cap Areas = {} /\ Everyone \notin Users \cup Areas
  /\ Nil \notin Users \cup Areas \cup Positions \cup {Everyone}
ASSUME BoundsAssumption == MaxCalls \in Nat /\ MaxOthers \in Nat /\ MaxEvents \in Nat

VARIABLES
  state, primary, \* users: there, deactivated; users.area_id
  members, ids,   \* area_memberships: id and position; the ids used
  page, area,     \* the page that is mounted; selectedArea of the tab
  newUser,        \* newUserId of the tab
  editing,        \* the user of the form, Nil when it is for a new one
  cache, calls,
  made, others,
  blind           \* history: the keys whose data may be outdated for a reason
                  \* that ListsAreTrue names

tables == <<state, primary, members, ids>>
screen == <<page, area, newUser, editing>>
vars == <<tables, screen, cache, calls, made, others, blind>>
-----------------------------------------------------------------------------
MaxIds == 1 + MaxCalls + MaxOthers

Row == [id : 1 .. MaxIds, position : Positions]

Members == [Users -> Row \cup {Nil}]

Profile == [area : Areas \cup {Nil}, cargo : Positions \cup {Nil}]

\* Mutant of View: the position in whatever area.
ViewAnywhere(u) ==
  LET of == {a \in Areas : members[a][u] # Nil}
  IN  [area |-> primary[u],
       cargo |-> IF of = {} THEN Nil
                 ELSE members[CHOOSE a \in of : a = Home \/ Home \notin of][u].position]

\* A user as the API shows it: cargo is the position in the primary area.
View(u) ==
  LET a == primary[u]
  IN  [area |-> a, cargo |-> IF a = Nil \/ members[a][u] = Nil THEN Nil
                             ELSE members[a][u].position]

Keys == Areas \cup Users \cup {Everyone}

\* What a fetch answers: the members of an area, a user, who is not deactivated.
Truth(k) ==
  CASE k \in Areas  -> members[k]
    [] k \in Users  -> View(k)
    [] k = Everyone -> {u \in Users : state[u] = "kept"}

Watched(k) ==
  \/ page = "membresias" /\ k = area
  \/ page = "form" /\ k = editing
  \/ page = "usuarios" /\ k = Everyone

\* The effect on userData resets the form at every new answer, whatever was typed
\* meanwhile: area and position of the form, as long as they are untouched.
Filled(d) == <<d.area, IF d.cargo = Nil THEN Soporte ELSE d.cargo>>

MemberOps == {"add", "update", "remove"}

Ops == MemberOps \cup {"save", "create", "deactivate"}

Call == [n : 1 .. MaxCalls, op : Ops, user : Users \cup {Nil}, id : 0 .. MaxIds,
         area : Areas \cup {Nil}, position : Positions \cup {Nil},
         touched : BOOLEAN, seen : Profile \cup {Nil},
         live : BOOLEAN,             \* its hook follows the page that is mounted
         bound : Areas \cup {Nil},   \* selectedArea when it ceased to
         stage : {"sent", "stored", "ok", "failed"}]

Init ==
  /\ state = [u \in Users |-> IF u = First THEN "kept" ELSE "none"]
  /\ primary = [u \in Users |-> IF u = First THEN Home ELSE Nil]
  /\ members = [a \in Areas |-> [u \in Users |->
       IF a = Home /\ u = First THEN [id |-> 1, position |-> Held] ELSE Nil]]
  /\ ids = 1
  /\ page = "usuarios" /\ area = Nil
  /\ newUser = Nil /\ editing = Nil
  /\ cache = [k \in Keys |-> IF k = Everyone THEN Ask(NoQuery) ELSE NoQuery]
  /\ calls = {} /\ made = 0 /\ others = 0 /\ blind = {}
-----------------------------------------------------------------------------
Happen == others < MaxOthers /\ made + others < MaxEvents /\ others' = others + 1

Mount(k) == cache' = [cache EXCEPT ![k] = Mounted(@, FALSE)]

\* A call whose hook is unmounted, or makes another call, is answered by the
\* callback of the last render before.
Detach(c) == IF c.live THEN [c EXCEPT !.live = FALSE,
                                         !.bound = IF c.op \in MemberOps THEN area ELSE Nil] ELSE c

\* The administrator.

\* The pages are left with what was typed in them.
GoTo(p) ==
  /\ p # page
  /\ page' = p
  /\ area' = Nil /\ newUser' = Nil /\ editing' = Nil
  /\ calls' = {Detach(c) : c \in calls}
  /\ IF p = "usuarios" THEN Mount(Everyone) ELSE UNCHANGED cache
  /\ UNCHANGED <<tables, made, others, blind>>

\* Nothing of the form for a new member is reset.
SelectArea(a) ==
  /\ page = "membresias" /\ a # area
  /\ area' = a
  /\ Mount(a)
  /\ UNCHANGED <<tables, page, newUser, editing, calls, made, others, blind>>

\* availableUsers leaves out the members that are listed; its own list of users
\* may be old.
PickUser(u) ==
  /\ page = "membresias" /\ area # Nil
  /\ state[u] # "none"
  /\ cache[area].data # Nil => cache[area].data[u] = Nil
  /\ newUser' = u
  /\ UNCHANGED <<tables, page, area, editing, cache, calls, made, others, blind>>

\* Cancelar, or another search.
ClearUser ==
  /\ newUser # Nil
  /\ newUser' = Nil
  /\ UNCHANGED <<tables, page, area, editing, cache, calls, made, others, blind>>

Pending(ops) == \E c \in calls : c.live /\ c.op \in ops

Send(op, u, id, a, p, touched) ==
  /\ made < MaxCalls /\ made + others < MaxEvents
  /\ made' = made + 1
  /\ calls' = {IF c.op = op THEN Detach(c) ELSE c : c \in calls} \cup
       {[n |-> made + 1, op |-> op, user |-> u, id |-> id, area |-> a, position |-> p,
         touched |-> touched,
         seen |-> IF touched THEN Nil ELSE cache[u].data,
         live |-> TRUE, bound |-> Nil, stage |-> "sent"]}
  /\ UNCHANGED <<tables, screen, cache, others, blind>>

\* With the position the select holds, which no answer resets.
ConfirmAdd(p) ==
  /\ newUser # Nil /\ ~Pending({"add"})
  /\ Send("add", newUser, 0, area, p, TRUE)

\* The select and the button of a row, never disabled.
ChangeMember(u) ==
  /\ page = "membresias" /\ area # Nil
  /\ cache[area].data # Nil /\ cache[area].data[u] # Nil
  /\ LET m == cache[area].data[u]
     IN  \/ Send("remove", u, m.id, area, Nil, TRUE)
         \/ \E p \in Positions : Send("update", u, m.id, area, p, TRUE)

ListedUsers == IF cache[Everyone].data = Nil THEN {} ELSE cache[Everyone].data

\* The confirmation in the row; the list never shows a user that Reactivar is for.
Deactivate(u) ==
  /\ page = "usuarios" /\ u \in ListedUsers
  /\ ~Pending({"deactivate"})
  /\ Send("deactivate", u, 0, Nil, Nil, TRUE)

\* The form of a user, with what the cache has of it.
OpenForm(u) ==
  /\ page = "usuarios" /\ u \in ListedUsers
  /\ page' = "form" /\ editing' = u
  /\ calls' = {Detach(c) : c \in calls}
  /\ Mount(u)
  /\ UNCHANGED <<tables, area, newUser, made, others, blind>>

\* The form of a new one.
OpenNew ==
  /\ page = "usuarios"
  /\ page' = "form"
  /\ calls' = {Detach(c) : c \in calls}
  /\ UNCHANGED <<tables, area, newUser, editing, cache, made, others, blind>>

\* The fields are there once the user is.
SaveForm(a, p, touched) ==
  /\ page = "form" /\ editing # Nil
  /\ cache[editing].data # Nil
  /\ touched = (<<a, p>> # Filled(cache[editing].data))
  /\ ~Pending({"save"})
  /\ Send("save", editing, 0, a, p, touched)

SaveNew(a, p) ==
  /\ page = "form" /\ editing = Nil
  /\ ~Pending({"create"})
  /\ Send("create", Nil, 0, a, p, TRUE)
-----------------------------------------------------------------------------
\* The server.

\* Mutant of Replace: the call is there twice.
ReplaceNot(c, stage) == calls' = calls \cup {[c EXCEPT !.stage = stage]}

\* What the call asked for does not matter any more.
Replace(c, stage) ==
  calls' = (calls \ {c}) \cup {[c EXCEPT !.stage = stage, !.id = 0, !.position = Nil,
                                           !.touched = TRUE, !.seen = Nil]}

\* find_or_initialize_by: the position of a member is overwritten.
Assign(u, a, p) ==
  /\ members' = [members EXCEPT ![a][u] =
       [id |-> IF @ = Nil THEN ids + 1 ELSE @.id, position |-> p]]
  /\ ids' = IF members[a][u] = Nil THEN ids + 1 ELSE ids

\* The keys with data, or an answer on its way.
Loaded == {k \in Keys : cache[k].data # Nil \/ cache[k].fetch = "answered"}

\* What a write changes that its caller does not refresh.
Unseen(c) == CASE c.op \in MemberOps   -> {c.user}
               [] c.op = "deactivate" -> {}
               [] c.op = "save"       -> {c.area} \ {Nil}
               [] c.op = "create"     -> {c.area, c.user} \ {Nil}

Written(c) ==
  /\ Replace(c, "ok")
  /\ blind' = blind \cup (Unseen(c) \cap Loaded)
  /\ UNCHANGED <<screen, cache, made, others>>

AddMember(c) ==
  /\ c.op = "add" /\ c.stage = "sent"
  /\ Assign(c.user, c.area, c.position)
  /\ Written(c)
  /\ UNCHANGED <<state, primary>>

\* The membership is found by its id within the area.
Owner(c) == {u \in Users : members[c.area][u] # Nil /\ members[c.area][u].id = c.id}

UpdateMember(c) ==
  /\ c.op = "update" /\ c.stage = "sent"
  /\ \E u \in Owner(c) : members' = [members EXCEPT ![c.area][u].position = c.position]
  /\ Written(c)
  /\ UNCHANGED <<state, primary, ids>>

RemoveMember(c) ==
  /\ c.op = "remove" /\ c.stage = "sent"
  /\ \E u \in Owner(c) : members' = [members EXCEPT ![c.area][u] = Nil]
  /\ Written(c)
  /\ UNCHANGED <<state, primary, ids>>

\* The membership is gone.
NotFound(c) ==
  /\ c.op \in {"update", "remove"} /\ c.stage = "sent"
  /\ Owner(c) = {}
  /\ Replace(c, "failed")
  /\ UNCHANGED <<tables, screen, cache, made, others, blind>>

\* The commit of the user, whose area is still without a membership; "Sin área" is
\* not sent at all, and then this is all there is to write.
StoreUser(c, u) ==
  IF c.area = Nil
  THEN Written(c) /\ UNCHANGED primary
  ELSE /\ primary' = [primary EXCEPT ![u] = c.area]
       /\ calls' = (calls \ {c}) \cup {[c EXCEPT !.stage = "stored", !.user = u]}
       /\ UNCHANGED <<screen, cache, made, others, blind>>

UpdateUser(c) ==
  /\ c.op = "save" /\ c.stage = "sent"
  /\ StoreUser(c, c.user)
  /\ UNCHANGED <<state, members, ids>>

CreateUser(c, u) ==
  /\ c.op = "create" /\ c.stage = "sent"
  /\ state[u] = "none"
  /\ state' = [state EXCEPT ![u] = "kept"]
  /\ StoreUser(c, u)
  /\ UNCHANGED <<members, ids>>

\* The second commit of both.
AssignAreaMembership(c) ==
  /\ c.stage = "stored"
  /\ Assign(c.user, c.area, c.position)
  /\ Written(c)
  /\ UNCHANGED <<state, primary>>

Discard(c) ==
  /\ c.op = "deactivate" /\ c.stage = "sent"
  /\ state' = [state EXCEPT ![c.user] = "discarded"]
  /\ Written(c)
  /\ UNCHANGED <<primary, members, ids>>

\* Another administrator, with the tab of another client.
ChangeElsewhere(u, a) ==
  /\ Happen
  /\ state[u] # "none"
  /\ \/ \E p \in Positions : Assign(u, a, p)
     \/ members[a][u] # Nil /\ members' = [members EXCEPT ![a][u] = Nil] /\ UNCHANGED ids
  /\ blind' = blind \cup ({a, u} \cap Loaded)
  /\ UNCHANGED <<state, primary, screen, cache, calls, made>>

Answer(k) ==
  /\ cache[k].fetch = "asked"
  /\ cache' = [cache EXCEPT ![k] = Answered(@, Truth(k))]
  /\ blind' = blind \ {k}
  /\ UNCHANGED <<tables, screen, calls, made, others>>
-----------------------------------------------------------------------------
\* The answers.

\* Mutant of Refreshed: a saved user is not fetched again.
RefreshedListOnly(c) ==
  IF c.op \in MemberOps THEN {IF c.live THEN area ELSE c.bound} ELSE {Everyone}

\* The keys a success invalidates: of the members, those of the area that is
\* selected when the answer comes.
Refreshed(c) ==
  IF c.op \in MemberOps THEN {IF c.live THEN area ELSE c.bound}
  ELSE {Everyone} \cup (IF c.op = "save" THEN {c.user} ELSE {})

\* What the caller would have to refresh.
Changed(c) ==
  IF c.op \in MemberOps THEN {c.area}
  ELSE {Everyone} \cup (IF c.op = "save" THEN {c.user} ELSE {})

Invalidate(K) == [k \in Keys |-> IF k \in K THEN Invalidated(cache[k], Watched(k))
                                            ELSE cache[k]]

\* Why a key the call changed can stay outdated: the answer came under another
\* area, or a fetch was under way that was not started anew.
Missed(c) == {k \in Changed(c) \cap Loaded :
                \/ c.op \in MemberOps /\ k \notin Refreshed(c)
                \/ Survives(cache[k], Watched(k))}

MemberSucceeds(c) ==
  /\ c.op \in MemberOps /\ c.stage = "ok"
  /\ calls' = calls \ {c}
  /\ cache' = Invalidate(Refreshed(c))
  /\ newUser' = IF c.op = "add" /\ c.live THEN Nil ELSE newUser
  /\ blind' = blind \cup Missed(c)
  /\ UNCHANGED <<tables, page, area, editing, made, others>>

DeactivateSucceeds(c) ==
  /\ c.op = "deactivate" /\ c.stage = "ok"
  /\ calls' = calls \ {c}
  /\ cache' = Invalidate(Refreshed(c))
  /\ blind' = blind \cup Missed(c)
  /\ UNCHANGED <<tables, screen, made, others>>

\* navigate('/gestion/usuarios'), also from a form that was left long ago.
FormSucceeds(c) ==
  /\ c.op \in {"save", "create"} /\ c.stage = "ok"
  /\ calls' = {Detach(d) : d \in calls \ {c}}
  /\ cache' = [Invalidate(Refreshed(c)) EXCEPT ![Everyone] = Mounted(@, FALSE)]
  /\ page' = "usuarios"
  /\ area' = Nil /\ newUser' = Nil /\ editing' = Nil
  /\ blind' = blind \cup Missed(c)
  /\ UNCHANGED <<tables, made, others>>

\* The call fails, or is cut short between its commits, or its answer is lost.
Lose(c) ==
  /\ c.stage # "failed"
  /\ Happen
  /\ Replace(c, "failed")
  /\ blind' = IF c.stage = "sent" THEN blind ELSE blind \cup (Changed(c) \cap Loaded)
  /\ UNCHANGED <<tables, screen, cache, made>>

\* A message; the page stays as it is.
Fail(c) ==
  /\ c.stage = "failed"
  /\ calls' = calls \ {c}
  /\ UNCHANGED <<tables, screen, cache, made, others, blind>>

Arrive(k) ==
  /\ cache[k].fetch = "answered"
  /\ cache' = [cache EXCEPT ![k] = Arrived(@)]
  /\ UNCHANGED <<tables, screen, calls, made, others, blind>>

\* The window gets the focus, or a page is mounted, when the data is older than
\* its staleTime.
Focus(k) ==
  /\ Happen
  /\ Watched(k)
  /\ cache' = [cache EXCEPT ![k] = Mounted(@, TRUE)]
  /\ UNCHANGED <<tables, screen, calls, made, blind>>

Administrator ==
  \/ \E p \in {"membresias", "usuarios"} : GoTo(p)
  \/ \E a \in Areas : SelectArea(a)
  \/ \E u \in Users : PickUser(u) \/ ChangeMember(u) \/ Deactivate(u) \/ OpenForm(u)
  \/ ClearUser \/ OpenNew
  \/ \E p \in Positions : ConfirmAdd(p)
  \/ \E a \in Areas \cup {Nil}, p \in Positions :
       SaveNew(a, p) \/ \E touched \in BOOLEAN : SaveForm(a, p, touched)
  \/ \E k \in Keys : Focus(k)

Server ==
  \/ \E c \in calls : \/ AddMember(c) \/ UpdateMember(c) \/ RemoveMember(c) \/ NotFound(c)
                      \/ UpdateUser(c) \/ AssignAreaMembership(c) \/ Discard(c)
                      \/ \E u \in Users : CreateUser(c, u)
  \/ \E u \in Users, a \in Areas : ChangeElsewhere(u, a)
  \/ \E k \in Keys : Answer(k)

Answers ==
  \/ \E c \in calls : \/ MemberSucceeds(c) \/ DeactivateSucceeds(c) \/ FormSucceeds(c)
                      \/ Lose(c) \/ Fail(c)
  \/ \E k \in Keys : Arrive(k)

Next == Administrator \/ Server \/ Answers

Spec == Init /\ [][Next]_vars
-----------------------------------------------------------------------------
\* The tables, the cache, the pages and the calls are typed; ids are unique.
TypeOK ==
  /\ state \in [Users -> {"none", "kept", "discarded"}]
  /\ primary \in [Users -> Areas \cup {Nil}]
  /\ members \in [Areas -> Members] /\ ids \in 1 .. MaxIds
  /\ \A a, b \in Areas, u, v \in Users :
       /\ members[a][u] # Nil => members[a][u].id <= ids
       /\ members[a][u] # Nil /\ members[b][v] # Nil /\ members[a][u].id = members[b][v].id
            => <<a, u>> = <<b, v>>
  /\ page \in {"membresias", "usuarios", "form"}
  /\ area \in Areas \cup {Nil}
  /\ newUser \in Users \cup {Nil} /\ editing \in Users \cup {Nil}
  /\ \A a \in Areas : cache[a] \in Query(Members)
  /\ \A u \in Users : cache[u] \in Query(Profile)
  /\ cache[Everyone] \in Query(SUBSET Users)
  /\ calls \subseteq Call
  /\ \A c, d \in calls : c.n = d.n => c = d
  /\ made \in 0 .. MaxCalls /\ others \in 0 .. MaxOthers /\ blind \subseteq Keys

\* A list, or a user, that is shown as final is what the tables say.  It can be
\* outdated while the call that changed it is under way, which for the form lasts
\* from its first commit to the answer; when the change was made where it is not
\* refreshed (elsewhere, the members by the form, the user by the tab, a new user
\* who was opened before his membership was there); when the call was cut short
\* after its first commit, its answer was lost, or came while another area was
\* selected; and when a fetch survived the invalidation.
ListsAreTrue ==
  \A k \in Keys \ blind :
    Settled(cache[k]) /\ ~(\E c \in calls : c.stage \in {"stored", "ok"} /\ k \in Changed(c))
      => cache[k].data = Truth(k)

\* Saving the form of a user without touching area and position keeps both, in
\* either of its commits, as long as what the form was filled with is still so.
UntouchedSavesKeepThePosition ==
  \A c \in calls :
    /\ c.op = "save" /\ c.stage \in {"sent", "stored"} /\ ~c.touched
    /\ c.seen = View(c.user)
    => /\ c.area = primary[c.user]
       /\ c.area # Nil /\ members[c.area][c.user] # Nil
            => c.position = members[c.area][c.user].position
=============================================================================
