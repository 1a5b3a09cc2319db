------------------------------ MODULE AccessPage ------------------------------
(***************************************************************************)
(* The access page of an administrator (AccesosPage: the tabs for roles,   *)
(* for the roles of users and for the permission matrix) over the          *)
(* endpoints it calls (system_roles, users#update_role, role_permissions). *)
(*                                                                         *)
(* A call outlives the tab that made it: its answer still invalidates      *)
(* the matrix, but no longer touches what the tab kept.  isPending         *)
(* disables a button only while the latest call of its mutation, as the    *)
(* tab knows it, is under way.                                             *)
(* The server validates in one statement and writes in another, and lets   *)
(* other requests in between.                                              *)
(***************************************************************************)
EXTENDS Naturals, FiniteSets, QueryCache

CONSTANTS
  RoleNames,
  SystemRoles,  \* the names with is_system; their rows are seeded
  Pages,        \* PAGE_KEYS
  Users,
  MaxCalls,     \* bound: how many mutations the administrator starts
  MaxLost       \* bound: how many calls fail, or lose their answer

ASSUME NilAssumption    == Nil \notin BOOLEAN
ASSUME RolesAssumption  == SystemRoles \subseteq RoleNames /\ SystemRoles # {}
ASSUME BoundsAssumption == MaxCalls \in Nat /\ MaxLost \in Nat

VARIABLES
  roles,      \* table system_roles
  rows,       \* table role_permissions: allowed of a cell, Nil when it has no row
  roleOf,     \* users.role
  tab,        \* the tab that is mounted
  matrix,     \* the query role-permissions
  optimistic, \* overrides of PermisosTab
  calls,      \* the mutations under way
  made, lost,
  crossed, exposed, granted, unseen \* history: see the properties

server == <<roles, rows, roleOf>>
page   == <<tab, optimistic>>
counts == <<made, lost>>
history == <<crossed, exposed, granted, unseen>>
vars == <<server, page, matrix, calls, counts, history>>
-----------------------------------------------------------------------------
Cells == RoleNames \X Pages

Tabs == {"gestion_roles", "roles", "permisos"}

\* The cells of the roles that were listed; Nil for the others.
Matrix == [Cells -> BOOLEAN \cup {Nil}]

\* A query that has no data does not look like one that has.
ASSUME MatrixAssumption == Nil \notin Matrix

Ops == {"create", "destroy", "assign", "toggle"}

\* holder: the mounted tab made the call, and it is the latest of its mutation;
\* the mounted tab made it; or the tab that made it is gone.
Call == [id : 1 .. MaxCalls, holder : {"latest", "tab", "gone"}, op : Ops,
         role : RoleNames, page : Pages \cup {Nil}, user : Users \cup {Nil},
         on : BOOLEAN \cup {Nil}, stage : {"sent", "checked", "ok", "failed"}]

Init ==
  /\ roles = SystemRoles
  /\ rows = [c \in Cells |-> IF c[1] \in SystemRoles THEN TRUE ELSE Nil]
  /\ roleOf \in [Users -> SystemRoles]
  /\ tab = "roles"
  /\ matrix = NoQuery
  /\ optimistic = [c \in Cells |-> Nil]
  /\ calls = {}
  /\ made = 0 /\ lost = 0
  /\ crossed = {} /\ exposed = {} /\ granted = {} /\ unseen = {}
-----------------------------------------------------------------------------
\* The page.

\* The cell a toggle is about.
Cell(c) == <<c.role, c.page>>

Toggling(cell) == {c \in calls : c.op = "toggle" /\ Cell(c) = cell}

\* setTab: the old tab is unmounted and forgets its state, the new one mounts.
SetTab(t, aged) ==
  /\ t # tab
  /\ tab' = t
  /\ matrix' = IF t = "permisos" THEN Mounted(matrix, aged) ELSE matrix
  /\ optimistic' = [c \in Cells |-> Nil]
  /\ calls' = {[c EXCEPT !.holder = "gone"] : c \in calls}
  /\ unseen' = unseen \cup {c \in Cells : optimistic[c] # Nil \/ Toggling(c) # {}}
  /\ UNCHANGED <<server, counts, crossed, exposed, granted>>

\* isPending of a mutation.
Pending(op) == \E c \in calls : c.op = op /\ c.holder = "latest"

Send(op, r, p, u, on) ==
  /\ made < MaxCalls
  /\ made' = made + 1
  /\ calls' =
       {IF c.op = op /\ c.holder = "latest" THEN [c EXCEPT !.holder = "tab"] ELSE c :
          c \in calls}
       \cup {[id |-> made + 1, holder |-> "latest", op |-> op, role |-> r,
              page |-> p, user |-> u, on |-> on, stage |-> "sent"]}
  /\ UNCHANGED <<server, tab, matrix, lost, history>>

\* NewRoleModal: a modal that was closed and opened again sends another call.
CreateRole(r) ==
  /\ tab = "gestion_roles"
  /\ Send("create", r, Nil, Nil, Nil)
  /\ UNCHANGED optimistic

\* The list, which may be out of date, shows the role as deletable.
DeleteRole(r) ==
  /\ tab = "gestion_roles"
  /\ r \notin SystemRoles
  /\ ~Pending("destroy")
  /\ Send("destroy", r, Nil, Nil, Nil)
  /\ UNCHANGED optimistic

\* Guardar in the row of a user, whose select may be out of date.
SaveRole(u, r) ==
  /\ tab = "roles"
  /\ ~Pending("assign")
  /\ Send("assign", r, Nil, u, Nil)
  /\ UNCHANGED optimistic

\* currentMatrix: the override, or else the data.
Shown(c) ==
  IF optimistic[c] # Nil THEN optimistic[c] ELSE matrix.data[c]

\* Only the cell of the latest toggle is disabled.
Toggle(c) ==
  /\ tab = "permisos"
  /\ matrix.data # Nil
  /\ matrix.data[c] # Nil
  /\ \A k \in Toggling(c) : k.holder # "latest"
  /\ optimistic' = [optimistic EXCEPT ![c] = ~Shown(c)]
  /\ Send("toggle", c[1], c[2], Nil, ~Shown(c))
-----------------------------------------------------------------------------
\* The server.

Move(c, stage) == calls' = (calls \ {c}) \cup {[c EXCEPT !.stage = stage]}

\* A role whose row is committed and whose permissions are still to be written.
BeingCreated(r) == \E c \in calls : c.op = "create" /\ c.stage = "checked" /\ c.role = r

SaveNewRole(c) ==
  /\ c.op = "create" /\ c.stage = "sent"
  /\ roles' = roles \cup {c.role}
  /\ Move(c, IF c.role \in roles THEN "failed" ELSE "checked")
  /\ UNCHANGED <<rows, roleOf, history>>

\* Mutant of CreateRows: the gaps are left to ensure_defaults!.
CreateNoRows(c) ==
  /\ c.op = "create" /\ c.stage = "checked"
  /\ Move(c, "ok")
  /\ UNCHANGED <<rows, roles, roleOf, history>>

\* find_or_create_by! leaves the rows that are there, and raises when the role
\* is gone again.
CreateRows(c) ==
  /\ c.op = "create" /\ c.stage = "checked"
  /\ IF c.role \in roles
     THEN /\ rows' = [d \in Cells |->
               IF d[1] = c.role /\ rows[d] = Nil THEN FALSE ELSE rows[d]]
          /\ Move(c, "ok")
     ELSE /\ Move(c, IF \A p \in Pages : rows[<<c.role, p>>] # Nil THEN "ok" ELSE "failed")
          /\ UNCHANGED rows
  /\ UNCHANGED <<roles, roleOf, history>>

\* Some assignment of r and some removal of r are both past their checks.
Crossing == {r \in RoleNames :
  \A op \in {"assign", "destroy"} :
    \E c \in calls' : c.op = op /\ c.stage = "checked" /\ c.role = r}

\* Mutant of CheckUnused: only system roles are refused.
CheckSystem(c) ==
  /\ c.op = "destroy" /\ c.stage = "sent"
  /\ Move(c, IF c.role \in roles \ SystemRoles THEN "checked" ELSE "failed")
  /\ crossed' = crossed \cup Crossing
  /\ UNCHANGED <<server, exposed, granted, unseen>>

\* prevent_system_delete.
CheckUnused(c) ==
  /\ c.op = "destroy" /\ c.stage = "sent"
  /\ Move(c, IF c.role \in roles \ SystemRoles /\ \A u \in Users : roleOf[u] # c.role
             THEN "checked" ELSE "failed")
  /\ crossed' = crossed \cup Crossing
  /\ UNCHANGED <<server, exposed, granted, unseen>>

\* The permissions of the role stay behind.
RemoveRole(c) ==
  /\ c.op = "destroy" /\ c.stage = "checked"
  /\ roles' = roles \ {c.role}
  /\ Move(c, "ok")
  /\ UNCHANGED <<rows, roleOf, history>>

\* role_must_exist; there is nothing to save when the user has the role.
CheckRole(c) ==
  /\ c.op = "assign" /\ c.stage = "sent"
  /\ Move(c, CASE c.role \notin roles      -> "failed"
               [] roleOf[c.user] = c.role -> "ok"
               [] OTHER                   -> "checked")
  /\ crossed' = crossed \cup Crossing
  /\ UNCHANGED <<server, exposed, granted, unseen>>

WriteRole(c) ==
  /\ c.op = "assign" /\ c.stage = "checked"
  /\ roleOf' = [roleOf EXCEPT ![c.user] = c.role]
  /\ Move(c, "ok")
  /\ UNCHANGED <<roles, rows, history>>

\* update_batch: a role that is gone is left out, and the answer is the same.
UpdateBatch(c) ==
  /\ c.op = "toggle" /\ c.stage = "sent"
  /\ IF c.role \in roles
     THEN /\ rows' = [rows EXCEPT ![Cell(c)] = c.on]
          /\ granted' = IF c.on THEN granted \cup {Cell(c)} ELSE granted
     ELSE UNCHANGED <<rows, granted>>
  /\ Move(c, "ok")
  /\ UNCHANGED <<roles, roleOf, crossed, exposed, unseen>>

\* ensure_defaults!: the missing rows of a role that is not in DEFAULTS are
\* visible.
EnsureDefaults(R) == [d \in Cells |-> IF d[1] \in R /\ rows[d] = Nil THEN TRUE ELSE rows[d]]

Expose(R) ==
  /\ rows' = EnsureDefaults(R)
  /\ exposed' = exposed \cup {r \in R : BeingCreated(r)}
  /\ UNCHANGED <<roles, roleOf, crossed, granted, unseen>>

\* my_permissions of a user's own browser.
MyPermissions(u) ==
  /\ roleOf[u] \in roles
  /\ Expose({roleOf[u]})
  /\ UNCHANGED <<page, matrix, calls, counts>>

\* role_permissions#index fills the gaps of every role before it answers.
AnswerMatrix ==
  /\ matrix.fetch = "asked"
  /\ Expose(roles)
  /\ matrix' = Answered(matrix, [d \in Cells |-> IF d[1] \in roles THEN rows'[d] ELSE Nil])
  /\ UNCHANGED <<page, calls, counts>>

\* A call fails, or its answer is lost after the server served it.
LoseCall(c) ==
  /\ c.stage # "failed"
  /\ lost < MaxLost
  /\ lost' = lost + 1
  /\ Move(c, "failed")
  /\ exposed' = IF c.op = "create" /\ c.stage = "checked"
                THEN exposed \cup {c.role} ELSE exposed
  /\ UNCHANGED <<server, page, matrix, made, crossed, granted, unseen>>
-----------------------------------------------------------------------------
\* The answers.

\* Mutant of Invalidates: a toggle relies on its override.
InvalidatesRoles == {"create", "destroy"}

\* The mutations that invalidate role-permissions.
Invalidates == {"create", "destroy", "toggle"}

Own(c) == c.holder # "gone"

Succeed(c) ==
  /\ c.stage = "ok"
  /\ calls' = calls \ {c}
  /\ matrix' = IF c.op \in Invalidates
               THEN Invalidated(matrix, tab = "permisos") ELSE matrix
  /\ optimistic' = IF c.op = "toggle" /\ Own(c)
                   THEN [optimistic EXCEPT ![Cell(c)] = Nil] ELSE optimistic
  /\ UNCHANGED <<server, tab, counts, history>>

\* onError: the matrix keeps an override with the value before the toggle.
Fail(c) ==
  /\ c.stage = "failed"
  /\ calls' = calls \ {c}
  /\ optimistic' = IF c.op = "toggle" /\ Own(c)
                   THEN [optimistic EXCEPT ![Cell(c)] = ~c.on] ELSE optimistic
  /\ UNCHANGED <<server, tab, matrix, counts, history>>

MatrixArrives ==
  /\ matrix.fetch = "answered"
  /\ matrix' = Arrived(matrix)
  /\ UNCHANGED <<server, page, calls, counts, history>>

MatrixFails ==
  /\ matrix.fetch # "idle"
  /\ lost < MaxLost
  /\ lost' = lost + 1
  /\ matrix' = Failed(matrix)
  /\ UNCHANGED <<server, page, calls, made, history>>

\* The window gets the focus again.
Focus(aged) ==
  /\ tab = "permisos"
  /\ matrix' = Mounted(matrix, aged)
  /\ UNCHANGED <<server, page, calls, counts, history>>

Administer ==
  \/ \E t \in Tabs, aged \in BOOLEAN : SetTab(t, aged)
  \/ \E r \in RoleNames : CreateRole(r) \/ DeleteRole(r)
  \/ \E u \in Users, r \in RoleNames : SaveRole(u, r)
  \/ \E c \in Cells : Toggle(c)
  \/ \E aged \in BOOLEAN : Focus(aged)

ServeCall(c) ==
  /\ \/ SaveNewRole(c) \/ CreateRows(c) \/ CheckUnused(c) \/ RemoveRole(c)
     \/ CheckRole(c) \/ WriteRole(c) \/ UpdateBatch(c)
  /\ UNCHANGED <<page, matrix, counts>>

Serve ==
  \/ \E c \in calls : ServeCall(c) \/ LoseCall(c) \/ Succeed(c) \/ Fail(c)
  \/ \E u \in Users : MyPermissions(u)
  \/ AnswerMatrix \/ MatrixArrives \/ MatrixFails

Next == Administer \/ Serve

Spec == Init /\ [][Next]_vars
-----------------------------------------------------------------------------
\* Tables, cache and page are typed; a new call has a new id.
TypeOK ==
  /\ roles \in SUBSET RoleNames
  /\ rows \in [Cells -> BOOLEAN \cup {Nil}]
  /\ roleOf \in [Users -> RoleNames]
  /\ tab \in Tabs
  /\ matrix \in Query(Matrix)
  /\ optimistic \in [Cells -> BOOLEAN \cup {Nil}]
  /\ calls \in SUBSET Call
  /\ \A c, d \in calls : c.id = d.id => c = d
  /\ \A c \in calls : c.id <= made
  /\ made \in 0 .. MaxCalls   /\ lost \in 0 .. MaxLost
  /\ crossed \subseteq RoleNames /\ exposed \subseteq RoleNames
  /\ granted \subseteq Cells /\ unseen \subseteq Cells

\* "Remove optimistic override; server data now reflects truth": when the tab
\* has nothing under way, a cell without an override shows what is stored,
\* however toggles, their answers and refetches were ordered.  Not so a cell
\* with a toggle under way, or failed, when the tab was once left: the query
\* is then not watched, and a fetch under way may undo the invalidation.
MatrixIsTrue ==
  \A c \in Cells \ unseen :
    /\ tab = "permisos" /\ Settled(matrix)
    /\ matrix.data[c] # Nil
    /\ Toggling(c) = {} /\ optimistic[c] = Nil
    => matrix.data[c] = rows[c]

\* "Un usuario siempre debe tener un rol que exista": a user is left without a
\* role only when an assignment and a removal of it were both past their
\* checks at once.
OrphansComeFromRaces ==
  \A u \in Users : roleOf[u] \in roles \cup crossed

\* A new role sees nothing until somebody allows it ("allowed: false por
\* defecto"), but for the cells once granted to a role of that name, and for
\* roles that are read before their creation has written the permissions, or
\* whose creation was cut short there.
HiddenUntilGranted ==
  \A c \in Cells :
    rows[c] = TRUE => c[1] \in SystemRoles \cup exposed \/ c \in granted
=============================================================================
