# A TLA+ model of hal-docs

hal-docs is a document-management system ("trámite documentario"): a Rails 8.1
JSON API over PostgreSQL and a React client. Staff register internal documents
and move them through a state machine; citizens file submissions through the
public Mesa Virtual; files are uploaded once as "archivos" and signed with
personal digital certificates; what a user sees depends on a role and its page
permissions.

The programs that matter here are the handlers. Puma runs several of them at
once (3 threads per process, `config/puma.rb`), PostgreSQL runs at READ
COMMITTED, no model has a `lock_version`, no handler takes a lock, and of all
the endpoints that write more than one row only `role_permissions#update_batch`
opens a transaction. Each `save`, `update` and `create!` therefore commits on
its own; what a handler does between two commits rests on the row it loaded,
and ActiveRecord writes only the attributes that differ from that loaded copy.
That is what the models of the server describe: **one action is one SQL
statement or commit of one thread, and a thread remembers what the handler holds
in memory.**

The client is concurrent in another way. A page stays usable while its calls are
under way; an answer is handled by a closure of an older render, on a page that
may have been left or opened anew; the query cache refetches on its own, and the
rows on the screen are as old as their query. The models of the pages have **one
action per user event, per commit of the server and per answer**, and a call
remembers what its closure captured. What a handler of these models reads for a
commit (a `find`, a `find_or_initialize_by`, the user `set_user` loads) it reads
in that commit; the gaps between reading and writing are the subject of the
models of the server.

## 1. Inventory

| Part | State it keeps | Operations | Interacts with |
|---|---|---|---|
| Internal documents (`documents_controller`, `Documents::RegisterService`, `Documents::TransitionService`, `Documents::TransitionRules`, `Document`, `DocumentFlow`) | rows of `documents` (number, status, area), their `document_flows`, PaperTrail `versions` | create, update, update_status, destroy (= annul) | archivos (links), areas, document types (number prefix), Active Storage |
| Mesa Virtual (`virtual_submissions_controller`, `admin_virtual_submissions_controller`, `VirtualSubmission`, `AttachmentService`) | `virtual_submissions`, `virtual_submission_flows`, attachments | submit, track, update_status, inbox of an area | areas (default area), Active Storage |
| Archivos (`archivos_controller`, `Archivo`) | `archivos` (borrador/firmado), the file, links from documents and bundles | create, destroy, sign | certificates (the default one signs), documents, bundles |
| Digital certificates (`digital_certificates_controller`, `DigitalCertificate`) | the certificates of a user, which is the default, their files | create, destroy, set_default, sign_document | archivos, documents |
| Bundles (`document_bundles_controller`) | ordered lists of archivos | create, update, destroy, add_archivo, remove_archivo | archivos |
| Roles and permissions (`system_roles_controller`, `role_permissions_controller`, `SystemRole`, `RolePermission`, `User`) | roles, one row per (role, page), the role of each user | create, update, destroy, update_batch, ensure_defaults!, update_role | users, web client |
| Users, areas, memberships, document types | single rows, a tree of areas, one default area | CRUD, discard and restore | everything that names an area or a user |
| Authentication (Devise, devise-jwt, `JwtDenylist`), throttling (rack-attack) | tokens, deny list, counters | sign in, sign out | web client |
| Policies (Pundit), views, serializers, signature services | none | predicates, formatting, cryptography | the controllers |
| Web client: session (`authStore`, `api`, `AppLayout`, `Sidebar`, `ProtectedRoute`) | user, token and permissions in every tab and in localStorage | sign in, sign out, 401, reload, profile | the API, the other tabs |
| Web client: pages | forms, dialogs, selections, optimistic values; the query cache | edits, buttons, answers, refetches | the API |

What makes each part correct, and what is hard about it:

* **Documents.** Numbers are correlative and never reused
  (`docs/reglas-sistema-tramite.md:44`); the status follows the transition
  rules; each change leaves a flow entry and a version, and neither record is
  ever rewritten (`:231`, `:232`). Hard: status checked against a stale row, a
  number counted before it is inserted, a crash between the update and the flow
  entry, a document that others see before its first entry exists.
* **Mesa Virtual.** A submission is tracked by a unique number, its history
  starts with `registrado`, an inbox shows what was routed to it. Hard: the
  handler that destroys a submission when its files are rejected, no check of
  transitions, stale `from_status`.
* **Archivos.** A signed file is signed once; a file a document links is not
  deleted. Hard: signing spans a download, a signature and two commits.
* **Certificates.** One default per user, the one that signs. Hard: two
  transactions that move the default, a flag cleared behind the back of a loaded
  record.
* **Roles.** A user always has an existing role; a new role sees nothing until
  someone allows it (`docs/roles-y-permisos.md:68`, `:77`). Hard: checks in one
  transaction, writes in another; two sources of defaults that disagree.
* **Memberships.** A user has one position in each area; the tab of an area and
  the form of a user both write it. Hard: a form filled from an old query, an
  invalidation that names the wrong list.
* **Session.** The user and the menu on the screen belong to the token; a revoked
  token goes away. Hard: two tabs with one localStorage, answers to calls of a
  session that is over, a 401 that forgets half of what is stored.
* **Pages.** What a page says is so: a number that was shown is registered, a
  submission goes to the area chosen for it, a list no longer offers what was
  moved out. Hard: answers out of order, dialogs that another answer closes, a
  refetch that undoes an invalidation.

`PROJECT.json` lists the hazards line by line, each with the properties that
watch it, or with the reason why none does.

## 2. Modules

| Module | Models | Kind |
|---|---|---|
| `TransitionRules` | `Documents::TransitionRules`: statuses, transitions, action names, which target requires an area | tables and operators |
| `DocumentRequests` | the document endpoints, commit by commit | state machine |
| `DocumentLedger` | what they promise: a register in which each handler is one step, and a request cut short may cost a document its newest entry | abstract specification |
| `DigitalCertificates` | the certificate endpoints of one user, statement by statement, with row locks | state machine |
| `MesaVirtual` | the submit of a citizen, the page and `update_status` of an officer, commit by commit | state machine |
| `QueryCache` | one query of react-query, as the pages use it (external) | operators |
| `AccessPage` | the access page of an administrator (roles, roles of users, permission matrix) over its endpoints | state machine |
| `PublicPortal` | the wizard and the search of a citizen over `submit` and `track` | state machine |
| `DerivedTray` | the tray of an office over `area_inbox` and `update_status` | state machine |
| `Repository` | the officer's work with archivos: upload, sign, delete, group, link to a document | state machine |
| `ClientSession` | `authStore` in several tabs, localStorage, the interceptors, the token's life on the server | state machine |
| `Memberships` | the tab of an area's members and the form of a user, over users and area_memberships | state machine |
| `DocumentLists` | the two lists of internal documents (search, filter, pages, menu) over `mine`, `index` and `update_status` | state machine |
| `MC...` | small instances | model checking |
| `MesaVirtualProofs`, `AccessPageProofs`, `PublicPortalProofs`, `ClientSessionProofs`, `MembershipsProofs`, `DocumentListsProofs` | theorems about the module they extend | proofs |
| `DocumentRequestsProofs` | theorems about `DocumentRequests` and `DerivedTray`: what is routed from area to area | proofs |
| `RepositoryProofs` | theorems about `Repository` and `DigitalCertificates`: the archivos and what signs them | proofs |

The last two extend two modules each, whose names do not meet: what
`DerivedTray` and `DigitalCertificates` would share with the other
(`Init`, `Spec`, ...) is `TrayInit`, `TraySpec`, `CertificatesInit`,
`CertificatesSpec`, ... there, and the areas of `DerivedTray` are its `Offices`.

`AccessPage`, `DerivedTray`, `Memberships` and `DocumentLists` extend
`QueryCache`: page, cache and server are composed in each of them.
`DocumentLists` takes the rules of the server from `TransitionRules`.

### DocumentRequests

State: the table `documents` as a sequence (the id is the position; a row is its
numbering series, number, status and area), `flows[d]` and `versions[d]`, oldest
first, and `requests[w]`, what thread `w` is doing:

| Stage of a thread | The handler is |
|---|---|
| `idle` | not serving a request |
| `numbered` | in `document.save`, after `assign_document_number` counted the rows, before the INSERT |
| `loaded` | past `set_document`, holding the status and area it read |
| `recording` | past the commit of the row, before `DocumentFlow.create!` |

| Action | Code |
|---|---|
| `AssignDocumentNumber` | `POST /documents` up to `Document#assign_document_number` |
| `InsertDocument`, `RaiseNotUnique` | the INSERT of `RegisterService#call` commits, or the unique index refuses it and `save` raises |
| `SetDocument` | `set_document` of update, update_status and destroy |
| `CommitTransition` | `TransitionService#call` up to the commit of `@document.update`; `destroy` is the transition to `anulado` |
| `CommitArea` | `PATCH /documents/:id` with another `area_id` |
| `Refuse` | 403, 422, or nothing to save |
| `CreateFlow` | the `DocumentFlow.create!` that ends both services |
| `Abort` | the process dies, the connection drops, or attaching a file raises |
| `Rest` | every request the bound allows has been served |

`UpdateDocument` writes a column only when the new value differs from the one
the thread loaded, and the version names the loaded values as the old ones: that
is ActiveRecord's dirty tracking and PaperTrail's `object_changes`. A series
stands for "type code - year", so two of them are two types or two years. Other
columns (subject, sender, priority, ...) influence no handler and are left out.

### DigitalCertificates

State: the certificates of one user (`is_default`, kept or discarded, file
attached), `requests[w]`, and `held[w]`, the rows whose flag the open
transaction of `w` has cleared and locked. `save` of a certificate that becomes
the default is a transaction of two statements: `ClearOtherDefaults` (the
`before_save` hook) and then `InsertCertificate` or `CommitDefault`; its effect
shows when it commits. `UpdateAll` is the single-statement `update_all` of
`set_default`, `UpdateDefault` the `update!` on the loaded record, which saves
nothing when the loaded flag was already on. `Discard` and `PromoteNext` are
`destroy`. A statement waits for the locks of others; PostgreSQL ends a deadlock
by rolling one transaction back (`RaiseDeadlocked`). A statement takes all its
row locks at once in the model; the database takes them one by one and may find
a deadlock earlier, with the same result, one transaction rolled back.
`ChoosesDefault` says whether `set_default` is ever called on the certificate
that is already the default: `CertificatesPage` disables the button, the
endpoint does not refuse the call.

### MesaVirtual

State: the table `virtual_submissions` as a sequence (a destroyed row stays in
its place and is not `present`), `flows[s]`, `pages[o]`, the submission officer
`o` has open with the status it had when the page loaded it, and `requests[p]`
for every citizen and officer.

| Stage | Actions | Code |
|---|---|---|
| idle | `GenerateTrackingNumber` | `submit` up to the draw of a number that no row has |
| `drawn` | `InsertSubmission`, `RefuseNumber` | `@submission.save` commits; or the uniqueness validation answers 422, or the unique index raises |
| `attaching` | `AttachFiles` | `AttachmentService.call` of either endpoint |
| `rejecting`, `destroying` | `LoadFlows`, `DestroySubmission` | `@submission.destroy`: `dependent: :destroy` loads the flows, then one transaction deletes them and the row |
| `registering` | `RegisterSubmission` | the `flows.create!` of `submit` |
| idle | `OpenPage`, `Confirm` | the query of the detail page; the confirmed button and the `find` of `update_status` |
| `loaded` | `Refuse`, `UpdateStatus` | the 403 or 422; `@submission.update` commits |
| `recording` | `CreateFlow`, `RaiseForeignKey` | the `flows.create!` of `update_status`, or the foreign key refuses it because the row is gone |

`Taken` is the one place that decides whether a number is used: `exists?` when
it is drawn, the unique index when it is inserted. Which files are acceptable is
a choice of the request (`Uploads`), and that a submission has files is a flag:
how many they are, and a failure between two of them, is left out. A request
for a row that is gone answers 404 and is left out. After a success the page
loads the submission again; the model closes it, and `OpenPage` opens it. The
documentation draws two transitions the page does not offer (`observado` to
`finalizado`, `derivado` to `en_revision`) and lacks one it does (`derivado` to
`derivado`); the model follows the page.

`StateIsExplained` counts the entry an officer's thread still has to write, and
allows one submission that its history does not explain per request cut short;
`SubmissionsAreTracked` likewise.

### QueryCache

One query of react-query as a record: the data on the screen, the fetch that is
under way and the answer it will bring, and whether the data is stale. It is
external; what it says is what the pages rely on (`useQuery`,
`invalidateQueries`, the `staleTime` of `App.tsx`). Two facts decide the
properties of the pages: the answer of a fetch is fixed when the server reads
its tables, and an invalidation starts a fetch anew only when the query is
watched and has data. A fetch that `Survives` an invalidation makes the query
fresh with what it read before.

In every module of the client a mutation call goes from `sent` through the
commits of its handler to its answer, `ok` or `failed`; a call that fails after
a commit has changed the server all the same.

### AccessPage

State: `system_roles`, `role_permissions` (one cell per role and page, `Nil`
without a row), the role of each user; the tab that is mounted, the query of the
matrix, the overrides of `PermisosTab`, and the calls.

| Action | Code |
|---|---|
| `SetTab`, `Focus` | `setTab`; the window gets the focus |
| `CreateRole`, `DeleteRole`, `SaveRole`, `Toggle` | the buttons of the three tabs, as far as `isPending` lets them |
| `SaveNewRole`, `CreateRows` | the `save` of `system_roles#create`, and the loop after it that writes the cells |
| `CheckUnused`, `RemoveRole` | `prevent_system_delete`, and the DELETE |
| `CheckRole`, `WriteRole` | `role_must_exist` of `User`, and the UPDATE |
| `UpdateBatch` | the transaction of `update_batch` |
| `MyPermissions`, `AnswerMatrix` | `my_permissions` and `index`, which fill gaps with `ensure_defaults!` before they answer |
| `Succeed`, `Fail`, `LoseCall`, `MatrixArrives`, `MatrixFails` | answers and losses |

`CreateRows` writes all the cells at once, in the code they are written one by
one; a reader in between exposes the role either way. Left out: label,
description and `update` of a role, which no page calls to rename one. What the
properties allow is kept in history variables: `crossed` (an assignment and a
deletion were both past their checks), `exposed` (the cells were filled while
the role was being created), `granted`, and `unseen` (the tab was left with a
toggle under way or failed).

### PublicPortal

State: the table of submissions (the sender, whether the file and the history
are there), the page that is open, the wizard (step, form, number shown), the
search, and the calls with the form they captured. The actions are the inputs
and buttons of `NuevoTramitePage` and `ConsultaTramitesPage`, `SaveSubmission`
and `RegisterSubmission` (the commits of `submit`), `Track`, and the answers
`ShowTracking`, `ShowRefusal` and `ShowResults`. What a document number or a
subject looks like is reduced to whether `validateStep0` accepts it and whether
it is given. `told` and `missed` keep which numbers were shown and which could
not be, because the page was left or the call failed; `overlap` says that the
last search was sent while another was under way. The numbers themselves, the
rejection of files and the destroy that follows are in `MesaVirtual`.

### DerivedTray

State: status and area of each submission, the filter, one query per filter, the
rows that were ever listed (the detail panel keeps a clicked row however old),
the two dialogs, and at most one call per mutation. `Offered` is what the
endpoint lists with buttons. `OpenReDeriv`, `PickArea`, `ConfirmReDeriv`,
`OpenConfirm`, `ConfirmFinalizar` and `CloseDialog` are the dialogs; `Succeed`
closes the dialog of its mutation, for whatever submission it is open by then;
`MoveElsewhere` is another office. `picked` is the submission for which the area
was chosen, `handled` what the page was told it moved out, `slipped` the filters
with a fetch that survived an invalidation.

### Repository

State: `archivos` with the attached file (how often it is signed, by which
call), `estado`, the recorded position of the signature, the links of documents
and the members of bundles; the page, the selection, the signature modal, the
archivos chosen for a new document; the calls. `CheckSign`, `AttachSigned` and
`MarkSigned` are the three stages of `sign`; `CheckUnlinked`, `Purge` and
`Destroy` those of `destroy`; `StoreDocument` and `LinkArchivo` the
`link_archivos` of `documents#create`, one link at a time; `AddArchivo` one of
the requests of the `Promise.all` of `BundlePanel`. Whose archivo it is, names,
and the order within a bundle are left out. History: `promised` and `dropped`
(reported as linked; gone before), `risked` (linked while a deletion was past
its check), `twice` (two signatures past their checks at once), `cutShort`
(signed, not marked), `told` and `takenOut` (reported as added; removed).

### ClientSession

State: the owner of each token and the deny list on the server; localStorage;
the store and the page of each tab; the calls. The interceptors of `api` appear
as `Request` (the token that is stored when the call is sent) and `Eject` (a 401
clears token and user, not the permissions, and loads the tab anew).
`LogoutEnds` is the `finally` of the logout, `ProfileSucceeds` the `onSuccess` of
the profile form. Its token (`HeldToken`) is that of the page's last render:
while the page is mounted every render hands the options of `useMutation` on to
the call, and the page renders whenever the store of its tab changes, so that it
is the tab's token of now; once the page is left (`LeaveProfile`, `GoToLogin`, a
login, a logout) it stays what it was (`Unmount`). A form that is mounted anew
waits for none of the calls before (`Busy`). History: `spared` (tokens whose
logout was forgotten by a reload, or stored again by a late answer), `mixed` (a
profile was sent with the token of another tab's session, or the tab got another
session while its profile form waited), `misled` (permissions that failed to come
or came for another session).

### Memberships

State: users, their primary area, the memberships with their ids; the page, the
selected area, the new member, the user of the form; the queries of the members
of each area, of each user and of the list of users; the calls. `Assign` is the
`find_or_initialize_by` that the tab and the form share. The endpoints of the form
commit twice: `UpdateUser` and `CreateUser` store the user (`StoreUser`) and leave
the call in the stage `stored`, `AssignAreaMembership` stores the membership and
answers. In between anything may happen, and `Lose` may cut the call short.
`UpdateMember` and `RemoveMember` find the membership by its id; `View` is the
user as the API shows it. A call whose page is gone is answered by the callback
of its last render (`Detach`). Restoring a user, passwords and the other columns
are left out. `blind` collects the keys whose data may be outdated, each for one of the
reasons `ListsAreTrue` names.

### DocumentLists

State: the status of each document; the list that is open, what its search box
shows, what the timer of the search will apply; the query of the list (list,
page, search, status) and the one whose data stands in until the first answer
(`placeholderData`); one query per key; the calls.

| Action | Code |
|---|---|
| `handleSearchChange`, `ApplySearch` | the box, and the `setTimeout` 350 ms later |
| `handleStatusChange`, `SetPage` | the filter of either page; `Pagination` |
| `clearFilters`, `removeSearchPill` | "Limpiar" and the crosses of `TramitesPage`, which leave the timer running |
| `GoTo`, `Focus` | the other list; the window gets the focus |
| `ActionMenu`, `update_status` | the menu of a row of `MisTramitesPage`; the endpoint |
| `AnswerList`, `ListArrives`, `ListFails` | `mine` and `index`, with Pagy raising for a page past the last; the answers |
| `StatusSucceeds`, `StatusFails` | `onSuccess`, which invalidates both lists, and `onError` |

A search stands for the set of the documents that contain it, so that what is
searched for is no string. The filter by priority works as that by status does
and is left out; the documents are all the user's, and none is registered
meanwhile. `update_status` is one step: how its statements interleave is in
`DocumentRequests`. `STATUS_TRANSITIONS` is the page's own table. It offers
`derivado` without the area that the server requires and `respondido` of a
document `derivado`, which the rules do not have; the server refuses both
(`Accepts`) and the lists stay as they are. History: `cleared` (the search was
cleared while its timer ran), `astray` (the page was chosen among those of the
list before), `changed`, `unseen` (a change of which no answer told this
client), `blind` (the first fetch of the query was under way at an
invalidation).

## 3. Runs

| Run | Instance | Shows |
|---|---|---|
| `concurrent` | 2 threads, 2 areas, 2 series, 3 requests, 1 cut short, fair | Whatever interleaves: numbers stay consecutive; flows agree with versions; changes are recorded but for one entry per cut request, and get recorded in the end; nothing recorded is rewritten |
| `serial` | 1 thread, 4 requests, 1 cut short | The commits of one handler amount to one atomic step of `DocumentLedger`, in which the status follows the rules |
| `certificates_serial` | 1 thread, 3 certificates, 6 requests | Through the page, a user with certificates has one default, with its file, and it is the one that was chosen |
| `certificates_choices` | 2 threads, 3 certificates, 4 requests, 1 cut short, fair | When nobody uploads the row locks keep a second default out; requests that wait for each other end |
| `mesa_offices` | 2 citizens, 2 officers, 2 areas, 4 requests, 1 cut short | Whatever officers, citizens and the destroy of a rejected submission interleave: status and area can be read from the history, a submission routed has an area, none is left without history, a destroyed one leaves none |
| `access_page` | 2 roles, 1 system role, 1 page, 1 user, 3 calls, 1 lost | The matrix of a tab with nothing under way shows what is stored; a user loses the role only in a race; a new role sees nothing until it is granted, but for two gaps |
| `public_portal` | 1 valid sender, 3 calls, 1 lost | No submission is silent or has a refused sender, a number that was shown is registered, the results answer the last search |
| `derived_tray` | 2 submissions, 2 areas, 2 moves, 1 other event | A submission goes where it was meant to go; a settled list offers nothing that was moved out |
| `repository` | 2 archivos, 1 bundle, 2 calls, 2 other events | Linked archivos keep their file, signatures are recorded, a bundle holds what was reported as added, but for the races named |
| `client_session` | 2 tabs, 2 users, 3 tokens, 4 acts, 1 lost | Token, user and menu belong together, whichever form or session an answer comes from; a revoked token goes away |
| `memberships` | 2 users, 2 areas, 2 positions, 2 events, at most 1 of others | Which lists can be out of date, and what an untouched form saves |
| `document_lists` | 2 documents, 1 in a page, 1 search, 1 filter, 3 edits, 1 change of status, 1 other event | A search is applied as the box shows it, the page that is asked for exists, and settled lists show what is stored, but for the races named |

**Bounds.** `MaxRequests`, `MaxCalls`, `MaxEdits`, `MaxActs`, `MaxAborts`, `MaxLost`,
`MaxOthers` and `MaxEvents` bound a behaviour, not a state: they appear only in
the guard that starts a request, lets somebody else act, or loses a call.
`MaxTokens` bounds how many logins succeed. Each hazard on the server needs two
requests that overlap on one row after at most two that bring it there. Each
hazard of a page needs two calls (one whose answer meets the other's dialog,
search or toggle) and one event from outside; a third call lets a role be
created, granted and created again. Two areas, series, tabs or users are enough
for a stale one to differ from the current one; one page key is enough because
no statement relates two. Three edits fill the search, filter and turn the page in
any order; with one document in a page two documents make a list that a search, a
filter or a change of status cuts to one page. In `mesa_offices` the default area is `Nil`, the
hardest case for `RoutedIsSomewhere`, and the one tracking number makes every two
draws collide.
`memberships` explores one fetch at a time, picks and edits the first user only
(another one may be opened while the call that creates him is there, and is created
in the default position), and keeps data of at most three of the five queries, with
that of a user the members of no area but `Home`; nobody is picked, and no form of a
new user opened, when no call is left to send it with (four state constraints in
`MCMemberships`): queries of different keys share no state, a second user only adds
rows, whose position nothing compares, and a write changes at most three keys. In `client_session` four acts
are a login that is left pending, the way back into the application, a profile
that is sent there, and one act more. Threads, submissions, archivos, tabs and users
are interchangeable where the configuration names a symmetry; the runs with a
liveness property use none.

**Deadlock** is checked in the server modules, whose behaviours end in `Rest`.
It is not in the modules of the client (`CHECK_DEADLOCK FALSE`): a user may
stop, and the bounds end the behaviour.

**Fairness.** `WF_vars(Step(w))` in `concurrent` and `certificates_choices`: a
thread that took up a request runs its handler on. Ruby code does not wait for
anything but the database; document handlers hold no lock across statements, and
a statement that waits for a row lock is not enabled in `DigitalCertificates`
until the lock is free or the deadlock is broken. Nothing obliges a request to
arrive or to be cut short; an aborted request owes nothing, so
`ChangesGetRecorded` counts one entry less for each. The modules of the client
state no fairness: nothing obliges a user to act or an answer to come, and what
is checked there is safety.

**Disagreements.** The documentation promises more than the code holds in a few
places. They are part of the models, as what a property has to allow:

* two overlapping requests that loaded the same status take a document out of a
  terminal one (`docs/flujo-documentario.md:156`, `transition_rules.rb:6`):
  `CommitTransition` checks the status that was loaded, and `FlowsAreAttested`
  speaks of that one; with one thread `ImplementsLedger` includes the rules;
* a request cut short costs a flow entry (`MaxAborts`; `:219` of the same
  document promises one entry per change), and the second of two registrations
  that took the same number raises (`RaiseNotUnique`);
* two first uploads at once both become the default, and so
  `certificates_choices` starts with all its certificates; `set_default` on the
  default leaves none (`ChoosesDefault`);
* a page that is out of date takes a finished submission back
  (`MesaVirtual!Confirm`, `DerivedTray!OpenReDeriv`);
* the menu of a list offers changes the server always refuses
  (`DocumentLists!STATUS_TRANSITIONS`);
* what the history variables of the client modules stand for.

## 4. Proofs

Proved by TLAPS for every value of the constants that meets the named
assumptions (bounds are naturals, `Nil` and `None` are none of the values they
are put beside, sets are disjoint where the code keeps them apart; that a file, a
state, a matrix or a set does not look like `Nil` either is `MarksAssumption` and
`MatrixAssumption`). The assumptions stand in the module that declares the
constants, and TLC evaluates them in each run. A theorem that needs more says so
in its `ASSUME`.

About `DocumentRequests`, for every set of threads, areas and series:

* `TypeCorrect`: `Spec => []TypeOK`.
* `NumbersConsecutive`: `Spec => []NumbersAreConsecutive`. The property alone is
  not inductive: a thread may insert a number it computed long ago. `NumbersInv`
  adds that a computed number is at most the present count plus one (counts only
  grow). The unique index refuses those that are at most the count, for these
  are taken, so what is inserted is exactly the count plus one.
* `FlowsAttested`: `Spec => []FlowsAreAttested`. The invariant includes the entry
  a thread still holds, which makes it inductive: the commit that changes a
  status appends the version the entry quotes, and versions only grow.
* `PastImmutable`: `Spec => PastIsImmutable`, step by step from `TypeOK`.
* `ChangesRecorded`: `Spec => []ChangesAreRecorded`, by counting: the commit of a
  status adds one version and one thread that has an entry to write, the entry
  ends the one and adds the other, and only a cut between them (`aborted`) loses
  an entry.
* `OneThreadImplements`: with one thread, whatever it is called,
  `Spec => ImplementsLedger`. `CurrentInv` says that what the thread read is still
  so, hence each commit is the step of the register it stands for. With several
  threads it is not (section 3), and nothing is claimed.

About `MesaVirtual`, for every set of citizens, officers, areas and numbers:

* `MesaTypeCorrect`: `Spec => []TypeOK`.
* `NumbersIdentify`: `Spec => []TrackingIdentifies`: only an insertion can bring
  two equal numbers together, and the unique index refuses it.
* `RoutedHasArea`: `Spec => []RoutedIsSomewhere`. `RoutedInv` adds what an
  officer's thread carries: `derivado` comes with an area, and the area of the
  row it loaded, which it will leave alone when it routes to the same one, is
  still not `Nil`.
* `GoneLeavesNothing`: `Spec => []GoneHasNoHistory`. `GoneInv` adds that the row
  a citizen's thread works on is present and that no two of them work on the
  same one; so the entry of a registration never meets a destroyed row, and an
  officer's entry needs the foreign key.
* `AllAreTracked`: `Spec => []SubmissionsAreTracked`. `TrackedInv` adds to
  `GoneInv` that the history a destroy has loaded is not longer than the one that
  is there (`SeenInv`). The untracked submissions are counted: a step adds one
  only when it cuts a request short.
* `StatesAreExplained`: `Spec => []StateIsExplained`. `ExplainedInv` adds that only
  `derivado` comes with an area (`ToldInv`). A submission is explained by an entry
  it has or one an officer's thread holds, and the entry moves from the one to the
  other without a gap.

About `AccessPage`, for every set of roles, pages and users:

* `AccessTypeCorrect`: `Spec => []TypeOK`; the ids of the calls are unique.
* `OrphansNeedRaces`: `Spec => []OrphansComeFromRaces`. `RaceInv` adds what the
  calls past their checks know: a role that is being assigned is there or was in
  a race, and a role that is being removed has no user or was in one.
* `NewRolesAreHidden`: `Spec => []HiddenUntilGranted`. `GapsInv` adds that the
  gaps of a role belong to a creation that is still to write them, or to a role
  already exposed, so that filling gaps can show nothing else.
* `MatrixStaysTrue`: `Spec => []MatrixIsTrue`. `MatrixInv` says it of every answer
  and of stale data: when no toggle of a cell is under way, what is fresh or on its
  way tells the cell's row; toggles are made on the tab that shows the matrix, and
  one whose tab is gone has left its cell `unseen`.

About `PublicPortal`, for every set of senders, from one invariant `PortalInv`:

* `PortalTypeCorrect`: `Spec => []TypeOK`. That the number of rows stays within
  the number of calls needs a count of the rows and of the calls that still have
  one to store.
* `SendersAreValidated`: `Spec => []SenderWasValidated`: past step 0 the sender is
  valid, and so is the one every call captured.
* `ToldAreRegistered`: `Spec => []ToldIsRegistered`, and `NothingIsSilent`:
  `Spec => []NoSilentSubmission`: the invariant holds what a call knows of its row
  at each stage: that a created one is registered, and that a refused one with a
  row is already `missed`.
* `ResultsFitTheSearch`: `Spec => []ResultsAnswerTheSearch`. `ResultsInv` adds that
  every search the page waits for is the one it sent last, unless they overlapped.

About `DerivedTray` (in `DocumentRequestsProofs`), for every set of submissions and
areas and an officer of any of them:

* `TrayTypeCorrect`: `TraySpec => []TrayTypeOK`. It needs the next one: a call that
  routes to no area would leave a submission in none.
* `AreaChosen`: `TraySpec => []AreaWasChosenForIt`. The invariant adds that an area in
  an open dialog was chosen in that dialog for its submission.
* `HandledStayOut`: `TraySpec => []HandledIsNotOffered`. `HandledInv` adds that the
  table no longer offers what was handled (others only move a submission on), and
  that neither an answer under way nor fresh data of any filter has it.

About `ClientSession`, for every set of users and tabs:

* `SessionTypeCorrect`: `Spec => []TypeOK`.
* `UsersOwnTheirTokens`: `Spec => []UserOwnsToken`. `SessionInv` extends the
  agreement of user and token to the answers under way: that of a login names the
  owner of its token, and so does that of a profile, whose token is the one its
  form would set (`FormGood`: the tab's while the form is mounted, the one it was
  left with after that), unless `mixed`. A step that gives the tab another token
  either leaves the form or makes `mixed` true.
* `RevokedTokensLeave`: `Spec => []RevokedTokensGoAway`. `RevokedInv` adds that the
  token of a logout whose tab is gone is `spared`.
* `MenusAreOfTheUser`: `Spec => []MenuIsOfTheUser`, inductive together with
  `SessionInv`.

About `Memberships`, for every set of users, areas and positions:

* `MembershipsTypeCorrect`: `Spec => []TypeOK`. That the ids do not run out
  (`IdsOK`) needs a count: each call the server has not served, and each event that
  has not come, still has one to take.
* `UntouchedSavesKeep`: `Spec => []UntouchedSavesKeepThePosition`. `SaveInv` keeps,
  for every save on its way, before its first commit and between the two, that an
  untouched form sends what it was filled with.
* `MembersListsAreTrue`: `Spec => []ListsAreTrue`. `ListsInv` says it of every key
  that is not `blind`, and of answers on their way as well as of fresh data: it is
  what the tables say, or a call that changed it, from its first commit on, is not
  answered. It rests on
  `OwnInv`, that an id a list shows, or a call sends, is of that user's position or
  of none that is left (so that a change of a member is of the user it names), and
  on `NewInv`, that nothing was asked about a user who is not created yet.

About `DocumentLists`, for every number of documents, page size, set of searches
and of filters:

* `ListsTypeCorrect`: `Spec => []TypeOK`; every answer is a page of documents.
* `SearchesAreApplied`: `Spec => []TypedIsApplied`. The invariant adds that a
  timer that is running holds what the box shows, unless `cleared`.
* `AskedPagesExist`: `Spec => []PagesExist`. `PagesOK` adds that, until a status
  changes, the data and the answers of each query tell the number of pages its
  list has, so that a page chosen from its own data exists.
* `ListsAreTrue`: `Spec => []ListIsTrue`. `TruthInv` says of every key what the
  property says of the open one: after a change this client was told of, what is
  answered or fresh is the page the server has.

About `Repository`, for every set of archivos and groups:

* `RepositoryTypeCorrect`: `Spec => []TypeOK`. The invariant adds what each call is
  about, and that the ids of the calls are unique.
* `GroupsKeepWhatWasAdded`: `Spec => []GroupsHoldWhatWasAdded`. `GroupInv` adds
  what a batch under way has served: each of it is in the group or was taken out,
  and a batch that is reported has none left.
* `LinkedKeepFiles`: `Spec => []LinkedKeepTheirFile`. `LinkInv` adds that no
  deletion is past its check for an archivo that is linked, unless `risked`, and
  that what a registration has served is linked, or was gone before.
* `SignaturesRecorded`: `Spec => []SignaturesAreRecorded`. `UploadInv`: until it is
  uploaded an archivo is in no table and no other call is about it. `SignInv`: one
  call at a time is past its check; it signs a draft without a signature, and then
  its signature is the file's.

About `DigitalCertificates` (in `RepositoryProofs`):

* `OneDefaultChosen`: with no uploads (`InitialCertificates = MaxCertificates`), for
  any number of threads, requests and aborts,
  `CertificatesSpec => []OneDefaultAtMost`. `ChoiceInv` adds that a thread that has
  cleared the others has locked every kept row but its own, so that its commit
  leaves one. Two first uploads at once break it (section 3), hence the assumption.
* `OneDefaultAlone`: the same with uploads, for one thread, whatever it is asked for
  and wherever it is cut short. `LoneInv` adds that the rows a thread has locked to
  clear them are all the kept ones but its own, an uploaded one having none yet.
* `OneDefaultSerial` and `ChoiceSerial`: for one thread, not cut short and driven by
  the page (`ChoosesDefault = FALSE`), `CertificatesSpec => []OneDefault` and
  `CertificatesSpec => ChoiceIsDefault`. `SerialInv` says what each stage of a
  request knows: what it loaded is still so, and there is no default exactly while
  it is being replaced.

The type invariants of the modules of the client are checked by these proofs
alone, but for `Repository` and `Memberships`, where runs check them too.

Only model-checked: liveness, that is `RequestsFinish` and `ChangesGetRecorded`
(the prover has no rules for fairness). The refinement of
`DocumentLedger` is proved for one thread, the case in which it holds.

## 5. Not modelled

* Cryptography, PDF layout, the FIRMA PERÚ call, `sign_document`: pure or
  external, and nothing reads a row they write.
* JSON views, serializers, formatting, rendering.
* Devise, devise-jwt and rack-attack beyond what a client meets of them;
  registration and passwords.
* Policies: predicates without state. The models act as a user who passed them.
* The tree of areas with its form, and the document types: no handler that is
  modelled reads them, but for the default area (`MesaVirtual`), the prefix of a
  number (a series) and the members (`Memberships`). The tree has hazards of its
  own that stay unwatched: names are unique below a parent by validation only,
  and nothing keeps an area from being put below one of its own.
* The checksum, `received_at` and the direct attachments of a document: written,
  never read by a handler.
* The order within a bundle, names and labels, restoring a user.
* Pages that render one query or send one form: the detail of a document, the
  form of an area, the dashboard, the explanatory pages.
