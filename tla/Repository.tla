------------------------------ MODULE Repository ------------------------------
(***************************************************************************)
(* The file repository as an officer works with it (ArchivosPage with its  *)
(* SignModal and BundlePanel, NuevoArchivoPage, NewDocumentPage) over the  *)
(* endpoints of archivos, document_bundles and documents#create.           *)
(*                                                                         *)
(* An answer reaches a page, a modal or a panel that may have been closed  *)
(* or opened anew since: signing closes the modal that is open then, and   *)
(* an upload or a registration takes the officer away from wherever he is. *)
(* The server signs, deletes and links in several commits, and the rows on *)
(* the screen may be out of date.                                          *)
(***************************************************************************)
EXTENDS Naturals, FiniteSets

CONSTANTS
  Archivos,
  Groups,     \* the document bundles
  Nil, NotYet,
  MaxCalls,   \* bound: how many calls the officer makes
  MaxOthers   \* bound: how often a group changes otherwise, a call fails or its
              \* answer is lost

ASSUME NilAssumption    == {Nil, NotYet} \cap (Archivos \cup Groups) = {} /\ Nil # NotYet
ASSUME BoundsAssumption == MaxCalls \in Nat /\ MaxOthers \in Nat

VARIABLES
  archivos,  \* table archivos
  file,      \* the attached file: its signatures, and the call that attached it
  estado,    \* borrador or firmado, Nil before the upload
  position,  \* the call whose signature position is recorded, 0 for none
  linked,    \* document_archivos: the archivos linked to a document
  members,   \* bundle_archivos: the archivos of a group, NotYet before it is created,
             \* Nil when it is gone
  page,      \* the page that is mounted
  selected,  \* ArchivosPage: selectedIds
  signing,   \* signArchivo: the archivo of the open modal
  chosen,    \* NewDocumentPage: selectedArchivos
  calls, made, others,
  promised,  \* history: chosen for a document that was reported as registered
  dropped,   \* history: left out of a document, being gone
  risked,    \* history: linked while a deletion was past its check, or purged
  twice,     \* history: signed by calls that were past their checks at once
  cutShort,  \* history: signed and not marked as such
  told, takenOut  \* history: <<group, archivo>> reported as added, and removed

table    == <<archivos, file, estado, position, linked, members>>
screen   == <<page, selected, signing, chosen>>
history  == <<promised, dropped, risked, twice, cutShort, told, takenOut>>
vars == <<table, screen, calls, made, others, history>>
-----------------------------------------------------------------------------
Pages == {"documentos", "subir", "registrar", "otra"}

File == [signs : Nat, by : 0 .. MaxCalls]

\* A file, a state and the archivos of a group do not look like there is none.
ASSUME MarksAssumption ==
  /\ Nil \notin File /\ Nil \notin {"borrador", "firmado"}
  /\ \A S \in SUBSET Archivos : S \notin {Nil, NotYet}

\* The groups there are.
Live == {g \in Groups : members[g] \notin {Nil, NotYet}}

Draft == [signs |-> 0, by |-> 0]

\* own: what made the call (page, modal or panel) is still the one on the screen.
Call == [id : 1 .. MaxCalls, own : BOOLEAN,
         op : {"subir", "firmar", "eliminar", "agregar", "registrar"},
         of : Archivos \cup {Nil}, group : Groups \cup {Nil}, ids : SUBSET Archivos,
         left : SUBSET Archivos, base : Nat,
         stage : {"sent", "checked", "written", "ok", "failed"}]

Init ==
  /\ archivos \in SUBSET Archivos
  /\ file = [a \in Archivos |-> IF a \in archivos THEN Draft ELSE Nil]
  /\ estado = [a \in Archivos |-> IF a \in archivos THEN "borrador" ELSE Nil]
  /\ position = [a \in Archivos |-> 0]
  /\ linked = {}
  /\ members \in [Groups -> {NotYet, {}}]
  /\ page = "documentos"
  /\ selected = {} /\ signing = Nil /\ chosen = {}
  /\ calls = {} /\ made = 0 /\ others = 0
  /\ promised = {} /\ dropped = {} /\ risked = {} /\ twice = {} /\ cutShort = {}
  /\ told = {} /\ takenOut = {}
-----------------------------------------------------------------------------
\* The officer.

\* A page that is left forgets what it kept, and its calls have no owner.
Leave(p) ==
  /\ page' = p
  /\ selected' = IF p = page THEN selected ELSE {}
  /\ signing' = IF p = page THEN signing ELSE Nil
  /\ chosen' = IF p = page THEN chosen ELSE {}

Orphans(C) == {[c EXCEPT !.own = FALSE] : c \in C}

Go(p) ==
  /\ p # page
  /\ Leave(p)
  /\ calls' = Orphans(calls)
  /\ UNCHANGED <<table, made, others, history>>

\* A row on the screen: the list may be of any page, search or filter, and older
\* than a deletion or a signature.
Listed(a) == page = "documentos" /\ signing = Nil /\ estado[a] # Nil

ToggleSelect(a) ==
  /\ Listed(a)
  /\ selected' = IF a \in selected THEN selected \ {a} ELSE selected \cup {a}
  /\ UNCHANGED <<table, page, signing, chosen, calls, made, others, history>>

\* The button of a row that was a draft when it was listed.
OpenSign(a) ==
  /\ Listed(a)
  /\ signing' = a
  /\ UNCHANGED <<table, page, selected, chosen, calls, made, others, history>>

\* The cross or a click beside the modal, also while the call is under way.
CloseSign ==
  /\ signing # Nil
  /\ signing' = Nil
  /\ calls' = {c \in calls : c.op # "firmar"} \cup Orphans({c \in calls : c.op = "firmar"})
  /\ UNCHANGED <<table, page, selected, chosen, made, others, history>>

Choose(a) ==
  /\ page = "registrar"
  /\ a \in archivos \cup chosen
  /\ chosen' = IF a \in chosen THEN chosen \ {a} ELSE chosen \cup {a}
  /\ UNCHANGED <<table, page, selected, signing, calls, made, others, history>>

\* isPending, or isSubmitting, of what is on the screen.
Pending(op) == \E c \in calls : c.op = op /\ c.own

Send(op, a, g, ids) ==
  /\ made < MaxCalls
  /\ made' = made + 1
  /\ calls' = calls \cup {[id |-> made + 1, own |-> TRUE, op |-> op, of |-> a,
       group |-> g, ids |-> ids, left |-> ids, base |-> 0, stage |-> "sent"]}
  /\ UNCHANGED <<table, screen, others, history>>

\* NuevoArchivoPage sends a name, a type and exactly one file.
Upload(a) ==
  /\ page = "subir" /\ ~Pending("subir")
  /\ estado[a] = Nil /\ \A c \in calls : c.of # a
  /\ Send("subir", a, Nil, {})

Sign == signing # Nil /\ ~Pending("firmar") /\ Send("firmar", signing, Nil, {})

\* The row listed no tramites.
Delete(a) ==
  /\ Listed(a) /\ ~Pending("eliminar")
  /\ Send("eliminar", a, Nil, {})

\* handleAddSelected: of what is selected, the rows that are on the screen.  Only
\* the group clicked last is disabled, until the panel is opened again.
AddSelected(g, S) ==
  /\ members[g] # NotYet
  /\ S # {} /\ \A a \in S : Listed(a)
  /\ Send("agregar", Nil, g, S)

Register == page = "registrar" /\ ~Pending("registrar") /\ Send("registrar", Nil, Nil, chosen)
-----------------------------------------------------------------------------
\* The server.

Move(c, d) == calls' = (calls \ {c}) \cup {d}

To(c, stage) == Move(c, [c EXCEPT !.stage = stage])

Create(c) ==
  /\ c.op = "subir" /\ c.stage = "sent"
  /\ archivos' = archivos \cup {c.of}
  /\ file' = [file EXCEPT ![c.of] = Draft]
  /\ estado' = [estado EXCEPT ![c.of] = "borrador"]
  /\ To(c, "ok")
  /\ UNCHANGED <<position, linked, members, history>>

\* Calls of the same kind and archivo past their checks.
Underway(op, a) ==
  {c \in calls : c.op = op /\ c.of = a /\ c.stage \in {"checked", "written"}}

\* Mutant of CheckSign: what is signed is signed again.
CheckFile(c) ==
  /\ c.op = "firmar" /\ c.stage = "sent"
  /\ IF c.of \in archivos /\ file[c.of] # Nil
     THEN Move(c, [c EXCEPT !.stage = "checked", !.base = file[c.of].signs])
     ELSE To(c, "failed")
  /\ twice' = IF Underway("firmar", c.of) # {} THEN twice \cup {c.of} ELSE twice
  /\ UNCHANGED <<table, promised, dropped, risked, cutShort, told, takenOut>>

\* sign checks the row it loaded, downloads the file and signs it.
CheckSign(c) ==
  /\ c.op = "firmar" /\ c.stage = "sent"
  /\ IF c.of \in archivos /\ estado[c.of] = "borrador" /\ file[c.of] # Nil
     THEN Move(c, [c EXCEPT !.stage = "checked", !.base = file[c.of].signs])
     ELSE To(c, "failed")
  /\ twice' = IF Underway("firmar", c.of) # {} THEN twice \cup {c.of} ELSE twice
  /\ UNCHANGED <<table, promised, dropped, risked, cutShort, told, takenOut>>

\* The signed file takes the place of the file, whatever that is by now.
AttachSigned(c) ==
  /\ c.op = "firmar" /\ c.stage = "checked"
  /\ file' = IF c.of \in archivos
             THEN [file EXCEPT ![c.of] = [signs |-> c.base + 1, by |-> c.id]] ELSE file
  /\ To(c, "written")
  /\ UNCHANGED <<archivos, estado, position, linked, members, history>>

MarkSigned(c) ==
  /\ c.op = "firmar" /\ c.stage = "written"
  /\ IF c.of \in archivos
     THEN /\ estado' = [estado EXCEPT ![c.of] = "firmado"]
          /\ position' = [position EXCEPT ![c.of] = c.id]
     ELSE UNCHANGED <<estado, position>>
  /\ To(c, "ok")
  /\ UNCHANGED <<archivos, file, linked, members, history>>

\* Mutant of CheckUnlinked: the count is left to the page.
CheckExists(c) ==
  /\ c.op = "eliminar" /\ c.stage = "sent"
  /\ To(c, IF c.of \in archivos THEN "checked" ELSE "failed")
  /\ UNCHANGED <<table, history>>

\* tramites_count.
CheckUnlinked(c) ==
  /\ c.op = "eliminar" /\ c.stage = "sent"
  /\ To(c, IF c.of \in archivos \ linked THEN "checked" ELSE "failed")
  /\ UNCHANGED <<table, history>>

Purge(c) ==
  /\ c.op = "eliminar" /\ c.stage = "checked"
  /\ file' = [file EXCEPT ![c.of] = Nil]
  /\ To(c, "written")
  /\ UNCHANGED <<archivos, estado, position, linked, members, history>>

\* Mutant of Destroy: no dependent: :destroy on the links.
DestroyAlone(c) ==
  /\ c.op = "eliminar" /\ c.stage = "written"
  /\ archivos' = archivos \ {c.of}
  /\ file' = [file EXCEPT ![c.of] = Nil]
  /\ To(c, "ok")
  /\ UNCHANGED <<estado, position, linked, members, history>>

\* destroy! takes the links and the places in groups along.
Destroy(c) ==
  /\ c.op = "eliminar" /\ c.stage = "written"
  /\ archivos' = archivos \ {c.of}
  /\ linked' = linked \ {c.of}
  /\ members' = [g \in Groups |-> IF g \in Live THEN members[g] \ {c.of} ELSE members[g]]
  /\ takenOut' = takenOut \cup
       {<<g, c.of>> : g \in {h \in Live : c.of \in members[h]}}
  /\ file' = [file EXCEPT ![c.of] = Nil]
  /\ To(c, "ok")
  /\ UNCHANGED <<estado, position, promised, dropped, risked, twice, cutShort, told>>

\* Mutant of AddArchivo: the last answer decides.
AddLast(c, a) ==
  /\ c.op = "agregar" /\ a \in c.left
  /\ LET found == a \in archivos /\ c.group \in Live
     IN  /\ members' = IF found THEN [members EXCEPT ![c.group] = @ \cup {a}] ELSE members
         /\ takenOut' = IF found THEN takenOut \ {<<c.group, a>>} ELSE takenOut
         /\ Move(c, [c EXCEPT !.left = @ \ {a},
              !.stage = IF c.left # {a} THEN @ ELSE IF found THEN "ok" ELSE "failed"])
  /\ UNCHANGED <<archivos, file, estado, position, linked,
                 promised, dropped, risked, twice, cutShort, told>>

\* add_archivo, once for each archivo; Promise.all gives up at the first failure,
\* while the others are still served.
AddArchivo(c, a) ==
  /\ c.op = "agregar" /\ a \in c.left
  /\ IF a \in archivos /\ c.group \in Live
     THEN /\ members' = [members EXCEPT ![c.group] = @ \cup {a}]
          /\ takenOut' = takenOut \ {<<c.group, a>>}
          /\ Move(c, [c EXCEPT !.left = @ \ {a},
               !.stage = IF @ = "sent" /\ c.left = {a} THEN "ok" ELSE @])
     ELSE /\ Move(c, [c EXCEPT !.left = @ \ {a}, !.stage = "failed"])
          /\ UNCHANGED <<members, takenOut>>
  /\ UNCHANGED <<archivos, file, estado, position, linked,
                 promised, dropped, risked, twice, cutShort, told>>

\* The document is stored; link_archivos loads the archivos that exist.
StoreDocument(c) ==
  /\ c.op = "registrar" /\ c.stage = "sent"
  /\ Move(c, [c EXCEPT !.left = c.ids \cap archivos,
       !.stage = IF c.ids \cap archivos = {} THEN "ok" ELSE "checked"])
  /\ dropped' = dropped \cup (c.ids \ archivos)
  /\ UNCHANGED <<table, promised, risked, twice, cutShort, told, takenOut>>

\* find_or_create_by! raises when the archivo is gone meanwhile.
LinkArchivo(c, a) ==
  /\ c.op = "registrar" /\ c.stage = "checked" /\ a \in c.left
  /\ IF a \in archivos
     THEN /\ linked' = linked \cup {a}
          /\ risked' = IF Underway("eliminar", a) # {} \/ file[a] = Nil
                       THEN risked \cup {a} ELSE risked
          /\ Move(c, [c EXCEPT !.left = @ \ {a},
               !.stage = IF c.left = {a} THEN "ok" ELSE @])
     ELSE To(c, "failed") /\ UNCHANGED <<linked, risked>>
  /\ UNCHANGED <<archivos, file, estado, position, members,
                 promised, dropped, twice, cutShort, told, takenOut>>

Happen == others < MaxOthers /\ others' = others + 1

\* remove_archivo and destroy of a group, by this page or another.
ShrinkGroup(g, S) ==
  /\ Happen
  /\ g \in Live
  /\ S # Nil => S \subseteq members[g]
  /\ takenOut' = takenOut \cup ({g} \X (IF S = Nil THEN members[g] ELSE members[g] \ S))
  /\ members' = [members EXCEPT ![g] = S]
  /\ UNCHANGED <<archivos, file, estado, position, linked, screen, calls, made,
                 promised, dropped, risked, twice, cutShort, told>>

\* create of a group, by this page or another; its name, which update changes, is
\* left out.
CreateGroup(g) ==
  /\ Happen
  /\ members[g] = NotYet
  /\ members' = [members EXCEPT ![g] = {}]
  /\ UNCHANGED <<archivos, file, estado, position, linked, screen, calls, made, history>>

\* The call fails, or its answer is lost.
Lose(c) ==
  /\ c.stage # "failed"
  /\ Happen
  /\ To(c, "failed")
  /\ cutShort' = IF c.op = "firmar" /\ c.stage = "written"
                 THEN cutShort \cup {c.of} ELSE cutShort
  /\ UNCHANGED <<table, screen, made, promised, dropped, risked, twice, told, takenOut>>
-----------------------------------------------------------------------------
\* The answers.

Uploaded(c) == c.op = "subir" /\ Leave("documentos") /\ UNCHANGED <<promised, told>>

\* onClose closes the modal that is open.
Signed(c) ==
  /\ c.op = "firmar"
  /\ signing' = Nil
  /\ UNCHANGED <<page, selected, chosen, promised, told>>

Deleted(c) ==
  c.op = "eliminar" /\ UNCHANGED <<page, selected, signing, chosen, promised, told>>

\* onClearSelection: also what is selected on other pages.
Added(c) ==
  /\ c.op = "agregar"
  /\ told' = told \cup ({c.group} \X c.ids)
  /\ selected' = IF c.own THEN {} ELSE selected
  /\ UNCHANGED <<page, signing, chosen, promised>>

Registered(c) ==
  /\ c.op = "registrar"
  /\ promised' = promised \cup c.ids
  /\ Leave("otra")
  /\ UNCHANGED told

\* An answer that takes the officer to another page leaves other calls ownerless.
Succeed(c) ==
  /\ c.stage = "ok"
  /\ Uploaded(c) \/ Signed(c) \/ Deleted(c) \/ Added(c) \/ Registered(c)
  /\ calls' = IF page' = page THEN calls \ {c} ELSE Orphans(calls \ {c})
  /\ UNCHANGED <<table, made, others, dropped, risked, twice, cutShort, takenOut>>

\* A message; a batch stays until the server has served the rest of it.
Fail(c) ==
  /\ c.stage = "failed"
  /\ c.op = "agregar" => c.left = {}
  /\ calls' = calls \ {c}
  /\ UNCHANGED <<table, screen, made, others, history>>

Officer ==
  \/ \E p \in Pages : Go(p)
  \/ \E a \in Archivos :
       ToggleSelect(a) \/ OpenSign(a) \/ Choose(a) \/ Upload(a) \/ Delete(a)
  \/ CloseSign \/ Sign \/ Register
  \/ \E g \in Groups, S \in SUBSET selected : AddSelected(g, S)

ServeCall(c) ==
  /\ \/ Create(c) \/ CheckSign(c) \/ AttachSigned(c) \/ MarkSigned(c)
     \/ CheckUnlinked(c) \/ Purge(c) \/ Destroy(c) \/ StoreDocument(c)
     \/ \E a \in c.left : AddArchivo(c, a) \/ LinkArchivo(c, a)
  /\ UNCHANGED <<screen, made, others>>

Next ==
  \/ Officer
  \/ \E c \in calls : ServeCall(c) \/ Lose(c) \/ Succeed(c) \/ Fail(c)
  \/ \E g \in Groups : CreateGroup(g) \/ \E S \in {Nil} \cup SUBSET Archivos : ShrinkGroup(g, S)

Spec == Init /\ [][Next]_vars
-----------------------------------------------------------------------------
\* Tables, page, calls and histories are typed.
TypeOK ==
  /\ archivos \subseteq Archivos
  /\ file \in [Archivos -> File \cup {Nil}]
  /\ estado \in [Archivos -> {"borrador", "firmado", Nil}]
  /\ position \in [Archivos -> 0 .. MaxCalls]
  /\ linked \subseteq archivos
  /\ members \in [Groups -> (SUBSET Archivos) \cup {Nil, NotYet}]
  /\ page \in Pages /\ signing \in Archivos \cup {Nil}
  /\ selected \subseteq Archivos /\ chosen \subseteq Archivos
  /\ calls \subseteq Call
  /\ made \in 0 .. MaxCalls /\ others \in 0 .. MaxOthers
  /\ promised \cup dropped \cup risked \cup twice \cup cutShort \subseteq Archivos
  /\ told \cup takenOut \subseteq Groups \X Archivos

\* "No se puede eliminar: el archivo está vinculado": what is linked to a
\* document, and what was chosen for a document that was reported as registered,
\* stays linked and keeps its file, but for archivos linked while a deletion of
\* them was past its check (or cut short after it), and for those that were
\* deleted between the choice and the registration: it leaves them out.
LinkedKeepTheirFile ==
  (linked \cup (promised \ dropped)) \ risked \subseteq {a \in linked : file[a] # Nil}

\* "El archivo ya está firmado": an archivo is signed once, and is marked with
\* the position of the signature its file carries, unless two calls signed it at
\* once, the call that marks it is still to come, or it was cut short before.
SignaturesAreRecorded ==
  \A a \in archivos \ (twice \cup cutShort) :
    /\ file[a] # Nil
    /\ \A c \in Underway("firmar", a) : c.stage # "written"
    => /\ file[a].signs \in 0 .. 1
       /\ estado[a] = "firmado" <=> file[a].signs = 1
       /\ position[a] = file[a].by

\* "n documento(s) agregados al grupo": each of them is in the group, or was
\* taken out of it after it had been added, whatever failed meanwhile.
GroupsHoldWhatWasAdded ==
  \A p \in told \ takenOut : p[1] \in Live /\ p[2] \in members[p[1]]
=============================================================================
