----------------------------- MODULE ClientSession -----------------------------
(***************************************************************************)
(* The session of the web client: authStore, which each tab of the browser *)
(* keeps for itself and fills from localStorage when it is loaded, the     *)
(* interceptors of api, LoginPage, ProtectedRoute, AppLayout, the logout   *)
(* of Sidebar and the profile form.                                        *)
(*                                                                         *)
(* A request carries the token that is stored when it is sent, by whatever *)
(* tab; its answer is handled by the tab that sent it, whatever session    *)
(* that tab has by then.  A 401 forgets the session and loads the tab      *)
(* anew, which forgets the calls under way but not the stored permissions. *)
(***************************************************************************)
EXTENDS Naturals, FiniteSets

CONSTANTS
  Users, Tabs, Nil,
  MaxTokens,  \* bound: how many sessions begin
  MaxActs,    \* bound: how often the user goes somewhere, logs in or out or saves
  MaxLost     \* bound: how many calls fail, or lose their answer

ASSUME NilAssumption    == Nil \notin Users \cup Tabs \cup (1 .. MaxTokens)
ASSUME BoundsAssumption == MaxTokens \in Nat \ {0} /\ MaxActs \in Nat /\ MaxLost \in Nat

VARIABLES
  owner,     \* the user a token was issued to, Nil before that
  denylist,  \* table jwt_denylists
  storage,   \* localStorage: auth_token, auth_user, and whose auth_permissions
  store,     \* authStore of each tab, the same fields
  page,      \* "login", or "app": a protected page in AppLayout
  calls, acts, lost,
  spared,    \* history: tokens stored again, or kept, though their logout ended
  mixed,     \* history: the token of a profile that waits, or of its form, was another's
  misled     \* history: tabs whose permissions came late, or not at all

server == <<owner, denylist>>
client == <<storage, store, page>>
history == <<spared, mixed, misled>>
vars == <<server, client, calls, acts, lost, history>>
-----------------------------------------------------------------------------
Tokens == 1 .. MaxTokens

Session == [token : Tokens \cup {Nil}, user : Users \cup {Nil}, perms : Users \cup {Nil}]

NoSession == [token |-> Nil, user |-> Nil, perms |-> Nil]

\* token: the one the request carries; tab is Nil when the tab was loaded anew since;
\* mounted: the form that sent it is still on the screen; kept: the token of the last
\* render of a profile form that is not.
Call == [id : 0 .. MaxActs, tab : Tabs \cup {Nil}, op : {"login", "logout", "profile", "mine"},
         token : Tokens \cup {Nil}, kept : Tokens \cup {Nil}, mounted : BOOLEAN,
         user : Users \cup {Nil}, stage : {"sent", "ok", "refused", "failed"}]

\* All tabs show a session that is under way.
Init ==
  /\ \E u \in Users :
       /\ owner = [k \in Tokens |-> IF k = 1 THEN u ELSE Nil]
       /\ storage = [token |-> 1, user |-> u, perms |-> u]
  /\ denylist = {}
  /\ store = [t \in Tabs |-> storage]
  /\ page = [t \in Tabs |-> "app"]
  /\ calls = {} /\ acts = 0 /\ lost = 0
  /\ spared = {} /\ mixed = FALSE /\ misled = {}
-----------------------------------------------------------------------------
Act == acts < MaxActs /\ acts' = acts + 1

\* The request interceptor attaches the stored token.
Request(id, t, op, u, token) ==
  [id |-> id, tab |-> t, op |-> op, token |-> token, kept |-> Nil,
   mounted |-> op \in {"login", "profile"}, user |-> u, stage |-> "sent"]

\* Mutant of FetchMine: only when there are no permissions yet.
FetchOnce(id, t, s) ==
  IF s[t].perms = Nil THEN {Request(id, t, "mine", Nil, storage'.token)} ELSE {}

\* The effect of AppLayout when it is mounted.
FetchMine(id, t, s) == {Request(id, t, "mine", Nil, storage'.token)}

\* A form disables its button while its own call is under way, not the next form.
Busy(t, op) == \E c \in calls : c.tab = t /\ c.op = op /\ c.mounted

\* The page of the form is left; the options of a mutation stay those of the last
\* render, here with token k.
Unmount(C, t, op, k) ==
  {IF c.tab = t /\ c.op = op /\ c.mounted THEN [c EXCEPT !.mounted = FALSE, !.kept = k] ELSE c
     : c \in C}

\* The token in onSuccess of the profile form: every render hands it on to the call.
HeldToken(c) == IF c.mounted THEN store[c.tab].token ELSE c.kept

\* The tab gets another token, k, while its profile form waits.
Slips(C, t, k) == \E c \in C : c.tab = t /\ c.op = "profile" /\ c.mounted /\ store[t].token # k

\* A link to no route, or the address: LoginPage asks nobody to log out.
GoToLogin(t) ==
  /\ Act
  /\ page[t] = "app"
  /\ page' = [page EXCEPT ![t] = "login"]
  /\ calls' = Unmount(calls, t, "profile", store[t].token)
  /\ UNCHANGED <<server, storage, store, lost, history>>

\* Back to a protected page: ProtectedRoute lets in who has a token.
GoToApp(t) ==
  /\ Act
  /\ page[t] = "login" /\ store[t].token # Nil
  /\ page' = [page EXCEPT ![t] = "app"]
  /\ UNCHANGED <<storage, store>>
  /\ calls' = Unmount(calls, t, "login", Nil) \cup FetchMine(acts', t, store)
  /\ misled' = misled \ {t}
  /\ UNCHANGED <<server, lost, spared, mixed>>

\* To another protected page, while a profile is saved: AppLayout stays.
LeaveProfile(t) ==
  /\ Act
  /\ Busy(t, "profile")
  /\ calls' = Unmount(calls, t, "profile", store[t].token)
  /\ UNCHANGED <<server, client, lost, history>>

\* The calls of a tab that is loaded anew are answered to nobody.
Forget(C, t) == {IF c.tab = t THEN [c EXCEPT !.tab = Nil, !.mounted = FALSE] ELSE c : c \in C}

\* The tokens whose logout nobody waits for any more.
Abandoned(C, t) == {c.token : c \in {d \in C : d.tab = t /\ d.op = "logout"}} \ {Nil}

\* The tab is loaded: authStore begins with what is stored.
Reload(t) ==
  /\ Act
  /\ UNCHANGED storage
  /\ store' = [store EXCEPT ![t] = storage]
  /\ page' = [page EXCEPT ![t] = IF storage.token = Nil THEN "login" ELSE @]
  /\ calls' = Forget(calls, t)
              \cup (IF page'[t] = "app" THEN FetchMine(acts', t, store') ELSE {})
  /\ spared' = spared \cup Abandoned(calls, t)
  /\ misled' = misled \ {t}
  /\ UNCHANGED <<server, lost, mixed>>

Login(t, u) ==
  /\ Act
  /\ page[t] = "login" /\ ~Busy(t, "login")
  /\ calls' = calls \cup {Request(acts', t, "login", u, storage.token)}
  /\ UNCHANGED <<server, client, lost, history>>

HandleLogout(t) ==
  /\ Act
  /\ page[t] = "app"
  /\ calls' = calls \cup {Request(acts', t, "logout", Nil, storage.token)}
  /\ UNCHANGED <<server, client, lost, history>>

UpdateProfile(t) ==
  /\ Act
  /\ page[t] = "app" /\ ~Busy(t, "profile")
  /\ calls' = calls \cup {Request(acts', t, "profile", Nil, storage.token)}
  /\ mixed' = (mixed \/ storage.token # store[t].token)
  /\ UNCHANGED <<server, client, lost, spared, misled>>
-----------------------------------------------------------------------------
\* The server.

Replace(c, d) == calls' = (calls \ {c}) \cup {d}

To(c, stage) == Replace(c, [c EXCEPT !.stage = stage])

\* A token for the user, or 401 when the password is wrong.
IssueToken(c) ==
  /\ c.op = "login" /\ c.stage = "sent"
  /\ \/ /\ \E k \in Tokens :
             /\ owner[k] = Nil /\ \A j \in Tokens : j < k => owner[j] # Nil
             /\ owner' = [owner EXCEPT ![k] = c.user]
             /\ Replace(c, [c EXCEPT !.stage = "ok", !.token = k])
     \/ To(c, "refused") /\ UNCHANGED owner
  /\ UNCHANGED denylist

\* The token is revoked before the answer, which is 401 without one.
Revoke(c) ==
  /\ c.op = "logout" /\ c.stage = "sent"
  /\ denylist' = denylist \cup ({c.token} \ {Nil})
  /\ To(c, IF c.token = Nil THEN "refused" ELSE "ok")
  /\ UNCHANGED owner

\* authenticate_user!, then the data of the token's owner.
Authenticate(c) ==
  /\ c.op \in {"profile", "mine"} /\ c.stage = "sent"
  /\ IF c.token = Nil \/ c.token \in denylist
     THEN To(c, "refused")
     ELSE Replace(c, [c EXCEPT !.stage = "ok", !.user = owner[c.token]])
  /\ UNCHANGED server

Lose(c) ==
  /\ c.tab # Nil /\ c.stage \in {"sent", "ok"}
  /\ lost < MaxLost
  /\ lost' = lost + 1
  /\ To(c, "failed")
  /\ UNCHANGED <<server, client, acts, history>>
-----------------------------------------------------------------------------
\* The answers.

SetAuth(t, u, k) ==
  /\ storage' = [storage EXCEPT !.token = k, !.user = u]
  /\ store' = [store EXCEPT ![t].token = k, ![t].user = u]

ClearAuth(t) ==
  /\ storage' = NoSession
  /\ store' = [store EXCEPT ![t] = NoSession]

\* A token that is set though it is revoked and nobody waits for its logout.
Revived == IF storage'.token \in denylist THEN {storage'.token} ELSE {}

\* setAuth, which renders, and navigate: AppLayout is mounted, unless it is already.
LoginSucceeds(c) ==
  /\ c.op = "login" /\ c.stage = "ok"
  /\ SetAuth(c.tab, c.user, c.token)
  /\ page' = [page EXCEPT ![c.tab] = "app"]
  /\ IF page[c.tab] = "login"
     THEN /\ calls' = Unmount(calls \ {c}, c.tab, "login", Nil)
                     \cup FetchMine(c.id, c.tab, store)
          /\ misled' = misled \ {c.tab}
     ELSE /\ calls' = Unmount(calls \ {c}, c.tab, "profile", c.token)
          /\ misled' = misled \cup {c.tab}
  /\ spared' = spared \cup Revived
  /\ mixed' = (mixed \/ Slips(calls \ {c}, c.tab, c.token))

\* Mutant of LogoutEnds: a call that failed ends nothing.
LogoutSucceeds(c) ==
  /\ c.op = "logout" /\ c.stage \in {"ok", "failed"}
  /\ IF c.stage = "ok"
     THEN /\ ClearAuth(c.tab) /\ page' = [page EXCEPT ![c.tab] = "login"]
          /\ calls' = Unmount(calls \ {c}, c.tab, "profile", store[c.tab].token)
     ELSE calls' = calls \ {c} /\ UNCHANGED client
  /\ UNCHANGED history

\* finally: whatever came of the call.  ProtectedRoute leaves the page unrendered.
LogoutEnds(c) ==
  /\ c.op = "logout" /\ c.stage \in {"ok", "failed"}
  /\ ClearAuth(c.tab)
  /\ page' = [page EXCEPT ![c.tab] = "login"]
  /\ calls' = Unmount(calls \ {c}, c.tab, "profile", store[c.tab].token)
  /\ UNCHANGED history

\* Mutant of ProfileSucceeds: the token that is stored by now.
ProfileTakesStored(c) ==
  /\ c.op = "profile" /\ c.stage = "ok"
  /\ SetAuth(c.tab, c.user, storage.token)
  /\ calls' = calls \ {c}
  /\ misled' = IF c.user # store[c.tab].user THEN misled \cup {c.tab} ELSE misled
  /\ UNCHANGED <<page, spared, mixed>>

\* setAuth with the user that was answered and the token of the form's last render;
\* when that form was left, another one may wait meanwhile.
ProfileSucceeds(c) ==
  /\ c.op = "profile" /\ c.stage = "ok"
  /\ IF HeldToken(c) # Nil
     THEN /\ SetAuth(c.tab, c.user, HeldToken(c))
          /\ mixed' = (mixed \/ Slips(calls \ {c}, c.tab, HeldToken(c)))
     ELSE UNCHANGED <<storage, store, mixed>>
  /\ calls' = calls \ {c}
  /\ spared' = spared \cup Revived
  /\ misled' = IF c.user # store[c.tab].user THEN misled \cup {c.tab} ELSE misled
  /\ UNCHANGED page

SetPermissions(c) ==
  /\ c.op = "mine" /\ c.stage = "ok"
  /\ storage' = [storage EXCEPT !.perms = c.user]
  /\ store' = [store EXCEPT ![c.tab].perms = c.user]
  /\ calls' = calls \ {c}
  /\ misled' = IF c.user # store[c.tab].user THEN misled \cup {c.tab} ELSE misled
  /\ UNCHANGED <<page, spared, mixed>>

\* A message; permissions stay as they are.
Fail(c) ==
  /\ c.op # "logout" /\ c.stage = "failed"
  /\ calls' = calls \ {c}
  /\ misled' = IF c.op = "mine" THEN misled \cup {c.tab} ELSE misled
  /\ UNCHANGED <<client, spared, mixed>>

\* The response interceptor, and for a logout also its finally: the tab is loaded
\* anew at /login.
Eject(c) ==
  /\ c.stage = "refused"
  /\ storage' = IF c.op = "logout" THEN NoSession
                ELSE [storage EXCEPT !.token = Nil, !.user = Nil]
  /\ store' = [store EXCEPT ![c.tab] = storage']
  /\ page' = [page EXCEPT ![c.tab] = "login"]
  /\ calls' = Forget(calls \ {c}, c.tab)
  /\ spared' = spared \cup Abandoned(calls \ {c}, c.tab)
  /\ misled' = misled \ {c.tab}
  /\ UNCHANGED mixed

Serve(c) ==
  /\ IssueToken(c) \/ Revoke(c) \/ Authenticate(c)
  /\ UNCHANGED <<client, acts, lost, history>>

Answer(c) ==
  /\ c.tab # Nil
  /\ \/ LoginSucceeds(c) \/ LogoutEnds(c) \/ ProfileSucceeds(c)
     \/ SetPermissions(c) \/ Fail(c) \/ Eject(c)
  /\ UNCHANGED <<server, acts, lost>>

Next ==
  \/ \E t \in Tabs :
       \/ GoToLogin(t) \/ GoToApp(t) \/ Reload(t) \/ HandleLogout(t) \/ UpdateProfile(t)
       \/ LeaveProfile(t)
       \/ \E u \in Users : Login(t, u)
  \/ \E c \in calls : Serve(c) \/ Lose(c) \/ Answer(c)

Spec == Init /\ [][Next]_vars
-----------------------------------------------------------------------------
\* Tokens, storage, tabs and calls are typed.
TypeOK ==
  /\ owner \in [Tokens -> Users \cup {Nil}]
  /\ denylist \subseteq {k \in Tokens : owner[k] # Nil}
  /\ storage \in Session /\ store \in [Tabs -> Session]
  /\ page \in [Tabs -> {"login", "app"}]
  /\ calls \subseteq Call
  /\ acts \in 0 .. MaxActs /\ lost \in 0 .. MaxLost
  /\ spared \subseteq Tokens /\ mixed \in BOOLEAN /\ misled \subseteq Tabs

\* The user that is stored, and shown by a tab, is the one the token was issued
\* to, whatever logins, profiles and refusals overlap; but not once a tab has sent a
\* profile with the token of a session that began in another tab, or a session began
\* in the tab while its profile form was waiting.
UserOwnsToken ==
  mixed \/ \A s \in {storage} \cup {store[t] : t \in Tabs} :
             s.token # Nil => s.user = owner[s.token]

\* "Sesión cerrada": a revoked token leaves localStorage, once its logout has been
\* answered, failed or not; only a tab that is loaded anew in between keeps it, and
\* only an answer to what was sent before stores it again.
RevokedTokensGoAway ==
  storage.token \in denylist \ spared =>
    \E c \in calls : c.op = "logout" /\ c.tab # Nil /\ c.token = storage.token

Pending(t, op) == \E c \in calls : c.tab = t /\ c.op = op

\* The menu is that of the user on the screen, also when the one before was thrown
\* out and his permissions stayed in localStorage; but for permissions that fail to
\* come, or come for a session that is over.
MenuIsOfTheUser ==
  \A t \in Tabs \ misled :
    /\ page[t] = "app" /\ ~Pending(t, "mine")
    /\ store[t].user # Nil
    => store[t].perms = store[t].user
=============================================================================
