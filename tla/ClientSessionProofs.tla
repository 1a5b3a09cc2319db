-------------------------- MODULE ClientSessionProofs --------------------------
(***************************************************************************)
(* Proofs about ClientSession, for every set of users and tabs and every   *)
(* bound.                                                                  *)
(***************************************************************************)
EXTENDS ClientSession, TLAPS

-----------------------------------------------------------------------------
(* The invariant, in terms of the owners o of the tokens, of m, whether a  *)
(* profile and its form had different tokens, and of the stores S.         *)

\* A session has a token that was issued, to its user unless m.
SessionGood(o, m, s) ==
  /\ s \in Session
  /\ s.token # Nil => o[s.token] # Nil /\ (m \/ s.user = o[s.token])

\* The token of the form is that of the profile call, unless m.
FormGood(m, S, c) ==
  c.op = "profile" => m \/ (IF c.mounted THEN S[c.tab].token ELSE c.kept) = c.token

\* Only the form of a tab is mounted; a call carries tokens that were issued; the
\* answer to one that succeeded has the user of its token.
CallGood(o, m, S, c) ==
  /\ c \in Call
  /\ c.mounted => c.tab # Nil
  /\ c.token # Nil => o[c.token] # Nil
  /\ c.kept # Nil => o[c.kept] # Nil
  /\ c.op = "login" => c.user # Nil
  /\ c.tab # Nil => FormGood(m, S, c)
  /\ c.stage = "ok" /\ c.op # "logout" => c.token # Nil /\ c.user = o[c.token]

ServerOK ==
  /\ owner \in [Tokens -> Users \cup {Nil}]
  /\ denylist \subseteq {k \in Tokens : owner[k] # Nil}

ClientOK ==
  /\ SessionGood(owner, mixed, storage)
  /\ store \in [Tabs -> Session]
  /\ \A t \in Tabs : SessionGood(owner, mixed, store[t])
  /\ page \in [Tabs -> {"login", "app"}]

CallsOK == \A c \in calls : CallGood(owner, mixed, store, c)

CountsOK == acts \in 0 .. MaxActs /\ lost \in 0 .. MaxLost

HistoryOK == spared \subseteq Tokens /\ mixed \in BOOLEAN /\ misled \subseteq Tabs

SessionInv == ServerOK /\ ClientOK /\ CallsOK /\ CountsOK /\ HistoryOK
-----------------------------------------------------------------------------
(* Lemmas. *)

LEMMA InvIsTyped == SessionInv => TypeOK
BY DEF SessionInv, ServerOK, ClientOK, CallsOK, CountsOK, HistoryOK, TypeOK, SessionGood,
       CallGood

LEMMA InvOwns == SessionInv => UserOwnsToken
BY DEF SessionInv, ClientOK, SessionGood, UserOwnsToken

LEMMA InvInit == Init => SessionInv
<1> SUFFICES ASSUME Init PROVE SessionInv
  OBVIOUS
<1>1. PICK u \in Users : /\ owner = [k \in Tokens |-> IF k = 1 THEN u ELSE Nil]
                         /\ storage = [token |-> 1, user |-> u, perms |-> u]
  BY DEF Init
<1>2. 1 \in Tokens
  BY BoundsAssumption DEF Tokens
<1>3. ServerOK
  BY <1>1 DEF Init, ServerOK
<1>4. SessionGood(owner, mixed, storage)
  BY <1>1, <1>2, NilAssumption DEF SessionGood, Session
<1>5. storage \in Session
  BY <1>4 DEF SessionGood
<1>6. ClientOK
  BY <1>4, <1>5 DEF Init, ClientOK
<1>7. CallsOK /\ HistoryOK
  BY DEF Init, CallsOK, HistoryOK
<1>8. CountsOK
  BY BoundsAssumption DEF Init, CountsOK
<1>9. QED
  BY <1>3, <1>6, <1>7, <1>8 DEF SessionInv

\* Owners are kept, and m does not go back: what was good stays good.
LEMMA GoodStays ==
  ASSUME NEW o, NEW p, NEW m \in BOOLEAN, NEW n \in BOOLEAN, m => n,
         \A k \in Tokens : o[k] # Nil => p[k] = o[k]
  PROVE  /\ \A s : SessionGood(o, m, s) => SessionGood(p, n, s)
         /\ \A S, c : CallGood(o, m, S, c) => CallGood(p, n, S, c)
<1>1. ASSUME NEW s, SessionGood(o, m, s) PROVE SessionGood(p, n, s)
  BY <1>1 DEF SessionGood, Session
<1>2. ASSUME NEW S, NEW c, CallGood(o, m, S, c) PROVE CallGood(p, n, S, c)
  <2>1. c.token \in Tokens \cup {Nil} /\ c.kept \in Tokens \cup {Nil}
    BY <1>2 DEF CallGood, Call
  <2>2. FormGood(m, S, c) => FormGood(n, S, c)
    BY DEF FormGood
  <2>3. QED
    BY <1>2, <2>1, <2>2 DEF CallGood
<1>3. QED
  BY <1>1, <1>2

\* A call stays good in other stores, when its form, if it waits, has the same token.
LEMMA StoresGood ==
  ASSUME NEW o, NEW m \in BOOLEAN, NEW n \in BOOLEAN, m => n, NEW S, NEW T, NEW c,
         CallGood(o, m, S, c),
         c.op = "profile" /\ c.mounted => n \/ T[c.tab].token = S[c.tab].token
  PROVE  CallGood(o, n, T, c)
<1>1. FormGood(m, S, c) => FormGood(n, T, c)
  BY DEF FormGood
<1>2. QED
  BY <1>1 DEF CallGood

LEMMA StageGood ==
  ASSUME NEW o, NEW m, NEW S, NEW c, CallGood(o, m, S, c),
         NEW stage \in {"sent", "ok", "refused", "failed"},
         stage = "ok" => c.op = "logout"
  PROVE  CallGood(o, m, S, [c EXCEPT !.stage = stage])
<1> DEFINE d == [c EXCEPT !.stage = stage]
<1>1. c \in Call
  BY DEF CallGood
<1>2. /\ d \in Call /\ d.op = c.op /\ d.token = c.token /\ d.kept = c.kept
      /\ d.user = c.user /\ d.stage = stage /\ d.tab = c.tab /\ d.mounted = c.mounted
  BY <1>1 DEF Call
<1> HIDE DEF d
<1>3. CallGood(o, m, S, d)
  BY <1>2 DEF CallGood, FormGood
<1>4. QED
  BY <1>3 DEF d

\* The calls of a tab that is loaded anew; those of the others stay as they are.
LEMMA ForgetGood ==
  ASSUME NEW o, NEW m, NEW S, NEW T, NEW C, NEW t, \A c \in C : CallGood(o, m, S, c),
         \A a \in Tabs \ {t} : T[a] = S[a]
  PROVE  \A d \in Forget(C, t) : CallGood(o, m, T, d)
<1>1. ASSUME NEW c \in C, c.tab # t PROVE CallGood(o, m, T, c)
  <2>1. c.tab \in Tabs \cup {Nil} /\ CallGood(o, m, S, c)
    BY DEF CallGood, Call
  <2>2. c.tab # Nil => (FormGood(m, S, c) => FormGood(m, T, c))
    BY <1>1, <2>1 DEF FormGood
  <2>3. QED
    BY <2>1, <2>2 DEF CallGood
<1>2. ASSUME NEW c \in C, NEW d, d = [c EXCEPT !.tab = Nil, !.mounted = FALSE]
      PROVE  CallGood(o, m, T, d)
  <2>1. c \in Call /\ CallGood(o, m, S, c)
    BY DEF CallGood
  <2>2. PICK b \in BOOLEAN : b = FALSE
    OBVIOUS
  <2>3. d = [c EXCEPT !.tab = Nil, !.mounted = b]
    BY <1>2, <2>2
  <2>4. d \in Call /\ d.op = c.op /\ d.token = c.token
    BY <2>1, <2>3 DEF Call
  <2>5. d.kept = c.kept /\ d.user = c.user /\ d.stage = c.stage
    BY <2>1, <2>3 DEF Call
  <2>6. d.tab = Nil /\ ~d.mounted
    BY <2>1, <2>2, <2>3 DEF Call
  <2>7. QED
    BY <2>1, <2>4, <2>5, <2>6 DEF CallGood
<1>3. ASSUME NEW d \in Forget(C, t) PROVE CallGood(o, m, T, d)
  <2>1. PICK c \in C : d = IF c.tab = t THEN [c EXCEPT !.tab = Nil, !.mounted = FALSE] ELSE c
    BY Zenon DEF Forget
  <2>2. CASE c.tab = t
    <3>1. d = [c EXCEPT !.tab = Nil, !.mounted = FALSE]
      BY <2>1, <2>2, Zenon
    <3>2. QED
      BY <1>2, <3>1, Zenon
  <2>3. CASE c.tab # t
    <3>1. d = c
      BY <2>1, <2>3, Zenon
    <3>2. QED
      BY <1>1, <2>3, <3>1
  <2>4. QED
    BY <2>2, <2>3
<1>4. QED
  BY <1>3

\* The profile form of tab t waits for one of the calls C.
FormWaits(C, t) == \E c \in C : c.tab = t /\ c.op = "profile" /\ c.mounted

\* In C the forms of op in tab t can be left with token k, and the stores T for S.
CanLeave(o, m, n, S, T, C, t, op, k) ==
  /\ \A c \in C : CallGood(o, m, S, c)
  /\ k # Nil => o[k] # Nil
  /\ op = "profile" /\ FormWaits(C, t) => n \/ k = S[t].token
  /\ op # "profile" /\ FormWaits(C, t) => n \/ T[t].token = S[t].token
  /\ \A a \in Tabs \ {t} : T[a] = S[a]

\* A form that is left keeps token k; if it was the profile form of the tab, k was its
\* token, or m.  What is not left has the token it had.
LEMMA UnmountGood ==
  ASSUME NEW o, NEW m \in BOOLEAN, NEW n \in BOOLEAN, m => n, NEW S, NEW T, NEW C,
         NEW t \in Tabs, NEW op, NEW k \in Tokens \cup {Nil},
         CanLeave(o, m, n, S, T, C, t, op, k)
  PROVE  \A d \in Unmount(C, t, op, k) : CallGood(o, n, T, d)
<1>0. /\ \A c \in C : CallGood(o, m, S, c)
      /\ k # Nil => o[k] # Nil
      /\ op = "profile" /\ FormWaits(C, t) => n \/ k = S[t].token
      /\ op # "profile" /\ FormWaits(C, t) => n \/ T[t].token = S[t].token
      /\ \A a \in Tabs \ {t} : T[a] = S[a]
  BY DEF CanLeave
<1>1. ASSUME NEW c \in C, ~(c.tab = t /\ c.op = op /\ c.mounted) PROVE CallGood(o, n, T, c)
  <2>1. c.tab \in Tabs \cup {Nil} /\ CallGood(o, m, S, c) /\ (c.mounted => c.tab # Nil)
    BY <1>0 DEF CallGood, Call
  <2>2. c.op = "profile" /\ c.mounted => n \/ T[c.tab].token = S[c.tab].token
    BY <1>0, <1>1, <2>1 DEF FormWaits
  <2>3. QED
    BY <2>1, <2>2, StoresGood
<1>2. ASSUME NEW c \in C, c.tab = t, c.op = op, c.mounted,
             NEW d, d = [c EXCEPT !.mounted = FALSE, !.kept = k]
      PROVE  CallGood(o, n, T, d)
  <2>1. c \in Call /\ CallGood(o, m, S, c)
    BY <1>0 DEF CallGood
  <2>2. PICK b \in BOOLEAN : b = FALSE
    OBVIOUS
  <2>3. d = [c EXCEPT !.mounted = b, !.kept = k]
    BY <1>2, <2>2
  <2>4. d \in Call /\ d.op = c.op /\ d.token = c.token
    BY <2>1, <2>3 DEF Call
  <2>5. d.user = c.user /\ d.stage = c.stage /\ d.tab = c.tab
    BY <2>1, <2>3 DEF Call
  <2>6. d.kept = k /\ ~d.mounted
    BY <2>1, <2>2, <2>3 DEF Call
  <2>7. c.tab # Nil => FormGood(n, T, d)
    BY <1>0, <1>2, <2>1, <2>4, <2>6 DEF FormGood, CallGood, FormWaits
  <2>8. QED
    BY <1>0, <2>1, <2>4, <2>5, <2>6, <2>7 DEF CallGood
<1>3. ASSUME NEW d \in Unmount(C, t, op, k) PROVE CallGood(o, n, T, d)
  <2>1. PICK c \in C : d = IF c.tab = t /\ c.op = op /\ c.mounted
                          THEN [c EXCEPT !.mounted = FALSE, !.kept = k] ELSE c
    BY Zenon DEF Unmount
  <2>2. CASE c.tab = t /\ c.op = op /\ c.mounted
    <3>1. d = [c EXCEPT !.mounted = FALSE, !.kept = k]
      BY <2>1, <2>2, Zenon
    <3>2. QED
      BY <1>2, <2>2, <3>1, Zenon
  <2>3. CASE ~(c.tab = t /\ c.op = op /\ c.mounted)
    <3>1. d = c
      BY <2>1, <2>3, Zenon
    <3>2. QED
      BY <1>1, <2>3, <3>1
  <2>4. QED
    BY <2>2, <2>3
<1>4. QED
  BY <1>3

LEMMA AbandonedTyped ==
  ASSUME NEW o, NEW m, NEW S, NEW C, NEW t, \A c \in C : CallGood(o, m, S, c)
  PROVE  Abandoned(C, t) \subseteq Tokens
BY DEF Abandoned, CallGood, Call

\* A request that carries the stored token.
LEMMA RequestGood ==
  ASSUME SessionInv, NEW id \in 0 .. MaxActs, NEW t \in Tabs,
         NEW op \in {"login", "logout", "profile", "mine"},
         NEW u \in Users \cup {Nil}, NEW m, NEW S,
         op = "login" => u # Nil,
         op = "profile" => m \/ S[t].token = storage.token
  PROVE  CallGood(owner, m, S, Request(id, t, op, u, storage.token))
<1> DEFINE r == Request(id, t, op, u, storage.token)
<1>1. /\ storage.token \in Tokens \cup {Nil}
      /\ storage.token # Nil => owner[storage.token] # Nil
  BY DEF SessionInv, ClientOK, SessionGood, Session
<1>2. r \in Call
  <2>0. (op \in {"login", "profile"}) \in BOOLEAN
    OBVIOUS
  <2>1. PICK b \in BOOLEAN : b = (op \in {"login", "profile"})
    BY <2>0, Zenon
  <2>2. r = [id |-> id, tab |-> t, op |-> op, token |-> storage.token, kept |-> Nil,
             mounted |-> b, user |-> u, stage |-> "sent"]
    BY <2>1 DEF Request
  <2>3. QED
    BY <1>1, <2>2 DEF Call
<1>3. /\ r.op = op /\ r.token = storage.token /\ r.kept = Nil /\ r.user = u
      /\ r.stage = "sent" /\ r.tab = t
  BY DEF Request
<1>4. op = "profile" => r.mounted
  BY DEF Request
<1>5. t # Nil
  BY NilAssumption
<1> HIDE DEF r
<1>6. FormGood(m, S, r)
  BY <1>3, <1>4 DEF FormGood
<1>7. CallGood(owner, m, S, r)
  BY <1>1, <1>2, <1>3, <1>5, <1>6 DEF CallGood
<1>8. QED
  BY <1>7 DEF r

LEMMA FetchGood ==
  ASSUME SessionInv, NEW id \in 0 .. MaxActs, NEW t \in Tabs, NEW s, NEW S,
         storage' = storage
  PROVE  \A c \in FetchMine(id, t, s) : CallGood(owner, mixed, S, c)
BY RequestGood DEF FetchMine

\* A session that gets a token and its owner.
\* Session s of user u with token k.
Authed(s, k, u) == [s EXCEPT !.token = k, !.user = u]

LEMMA AuthGood ==
  ASSUME NEW o, NEW m, NEW s \in Session, NEW k \in Tokens, NEW u \in Users \cup {Nil},
         o[k] # Nil, m \/ u = o[k]
  PROVE  SessionGood(o, m, Authed(s, k, u))
<1>0. PICK z : z = Authed(s, k, u)
  OBVIOUS
<1>1. z \in Session
  BY <1>0 DEF Session, Authed
<1>2. z.token = k
  BY <1>0 DEF Session, Authed
<1>3. z.user = u
  BY <1>0 DEF Session, Authed
<1>4. QED
  BY <1>0, <1>1, <1>2, <1>3 DEF SessionGood

LEMMA NoSessionGood == \A o, m : SessionGood(o, m, NoSession)
BY DEF SessionGood, NoSession, Session
-----------------------------------------------------------------------------
(* The user. *)

LEMMA ActCounts == ASSUME SessionInv, Act PROVE acts' \in 0 .. MaxActs
BY BoundsAssumption DEF SessionInv, CountsOK, Act

\* The profile form of the tab is left, or the login form.
LEMMA LeftGood ==
  ASSUME SessionInv, NEW t \in Tabs
  PROVE  /\ \A d \in Unmount(calls, t, "profile", store[t].token) :
              CallGood(owner, mixed, store, d)
         /\ \A d \in Unmount(calls, t, "login", Nil) : CallGood(owner, mixed, store, d)
<1>1. /\ store[t].token \in Tokens \cup {Nil}
      /\ store[t].token # Nil => owner[store[t].token] # Nil
  BY DEF SessionInv, ClientOK, SessionGood, Session
<1>2. mixed \in BOOLEAN /\ \A c \in calls : CallGood(owner, mixed, store, c)
  BY DEF SessionInv, HistoryOK, CallsOK
<1>3. PICK op, k : op = "profile" /\ k = store[t].token
  OBVIOUS
<1>4. \A d \in Unmount(calls, t, op, k) : CallGood(owner, mixed, store, d)
  <2>1. CanLeave(owner, mixed, mixed, store, store, calls, t, op, k)
    BY <1>1, <1>2, <1>3 DEF CanLeave
  <2>2. QED
    BY <1>1, <1>2, <1>3, <2>1, UnmountGood
<1>5. PICK opl, l : opl = "login" /\ l = Nil
  OBVIOUS
<1>6. \A d \in Unmount(calls, t, opl, l) : CallGood(owner, mixed, store, d)
  <2>1. CanLeave(owner, mixed, mixed, store, store, calls, t, opl, l)
    BY <1>2, <1>5 DEF CanLeave
  <2>2. QED
    BY <1>2, <1>5, <2>1, UnmountGood
<1>7. QED
  BY <1>3, <1>4, <1>5, <1>6

LEMMA GoToLoginKeeps ==
  ASSUME SessionInv, NEW t \in Tabs, GoToLogin(t) \/ LeaveProfile(t) PROVE SessionInv'
<1>1. acts' \in 0 .. MaxActs
  BY ActCounts DEF GoToLogin, LeaveProfile
<1>2. /\ calls' = Unmount(calls, t, "profile", store[t].token)
      /\ UNCHANGED <<server, storage, store, lost, history>>
  BY DEF GoToLogin, LeaveProfile, client
<1>3. page' \in [Tabs -> {"login", "app"}]
  BY DEF SessionInv, ClientOK, GoToLogin, LeaveProfile, client
<1>4. CallsOK'
  BY <1>2, LeftGood DEF CallsOK, server, history
<1>5. QED
  BY <1>1, <1>2, <1>3, <1>4 DEF SessionInv, ServerOK, ClientOK, CountsOK, HistoryOK,
              server, history

LEMMA GoToAppKeeps ==
  ASSUME SessionInv, NEW t \in Tabs, GoToApp(t) PROVE SessionInv'
<1>1. acts' \in 0 .. MaxActs
  BY ActCounts DEF GoToApp
<1>2. \A c \in FetchMine(acts', t, store) : CallGood(owner, mixed, store, c)
  BY <1>1, FetchGood DEF GoToApp
<1>3. CallsOK'
  BY <1>2, LeftGood DEF SessionInv, CallsOK, GoToApp, server
<1>4. QED
  BY <1>1, <1>3 DEF SessionInv, GoToApp, ServerOK, ClientOK, CountsOK, HistoryOK, server

LEMMA ReloadKeeps ==
  ASSUME SessionInv, NEW t \in Tabs, Reload(t) PROVE SessionInv'
<1>1. acts' \in 0 .. MaxActs
  BY ActCounts DEF Reload
<1>2. /\ UNCHANGED <<server, storage, lost, mixed>>
      /\ store' = [store EXCEPT ![t] = storage]
      /\ page' = [page EXCEPT ![t] = IF storage.token = Nil THEN "login" ELSE @]
  BY DEF Reload
<1>3. CallsOK'
  <2>1. \A c \in Forget(calls, t) : CallGood(owner, mixed, store', c)
    <3>1. \A a \in Tabs \ {t} : store'[a] = store[a]
      BY <1>2 DEF SessionInv, ClientOK
    <3>2. QED
      BY <3>1, ForgetGood DEF SessionInv, CallsOK
  <2>2. \A c \in FetchMine(acts', t, store') : CallGood(owner, mixed, store', c)
    BY <1>1, <1>2, FetchGood
  <2>3. calls' \subseteq Forget(calls, t) \cup FetchMine(acts', t, store')
    BY DEF Reload
  <2>4. QED
    BY <1>2, <2>1, <2>2, <2>3 DEF CallsOK, server
<1>4. ClientOK'
  <2>1. storage \in Session
    BY DEF SessionInv, ClientOK, SessionGood
  <2>2. store' \in [Tabs -> Session]
    BY <1>2, <2>1 DEF SessionInv, ClientOK
  <2>3. \A a \in Tabs : SessionGood(owner, mixed, store'[a])
    BY <1>2 DEF SessionInv, ClientOK
  <2>4. page' \in [Tabs -> {"login", "app"}]
    BY <1>2 DEF SessionInv, ClientOK
  <2>5. QED
    BY <1>2, <2>2, <2>3, <2>4 DEF SessionInv, ClientOK, server
<1>5. HistoryOK'
  BY <1>2, AbandonedTyped DEF Reload, SessionInv, CallsOK, HistoryOK
<1>6. QED
  BY <1>1, <1>2, <1>3, <1>4, <1>5 DEF SessionInv, ServerOK, CountsOK, server

\* A request that changes nothing else.
LEMMA SentKeeps ==
  ASSUME SessionInv, NEW r, CallGood(owner, mixed', store, r), calls' = calls \cup {r},
         acts' \in 0 .. MaxActs, mixed' \in BOOLEAN, mixed => mixed',
         UNCHANGED <<server, client, lost, spared, misled>>
  PROVE  SessionInv'
<1>1. owner' = owner /\ UNCHANGED <<storage, store, page>>
  BY DEF server, client
<1>2. mixed \in BOOLEAN /\ \A k \in Tokens : owner[k] # Nil => owner[k] = owner[k]
  BY DEF SessionInv, HistoryOK
<1>3. /\ \A s : SessionGood(owner, mixed, s) => SessionGood(owner, mixed', s)
      /\ \A c : CallGood(owner, mixed, store, c) => CallGood(owner, mixed', store, c)
  BY <1>2, GoodStays
<1>4. CallsOK'
  BY <1>1, <1>3 DEF SessionInv, CallsOK
<1>5. ClientOK'
  BY <1>1, <1>3 DEF SessionInv, ClientOK
<1>6. QED
  BY <1>1, <1>4, <1>5 DEF SessionInv, ServerOK, CountsOK, HistoryOK, server

LEMMA LoginKeeps ==
  ASSUME SessionInv, NEW t \in Tabs, NEW u \in Users, Login(t, u) PROVE SessionInv'
<1>1. acts' \in 0 .. MaxActs /\ u # Nil /\ mixed \in BOOLEAN
  BY ActCounts, NilAssumption DEF Login, SessionInv, HistoryOK
<1>2. CallGood(owner, mixed, store, Request(acts', t, "login", u, storage.token))
  BY <1>1, RequestGood
<1>3. QED
  BY <1>1, <1>2, SentKeeps DEF Login, history

LEMMA HandleLogoutKeeps ==
  ASSUME SessionInv, NEW t \in Tabs, HandleLogout(t) PROVE SessionInv'
<1>1. acts' \in 0 .. MaxActs /\ mixed \in BOOLEAN
  BY ActCounts DEF HandleLogout, SessionInv, HistoryOK
<1>2. CallGood(owner, mixed, store, Request(acts', t, "logout", Nil, storage.token))
  BY <1>1, RequestGood
<1>3. QED
  BY <1>1, <1>2, SentKeeps DEF HandleLogout, history

LEMMA UpdateProfileKeeps ==
  ASSUME SessionInv, NEW t \in Tabs, UpdateProfile(t) PROVE SessionInv'
<1>1. acts' \in 0 .. MaxActs /\ mixed \in BOOLEAN
  BY ActCounts DEF UpdateProfile, SessionInv, HistoryOK
<1>2. mixed' \in BOOLEAN /\ (mixed => mixed')
      /\ (mixed' \/ store[t].token = storage.token)
  BY <1>1 DEF UpdateProfile
<1>3. CallGood(owner, mixed', store, Request(acts', t, "profile", Nil, storage.token))
  BY <1>1, <1>2, RequestGood
<1>4. QED
  BY <1>1, <1>2, <1>3, SentKeeps DEF UpdateProfile
-----------------------------------------------------------------------------
(* The server and the network. *)

\* A call that moves on to d; owners only come.
LEMMA ServedKeeps ==
  ASSUME SessionInv, NEW c \in calls, NEW d, Replace(c, d), ServerOK',
         \A k \in Tokens : owner[k] # Nil => owner'[k] = owner[k],
         CallGood(owner', mixed, store, d), lost' \in 0 .. MaxLost,
         UNCHANGED <<client, acts, history>>
  PROVE  SessionInv'
<1>1. UNCHANGED <<storage, store, page, spared, mixed, misled>>
  BY DEF client, history
<1>2. mixed \in BOOLEAN
  BY DEF SessionInv, HistoryOK
<1>3. /\ \A s : SessionGood(owner, mixed, s) => SessionGood(owner', mixed, s)
      /\ \A e : CallGood(owner, mixed, store, e) => CallGood(owner', mixed, store, e)
  BY <1>2, GoodStays
<1>4. CallsOK'
  BY <1>1, <1>3 DEF SessionInv, CallsOK, Replace
<1>5. ClientOK'
  BY <1>1, <1>3 DEF SessionInv, ClientOK
<1>6. QED
  BY <1>1, <1>4, <1>5 DEF SessionInv, CountsOK, HistoryOK

LEMMA ServeKeeps ==
  ASSUME SessionInv, NEW c \in calls, Serve(c) PROVE SessionInv'
<1>1. CallGood(owner, mixed, store, c) /\ c \in Call
  BY DEF SessionInv, CallsOK, CallGood
<1>2. UNCHANGED <<client, acts, history>> /\ lost' \in 0 .. MaxLost
  BY DEF Serve, SessionInv, CountsOK
<1>3. ASSUME UNCHANGED server, NEW stage \in {"sent", "ok", "refused", "failed"},
             stage = "ok" => c.op = "logout", To(c, stage)
      PROVE  SessionInv'
  <2>1. CallGood(owner, mixed, store, [c EXCEPT !.stage = stage])
    BY <1>1, <1>3, StageGood
  <2>2. Replace(c, [c EXCEPT !.stage = stage]) /\ owner' = owner /\ ServerOK'
    BY <1>3 DEF To, server, SessionInv, ServerOK
  <2>3. QED
    BY <1>2, <2>1, <2>2, ServedKeeps
<1>4. ASSUME NEW k \in Tokens, owner[k] = Nil, c.op = "login",
             owner' = [owner EXCEPT ![k] = c.user], denylist' = denylist,
             Replace(c, [c EXCEPT !.stage = "ok", !.token = k])
      PROVE  SessionInv'
  <2>1. owner \in [Tokens -> Users \cup {Nil}] /\ c.user \in Users /\ c.user # Nil
    BY <1>1, <1>4 DEF SessionInv, ServerOK, CallGood, Call
  <2>2. ServerOK'
    BY <1>4, <2>1 DEF SessionInv, ServerOK
  <2>3. \A j \in Tokens : owner[j] # Nil => owner'[j] = owner[j]
    BY <1>4, <2>1
  <2>4. PICK d : d = [c EXCEPT !.stage = "ok", !.token = k]
    OBVIOUS
  <2>5. /\ d \in Call /\ d.op = c.op /\ d.kept = c.kept /\ d.user = c.user
        /\ d.stage = "ok" /\ d.token = k /\ d.tab = c.tab /\ d.mounted = c.mounted
    <3>1. PICK stage \in {"sent", "ok", "refused", "failed"} : stage = "ok"
      OBVIOUS
    <3>2. d = [c EXCEPT !.stage = stage, !.token = k]
      BY <2>4, <3>1
    <3>3. d \in Call
      BY <1>1, <3>2 DEF Call
    <3>4. /\ d.op = c.op /\ d.kept = c.kept /\ d.user = c.user
          /\ d.tab = c.tab /\ d.mounted = c.mounted
      BY <1>1, <3>2 DEF Call
    <3>5. d.stage = stage /\ d.token = k
      BY <1>1, <3>2 DEF Call
    <3>6. QED
      BY <3>1, <3>3, <3>4, <3>5
  <2>6. CallGood(owner', mixed, store, d)
    <3>1. owner'[k] = c.user
      BY <1>4, <2>1
    <3>2. d.kept # Nil => owner'[d.kept] # Nil
      BY <1>1, <2>3, <2>5 DEF CallGood, Call
    <3>3. /\ d.op = "login" /\ d.user # Nil
          /\ owner'[d.token] # Nil /\ d.user = owner'[d.token] /\ d.token # Nil
      BY <1>4, <2>1, <2>5, <3>1, NilAssumption DEF Tokens
    <3>4. QED
      BY <1>1, <2>5, <3>2, <3>3 DEF CallGood, FormGood
  <2>7. Replace(c, d)
    BY <1>4, <2>4
  <2>8. QED
    BY <1>2, <2>2, <2>3, <2>6, <2>7, ServedKeeps
<1>5. CASE IssueToken(c)
  <2>1. CASE To(c, "refused") /\ UNCHANGED owner
    <3>1. PICK stage \in {"sent", "ok", "refused", "failed"} : stage = "refused"
      OBVIOUS
    <3>2. To(c, stage) /\ UNCHANGED server /\ stage # "ok"
      BY <1>5, <2>1, <3>1, Zenon DEF IssueToken, server
    <3>3. QED
      BY <1>3, <3>2, Zenon
  <2>2. ASSUME NEW k \in Tokens, owner[k] = Nil, owner' = [owner EXCEPT ![k] = c.user],
               Replace(c, [c EXCEPT !.stage = "ok", !.token = k])
        PROVE  SessionInv'
    BY <1>4, <1>5, <2>2, Zenon DEF IssueToken
  <2>3. QED
    BY <1>5, <2>1, <2>2, Zenon DEF IssueToken
<1>6. CASE Revoke(c)
  <2>1. PICK d : d = [c EXCEPT !.stage = IF c.token = Nil THEN "refused" ELSE "ok"]
    OBVIOUS
  <2>2. CallGood(owner, mixed, store, d)
    BY <1>1, <1>6, <2>1, StageGood DEF Revoke
  <2>3. Replace(c, d) /\ owner' = owner
    BY <1>6, <2>1 DEF Revoke, To
  <2>4. ServerOK'
    BY <1>1, <1>6, <2>3 DEF Revoke, SessionInv, ServerOK, CallGood, Call
  <2>5. QED
    BY <1>2, <2>2, <2>3, <2>4, ServedKeeps
<1>7. CASE Authenticate(c)
  <2>1. CASE c.token = Nil \/ c.token \in denylist
    BY <1>3, <1>7, <2>1 DEF Authenticate
  <2>2. CASE ~ (c.token = Nil \/ c.token \in denylist)
    <3>1. PICK d : d = [c EXCEPT !.stage = "ok", !.user = owner[c.token]]
      OBVIOUS
    <3>2. Replace(c, d) /\ owner' = owner /\ ServerOK' /\ c.op \in {"profile", "mine"}
      BY <1>7, <2>2, <3>1 DEF Authenticate, server, SessionInv, ServerOK
    <3>3. c.token \in Tokens /\ owner[c.token] \in Users \cup {Nil}
      BY <1>1, <2>2 DEF Call, SessionInv, ServerOK
    <3>4. /\ d \in Call /\ d.op = c.op /\ d.kept = c.kept /\ d.user = owner[c.token]
          /\ d.stage = "ok" /\ d.token = c.token /\ d.tab = c.tab /\ d.mounted = c.mounted
      <4>1. PICK stage \in {"sent", "ok", "refused", "failed"}, u \in Users \cup {Nil} :
              stage = "ok" /\ u = owner[c.token]
        BY <3>3
      <4>2. d = [c EXCEPT !.stage = stage, !.user = u]
        BY <3>1, <4>1
      <4>3. d \in Call
        BY <1>1, <4>2 DEF Call
      <4>4. /\ d.op = c.op /\ d.kept = c.kept /\ d.token = c.token
            /\ d.tab = c.tab /\ d.mounted = c.mounted
        BY <1>1, <4>2 DEF Call
      <4>5. d.stage = stage /\ d.user = u
        BY <1>1, <4>2 DEF Call
      <4>6. QED
        BY <4>1, <4>3, <4>4, <4>5
    <3>5. CallGood(owner, mixed, store, d)
      BY <1>1, <2>2, <3>2, <3>3, <3>4 DEF CallGood, FormGood
    <3>6. QED
      BY <1>2, <3>2, <3>5, ServedKeeps
  <2>3. QED
    BY <2>1, <2>2
<1>8. QED
  BY <1>5, <1>6, <1>7 DEF Serve

LEMMA LoseKeeps ==
  ASSUME SessionInv, NEW c \in calls, Lose(c) PROVE SessionInv'
<1>1. CallGood(owner, mixed, store, [c EXCEPT !.stage = "failed"])
  BY StageGood DEF SessionInv, CallsOK
<1>2. Replace(c, [c EXCEPT !.stage = "failed"]) /\ UNCHANGED <<server, client, acts, history>>
  BY DEF Lose, To
<1>3. lost' \in 0 .. MaxLost
  BY BoundsAssumption DEF Lose, SessionInv, CountsOK
<1>4. ServerOK' /\ owner' = owner
  BY <1>2 DEF SessionInv, ServerOK, server
<1>5. QED
  BY <1>1, <1>2, <1>3, <1>4, ServedKeeps
-----------------------------------------------------------------------------
(* The answers. *)

LEMMA AnsweredKeeps ==
  ASSUME SessionInv, UNCHANGED <<server, acts, lost>>, mixed' \in BOOLEAN,
         SessionGood(owner, mixed', storage'), store' \in [Tabs -> Session],
         \A t \in Tabs : SessionGood(owner, mixed', store'[t]),
         page' \in [Tabs -> {"login", "app"}],
         \A c \in calls' : CallGood(owner, mixed', store', c),
         spared' \subseteq Tokens, misled' \subseteq Tabs
  PROVE  SessionInv'
BY DEF SessionInv, ServerOK, ClientOK, CallsOK, CountsOK, HistoryOK, server

\* The tab t gets the token k of user u, or of another one once mixed'; the calls that
\* are left of C are good unless the token of a waiting profile form slips.
LEMMA SetAuthGood ==
  ASSUME SessionInv, NEW t \in Tabs, NEW u \in Users \cup {Nil}, NEW k \in Tokens,
         owner[k] # Nil, mixed \/ u = owner[k], SetAuth(t, u, k),
         NEW C, C \subseteq calls, mixed' \in BOOLEAN, mixed => mixed',
         Slips(C, t, k) => mixed'
  PROVE  /\ SessionGood(owner, mixed', storage') /\ store' \in [Tabs -> Session]
         /\ \A a \in Tabs : SessionGood(owner, mixed', store'[a])
         /\ storage'.token \in Tokens \cup {Nil}
         /\ \A a \in Tabs \ {t} : store'[a] = store[a]
         /\ FormWaits(C, t) => mixed' \/ store'[t].token = store[t].token
         /\ \A d \in C : CallGood(owner, mixed', store', d)
<1>1. storage \in Session /\ store \in [Tabs -> Session] /\ mixed \in BOOLEAN
  BY DEF SessionInv, ClientOK, SessionGood, HistoryOK
<1>2. \A j \in Tokens : owner[j] # Nil => owner[j] = owner[j]
  OBVIOUS
<1>3. \A s : SessionGood(owner, mixed, s) => SessionGood(owner, mixed', s)
  BY <1>1, <1>2, GoodStays
<1>4. SessionGood(owner, mixed', storage')
  <2>1. storage' = Authed(storage, k, u)
    BY DEF SetAuth, Authed
  <2>2. SessionGood(owner, mixed, storage')
    BY <1>1, <2>1, AuthGood
  <2>3. QED
    BY <1>3, <2>2
<1>5. PICK s : s = Authed(store[t], k, u)
  OBVIOUS
<1>6. SessionGood(owner, mixed', s) /\ s \in Session
  <2>1. SessionGood(owner, mixed, s)
    BY <1>1, <1>5, AuthGood
  <2>2. QED
    BY <1>3, <2>1 DEF SessionGood
<1>7. store' = [store EXCEPT ![t] = s]
  BY <1>1, <1>5 DEF SetAuth, Authed
<1>8. store' \in [Tabs -> Session] /\ \A a \in Tabs : SessionGood(owner, mixed', store'[a])
  BY <1>1, <1>3, <1>6, <1>7 DEF SessionInv, ClientOK
<1>9. storage'.token \in Tokens \cup {Nil}
  BY <1>4 DEF SessionGood, Session
<1>10. \A a \in Tabs \ {t} : store'[a] = store[a]
  BY <1>1, <1>7
<1>11. store'[t].token = k
  <2>1. store[t] \in Session
    BY <1>1
  <2>2. s.token = k
    BY <1>5, <2>1 DEF Session, Authed
  <2>3. QED
    BY <1>1, <1>7, <2>2
<1>12. FormWaits(C, t) => mixed' \/ store'[t].token = store[t].token
  BY <1>11 DEF Slips, FormWaits
<1>13. ASSUME NEW d \in C PROVE CallGood(owner, mixed', store', d)
  <2>1. CallGood(owner, mixed, store, d) /\ d.tab \in Tabs \cup {Nil}
        /\ (d.mounted => d.tab # Nil)
    BY DEF SessionInv, CallsOK, CallGood, Call
  <2>2. d.op = "profile" /\ d.mounted => mixed' \/ store'[d.tab].token = store[d.tab].token
    BY <1>10, <1>12, <2>1 DEF FormWaits
  <2>3. QED
    BY <1>1, <1>2, <2>1, <2>2, StoresGood
<1>14. QED
  BY <1>4, <1>8, <1>9, <1>10, <1>12, <1>13

\* A login: the form that waits, if any, is left.
LEMMA LoginGood ==
  ASSUME SessionInv, NEW c \in calls, c.tab # Nil, LoginSucceeds(c),
         UNCHANGED <<server, acts, lost>>
  PROVE  SessionInv'
<1>1. /\ CallGood(owner, mixed, store, c) /\ c \in Call /\ c.tab \in Tabs
      /\ c.id \in 0 .. MaxActs /\ c.user \in Users \cup {Nil}
      /\ c.token \in Tokens \cup {Nil}
  BY DEF SessionInv, CallsOK, CallGood, Call
<1>2. /\ \A d \in calls : CallGood(owner, mixed, store, d) /\ mixed \in BOOLEAN
      /\ spared \subseteq Tokens /\ misled \subseteq Tabs /\ storage \in Session
      /\ page \in [Tabs -> {"login", "app"}] /\ denylist \subseteq Tokens
  BY DEF SessionInv, ServerOK, ClientOK, CallsOK, HistoryOK, SessionGood
<1>3. c.token \in Tokens /\ owner[c.token] # Nil /\ c.user = owner[c.token] /\ c.token # Nil
  BY <1>1 DEF LoginSucceeds, CallGood
<1>4. PICK C, t, k : C = calls \ {c} /\ t = c.tab /\ k = c.token
  OBVIOUS
<1>5. /\ SetAuth(t, c.user, k) /\ C \subseteq calls
      /\ mixed' \in BOOLEAN /\ (mixed => mixed') /\ (Slips(C, t, k) => mixed')
  BY <1>4 DEF LoginSucceeds, Slips
<1>6. /\ SessionGood(owner, mixed', storage') /\ store' \in [Tabs -> Session]
      /\ \A a \in Tabs : SessionGood(owner, mixed', store'[a])
      /\ storage'.token \in Tokens \cup {Nil}
      /\ \A a \in Tabs \ {t} : store'[a] = store[a]
      /\ FormWaits(C, t) => mixed' \/ store'[t].token = store[t].token
  BY <1>1, <1>3, <1>4, <1>5, SetAuthGood
<1>7. \A d \in FetchMine(c.id, t, store) : CallGood(owner, mixed', store', d)
  <2> DEFINE q == Request(c.id, t, "mine", Nil, k)
  <2>1. q \in Call
    <3>0. ("mine" \in {"login", "profile"}) \in BOOLEAN
      OBVIOUS
    <3>1. PICK b \in BOOLEAN : b = ("mine" \in {"login", "profile"})
      BY <3>0, Zenon
    <3>2. q = [id |-> c.id, tab |-> t, op |-> "mine", token |-> k, kept |-> Nil,
               mounted |-> b, user |-> Nil, stage |-> "sent"]
      BY <3>1 DEF Request
    <3>3. QED
      BY <1>1, <1>3, <1>4, <3>2 DEF Call
  <2>2. /\ q.op = "mine" /\ q.token = k /\ q.kept = Nil /\ q.stage = "sent" /\ q.tab # Nil
    BY <1>4, <1>1, NilAssumption DEF Request
  <2>3. storage'.token = k
    BY <1>2, <1>5 DEF SetAuth, Session
  <2>4. FetchMine(c.id, t, store) = {q}
    BY <2>3 DEF FetchMine
  <2> HIDE DEF q
  <2>5. FormGood(mixed', store', q)
    BY <2>2 DEF FormGood
  <2>6. CallGood(owner, mixed', store', q)
    BY <1>3, <1>4, <2>1, <2>2, <2>5 DEF CallGood
  <2>7. QED
    BY <2>4, <2>6
<1>8. \A d \in C : CallGood(owner, mixed, store, d)
  BY <1>2, <1>4
<1>9. \A d \in Unmount(C, t, "login", Nil) : CallGood(owner, mixed', store', d)
  <2>1. PICK op, l : op = "login" /\ l = Nil
    OBVIOUS
  <2>2. CanLeave(owner, mixed, mixed', store, store', C, t, op, l)
    BY <1>6, <1>8, <2>1 DEF CanLeave
  <2>3. \A d \in Unmount(C, t, op, l) : CallGood(owner, mixed', store', d)
    BY <1>1, <1>2, <1>4, <1>5, <2>1, <2>2, UnmountGood, Zenon
  <2>4. QED
    BY <2>1, <2>3
<1>10. \A d \in Unmount(C, t, "profile", k) : CallGood(owner, mixed', store', d)
  <2>1. PICK op : op = "profile"
    OBVIOUS
  <2>2. FormWaits(C, t) => mixed' \/ k = store[t].token
    BY <1>5 DEF Slips, FormWaits
  <2>3. CanLeave(owner, mixed, mixed', store, store', C, t, op, k)
    BY <1>3, <1>4, <1>6, <1>8, <2>1, <2>2 DEF CanLeave
  <2>4. \A d \in Unmount(C, t, op, k) : CallGood(owner, mixed', store', d)
    BY <1>1, <1>2, <1>3, <1>4, <1>5, <2>3, UnmountGood, Zenon
  <2>5. QED
    BY <2>1, <2>4
<1>11. \A d \in calls' : CallGood(owner, mixed', store', d)
  <2>1. calls' \subseteq Unmount(C, t, "login", Nil) \cup FetchMine(c.id, t, store)
                         \cup Unmount(C, t, "profile", k)
    BY <1>4 DEF LoginSucceeds
  <2>2. QED
    BY <1>7, <1>9, <1>10, <2>1
<1>12. page' \in [Tabs -> {"login", "app"}] /\ misled' \subseteq Tabs
  BY <1>1, <1>2 DEF LoginSucceeds
<1>13. spared' \subseteq Tokens
  BY <1>2 DEF LoginSucceeds, Revived, server
<1>14. QED
  BY <1>5, <1>6, <1>11, <1>12, <1>13, AnsweredKeeps

LEMMA AnswerKeeps ==
  ASSUME SessionInv, NEW c \in calls, Answer(c) PROVE SessionInv'
<1>1. /\ CallGood(owner, mixed, store, c) /\ c \in Call /\ c.tab \in Tabs
      /\ c.id \in 0 .. MaxActs /\ c.user \in Users \cup {Nil}
      /\ c.token \in Tokens \cup {Nil} /\ c.kept \in Tokens \cup {Nil}
  BY DEF SessionInv, CallsOK, CallGood, Call, Answer
<1>2. UNCHANGED <<server, acts, lost>>
  BY DEF Answer
<1>3. /\ SessionGood(owner, mixed, storage) /\ store \in [Tabs -> Session]
      /\ storage \in Session /\ \A t \in Tabs : SessionGood(owner, mixed, store[t])
      /\ page \in [Tabs -> {"login", "app"}] /\ mixed \in BOOLEAN
      /\ \A d \in calls : CallGood(owner, mixed, store, d)
      /\ spared \subseteq Tokens /\ misled \subseteq Tabs /\ denylist \subseteq Tokens
  BY DEF SessionInv, ServerOK, ClientOK, CallsOK, HistoryOK, SessionGood
<1>4. Revived \subseteq Tokens
  <2>1. denylist' = denylist
    BY <1>2 DEF server
  <2>2. QED
    BY <1>3, <2>1 DEF Revived
<1>5. CASE LoginSucceeds(c)
  BY <1>1, <1>2, <1>5, LoginGood DEF Answer
<1>6. CASE LogoutEnds(c)
  <2>1. PICK t, k, C : t = c.tab /\ k = store[c.tab].token /\ C = calls \ {c}
    OBVIOUS
  <2>2. /\ storage' = NoSession /\ store' = [store EXCEPT ![t] = NoSession]
        /\ page' = [page EXCEPT ![t] = "login"] /\ calls' = Unmount(C, t, "profile", k)
        /\ UNCHANGED <<mixed, spared, misled>>
    BY <1>6, <2>1 DEF LogoutEnds, ClearAuth, history
  <2>3. NoSession \in Session /\ SessionGood(owner, mixed, NoSession)
    BY NoSessionGood DEF SessionGood
  <2>4. /\ store' \in [Tabs -> Session] /\ page' \in [Tabs -> {"login", "app"}]
        /\ \A a \in Tabs : SessionGood(owner, mixed, store'[a])
        /\ \A a \in Tabs \ {t} : store'[a] = store[a]
    BY <1>1, <1>3, <2>1, <2>2, <2>3
  <2>5. k \in Tokens \cup {Nil} /\ (k # Nil => owner[k] # Nil)
    BY <1>1, <1>3, <2>1 DEF SessionGood, Session
  <2>6. \A d \in C : CallGood(owner, mixed, store, d)
    BY <1>3, <2>1
  <2>7. PICK op : op = "profile"
    OBVIOUS
  <2>8. \A d \in Unmount(C, t, op, k) : CallGood(owner, mixed, store', d)
    <3>1. CanLeave(owner, mixed, mixed, store, store', C, t, op, k)
      BY <2>1, <2>4, <2>5, <2>6, <2>7 DEF CanLeave
    <3>2. QED
      BY <1>1, <1>3, <2>1, <2>5, <3>1, UnmountGood, Zenon
  <2>9. QED
    BY <1>2, <1>3, <2>2, <2>3, <2>4, <2>7, <2>8, AnsweredKeeps
<1>7. CASE ProfileSucceeds(c)
  <2>1. /\ calls' = calls \ {c} /\ page' = page
        /\ spared' \subseteq Tokens /\ misled' \subseteq Tabs
    BY <1>1, <1>3, <1>4, <1>7 DEF ProfileSucceeds
  <2>2. PICK k, C : k = HeldToken(c) /\ C = calls \ {c}
    OBVIOUS
  <2>3. k \in Tokens \cup {Nil} /\ (k # Nil => owner[k] # Nil /\ (mixed \/ c.user = owner[k]))
    <3>1. c.stage = "ok" /\ c.op = "profile" /\ c.tab # Nil
      BY <1>1, <1>7, NilAssumption DEF ProfileSucceeds
    <3>2. c.user = owner[c.token] /\ (mixed \/ k = c.token)
      BY <1>1, <2>2, <3>1 DEF CallGood, FormGood, HeldToken
    <3>3. k \in Tokens \cup {Nil} /\ (k # Nil => owner[k] # Nil)
      <4>1. CASE c.mounted
        BY <1>1, <1>3, <2>2, <4>1 DEF HeldToken, SessionGood, Session
      <4>2. CASE ~c.mounted
        BY <1>1, <2>2, <4>2 DEF HeldToken, CallGood
      <4>3. QED
        BY <4>1, <4>2
    <3>4. QED
      BY <3>2, <3>3
  <2>4. CASE k # Nil
    <3>1. /\ SetAuth(c.tab, c.user, k) /\ C \subseteq calls
          /\ mixed' \in BOOLEAN /\ (mixed => mixed') /\ (Slips(C, c.tab, k) => mixed')
      BY <1>3, <1>7, <2>2, <2>4 DEF ProfileSucceeds, Slips
    <3>2. /\ SessionGood(owner, mixed', storage') /\ store' \in [Tabs -> Session]
          /\ \A a \in Tabs : SessionGood(owner, mixed', store'[a])
          /\ \A d \in C : CallGood(owner, mixed', store', d)
      BY <1>1, <2>3, <2>4, <3>1, SetAuthGood
    <3>3. QED
      BY <1>2, <1>3, <2>1, <2>2, <3>1, <3>2, AnsweredKeeps
  <2>5. CASE k = Nil
    <3>1. UNCHANGED <<storage, store, mixed>>
      BY <1>7, <2>2, <2>5 DEF ProfileSucceeds
    <3>2. QED
      BY <1>2, <1>3, <2>1, <3>1, AnsweredKeeps
  <2>6. QED
    BY <2>4, <2>5
<1>8. CASE SetPermissions(c)
  <2>1. /\ calls' = calls \ {c} /\ UNCHANGED <<page, spared, mixed>>
        /\ misled' \subseteq Tabs
        /\ storage' = [storage EXCEPT !.perms = c.user]
        /\ store' = [store EXCEPT ![c.tab].perms = c.user]
    BY <1>1, <1>3, <1>8 DEF SetPermissions
  <2>2. ASSUME NEW s, SessionGood(owner, mixed, s)
        PROVE  SessionGood(owner, mixed, [s EXCEPT !.perms = c.user])
    <3>1. PICK z : z = [s EXCEPT !.perms = c.user]
      OBVIOUS
    <3>2. s \in Session
      BY <2>2 DEF SessionGood
    <3>3. z \in Session /\ z.token = s.token /\ z.user = s.user
      BY <1>1, <3>1, <3>2 DEF Session
    <3>4. SessionGood(owner, mixed, z)
      BY <2>2, <3>3 DEF SessionGood
    <3>5. QED
      BY <3>1, <3>4
  <2>3. PICK s : s = [store[c.tab] EXCEPT !.perms = c.user]
    OBVIOUS
  <2>4. SessionGood(owner, mixed, s) /\ s \in Session
    <3>1. SessionGood(owner, mixed, s)
      BY <1>1, <1>3, <2>2, <2>3
    <3>2. QED
      BY <3>1 DEF SessionGood
  <2>5. store' = [store EXCEPT ![c.tab] = s]
    BY <1>3, <2>1, <2>3
  <2>6. store' \in [Tabs -> Session] /\ \A a \in Tabs : SessionGood(owner, mixed, store'[a])
    BY <1>3, <2>4, <2>5
  <2>7. SessionGood(owner, mixed, storage')
    BY <1>3, <2>1, <2>2
  <2>8. \A d \in calls' : CallGood(owner, mixed, store', d)
    <3>1. s.token = store[c.tab].token
      <4>1. store[c.tab] \in Session
        BY <1>1, <1>3
      <4>2. QED
        BY <2>3, <4>1 DEF Session
    <3>2. \A a \in Tabs : store'[a].token = store[a].token
      BY <1>1, <1>3, <2>5, <3>1
    <3>3. ASSUME NEW d \in calls PROVE CallGood(owner, mixed, store', d)
      <4>1. /\ CallGood(owner, mixed, store, d) /\ d.tab \in Tabs \cup {Nil}
            /\ d.mounted => d.tab # Nil
        BY <1>3 DEF CallGood, Call
      <4>2. QED
        BY <1>3, <3>2, <4>1, StoresGood
    <3>4. QED
      BY <2>1, <3>3
  <2>9. QED
    BY <1>2, <1>3, <2>1, <2>6, <2>7, <2>8, AnsweredKeeps
<1>9. CASE Fail(c)
  <2>1. /\ calls' = calls \ {c} /\ UNCHANGED <<storage, store, page, spared, mixed>>
        /\ misled' \subseteq Tabs
    BY <1>1, <1>3, <1>9 DEF Fail, client
  <2>2. QED
    BY <1>2, <1>3, <2>1, AnsweredKeeps
<1>10. CASE Eject(c)
  <2>1. PICK s : s = IF c.op = "logout" THEN NoSession
                     ELSE [storage EXCEPT !.token = Nil, !.user = Nil]
    OBVIOUS
  <2>2. /\ storage' = s /\ store' = [store EXCEPT ![c.tab] = s]
        /\ page' = [page EXCEPT ![c.tab] = "login"]
        /\ calls' = Forget(calls \ {c}, c.tab) /\ mixed' = mixed
        /\ spared' = spared \cup Abandoned(calls \ {c}, c.tab)
        /\ misled' = misled \ {c.tab}
    BY <1>10, <2>1 DEF Eject
  <2>3. s \in Session /\ SessionGood(owner, mixed, s)
    <3>1. CASE c.op = "logout"
      BY <2>1, <3>1, NoSessionGood DEF SessionGood
    <3>2. CASE c.op # "logout"
      <4>1. PICK x \in Tokens \cup {Nil}, y \in Users \cup {Nil} : x = Nil /\ y = Nil
        OBVIOUS
      <4>2. s = [storage EXCEPT !.token = x, !.user = y]
        BY <2>1, <3>2, <4>1
      <4>3. s \in Session
        BY <1>3, <4>2 DEF Session
      <4>4. s.token = x
        BY <1>3, <4>2 DEF Session
      <4>5. QED
        BY <4>1, <4>3, <4>4 DEF SessionGood
    <3>3. QED
      BY <3>1, <3>2
  <2>4. /\ store' \in [Tabs -> Session] /\ page' \in [Tabs -> {"login", "app"}]
        /\ \A a \in Tabs : SessionGood(owner, mixed, store'[a])
    BY <1>1, <1>3, <2>2, <2>3
  <2>5. \A d \in calls' : CallGood(owner, mixed, store', d)
    <3>1. \A a \in Tabs \ {c.tab} : store'[a] = store[a]
      BY <1>3, <2>2
    <3>2. \A d \in calls \ {c} : CallGood(owner, mixed, store, d)
      BY <1>3
    <3>3. calls' = Forget(calls \ {c}, c.tab)
      BY <2>2
    <3>4. PICK C, t : C = calls \ {c} /\ t = c.tab
      OBVIOUS
    <3>5. \A d \in Forget(C, t) : CallGood(owner, mixed, store', d)
      BY <3>1, <3>2, <3>4, ForgetGood
    <3>6. QED
      BY <3>3, <3>4, <3>5
  <2>6. Abandoned(calls \ {c}, c.tab) \subseteq Tokens
    BY <1>3, AbandonedTyped
  <2>7. spared' \subseteq Tokens /\ misled' \subseteq Tabs
    BY <1>3, <2>2, <2>6
  <2>8. /\ SessionGood(owner, mixed', storage') /\ mixed' \in BOOLEAN
        /\ \A a \in Tabs : SessionGood(owner, mixed', store'[a])
        /\ \A d \in calls' : CallGood(owner, mixed', store', d)
    BY <1>3, <2>2, <2>3, <2>4, <2>5
  <2>9. QED
    BY <1>2, <2>4, <2>7, <2>8, AnsweredKeeps
<1>11. QED
  BY <1>5, <1>6, <1>7, <1>8, <1>9, <1>10 DEF Answer
-----------------------------------------------------------------------------
(* The theorems. *)

LEMMA InvStep == SessionInv /\ [Next]_vars => SessionInv'
<1> SUFFICES ASSUME SessionInv, [Next]_vars PROVE SessionInv'
  OBVIOUS
<1>1. ASSUME NEW t \in Tabs,
             \/ GoToLogin(t) \/ GoToApp(t) \/ Reload(t) \/ HandleLogout(t)
             \/ UpdateProfile(t) \/ LeaveProfile(t) \/ \E u \in Users : Login(t, u)
      PROVE  SessionInv'
  BY <1>1, GoToLoginKeeps, GoToAppKeeps, ReloadKeeps, HandleLogoutKeeps, UpdateProfileKeeps,
     LoginKeeps
<1>2. ASSUME NEW c \in calls, Serve(c) \/ Lose(c) \/ Answer(c) PROVE SessionInv'
  BY <1>2, ServeKeeps, LoseKeeps, AnswerKeeps
<1>3. CASE UNCHANGED vars
  BY <1>3 DEF vars, server, client, history, SessionInv, ServerOK, ClientOK, CallsOK,
              CountsOK, HistoryOK
<1>4. QED
  BY <1>1, <1>2, <1>3 DEF Next

LEMMA SessionInvariant == Spec => []SessionInv
BY InvInit, InvStep, PTL DEF Spec

\* Tokens, storage, tabs and calls keep their types.
THEOREM SessionTypeCorrect == Spec => []TypeOK
BY SessionInvariant, InvIsTyped, PTL

\* The user that is stored or shown is the one the token was issued to, whatever
\* logins, profiles and refusals overlap, as long as no profile was sent with the
\* token of another tab's session and none waited while its tab got another session.
THEOREM UsersOwnTheirTokens == Spec => []UserOwnsToken
BY SessionInvariant, InvOwns, PTL
-----------------------------------------------------------------------------
(* Revoked tokens.  The stored token, once revoked, has a tab that waits   *)
(* for the logout; this is kept because the token of a logout that no tab  *)
(* waits for is spared before the server comes to it.                      *)

AbandonedAreSpared ==
  \A c \in calls : c.op = "logout" /\ c.tab = Nil /\ c.token # Nil => c.token \in spared

\* A tab waits for the logout of token k.
Awaited(k) == \E c \in calls : c.op = "logout" /\ c.tab # Nil /\ c.token = k

RevokedInv == RevokedTokensGoAway /\ AbandonedAreSpared

\* A request is of its tab; AppLayout asks for the permissions of its own.
LEMMA RequestOf ==
  \A id, t, op, u, k : /\ Request(id, t, op, u, k).tab = t
                       /\ Request(id, t, op, u, k).op = op
BY DEF Request

\* Only the calls of the form that is left change.
LEMMA UnmountOthers ==
  ASSUME NEW C, NEW t, NEW op, NEW k, \A c \in C : c \in Call
  PROVE  /\ \A c \in C : c.op # op => c \in Unmount(C, t, op, k)
         /\ \A d \in Unmount(C, t, op, k) : d \in C \/ (d.op = op /\ d.tab = t)
<1>1. \A c \in C : c.op # op => c \in Unmount(C, t, op, k)
  BY DEF Unmount
<1>2. ASSUME NEW c \in C, c.tab = t, c.op = op,
             NEW d, d = [c EXCEPT !.mounted = FALSE, !.kept = k]
      PROVE  d.op = op /\ d.tab = t
  BY <1>2 DEF Call
<1>3. QED
  BY <1>1, <1>2 DEF Unmount

LEMMA FetchOf ==
  ASSUME NEW id, NEW t, NEW s
  PROVE  \E r : FetchMine(id, t, s) = {r} /\ r.tab = t /\ r.op = "mine"
BY RequestOf DEF FetchMine

\* What the user does: the logouts under way stay, new calls have a tab.
LEMMA SentRevokes ==
  ASSUME RevokedInv, \A c \in calls : c.op = "logout" => c \in calls',
         \A c \in calls' : c \in calls \/ c.tab # Nil,
         UNCHANGED <<storage, denylist, spared>>
  PROVE  RevokedInv'
BY DEF RevokedInv, RevokedTokensGoAway, AbandonedAreSpared

\* A tab that is loaded anew waits for no logout: their tokens are spared.
LEMMA ForgottenRevokes ==
  ASSUME SessionInv, NEW C, C \subseteq calls, NEW t \in Tabs,
         \A c \in C : c.op = "logout" /\ c.tab = Nil /\ c.token # Nil => c.token \in spared
  PROVE  LET s == spared \cup Abandoned(C, t)
         IN  /\ \A d \in Forget(C, t) :
                  d.op = "logout" /\ d.tab = Nil /\ d.token # Nil => d.token \in s
             /\ \A c \in C : c.op = "logout" /\ c.tab # Nil /\ c.token # Nil /\ c.token \notin s =>
                  c \in Forget(C, t)
<1>1. ASSUME NEW c \in C, c.tab # t PROVE c \in Forget(C, t)
  BY <1>1 DEF Forget
<1>2. ASSUME NEW c \in C, c.tab = t, c.op = "logout", c.token # Nil
      PROVE  c.token \in Abandoned(C, t)
  BY <1>2 DEF Abandoned
<1>3. ASSUME NEW d \in Forget(C, t), d.op = "logout", d.tab = Nil, d.token # Nil
      PROVE  d.token \in spared \cup Abandoned(C, t)
  <2>1. PICK c \in C : d = IF c.tab = t THEN [c EXCEPT !.tab = Nil, !.mounted = FALSE] ELSE c
    BY Zenon DEF Forget
  <2>2. c \in Call
    BY DEF SessionInv, CallsOK, CallGood
  <2>3. d.op = c.op /\ d.token = c.token
    <3>1. PICK b \in BOOLEAN : b = FALSE
      OBVIOUS
    <3>2. d = IF c.tab = t THEN [c EXCEPT !.tab = Nil, !.mounted = b] ELSE c
      BY <2>1, <3>1
    <3>3. QED
      BY <2>2, <3>2 DEF Call
  <2>4. CASE c.tab = t
    BY <1>2, <1>3, <2>3, <2>4
  <2>5. CASE c.tab # t
    BY <1>3, <2>1, <2>3, <2>5
  <2>6. QED
    BY <2>4, <2>5
<1>4. QED
  BY <1>1, <1>2, <1>3

LEMMA ReloadRevokes ==
  ASSUME SessionInv, RevokedInv, NEW t \in Tabs, Reload(t) PROVE RevokedInv'
<1>1. /\ UNCHANGED <<storage, denylist>>
      /\ spared' = spared \cup Abandoned(calls, t)
      /\ Forget(calls, t) \subseteq calls'
      /\ \A d \in calls' : d \in Forget(calls, t) \/ d.op = "mine"
  BY DEF Reload, FetchMine, Request, server
<1>2. /\ \A d \in Forget(calls, t) :
           d.op = "logout" /\ d.tab = Nil /\ d.token # Nil => d.token \in spared'
      /\ \A c \in calls :
           c.op = "logout" /\ c.tab # Nil /\ c.token # Nil /\ c.token \notin spared' =>
             c \in Forget(calls, t)
  BY <1>1, ForgottenRevokes DEF RevokedInv, AbandonedAreSpared
<1>3. AbandonedAreSpared'
  BY <1>1, <1>2 DEF AbandonedAreSpared
<1>4. ASSUME storage.token \in denylist \ spared'
      PROVE  \E c \in calls' : c.op = "logout" /\ c.tab # Nil /\ c.token = storage.token
  <2>1. storage.token # Nil
    BY <1>4, NilAssumption DEF SessionInv, ServerOK, Tokens
  <2>2. PICK c \in calls : c.op = "logout" /\ c.tab # Nil /\ c.token = storage.token
    BY <1>1, <1>4 DEF RevokedInv, RevokedTokensGoAway
  <2>3. QED
    BY <1>1, <1>2, <1>4, <2>1, <2>2
<1>5. QED
  BY <1>1, <1>3, <1>4 DEF RevokedInv, RevokedTokensGoAway

\* A call that moves on to d keeps its tab, and a logout its token.
LEMMA ServedRevokes ==
  ASSUME SessionInv, RevokedInv, NEW c \in calls, NEW d, Replace(c, d),
         d.op = c.op, d.tab = c.tab, c.op = "logout" => d.token = c.token,
         UNCHANGED <<storage, spared>>,
         denylist' = denylist \/ (c.op = "logout" /\ denylist' = denylist \cup ({c.token} \ {Nil}))
  PROVE  RevokedInv'
<1>1. AbandonedAreSpared'
  BY DEF RevokedInv, AbandonedAreSpared, Replace
<1>2. ASSUME storage.token \in denylist' \ spared
      PROVE  \E e \in calls' : e.op = "logout" /\ e.tab # Nil /\ e.token = storage.token
  <2>1. CASE storage.token \in denylist
    <3>1. PICK e \in calls : e.op = "logout" /\ e.tab # Nil /\ e.token = storage.token
      BY <1>2, <2>1 DEF RevokedInv, RevokedTokensGoAway
    <3>2. QED
      BY <3>1 DEF Replace
  <2>2. CASE storage.token \notin denylist
    <3>1. c.op = "logout" /\ c.token = storage.token /\ c.token # Nil
      BY <1>2, <2>2
    <3>2. c.tab # Nil
      BY <1>2, <3>1 DEF RevokedInv, AbandonedAreSpared
    <3>3. QED
      BY <3>1, <3>2 DEF Replace
  <2>3. QED
    BY <2>1, <2>2
<1>3. QED
  BY <1>1, <1>2 DEF RevokedInv, RevokedTokensGoAway

LEMMA ServeRevokes ==
  ASSUME SessionInv, RevokedInv, NEW c \in calls, Serve(c) \/ Lose(c) PROVE RevokedInv'
<1>1. c \in Call
  BY DEF SessionInv, CallsOK, CallGood
<1>2. UNCHANGED <<storage, spared>>
  BY DEF Serve, Lose, client, history
<1>3. \A s : /\ [c EXCEPT !.stage = s].op = c.op /\ [c EXCEPT !.stage = s].tab = c.tab
             /\ [c EXCEPT !.stage = s].token = c.token
  BY <1>1 DEF Call
<1>4. ASSUME NEW s, To(c, s),
             denylist' = denylist
               \/ (c.op = "logout" /\ denylist' = denylist \cup ({c.token} \ {Nil}))
      PROVE  RevokedInv'
  BY <1>2, <1>3, <1>4, ServedRevokes DEF To
<1>5. CASE IssueToken(c)
  <2>1. ASSUME NEW k \in Tokens, Replace(c, [c EXCEPT !.stage = "ok", !.token = k])
        PROVE  RevokedInv'
    <3>1. PICK d : d = [c EXCEPT !.stage = "ok", !.token = k]
      OBVIOUS
    <3>2. d.op = c.op /\ d.tab = c.tab
      BY <1>1, <3>1 DEF Call
    <3>3. Replace(c, d) /\ c.op = "login" /\ denylist' = denylist
      BY <1>5, <2>1, <3>1 DEF IssueToken
    <3>4. QED
      BY <1>2, <3>2, <3>3, ServedRevokes
  <2>2. QED
    BY <1>4, <1>5, <2>1 DEF IssueToken
<1>6. CASE Revoke(c)
  BY <1>4, <1>6 DEF Revoke
<1>7. CASE Authenticate(c)
  <2>1. PICK u : u = owner[c.token]
    OBVIOUS
  <2>2. PICK d : d = [c EXCEPT !.stage = "ok", !.user = u]
    OBVIOUS
  <2>3. d.op = c.op /\ d.tab = c.tab /\ c.op # "logout" /\ denylist' = denylist
    BY <1>1, <1>7, <2>2 DEF Call, Authenticate, server
  <2>4. CASE Replace(c, d)
    BY <1>2, <2>3, <2>4, ServedRevokes
  <2>5. CASE To(c, "refused")
    BY <1>4, <2>3, <2>5
  <2>6. QED
    BY <1>7, <2>1, <2>2, <2>4, <2>5 DEF Authenticate
<1>8. CASE Lose(c)
  BY <1>4, <1>8 DEF Lose, server
<1>9. QED
  BY <1>5, <1>6, <1>7, <1>8 DEF Serve

\* An answer that stores a token spares it when it is revoked; the end of a logout
\* leaves none.
LEMMA AnswerRevokes ==
  ASSUME SessionInv, RevokedInv, NEW c \in calls, Answer(c) PROVE RevokedInv'
<1>1. /\ c.tab \in Tabs /\ c \in Call /\ c.tab # Nil /\ \A d \in calls \ {c} : d \in Call
      /\ storage \in Session /\ Nil \notin denylist /\ denylist' = denylist
  BY NilAssumption DEF SessionInv, CallsOK, CallGood, Call, ClientOK, SessionGood, ServerOK,
                       Tokens, Answer, server
<1>2. ASSUME c.op # "logout",
             \A d \in calls \ {c} : d.op = "logout" => d \in calls',
             \A d \in calls' : d \in calls \/ d.op \in {"mine", "login", "profile"},
             \/ storage'.token = storage.token /\ spared \subseteq spared'
             \/ spared' = spared \cup Revived
      PROVE  RevokedInv'
  <2>1. AbandonedAreSpared'
    BY <1>2 DEF RevokedInv, AbandonedAreSpared
  <2>2. RevokedTokensGoAway'
    BY <1>1, <1>2 DEF RevokedInv, RevokedTokensGoAway, Revived
  <2>3. QED
    BY <2>1, <2>2 DEF RevokedInv
<1>3. CASE LoginSucceeds(c)
  <2>1. c.op # "logout" /\ spared' = spared \cup Revived
    BY <1>3 DEF LoginSucceeds
  <2>2. PICK C, t : C = calls \ {c} /\ t = c.tab
    OBVIOUS
  <2>3. ASSUME NEW op \in {"login", "profile"}, NEW k, NEW F, \A d \in F : d.op = "mine",
               calls' = Unmount(C, t, op, k) \cup F
        PROVE  RevokedInv'
    <3>1. /\ \A d \in C : d.op # op => d \in Unmount(C, t, op, k)
          /\ \A d \in Unmount(C, t, op, k) : d \in C \/ (d.op = op /\ d.tab = t)
      BY <1>1, <2>2, UnmountOthers
    <3>2. \A d \in calls \ {c} : d.op = "logout" => d \in calls'
      BY <2>2, <2>3, <3>1
    <3>3. \A d \in calls' : d \in calls \/ d.op \in {"mine", "login", "profile"}
      BY <2>2, <2>3, <3>1
    <3>4. QED
      BY <1>2, <2>1, <3>2, <3>3
  <2>4. CASE page[c.tab] = "login"
    <3>1. calls' = Unmount(C, t, "login", Nil) \cup FetchMine(c.id, t, store)
      BY <1>3, <2>2, <2>4 DEF LoginSucceeds
    <3>2. \A d \in FetchMine(c.id, t, store) : d.op = "mine"
      BY FetchOf
    <3>3. QED
      BY <2>3, <3>1, <3>2
  <2>5. CASE page[c.tab] # "login"
    <3>1. PICK op, k, F : op = "profile" /\ k = c.token /\ F = {}
      OBVIOUS
    <3>2. calls' = Unmount(C, t, op, k) \cup F
      BY <1>3, <2>2, <2>5, <3>1 DEF LoginSucceeds
    <3>3. \A d \in F : d.op = "mine"
      BY <3>1
    <3>4. op \in {"login", "profile"}
      BY <3>1
    <3>5. QED
      BY <2>3, <3>2, <3>3, <3>4
  <2>6. QED
    BY <2>4, <2>5
<1>4. CASE ProfileSucceeds(c)
  <2>1. c.op # "logout" /\ calls' = calls \ {c} /\ spared' = spared \cup Revived
    BY <1>4 DEF ProfileSucceeds
  <2>2. QED
    BY <1>2, <2>1
<1>5. CASE SetPermissions(c)
  <2>1. storage'.token = storage.token
    BY <1>1, <1>5 DEF SetPermissions, Session
  <2>2. c.op # "logout" /\ calls' = calls \ {c} /\ spared' = spared
    BY <1>5 DEF SetPermissions
  <2>3. QED
    BY <1>2, <2>1, <2>2
<1>6. CASE Fail(c)
  <2>1. c.op # "logout" /\ calls' = calls \ {c} /\ spared' = spared /\ storage' = storage
    BY <1>6 DEF Fail, client
  <2>2. QED
    BY <1>2, <2>1
<1>7. CASE LogoutEnds(c)
  <2>1. storage'.token = Nil /\ spared' = spared
    BY <1>7 DEF LogoutEnds, ClearAuth, NoSession, history
  <2>2. \A d \in calls' : d \in calls \/ d.op = "profile"
    BY <1>1, <1>7, UnmountOthers DEF LogoutEnds
  <2>3. QED
    BY <1>1, <2>1, <2>2 DEF RevokedInv, RevokedTokensGoAway, AbandonedAreSpared
<1>8. CASE Eject(c)
  <2>1. storage'.token = Nil
    BY <1>1, <1>8 DEF Eject, NoSession, Session
  <2>2. /\ calls' = Forget(calls \ {c}, c.tab)
        /\ spared' = spared \cup Abandoned(calls \ {c}, c.tab)
    BY <1>8 DEF Eject
  <2>3. \A d \in calls \ {c} :
          d.op = "logout" /\ d.tab = Nil /\ d.token # Nil => d.token \in spared
    BY DEF RevokedInv, AbandonedAreSpared
  <2>4. \A d \in Forget(calls \ {c}, c.tab) :
          d.op = "logout" /\ d.tab = Nil /\ d.token # Nil =>
            d.token \in spared \cup Abandoned(calls \ {c}, c.tab)
    BY <1>1, <2>3, ForgottenRevokes
  <2>5. QED
    BY <1>1, <2>1, <2>2, <2>4 DEF RevokedInv, RevokedTokensGoAway, AbandonedAreSpared
<1>9. QED
  BY <1>3, <1>4, <1>5, <1>6, <1>7, <1>8 DEF Answer

LEMMA RevokedStep == SessionInv /\ RevokedInv /\ [Next]_vars => RevokedInv'
<1> SUFFICES ASSUME SessionInv, RevokedInv, [Next]_vars PROVE RevokedInv'
  OBVIOUS
<1>1. ASSUME NEW t \in Tabs,
             \/ GoToLogin(t) \/ GoToApp(t) \/ HandleLogout(t) \/ UpdateProfile(t)
             \/ LeaveProfile(t) \/ \E u \in Users : Login(t, u)
      PROVE  RevokedInv'
  <2>1. t # Nil
    BY NilAssumption
  <2>2. UNCHANGED <<storage, denylist, spared>>
    BY <1>1 DEF GoToLogin, GoToApp, HandleLogout, UpdateProfile, LeaveProfile, Login,
                server, client, history
  <2>3. \A op, k : /\ \A d \in calls : d.op # op => d \in Unmount(calls, t, op, k)
                   /\ \A d \in Unmount(calls, t, op, k) :
                        d \in calls \/ (d.op = op /\ d.tab = t)
    BY UnmountOthers DEF SessionInv, CallsOK, CallGood
  <2>4. \A c \in calls' : c \in calls \/ c.tab = t
    <3>1. CASE GoToLogin(t) \/ LeaveProfile(t)
      BY <2>3, <3>1 DEF GoToLogin, LeaveProfile
    <3>2. CASE GoToApp(t)
      BY <2>3, <3>2, FetchOf DEF GoToApp
    <3>3. CASE HandleLogout(t)
      BY <3>3, RequestOf DEF HandleLogout
    <3>4. CASE UpdateProfile(t)
      BY <3>4, RequestOf DEF UpdateProfile
    <3>5. ASSUME NEW u \in Users, Login(t, u)
          PROVE  \A c \in calls' : c \in calls \/ c.tab = t
      BY <3>5, RequestOf DEF Login
    <3>6. QED
      BY <1>1, <3>1, <3>2, <3>3, <3>4, <3>5
  <2>5. \A c \in calls : c.op = "logout" => c \in calls'
    BY <1>1, <2>3 DEF GoToLogin, GoToApp, HandleLogout, UpdateProfile, LeaveProfile, Login
  <2>6. QED
    BY <2>1, <2>2, <2>4, <2>5, SentRevokes
<1>2. ASSUME NEW t \in Tabs, Reload(t) PROVE RevokedInv'
  BY <1>2, ReloadRevokes
<1>3. ASSUME NEW c \in calls, Serve(c) \/ Lose(c) \/ Answer(c) PROVE RevokedInv'
  BY <1>3, ServeRevokes, AnswerRevokes
<1>4. CASE UNCHANGED vars
  BY <1>4 DEF vars, server, client, history, RevokedInv, RevokedTokensGoAway,
              AbandonedAreSpared
<1>5. QED
  BY <1>1, <1>2, <1>3, <1>4 DEF Next

\* A revoked token leaves localStorage once its logout has been answered: while it is
\* stored some tab waits for that logout, unless the tab was loaded anew meanwhile or
\* an answer to what was sent before stored the token again.
THEOREM RevokedTokensLeave == Spec => []RevokedTokensGoAway
<1>1. Init => RevokedInv
  BY DEF Init, RevokedInv, RevokedTokensGoAway, AbandonedAreSpared
<1>2. RevokedInv => RevokedTokensGoAway
  BY DEF RevokedInv
<1>3. QED
  BY <1>1, <1>2, SessionInvariant, RevokedStep, PTL DEF Spec
-----------------------------------------------------------------------------
(* The menu.                                                               *)

\* A call that moves on is still pending, or not.
LEMMA SamePending ==
  ASSUME NEW c \in calls, NEW d, Replace(c, d), d.op = c.op, d.tab = c.tab,
         NEW t, NEW op
  PROVE  Pending(t, op) <=> Pending(t, op)'
BY DEF Pending, Replace

LEMMA ServeMenu ==
  ASSUME SessionInv, MenuIsOfTheUser, NEW c \in calls, Serve(c) \/ Lose(c)
  PROVE  MenuIsOfTheUser'
<1>1. c \in Call
  BY DEF SessionInv, CallsOK, CallGood
<1>2. UNCHANGED <<store, page, misled, mixed>>
  BY DEF Serve, Lose, client, history
<1>3. PICK d : Replace(c, d) /\ d.op = c.op /\ d.tab = c.tab
  <2>1. \A s : [c EXCEPT !.stage = s].op = c.op /\ [c EXCEPT !.stage = s].tab = c.tab
    BY <1>1 DEF Call
  <2>2. \A s, k : /\ [c EXCEPT !.stage = s, !.token = k].op = c.op
                  /\ [c EXCEPT !.stage = s, !.token = k].tab = c.tab
    BY <1>1 DEF Call
  <2>3. \A s, u : /\ [c EXCEPT !.stage = s, !.user = u].op = c.op
                  /\ [c EXCEPT !.stage = s, !.user = u].tab = c.tab
    BY <1>1 DEF Call
  <2>4. ASSUME NEW s, To(c, s) PROVE \E d : Replace(c, d) /\ d.op = c.op /\ d.tab = c.tab
    BY <2>1, <2>4 DEF To
  <2>5. CASE IssueToken(c)
    <3>1. ASSUME NEW k, Replace(c, [c EXCEPT !.stage = "ok", !.token = k])
          PROVE  \E d : Replace(c, d) /\ d.op = c.op /\ d.tab = c.tab
      <4>1. PICK e : e = [c EXCEPT !.stage = "ok", !.token = k]
        OBVIOUS
      <4>2. e.op = c.op /\ e.tab = c.tab /\ Replace(c, e)
        BY <2>2, <3>1, <4>1
      <4>3. QED
        BY <4>2
    <3>2. QED
      BY <2>4, <2>5, <3>1 DEF IssueToken
  <2>6. CASE Revoke(c)
    BY <2>4, <2>6 DEF Revoke
  <2>7. CASE Authenticate(c)
    <3>1. ASSUME NEW u, Replace(c, [c EXCEPT !.stage = "ok", !.user = u])
          PROVE  \E d : Replace(c, d) /\ d.op = c.op /\ d.tab = c.tab
      <4>1. PICK e : e = [c EXCEPT !.stage = "ok", !.user = u]
        OBVIOUS
      <4>2. e.op = c.op /\ e.tab = c.tab /\ Replace(c, e)
        BY <2>3, <3>1, <4>1
      <4>3. QED
        BY <4>2
    <3>2. QED
      BY <2>4, <2>7, <3>1 DEF Authenticate
  <2>8. CASE Lose(c)
    BY <2>4, <2>8 DEF Lose
  <2>9. QED
    BY <2>5, <2>6, <2>7, <2>8 DEF Serve
<1>4. \A t : Pending(t, "mine") <=> Pending(t, "mine")'
  BY <1>3, SamePending
<1>5. QED
  BY <1>2, <1>4 DEF MenuIsOfTheUser

LEMMA AnswerMenu ==
  ASSUME SessionInv, MenuIsOfTheUser, NEW c \in calls, Answer(c)
  PROVE  MenuIsOfTheUser'
<1>0. \A t, op, k : \A d \in calls \ {c} : d.op # op => d \in Unmount(calls \ {c}, t, op, k)
  <2>1. PICK C : C = calls \ {c}
    OBVIOUS
  <2>2. \A d \in C : d \in Call
    BY <2>1 DEF SessionInv, CallsOK, CallGood
  <2>3. \A t, op, k : \A d \in C : d.op # op => d \in Unmount(C, t, op, k)
    BY <2>2, UnmountOthers
  <2>4. QED
    BY <2>1, <2>3
<1>1. /\ c.tab \in Tabs /\ c.tab # Nil /\ c \in Call /\ store \in [Tabs -> Session]
      /\ page \in [Tabs -> {"login", "app"}] /\ \A d \in calls : d \in Call
  BY DEF SessionInv, CallsOK, CallGood, Call, ClientOK, Answer
<1> DEFINE Fits(t) ==
             page[t] = "app" /\ ~Pending(t, "mine") /\ store[t].user # Nil =>
               store[t].perms = store[t].user
<1>2. \A t \in Tabs \ misled : Fits(t)
  BY DEF MenuIsOfTheUser
<1>3. \A t \in Tabs \ {c.tab} :
        /\ page'[t] = page[t] /\ store'[t] = store[t]
        /\ Pending(t, "mine") => Pending(t, "mine")'
        /\ t \in misled => t \in misled'
  <2>1. \A t \in Tabs \ {c.tab} : page'[t] = page[t] /\ store'[t] = store[t]
    BY <1>1 DEF Answer, LoginSucceeds, LogoutEnds, ProfileSucceeds, SetPermissions, Fail,
                Eject, SetAuth, ClearAuth, client
  <2>2. misled \ {c.tab} \subseteq misled'
    BY DEF Answer, LoginSucceeds, LogoutEnds, ProfileSucceeds, SetPermissions, Fail,
           Eject, history
  <2>3. \A d \in calls : d.tab # c.tab /\ d.op = "mine" => d \in calls'
    <3>1. CASE LoginSucceeds(c) \/ LogoutEnds(c)
      <4>1. PICK op, k : Unmount(calls \ {c}, c.tab, op, k) \subseteq calls' /\ op # "mine"
                         /\ c.op # "mine"
        <5>1. \E k : \/ Unmount(calls \ {c}, c.tab, "login", Nil) \subseteq calls'
                      \/ Unmount(calls \ {c}, c.tab, "profile", k) \subseteq calls'
          BY <3>1 DEF LoginSucceeds, LogoutEnds
        <5>2. c.op # "mine" /\ "login" # "mine" /\ "profile" # "mine"
          BY <3>1 DEF LoginSucceeds, LogoutEnds
        <5>3. QED
          BY <5>1, <5>2, Zenon
      <4>2. \A d \in calls \ {c} : d.op # op => d \in Unmount(calls \ {c}, c.tab, op, k)
        BY <1>0, Zenon
      <4>3. QED
        BY <4>1, <4>2
    <3>2. CASE ProfileSucceeds(c) \/ SetPermissions(c) \/ Fail(c) \/ Eject(c)
      BY <3>2 DEF ProfileSucceeds, SetPermissions, Fail, Eject, Forget
    <3>3. QED
      BY <3>1, <3>2 DEF Answer
  <2>4. QED
    BY <2>1, <2>2, <2>3 DEF Pending
<1>4. c.tab \notin misled' => Fits(c.tab)'
  <2> SUFFICES ASSUME c.tab \notin misled' PROVE Fits(c.tab)'
    OBVIOUS
  <2>1. CASE LoginSucceeds(c)
    <3>1. page[c.tab] = "login"
      BY <2>1 DEF LoginSucceeds
    <3>2. \E d \in calls' : d.tab = c.tab /\ d.op = "mine"
      <4>1. PICK r : FetchMine(c.id, c.tab, store) = {r} /\ r.tab = c.tab /\ r.op = "mine"
        BY FetchOf
      <4>2. r \in calls'
        BY <2>1, <3>1, <4>1 DEF LoginSucceeds
      <4>3. QED
        BY <4>1, <4>2
    <3>3. QED
      BY <3>2 DEF Pending
  <2>2. CASE LogoutEnds(c) \/ Eject(c)
    <3>1. page'[c.tab] = "login"
      BY <1>1, <2>2 DEF LogoutEnds, Eject
    <3>2. QED
      BY <3>1
  <2>3. CASE ProfileSucceeds(c)
    <3>1. c.user = store[c.tab].user /\ c.tab \notin misled /\ page' = page
      BY <2>3 DEF ProfileSucceeds
    <3>2. store'[c.tab].user = store[c.tab].user /\ store'[c.tab].perms = store[c.tab].perms
      <4>1. CASE HeldToken(c) = Nil
        BY <2>3, <4>1 DEF ProfileSucceeds
      <4>2. CASE HeldToken(c) # Nil
        <5>1. PICK k, u, s : k = HeldToken(c) /\ u = c.user /\ s = store[c.tab]
          OBVIOUS
        <5>2. store'[c.tab] = [s EXCEPT !.token = k, !.user = u]
          BY <1>1, <2>3, <4>2, <5>1 DEF ProfileSucceeds, SetAuth
        <5>3. s \in Session
          BY <1>1, <5>1
        <5>4. [s EXCEPT !.token = k, !.user = u].user = u
          BY <5>3 DEF Session
        <5>5. [s EXCEPT !.token = k, !.user = u].perms = s.perms
          BY <5>3 DEF Session
        <5>6. QED
          BY <3>1, <5>1, <5>2, <5>4, <5>5
      <4>3. QED
        BY <4>1, <4>2
    <3>3. Pending(c.tab, "mine") => Pending(c.tab, "mine")'
      BY <2>3 DEF ProfileSucceeds, Pending
    <3>4. QED
      BY <1>1, <1>2, <3>1, <3>2, <3>3
  <2>4. CASE SetPermissions(c)
    <3>1. c.user = store[c.tab].user
      BY <2>4 DEF SetPermissions
    <3>2. PICK u, s : u = c.user /\ s = store[c.tab]
      OBVIOUS
    <3>3. store'[c.tab] = [s EXCEPT !.perms = u]
      BY <1>1, <2>4, <3>2 DEF SetPermissions
    <3>4. s \in Session
      BY <1>1, <3>2
    <3>5. [s EXCEPT !.perms = u].perms = u /\ [s EXCEPT !.perms = u].user = s.user
      BY <3>4 DEF Session
    <3>6. QED
      BY <3>1, <3>2, <3>3, <3>5
  <2>5. CASE Fail(c)
    <3>1. c.op # "mine" /\ c.tab \notin misled /\ calls' = calls \ {c}
          /\ UNCHANGED <<store, page>>
      BY <2>5 DEF Fail, client
    <3>2. Pending(c.tab, "mine") => Pending(c.tab, "mine")'
      BY <3>1 DEF Pending
    <3>3. QED
      BY <1>1, <1>2, <3>1, <3>2
  <2>6. QED
    BY <2>1, <2>2, <2>3, <2>4, <2>5 DEF Answer
<1>5. \A t \in Tabs \ misled' : Fits(t)'
  BY <1>2, <1>3, <1>4
<1>6. QED
  BY <1>5 DEF MenuIsOfTheUser

LEMMA MenuStep == SessionInv /\ MenuIsOfTheUser /\ [Next]_vars => MenuIsOfTheUser'
<1> SUFFICES ASSUME SessionInv, MenuIsOfTheUser, [Next]_vars PROVE MenuIsOfTheUser'
  OBVIOUS
<1>1. store \in [Tabs -> Session] /\ page \in [Tabs -> {"login", "app"}]
  BY DEF SessionInv, ClientOK
<1>0. \A t, op, k : \A d \in calls : d.op # op => d \in Unmount(calls, t, op, k)
  BY UnmountOthers DEF SessionInv, CallsOK, CallGood
<1>2. ASSUME NEW t \in Tabs, GoToLogin(t) \/ LeaveProfile(t) PROVE MenuIsOfTheUser'
  <2>1. calls' = Unmount(calls, t, "profile", store[t].token) /\ UNCHANGED <<store, misled>>
        /\ \A a \in Tabs : page'[a] = "app" => page[a] = "app"
    BY <1>1, <1>2 DEF GoToLogin, LeaveProfile, client, history
  <2>2. \A a : Pending(a, "mine") => Pending(a, "mine")'
    BY <1>0, <2>1 DEF Pending
  <2>3. QED
    BY <2>1, <2>2 DEF MenuIsOfTheUser
<1>3. ASSUME NEW t \in Tabs, GoToApp(t) PROVE MenuIsOfTheUser'
  <2>1. Pending(t, "mine")'
    BY <1>3, FetchOf DEF GoToApp, Pending
  <2>2. \A a : Pending(a, "mine") => Pending(a, "mine")'
    BY <1>0, <1>3 DEF GoToApp, Pending
  <2>3. QED
    BY <1>1, <1>3, <2>1, <2>2 DEF GoToApp, MenuIsOfTheUser
<1>4. ASSUME NEW t \in Tabs, Reload(t) PROVE MenuIsOfTheUser'
  <2>1. page'[t] = "app" => Pending(t, "mine")'
    <3>1. PICK r : FetchMine(acts', t, store') = {r} /\ r.tab = t /\ r.op = "mine"
      BY FetchOf
    <3>2. page'[t] = "app" => r \in calls'
      BY <1>4, <3>1 DEF Reload
    <3>3. QED
      BY <3>1, <3>2 DEF Pending
  <2>2. \A a \in Tabs \ {t} : Pending(a, "mine") => Pending(a, "mine")'
    BY <1>4 DEF Reload, Forget, Pending
  <2>3. \A a \in Tabs \ {t} : /\ page'[a] = page[a] /\ store'[a] = store[a]
                              /\ a \in misled => a \in misled'
    BY <1>1, <1>4 DEF Reload
  <2>4. QED
    BY <2>1, <2>2, <2>3 DEF MenuIsOfTheUser
<1>5. ASSUME NEW t \in Tabs,
             HandleLogout(t) \/ UpdateProfile(t) \/ \E u \in Users : Login(t, u)
      PROVE  MenuIsOfTheUser'
  <2>1. calls \subseteq calls' /\ UNCHANGED <<store, page, misled>>
    BY <1>5 DEF HandleLogout, UpdateProfile, Login, client, history
  <2>2. QED
    BY <2>1 DEF MenuIsOfTheUser, Pending
<1>6. ASSUME NEW c \in calls, Serve(c) \/ Lose(c) \/ Answer(c) PROVE MenuIsOfTheUser'
  BY <1>6, ServeMenu, AnswerMenu
<1>7. CASE UNCHANGED vars
  BY <1>7 DEF vars, client, history, MenuIsOfTheUser, Pending
<1>8. QED
  BY <1>2, <1>3, <1>4, <1>5, <1>6, <1>7 DEF Next

\* The menu on the screen is that of the user who is shown: whatever permissions an
\* earlier session left in localStorage, while a tab shows a page either its
\* permissions are on the way or they are those of its user, but for permissions that
\* failed to come or came for a session that was over.
THEOREM MenusAreOfTheUser == Spec => []MenuIsOfTheUser
<1>1. Init => MenuIsOfTheUser
  BY DEF Init, MenuIsOfTheUser
<1>2. QED
  BY <1>1, SessionInvariant, MenuStep, PTL DEF Spec
=============================================================================
