-------------------------------- MODULE Session -------------------------------
(***************************************************************************)
(* The session of a browser: what its tabs share in local storage, what each   *)
(* tab keeps of it, the requests they send with it, and the storage events      *)
(* that tell a tab what the others did.                                          *)
(***************************************************************************)
EXTENDS Naturals, Sequences

CONSTANTS
  Views,      \* the tabs of the browser
  MaxLogins   \* bound on the logins

ASSUME SessionAssumption == MaxLogins \in Nat

VARIABLES
  storage,    \* access_token in local storage: a login, or 0
  signed,     \* the token each tab keeps in its state, or 0
  screen,     \* "login", "app", or "leaving" while the browser loads the login page
  news,       \* the storage events on their way to each tab
  sent,       \* the tokens of each tab's requests in flight
  expired,    \* the logins whose token the server no longer accepts
  logins,     \* how many there were
  deaf,       \* the tabs that have read the storage and do not listen yet
  missed      \* history: the tabs that lost a removal so, since they were loaded

sessionVars == <<storage, signed, screen, news, sent, expired, logins, deaf, missed>>
hearingVars == <<deaf, missed>>

\* Writing the key tells the other tabs; removing what is not there tells nobody.
Store(t, value) ==
  /\ storage' = value
  /\ news' = [v \in Views |-> IF v = t \/ storage = value THEN news[v] ELSE Append(news[v], value)]

\* LoginPage: a successful login is stored and shown, and the dashboard opens.  The form was
\* filled in and the server has answered: the page listens by then.
Login(t) ==
  /\ screen[t] = "login" /\ t \notin deaf /\ logins < MaxLogins
  /\ logins' = logins + 1
  /\ Store(t, logins + 1)
  /\ signed' = [signed EXCEPT ![t] = logins + 1]
  /\ screen' = [screen EXCEPT ![t] = "app"]
  /\ missed' = missed \ {t}
  /\ UNCHANGED <<sent, expired, deaf>>

\* The button of the top bar; ProtectedRoute then shows the login page.
Logout(t) ==
  /\ screen[t] = "app"
  /\ Store(t, 0)
  /\ signed' = [signed EXCEPT ![t] = 0]
  /\ screen' = [screen EXCEPT ![t] = "login"]
  /\ UNCHANGED <<sent, expired, logins, hearingVars>>

\* Mutant: a tab does not look at the storage events.
RemovedNever(value) == FALSE

\* A storage event is about the token having been removed.
Removed(value) == value = 0

Hear(t) ==
  /\ t \notin deaf /\ news[t] # <<>>
  /\ news' = [news EXCEPT ![t] = Tail(@)]
  /\ IF Removed(Head(news[t]))
     THEN /\ signed' = [signed EXCEPT ![t] = 0]
          /\ screen' = [screen EXCEPT ![t] = IF @ = "app" THEN "login" ELSE @]
     ELSE UNCHANGED <<signed, screen>>
  /\ UNCHANGED <<storage, sent, expired, logins, hearingVars>>

\* The browser has an event for a page without a listener: it is gone.
Overhear(t) ==
  /\ t \in deaf /\ news[t] # <<>>
  /\ news' = [news EXCEPT ![t] = Tail(@)]
  /\ missed' = IF Removed(Head(news[t])) THEN missed \cup {t} ELSE missed
  /\ UNCHANGED <<storage, signed, screen, sent, expired, logins, deaf>>

\* The request interceptor takes the token from the storage, whatever the tab shows.
Ask(t) ==
  /\ screen[t] = "app" /\ sent[t] = {}
  /\ sent' = [sent EXCEPT ![t] = {storage}]
  /\ UNCHANGED <<storage, signed, screen, news, expired, logins, hearingVars>>

TimeOut(n) ==
  /\ n \in 1..logins \ expired
  /\ expired' = expired \cup {n}
  /\ UNCHANGED <<storage, signed, screen, news, sent, logins, hearingVars>>

\* authMiddleware answers 401 to a request without a token or with an expired one: the
\* response interceptor ends whatever session there is by now and leaves for the login page.
Answered(t) ==
  /\ sent[t] # {} /\ screen[t] # "leaving"
  /\ sent' = [sent EXCEPT ![t] = {}]
  /\ IF sent[t] \subseteq (1..logins) \ expired
     THEN UNCHANGED <<storage, screen, news>>
     ELSE Store(t, 0) /\ screen' = [screen EXCEPT ![t] = "leaving"]
  /\ UNCHANGED <<signed, expired, logins, hearingVars>>

\* A page is loaded: the login page after a 401, or any page the user types or reloads.
\* AuthProvider starts with what is stored, and knows of no earlier event; its listener is
\* added by an effect, in a later task.
Load(t) ==
  /\ signed' = [signed EXCEPT ![t] = storage]
  /\ news' = [news EXCEPT ![t] = <<>>]
  /\ sent' = [sent EXCEPT ![t] = {}]
  /\ \/ screen' = [screen EXCEPT ![t] = "login"]
     \/ screen[t] # "leaving" /\ storage # 0 /\ screen' = [screen EXCEPT ![t] = "app"]
  /\ deaf' = deaf \cup {t} /\ missed' = missed \ {t}
  /\ UNCHANGED <<storage, expired, logins>>

Listen(t) ==
  /\ t \in deaf
  /\ deaf' = deaf \ {t}
  /\ UNCHANGED <<storage, signed, screen, news, sent, expired, logins, missed>>

-----------------------------------------------------------------------------
SessionInit ==
  /\ storage = 0
  /\ signed = [t \in Views |-> 0]
  /\ screen = [t \in Views |-> "login"]
  /\ news = [t \in Views |-> <<>>]
  /\ sent = [t \in Views |-> {}]
  /\ expired = {} /\ logins = 0
  /\ deaf = {} /\ missed = {}

SessionNext ==
  \/ \E t \in Views : \/ Login(t) \/ Logout(t) \/ Hear(t) \/ Overhear(t) \/ Ask(t)
                      \/ Answered(t) \/ Load(t) \/ Listen(t)
  \/ \E n \in 1..MaxLogins : TimeOut(n)

SessionSpec == SessionInit /\ [][SessionNext]_sessionVars

-----------------------------------------------------------------------------
\* The shape of the session.
SessionTypeOK ==
  /\ storage \in 0..logins /\ expired \subseteq 1..logins
  /\ deaf \subseteq Views /\ missed \subseteq Views
  /\ \A t \in Views : signed[t] \in 0..logins /\ screen[t] \in {"login", "app", "leaving"}

\* A logout in one tab, or a session that the server ended, reaches the others: with nothing
\* in the storage, a tab that is still signed in is leaving, or has the event on its way, or
\* is one whose loading the removal fell into -- after it had read the storage and before it
\* listened.  That tab stays signed in until its next request, which goes without a token.
LogoutReachesEveryTab ==
  storage = 0 =>
    \A t \in Views : signed[t] # 0 =>
      \/ screen[t] = "leaving" \/ t \in missed
      \/ \E i \in DOMAIN news[t] : news[t][i] = 0
=============================================================================
