----------------------------- MODULE AdminPanel -----------------------------
(***************************************************************************)
(* The node admin panel's page script (sp/web/panel/statics/js/main.js)    *)
(* running in several browser tabs of one origin. Each tab holds its own   *)
(* API object, whose token is read from localStorage by API.init() on      *)
(* every page load; localStorage is shared by the tabs. API.call and its   *)
(* _post/_get/_delete are synchronous ($.ajax with async: false), so each  *)
(* handler below runs to completion in its tab. tips() shows an alert in   *)
(* a DOM element and starts a setInterval that closes every alert of the   *)
(* page each period; nothing clears it until the page unloads.             *)
(*                                                                         *)
(* Abstractions: time is counted in ticks, Period ticks to the 1000 ms of  *)
(* the interval; an alert is its age in ticks; a request is the tab that   *)
(* sent it and what localStorage held when it went out; the login          *)
(* server's answer is an errcode (200 or another) and a token value.       *)
(***************************************************************************)
EXTENDS Naturals, Sequences

CONSTANTS
    Tabs,        \* browser tabs showing the panel's origin
    Doms,        \* DOM elements tips() writes an alert into
    Tokens,      \* session tokens the login endpoint hands out
    Null,        \* null: no token in localStorage / API.token cleared
    Empty,       \* "": the login endpoint's empty token, API.token's default
    Period,      \* ticks per 1000 ms, the period of tips()'s setInterval
    MaxTimers,   \* bound on the intervals one page load starts
    NoAlert      \* no alert in a DOM element

\* The two kinds of page: login.html (isLoginPage = true) and the others.
Pages == {"login", "panel"}

ASSUME AdminPanelAssumption ==
    /\ Null \notin Tokens /\ Empty \notin Tokens /\ Null # Empty
    /\ Null \notin Pages
    /\ Period \in Nat \ {0}
    /\ MaxTimers \in Nat
    /\ NoAlert \notin Nat

VARIABLES
    storage,     \* localStorage "token"
    page,        \* page[t]: the page tab t shows
    target,      \* target[t]: the page tab t is navigating to, or Null
    token,       \* token[t]: API.token of tab t's page
    timers,      \* timers[t]: ticks until each interval of tips() fires
    alerts,      \* alerts[t][d]: age in ticks of the alert in d, or NoAlert
    calls        \* the API requests sent: [tab, stored]

vars == <<storage, page, target, token, timers, alerts, calls>>

Request == [tab : Tabs, stored : Tokens \cup {Null}]
NoAlerts == [d \in Doms |-> NoAlert]

TypeOK ==
    /\ storage \in Tokens \cup {Null}
    /\ page \in [Tabs -> Pages \cup {Null}]
    /\ target \in [Tabs -> Pages \cup {Null}]
    /\ token \in [Tabs -> Tokens \cup {Null, Empty}]
    /\ timers \in [Tabs -> Seq(0..Period)]
    /\ alerts \in [Tabs -> [Doms -> Nat \cup {NoAlert}]]
    /\ calls \subseteq Request

\* A tab whose page has loaded: its handlers, callbacks and timers run.
\* Setting window.location.href (_redirect) only starts a navigation; the
\* old document keeps running until the new page replaces it (Load).
Interactive(t) == page[t] # Null

\* API.init() on page p of a tab, with localStorage holding tok: the
\* token is read, and a missing one on a page other than login.html
\* redirects there.
InitRedirect(p, tok) == IF tok = Null /\ p # "login" THEN "login" ELSE Null

-----------------------------------------------------------------------------
\* A browser may already hold a token from an earlier session; every tab
\* starts by loading a page.
Init ==
    /\ storage \in Tokens \cup {Null}
    /\ page = [t \in Tabs |-> Null]
    /\ target \in [Tabs -> Pages]
    /\ token = [t \in Tabs |-> Empty]
    /\ timers = [t \in Tabs |-> <<>>]
    /\ alerts = [t \in Tabs |-> NoAlerts]
    /\ calls = {}

\* The user opens a page in a tab, follows a link or reloads.
Navigate(t, p) ==
    /\ target' = [target EXCEPT ![t] = p]
    /\ UNCHANGED <<storage, page, token, timers, alerts, calls>>

\* The navigation completes: the old page unloads with its intervals and
\* alerts, and the new page's $(function) runs API.init().
Load(t) ==
    LET p == target[t] IN
    /\ p # Null
    /\ page' = [page EXCEPT ![t] = p]
    /\ token' = [token EXCEPT ![t] = storage]
    /\ target' = [target EXCEPT ![t] = InitRedirect(p, storage)]
    /\ timers' = [timers EXCEPT ![t] = <<>>]
    /\ alerts' = [alerts EXCEPT ![t] = NoAlerts]
    /\ UNCHANGED <<storage, calls>>

\* Mutant: the success callback without the check of an empty token.
LoginUnchecked(t) ==
    /\ Interactive(t) /\ page[t] = "login"
    /\ \E errcode \in {200, 500}, tok \in Tokens \cup {Empty} :
          \/ /\ errcode = 200
             /\ storage' = tok
             /\ target' = [target EXCEPT ![t] = "panel"]
          \/ /\ errcode # 200
             /\ UNCHANGED <<storage, target>>
    /\ UNCHANGED <<page, token, timers, alerts, calls>>

\* API.login() on login.html: the synchronous POST /login, whose success
\* callback stores a non-empty token and redirects to "/". API.token of
\* the login page is left as it was.
Login(t) ==
    /\ Interactive(t) /\ page[t] = "login"
    /\ \E errcode \in {200, 500}, tok \in Tokens \cup {Empty} :
          \/ /\ errcode = 200 /\ tok # Empty
             /\ storage' = tok
             /\ target' = [target EXCEPT ![t] = "panel"]
          \/ /\ ~(errcode = 200 /\ tok # Empty)
             /\ UNCHANGED <<storage, target>>
    /\ UNCHANGED <<page, token, timers, alerts, calls>>

\* The #logout click handler, API.Logout(): the token is cleared in the
\* tab and in localStorage, and API.init() then redirects to login.html.
Logout(t) ==
    /\ Interactive(t) /\ page[t] = "panel"
    /\ storage' = Null
    /\ token' = [token EXCEPT ![t] = Null]
    /\ target' = [target EXCEPT ![t] = InitRedirect(page[t], Null)]
    /\ UNCHANGED <<page, timers, alerts, calls>>

\* API.isLogined(), as login.html calls it: a stored token sends the user
\* on to "/".
IsLogined(t) ==
    /\ Interactive(t) /\ page[t] = "login"
    /\ token' = [token EXCEPT ![t] = storage]
    /\ target' = [target EXCEPT ![t] = IF storage # Null THEN "panel" ELSE Null]
    /\ UNCHANGED <<storage, page, timers, alerts, calls>>

\* API.call from a panel page: the request goes out synchronously; the
\* token is not part of it.
Call(t) ==
    /\ Interactive(t) /\ page[t] = "panel"
    /\ calls' = calls \cup {[tab |-> t, stored |-> storage]}
    /\ UNCHANGED <<storage, page, target, token, timers, alerts>>

\* Mutant: tips() without its setInterval.
TipsNoTimer(t, d) ==
    /\ Interactive(t)
    /\ Len(timers[t]) < MaxTimers
    /\ alerts' = [alerts EXCEPT ![t][d] = 0]
    /\ UNCHANGED <<storage, page, target, token, timers, calls>>

\* tips(dom, type, msg): the alert replaces the content of dom, and a new
\* interval of 1000 ms is started.
Tips(t, d) ==
    /\ Interactive(t)
    /\ Len(timers[t]) < MaxTimers
    /\ alerts' = [alerts EXCEPT ![t][d] = 0]
    /\ timers' = [timers EXCEPT ![t] = Append(@, Period)]
    /\ UNCHANGED <<storage, page, target, token, calls>>

\* An interval of tips() fires: $(".alert").alert("close") closes every
\* alert of the page, and the interval is due again a period later.
Fire(t, k) ==
    /\ timers[t][k] = 0
    /\ alerts' = [alerts EXCEPT ![t] = NoAlerts]
    /\ timers' = [timers EXCEPT ![t][k] = Period]
    /\ UNCHANGED <<storage, page, target, token, calls>>

\* One tick passes; it cannot pass a due interval, which the browser runs
\* first.
Tick ==
    /\ \A t \in Tabs : \A k \in DOMAIN timers[t] : timers[t][k] > 0
    /\ timers' = [t \in Tabs |-> [k \in DOMAIN timers[t] |-> timers[t][k] - 1]]
    /\ alerts' = [t \in Tabs |-> [d \in Doms |->
                    IF alerts[t][d] = NoAlert THEN NoAlert
                    ELSE alerts[t][d] + 1]]
    /\ UNCHANGED <<storage, page, target, token, calls>>

Next ==
    \/ \E t \in Tabs, p \in Pages : Navigate(t, p)
    \/ \E t \in Tabs :
          \/ Load(t) \/ Login(t) \/ Logout(t) \/ IsLogined(t) \/ Call(t)
          \/ \E d \in Doms : Tips(t, d)
          \/ \E k \in DOMAIN timers[t] : Fire(t, k)
    \/ Tick

Spec == Init /\ [][Next]_vars

-----------------------------------------------------------------------------
(***************************************************************************)
(* Properties.                                                             *)
(***************************************************************************)

\* Every alert tips() shows is dismissed at most 1000 ms (Period ticks)
\* after it was shown: the interval the same call starts fires by then,
\* however many other intervals run.
AlertClosedWithinPeriod ==
    \A t \in Tabs, d \in Doms :
        alerts[t][d] # NoAlert => alerts[t][d] <= Period

\* The alert in d is closed by an interval (not by the page unloading).
Dismissed(t, d) ==
    alerts[t][d] # NoAlert /\ alerts'[t][d] = NoAlert /\ timers'[t] # <<>>

\* What tips() sets out to do, setInterval(close, 1000) after showing the
\* alert: every alert stays up for the full 1000 ms before it is closed.
AlertShownForFullPeriod ==
    [][\A t \in Tabs, d \in Doms : Dismissed(t, d) => alerts[t][d] >= Period]_vars

\* The panel is a token-gated AJAX wrapper (spec, scope): an API request
\* goes out from a panel page only while a session token is stored, so
\* none after a Logout, in the logged-out tab or in any other.
TokenGatedCalls ==
    \A c \in calls : c.stored # Null
=============================================================================
